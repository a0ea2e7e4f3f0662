SPECIFICATION Spec
CONSTANTS
  Bits = 12
  SelectorShift = 8
  CodeSize = 2048
  MaxDepth = 3
  MaxTransactions = 3
  Senders = {1, 2}
  Arguments = {1, 2}
  SomeTexts <- MCSymbol
  OtherTargets = {}
  Systems <- MCErc20
  Transactions <- MCTransactions
PROPERTIES Correct KeepsTheBooks
CHECK_DEADLOCK FALSE
