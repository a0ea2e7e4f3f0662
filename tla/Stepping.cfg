SPECIFICATION Spec
CONSTANTS
  Bits = 12
  SelectorShift = 8
  CodeSize = 2048
  MaxDepth = 3
  MaxTransactions = 2
  Senders = {1}
  Arguments = {1, 2}
  SomeTexts <- MCTexts
  OtherTargets = {}
  Systems <- MCStepping
  Transactions <- MCTransactions
INVARIANT EndsAsMeant
CHECK_DEADLOCK FALSE
