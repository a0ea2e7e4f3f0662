SPECIFICATION Spec
CONSTANTS
  Bits = 12
  SelectorShift = 8
  CodeSize = 2048
  MaxDepth = 1
  MaxTransactions = 1
  Systems <- MCSystems
  Transactions <- MCTransactions
INVARIANT StackEmpty
PROPERTY Correct
CHECK_DEADLOCK FALSE
