SPECIFICATION FairSpec
CONSTANTS
  Bits = 12
  SelectorShift = 8
  CodeSize = 2048
  MaxDepth = 3
  MaxTransactions = 2
  Senders = {1, 2}
  Arguments = {1, 2, 4095}
  SomeTexts <- MCTexts
  OtherTargets = {}
  Systems <- MCCorpus
  Transactions <- MCTransactions
INVARIANTS TypeOK JumpsResolved StackEmpty NoFallThrough NothingTorn
PROPERTIES Correct EveryTransactionEnds
CHECK_DEADLOCK FALSE
