SPECIFICATION Spec
CONSTANTS
  Word = 2
  SelectorLen = 1
  MaxWords = 4
  ScratchInTuples = FALSE
  MaxLocal = 14
  MaxSize = 6
INVARIANT TypeOK
INVARIANT LoadsOwn
PROPERTY OneOwner
CHECK_DEADLOCK FALSE
