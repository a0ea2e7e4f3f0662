CONSTANTS
  PcRange = 10
  MaxOps = 4
  MaxLabels = 2
  Vocabulary <- MCVocabulary
SPECIFICATION Spec
INVARIANTS TypeOK PassesAgree JumpsLand DestinationsAgree
PROPERTY Linking
CHECK_DEADLOCK FALSE
