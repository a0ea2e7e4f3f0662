SPECIFICATION Spec
CONSTANTS
  Runtimes <- MCRuntimes
  Constructors <- MCConstructors
  Signatures <- MCSignatures
  Texts <- MCTexts
  Values = {7, 40}
  Lengths = {1, 31, 32, 33, 65}
  CodeWord = 999999
  PcRange = 20
INVARIANTS TypeOK ArgumentsArrive LongStringsRefused RuntimeDeployed
CHECK_DEADLOCK FALSE
