SPECIFICATION Spec
CONSTANTS
  Runtimes <- MCRuntimes
  Constructors <- MCConstructors
  Signatures <- MCSignatures
  Texts <- MCTexts
  Values = {7, 40}
  Lengths = {0, 5}
  CodeWord = 999999
  PcRange = 65536
INVARIANT ArgumentsArrive
CHECK_DEADLOCK FALSE
