SPECIFICATION Spec
CONSTANTS
  N = 3
  Modulus = 4
  Calls <- MCCalls
INVARIANTS TypeOK Conserved
PROPERTY Custody
