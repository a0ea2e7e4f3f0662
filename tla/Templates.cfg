SPECIFICATION Spec
CONSTANTS
  LoopsInside = FALSE
  UnitValues = FALSE
  MaxSize = 5
INVARIANT TypeOK
INVARIANT StackSafe
INVARIANT OwnLabels
INVARIANT EveryBodyEnds
INVARIANT PlacedOnce
CHECK_DEADLOCK FALSE
