SPECIFICATION Spec
CONSTANTS
  Cols <- MCCols
  Values = {0, 1}
  Capacity = 3
CHECK_DEADLOCK FALSE
INVARIANTS TypeOK BatchOrNothing
