SPECIFICATION Spec
CONSTANTS
  Off <- MCOff
  Headers <- MCHeaders
  Sizes <- MCSizes
  Whole <- MCWhole
  RecordSizes <- MCRecordSizes
  IndexMod = 256
INVARIANTS TypeOK ChildrenExact CountsExact
PROPERTY Terminates
CHECK_DEADLOCK FALSE
