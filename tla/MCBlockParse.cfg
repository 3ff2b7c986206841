SPECIFICATION Spec
CONSTANTS
  W = 96
  Blocks <- MCBlocks
  FileSizes <- MCFileSizes
  MaxRefs = 2
  OptLengths <- MCOptLengths
INVARIANTS
  TypeOK
  ParseInside
  RowsExact
PROPERTY Returns
CHECK_DEADLOCK FALSE
