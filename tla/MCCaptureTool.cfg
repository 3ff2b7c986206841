SPECIFICATION Spec
CONSTANT MaxBlocks = 3
CONSTANT Files <- MCFiles
CHECK_DEADLOCK FALSE
INVARIANT TypeOK
PROPERTY ImplementsStream
