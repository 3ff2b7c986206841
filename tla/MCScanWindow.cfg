SPECIFICATION Spec
CONSTANT Files <- MCFiles
CHECK_DEADLOCK FALSE
INVARIANTS TypeOK RefsExact VerdictOfFile
PROPERTIES Terminates
