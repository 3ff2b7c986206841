SPECIFICATION Spec
CONSTANT Regions <- MCRegions
INVARIANTS TypeOK RecordsSafe
PROPERTIES Exhausted Terminates
