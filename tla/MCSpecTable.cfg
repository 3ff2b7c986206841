SPECIFICATION Spec
CONSTANT Capacity = 2
CONSTANT Pdus <- MCPdus
INVARIANTS TypeOK ColumnsExact ReadersAgree
