SPECIFICATION Spec
CONSTANTS
  Catalog <- MCCatalog
  Kinds = {"raw_tlv", "someip_tlv"}
  Texts <- MCTexts
  Packets <- MCPackets
  MaxPreds = 2
  WordBits = 4
  MaxRuns = 2
  MaxLoads = 2
CHECK_DEADLOCK FALSE
INVARIANTS FailedLoadEmpties
