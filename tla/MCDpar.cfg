SPECIFICATION Spec
CONSTANTS
  Catalog <- MCCatalog
  Kinds = {"raw_tlv", "someip_tlv"}
  Texts <- MCTexts
  Packets <- MCPackets
  MaxPreds = 2
  WordBits = 4
  MaxRuns = 3
  MaxLoads = 3
CHECK_DEADLOCK FALSE
INVARIANTS TypeOK RowsAccounted RowsInsidePacket AllMatch RulesMeanText
