SPECIFICATION Spec
CONSTANTS
  eth = eth
  vlan = vlan
  ip = ip
  Blank = Blank
  Node <- MCNode
  Packets <- MCPackets
  MaxPackets = 4
  MaxBatch = 3
  MaxTasks = 2
  MaxWalk = 3
  Mod = 16
INVARIANTS TypeOK ScatterExact
PROPERTIES RowsKept ImplementsSerial CallReturns
