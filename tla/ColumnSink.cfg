SPECIFICATION SinkSpec
CONSTANTS
  N = 3
  Rows = {r1, r2}
  MaxPushed = 7
  MaxFailures = 2
  Garbage = Garbage
INVARIANTS SinkTypeOK ExactlyOnce
PROPERTY EverythingDrained
