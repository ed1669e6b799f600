CONSTANTS
  Clients = {k1}
  NumPackets = 2
  Generators = 1
  MaxWindow = 3
  StallAhead = 2
  MaxSeq = 7
  MaxConnections = 3
  FirstSeq <- NearTheWrap
  MaxUnacked = 5
  MaxLate = 1
SPECIFICATION FairSpec
INVARIANTS TypeOK MapLoadWaits WindowBound OwnConnection
PROPERTIES InOrder ReplayEnds
CHECK_DEADLOCK FALSE
