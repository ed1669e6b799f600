CONSTANTS
  Clients = {k1}
  NumPackets = 1
  Generators = 1
  MaxWindow = 3
  StallAhead = 2
  MaxSeq = 5
  MaxConnections = 2
  FirstSeq <- NearTheWrap
  MaxUnacked = 4
  MaxLate = 1
SPECIFICATION FairSpec
PROPERTIES JoinReturns
CHECK_DEADLOCK FALSE
