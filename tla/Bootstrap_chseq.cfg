CONSTANTS
  Clients = {k1}
  Channels = {ch1}
  SeqSize = 4
  FieldSize = 16
  ReliableBase <- MCReliableBase
  MaxJump = 2
  NumPackets = 3
  StopAhead = 2
  MaxSeq = 6
  MaxConnections = 1
SPECIFICATION Spec
INVARIANTS CleanSequence
