CONSTANTS
  Clients = {k1}
  Channels = {ch1, ch2}
  SeqSize = 2
  FieldSize = 4
  ReliableBase <- MCReliableBase
  MaxJump = 1
  NumPackets = 3
  StopAhead = 2
  MaxSeq = 6
  MaxConnections = 2
SPECIFICATION FairSpec
INVARIANTS Renumbered JoinsFinished
PROPERTIES InOrder FlagClears
