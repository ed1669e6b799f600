CONSTANTS
  Clients = {c1}
  Guids = {g1, g2}
  Threads = {t1, t2}
  Movers = {t1}
  Changing = {g1}
  MaxVersion = 2
  MaxJoins = 2
SPECIFICATION FairSpec
INVARIANTS TypeOK NoLostMove NoLostUpdate NoGhost
PROPERTIES SpawnOnce ImplementsReplicaView DestroyReaches UpdateReaches
