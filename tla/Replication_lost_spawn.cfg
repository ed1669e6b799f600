CONSTANTS
  Clients = {c1}
  Guids = {g1, g2}
  Threads = {t1}
  Movers = {t1}
  Changing = {}
  MaxVersion = 0
  MaxJoins = 1
SPECIFICATION Spec
INVARIANTS AllSeeAll
