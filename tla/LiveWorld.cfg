CONSTANTS
  Keys = {k1, k2}
  DynamicBase = 16
  BlockSize = 8
  LastOffset = 4
  Space = 64
  MaxSlots = 3
SPECIFICATION WorldSpec
INVARIANTS WorldTypeOK BlockOwnership BlocksDisjoint ClientsHaveSessions
PROPERTIES FreshGuids
SYMMETRY Symmetry
