CONSTANTS
  Keys = {k1, k2}
  DynamicBase = 16
  BlockSize = 8
  LastOffset = 4
  Space = 64
  MaxSlots = 4
SPECIFICATION ConnSpec
INVARIANTS ConnTypeOK WorldKeepsUp
PROPERTIES EntersTogether
SYMMETRY Symmetry
