CONSTANTS
  Streams = {s1, s2}
  Characters = {c1, c2}
  Unwritable = {c2}
  MaxRestarts = 2
SYMMETRY Symmetry
SPECIFICATION Spec
INVARIANTS TypeOK CreatedKept DeletedGone
