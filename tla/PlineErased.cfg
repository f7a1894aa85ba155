SPECIFICATION Spec
CONSTANTS
  Points = {a, b, c, d, e}
  Widths = {1}
  MaxSegs = 3
SYMMETRY Symm
INVARIANTS ErasedAreJoined
\* the segments are joined once
CHECK_DEADLOCK FALSE
