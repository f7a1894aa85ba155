SPECIFICATION Spec
CONSTANTS
  Points = {a, b, c, d, e}
  Widths = {1, 2}
  MaxSegs = 4
SYMMETRY Symm
INVARIANTS DrawnAsOnPage OpenLinesKept FewestPaths
\* the segments are joined once
CHECK_DEADLOCK FALSE
