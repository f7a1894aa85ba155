SPECIFICATION FairSpec
CONSTANTS
  Threads = {t1, t2}
  Fonts = {f1}
  Glyphs = {g1, g2}
  Pixmaps = {p1, p2, p3}
  Sizes = {1, 2}
  MaxCache = 2
  Type3 = {TRUE, FALSE}
  MayThrow = TRUE
  ValKept = TRUE
  MaxFonts = 2
  None = None
INVARIANTS CountsExact SameFont TotalExact LockKept
PROPERTIES LockReturns
\* both threads may have dropped their contexts
CHECK_DEADLOCK FALSE
