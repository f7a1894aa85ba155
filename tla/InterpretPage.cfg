CONSTANTS
  Forms = {a, b}
  Groups = {a}
  None = None
  Tokens = {"q", "Q", "W", "n", "f", "sh", "image mask", "SMask", "BM", "scn", "Do",
            "Tj", "ET"}
  Faults = {"contents", "draw", "open", "later"}
  Cookies = {"lenient"}
  Annots = 1
  MaxTokens = 3
SPECIFICATION FairSpec
INVARIANTS Nested StatesKept MasksHeld MarkedWhileRun
PROPERTIES CallersKept RunEnds
\* a page is run once
CHECK_DEADLOCK FALSE
