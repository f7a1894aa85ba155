CONSTANTS
  MaxNum = 4  MaxObj = 11  MaxEdits = 3  MaxSaves = 1
  Held = {h1}
  Layout <- MCLayout  FileLen = 3
  Inside <- MCInside
  Streamed = TRUE  Siblings = FALSE  Shares = FALSE  StreamsMove = TRUE
SPECIFICATION Spec
INVARIANTS RefsExact EditsKept RetrySucceeds
PROPERTIES LentStays ReadsKeep Saves
