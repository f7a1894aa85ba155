SPECIFICATION Spec
CONSTANTS
  Cells = {1, 2, 3}
  FillRect = {{1}}
  OpenRect = {{2, 3}, {1, 2, 3}}
  Kind = {"image", "text", "more", "clip", "mask", "group", "tile"}
  Scissor = {1}
  StackSize = 1
  IgnoreImage = FALSE
  Caches = TRUE
  MayFail = TRUE
  MaxNodes = 6
  MaxDepth = 3
INVARIANTS CullSafe InterpretFollows DevNested
\* a list is recorded once and replayed once
CHECK_DEADLOCK FALSE
