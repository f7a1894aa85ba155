SPECIFICATION Spec
CONSTANTS
  Cells = {1, 2, 3}
  FillRect = {{1}, {2}, {3}}
  OpenRect = {{1}, {2, 3}, {1, 2, 3}}
  Kind = {"mask"}
  Scissor = {1}
  StackSize = 1
  IgnoreImage = FALSE
  Caches = FALSE
  MayFail = FALSE
  MaxNodes = 4
  MaxDepth = 3
INVARIANTS InterpretPops
\* a list is recorded once and replayed once
CHECK_DEADLOCK FALSE
