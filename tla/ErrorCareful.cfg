SPECIFICATION Spec
CONSTANTS
  Size = 5
  Errors = {1, 2}
  Careful = TRUE
INVARIANT InStep
PROPERTIES KeepsPromise
\* nothing follows an uncaught exception
CHECK_DEADLOCK FALSE
