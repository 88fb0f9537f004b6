\* A user who connects while the close of the last connection is being sent.
SPECIFICATION Spec
CONSTANTS
  Namespaces = {n1, n2}
  Attempts = 2
  Timeout = TRUE
  MaxEngines = 7
  MaxCalls = 2
CHECK_DEADLOCK FALSE
INVARIANTS EnsuresOpen
