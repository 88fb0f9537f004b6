\* Reconnection with one retry or two, and a user who connects, disconnects
\* and switches reconnection at any time.
SPECIFICATION Spec
CONSTANTS
  Namespaces = {n1, n2}
  Attempts = 2
  Timeout = TRUE
  MaxEngines = 7
  MaxCalls = 5
CHECK_DEADLOCK FALSE
INVARIANTS
  TypeOK
  OneTimer
  AttemptsBounded
  NoLeakedEngine
  NeverIdle
PROPERTIES
  NoUnwantedEngine
  ReconnectionEnds
