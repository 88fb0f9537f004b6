\* The whole life of one engine: two messages each way and a ping.
SPECIFICATION Spec
CHECK_DEADLOCK FALSE
CONSTANTS
  FastRequests = FALSE
  MaxWrites = 2
  MaxMessages = 2
  MaxPings = 1
INVARIANTS
  TypeOK
  OnePoll
  StaysShut
  CloseIsTold
  PingWatched
  CloseOnce
PROPERTIES
  ClosedIsFinal
  EventuallySent
  Implements
