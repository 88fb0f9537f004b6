\* Two calls of io() for two namespaces, with reconnections.
SPECIFICATION Spec
CONSTANTS
  Calls <- MCCalls
  Given <- MCGiven
  Outgoing <- MCOutgoing
  Incoming <- MCIncoming
  MaxSockets = 2
  MaxEngines = 3
  MaxPackets = 2
CHECK_DEADLOCK FALSE
INVARIANTS
  TypeOK
  OwnSession
  RightPlace
PROPERTIES
  Routed
