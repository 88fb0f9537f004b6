\* The port and the query of a URL.
SPECIFICATION Spec
CONSTANTS
  Calls <- MCUrlCalls
  Given <- MCGiven
  Outgoing <- MCOutgoing
  Incoming <- MCIncoming
  MaxSockets = 1
  MaxEngines = 1
  MaxPackets = 1
CHECK_DEADLOCK FALSE
INVARIANTS
  OwnUrl
