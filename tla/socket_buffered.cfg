\* An emission with an acknowledgement that is buffered over a reconnection.
SPECIFICATION Spec
CONSTANTS
  Retries = 0
  AckTimeout = FALSE
  AckKinds = {"none", "fn", "table"}
  Modifiers = {}
  ServerPids = {"p"}
  AckSizes = {0}
  MaxEmits = 2
  MaxEngines = 2
  MaxServerEvents = 1
  MaxWire = 1
  MaxIds = 2
INVARIANTS BufferedKeepHandler
