\* An emission in a "connect" listener, with retries.
SPECIFICATION Spec
CONSTANTS
  Retries = 1
  AckTimeout = FALSE
  AckKinds = {"none", "fn", "table"}
  Modifiers = {}
  ServerPids = {"p"}
  AckSizes = {0, 1}
  MaxEmits = 2
  MaxEngines = 2
  MaxServerEvents = 1
  MaxWire = 1
  MaxIds = 2
INVARIANTS OneByOne
