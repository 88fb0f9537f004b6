\* An emission whose handler is a table: emitWithAck, or one with a timeout.
SPECIFICATION Spec
CONSTANTS
  Retries = 0
  AckTimeout = FALSE
  AckKinds = {"none", "fn", "table"}
  Modifiers = {"timeout"}
  ServerPids = {"p"}
  AckSizes = {0}
  MaxEmits = 2
  MaxEngines = 2
  MaxServerEvents = 1
  MaxWire = 1
  MaxIds = 2
PROPERTIES AckSettles
