\* The retry queue, with volatile and timed emissions beside it.
SPECIFICATION Spec
CONSTANTS
  Retries = 1
  AckTimeout = FALSE
  AckKinds = {"fn"}
  Modifiers = {"volatile", "timeout"}
  ServerPids = {"p"}
  AckSizes = {0, 1}
  MaxEmits = 2
  MaxEngines = 2
  MaxServerEvents = 0
  MaxWire = 1
  MaxIds = 3
INVARIANTS
  CallbackOnce
  SuccessMeansReceived
  TimersMatchHandlers
  OnlyHeadTried
  QueueAdvances
PROPERTIES
  NoSilentLoss
