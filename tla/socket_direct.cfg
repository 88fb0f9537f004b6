\* One namespace socket without the retries option: emissions with
\* an acknowledgement over two engines, and two events of the server.
SPECIFICATION Spec
CONSTANTS
  Retries = 0
  AckTimeout = FALSE
  AckKinds = {"fn"}
  Modifiers = {}
  ServerPids = {"p"}
  AckSizes = {0}
  MaxEmits = 2
  MaxEngines = 2
  MaxServerEvents = 2
  MaxWire = 1
  MaxIds = 2
INVARIANTS
  TypeOK
  AtMostOnce
  InOrder
  DeliveredInOrder
  NothingStranded
PROPERTIES
  NoBufferLoss
