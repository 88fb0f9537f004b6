\* Two transports, and a limit of as many requests as they have threads.
SPECIFICATION Spec
CONSTANTS
  Transports = {t1, t2}
  MAX_REQUEST_PER_INTERVAL = 6
  REQUEST_TIMES_RESET_INTERVAL = 2
INVARIANTS
  TypeOK
  Overshoot
PROPERTIES
  EveryoneServed
