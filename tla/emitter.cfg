\* Two functions, four registrations and two emissions that overlap.
SPECIFICATION Spec
CHECK_DEADLOCK FALSE
CONSTANTS
  Listeners = {l1, l2}
  MaxRegistrations = 4
  MaxEmits = 2
INVARIANTS
  TypeOK
  InRegistrationOrder
  MissedByRemoval
  NoneOrphaned
PROPERTIES
  OffIsFinal
