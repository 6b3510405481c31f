SPECIFICATION Spec
CONSTANTS
  Relays = {r1}
  Claims = {k1}
  MaxWaits = 1
  MaxQueue = 1
INVARIANT ExpiredCodeUnused
CHECK_DEADLOCK FALSE
