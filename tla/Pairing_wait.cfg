SPECIFICATION FairSpec
CONSTANTS
  Relays = {r1, r2}
  Claims = {k1, k2}
  MaxWaits = 2
  MaxQueue = 3
INVARIANTS
  TypeOK RequestOncePerClaim StoppedMeansNoneHeard WaitIgnoresOthers
PROPERTY WaitEnds
CHECK_DEADLOCK FALSE
