SPECIFICATION Spec
CONSTANTS
  Procs = {p1, p2}
  Keys = {k1}
  Ids = {1, 2}
  Fields = {"at"}
  Values = {1}
  Rests = {s1}
  Services = {}
  Gateways = {}
  Relays = {}
INVARIANTS
  TypeOK OneEntryPerEvent RefreshIsSilentAndOnlyRefresh UpdateCountsNewEvents
PROPERTIES
  PartialKeepsEvents SaveUndoesOnlyWhatItMissed
CHECK_DEADLOCK FALSE
SYMMETRY Perms
