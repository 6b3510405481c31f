SPECIFICATION Spec
CONSTANTS
  Channels = {c1}
  MaxTrips = 1
  MaxRev = 1
  MaxPush = 1
  MaxInbox = 2
  Pushed = {"other"}
  EarlyPush = FALSE
  Rewinds = FALSE
INVARIANT AcceptedObservationSaysSo
CHECK_DEADLOCK FALSE
