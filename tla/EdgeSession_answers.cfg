SPECIFICATION FairSpec
CONSTANTS
  Channels = {c1}
  MaxTrips = 2
  MaxRev = 2
  MaxPush = 2
  MaxInbox = 1
  Pushed = {"directory", "route", "service", "plan", "sealed", "other", "bad"}
  EarlyPush = FALSE
  Rewinds = TRUE
INVARIANTS RetiredSessionForgotten CursorWithinGateway
PROPERTY EndsWithAnAnswer
CHECK_DEADLOCK FALSE
