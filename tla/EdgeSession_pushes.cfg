SPECIFICATION Spec
CONSTANTS
  Channels = {c1}
  MaxTrips = 2
  MaxRev = 2
  MaxPush = 2
  MaxInbox = 2
  Pushed = {"route", "other", "bad"}
  EarlyPush = TRUE
  Rewinds = FALSE
INVARIANTS
  TypeOK PublishMeansTaken IntakeNotLost FrameUnderGrantedSession
PROPERTIES CursorNeverRegresses ImplementsFate
CHECK_DEADLOCK FALSE
