SPECIFICATION FairSpec
CONSTANTS
  Relays = {r1, r2}
  Descriptors <- MCDescriptors
  Paths <- MCPaths
  Filters = {"g1"}
  NoFilter = "noFilter"
  MaxQueue = 2
INVARIANTS
  TypeOK DrainedKnowsAll NeverGuesses HearingMoreNeverRedirects
PROPERTY LookupEnds
CHECK_DEADLOCK FALSE
