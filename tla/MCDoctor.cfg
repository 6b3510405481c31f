SPECIFICATION CommandSpec
CONSTANTS
  Procs = {p1, p2}
  Logging = logging
  Other = other
  Surface = surface
  Events = events
  Archive = archive
  S1 = s1
  S2 = s2
  S3 = s3
  KeyA = keyA
  RawRef = rawRef
  Unnamed = unnamed
  Cameras = cameras
  Status = status
  Keys <- MCKeys
  Ids = {1}
  Fields = {}
  Values = {}
  Rests = {s1, s2, s3}
  Services = {logging}
  Gateways = {g1}
  Relays = {}
  Asked = logging
  SurfaceChannel = surface
  Nodes = {events}
  Surfaces = {s1, s2, s3}
  Backing <- MCBacking
  Blank = ""
  Answers <- MCAnswers
  EventsNode = events
  Directories <- MCDirectories
  StoragePin = pin
  Times <- MCTimes
  MemberKeys <- MCMemberKeys
  OpaqueRefs <- MCOpaqueRefs
  Names <- MCNames
  Leaves <- MCLeaves
  Documents <- MCDocuments
  Deltas <- MCDeltas
INVARIANTS
  CommandsTypeOK SetFollowsAnsweredSurface ObserverHearsTheNews DoctorPassMeansRetained DirectoryNarrows DeltaDoneInTurn
CHECK_DEADLOCK FALSE
SYMMETRY Perms
