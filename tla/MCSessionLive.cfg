SPECIFICATION FairSpec
CONSTANTS
  Clients = {c1, c2}
  NoClient = NoClient
  MaxInputs = 0
  WireCap = 1
  MaxOutput = 1
  MayHold = TRUE
PROPERTIES
  AttachAnswered
  DroppedClientEnds
  LatestIsShown
CHECK_DEADLOCK FALSE
