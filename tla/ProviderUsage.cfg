SPECIFICATION FairSpec
CONSTANTS
  EventRoom = 1
  WireRoom = 1
  MaxWindow = 1
  MaxClock = 2
  HelperWindows = {1}
INVARIANTS
  ShownIsCached
PROPERTIES
  NewestEventKept
  CodexComesThrough
  CloseReturns
