SPECIFICATION FairSpec
CONSTANTS
  MaxText = 2
  InputRoom = 1
  OutputRoom = 1
  EventRoom = 1
  MaxFired = 1
PROPERTIES
  StopEnds
CHECK_DEADLOCK FALSE
