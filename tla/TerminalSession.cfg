SPECIFICATION Spec
CONSTANTS
  MaxText = 1
  InputRoom = 1
  OutputRoom = 1
  EventRoom = 1
  MaxFired = 1
INVARIANTS
  NoLostUpdate
  CursorWillSettle
PROPERTIES
  LateTimersRest
CHECK_DEADLOCK FALSE
