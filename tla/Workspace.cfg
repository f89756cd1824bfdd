SPECIFICATION Spec
CONSTANTS
  MaxId = 5
  MaxFailId = 3
  Looks = {0, 1}
INVARIANTS
  PanesOwned
  TargetsHold
  NothingUnsaved
  DragIsOwn
CHECK_DEADLOCK FALSE
