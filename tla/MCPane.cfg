SPECIFICATION PaneSpec
CONSTANTS
  MaxText = 1
  InputRoom = 1
  OutputRoom = 1
  EventRoom = 1
  MaxFired = 0
  Agents = {a1, a2}
  Nobody = Nobody
  Grace = 4
  Hold = 2
  Window = 1
  Display = 3
INVARIANTS
  TickEarned
PROPERTIES
  CloseFinishes
  SpinnerStops
CHECK_DEADLOCK FALSE
