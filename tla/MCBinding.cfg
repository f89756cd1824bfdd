SPECIFICATION SavedSpec
CONSTANTS
  x1 = x1
  x2 = x2
  y1 = y1
  Panes = {1}
  NoPane = NoPane
  Procs = {1, 2}
  Sessions = {x1, y1}
  CodexSessions = {x1}
  NoSession = NoSession
  MaxClock = 1
INVARIANTS
  EndedStaysUnbound
PROPERTIES
  CodexBound
CHECK_DEADLOCK FALSE
