SPECIFICATION Spec
CONSTANTS
  x1 = x1
  x2 = x2
  y1 = y1
  Panes = {1, 2}
  NoPane = NoPane
  Procs = {1}
  Sessions = {x1, x2}
  CodexSessions = {x1, x2}
  NoSession = NoSession
  MaxClock = 2
SYMMETRY Symmetry
CONSTRAINT FewHooks
INVARIANTS
  BindingIsOwn
  MemoryBacked
PROPERTIES
  UnvisitedKeepsSession
CHECK_DEADLOCK FALSE
