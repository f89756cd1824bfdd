SPECIFICATION Spec
CONSTANTS
  FrontEnds = {u1, u2}
  Stoppers = {}
  Runtimes = {r1, r2}
  Nobody = Nobody
  Faults = FALSE
INVARIANTS
  DatabaseKept
CHECK_DEADLOCK FALSE
