SPECIFICATION StartupSpec
CONSTANTS
  FrontEnds = {u1, u2}
  Stoppers = {u3}
  Runtimes = {r1, r2}
  Nobody = Nobody
  Faults = TRUE
  Commands = {k1, k2}
  Targets <- CodexAndClaude
  WithLine = {"claude"}
  MaxEdits = 1
  MaxRuns = 2
  MaxFaults = 2
  Runtime = rt
  Helpers = {h1}
  Panes = {"p1", "p2"}
  Events <- LegacyEvents
  MaxClock = 3
  MaxOpens = 2
INVARIANTS
  OneRuntime
  SettingsKept
  EventKept
PROPERTIES
  LaunchServes
CHECK_DEADLOCK FALSE
