\* One schedule, two overlapping ticks, a client with two calls, a crash or a failed write.
CONSTANTS
  Count = 1
  Ticks = {t1, t2}
  Users = {u1}
  None = None
  Period = 1
  MaxRuns = 2
  Expiry = 9
  Horizon = 2
  Edits = 1
  Faults = 1
SPECIFICATION Spec
SYMMETRY Symmetry
INVARIANTS RunExclusive TimerExact NoZombieRun PauseKept
CHECK_DEADLOCK FALSE
