\* Two schedules, so that the run of one may hang, under the fairness of the timer.
CONSTANTS
  Count = 2
  Ticks = {t1, t2}
  Users = {u1}
  None = None
  Period = 1
  MaxRuns = 1
  Expiry = 9
  Horizon = 0
  Edits = 1
  Faults = 0
SPECIFICATION FairSpec
PROPERTIES DueFires
CHECK_DEADLOCK FALSE
