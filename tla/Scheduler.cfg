SPECIFICATION FairSpec
CONSTANTS
  Schedules = {s1}
  Interval <- EveryTwoSeconds
  Callers = {c1, c2}
  Managers = {c1}
  Loops = {t1, t2}
  NoSchedule = NoSchedule
  NoLoop = NoLoop
  MaxStarts = 2
  MaxCrashes = 1
INVARIANTS
  TypeOK
  StoredIsArmed
  FrequencyKept
PROPERTIES
  ScheduledFires
  RemovedStops
