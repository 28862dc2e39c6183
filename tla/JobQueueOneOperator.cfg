SPECIFICATION Spec
CONSTANTS
  Jobs = {j1, j2}
  Submitters = {s1, s2}
  Operators = {o1}
  CheckpointingWorkers = {}
  KeyOf <- NoKeys
  NoKey = NoKey
  Referenced = {j1, j2}
  Authorized = {j1}
  NoJob = NoJob
  NoWorker = NoWorker
  MaxRetries = 1
  HalfDelay = 1
  LeaseTicks = 1
  MaxCrashes = 2
INVARIANTS
  NoStaleCopy
PROPERTIES
  SettledIsFinal
  ImplementsDurableJobs
