SPECIFICATION Spec
CONSTANTS
  Jobs = {j1}
  Submitters = {s1}
  Operators = {o1, o2}
  CheckpointingWorkers = {}
  KeyOf <- NoKeys
  NoKey = NoKey
  Referenced = {j1}
  Authorized = {j1}
  NoJob = NoJob
  NoWorker = NoWorker
  MaxRetries = 1
  HalfDelay = 1
  LeaseTicks = 1
  MaxCrashes = 0
INVARIANTS
  NoDoubleExecution
