SPECIFICATION FairSpec
CONSTANTS
  Jobs = {j1, j2, j3}
  Submitters = {s1}
  Operators = {o1, o2}
  CheckpointingWorkers = {o2}
  KeyOf <- SameKey
  NoKey = NoKey
  Referenced = {j1, j2}
  Authorized = {j1}
  NoJob = NoJob
  NoWorker = NoWorker
  MaxRetries = 1
  HalfDelay = 1
  LeaseTicks = 1
  MaxCrashes = 1
INVARIANTS
  TypeOK
  LeaseCoversExecution
  RetriesBounded
  AcceptedIsCompleted
  OnlyCrashStrandsSubmission
PROPERTIES
  AbandonedIsRecovered
