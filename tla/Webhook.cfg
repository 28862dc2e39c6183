SPECIFICATION FairSpec
CONSTANTS
  Receivers = {r1}
  Clients = {c1}
  Events = {e1, e2, e3, e4}
  Scans = {e1, e2}
  Named = {e1}
  Rejected = {e3}
  NoEvent = NoEvent
  Window = 2
  RateLimitMax = 2
  MaxSent = 3
  MaxFaults = 2
  MaxIOErrors = 1
  MaxCrashes = 1
INVARIANTS
  TypeOK
  OneJobPerScan
  DiskMatchesMemory
  FailureAwaitsRetry
PROPERTIES
  NotShutOut
