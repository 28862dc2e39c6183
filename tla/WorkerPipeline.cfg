SPECIFICATION FairSpec
CONSTANTS
  Subtasks = 6
  MaxRetries = 2
  MaxCrashes = 2
INVARIANTS
  TypeOK
  RequestsCovered
  AlertsBounded
PROPERTIES
  Settles
CHECK_DEADLOCK FALSE
