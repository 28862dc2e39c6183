SPECIFICATION FairSpec
CONSTANTS
  Subtasks = 6
  MaxRetries = 2
  MaxCrashes = 0
PROPERTIES
  ReturnedIsCompleted
CHECK_DEADLOCK FALSE
