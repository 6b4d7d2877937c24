SPECIFICATION Spec
CONSTANTS
  Hash = {h1, h2}
  MaxEvents = 1
  Retention = 1
  MaxTime = 2
  MaxRecords = 3
  MaxRestarts = 1
INVARIANT ConcurrentUse
CHECK_DEADLOCK FALSE
