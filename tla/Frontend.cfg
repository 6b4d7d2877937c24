SPECIFICATION Spec
CONSTANTS
  MaxTasks = 2
  MaxAsks = 2
  MaxVisits = 2
  MaxListFails = 1
  MaxRetries = 3
  MaxItems = 2
  MaxCrumbs = 2
  MaxTelCalls = 2
  MaxHosts = 2
  MaxHostOps = 2
  MaxHostFails = 1
  MaxEdits = 1
  MaxChanges = 1
  MaxInFlight = 2
  MaxOvFails = 1
  LogCap = 3
  MaxImports = 2
  MaxScans = 2
  MaxImpFails = 1
  MaxActs = 2
  MaxReloads = 1
  MAX_EVENTS = 3
  MaxReceived = 4
  MaxSnapFlight = 2
  MaxSnapFails = 1
  MaxNodeCount = 3
  MaxQueries = 3
  MaxQueryFails = 2
  Socket = {s1, s2, s3}
  NoSocket = nosocket
  Cap = 2
  MaxCalls = 4
INVARIANTS
  TypeOK
  ShownHonest
  DrawnRight
  ChannelsSafe
  SavedWell
PROPERTIES
  StepsSafe
  ComesToRest
  CatchesUp
CHECK_DEADLOCK FALSE
