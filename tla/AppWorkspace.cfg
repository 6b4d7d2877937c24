SPECIFICATION FairSpec
CONSTANTS
  MaxOps = 2
  MaxIds = 7
  MaxPuts = 2
  MaxGets = 1
  MaxFails = 1
INVARIANTS ShownIsStored FailedCreateGone SelectionHolds
PROPERTIES NoLossAlone SyncTerminates
CHECK_DEADLOCK FALSE
