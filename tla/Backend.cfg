SPECIFICATION MCSpec
CONSTANTS
  Client = {c1, c2}
  Sender = {c1, c2}
  Server = server
  EmptyFrame = empty
  SendCap = 1
  BroadcastCap = 1
  MaxMsgs = 2
  MaxBroadcasts = 1
  Request = {r1, r2}
  MaxRestarts = 1
SYMMETRY Symmetry
INVARIANTS TypeOK NoPanic PerSourceOrder
           FailedCleansUp ClusterRuns DeletedStaysDeleted TaskHonest
CHECK_DEADLOCK FALSE
