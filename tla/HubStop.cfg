SPECIFICATION FairSpec
CONSTANTS
  Client = {c1}
  Sender = {c1}
  Server = server
  EmptyFrame = empty
  SendCap = 1
  BroadcastCap = 1
  MaxMsgs = 1
  MaxBroadcasts = 0
PROPERTY StopLetsPumpsExit
CHECK_DEADLOCK FALSE
