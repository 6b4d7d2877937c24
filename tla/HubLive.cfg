SPECIFICATION MCSpec
CONSTANTS
  Client = {c1, c2}
  Sender = {c1}
  Server = server
  EmptyFrame = empty
  SendCap = 1
  BroadcastCap = 1
  MaxMsgs = 2
  MaxBroadcasts = 3
PROPERTIES StopReturns DeadPeerLeaves DroppedPumpsExit
CHECK_DEADLOCK FALSE
