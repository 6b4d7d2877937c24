SPECIFICATION FairSpec
CONSTANTS
  Node = {n1}
  Direct = direct
  Config = {cfgA, cfgB}
  NoConfig = noconfig
  NoNode = nonode
  Request = {r1, r2}
  MaxClients = 3
  MaxRequests = 3
  MaxEdits = 1
  MaxRestarts = 1
INVARIANT ReadyIsConnected
PROPERTY ConnectingSettles
CHECK_DEADLOCK FALSE
