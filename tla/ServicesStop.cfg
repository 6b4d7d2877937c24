SPECIFICATION MCSpec
CONSTANTS
  Node = {n1}
  Config = {cfgA}
  NoConfig = noconfig
  NoNode = nonode
  Reader = {r1}
  MaxClients = 1
  Request = {q1}
  Bucket = {b1}
  Capacity = 1
  Rate = 1
  Token = 1
  MaxTime = 1
  Handler = {h1, h2}
  SinkCap = 1
  QueueCap = 1
  MaxLsn = 1
  Segment = 1
  Limit = 1
  SeenCap = 1
  ChanCap = 1
  MaxBreaks = 1
PROPERTY ShutdownEnds
