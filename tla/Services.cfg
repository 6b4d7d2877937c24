SPECIFICATION MCSpec
CONSTANTS
  Node = {n1, n2}
  Config = {cfgA}
  NoConfig = noconfig
  NoNode = nonode
  Reader = {r1}
  MaxClients = 4
  Request = {q1, q2, q3}
  Bucket = {b1}
  Capacity = 4
  Rate = 1
  Token = 2
  MaxTime = 3
  Handler = {h1, h2}
  SinkCap = 1
  QueueCap = 1
  MaxLsn = 4
  Segment = 2
  Limit = 2
  SeenCap = 3
  ChanCap = 2
  MaxBreaks = 2
INVARIANTS ClientsOpen ResultConsistent WindowBound NoDebt
           AuditKept ReportsAccounted CollectorSound
PROPERTY ServicesProgress
