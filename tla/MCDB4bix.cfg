SPECIFICATION FairSystemSpec
CONSTANTS
  z1 = z1  z2 = z2  d1 = d1  item1 = item1  p1 = p1  q1 = q1  confA = confA  noPool = noPool
  Zabbixes = {z1, z2}
  DBs = {d1}
  Monitors <- MCMonitors
  Queries = {q1}
  Periods = {p1}
  NoPeriod = NoPeriod
  MinPeriod = p1
  DbConfs = {confA, noPool}
  BadDbConfs = {}
  BrokenDbConfs = {noPool}
  Confs <- MCConfs
  Generations = {1, 2}
  MaxAbandoned = 0
  MaxHandleNo = 1
  MaxTimerId = 3
  MaxBatches = 1
  CrashOnRejection = TRUE
PROPERTIES DeliveryImplemented EveryBatchSettled
