SPECIFICATION Spec
CONSTANTS
  z1 = z1  z2 = z2  d1 = d1  d2 = d2  item1 = item1  item2 = item2
  p1 = p1  p2 = p2  q1 = q1  q2 = q2  confA = confA  confB = confB  noPlugin = noPlugin  noPool = noPool
  Zabbixes = {z1, z2}
  DBs = {d1, d2}
  Monitors <- MCMonitors
  Queries = {q1}
  Periods = {p1, p2}
  NoPeriod = NoPeriod
  MinPeriod = p1
  DbConfs = {confA, confB, noPlugin, noPool}
  BadDbConfs = {noPlugin}
  BrokenDbConfs = {noPool}
  Confs <- MCConfs
  Generations = {1, 2}
  MaxAbandoned = 0
  CrashOnRejection = FALSE
  MaxHandleNo = 2
  MaxTimerId = 8
INVARIANTS TimersHaveOneOwner OneTimeoutPerTimer ConfigurationInForce StatusTellsInFlight
PROPERTIES KeptTimersUndisturbed ConnectorLostWithReason
