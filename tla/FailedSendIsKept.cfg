SPECIFICATION DeliverySpec
CONSTANTS
  Zabbixes = {z1, z2}
  Generations = {1, 2}
  MaxBatches = 1
  CrashOnRejection = FALSE
PROPERTY FailedSendIsKept
