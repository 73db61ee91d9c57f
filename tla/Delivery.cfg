SPECIFICATION FairDeliverySpec
CONSTANTS
  Zabbixes = {z1, z2}
  Generations = {1, 2}
  MaxBatches = 3
  CrashOnRejection = FALSE
INVARIANTS OnePlace RightServer
PROPERTIES OutcomesSpec
