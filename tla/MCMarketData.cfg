\* The constants of the instance "runs"; the others are in the module.
SPECIFICATION InstancesSpec
CONSTANTS
  Accounts <- MCAccounts
  UserOf <- MCUserOf
  Legacy = {}
  Fee <- MCFee
  MaxOrders = 3
  MaxEvents = 7
  MaxMinute = 1
  Placements <- TwoPrices
  OneCallEach = TRUE
  NewSizes = {}
  Selections <- OneByOne
  Resolution = 1
  Day = 1
  Start <- MCStart
  End = 1
  MaxFailures = 1
  MinBatchSize = 1
  DefaultBatchSize = 1
  MaxBatchSize = 4
  IncreaseCoefficient = 2
  ReduceCoefficient = 4
  TargetEvents = 2
  FewEvents = 1
  Members = {"taker"}
  BPS = {0}
  Divisor = 10
INVARIANTS
  TablesExact
  RollingVolumeNotOverstated
  SpreadsShowBook
\* The models stop at their bounds.
CHECK_DEADLOCK FALSE
