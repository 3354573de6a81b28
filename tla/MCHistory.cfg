\* The constants of the instance "faults"; the others are in the module.
SPECIFICATION InstancesSpec
CONSTANTS
  Accounts <- MCAccounts
  UserOf <- MCUserOf
  Legacy = {}
  MaxOrders = 2
  MaxEvents = 4
  MaxMinute = 0
  Placements <- AllKinds
  OneCallEach = FALSE
  NewSizes = {2}
  MinBatchSize = 1
  DefaultBatchSize = 1
  MaxBatchSize = 4
  IncreaseCoefficient = 2
  ReduceCoefficient = 4
  TargetEvents = 2
  FewEvents = 1
  MaxFailures = 1
INVARIANT
  StampsGivePriority
PROPERTIES
  ShowsOneVersion
  CatchesUp
\* The models stop at their bounds.
CHECK_DEADLOCK FALSE
