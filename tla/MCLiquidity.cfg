\* Several orders of a group, and a fill; nothing fails.
SPECIFICATION Spec
CONSTANTS
  Accounts <- MCAccounts
  UserOf <- MCUserOf
  Legacy = {}
  MaxOrders = 3
  MaxEvents = 6
  MaxMinute = 1
  Placements <- BothSides
  OneCallEach = TRUE
  NewSizes = {}
  MinBatchSize = 1
  DefaultBatchSize = 1
  MaxBatchSize = 4
  IncreaseCoefficient = 2
  ReduceCoefficient = 4
  TargetEvents = 2
  FewEvents = 1
  Members = {"taker"}
  BPS = {0, 5}
  Divisor = 10
  MaxFailures = 0
  MaxCrashes = 0
INVARIANT
  LiquidityAsDocumented
\* The model stops at its bounds.
CHECK_DEADLOCK FALSE
