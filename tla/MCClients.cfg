\* The constants of the instance "levels"; the others are in the module.
SPECIFICATION InstancesSpec
CONSTANTS
  Accounts <- MCAccounts
  UserOf <- MCUserOf
  Legacy = {}
  MaxOrders = 2
  MaxEvents = 2
  MaxMinute = 0
  Placements <- TwoLevels
  OneCallEach = TRUE
  NewSizes = {2}
  Capacity = 1
  Levels = 2
  PriceLevels = TRUE
  MaxFaults = 1
INVARIANTS
  PublishedTrue
  EachResultTrue
PROPERTY
  ClientsServed
\* The models stop at their bounds.
CHECK_DEADLOCK FALSE
