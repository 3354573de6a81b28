\* The constants of the instance "orders"; the others are in the module.
SPECIFICATION InstancesSpec
CONSTANTS
  Accounts <- MCAccounts
  UserOf <- MCUserOf
  Legacy = {}
  MaxOrders = 1
  MaxEvents = 3
  MaxMinute = 6
  Placements <- OneAsk
  OneCallEach = TRUE
  NewSizes = {1}
  Second = 2
  Epoch <- MCEpoch
  Amount = 1
  Threshold = 5
  Groups = {1, 5}
  Scale = 10
  Extra <- Recognized
  SchemaAccepts = TRUE
  MaxCrashes = 1
INVARIANTS
  EachSavedAsOf
  EachPeriodsAddUp
\* The models stop at their bounds.
CHECK_DEADLOCK FALSE
