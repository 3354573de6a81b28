\* The constants of the instance "tiers"; the others are in the module.
SPECIFICATION InstancesSpec
CONSTANTS
  i1 = i1
  i2 = i2
  btc = btc
  usd = usd
  Integrators = {i1}
  UtilityTypes = {"APT"}
  ParameterSets <- FeeSets
  Genesis <- ThreeTiers
  HI_64 = 7
  MaxFill = 6
  MaxPayment = 3
  MaxUpdates = 2
  Coins = {btc, usd}
  Generics = {}
  Sizes = {"s1"}
  MaxMarkets = 1
  MaxUnderwriters = 0
  MaxCustodians = 0
  MaxEvents = 0
  MaxBatch = 0
INVARIANTS
  ShareWithinFee
  UpgradePathsEqual
  CoinsConserved
  RegistryAgrees
  AccountsAgree
PROPERTY
  HandlesKept
\* The models stop at their bounds.
CHECK_DEADLOCK FALSE
