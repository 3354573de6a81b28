\* Takers of every kind: limit orders of each restriction and self match
\* behavior, market orders and swaps, with fees that do not divide evenly.
SPECIFICATION Spec
CONSTANTS
  t1 = t1
  t2 = t2
  NoTaker = NoTaker
  LotSize = 2
  TickSize = 3
  HI_64 = 36
  HI_PRICE = 2
  NNodesMax = 4
  Traders = {t1, t2}
  MinSize = 1
  TakerFeeDivisor = 4
  Endowment <- MCEndowment
  EndowBase = 8
  EndowQuote = 20
  MaxCounter = 3
  Amounts = {28}
  Prices = {1, 2}
  Sizes = {1, 2}
  Restrictions = {"none", "fillOrAbort", "postOrAbort", "immediateOrCancel"}
  Behaviors = {"abort", "cancelBoth", "cancelMaker", "cancelTaker"}
  MarketSizes = {1, 3}
  SwapTakers = {t1, t2, NoTaker}
  SwapBounds <- MCSwapBounds
  SwapLimits = {0, 1, 2}
  SwapMinBase = {0, 2}
  SwapMaxBase = {7}
  SwapMinQuote = {0}
  SwapMaxQuote = {7, 36}
  NewSizes = {}
  CancelAllSides = {}
  CancelSides = {}
  AdvanceSizes = {}
  AdvanceTargets = {}
SYMMETRY Symmetric
INVARIANTS
  TypeOK
  BookMatchesAccounts
  AssetsConserved
  CoinsInFlightSuffice
  MatchIsExhaustive
  TakerWithinLimits
  NoEmptyOrders
\* The order counter is bounded: the model stops where the market does not.
CHECK_DEADLOCK FALSE
