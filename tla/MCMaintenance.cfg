\* The book between matches: orders rest, are cancelled, change size under any
\* order ID ever issued, advance passively and evict each other from a side of
\* two list nodes.
SPECIFICATION Spec
CONSTANTS
  t1 = t1
  t2 = t2
  NoTaker = NoTaker
  LotSize = 1
  TickSize = 1
  HI_64 = 12
  HI_PRICE = 3
  NNodesMax = 2
  Traders = {t1, t2}
  MinSize = 1
  TakerFeeDivisor = 2
  Endowment <- MCEndowment
  EndowBase = 4
  EndowQuote = 9
  MaxCounter = 3
  Amounts = {}
  Prices = {1, 2, 3}
  Sizes = {1}
  Restrictions = {"none"}
  Behaviors = {"cancelMaker", "cancelTaker"}
  MarketSizes = {}
  SwapTakers = {}
  SwapBounds <- MCSwapBounds
  SwapLimits = {}
  SwapMinBase = {}
  SwapMaxBase = {}
  SwapMinQuote = {}
  SwapMaxQuote = {}
  NewSizes = {1, 2}
  CancelAllSides = {"ask", "bid"}
  CancelSides = {"ask", "bid"}
  AdvanceSizes = {1}
  AdvanceTargets <- MCTargets
INVARIANTS
  CountersMatchOrders
  InactiveKeysChained
  NodesPartitioned
  Sorted
  BookNotCrossed
PROPERTIES
  PriceTimePriority
  StaleIdsHitNothing
  TransactionsEnd
\* The order counter is bounded: the model stops where the market does not.
CHECK_DEADLOCK FALSE
