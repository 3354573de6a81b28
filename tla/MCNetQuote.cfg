\* The documented bound on the net quote of a taker.
SPECIFICATION Spec
CONSTANTS
  t1 = t1
  t2 = t2
  NoTaker = NoTaker
  LotSize = 1
  TickSize = 1
  HI_64 = 40
  HI_PRICE = 2
  NNodesMax = 4
  Traders = {t1, t2}
  MinSize = 1
  TakerFeeDivisor = 3
  Endowment <- MCEndowment
  EndowBase = 4
  EndowQuote = 8
  MaxCounter = 3
  Amounts = {}
  Prices = {1, 2}
  Sizes = {1}
  Restrictions = {"none"}
  Behaviors = {"abort"}
  MarketSizes = {}
  SwapTakers = {NoTaker}
  SwapBounds <- MCSwapBounds
  SwapLimits = {0, 2}
  SwapMinBase = {0}
  SwapMaxBase = {2}
  SwapMinQuote = {0}
  SwapMaxQuote = {1, 2, 3}
  NewSizes = {}
  CancelAllSides = {}
  CancelSides = {}
  AdvanceSizes = {}
  AdvanceTargets = {}
SYMMETRY Symmetric
INVARIANTS
  NetQuoteWithinMax
\* The order counter is bounded: the model stops where the market does not.
CHECK_DEADLOCK FALSE
