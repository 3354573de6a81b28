------------------------------- MODULE Market -------------------------------
(***************************************************************************)
(* One market: the order book of market.move, the market accounts that     *)
(* trade on it (user.move), and the transactions that change them.         *)
(*                                                                         *)
(* A transaction that matches, or that cancels several orders, is modelled *)
(* step by step: `tx' holds its local variables, coins in flight included, *)
(* and `saved' the state it began in, to which an assertion that fails     *)
(* half-way rolls the market back.  Every other transaction is one step.   *)
(* The chain executes one transaction at a time, so one begins only when   *)
(* none is under way.                                                      *)
(***************************************************************************)
EXTENDS MarketAccount, PriceTimeQueue

CONSTANTS
  Traders,            \* market accounts: user address and custodian ID
  NoTaker,            \* the taker of a swap without a market account
  MinSize,            \* fewest lots in an order
  TakerFeeDivisor,    \* quote units filled for each unit of taker fee
  Endowment,          \* what each market account first deposits
  MaxCounter          \* bound on the order counter

CONSTANTS             \* inputs
  Amounts,            \* deposited or withdrawn
  Prices, Sizes,      \* of limit orders
  Restrictions, Behaviors,
  MarketSizes,        \* of market orders
  SwapTakers, SwapBounds, SwapLimits,
  NewSizes,           \* of size changes
  CancelAllSides, CancelSides,
  AdvanceSizes, AdvanceTargets

AllRestrictions == {"none", "fillOrAbort", "postOrAbort", "immediateOrCancel"}
AllBehaviors    == {"abort", "cancelBoth", "cancelMaker", "cancelTaker"}
Percent100      == 100

(* Least and greatest amounts of each asset that a taker is to trade.      *)
Bounds == [min : [Assets -> Nat], max : [Assets -> Nat]]

ASSUME MarketAssumption ==
  /\ IsFiniteSet(Traders)
  /\ NoTaker \notin Traders
  /\ MinSize \in Nat \ {0}
  /\ TakerFeeDivisor \in Nat \ {0, 1}
  /\ Endowment \in [Assets -> 0..HI_64]
  /\ MaxCounter \in Nat

ASSUME InputAssumption ==
  /\ Amounts \subseteq Nat /\ Prices \subseteq Nat /\ Sizes \subseteq Nat
  /\ Restrictions \subseteq AllRestrictions /\ Behaviors \subseteq AllBehaviors
  /\ MarketSizes \subseteq Nat
  /\ SwapTakers \subseteq Traders \cup {NoTaker}
  /\ SwapBounds \subseteq Bounds /\ SwapLimits \subseteq Nat
  /\ NewSizes \subseteq Nat
  /\ CancelAllSides \subseteq Sides /\ CancelSides \subseteq Sides
  /\ AdvanceSizes \subseteq Nat
  /\ AdvanceTargets \subseteq {"percent", "ticks"} \X Nat

VARIABLES
  book,       \* the AVL queues of asks and bids
  acct,       \* the market accounts
  counter,    \* orders placed so far
  fees,       \* taker fees collected, by Econia and integrators
  net,        \* each asset brought into the market less what was taken out
  tx,         \* the transaction under way
  saved       \* the state it began in

vars == <<book, acct, counter, fees, net, tx, saved>>

(* An order of the book: its access key is the one of the market account.  *)
BookOrders == [user : Traders, size : Nat, access : Nat]

NoCoins == [x \in Assets |-> 0]
NoTx ==
  [status |-> "idle", kind |-> "none", taker |-> NoTaker, side |-> "ask",
   size |-> 0, price |-> 0, restriction |-> "none", behavior |-> "abort",
   bounds |-> [min |-> NoCoins, max |-> NoCoins], lots |-> 0, ticks |-> 0,
   coins |-> NoCoins, fees |-> 0, selfCancel |-> FALSE, ids |-> {}]

State   == [book |-> book, acct |-> acct, counter |-> counter, fees |-> fees,
            net |-> net]
NoState == [book |-> << >>, acct |-> << >>, counter |-> 0, fees |-> 0,
            net |-> << >>]
Idle    == tx.status = "idle"

Init ==
  /\ book = [side \in Sides |-> New(side = "ask")]
  /\ acct = [a \in Traders |->
              Deposit(Deposit(EmptyAccount, "base", Endowment["base"]),
                      "quote", Endowment["quote"])]
  /\ counter = 0
  /\ fees = 0
  /\ net = [x \in Assets |-> Cardinality(Traders) * Endowment[x]]
  /\ tx = NoTx
  /\ saved = NoState

-----------------------------------------------------------------------------
(* Collateral.                                                             *)

DepositAsset(a, x, amount) ==
  /\ Idle
  /\ CanDeposit(acct[a], x, amount)
  /\ acct' = [acct EXCEPT ![a] = Deposit(@, x, amount)]
  /\ net' = [net EXCEPT ![x] = @ + amount]
  /\ UNCHANGED <<book, counter, fees, tx, saved>>

WithdrawAsset(a, x, amount) ==
  /\ Idle
  /\ CanWithdraw(acct[a], x, amount)
  /\ acct' = [acct EXCEPT ![a] = Withdraw(@, x, amount)]
  /\ net' = [net EXCEPT ![x] = @ - amount]
  /\ UNCHANGED <<book, counter, fees, tx, saved>>

-----------------------------------------------------------------------------
(* Matching.  A taker that buys is on the side of bids, and is matched     *)
(* against asks.                                                           *)

CrossesSpread(side, price) == ~WouldUpdateHead(book[Opposite(side)], price)

(* MUTANT: the fee is subtracted from the quote a buyer may spend.         *)
MaxQuoteLessFee(side, maxQuote) ==
  LET denominator == IF side = "bid" THEN TakerFeeDivisor - 1
                                     ELSE TakerFeeDivisor + 1
      amount == (TakerFeeDivisor * maxQuote) \div denominator
  IN IF amount > HI_64 THEN HI_64 ELSE amount

(* The most quote to match so that, with fees, maxQuote is not exceeded.   *)
MaxQuoteMatch(side, maxQuote) ==
  LET denominator == IF side = "bid" THEN TakerFeeDivisor + 1
                                     ELSE TakerFeeDivisor - 1
      amount == (TakerFeeDivisor * maxQuote) \div denominator
  IN IF amount > HI_64 THEN HI_64 ELSE amount

MaxLots(t)  == t.bounds.max["base"] \div LotSize
MaxTicks(t) == MaxQuoteMatch(t.side, t.bounds.max["quote"]) \div TickSize

(* range_check_trade, for a taker with a market account.                   *)
RangeCheckTrade(m, side, b) ==
  /\ \A x \in Assets : b.max[x] > 0 /\ b.min[x] <= b.max[x]
  /\ CanDeposit(m, InAsset(side), b.max[InAsset(side)])
  /\ CanWithdraw(m, OutAsset(side), b.max[OutAsset(side)])

(* What the taker hands over before the match.                             *)
Supplied(side, b) ==
  [x \in Assets |-> IF x = OutAsset(side) THEN b.max[x] ELSE 0]

NextCounter == counter + 1

(* A match begins with a new order ID.                                     *)
BeginMatch(kind, a, side, size, price, restriction, behavior, b) ==
  /\ Idle
  /\ counter < MaxCounter
  /\ counter' = NextCounter
  /\ saved' = State
  /\ tx' = [NoTx EXCEPT
              !.status = "matching", !.kind = kind, !.taker = a,
              !.side = side, !.size = size, !.price = price,
              !.restriction = restriction, !.behavior = behavior,
              !.bounds = b, !.coins = Supplied(side, b),
              !.lots = b.max["base"] \div LotSize,
              !.ticks = MaxQuoteMatch(side, b.max["quote"]) \div TickSize]
  /\ UNCHANGED <<book, fees>>

(* Collateral of the asset that is given is withdrawn from the account.    *)
BeginFromAccount(kind, a, side, size, price, restriction, behavior, b) ==
  LET x == OutAsset(side)
  IN /\ RangeCheckTrade(acct[a], side, b)
     /\ BeginMatch(kind, a, side, size, price, restriction, behavior, b)
     /\ acct' = [acct EXCEPT ![a] = Withdraw(@, x, b.max[x])]
     /\ UNCHANGED net

(* As much quote as the account can spend, or can still receive.           *)
MaxQuoteOf(m, side) ==
  IF side = "bid" THEN m.available["quote"] ELSE HI_64 - m.ceiling["quote"]

CheckLimitOrder(size, price) ==
  /\ price \in 1..HI_PRICE
  /\ size >= MinSize
  /\ Units("base", size, price) <= HI_64
  /\ size * price <= HI_64
  /\ Units("quote", size, price) <= HI_64

PlaceLimitOrderAcrossSpread(a, side, size, price, restriction, behavior) ==
  LET base == Units("base", size, price)
      b == [min |-> [NoCoins EXCEPT !["base"] =
                       IF restriction = "fillOrAbort" THEN base ELSE 0],
            max |-> [x \in Assets |-> IF x = "base" THEN base
                                      ELSE MaxQuoteOf(acct[a], side)]]
  IN /\ Idle
     /\ CheckLimitOrder(size, price)
     /\ CrossesSpread(side, price)
     /\ restriction # "postOrAbort"
     /\ BeginFromAccount("limit", a, side, size, price, restriction,
                         behavior, b)

PlaceMarketOrder(a, side, size, behavior) ==
  LET base == Units("base", size, 0)
      b == [min |-> NoCoins,
            max |-> [x \in Assets |-> IF x = "base" THEN base
                                      ELSE MaxQuoteOf(acct[a], side)]]
  IN /\ Idle
     /\ size >= MinSize
     /\ base <= HI_64
     /\ BeginFromAccount("market", a, side, size,
                         IF side = "ask" THEN 0 ELSE HI_PRICE,
                         "none", behavior, b)

(* A swap is paid for from outside the market accounts.  Its taker is      *)
(* compared with the makers all the same.                                  *)
Swap(a, side, b, limit) ==
  /\ \A x \in Assets : b.max[x] \in 1..HI_64 /\ b.min[x] <= b.max[x]
  /\ limit <= HI_PRICE
  /\ BeginMatch("swap", a, side, 0, limit, "none", "cancelTaker", b)
  /\ net' = [x \in Assets |-> net[x] + Supplied(side, b)[x]]
  /\ UNCHANGED acct

-----------------------------------------------------------------------------
(* The loop of match: each step looks at the order at the head.            *)

Makers    == Opposite(tx.side)
HeadEntry == book[Makers].list[1]
Matching  == tx.status = "matching"

(* MUTANT: an order at the limit price is not matched.                     *)
StrictLimit(side, limit, price) ==
  IF side = "bid" THEN price >= limit ELSE price <= limit

ViolatesLimit(side, limit, price) ==
  IF side = "bid" THEN price > limit ELSE price < limit

(* MUTANT: the looser of two limits applies.                               *)
MaxOf(m, n) == IF m > n THEN m ELSE n

MinOf(m, n) == IF m < n THEN m ELSE n

(* MUTANT: the ticks left do not limit a fill.                             *)
LotsOnly == tx.lots

MaxFillSize == MinOf(tx.ticks \div HeadEntry.key, tx.lots)

HasMatch ==
  /\ ~IsEmpty(book[Makers])
  /\ ~ViolatesLimit(tx.side, tx.price, HeadEntry.key)
  /\ MaxFillSize > 0
IsSelfMatch == HeadEntry.value.user = tx.taker

(* The loop ends without a fill.                                           *)
MatchExit ==
  /\ Matching
  /\ ~HasMatch
  /\ tx' = [tx EXCEPT !.status = "settling"]
  /\ UNCHANGED <<book, acct, counter, fees, net, saved>>

(* The book order is found by the ID that the market account holds.        *)
RemoveFromBook(q, id) == RemoveEntry(q, IndexOf(q, id.node))

MakerOrderId ==
  LET maker == HeadEntry.value
  IN acct[maker.user].orders[Makers][maker.access].id

CancelsMaker == tx.behavior \in {"cancelBoth", "cancelMaker"}
(* MUTANT: one of the flags is forgotten.                                  *)
CancelsTakerIfBoth == tx.behavior = "cancelBoth"

CancelsTaker == tx.behavior \in {"cancelBoth", "cancelTaker"}

MatchSelf ==
  /\ Matching /\ HasMatch /\ IsSelfMatch
  /\ tx.behavior # "abort"
  /\ IF CancelsMaker
     THEN /\ acct' = [acct EXCEPT ![HeadEntry.value.user] =
                        CancelOrder(@, Makers, HeadEntry.key,
                                    HeadEntry.value.access)]
          /\ book' = [book EXCEPT ![Makers] = RemoveFromBook(@, MakerOrderId)]
     ELSE UNCHANGED <<acct, book>>
  /\ tx' = [tx EXCEPT !.selfCancel = CancelsTaker,
                      !.status = IF CancelsTaker THEN "settling" ELSE @]
  /\ UNCHANGED <<counter, fees, net, saved>>

(* MUTANT: an order filled to its last lot is taken to be partly filled.   *)
FillsMore == MaxFillSize > HeadEntry.value.size

CompletesFill == MaxFillSize >= HeadEntry.value.size

(* An order that is filled in part stays at the head.                      *)
FillHead(q, size) == [q EXCEPT !.list[1].value.size = @ - size]

(* The maker's order is filled, and coins change hands, at its own price.  *)
(* The fee is reckoned, and rounded down, fill by fill.                    *)
MatchFill ==
  LET head     == HeadEntry
      complete == CompletesFill
      size     == IF complete THEN head.value.size ELSE MaxFillSize
      in       == InAsset(tx.side)
      out      == OutAsset(tx.side)
      lots     == tx.lots - size
      ticks    == tx.ticks - size * head.key
      done     == ~complete \/ lots = 0 \/ ticks = 0
  IN /\ Matching /\ HasMatch /\ ~IsSelfMatch
     /\ acct' = [acct EXCEPT ![head.value.user] =
                   FillOrder(@, Makers, head.value.access, size, complete,
                             head.key)]
     /\ book' = [book EXCEPT ![Makers] =
                   IF complete THEN RemoveFromBook(@, MakerOrderId)
                   ELSE FillHead(@, size)]
     /\ tx' = [tx EXCEPT
                 !.lots = lots, !.ticks = ticks,
                 !.coins[in]  = @ + Units(in, size, head.key),
                 !.coins[out] = @ - Units(out, size, head.key),
                 !.fees = @ + Units("quote", size, head.key)
                                \div TakerFeeDivisor,
                 !.status = IF done THEN "settling" ELSE @]
     /\ UNCHANGED <<counter, fees, net, saved>>

-----------------------------------------------------------------------------
(* Posting.  `accts' are the market accounts as they stand before.         *)

CanPost(accts, a, side, size, price) ==
  /\ Admits(book[side], price)
  /\ CanPlaceOrder(accts[a], side, size, price)

PostedBook(accts, a, side, size, price) ==
  [book EXCEPT ![side] = InsertCheckEviction(@, price,
     [user |-> a, size |-> size, access |-> NextOrderAccessKey(accts[a], side)])]

(* The order is placed in its account before an evicted one is cancelled   *)
(* in the account, maybe the same, that it belongs to.                     *)
PostedAccounts(accts, orderCounter, a, side, size, price) ==
  LET q       == book[side]
      evictee == Last(q.list)
      id      == MarketOrderId(orderCounter, NextNode(Evict(q)), price)
      placed  == [accts EXCEPT ![a] = PlaceOrder(@, side, size, price, id)]
  IN IF IsFull(q)
     THEN [placed EXCEPT ![evictee.value.user] =
             CancelOrder(@, side, evictee.key, evictee.value.access)]
     ELSE placed

(* A limit order that does not cross the spread: it is posted, unless it   *)
(* was to be filled at once.                                               *)
PlaceLimitOrderInSpread(a, side, size, price, restriction) ==
  LET b == [min |-> NoCoins,
            max |-> [x \in Assets |-> Units(x, size, price)]]
  IN /\ Idle
     /\ counter < MaxCounter
     /\ CheckLimitOrder(size, price)
     /\ ~CrossesSpread(side, price)
     /\ restriction # "fillOrAbort"
     /\ RangeCheckTrade(acct[a], side, b)
     /\ counter' = NextCounter
     /\ IF restriction = "immediateOrCancel" THEN UNCHANGED <<book, acct>>
        ELSE /\ CanPost(acct, a, side, size, price)
             /\ book' = PostedBook(acct, a, side, size, price)
             /\ acct' = PostedAccounts(acct, counter', a, side, size, price)
     /\ UNCHANGED <<fees, net, tx, saved>>

-----------------------------------------------------------------------------
(* A limit order whose price advances from the best price of its own side  *)
(* towards the other side, and stops short of it.                          *)

FullAdvancePrice(side, start, cross) ==
  IF side = "ask" THEN MinOf(cross + 1, start)
                  ELSE IF cross - 1 > start THEN cross - 1 ELSE start

AdvanceAmount(style, amount, full) ==
  IF style = "percent" THEN (full * amount) \div Percent100
                       ELSE MinOf(amount, full)

FullAdvance(side) ==
  LET start == HeadKey(book[side])
      full  == FullAdvancePrice(side, start, HeadKey(book[Opposite(side)]))
  IN IF side = "ask" THEN start - full ELSE full - start

AdvancePrice(side, style, amount) ==
  LET start == HeadKey(book[side])
      steps == AdvanceAmount(style, amount, FullAdvance(side))
  IN IF amount = 0 THEN start
     ELSE IF side = "ask" THEN start - steps ELSE start + steps

(* There is no order to start from, or none to advance towards; the        *)
(* percentage is looked at only if there is some way to go.                *)
CanAdvance(side, style, amount) ==
  /\ ~IsEmpty(book[side])
  /\ amount # 0 =>
       /\ ~IsEmpty(book[Opposite(side)])
       /\ style = "percent" /\ FullAdvance(side) # 0 => amount <= Percent100

PlaceLimitOrderPassiveAdvance(a, side, size, style, amount) ==
  /\ Idle
  /\ CanAdvance(side, style, amount)
  /\ PlaceLimitOrderInSpread(a, side, size, AdvancePrice(side, style, amount),
                             "postOrAbort")

-----------------------------------------------------------------------------
(* After the match: fees, the assertions on what was traded, what remains  *)
(* goes back to the taker, and a limit order may rest.                     *)

Settling == tx.status = "settling"

Filled(t, x) == IF x = "base" THEN (MaxLots(t) - t.lots) * LotSize
                              ELSE (MaxTicks(t) - t.ticks) * TickSize

(* Net of fees, to the taker.                                              *)
Traded(t, x) ==
  IF x = "base" THEN Filled(t, x)
  ELSE IF t.side = "bid" THEN Filled(t, x) + t.fees ELSE Filled(t, x) - t.fees

(* MUTANT: fees are collected and returned as well.                        *)
ReturnedWithFees(t, x) ==
  IF x = "quote" THEN t.coins[x]
  ELSE IF t.side = "bid" THEN Traded(t, x)
                         ELSE t.bounds.max[x] - Traded(t, x)

(* What goes back to the taker.  The base, which may be a generic asset,   *)
(* is reckoned and not counted.                                            *)
Returned(t, x) ==
  IF x = "quote" THEN t.coins[x] - t.fees
  ELSE IF t.side = "bid" THEN Traded(t, x)
                         ELSE t.bounds.max[x] - Traded(t, x)

Redeposited(m) ==
  Deposit(Deposit(m, "base", Returned(tx, "base")),
          "quote", Returned(tx, "quote"))

SettledAccounts ==
  IF tx.kind = "swap" THEN acct ELSE [acct EXCEPT ![tx.taker] = Redeposited(@)]

Remaining == tx.size - Traded(tx, "base") \div LotSize

(* MUTANT: the order rests although its price still crosses the spread.    *)
RestsAcrossSpread ==
  /\ tx.kind = "limit"
  /\ ~tx.selfCancel
  /\ Remaining > 0
  /\ tx.restriction # "immediateOrCancel"

(* The order may still cross the spread if it ran out of quote to trade.   *)
Rests ==
  /\ tx.kind = "limit"
  /\ ~tx.selfCancel
  /\ Remaining > 0
  /\ tx.restriction # "immediateOrCancel"
  /\ ~CrossesSpread(tx.side, tx.price)

CanSettle ==
  /\ \A x \in Assets : Traded(tx, x) >= tx.bounds.min[x]
  /\ tx.kind # "swap" =>
       \A x \in Assets : CanDeposit(acct[tx.taker], x, Returned(tx, x))
  /\ Rests => CanPost(SettledAccounts, tx.taker, tx.side, Remaining, tx.price)

End == tx' = NoTx /\ saved' = NoState

Settle ==
  /\ Settling
  /\ CanSettle
  /\ fees' = fees + tx.fees
  /\ IF Rests
     THEN /\ book' = PostedBook(SettledAccounts, tx.taker, tx.side, Remaining,
                                tx.price)
          /\ acct' = PostedAccounts(SettledAccounts, counter, tx.taker,
                                    tx.side, Remaining, tx.price)
     ELSE /\ acct' = SettledAccounts
          /\ UNCHANGED book
  /\ net' = IF tx.kind = "swap"
            THEN [x \in Assets |-> net[x] - Returned(tx, x)] ELSE net
  /\ UNCHANGED counter
  /\ End

-----------------------------------------------------------------------------
(* Cancels and size changes.  The ID is any the caller likes: it must name *)
(* a node in use, whose order is the caller's, under that very ID.         *)

EntryOf(side, id) == book[side].list[IndexOf(book[side], id.node)]

(* MUTANT: only the list node is compared.                                 *)
OwnsNode(a, side, id) ==
  /\ ContainsActiveListNode(book[side], id.node)
  /\ EntryOf(side, id).value.user = a

Owns(a, side, id) ==
  /\ ContainsActiveListNode(book[side], id.node)
  /\ EntryOf(side, id).value.user = a
  /\ CanCancelOrder(acct[a], side, EntryOf(side, id).value.access, id)

CancelEffect(a, side, id) ==
  LET e == EntryOf(side, id)
  IN /\ book' = [book EXCEPT ![side] = RemoveFromBook(@, id)]
     /\ acct' = [acct EXCEPT ![a] =
                   CancelOrder(@, side, e.key, e.value.access)]

ManualCancel(a, side, id) ==
  /\ Idle
  /\ Owns(a, side, id)
  /\ CancelEffect(a, side, id)
  /\ UNCHANGED <<counter, fees, net, tx, saved>>

(* All orders of an account on a side are cancelled in one transaction.    *)
CancelAllOrders(a, side) ==
  /\ Idle
  /\ tx' = [NoTx EXCEPT !.status = "cancelling", !.kind = "cancelAll",
                        !.taker = a, !.side = side,
                        !.ids = ActiveMarketOrderIds(acct[a], side)]
  /\ saved' = State
  /\ UNCHANGED <<book, acct, counter, fees, net>>

Cancelling == tx.status = "cancelling"

(* The order to cancel next, the one with the lowest access key.           *)
NextToCancel == CHOOSE p \in tx.ids : \A r \in tx.ids : p[1] <= r[1]
NextIdToCancel == NextToCancel[2]

CancelNext ==
  /\ Cancelling /\ tx.ids # {}
  /\ Owns(tx.taker, tx.side, NextIdToCancel)
  /\ CancelEffect(tx.taker, tx.side, NextIdToCancel)
  /\ tx' = [tx EXCEPT !.ids = @ \ {NextToCancel}]
  /\ UNCHANGED <<counter, fees, net, saved>>

CancelDone ==
  /\ Cancelling /\ tx.ids = {}
  /\ End
  /\ UNCHANGED <<book, acct, counter, fees, net>>

(* MUTANT: an order that grows keeps its place.                            *)
GrowsInPlace(q, i, newSize) == TRUE

(* An order that shrinks, or is the last of its price level, stays put.    *)
KeepsPlace(q, i, newSize) ==
  newSize < q.list[i].value.size \/ IsLocalTail(q, i)

ResizedBook(q, id, newSize) ==
  LET i == IndexOf(q, id.node)
      order == [q.list[i].value EXCEPT !.size = newSize]
  IN IF KeepsPlace(q, i, newSize)
     THEN [q EXCEPT !.list[i].value = order]
     ELSE Insert(RemoveEntry(q, i), id.price, order)

ChangeSize(a, side, id, newSize) ==
  LET e == EntryOf(side, id)
  IN /\ Idle
     /\ newSize >= MinSize
     /\ ContainsActiveListNode(book[side], id.node)
     /\ e.value.user = a
     /\ CanChangeOrderSize(acct[a], side, newSize, e.key, e.value.access, id)
     /\ acct' = [acct EXCEPT ![a] =
                   ChangeOrderSize(@, side, newSize, e.key, e.value.access, id)]
     /\ book' = [book EXCEPT ![side] = ResizedBook(@, id, newSize)]
     /\ UNCHANGED <<counter, fees, net, tx, saved>>

-----------------------------------------------------------------------------
(* A failed assertion undoes the transaction.                              *)

Aborts ==
  \/ Matching /\ HasMatch /\ IsSelfMatch /\ tx.behavior = "abort"
  \/ Settling /\ ~CanSettle
  \/ Cancelling /\ tx.ids # {} /\ ~Owns(tx.taker, tx.side, NextIdToCancel)

Rollback ==
  /\ Aborts
  /\ book' = saved.book /\ acct' = saved.acct /\ counter' = saved.counter
  /\ fees' = saved.fees /\ net' = saved.net
  /\ End

-----------------------------------------------------------------------------
(* Any ID that may have been issued, stale ones included.                  *)
IssuedIds(side) ==
  [counter : 1..counter, node : 1..book[side].nNodes, price : 1..HI_PRICE]

Collateral ==
  \E a \in Traders, x \in Assets, amount \in Amounts :
    DepositAsset(a, x, amount) \/ WithdrawAsset(a, x, amount)

LimitOrder ==
  \E a \in Traders, side \in Sides, size \in Sizes, price \in Prices,
     restriction \in Restrictions :
    \/ PlaceLimitOrderInSpread(a, side, size, price, restriction)
    \/ \E behavior \in Behaviors :
         PlaceLimitOrderAcrossSpread(a, side, size, price, restriction,
                                     behavior)

MarketOrder ==
  \E a \in Traders, side \in Sides, size \in MarketSizes,
     behavior \in Behaviors : PlaceMarketOrder(a, side, size, behavior)

SwapOrder ==
  \E a \in SwapTakers, side \in Sides, b \in SwapBounds,
     limit \in SwapLimits : Swap(a, side, b, limit)

PassiveAdvance ==
  \E a \in Traders, side \in Sides, size \in AdvanceSizes,
     target \in AdvanceTargets :
    PlaceLimitOrderPassiveAdvance(a, side, size, target[1], target[2])

Cancel ==
  \E a \in Traders, side \in CancelSides :
    \E id \in IssuedIds(side) : ManualCancel(a, side, id)

CancelAll == \E a \in Traders, side \in CancelAllSides : CancelAllOrders(a, side)

Resize ==
  \E a \in Traders, side \in Sides, newSize \in NewSizes :
    \E id \in IssuedIds(side) : ChangeSize(a, side, id, newSize)

Begin ==
  \/ Collateral \/ LimitOrder \/ MarketOrder \/ SwapOrder \/ PassiveAdvance
  \/ Cancel \/ CancelAll \/ Resize

(* The steps of a transaction under way.                                   *)
Proceed ==
  \/ MatchExit \/ MatchSelf \/ MatchFill
  \/ Settle \/ CancelNext \/ CancelDone \/ Rollback

Next == Begin \/ Proceed

(* The virtual machine does not leave a transaction half done.             *)
Spec == Init /\ [][Next]_vars /\ WF_vars(Proceed)
=============================================================================
