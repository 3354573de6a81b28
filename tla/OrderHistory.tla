---------------------------- MODULE OrderHistory ----------------------------
(***************************************************************************)
(* The order history pipelines (order_history_pipelines.rs): at each       *)
(* minute, the best prices of a market and the liquidity of groups.  The   *)
(* open orders are kept in memory and brought forward from one minute to   *)
(* the next; the rows of a run are saved in one database transaction.      *)
(***************************************************************************)
EXTENDS MarketEvents, BatchSize, EventMerge

CONSTANTS
  Members,            \* addresses of a liquidity group
  BPS, Divisor,       \* BPSS_TIMES_TEN, BPS_TIMES_TEN_DIVISOR (not 0)
  MaxFailures, MaxCrashes   \* bounds

VARIABLES
  spreads, liquidity,     \* tables of rows by minute, as committed
  lastTimestamp,          \* a table of one row, or none
  process,                \* of the aggregator
  state, lastPrice, batchSize,    \* in memory
  run,                    \* the transaction under way
  failures, crashes

memory == <<state, lastPrice, batchSize>>
tables == <<spreads, liquidity, lastTimestamp>>
vars == <<chainVars, tables, process, memory, run, failures, crashes>>

NoState == [orders |-> << >>, last |-> 0]
NoRun   == [pc |-> "idle", seen |-> 0, at |-> 0, to |-> 0,
            spreads |-> << >>, liquidity |-> << >>]

Init ==
  /\ ChainInit
  /\ spreads = << >> /\ liquidity = << >> /\ lastTimestamp = {}
  /\ process = "starting"
  /\ state = NoState /\ lastPrice = {} /\ batchSize = DefaultBatchSize
  /\ run = NoRun
  /\ failures = 0 /\ crashes = 0

-----------------------------------------------------------------------------
(* Orders in memory.                                                       *)

Places(e) == e.kind = "place" /\ e.type = "limit"

(* An order that is filled, or resized to nothing, is removed.             *)
Resize(orders, id, size) ==
  IF id \notin DOMAIN orders THEN orders
  ELSE IF size = 0 THEN Restrict(orders, DOMAIN orders \ {id})
  ELSE [orders EXCEPT ![id].size = size]

Reduce(orders, id, size) ==
  IF id \notin DOMAIN orders THEN orders
  ELSE Resize(orders, id, orders[id].size - size)

HandleFill(orders, fill) ==
  Reduce(Reduce(orders, fill.order, fill.size), fill.taker, fill.size)

HandleChange(orders, change) == Resize(orders, change.order, change.size)

Handle(orders, e) ==
  IF e.kind = "fill" THEN HandleFill(orders, e) ELSE HandleChange(orders, e)

FillFirst(fill, change) ==
  \/ fill.txn < change.txn
  \/ fill.txn = change.txn /\ fill.idx < change.idx

(* MUTANT: places after fills and size changes, as if they were new.       *)
AdvancedPlacesLast(orders, start, stop) ==
  LET places == SelectSeq(Rows("place", start, stop), Places)
      placed(o, e) == (e.order :> [side |-> e.side, price |-> e.price, size |-> e.size,
                                   user |-> UserOf(e.account)]) @@ o
      fills == SelectSeq(Rows("fill", start, stop), LAMBDA e : e.emit = e.maker)
      handled == FoldLeft(Handle, orders, Merge(fills, Rows("change", start, stop), FillFirst))
  IN FoldLeft(placed, handled, places)

(* Orders after the events from start to stop, those of a batch: places,   *)
(* then cancels, then fills and size changes in order.                     *)
Advanced(orders, start, stop) ==
  LET places == SelectSeq(Rows("place", start, stop), Places)
      cancels == Rows("cancel", start, stop)
      placed(o, e) == (e.order :> [side |-> e.side, price |-> e.price, size |-> e.size,
                                   user |-> UserOf(e.account)]) @@ o
      cancelled == {cancels[i].order : i \in DOMAIN cancels}
      with == FoldLeft(placed, orders, places)
      open == Restrict(with, DOMAIN with \ cancelled)
      fills == SelectSeq(Rows("fill", start, stop), LAMBDA e : e.emit = e.maker)
  IN FoldLeft(Handle, open, Merge(fills, Rows("change", start, stop), FillFirst))

-----------------------------------------------------------------------------
(* Spreads and liquidity of a state.                                       *)

PricesOf(orders, side) ==
  {orders[id].price : id \in {i \in DOMAIN orders : orders[i].side = side}}

SpreadOf(orders) ==
  LET asks == PricesOf(orders, "ask")
      bids == PricesOf(orders, "bid")
  IN [minAsk |-> IF asks = {} THEN NoPrice ELSE Min(asks),
      maxBid |-> IF bids = {} THEN NoPrice ELSE Max(bids)]

GroupsOf(order) == {"all"} \cup (IF order.user \in Members THEN {"members"} ELSE {})

Near(order, price, bps) ==
  \/ bps = 0
  \/ /\ order.price * Divisor > price * Divisor - price * bps
     /\ order.price * Divisor < price * Divisor + price * bps

(* The first order of a key is valued otherwise than those that follow.    *)
AddToMap(map, key, order, price) ==
  LET own  == order.size * order.price
      last == order.size * price
  IN IF key \in DOMAIN map
     THEN IF order.side = "ask" THEN [map EXCEPT ![key].base = @ + own]
                                ELSE [map EXCEPT ![key].quote = @ + last]
     ELSE (key :> IF order.side = "ask" THEN [base |-> last, quote |-> 0]
                                        ELSE [base |-> 0, quote |-> own]) @@ map

(* Orders are met in the order of a hash map, ids.                         *)
LiquidityOf(orders, ids, price) ==
  LET keys(id) == SetToSeq({<<group, bps>> \in GroupsOf(orders[id]) \X BPS :
                             Near(orders[id], price, bps)})
      add(map, id) == FoldLeft(LAMBDA m, key : AddToMap(m, key, orders[id], price),
                               map, keys(id))
  IN IF price = NoPrice THEN << >> ELSE FoldLeft(add, << >>, ids)

(* Prices that a query for that of the last fill, by time, may return.     *)
LastFills(v) ==
  LET fills == {i \in DOMAIN log : log[i].kind = "fill" /\ log[i].txn <= v}
  IN {log[i].price : i \in {k \in fills : \A j \in fills : log[j].time <= log[k].time}}

(* The price in memory, or that of the query, which is then kept.          *)
CachedLastPrices ==
  IF lastPrice # {} THEN lastPrice
  ELSE IF LastFills(state.last) = {} THEN {NoPrice} ELSE LastFills(state.last)

-----------------------------------------------------------------------------
(* The pipeline.                                                           *)

EventsOf(v) == {i \in DOMAIN log : log[i].txn <= v /\ (log[i].kind = "place" => Places(log[i]))}

(* Greatest version of an event before a minute, in the snapshot.          *)
VersionBefore(t) ==
  LET before == {log[i].txn : i \in {k \in EventsOf(run.seen) : log[k].time < t}}
  IN IF before = {} THEN 0 ELSE Max(before)

(* The row is made once, when the aggregator starts, from the time of the  *)
(* first limit order.                                                      *)
Initialize ==
  LET placed == {log[i].time : i \in {k \in EventsOf(indexed) : log[k].kind = "place"}}
  IN /\ process = "starting"
     /\ process' = "historical"
     /\ lastTimestamp' = IF lastTimestamp = {} /\ placed # {} THEN {Min(placed)}
                         ELSE lastTimestamp
     /\ UNCHANGED <<chainVars, spreads, liquidity, memory, run, failures, crashes>>

(* Without a row, or without events, there is nothing to do.               *)
Skip ==
  /\ process = "historical" /\ lastTimestamp = {}
  /\ process' = "running"
  /\ UNCHANGED <<chainVars, tables, memory, run, failures, crashes>>

Begin ==
  /\ process # "starting" /\ run.pc = "idle"
  /\ \E last \in lastTimestamp :
       LET latest == Max({log[i].time : i \in EventsOf(indexed)})
       IN /\ process = "historical" \/ last < latest     \* or nothing changes
          /\ run' = [pc |-> "minutes", seen |-> indexed, at |-> last + 1, to |-> latest,
                     spreads |-> spreads, liquidity |-> liquidity]
  /\ UNCHANGED <<chainVars, tables, process, memory, failures, crashes>>

(* One batch of get_state_from_timestamp_with_state.                       *)
AdvanceState ==
  LET stop == MinOf(state.last + batchSize, VersionBefore(run.at))
      count == Cardinality({i \in EventsOf(stop) :
                 log[i].txn > state.last /\ (log[i].kind = "fill" => log[i].emit = log[i].maker)})
      fills == SelectSeq(Rows("fill", state.last, stop), LAMBDA e : e.emit = e.maker)
  IN /\ run.pc = "minutes" /\ run.at <= run.to
     /\ VersionBefore(run.at) # state.last
     /\ state' = [orders |-> Advanced(state.orders, state.last, stop), last |-> stop]
     /\ lastPrice' = IF fills = << >> THEN lastPrice ELSE {fills[Len(fills)].price}
     /\ batchSize' = UpdateBatchSize(batchSize, count)
     /\ UNCHANGED <<chainVars, tables, process, run, failures, crashes>>

CalculateSpreadsAndLiquidities ==
  LET ids == DOMAIN state.orders
  IN /\ run.pc = "minutes" /\ run.at <= run.to
     /\ VersionBefore(run.at) = state.last
     /\ \E price \in CachedLastPrices, order \in SetToSeqs(ids) :
          /\ lastPrice' = IF ids = {} THEN lastPrice ELSE {price}
          /\ run' = [run EXCEPT
               !.at = @ + 1,
               !.spreads = IF ids = {} THEN @
                           ELSE (run.at :> SpreadOf(state.orders)) @@ @,
               !.liquidity = (run.at :> LiquidityOf(state.orders, order, price)) @@ @]
     /\ UNCHANGED <<chainVars, tables, process, state, batchSize, failures, crashes>>

Commit ==
  /\ run.pc = "minutes" /\ run.at > run.to
  /\ spreads' = run.spreads
  /\ liquidity' = run.liquidity
  /\ lastTimestamp' = {run.at - 1}
  /\ process' = "running"
  /\ run' = NoRun
  /\ UNCHANGED <<chainVars, memory, failures, crashes>>

(* A query fails.  The transaction is rolled back, the memory is not.      *)
Fail ==
  /\ run.pc # "idle" /\ process = "running" /\ failures < MaxFailures
  /\ failures' = failures + 1
  /\ run' = NoRun
  /\ UNCHANGED <<chainVars, tables, process, memory, crashes>>

(* The aggregator dies, or its first run fails; it is started again.       *)
Crash ==
  /\ crashes < MaxCrashes
  /\ crashes' = crashes + 1
  /\ process' = "starting"
  /\ state' = NoState /\ lastPrice' = {} /\ batchSize' = DefaultBatchSize
  /\ run' = NoRun
  /\ UNCHANGED <<chainVars, tables, failures>>

Pipeline ==
  \/ Initialize \/ Skip \/ Begin
  \/ AdvanceState \/ CalculateSpreadsAndLiquidities \/ Commit

Next ==
  \/ ChainNext /\ UNCHANGED <<tables, process, memory, run, failures, crashes>>
  \/ Pipeline \/ Fail \/ Crash

Spec == Init /\ [][Next]_vars /\ WF_vars(Pipeline)

-----------------------------------------------------------------------------
(* Properties.                                                             *)

(* What the market was at the end of the minute before t.                  *)
VersionAt(t) ==
  Max({0} \cup {log[i].txn : i \in {k \in DOMAIN log : log[k].time < t}})

Best(side, t) ==
  LET q == ledger[VersionAt(t)].book[side]
  IN IF q = << >> THEN NoPrice ELSE q[1].price

(* Until a query fails in a run, whose orders in memory then stay ahead of *)
(* the table, the best prices recorded for a minute are those of the book  *)
(* at that minute, and there is a row for every minute at which an order   *)
(* was open; also after the aggregator was started again.                  *)
SpreadsShowBook ==
  failures = 0 => \A last \in lastTimestamp : \A t \in 0..last :
    LET best == [minAsk |-> Best("ask", t), maxBid |-> Best("bid", t)]
    IN IF t \in DOMAIN spreads THEN spreads[t] = best
       ELSE best = [minAsk |-> NoPrice, maxBid |-> NoPrice]

OpenAt(t) ==
  LET orders == ledger[VersionAt(t)].orders
  IN {id \in DOMAIN orders : orders[id].status = "open"}

Total(ids, t, Value(_)) ==
  LET orders == ledger[VersionAt(t)].orders
  IN FoldSet(LAMBDA id, n : n + orders[id].remaining * Value(orders[id].price), 0, ids)

(* Prices of the last fills before t, which may be of one time.            *)
LastPrices(t) ==
  LET fills == {i \in DOMAIN log : log[i].kind = "fill" /\ log[i].time < t}
  IN {log[i].price : i \in {k \in fills : \A j \in fills : log[j].time <= log[k].time}}

(* Open orders of a side that a group holds.                               *)
Held(group, t, side) ==
  LET orders == ledger[VersionAt(t)].orders
      in(a) == group = "all" \/ UserOf(a) \in Members
  IN {id \in OpenAt(t) : orders[id].side = side /\ in(orders[id].account)}

(* "Effective value of base locked in asks, quoted in ticks. Price taken   *)
(* as the last fill price at the time of calculation", and "Amount of      *)
(* quote locked in bids, quoted in ticks" (order_history_pipelines.rs:73): *)
(* the liquidity of a group is its open asks at the price of a last fill,  *)
(* and its open bids at their own.                                         *)
LiquidityAsDocumented ==
  failures = 0 => \A t \in DOMAIN liquidity, group \in {"all", "members"} :
    LET key == <<group, 0>>
    IN key \in DOMAIN liquidity[t] =>
         /\ \E last \in LastPrices(t) :
              liquidity[t][key].base = Total(Held(group, t, "ask"), t, LAMBDA price : last)
         /\ liquidity[t][key].quote = Total(Held(group, t, "bid"), t, LAMBDA price : price)
=============================================================================
