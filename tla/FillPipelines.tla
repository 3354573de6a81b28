--------------------------- MODULE FillPipelines ----------------------------
(***************************************************************************)
(* The pipelines of the aggregator that keep nothing in memory: each run   *)
(* is one transaction that adds the events after the last indexed version  *)
(* to a table and advances that version.  The tasks run side by side, each *)
(* writes its own table; rolling volume reads the candlesticks.            *)
(***************************************************************************)
EXTENDS MarketEvents

CONSTANTS
  Selections,         \* sets of pipelines, one of which is configured to run
  Fee(_),             \* taker_quote_fees_paid of a fill
  Resolution,         \* minutes of a candlestick
  Day,                \* minutes of the rolling window
  Start, End,         \* minutes between which a competition runs
  MaxFailures         \* bound on errors and crashes

AllPipelines == {"candlesticks", "enumerated_volume", "fees", "prices",
                 "rolling_volume", "user_balances", "leaderboards"}

ASSUME FillPipelinesAssumption ==
  /\ Selections \subseteq SUBSET AllPipelines
  /\ Resolution \in Nat \ {0} /\ Day \in Nat
  /\ Start \in Int /\ End \in Nat
  /\ MaxFailures \in Nat

VARIABLES
  table,        \* rows of each pipeline, as committed
  last,         \* of each: what is indexed; a table of one row, or none
  run,          \* of each: the snapshot of the transaction under way
  failures

Enabled == DOMAIN table

pipelineVars == <<table, last, run, failures>>
vars == <<chainVars, pipelineVars>>

NoRun == [open |-> FALSE, seen |-> 0, now |-> 0, candlesticks |-> << >>]
NoVolume == [base |-> 0, quote |-> 0]

(* Rows that a migration inserts, or the first run of the process.         *)
Initial(p) == IF p \in {"enumerated_volume", "candlesticks"} THEN {0} ELSE {}

Init ==
  /\ ChainInit
  /\ \E selection \in Selections :
       table = [p \in selection |-> IF p = "enumerated_volume" THEN NoVolume ELSE << >>]
  /\ last = [p \in Enabled |-> Initial(p)]
  /\ run = [p \in Enabled |-> NoRun]
  /\ failures = 0

-----------------------------------------------------------------------------
(* What a transaction reads.                                               *)

Indexed(p) == IF last[p] = {} THEN 0 ELSE CHOOSE v \in last[p] : TRUE

(* Duplicates are removed: the event of the maker's handle counts.         *)
Counts(fill) == fill.maker = fill.emit

(* Two pipelines join the row of the last version: without it, nothing.    *)
NewFills(p) ==
  IF last[p] = {} /\ p \in {"candlesticks", "enumerated_volume"} THEN << >>
  ELSE SelectSeq(Rows("fill", Indexed(p), run[p].seen), Counts)

MaxFillVersion(v) ==
  Max({0} \cup {log[i].txn : i \in {k \in DOMAIN log : log[k].kind = "fill"
                                                       /\ log[k].txn <= v}})

Add(fills, Of(_)) == FoldLeft(LAMBDA n, f : n + Of(f), 0, fills)
Quote(fill) == fill.size * fill.price
Size(fill)  == fill.size

(* Rows of the groups of new fills are inserted, or merged with old ones.  *)
Upsert(rows, fills, KeyOf(_), RowOf(_), MergeRows(_, _)) ==
  LET keys == {KeyOf(fills[i]) : i \in DOMAIN fills}
      new(k) == RowOf(SelectSeq(fills, LAMBDA f : KeyOf(f) = k))
  IN [k \in DOMAIN rows \cup keys |->
       CASE k \notin keys -> rows[k]
         [] k \notin DOMAIN rows -> new(k)
         [] OTHER -> MergeRows(rows[k], new(k))]

-----------------------------------------------------------------------------
(* Candlesticks, fees and prices.                                          *)

StartTime(fill) == (fill.time \div Resolution) * Resolution

Candle(fills) ==
  LET prices == {fills[i].price : i \in DOMAIN fills}
  IN [open |-> fills[1].price, high |-> Max(prices), low |-> Min(prices),
      close |-> fills[Len(fills)].price, volume |-> Add(fills, Quote)]

MergeCandles(old, new) ==
  [open |-> old.open, high |-> MaxOf(old.high, new.high),
   low |-> MinOf(old.low, new.low), close |-> new.close,
   volume |-> new.volume + old.volume]

Candlesticks(rows, fills) ==
  Upsert(rows, fills, StartTime, Candle, MergeCandles)

Time(fill) == fill.time
TotalFees(fills) == Add(fills, Fee)

AddFees(old, new) == old + new

Fees(rows, fills) == Upsert(rows, fills, Time, TotalFees, AddFees)

(* price is numeric(20,0): a quotient is rounded.                          *)
Rounded(n, d) == (2 * n + d) \div (2 * d)

(* The average of the prices of a batch is not weighted by size, that of   *)
(* two batches is.                                                         *)
PriceOf(fills) ==
  [price |-> Rounded(Add(fills, LAMBDA f : f.price), Len(fills)),
   size |-> Add(fills, Size)]

MergePrices(old, new) ==
  [price |-> Rounded(new.price * new.size + old.price * old.size, new.size + old.size),
   size |-> new.size + old.size]

Prices(rows, fills) == Upsert(rows, fills, Time, PriceOf, MergePrices)

EnumeratedVolume(row, fills) ==
  [base |-> row.base + Add(fills, Size), quote |-> row.quote + Add(fills, Quote)]

-----------------------------------------------------------------------------
(* Rolling volume, from the candlesticks of the snapshot.                  *)

Complete(candles, now) == {m \in DOMAIN candles : m + Resolution < now}

(* MUTANT: the window has no start.                                        *)
RollingVolumeSinceStart(rows, candles, now) ==
  LET complete == Complete(candles, now)
      window(m) == {k \in complete : k <= m}
  IN [m \in DOMAIN rows \cup complete |->
       FoldSet(LAMBDA k, n : n + candles[k].volume, 0, window(m))]

RollingVolume(rows, candles, now) ==
  LET complete == Complete(candles, now)
      minutes == IF last.rolling_volume = {} THEN complete
                 ELSE {m \in complete : m > Indexed("rolling_volume")}
      window(m) == {k \in complete : k <= m /\ m <= k + Day}
  IN [m \in DOMAIN rows \cup minutes |->
       IF m \in minutes THEN FoldSet(LAMBDA k, n : n + candles[k].volume, 0, window(m))
       ELSE rows[m]]

-----------------------------------------------------------------------------
(* User balances: a transaction writes the balances of accounts it touches *)
(* once.  A row is represented by the version that wrote it.               *)

OwnerOf(id) == Orders[id].account

TouchedBy(e) ==
  {OwnerOf(e.order)} \cup (IF e.kind = "fill" THEN {OwnerOf(e.taker)} ELSE {})

UpdatesOf(a, start, stop) ==
  {log[i].txn : i \in {k \in DOMAIN log : /\ a \in TouchedBy(log[k])
                                          /\ start < log[k].txn /\ log[k].txn <= stop}}

(* The latest update of each account since the last run.                   *)
UserBalances(rows, start, stop) ==
  [a \in {b \in Accounts : b \in DOMAIN rows \/ UpdatesOf(b, start, stop) # {}} |->
    IF UpdatesOf(a, start, stop) # {} THEN Max(UpdatesOf(a, start, stop)) ELSE rows[a]]

-----------------------------------------------------------------------------
(* Leaderboards of a competition.                                          *)

InWindow(e) == Start < e.time /\ e.time < End

CompetitionFills == SelectSeq(NewFills("leaderboards"), InWindow)
CompetitionPlaces ==
  SelectSeq(Rows("place", Indexed("leaderboards"), run["leaderboards"].seen), InWindow)

TradersOf(fill) == {fill.maker, UserOf(OwnerOf(fill.taker))}

AggregateForCompetition(rows, fills, places) ==
  LET users == UNION {TradersOf(fills[i]) : i \in DOMAIN fills}
                 \cup {UserOf(places[i].account) : i \in DOMAIN places}
      trades(u) == SelectSeq(fills, LAMBDA f : u \in TradersOf(f))
      old(u) == IF u \in DOMAIN rows THEN rows[u] ELSE [volume |-> 0, trades |-> 0]
  IN [u \in DOMAIN rows \cup users |->
       [volume |-> old(u).volume + Add(trades(u), Quote),
        trades |-> old(u).trades + Len(trades(u))]]

-----------------------------------------------------------------------------
(* The runs of the pipelines.                                              *)

CandlesticksNow == IF "candlesticks" \in Enabled THEN table.candlesticks ELSE << >>

(* What the transaction of a pipeline sees, of what it reads.              *)
Snapshot(p) ==
  [open |-> TRUE,
   seen |-> IF p = "rolling_volume" THEN 0 ELSE indexed,
   now |-> IF p \in {"rolling_volume", "leaderboards"} THEN clock ELSE 0,
   candlesticks |-> IF p = "rolling_volume" THEN CandlesticksNow ELSE << >>]

(* Opens a repeatable read transaction.                                    *)
Begin(p) ==
  /\ ~run[p].open
  /\ run' = [run EXCEPT ![p] = Snapshot(p)]
  /\ UNCHANGED <<chainVars, table, last, failures>>

Saved(p) ==
  CASE p = "candlesticks" -> Candlesticks(table[p], NewFills(p))
    [] p = "fees" -> Fees(table[p], NewFills(p))
    [] p = "prices" -> Prices(table[p], NewFills(p))
    [] p = "enumerated_volume" -> EnumeratedVolume(table[p], NewFills(p))
    [] p = "rolling_volume" ->
         RollingVolume(table[p], run[p].candlesticks, run[p].now)
    [] p = "user_balances" -> UserBalances(table[p], Indexed(p), run[p].seen)
    [] p = "leaderboards" ->
         IF Start < run[p].now /\ run[p].now < End
         THEN AggregateForCompetition(table[p], CompetitionFills, CompetitionPlaces)
         ELSE table[p]

(* How each pipeline replaces its row: UPDATE, DELETE and INSERT, UPDATE   *)
(* or INSERT, or an upsert.  Without an event there is no row to insert.   *)
Advanced(p) ==
  LET max == MaxFillVersion(run[p].seen)
      complete == Complete(run[p].candlesticks, run[p].now)
      news == {CompetitionFills[i].txn : i \in DOMAIN CompetitionFills}
                \cup {CompetitionPlaces[i].txn : i \in DOMAIN CompetitionPlaces}
  IN CASE p = "candlesticks" -> {IF max = 0 THEN v ELSE max : v \in last[p]}
       [] p = "enumerated_volume" -> {max : v \in last[p]}
       [] p \in {"fees", "prices"} -> IF max = 0 THEN {} ELSE {max}
       [] p = "rolling_volume" -> IF complete = {} THEN {} ELSE {Max(complete)}
       [] p = "user_balances" -> IF run[p].seen = 0 THEN {} ELSE {run[p].seen}
       [] p = "leaderboards" ->
            IF Start < run[p].now /\ run[p].now < End /\ news # {} THEN {Max(news)}
            ELSE last[p]

(* MUTANT: the maximum is read outside the snapshot.                       *)
CommitReadsLatest(p) ==
  /\ run[p].open
  /\ table' = [table EXCEPT ![p] = Saved(p)]
  /\ last' = [last EXCEPT ![p] =
       IF p \in {"candlesticks", "enumerated_volume", "fees", "prices"}
          /\ MaxFillVersion(indexed) > 0
       THEN {MaxFillVersion(indexed)} ELSE Advanced(p)]
  /\ run' = [run EXCEPT ![p] = NoRun]
  /\ UNCHANGED <<chainVars, failures>>

Commit(p) ==
  /\ run[p].open
  /\ table' = [table EXCEPT ![p] = Saved(p)]
  /\ last' = [last EXCEPT ![p] = Advanced(p)]
  /\ run' = [run EXCEPT ![p] = NoRun]
  /\ UNCHANGED <<chainVars, failures>>

(* A query fails, or the aggregator dies: the transaction is rolled back.  *)
Fail(p) ==
  /\ run[p].open /\ failures < MaxFailures
  /\ failures' = failures + 1
  /\ run' = [run EXCEPT ![p] = NoRun]
  /\ UNCHANGED <<chainVars, table, last>>

Next ==
  \/ ChainNext /\ UNCHANGED pipelineVars
  \/ \E p \in Enabled : Begin(p) \/ Commit(p) \/ Fail(p)

Spec ==
  /\ Init /\ [][Next]_vars
  /\ \A p \in AllPipelines :
       WF_vars(p \in Enabled /\ Begin(p)) /\ WF_vars(p \in Enabled /\ Commit(p))

-----------------------------------------------------------------------------
(* Properties.                                                             *)

(* The fills of the market, each once, that a table should have counted.   *)
FillsUpTo(v) == SelectSeq(Rows("fill", 0, v), LAMBDA f : f.emit = UserOf(OwnerOf(f.order)))

In(fills, m, width) == SelectSeq(fills, LAMBDA f : m <= f.time /\ f.time < m + width)

(* However fills fall into runs, a candlestick is that of all fills of its *)
(* period, up to the version indexed.                                      *)
CandlesticksExact ==
  "candlesticks" \in Enabled =>
    LET fills == FillsUpTo(Indexed("candlesticks"))
        rows == table.candlesticks
    IN /\ DOMAIN rows = {StartTime(fills[i]) : i \in DOMAIN fills}
       /\ \A m \in DOMAIN rows : rows[m] = Candle(In(fills, m, Resolution))

(* Every fill counts once toward fees and volume.                          *)
TotalsExact ==
  /\ "fees" \in Enabled =>
       \A m \in DOMAIN table.fees :
         table.fees[m] = Add(In(FillsUpTo(Indexed("fees")), m, 1), Fee)
  /\ "enumerated_volume" \in Enabled =>
       table.enumerated_volume = EnumeratedVolume(NoVolume, FillsUpTo(Indexed("enumerated_volume")))

(* A price is rounded, and averaged otherwise within a run than between    *)
(* runs, but stays between those of the fills of its minute; sizes add up. *)
PricesWithinFills ==
  "prices" \in Enabled =>
    \A m \in DOMAIN table.prices :
      LET fills == In(FillsUpTo(Indexed("prices")), m, 1)
          row == table.prices[m]
      IN /\ row.size = Add(fills, Size)
         /\ \E i, j \in DOMAIN fills : fills[i].price <= row.price /\ row.price <= fills[j].price

(* A row of rolling volume never exceeds what was filled in its window,    *)
(* though candlesticks change while it is computed.                        *)
RollingVolumeNotOverstated ==
  "rolling_volume" \in Enabled =>
    \A m \in DOMAIN table.rolling_volume :
      LET filled == SelectSeq(FillsUpTo(version),
                              LAMBDA f : f.time <= m + Resolution - 1 /\ m <= StartTime(f) + Day)
      IN table.rolling_volume[m] <= Add(filled, Quote)

(* A row holds the last update of its account, up to the version indexed.  *)
BalancesLatest ==
  "user_balances" \in Enabled =>
    \A a \in Accounts :
      LET updates == UpdatesOf(a, 0, Indexed("user_balances"))
      IN IF updates = {} THEN a \notin DOMAIN table.user_balances
         ELSE a \in DOMAIN table.user_balances /\ table.user_balances[a] = Max(updates)

(* Every fill during the competition counts once for each of its parties.  *)
StandingsExact ==
  "leaderboards" \in Enabled =>
    LET fills == SelectSeq(FillsUpTo(Indexed("leaderboards")), InWindow)
    IN \A u \in DOMAIN table.leaderboards :
         LET trades == SelectSeq(fills, LAMBDA f : u \in TradersOf(f))
         IN table.leaderboards[u] = [volume |-> Add(trades, Quote), trades |-> Len(trades)]

(* Whatever falls between two runs, fails, or is inserted while a run is   *)
(* under way, each table is that of the events up to the version indexed,  *)
(* every fill counted once.                                                *)
TablesExact ==
  /\ CandlesticksExact /\ TotalsExact /\ PricesWithinFills
  /\ BalancesLatest /\ StandingsExact
=============================================================================
