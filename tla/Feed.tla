-------------------------------- MODULE Feed --------------------------------
(***************************************************************************)
(* The experimental second aggregator (aggv2): a cache manager that reads  *)
(* events, an aggregator that turns the events of each second into feeds,  *)
(* and an inserter that saves them, side by side; and what a restart       *)
(* starts from.                                                            *)
(***************************************************************************)
EXTENDS Integers, MarketEvents

CONSTANTS
  Second,             \* clock units of an interval
  Epoch,              \* before every event
  Amount,             \* events that a read waits for
  Threshold,          \* events in the cache that stop the reads
  Groups,             \* distances of liquidity, of Scale parts of the price
  Scale,
  Extra,              \* rows [kind, time] of balances and recognitions
  SchemaAccepts,      \* whether a row of only a time fits aggv2.state_cache
  MaxCrashes

Register == [kind |-> "register", time |-> -Second]

ASSUME FeedAssumption ==
  /\ Second \in Nat \ {0} /\ Epoch \in Int /\ Epoch + 2 * Second <= Register.time
  /\ Amount \in Nat \ {0} /\ Threshold \in Nat /\ MaxCrashes \in Nat
  /\ Groups \subseteq Nat /\ Scale \in Nat \ {0}
  /\ \A e \in Extra : e.kind \in {"balance", "recognize"} /\ e.time \in Nat
  /\ SchemaAccepts \in BOOLEAN

VARIABLES
  cache,              \* events to be aggregated, by time
  fill,               \* the read of the cache manager under way
  state, volume,      \* feeds of the aggregator that build on themselves
  timestamp,          \* of the state
  started,            \* whether it waits for the events of its second
  buffer,             \* rows to insert, and the last state
  insertion,          \* what the inserter has taken
  rows, saved,        \* tables: rows of the feeds, and the saved state
  crashes

feedVars == <<cache, fill, state, volume, timestamp, started, buffer,
              insertion, rows, saved, crashes>>
vars == <<chainVars, feedVars>>

Trunc(t) == (t \div Second) * Second

-----------------------------------------------------------------------------
(* Feeds.                                                                  *)

NoState == [registered |-> FALSE, orders |-> << >>, last |-> NoPrice]
NewMarket == [NoState EXCEPT !.registered = TRUE]

NoVolume == [registered |-> FALSE, cumulative |-> 0, period |-> 0]

Filled1(orders, id, size) ==
  IF id \in DOMAIN orders THEN [orders EXCEPT ![id].size = @ - size] ELSE orders

Update(s, e) ==
  CASE e.kind \in {"register", "recognize"} -> NewMarket
    [] e.kind = "place" /\ e.type = "limit" ->
         [s EXCEPT !.orders = (e.order :> [side |-> e.side, price |-> e.price,
                                           size |-> e.size]) @@ @]
    [] e.kind = "fill" /\ e.maker = e.emit ->
         [s EXCEPT !.last = e.price,
                   !.orders = Filled1(Filled1(@, e.order, e.size), e.taker, e.size)]
    [] e.kind = "cancel" -> [s EXCEPT !.orders = Restrict(@, DOMAIN @ \ {e.order})]
    [] e.kind = "change" /\ e.order \in DOMAIN s.orders ->
         [s EXCEPT !.orders[e.order].size = e.size]
    [] OTHER -> s

UpdateVolume(v, e) ==
  CASE e.kind \in {"register", "recognize"} -> [NoVolume EXCEPT !.registered = TRUE]
    [] e.kind = "fill" ->
         [v EXCEPT !.cumulative = @ + e.size * e.price, !.period = @ + e.size * e.price]
    [] OTHER -> v

(* MUTANT: a period goes on.                                               *)
SamePeriod(v) == v

NewPeriod(v) == [v EXCEPT !.period = 0]

PricesOf(s, side) ==
  {s.orders[id].price : id \in {i \in DOMAIN s.orders : s.orders[i].side = side}}

(* None, NoPrice here, is less than any price; the minimum with None is    *)
(* None.                                                                   *)
SpreadOf(s) ==
  [min_ask |-> MinOf(NoPrice, IF PricesOf(s, "ask") = {} THEN NoPrice
                              ELSE Min(PricesOf(s, "ask"))),
   max_bid |-> MinOf(NoPrice, IF PricesOf(s, "bid") = {} THEN NoPrice
                              ELSE Max(PricesOf(s, "bid")))]

(* Orders of a side that are near the last price, or better.               *)
Within(s, side, group) ==
  {id \in DOMAIN s.orders :
     s.orders[id].side = side /\ s.orders[id].price * Scale <= (group + Scale) * s.last}

LiquidityOf(s) ==
  LET near(g) == Within(s, "ask", g) \cup Within(s, "bid", g)
      groups == IF s.last = NoPrice THEN {} ELSE {g \in Groups : near(g) # {}}
  IN [g \in groups |->
       [base |-> FoldSet(LAMBDA id, n : n + s.orders[id].size * s.last, 0,
                         Within(s, "ask", g)),
        quote |-> FoldSet(LAMBDA id, n : n + s.orders[id].size * s.orders[id].price, 0,
                          Within(s, "bid", g))]]

Row(t, s, v) ==
  [time |-> t, spread |-> SpreadOf(s), liquidity |-> LiquidityOf(s), volume |-> v]

-----------------------------------------------------------------------------
(* Memory, when the process starts.                                        *)

NoFill == [open |-> FALSE, start |-> Epoch, limit |-> Epoch, seen |-> 0]
NoSaved == [timestamp |-> Epoch, state |-> NoState]
NoBuffer == [rows |-> << >>, last |-> NoSaved]

Init ==
  /\ ChainInit
  /\ cache = << >> /\ fill = NoFill
  /\ state = NoState /\ volume = NoVolume /\ timestamp = Epoch + Second
  /\ started = FALSE /\ buffer = NoBuffer /\ insertion = NoBuffer
  /\ rows = << >> /\ saved = NoSaved
  /\ crashes = 0

(* The last row of volumes.                                                *)
PreviousVolume == IF rows = << >> THEN NoVolume ELSE rows[Len(rows)].volume

(* run: feeds with a state are loaded; the cache is empty.                 *)
Load ==
  /\ cache' = << >> /\ fill' = NoFill
  /\ state' = saved.state
  /\ volume' = PreviousVolume
  /\ timestamp' = saved.timestamp + Second
  /\ started' = FALSE /\ buffer' = NoBuffer /\ insertion' = NoBuffer
  /\ UNCHANGED <<chainVars, rows, saved>>

Crash ==
  /\ crashes < MaxCrashes
  /\ crashes' = crashes + 1
  /\ Load

-----------------------------------------------------------------------------
(* The cache manager.                                                      *)

RowsUpTo(v) == {log[i] : i \in {k \in DOMAIN log : log[k].txn <= v}}

(* Rows of the event tables when the database holds the versions up to v.  *)
EventsUpTo(v) ==
  {Register} \cup RowsUpTo(v) \cup {e \in Extra : \E r \in RowsUpTo(v) : e.time <= r.time}

LastTime == IF cache = << >> THEN Epoch ELSE Max(DOMAIN cache)

(* The time of row number Amount of aggv2.events after the last event.     *)
BeginFill ==
  LET events == SelectSeq(<<Register>> \o SelectSeq(log, LAMBDA e : e.txn <= indexed),
                          LAMBDA e : e.time > LastTime)
  IN /\ ~fill.open /\ Cardinality(DOMAIN cache) < Threshold
     /\ Len(events) >= Amount
     /\ fill' = [open |-> TRUE, start |-> LastTime, limit |-> events[Amount].time,
                 seen |-> indexed]
     /\ UNCHANGED <<chainVars, cache, state, volume, timestamp, started, buffer,
                    insertion, rows, saved, crashes>>

(* Rows in the order in which they extend the map.                         *)
Tables == <<"place", "cancel", "change", "fill", "register", "balance", "recognize">>

(* Each table is read in a snapshot of its own.                            *)
Read(table, v) ==
  {e \in EventsUpTo(v) : e.kind = table /\ fill.start < e.time /\ e.time <= fill.limit}

(* An event replaces the one of its time; rows of a table come unordered.  *)
Extensions(map, events) ==
  LET times == {e.time : e \in events}
  IN {[t \in DOMAIN map \cup times |-> IF t \in times THEN f[t] ELSE map[t]] :
        f \in {g \in [times -> events] : \A t \in times : g[t].time = t}}

NewCaches ==
  LET step(maps, i) == UNION {Extensions(m, Read(Tables[i], v)) :
                                m \in maps, v \in {fill.seen, indexed}}
  IN FoldLeft(step, {cache}, [i \in DOMAIN Tables |-> i])

EndFill ==
  /\ fill.open
  /\ cache' \in NewCaches
  /\ fill' = NoFill
  /\ UNCHANGED <<chainVars, state, volume, timestamp, started, buffer, insertion,
                 rows, saved, crashes>>

-----------------------------------------------------------------------------
(* The aggregator.                                                         *)

Following == {t \in DOMAIN cache : t >= timestamp + Second}

(* The second of the next event.                                           *)
GetNextStartTimestamp ==
  /\ ~started /\ Following # {}
  /\ timestamp' = Trunc(Min(Following))
  /\ started' = TRUE
  /\ UNCHANGED <<chainVars, cache, fill, state, volume, buffer, insertion, rows,
                 saved, crashes>>

(* An event after the second is in the cache: those of the second are too. *)
SecondIsOver == cache # << >> /\ LastTime >= timestamp + Second

Aggregate(start, apply(_, _), events) ==
  FoldLeft(LAMBDA s, t : apply(s, events[t]), start, SetToSortSeq(DOMAIN events, LAMBDA t, u : t < u))

RowTime == timestamp

AggregateSecond ==
  LET batch == Restrict(cache, {t \in DOMAIN cache : t < timestamp + Second})
  IN /\ started /\ SecondIsOver
     /\ cache' = Restrict(cache, DOMAIN cache \ DOMAIN batch)
     /\ state' = Aggregate(state, Update, batch)
     /\ volume' = Aggregate(NewPeriod(volume), UpdateVolume, batch)
     /\ buffer' = [rows |-> Append(buffer.rows, Row(RowTime, state', volume')),
                   last |-> [timestamp |-> timestamp, state |-> state']]
     /\ started' = FALSE
     /\ UNCHANGED <<chainVars, fill, timestamp, insertion, rows, saved, crashes>>

-----------------------------------------------------------------------------
(* The inserter.                                                           *)

(* Takes the rows, and a copy of the state, which stays.                   *)
TakeBuffer ==
  /\ insertion = NoBuffer /\ buffer # NoBuffer
  /\ insertion' = buffer
  /\ buffer' = [buffer EXCEPT !.rows = << >>]
  /\ UNCHANGED <<chainVars, cache, fill, state, volume, timestamp, started, rows,
                 saved, crashes>>

(* MUTANT: only the rows are saved.                                        *)
SavesRowsOnly ==
  /\ SchemaAccepts
  /\ rows' = rows \o insertion.rows
  /\ saved' = saved
  /\ insertion' = NoBuffer
  /\ UNCHANGED <<chainVars, cache, fill, state, volume, timestamp, started, buffer,
                 crashes>>

(* One transaction.                                                        *)
Saves ==
  /\ SchemaAccepts
  /\ rows' = rows \o insertion.rows
  /\ saved' = insertion.last
  /\ insertion' = NoBuffer
  /\ UNCHANGED <<chainVars, cache, fill, state, volume, timestamp, started, buffer,
                 crashes>>

(* save unwraps the error of a statement: the process dies.                *)
Panics == ~SchemaAccepts /\ Load /\ UNCHANGED crashes

Insert == insertion # NoBuffer /\ (Saves \/ Panics)

Next ==
  \/ ChainNext /\ UNCHANGED feedVars
  \/ BeginFill \/ EndFill
  \/ GetNextStartTimestamp \/ AggregateSecond
  \/ TakeBuffer \/ Insert
  \/ Crash

Spec ==
  /\ Init /\ [][Next]_vars
  /\ WF_vars(BeginFill) /\ WF_vars(EndFill)
  /\ WF_vars(GetNextStartTimestamp) /\ WF_vars(AggregateSecond)
  /\ WF_vars(TakeBuffer) /\ WF_vars(Insert)

-----------------------------------------------------------------------------
(* Properties.                                                             *)

Times == {e.time : e \in EventsUpTo(version)}

(* One event of each time before t.                                        *)
ChoicesBefore(t) ==
  LET times == {u \in Times : u < t}
  IN {f \in [times -> EventsUpTo(version)] : \A u \in times : f[u].time = u}

(* What is saved is the outcome of one event of each time so far, each     *)
(* applied once and in order, across restarts; the last row of all feeds   *)
(* shows that state; and no row is made for the time of another, which     *)
(* would violate the primary key and end the process.                      *)
SavedAsOf ==
  LET all == rows \o insertion.rows \o buffer.rows
  IN /\ \A i, j \in DOMAIN all : i < j => all[i].time < all[j].time
     /\ rows # << >> =>
          \E f \in ChoicesBefore(saved.timestamp + Second) :
            LET s == Aggregate(NoState, Update, f)
                v == Aggregate(NoVolume, UpdateVolume, f)
                row == rows[Len(rows)]
            IN /\ saved.state = s /\ row.volume.cumulative = v.cumulative
               /\ row = Row(saved.timestamp, s, row.volume)

(* As long as the process does not restart, every second with an event has *)
(* its row, and a period is what was added since the row before            *)
(* (README.md: "from their previous value and the events that occurred     *)
(* since that previous value was generated").                              *)
PeriodsAddUp ==
  crashes = 0 =>
    /\ \A e \in RowsUpTo(version) :
         e.time < saved.timestamp => \E i \in DOMAIN rows : rows[i].time = Trunc(e.time)
    /\ \A i \in DOMAIN rows :
         rows[i].volume.cumulative =
           rows[i].volume.period + (IF i = 1 THEN 0 ELSE rows[i - 1].volume.cumulative)
=============================================================================
