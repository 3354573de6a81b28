---------------------------- MODULE UserHistory -----------------------------
(***************************************************************************)
(* The user history pipeline (user_history.rs): it folds the events of     *)
(* orders into one row for each order.  Each run is one database           *)
(* transaction that reads a snapshot; `run' holds its local variables and  *)
(* uncommitted rows.  An error, or a crash of the aggregator, loses them.  *)
(***************************************************************************)
EXTENDS MarketEvents, BatchSize, EventMerge

CONSTANTS MaxFailures   \* bound on errors and crashes

ASSUME MaxFailures \in Nat

VARIABLES
  history,      \* aggregator.user_history, as committed
  lastIndexed,  \* aggregator.user_history_last_indexed_txn, a table of one row
  batchSize,    \* in memory
  run,          \* the transaction under way
  failures

pipelineVars == <<history, lastIndexed, batchSize, run, failures>>
vars == <<chainVars, pipelineVars>>

NoStamp   == <<0, 0>>
NoAverage == 0
NoRun == [pc |-> "idle", exists |-> FALSE, last |-> 0, start |-> 0, stop |-> 0,
          rows |-> << >>]

Init ==
  /\ ChainInit
  /\ history = << >>
  /\ lastIndexed = {}
  /\ batchSize = DefaultBatchSize
  /\ run = NoRun
  /\ failures = 0

-----------------------------------------------------------------------------
(* Rows.                                                                   *)

NewRow(e) ==
  [account |-> e.account, type |-> e.type, side |-> e.side, price |-> e.price,
   filled |-> 0, remaining |-> e.size, status |-> "open",
   stamp |-> NoStamp, average |-> NoAverage]

(* Rows for the orders placed after a version.                             *)
Insert(rows, last, stop) ==
  LET places == Rows("place", last, stop)
      placed == {places[i].order : i \in DOMAIN places}
  IN [id \in DOMAIN rows \cup placed |->
       IF id \in DOMAIN rows THEN rows[id]
       ELSE NewRow(places[CHOOSE i \in DOMAIN places : places[i].order = id])]

(* average_execution_price is numeric(20,0): a quotient is rounded.        *)
Rounded(n, d) == (2 * n + d) \div (2 * d)

AggregateFill(rows, id, size, price) ==
  IF id \notin DOMAIN rows THEN rows ELSE
  [rows EXCEPT
    ![id].status = IF rows[id].type # "limit" \/ rows[id].remaining = size
                   THEN "closed" ELSE @,
    ![id].average = Rounded(rows[id].filled * @ + size * price,
                            rows[id].filled + size),
    ![id].filled = @ + size,
    ![id].remaining = @ - size]

AggregateFillForMakerAndTaker(rows, fill) ==
  AggregateFill(AggregateFill(rows, fill.order, fill.size, fill.price),
                fill.taker, fill.size, fill.price)

(* Fills are emitted to both handles: the maker's counts.                  *)
Counts(fill) == fill.maker = fill.emit

(* MUTANT: any size change is stamped.                                     *)
AggregateChangeAlwaysStamps(rows, change) ==
  [rows EXCEPT
    ![change.order].stamp = <<change.txn, change.idx>>,
    ![change.order].remaining = change.size]

AggregateChange(rows, change) ==
  LET row == rows[change.order]
      grows == row.type = "limit" /\ row.remaining < change.size
  IN [rows EXCEPT
       ![change.order].stamp = IF grows THEN <<change.txn, change.idx>> ELSE @,
       ![change.order].remaining = change.size]

Aggregate(rows, e) ==
  CASE e.kind = "change" -> AggregateChange(rows, e)
    [] e.kind = "fill" /\ Counts(e) -> AggregateFillForMakerAndTaker(rows, e)
    [] OTHER -> rows

TakesFill(fill, change) ==
  \/ fill.txn < change.txn
  \/ fill.txn = change.txn /\ fill.idx < change.idx

Merged(fills, changes) == Merge(fills, changes, TakesFill)

MarkCancelled(rows, cancels) ==
  [id \in DOMAIN rows |->
    IF \E i \in DOMAIN cancels : cancels[i].order = id
    THEN [rows[id] EXCEPT !.status = "cancelled"] ELSE rows[id]]

-----------------------------------------------------------------------------
(* The run of the pipeline.                                                *)

LastIndexed == IF lastIndexed = {} THEN 0 ELSE CHOOSE v \in lastIndexed : TRUE

(* MUTANT: the new orders are inserted outside the transaction.            *)
BeginInsertsAtOnce ==
  LET last == LastIndexed
      stop == MaxTxnVersion(indexed)
  IN /\ run.pc = "idle"
     /\ history' = Insert(history, last, stop)
     /\ run' = [pc |-> "batches", exists |-> lastIndexed # {},
                last |-> last, start |-> last, stop |-> stop, rows |-> history']
     /\ UNCHANGED <<chainVars, lastIndexed, batchSize, failures>>

(* Opens a repeatable read transaction, and inserts the new orders.        *)
Begin ==
  LET last == LastIndexed
      stop == MaxTxnVersion(indexed)
  IN /\ run.pc = "idle"
     /\ run' = [pc |-> "batches", exists |-> lastIndexed # {},
                last |-> last, start |-> last, stop |-> stop,
                rows |-> Insert(history, last, stop)]
     /\ UNCHANGED <<chainVars, history, lastIndexed, batchSize, failures>>

IterStop == MinOf(run.start + batchSize, run.stop)

HasRows(changes) ==
  \A i \in DOMAIN changes : changes[i].order \in DOMAIN run.rows

AggregateBatch ==
  LET fills   == Rows("fill", run.start, IterStop)
      changes == Rows("change", run.start, IterStop)
  IN /\ run.pc = "batches" /\ run.start < run.stop
     /\ HasRows(changes)
     /\ batchSize' = UpdateBatchSize(batchSize, Len(fills) + Len(changes))
     /\ run' = [run EXCEPT
          !.rows = FoldLeft(Aggregate, @, Merged(fills, changes)),
          !.start = IterStop]
     /\ UNCHANGED <<chainVars, history, lastIndexed, failures>>

(* A size change of an order that was placed before its account had        *)
(* handles: fetch_one finds no row and the run fails.                      *)
AggregateBatchFails ==
  LET fills   == Rows("fill", run.start, IterStop)
      changes == Rows("change", run.start, IterStop)
  IN /\ run.pc = "batches" /\ run.start < run.stop
     /\ ~HasRows(changes)
     /\ batchSize' = UpdateBatchSize(batchSize, Len(fills) + Len(changes))
     /\ run' = NoRun
     /\ UNCHANGED <<chainVars, history, lastIndexed, failures>>

(* MUTANT: only updates.                                                   *)
UpdateMaxTxnVersionUpdates(exists, v) == lastIndexed' = {v : row \in lastIndexed}

(* UPDATE, or INSERT when there was no row.                                *)
UpdateMaxTxnVersion(exists, v) ==
  lastIndexed' = IF exists THEN {v : row \in lastIndexed} ELSE lastIndexed \cup {v}

Commit ==
  /\ run.pc = "batches" /\ run.start >= run.stop
  /\ history' = MarkCancelled(run.rows, Rows("cancel", run.last, run.stop))
  /\ UpdateMaxTxnVersion(run.exists, run.stop)
  /\ run' = NoRun
  /\ UNCHANGED <<chainVars, batchSize, failures>>

(* A query fails: the transaction is rolled back, the process goes on.     *)
Fail ==
  /\ run.pc # "idle" /\ failures < MaxFailures
  /\ failures' = failures + 1
  /\ run' = NoRun
  /\ UNCHANGED <<chainVars, history, lastIndexed, batchSize>>

(* The aggregator dies, and is started again.                              *)
Crash ==
  /\ failures < MaxFailures
  /\ failures' = failures + 1
  /\ run' = NoRun
  /\ batchSize' = DefaultBatchSize
  /\ UNCHANGED <<chainVars, history, lastIndexed>>

Pipeline == Begin \/ AggregateBatch \/ AggregateBatchFails \/ Commit

Next ==
  \/ ChainNext /\ UNCHANGED pipelineVars
  \/ Pipeline \/ Fail \/ Crash

Spec == Init /\ [][Next]_vars /\ WF_vars(Pipeline)

-----------------------------------------------------------------------------
(* Properties.                                                             *)

Shown(row) ==
  [account |-> row.account, type |-> row.type, side |-> row.side,
   price |-> row.price, filled |-> row.filled, remaining |-> row.remaining,
   status |-> row.status]

(* The orders of a version whose accounts had event handles when they were *)
(* placed: without, an order has no row, and its makers' fills no event.   *)
Announced(id) ==
  \E i \in DOMAIN log : log[i].kind = "place" /\ log[i].order = id

AllAnnounced(v) == \A id \in DOMAIN ledger[v].orders : Announced(id)

Records == INSTANCE OrderRecords WITH
  records <- IF AllAnnounced(LastIndexed)
             THEN [id \in DOMAIN history |-> Shown(history[id])]
             ELSE ledger[LastIndexed].orders,
  through <- LastIndexed

(* Refinement.  The table shows every order as the market left it at one   *)
(* version, whatever the batches, errors, crashes and insertions of the    *)
(* processor while it runs, as long as every order has been announced by   *)
(* an event.                                                               *)
ShowsOneVersion == Records!Spec

(* The time at which an order joined its price level: last_increase_stamp, *)
(* or that of its placement, which the order ID numbers.                   *)
Stamp(id) ==
  IF history[id].stamp # NoStamp THEN history[id].stamp
  ELSE CHOOSE s \in {<<log[i].txn, log[i].idx>> : i \in DOMAIN log} :
         \E i \in DOMAIN log : /\ log[i].kind = "place" /\ log[i].order = id
                               /\ s = <<log[i].txn, log[i].idx>>

Later(x, y) ==
  LET s == Stamp(x)  t == Stamp(y)
  IN s[1] > t[1] \/ (s[1] = t[1] /\ s[2] > t[2])

(* Time priority can be read off the table: among open orders of a side    *)
(* and price, the later stamp is behind in the book.                       *)
StampsGivePriority ==
  \A side \in Sides :
    LET q == ledger[LastIndexed].book[side]
    IN \A i, j \in DOMAIN q :
         /\ i < j /\ q[i].price = q[j].price
         /\ Announced(q[i].id) /\ Announced(q[j].id)
         => Later(q[j].id, q[i].id)

(* The database holds a size change of an order that was never announced.  *)
(* No run that meets it succeeds.                                          *)
Stuck ==
  \E i \in DOMAIN log :
    log[i].kind = "change" /\ log[i].txn <= indexed /\ ~Announced(log[i].order)

(* The table catches up with the database again and again: the aggregator  *)
(* "periodically calls" the pipeline (README.md:53).  The one exception is *)
(* a size change that has no row to change.                                *)
CatchesUp == []<>(Stuck \/ LastIndexed = MaxTxnVersion(indexed))
=============================================================================
