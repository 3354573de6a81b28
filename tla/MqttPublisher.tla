---------------------------- MODULE MqttPublisher ----------------------------
(***************************************************************************)
(* The MQTT publisher: one loop turns the notifications of the event       *)
(* tables into messages, one publishes the price levels of the user        *)
(* history, one moves the messages of both from the client's queue to the  *)
(* broker.                                                                 *)
(***************************************************************************)
EXTENDS MarketEvents

CONSTANTS
  Capacity,           \* of the client's queue
  Levels,             \* price levels that are published
  PriceLevels,        \* MQTT_PRICE_LEVELS
  MaxFaults           \* bound on restarts and lost connections

ASSUME PublisherAssumption ==
  /\ Capacity \in Nat \ {0} /\ Levels \in Nat /\ MaxFaults \in Nat
  /\ PriceLevels \in BOOLEAN

VARIABLES
  aggregated,         \* version that the user history shows
  recorded,           \* whether user_history_last_indexed_txn has its row
  queue,              \* notifications that the listener has to receive
  sending,            \* messages of the last one, not yet in the client's queue
  emitted,            \* fills of which one notification has been published
  round,              \* the price levels being published
  client,             \* the client's queue
  published, shown,   \* what the broker got: events, and the last of each level
  since,              \* version of the database when the publisher began to listen
  faults

publisherVars == <<aggregated, recorded, queue, sending, emitted, round, client,
                   published, shown, since, faults>>
vars == <<chainVars, publisherVars>>

NoRound == [step |-> "sleep", snapshot |-> 0, recorded |-> FALSE, rows |-> << >>]

Init ==
  /\ ChainInit
  /\ aggregated = 0 /\ recorded = FALSE
  /\ queue = << >> /\ sending = << >> /\ emitted = {}
  /\ round = NoRound /\ client = << >> /\ published = << >> /\ shown = << >>
  /\ since = 0 /\ faults = 0

-----------------------------------------------------------------------------
(* The database.                                                           *)

Tables == {"place", "cancel", "change", "fill"}

TableOrders == {f \in [1..Cardinality(Tables) -> Tables] : IsInjective(f)}

(* Rows notify as they are inserted; the processor inserts table by table. *)
Notifications(new) ==
  LET rows(table) == Select(log, {i \in new : log[i].kind = table})
  IN {FlattenSeq([i \in DOMAIN f |-> rows(f[i])]) : f \in TableOrders}

Inserted == {i \in DOMAIN log : indexed < log[i].txn /\ log[i].txn <= indexed'}

(* Notifications are sent as the transaction commits.                      *)
ChainStep ==
  /\ ChainNext
  /\ \E notifications \in Notifications(Inserted) : queue' = queue \o notifications
  /\ UNCHANGED <<aggregated, recorded, sending, emitted, round, client,
                 published, shown, since, faults>>

(* The pipeline of the user history; only price levels depend on it.  Its  *)
(* first commit inserts the row of the version, also if there is no event. *)
AggregateUserHistory ==
  /\ PriceLevels
  /\ aggregated' \in (IF recorded THEN aggregated + 1 ELSE 0)..indexed
  /\ recorded' = TRUE
  /\ UNCHANGED <<chainVars, queue, sending, emitted, round, client, published, shown,
                 since, faults>>

-----------------------------------------------------------------------------
(* postgres_notif_loop.                                                    *)

(* A fill: the order of the taker and the sequence number of the trade,    *)
(* which tells its makers apart.                                           *)
Trade(e) == <<e.taker, e.order>>

AccountOf(id) == Orders[id].account

TopicsOf(e) ==
  CASE e.kind = "fill" -> <<<<"fill", AccountOf(e.order)>>, <<"fill", AccountOf(e.taker)>>>>
    [] e.kind = "place" -> <<<<e.type, e.account>>>>
    [] OTHER -> <<<<e.kind, AccountOf(e.order)>>>>

Messages(e) == [i \in DOMAIN TopicsOf(e) |-> [topic |-> TopicsOf(e)[i], event |-> e]]

Ready == sending = << >>

Forget(e) == emitted \ {Trade(e)}

(* Both events of a fill are notified; only the first is published.        *)
Receive ==
  /\ Ready /\ queue # << >>
  /\ queue' = Tail(queue)
  /\ LET e == Head(queue)
         seen == e.kind = "fill" /\ Trade(e) \in emitted
     IN /\ sending' = IF seen THEN sending ELSE Messages(e) \o sending
        /\ emitted' = IF seen THEN Forget(e) ELSE emitted
  /\ UNCHANGED <<chainVars, aggregated, recorded, round, client, published,
                 shown, since, faults>>

(* The fill that is remembered when a message is the last of its event.    *)
Sent(message) ==
  IF message.event.kind = "fill" /\ Len(sending) = 1 THEN {Trade(message.event)} ELSE {}

(* publish waits for a place in the queue.                                 *)
Send ==
  /\ sending # << >> /\ Len(client) < Capacity
  /\ client' = Append(client, Head(sending))
  /\ sending' = Tail(sending)
  /\ emitted' = emitted \cup Sent(Head(sending))
  /\ UNCHANGED <<chainVars, aggregated, recorded, queue, round, published,
                 shown, since, faults>>

-----------------------------------------------------------------------------
(* price_level_loop.                                                       *)

(* Of a side q of the book.                                                *)
Prices(q) == {q[i].price : i \in DOMAIN q}

(* The price of level n.                                                   *)
Best(side, q, n) ==
  LET better(p) == {r \in Prices(q) : IF side = "ask" THEN r < p ELSE r > p}
  IN CHOOSE p \in Prices(q) : Cardinality(better(p)) = n - 1

SizeAt(q, price) ==
  FoldLeft(LAMBDA n, e : IF e.price = price THEN n + e.size ELSE n, 0, q)

(* get_price_levels.sql                                                    *)
LevelsIn(side, q) ==
  [n \in 1..MinOf(Levels, Cardinality(Prices(q))) |->
     LET best == Best(side, q, n)
     IN [topic |-> <<side, n>>, price |-> best, size |-> SizeAt(q, best)]]

(* Of open orders in a user history of version v.                          *)
LevelsOf(side, v) == LevelsIn(side, ledger[v].book[side])

(* The message of a level, with the version that was read after it.        *)
LevelMessage(level, v) ==
  [topic |-> level.topic, price |-> level.price, size |-> level.size, version |-> v]

ReadLevels ==
  /\ PriceLevels /\ round.step = "sleep"
  /\ round' = [step |-> "read", snapshot |-> aggregated, recorded |-> recorded,
               rows |-> LevelsOf("ask", aggregated) \o LevelsOf("bid", aggregated)]
  /\ UNCHANGED <<chainVars, aggregated, recorded, queue, sending, emitted, client,
                 published, shown, since, faults>>

(* MUTANT: the default isolation level.                                    *)
VersionReadCommitted == aggregated

(* The transaction is a repeatable read.                                   *)
VersionRead == round.snapshot

ReadVersion ==
  /\ round.step = "read" /\ round.recorded
  /\ round' = [round EXCEPT !.step = "publish", !.snapshot = VersionRead]
  /\ UNCHANGED <<chainVars, aggregated, recorded, queue, sending, emitted, client,
                 published, shown, since, faults>>

(* The process ends; the container is restarted, and listens anew.         *)
StartAgain ==
  /\ queue' = << >> /\ sending' = << >> /\ emitted' = {}
  /\ round' = NoRound /\ client' = << >>
  /\ since' = indexed
  /\ UNCHANGED <<chainVars, aggregated, recorded, published, shown>>

(* fetch_one finds no row: the error ends this loop, and main with it.     *)
ReadVersionFails ==
  /\ round.step = "read" /\ ~round.recorded
  /\ StartAgain /\ UNCHANGED faults

(* MUTANT: only the best level is published.                               *)
RestAfterFirst == << >>

Rest == Tail(round.rows)

SendLevel ==
  /\ round.step = "publish" /\ round.rows # << >> /\ Len(client) < Capacity
  /\ client' = Append(client, LevelMessage(Head(round.rows), round.snapshot))
  /\ round' = [round EXCEPT !.rows = Rest]
  /\ UNCHANGED <<chainVars, aggregated, recorded, queue, sending, emitted,
                 published, shown, since, faults>>

Sleep ==
  /\ round.step = "publish" /\ round.rows = << >>
  /\ round' = NoRound
  /\ UNCHANGED <<chainVars, aggregated, recorded, queue, sending, emitted, client,
                 published, shown, since, faults>>

-----------------------------------------------------------------------------
(* eventpoll_loop; the broker.                                             *)

Poll ==
  /\ client # << >>
  /\ client' = Tail(client)
  /\ LET m == Head(client)
     IN IF "event" \in DOMAIN m
        THEN published' = Append(published, m) /\ UNCHANGED shown
        ELSE /\ shown' = [t \in DOMAIN shown \cup {m.topic} |->
                            IF t = m.topic THEN m ELSE shown[t]]
             /\ UNCHANGED published
  /\ UNCHANGED <<chainVars, aggregated, recorded, queue, sending, emitted,
                 round, since, faults>>

-----------------------------------------------------------------------------
(* Faults.                                                                 *)

(* An error of the broker's connection is unwrapped.                       *)
Restart ==
  /\ faults < MaxFaults /\ faults' = faults + 1
  /\ StartAgain

(* The listener's connection breaks; recv connects and listens again.      *)
Reconnect ==
  /\ faults < MaxFaults /\ faults' = faults + 1
  /\ queue' = << >> /\ since' = indexed
  /\ UNCHANGED <<chainVars, aggregated, recorded, sending, emitted, round, client,
                 published, shown>>

Next ==
  \/ ChainStep \/ AggregateUserHistory
  \/ Receive \/ Send
  \/ ReadLevels \/ ReadVersion \/ ReadVersionFails \/ SendLevel \/ Sleep
  \/ Poll
  \/ Restart \/ Reconnect

(* Neither loop waits for more than a place in the queue, and the queue is *)
(* fair to those that wait.                                                *)
Spec ==
  /\ Init /\ [][Next]_vars
  /\ WF_vars(AggregateUserHistory)
  /\ WF_vars(Receive) /\ SF_vars(Send)
  /\ WF_vars(ReadLevels) /\ WF_vars(ReadVersion) /\ WF_vars(ReadVersionFails)
  /\ SF_vars(SendLevel) /\ WF_vars(Sleep)
  /\ WF_vars(Poll)

-----------------------------------------------------------------------------
(* Properties.                                                             *)

(* No fill is published twice on the channel of an account, although each  *)
(* is notified twice, and whatever is lost.                                *)
FillsOnce ==
  LET fills == {i \in DOMAIN published : published[i].event.kind = "fill"}
  IN \A i, j \in fills :
       i # j /\ published[i].topic = published[j].topic =>
         Trade(published[i].event) # Trade(published[j].event)

Before(e, f) == e.txn < f.txn \/ (e.txn = f.txn /\ e.idx < f.idx)

(* The messages of a channel come in the order of the chain.               *)
InOrder ==
  \A i, j \in DOMAIN published :
    i < j /\ published[i].topic = published[j].topic =>
      Before(published[i].event, published[j].event)

(* A fill is remembered only until its second notification, unless that    *)
(* was lost, or never sent: a swap without a signer has none, nor has an   *)
(* account without handles, and these fills are remembered for good.       *)
RememberedUntilSecond ==
  faults = 0 =>
    \A trade \in emitted :
      \/ Orders[trade[1]].type = "coins"
      \/ {AccountOf(trade[1]), AccountOf(trade[2])} \cap Legacy # {}
      \/ \E i \in DOMAIN queue : queue[i].kind = "fill" /\ Trade(queue[i]) = trade

(* A level that is published is the one of the book at the version that    *)
(* its message names.                                                      *)
LevelsOfVersion ==
  \A t \in DOMAIN shown :
    LET m == shown[t] levels == LevelsOf(t[1], m.version)
    IN t[2] \in DOMAIN levels /\ LevelMessage(levels[t[2]], m.version) = m

(* What is published is true, in spite of repeated notifications, broken   *)
(* connections and a user history that moves on while levels are read.     *)
PublishedTrue ==
  FillsOnce /\ InOrder /\ RememberedUntilSecond /\ LevelsOfVersion

IsPublished(e) ==
  \A i \in DOMAIN TopicsOf(e) :
    \E m \in ToSet(published) :
      /\ m.topic = TopicsOf(e)[i] /\ m.event.kind = e.kind
      /\ IF e.kind = "fill" THEN Trade(m.event) = Trade(e) ELSE m.event = e

(* The publisher catches up, again and again, with what enters the         *)
(* database once it listens: every event is published on the channels of   *)
(* its accounts, a fill on those of both (mqtt.md: "you will receive the   *)
(* same fill event notification twice, once on each channel").  It misses  *)
(* what entered before it last began to listen, and with price levels on   *)
(* it begins anew until the user history has a version.                    *)
Delivered ==
  []<>(\A e \in ToSet(log) : since < e.txn /\ e.txn <= indexed => IsPublished(e))

(* Again and again the last messages show the levels of the user history,  *)
(* also after faults.                                                      *)
LevelsShown ==
  []<>(\A side \in Sides : \A n \in DOMAIN LevelsOf(side, aggregated) :
         /\ <<side, n>> \in DOMAIN shown
         /\ shown[<<side, n>>].version = aggregated)
=============================================================================
