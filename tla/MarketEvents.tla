---------------------------- MODULE MarketEvents ----------------------------
(***************************************************************************)
(* The events of one market, as the off-chain services see them: the       *)
(* tables that the processor fills, transaction by transaction, from what  *)
(* user.move and market.move emit.  `log' holds the rows of all tables in  *)
(* the order of the chain, `indexed' the last transaction version of which *)
(* the database holds the events, and `ledger' what is true of the orders  *)
(* after each version, taken from the matching itself, not from events.    *)
(*                                                                         *)
(* A transaction holds one call, or several: a script or another package   *)
(* may make several.  The processor inserts the events of whole            *)
(* transactions, in order, atomically.                                     *)
(***************************************************************************)
EXTENDS Naturals, Sequences, SequencesExt

CONSTANTS
  Accounts,           \* market accounts: user address and custodian ID
  UserOf(_),          \* the address of a market account
  Legacy,             \* accounts registered before there were event handles
  MaxOrders,          \* bound on orders
  MaxEvents,          \* bound on events
  MaxMinute,          \* bound on the clock
  OneCallEach         \* whether a transaction holds one call only

CONSTANTS             \* inputs
  Placements,         \* orders that may be placed
  NewSizes            \* of size changes

AllTypes == {"limit", "market", "swap", "coins"}   \* coins: a swap with no signer
Sides    == {"ask", "bid"}
NoPrice  == 0         \* NULL: the price of an order that has none

(* An order as it is placed; `rests' if not immediate or cancel.           *)
Placeable ==
  [account : Accounts, type : AllTypes, side : Sides, price : Nat,
   size : Nat \ {0}, rests : BOOLEAN]

ASSUME EventsAssumption ==
  /\ Legacy \subseteq Accounts
  /\ MaxOrders \in Nat /\ MaxEvents \in Nat /\ MaxMinute \in Nat
  /\ OneCallEach \in BOOLEAN
  /\ Placements \subseteq Placeable
  /\ \A p \in Placements : /\ p.type = "limit" <=> p.price # NoPrice
                           /\ p.rests => p.type = "limit"
  /\ NewSizes \subseteq Nat \ {0}

VARIABLES
  book,       \* resting orders of each side, best first
  log,        \* events
  version,    \* version of the last transaction
  clock,      \* minutes
  indexed,    \* version of the last transaction in the database
  ledger,     \* orders and book after each version
  handles     \* accounts with handles to which events are emitted

chainVars == <<book, log, version, clock, indexed, ledger, handles>>

MinOf(a, b)  == IF a <= b THEN a ELSE b
MaxOf(a, b)  == IF a >= b THEN a ELSE b
Opposite(side) == IF side = "ask" THEN "bid" ELSE "ask"

(* The elements of s at the indices in I, in their order.                  *)
Select(s, I) ==
  LET f[n \in 0..Len(s)] ==
        IF n = 0 THEN << >> ELSE IF n \in I THEN Append(f[n - 1], s[n]) ELSE f[n - 1]
  IN f[Len(s)]

(* A record with further fields.                                           *)
Extend(e, more) ==
  [x \in DOMAIN e \cup DOMAIN more |-> IF x \in DOMAIN e THEN e[x] ELSE more[x]]

Orders == ledger[version].orders
NewId  == Len(Orders) + 1

ChainInit ==
  /\ book = [side \in Sides |-> << >>]
  /\ log = << >>
  /\ version = 0
  /\ clock = 0
  /\ indexed = 0
  /\ ledger = [v \in {0} |-> [orders |-> << >>, book |-> book]]
  /\ handles = Accounts \ Legacy

-----------------------------------------------------------------------------
(* Transactions.                                                           *)

CanContinue ==
  /\ ~OneCallEach /\ version > indexed
  /\ log # << >> /\ log[Len(log)].txn = version

(* The events of a call follow those of its transaction, in the order in   *)
(* which it emits them; the chain numbers them and gives them its time.    *)
Emit(fresh, events) ==
  LET tail == IF fresh THEN 0 ELSE log[Len(log)].idx
      time == IF fresh THEN clock ELSE log[Len(log)].time
  IN /\ fresh \/ CanContinue
     /\ Len(log) + Len(events) <= MaxEvents
     /\ version' = IF fresh THEN version + 1 ELSE version
     /\ log' = log \o [i \in DOMAIN events |->
                        Extend(events[i], [txn |-> version', idx |-> tail + i,
                                           time |-> time])]

Record(orders) ==
  ledger' = [v \in 0..version' |->
              IF v = version' THEN [orders |-> orders, book |-> book']
              ELSE ledger[v]]

-----------------------------------------------------------------------------
(* Placing an order.                                                       *)

Crosses(e, side, price) ==
  \/ price = NoPrice
  \/ IF side = "bid" THEN e.price <= price ELSE e.price >= price

CrossedBy(q, side, price) == {i \in DOMAIN q : Crosses(q[i], side, price)}

Crossing(side, price) ==
  LET q == book[Opposite(side)] IN Select(q, CrossedBy(q, side, price))

Ahead(q, i) == FoldLeft(LAMBDA n, e : n + e.size, 0, SubSeq(q, 1, i - 1))

(* Lots that each order of q gives to a taker, the front ones first.       *)
Lots(q, size) ==
  [i \in DOMAIN q |->
    MinOf(q[i].size, IF size > Ahead(q, i) THEN size - Ahead(q, i) ELSE 0)]

Filled(q, size) == MinOf(size, Ahead(q, Len(q) + 1))

(* Events of the same fills, emitted to the handles of the taker, or of    *)
(* each maker that has them.                                               *)
FillEvents(taker, id, q, lots, toMaker) ==
  LET heard(i) == toMaker => Orders[q[i].id].account \in handles
      maker(i) == UserOf(Orders[q[i].id].account)
      fill(i) == [kind |-> "fill", order |-> q[i].id, taker |-> id,
                  size |-> lots[i], price |-> q[i].price, maker |-> maker(i),
                  emit |-> IF toMaker THEN maker(i) ELSE UserOf(taker)]
  IN Select([i \in DOMAIN q |-> fill(i)], {i \in DOMAIN q : lots[i] > 0 /\ heard(i)})

PlaceEvent(p) ==
  [kind |-> "place", order |-> NewId, account |-> p.account, type |-> p.type,
   side |-> p.side, price |-> p.price, size |-> p.size]

CancelEvent(id) == [kind |-> "cancel", order |-> id]

(* Swaps have handles of their own, made as needed.                        *)
Heard(account, type, events) ==
  IF type \in {"swap", "coins"} \/ account \in handles THEN events ELSE << >>

(* A limit or market order announces itself first; a swap with a signer    *)
(* after the fills of its makers; a swap without one has no fills of its   *)
(* own.                                                                    *)
PlaceEvents(p, q, cancelled) ==
  LET lots == Lots(q, p.size)
      own == Heard(p.account, p.type,
               <<PlaceEvent(p)>>
               \o (IF p.type = "coins" THEN << >>
                   ELSE FillEvents(p.account, NewId, q, lots, FALSE))
               \o (IF cancelled THEN <<CancelEvent(NewId)>> ELSE << >>))
      others == FillEvents(p.account, NewId, q, lots, TRUE)
  IN IF p.type = "swap" THEN others \o own ELSE own \o others

Untouched(q, side, price) ==
  Select(q, DOMAIN q \ CrossedBy(q, side, price))

Reduced(q, size) ==
  LET lots == Lots(q, size)
      left == [i \in DOMAIN q |-> [q[i] EXCEPT !.size = @ - lots[i]]]
  IN Select(left, {i \in DOMAIN left : left[i].size > 0})

(* Behind every order at a price as good or better.                        *)
Enqueue(q, side, e) ==
  LET better == {i \in DOMAIN q : IF side = "ask" THEN q[i].price <= e.price
                                   ELSE q[i].price >= e.price}
  IN Select(q, better) \o <<e>> \o Select(q, DOMAIN q \ better)

Status(cancelled, remaining) ==
  IF cancelled THEN "cancelled" ELSE IF remaining = 0 THEN "closed" ELSE "open"

(* Lots that an order gives.                                               *)
Given(q, size, id) ==
  FoldLeft(LAMBDA n, i : IF q[i].id = id THEN n + Lots(q, size)[i] ELSE n,
           0, [i \in DOMAIN q |-> i])

(* Orders as they are after a taker has matched those of q.                *)
Matched(q, size) ==
  LET given(id) == Given(q, size, id)
  IN [id \in DOMAIN Orders |->
       [Orders[id] EXCEPT
         !.filled = @ + given(id), !.remaining = @ - given(id),
         !.status = IF @ = "open" /\ Orders[id].remaining = given(id)
                    THEN "closed" ELSE @]]

(* An order matches whatever it crosses; what is left of a limit order     *)
(* rests, unless it is immediate or cancel, and what is left of another is *)
(* cancelled.                                                              *)
Place(p, fresh) ==
  LET q == Crossing(p.side, p.price)
      remaining == p.size - Filled(q, p.size)
      posts == p.rests /\ remaining > 0
      cancelled == ~posts /\ remaining > 0
      order == [account |-> p.account, type |-> p.type, side |-> p.side,
                price |-> p.price, filled |-> p.size - remaining,
                remaining |-> remaining, status |-> Status(cancelled, remaining)]
  IN /\ NewId <= MaxOrders
     /\ \A i \in DOMAIN q :        \* a self match aborts
          Lots(q, p.size)[i] > 0 => Orders[q[i].id].account # p.account
     /\ Emit(fresh, PlaceEvents(p, q, cancelled))
     /\ book' = [book EXCEPT
          ![Opposite(p.side)] = Reduced(q, p.size) \o Untouched(@, p.side, p.price),
          ![p.side] = IF posts
                      THEN Enqueue(@, p.side, [id |-> NewId, price |-> p.price,
                                               size |-> remaining])
                      ELSE @]
     /\ Record(Append(Matched(q, p.size), order))
     /\ UNCHANGED <<clock, indexed, handles>>

-----------------------------------------------------------------------------
(* Changing an order.                                                      *)

Without(q, id) == Select(q, {i \in DOMAIN q : q[i].id # id})

CancelOrder(id, fresh) ==
  LET side == Orders[id].side
  IN /\ Orders[id].status = "open"
     /\ Emit(fresh, Heard(Orders[id].account, "limit", <<CancelEvent(id)>>))
     /\ book' = [book EXCEPT ![side] = Without(@, id)]
     /\ Record([Orders EXCEPT ![id].status = "cancelled"])
     /\ UNCHANGED <<clock, indexed, handles>>

(* An order that grows goes to the back of its price level.                *)
ChangeOrderSize(id, size, fresh) ==
  LET order == Orders[id]
      resized == [id |-> id, price |-> order.price, size |-> size]
      inPlace(q) == [i \in DOMAIN q |-> IF q[i].id = id THEN resized ELSE q[i]]
  IN /\ order.status = "open" /\ order.remaining # size
     /\ Emit(fresh, Heard(order.account, "limit",
                          <<[kind |-> "change", order |-> id, size |-> size]>>))
     /\ book' = [book EXCEPT ![order.side] =
                  IF size < order.remaining THEN inPlace(@)
                  ELSE Enqueue(Without(@, id), order.side, resized)]
     /\ Record([Orders EXCEPT ![id].remaining = size])
     /\ UNCHANGED <<clock, indexed, handles>>

(* init_market_event_handles_if_missing, by the user of the account.       *)
InitHandles(account) ==
  /\ account \notin handles
  /\ handles' = handles \cup {account}
  /\ UNCHANGED <<book, log, version, clock, indexed, ledger>>

-----------------------------------------------------------------------------
(* Time, and the processor.                                                *)

Tick ==
  /\ clock < MaxMinute
  /\ clock' = clock + 1
  /\ UNCHANGED <<book, log, version, indexed, ledger, handles>>

(* The processor inserts a batch of transactions (number of concurrent     *)
(* tasks: 1, so versions arrive in order).                                 *)
Index ==
  /\ indexed < version
  /\ indexed' = version
  /\ UNCHANGED <<book, log, version, clock, ledger, handles>>

Call ==
  \E fresh \in BOOLEAN :
    \/ \E p \in Placements : Place(p, fresh)
    \/ \E id \in DOMAIN Orders : CancelOrder(id, fresh)
    \/ \E id \in DOMAIN Orders, size \in NewSizes :
         ChangeOrderSize(id, size, fresh)

ChainNext ==
  \/ Call \/ Tick \/ Index
  \/ \E account \in Accounts : InitHandles(account)

-----------------------------------------------------------------------------
(* What a query of the event tables returns.                               *)

(* Rows of a kind with start < txn_version <= stop, in the order of the    *)
(* chain.                                                                  *)
Rows(kind, start, stop) ==
  SelectSeq(log, LAMBDA e : e.kind = kind /\ start < e.txn /\ e.txn <= stop)

(* MAX(txn_version) over the tables of a database that holds the events of *)
(* the versions up to v.                                                   *)
MaxTxnVersion(v) ==
  Max({0} \cup {log[i].txn : i \in {k \in DOMAIN log : log[k].txn <= v}})
=============================================================================
