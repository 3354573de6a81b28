---------------------------- MODULE MarketSafety ----------------------------
(***************************************************************************)
(* What makes a market correct.  The order book (market.move) and the      *)
(* market accounts (user.move) keep the same orders twice, linked by       *)
(* access keys in both directions; the first group of invariants says that *)
(* the two agree, at every step of every transaction.                      *)
(***************************************************************************)
EXTENDS Market

TxTypes ==
  [status : {"idle", "matching", "settling", "cancelling"},
   kind : {"none", "limit", "market", "swap", "cancelAll"},
   taker : Traders \cup {NoTaker}, side : Sides, size : Nat, price : Nat,
   restriction : AllRestrictions, behavior : AllBehaviors, bounds : Bounds,
   lots : Nat, ticks : Nat, coins : [Assets -> Int], fees : Int,
   selfCancel : BOOLEAN, ids : SUBSET (Nat \X MarketOrderIds)]

Books == [Sides -> Queues(BookOrders)]

States == [book : Books, acct : [Traders -> Accounts], counter : Nat,
           fees : Int, net : [Assets -> Int]]

(* Every variable has its type, the snapshot of a transaction included.    *)
TypeOK ==
  /\ book \in Books
  /\ acct \in [Traders -> Accounts]
  /\ counter \in Nat
  /\ fees \in Int
  /\ net \in [Assets -> Int]
  /\ tx \in TxTypes
  /\ saved \in States \cup {NoState}
  /\ Idle <=> saved = NoState

-----------------------------------------------------------------------------
(* Accounts and book.                                                      *)

(* An entry of the book is, in the account of its user, under its access   *)
(* key, an active order of the same size whose ID names its price and list *)
(* node.                                                                   *)
OrderInAccount(e, accts, side, orderCounter) ==
  LET order == accts[e.value.user].orders[side][e.value.access]
  IN /\ e.value.access \in ActiveKeys(accts[e.value.user], side)
     /\ order.size = e.value.size
     /\ order.id = MarketOrderId(order.id.counter, e.node, e.key)
     /\ order.id.counter \in 1..orderCounter

OrdersInAccounts(q, accts, side, orderCounter) ==
  \A i \in DOMAIN q.list :
    OrderInAccount(q.list[i], accts, side, orderCounter)

KeyOf(q, i) == <<q.list[i].value.user, q.list[i].value.access>>

KeysDistinct(q) ==
  \A i, j \in DOMAIN q.list : i # j => KeyOf(q, i) # KeyOf(q, j)

ActiveKeysInBook(q, accts, side) ==
  \A a \in Traders : \A k \in ActiveKeys(accts[a], side) :
    \E i \in DOMAIN q.list : KeyOf(q, i) = <<a, k>>

(* The orders of the book and the active orders of the accounts are in one *)
(* to one correspondence (the start size, order ID, access key and         *)
(* insertion key assertions of user.move and market.move).                 *)
BookMatchesAccounts ==
  \A side \in Sides :
    /\ OrdersInAccounts(book[side], acct, side, counter)
    /\ KeysDistinct(book[side])
    /\ ActiveKeysInBook(book[side], acct, side)

SumOver(S, f(_)) == MapThenSumSet(f, S)

(* What the active orders of an account lock up of an asset, and what they *)
(* would bring in.                                                         *)
OrdersWorth(a, side, x) ==
  SumOver(ActiveKeys(acct[a], side),
          LAMBDA k : LET order == acct[a].orders[side][k]
                     IN Units(x, order.size, order.id.price))

(* An account's available amount is its total less what its open orders    *)
(* would give, its ceiling the total and what they would receive, and no   *)
(* ceiling exceeds a u64 (the counters user.move updates by increments).   *)
CountersMatchOrders ==
  \A a \in Traders, side \in Sides :
    LET m == acct[a]
        in == InAsset(side)
        out == OutAsset(side)
    IN /\ m.available[out] = m.total[out] - OrdersWorth(a, side, out)
       /\ m.ceiling[in] = m.total[in] + OrdersWorth(a, side, in)
       /\ m.available[out] >= 0
       /\ m.ceiling[in] <= HI_64

(* No asset is created or lost: accounts, fees and coins in flight add up  *)
(* to what was brought in from outside, at every step of a match.          *)
AssetsConserved ==
  \A x \in Assets :
    net[x] = SumOver(Traders, LAMBDA a : acct[a].total[x]) + tx.coins[x]
               + (IF x = "quote" THEN fees ELSE 0)

(* The inactive access keys of each account are a stack threaded through   *)
(* its inactive orders: no key is lost, and none is on it twice.           *)
InactiveKeysChained ==
  \A a \in Traders, side \in Sides : InactiveKeysStacked(acct[a], side)

(* List nodes are neither lost nor handed out while in use, and there are  *)
(* never more than NNodesMax of them.                                      *)
NodesPartitioned == \A side \in Sides : PartitionsNodes(book[side])

-----------------------------------------------------------------------------
(* The order book.                                                         *)

(* The best price comes first on each side, after fills, cancels, size     *)
(* changes and evictions (match takes the head, and trusts it).            *)
Sorted == \A side \in Sides : SortedByKey(book[side])

(* Between transactions the best bid is below the best ask, whatever a     *)
(* partial match, an eviction, a size change or a rollback left behind.    *)
BookNotCrossed ==
  Idle => \A i \in DOMAIN book["bid"].list, j \in DOMAIN book["ask"].list :
            book["bid"].list[i].key < book["ask"].list[j].key

(* No order without lots rests: the branch of match that evicts one at the *)
(* head is never taken.                                                    *)
NoEmptyOrders ==
  \A side \in Sides : \A i \in DOMAIN book[side].list :
    book[side].list[i].value.size > 0

IdIn(accts, side, e) == accts[e.value.user].orders[side][e.value.access].id

Committed == IF Idle THEN State ELSE saved

(* The entry was not in the book when the transaction began.               *)
IsNewcomer(side, e) == IdIn(acct', side, e).counter > Committed.counter

(* Two orders that rest before and after a step keep *)
(* their order, unless the one in front has grown: it then goes, and must  *)
(* go, to the back of its price level (change_order_size).  A new order    *)
(* queues behind all those at its price.  Filling, cancelling, evicting    *)
(* and rolling back reorder nothing.                                       *)
PriorityStep ==
  \A side \in Sides :
    LET old == book[side].list
        new == book'[side].list
        Same(i, j) == IdIn(acct, side, old[i]) = IdIn(acct', side, new[j])
    IN /\ \A i1, j1 \in DOMAIN old : \A i2, j2 \in DOMAIN new :
            i1 < j1 /\ Same(i1, i2) /\ Same(j1, j2) =>
              LET yields == /\ new[i2].value.size > old[i1].value.size
                            /\ old[i1].key = old[j1].key
              IN /\ j2 < i2 => yields
                 /\ yields /\ Idle => j2 < i2
       /\ \A i, j \in DOMAIN new :
            IsNewcomer(side, new[j]) /\ new[i].key = new[j].key => i <= j

(* An order is evicted only for one at a strictly better price: of two at  *)
(* the same price, the one that came first stays.                          *)
EvictionStep ==
  \A side \in Sides :
    LET old == book[side].list
        new == book'[side].list
    IN \A i \in DOMAIN old, j \in DOMAIN new :
         /\ IsNewcomer(side, new[j])
         /\ \A k \in DOMAIN new :
              IdIn(acct, side, old[i]) # IdIn(acct', side, new[k])
         => Precedes(book[side], new[j].key, old[i].key)

(* Price-time priority is kept by every step: by those that let an order   *)
(* rest, fill it, resize it or cancel it, and by those that evict one.     *)
PriceTimePriority == [][PriorityStep /\ EvictionStep]_vars

-----------------------------------------------------------------------------
(* Order IDs.                                                              *)

OpenOrders(accts) ==
  UNION {{<<a, side, accts[a].orders[side][k].id>> :
            k \in ActiveKeys(accts[a], side)} : a \in Traders, side \in Sides}

(* No ID is issued twice: a transaction that takes effect adds at most one *)
(* open order, under a counter no earlier order had, although list nodes   *)
(* and access keys are used again.                                         *)
IssuesFreshId ==
  LET before == OpenOrders(Committed.acct)
      after  == OpenOrders(Committed'.acct)
      new    == after \ before
  IN /\ Cardinality(new) <= 1
     /\ \A o \in new : o[3].counter > Committed.counter
     /\ Committed'.counter >= Committed.counter

(* Whatever ID is passed, cancel_order takes away the open order that bears*)
(* that very ID, and no other.                                             *)
CancelsNamedOrder ==
  \A a \in Traders, side \in CancelSides : \A id \in IssuedIds(side) :
    ManualCancel(a, side, id) =>
      /\ <<a, side, id>> \in OpenOrders(acct)
      /\ OpenOrders(acct') = OpenOrders(acct) \ {<<a, side, id>>}

(* An order ID names one order for all time: one that has gone stale hits  *)
(* nothing, even if its list node is in use again, by the same user.       *)
StaleIdsHitNothing == [][IssuesFreshId /\ CancelsNamedOrder]_vars

-----------------------------------------------------------------------------
(* Takers.                                                                 *)

(* Coins in flight never run out in the middle of a match, suffice for the *)
(* fees, and are in the end the amounts that match reckons (the coin       *)
(* amount assertion of deposit_asset).  What returns to a buyer, and the   *)
(* base that returns to a seller, fits in the account it was reckoned for  *)
(* before the match, even if the match has cancelled orders of it since.   *)
CoinsInFlightSuffice ==
  /\ \A x \in Assets : tx.coins[x] >= 0
  /\ Settling => /\ tx.coins["base"] = Returned(tx, "base")
                 /\ Returned(tx, "quote") >= 0
  /\ Settling /\ tx.kind # "swap" =>
       \A x \in Assets : ~(x = "quote" /\ tx.side = "ask") =>
         CanDeposit(acct[tx.taker], x, Returned(tx, x))

(* A taker trades no more base than asked, a buyer spends no more quote,   *)
(* fees included, than the maximum, and nobody trades at an average price  *)
(* worse than the limit.                                                   *)
TakerWithinLimits ==
  Settling =>
    LET lots  == MaxLots(tx) - tx.lots
        ticks == MaxTicks(tx) - tx.ticks
    IN /\ Traded(tx, "base") <= tx.bounds.max["base"]
       /\ IF tx.side = "bid"
          THEN /\ Traded(tx, "quote") <= tx.bounds.max["quote"]
               /\ ticks <= tx.price * lots
          ELSE ticks >= tx.price * lots

(* Unless a self match stopped it, a match ends only when nothing more     *)
(* could be filled: it leaves no order at the head that it could take.     *)
MatchIsExhaustive ==
  Settling /\ ~tx.selfCancel /\ ~IsEmpty(book[Makers]) =>
    LET price == HeadKey(book[Makers])
    IN \/ tx.lots = 0
       \/ tx.ticks < price
       \/ IF tx.side = "bid" THEN price > tx.price ELSE price < tx.price

(* The net quote a taker trades stays within the maximum (market.move      *)
(* documents max_quote of match so): it may not, for a seller, whose fee   *)
(* is rounded down for each fill.                                          *)
NetQuoteWithinMax ==
  Settling => Traded(tx, "quote") <= tx.bounds.max["quote"]

-----------------------------------------------------------------------------
(* Progress.                                                               *)

(* Every transaction comes to an end: the loop of match makes progress     *)
(* with each order it meets.  Cancelling all orders of an account on a     *)
(* side ends with none of them open, as no single cancel of the list can   *)
(* fail.                                                                   *)
TransactionsEnd ==
  /\ ~Idle ~> Idle
  /\ \A a \in Traders, side \in Sides :
       (Cancelling /\ tx.taker = a /\ tx.side = side)
         ~> (Idle /\ ActiveKeys(acct[a], side) = {})
=============================================================================
