---------------------------- MODULE MarketAccount ----------------------------
(***************************************************************************)
(* The bookkeeping of one market account, after user.move: the three       *)
(* counters kept for each asset, the tables of asks and bids indexed by    *)
(* order access key, and the stacks of inactive access keys threaded       *)
(* through the `size' field of inactive orders.                            *)
(*                                                                         *)
(* The module has no state.  Each operator takes the account as a record   *)
(* and returns the updated record; `Can...' operators are the assertions a *)
(* function makes on values its caller chooses.  Assertions that compare   *)
(* the account with the order book (start size, access key) are not        *)
(* guards: module Market states them as an invariant.                      *)
(***************************************************************************)
EXTENDS Integers, Sequences, FiniteSets, Functions

CONSTANTS
  LotSize,    \* base units in a lot
  TickSize,   \* quote units in a tick
  HI_64,      \* largest amount a u64 counter holds
  HI_PRICE    \* largest price

ASSUME UnitsAssumption ==
  /\ LotSize  \in Nat \ {0}
  /\ TickSize \in Nat \ {0}
  /\ HI_64    \in Nat
  /\ HI_PRICE \in Nat \ {0}

NIL == 0

Sides  == {"ask", "bid"}
Assets == {"base", "quote"}

Opposite(side) == IF side = "ask" THEN "bid" ELSE "ask"

(* The asset an order on a side receives, and the one it gives.            *)
InAsset(side)  == IF side = "ask" THEN "quote" ELSE "base"
OutAsset(side) == IF side = "ask" THEN "base" ELSE "quote"

(* What `size' lots at `price' ticks per lot are worth in an asset.        *)
Units(asset, size, price) ==
  IF asset = "base" THEN size * LotSize ELSE size * price * TickSize

(* A market order ID: the order counter in the high 64 bits and the AVL    *)
(* queue access key, list node and insertion key, in the low 64 bits.      *)
MarketOrderIds == [counter : Nat, node : Nat, price : Nat]
MarketOrderId(counter, node, price) ==
  [counter |-> counter, node |-> node, price |-> price]
NilOrderId == MarketOrderId(NIL, NIL, NIL)

Orders   == [id : MarketOrderIds, size : Int]
Accounts == [orders : [Sides -> Seq(Orders)], top : [Sides -> Nat],
             total : [Assets -> Int], available : [Assets -> Int],
             ceiling : [Assets -> Int]]

EmptyAccount ==
  [orders    |-> [s \in Sides |-> << >>],
   top       |-> [s \in Sides |-> NIL],
   total     |-> [x \in Assets |-> 0],
   available |-> [x \in Assets |-> 0],
   ceiling   |-> [x \in Assets |-> 0]]

-----------------------------------------------------------------------------
(* Collateral.                                                             *)

CanDeposit(m, asset, amount) == m.ceiling[asset] + amount <= HI_64

Deposit(m, asset, amount) ==
  [m EXCEPT !.total[asset]     = @ + amount,
            !.available[asset] = @ + amount,
            !.ceiling[asset]   = @ + amount]

CanWithdraw(m, asset, amount) == amount <= m.available[asset]

Withdraw(m, asset, amount) ==
  [m EXCEPT !.total[asset]     = @ - amount,
            !.available[asset] = @ - amount,
            !.ceiling[asset]   = @ - amount]

-----------------------------------------------------------------------------
(* Orders.                                                                 *)

NextOrderAccessKey(m, side) ==
  IF m.top[side] = NIL THEN Len(m.orders[side]) + 1 ELSE m.top[side]

CanPlaceOrder(m, side, size, price) ==
  /\ price \in 1..HI_PRICE
  /\ size * price <= HI_64
  /\ m.ceiling[InAsset(side)] + Units(InAsset(side), size, price) <= HI_64
  /\ Units(OutAsset(side), size, price) <= m.available[OutAsset(side)]

(* An access key is popped from the inactive stack when there is one, or   *)
(* else a new table entry is added.                                        *)
PlaceOrder(m, side, size, price, id) ==
  LET order == [id |-> id, size |-> size]
      key   == m.top[side]
  IN [m EXCEPT
        !.ceiling[InAsset(side)]    = @ + Units(InAsset(side), size, price),
        !.available[OutAsset(side)] = @ - Units(OutAsset(side), size, price),
        !.top[side]    = IF key = NIL THEN NIL ELSE m.orders[side][key].size,
        !.orders[side] = IF key = NIL THEN Append(@, order)
                                      ELSE [@ EXCEPT ![key] = order]]

(* MUTANT: the inactive order keeps its ID.                                *)
DeactivateKeepsId(m, side, key) ==
  [m EXCEPT !.orders[side][key].size = m.top[side],
            !.top[side]              = key]

(* MUTANT: the stack below the key is forgotten.                           *)
DeactivateForgetsStack(m, side, key) ==
  [m EXCEPT !.orders[side][key] = [id |-> NilOrderId, size |-> NIL],
            !.top[side]         = key]

(* An inactive order has no ID and holds the previous top of the stack.    *)
Deactivate(m, side, key) ==
  [m EXCEPT !.orders[side][key] = [id |-> NilOrderId, size |-> m.top[side]],
            !.top[side]         = key]

CanCancelOrder(m, side, key, id) == m.orders[side][key].id = id

CancelOrder(m, side, price, key) ==
  LET size == m.orders[side][key].size
  IN [Deactivate(m, side, key) EXCEPT
        !.available[OutAsset(side)] = @ + Units(OutAsset(side), size, price),
        !.ceiling[InAsset(side)]    = @ - Units(InAsset(side), size, price)]

(* MUTANT: only the size is changed, and not what it locks up.             *)
ResizeKeepsCollateral(m, side, newSize, price, key, id) ==
  [m EXCEPT !.orders[side][key].size = newSize]

(* A size change cancels and places the order again, under the same ID.    *)
CanChangeOrderSize(m, side, newSize, price, key, id) ==
  /\ m.orders[side][key].size # newSize
  /\ CanCancelOrder(m, side, key, id)
  /\ CanPlaceOrder(CancelOrder(m, side, price, key), side, newSize, price)

ChangeOrderSize(m, side, newSize, price, key, id) ==
  PlaceOrder(CancelOrder(m, side, price, key), side, newSize, price, id)

(* A maker's order is filled, in full or in part.                          *)
FillOrder(m, side, key, fillSize, completeFill, price) ==
  LET assetIn  == Units(InAsset(side), fillSize, price)
      assetOut == Units(OutAsset(side), fillSize, price)
  IN [IF completeFill THEN Deactivate(m, side, key)
                      ELSE [m EXCEPT !.orders[side][key].size = @ - fillSize]
      EXCEPT !.total[InAsset(side)]     = @ + assetIn,
             !.available[InAsset(side)] = @ + assetIn,
             !.total[OutAsset(side)]    = @ - assetOut,
             !.ceiling[OutAsset(side)]  = @ - assetOut]

(* The access keys of a side, in use or not.                               *)
ActiveKeys(m, side) ==
  {k \in DOMAIN m.orders[side] : m.orders[side][k].id # NilOrderId}
InactiveKeys(m, side) == DOMAIN m.orders[side] \ ActiveKeys(m, side)

(* The IDs of a side's active orders, each with its access key: callers go *)
(* through them in order of access key.                                    *)
ActiveMarketOrderIds(m, side) ==
  {<<k, m.orders[side][k].id>> : k \in ActiveKeys(m, side)}

(* The inactive keys are a chain from the top of the stack, in which each  *)
(* inactive order's size is the next key.                                  *)
InactiveKeysStacked(m, side) ==
  LET K == InactiveKeys(m, side)
      n == Cardinality(K)
      KeyAt(chain, i) == IF i > n THEN NIL ELSE chain[i]
  IN \E chain \in [1..n -> K] :
       /\ IsInjective(chain)
       /\ m.top[side] = KeyAt(chain, 1)
       /\ \A i \in 1..n :
            m.orders[side][chain[i]].size = KeyAt(chain, i + 1)
=============================================================================
