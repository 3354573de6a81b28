------------------------------- MODULE MCFeed -------------------------------
(***************************************************************************)
(* Instances of the second aggregator for TLC.  Each behavior is one of    *)
(* one instance:                                                           *)
(*                                                                         *)
(*   "orders"   orders that are placed, changed and cancelled, several in  *)
(*              a second, with a crash: the constants of the module        *)
(*   "fills"    an order that another fills, with events of one time and a *)
(*              crash                                                      *)
(*   "periods"  a longer history, without a crash                          *)
(*   "schema"   the table refuses the rows                                 *)
(***************************************************************************)
EXTENDS Feed

VARIABLE instance    \* the one that runs

MCAccounts == {"maker", "taker"}
MCUserOf(a) == a
MCEpoch == -6

Placed(a, side, price, size, rests) ==
  [account |-> a, type |-> "limit", side |-> side, price |-> price, size |-> size,
   rests |-> rests]

OneAsk == {Placed("maker", "ask", 2, 2, TRUE)}
AskAndTaker == {Placed("maker", "ask", 2, 2, TRUE), Placed("taker", "bid", 2, 1, FALSE)}

Recognized == {[kind |-> "recognize", time |-> 1]}
Balances == {[kind |-> "balance", time |-> t] : t \in 1..2}

Fills == INSTANCE Feed WITH
  Placements <- AskAndTaker, MaxOrders <- 2, MaxEvents <- 5, MaxMinute <- 3,
  NewSizes <- {2}, Second <- 1, Epoch <- -3, Extra <- Balances

Periods == INSTANCE Feed WITH
  Placements <- AskAndTaker, MaxOrders <- 2, MaxEvents <- 6, MaxMinute <- 2,
  NewSizes <- {2}, Second <- 1, Epoch <- -3, Extra <- {}, MaxCrashes <- 0

Schema == INSTANCE Feed WITH
  MaxEvents <- 2, MaxMinute <- 4, SchemaAccepts <- FALSE, MaxCrashes <- 0

InstancesInit ==
  /\ instance \in {"orders", "fills", "periods", "schema"}
  /\ IF instance \in {"orders", "schema"} THEN Init ELSE Fills!Init

RunOrders  == instance = "orders" /\ Next /\ UNCHANGED instance
RunFills   == instance = "fills" /\ Fills!Next /\ UNCHANGED instance
RunPeriods == instance = "periods" /\ Periods!Next /\ UNCHANGED instance
RunSchema  == instance = "schema" /\ Schema!Next /\ UNCHANGED instance

InstancesNext == RunOrders \/ RunFills \/ RunPeriods \/ RunSchema

InstancesSpec == InstancesInit /\ [][InstancesNext]_<<vars, instance>>

-----------------------------------------------------------------------------
(* SavedAsOf of the instance that runs.                                    *)
EachSavedAsOf ==
  CASE instance = "fills" -> Fills!SavedAsOf
    [] instance = "periods" -> Periods!SavedAsOf
    [] OTHER -> SavedAsOf

(* PeriodsAddUp of the instance that runs.                                 *)
EachPeriodsAddUp ==
  IF instance \in {"orders", "schema"} THEN PeriodsAddUp ELSE Periods!PeriodsAddUp
=============================================================================
