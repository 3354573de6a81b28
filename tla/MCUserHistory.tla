--------------------------- MODULE MCUserHistory ----------------------------
(***************************************************************************)
(* Instances of the user history pipeline for TLC.  Each behavior is one   *)
(* of one instance:                                                        *)
(*                                                                         *)
(*   "faults"    orders of all types, transactions of several calls,       *)
(*               errors and crashes: the constants of the module           *)
(*   "priority"  size changes and fills of orders that queue at one price  *)
(*   "handles"   an account that was registered before there were event    *)
(*               handles, and may get them                                 *)
(***************************************************************************)
EXTENDS UserHistory

VARIABLE instance    \* the one that runs

MCAccounts == {"maker", "taker"}
MCUserOf(a) == a

Placed(a, type, side, price, size, rests) ==
  [account |-> a, type |-> type, side |-> side, price |-> price, size |-> size,
   rests |-> rests]

(* Asks at one price, which bids take.                                     *)
OnePrice ==
  {Placed("maker", "limit", "ask", 1, 2, TRUE),
   Placed("taker", "limit", "bid", 1, 1, FALSE)}

(* Orders of all types that rest, are filled and are cancelled.            *)
AllKinds ==
  {Placed("maker", "limit", "ask", 1, 1, TRUE),
   Placed("taker", "limit", "bid", 1, 2, TRUE),
   Placed("taker", "swap", "bid", NoPrice, 2, FALSE),
   Placed("taker", "market", "bid", NoPrice, 1, FALSE)}

Priority == INSTANCE UserHistory WITH
  Placements <- OnePrice, NewSizes <- {1, 3}, MaxOrders <- 3, MaxEvents <- 5,
  OneCallEach <- TRUE, MaxFailures <- 0

Handles == INSTANCE UserHistory WITH
  Legacy <- {"maker"}, Placements <- AllKinds, MaxOrders <- 2, MaxEvents <- 3,
  OneCallEach <- TRUE, MaxFailures <- 0

InstancesInit ==
  /\ instance \in {"faults", "priority", "handles"}
  /\ IF instance = "handles" THEN Handles!Init ELSE Init

RunFaults   == instance = "faults" /\ Next /\ UNCHANGED instance
RunPriority == instance = "priority" /\ Priority!Next /\ UNCHANGED instance
RunHandles  == instance = "handles" /\ Handles!Next /\ UNCHANGED instance

InstancesNext == RunFaults \/ RunPriority \/ RunHandles

InstancesSpec ==
  /\ InstancesInit /\ [][InstancesNext]_<<vars, instance>>
  /\ WF_vars(Pipeline)
=============================================================================
