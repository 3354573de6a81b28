---------------------------- MODULE MCMarketData ----------------------------
(***************************************************************************)
(* Instances, for TLC, of the pipelines that make data of a market from    *)
(* its events: those without memory, and the order history.  Each behavior *)
(* is one of one instance:                                                 *)
(*                                                                         *)
(*   "runs"     each pipeline without memory with the fills of a market,   *)
(*              and failures: the constants of the module                  *)
(*   "rolling"  rolling volume reads the candlesticks of another task      *)
(*   "restart"  the state of the order history is brought forward minute   *)
(*              by minute, and rebuilt after a crash                       *)
(*   "groups"   several orders after a fill                                *)
(*   "failure"  a query of the order history fails                         *)
(***************************************************************************)
EXTENDS Integers, FillPipelines

CONSTANTS             \* of the order history
  MinBatchSize, DefaultBatchSize, MaxBatchSize, IncreaseCoefficient, ReduceCoefficient,
  TargetEvents, FewEvents, Members, BPS, Divisor

VARIABLES
  spreads, liquidity, lastTimestamp, process, state, lastPrice, batchSize, minutes,
  crashes,     \* of the order history
  instance     \* the one that runs

historyVars == <<spreads, liquidity, lastTimestamp, process, state, lastPrice, batchSize,
                 minutes, crashes>>

MCAccounts == {"maker", "taker"}
MCUserOf(a) == a
MCStart == -1    \* the competition ends at the minute that follows
MCFee(fill) == (fill.size * fill.price) \div 2

Placed(a, side, price, size, rests) ==
  [account |-> a, type |-> "limit", side |-> side, price |-> price, size |-> size,
   rests |-> rests]

(* Asks, and bids whose remainder rests at another price.                  *)
TwoPrices ==
  {Placed("maker", "ask", 1, 1, TRUE), Placed("taker", "bid", 4, 2, TRUE)}

(* An ask, and bids that take it partly.                                   *)
LargeAsk == {Placed("maker", "ask", 2, 3, TRUE), Placed("taker", "bid", 2, 1, FALSE)}

(* Asks at two prices, and bids that take them.                            *)
TwoAsks ==
  {Placed("maker", "ask", 2, 2, TRUE), Placed("maker", "ask", 3, 1, TRUE),
   Placed("taker", "bid", 2, 1, TRUE), Placed("taker", "bid", 3, 3, FALSE)}

(* Asks and bids at two prices.                                            *)
BothSides ==
  {Placed("maker", "ask", 2, 2, TRUE), Placed("maker", "ask", 3, 1, TRUE),
   Placed("taker", "bid", 2, 1, TRUE), Placed("taker", "bid", 1, 1, TRUE)}

OneAsk == {Placed("maker", "ask", 2, 2, TRUE), Placed("taker", "bid", 2, 1, FALSE)}

(* The tasks share no table, but for those of rolling volume.              *)
OneByOne == {{p} : p \in AllPipelines \ {"rolling_volume"}}

-----------------------------------------------------------------------------
Rolling == INSTANCE FillPipelines WITH
  Selections <- {{"candlesticks", "rolling_volume"}}, Placements <- LargeAsk,
  MaxMinute <- 4, MaxFailures <- 0

Restart == INSTANCE OrderHistory WITH
  Placements <- TwoAsks, MaxOrders <- 2, MaxEvents <- 5, MaxMinute <- 2,
  NewSizes <- {1}, MaxFailures <- 0, MaxCrashes <- 1, run <- minutes

Groups == INSTANCE OrderHistory WITH
  Placements <- BothSides, MaxEvents <- 5, MaxFailures <- 0, MaxCrashes <- 0,
  run <- minutes

Failure == INSTANCE OrderHistory WITH
  Placements <- OneAsk, MaxOrders <- 1, MaxEvents <- 2, MaxCrashes <- 0, run <- minutes

-----------------------------------------------------------------------------
(* What an instance does not use keeps the state it starts in.             *)
NoPipelines == table = << >> /\ last = << >> /\ run = << >>

InstancesInit ==
  /\ Restart!Init
  /\ \/ instance = "runs" /\ Init
     \/ instance = "rolling" /\ Rolling!Init
     \/ instance \in {"restart", "groups", "failure"} /\ NoPipelines

RunRuns    == instance = "runs" /\ Next /\ UNCHANGED <<historyVars, instance>>
RunRolling == instance = "rolling" /\ Rolling!Next /\ UNCHANGED <<historyVars, instance>>

OrderHistoryAlone == UNCHANGED <<table, last, run, instance>>

RunRestart == instance = "restart" /\ Restart!Next /\ OrderHistoryAlone
RunGroups  == instance = "groups" /\ Groups!Next /\ OrderHistoryAlone
RunFailure == instance = "failure" /\ Failure!Next /\ OrderHistoryAlone

InstancesNext == RunRuns \/ RunRolling \/ RunRestart \/ RunGroups \/ RunFailure

InstancesSpec == InstancesInit /\ [][InstancesNext]_<<vars, historyVars, instance>>

-----------------------------------------------------------------------------
(* Until a query of the order history fails, it shows the best prices of   *)
(* the book, minute by minute (OrderHistory).                              *)
SpreadsShowBook == Restart!SpreadsShowBook
=============================================================================
