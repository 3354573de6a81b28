----------------------------- MODULE MCClients ------------------------------
(***************************************************************************)
(* Instances, for TLC, of what stands between the system and its users:    *)
(* the MQTT publisher and the submission of transactions by the SDK.  Each *)
(* behavior is one of one instance:                                        *)
(*                                                                         *)
(*   "levels"   price levels that change while they are read, and a broken *)
(*              connection: the constants of the module                    *)
(*   "fills"    a fill that takes from two orders                          *)
(*   "broken"   a fill, and a broken connection                            *)
(*   "swaps"    swaps, signed or not, and a limit order                    *)
(*   "requests" one task, requests and replies that are lost, and a new    *)
(*              deployment of the node                                     *)
(*   "shared"   two tasks that share a client, one of which submits what   *)
(*              aborts                                                     *)
(***************************************************************************)
EXTENDS MqttPublisher

VARIABLES
  local, chainId, call, results, deployment, sequence, mempool, executed, txFaults,
  instance    \* the one that runs

txVars == <<local, chainId, call, results, deployment, sequence, mempool, executed,
            txFaults>>

(* Market accounts of one user with two custodians, and of another.        *)
MCAccounts == {"a1", "a2", "b", "nobody"}
MCUserOf(m) == IF m = "b" THEN "userB" ELSE IF m = "nobody" THEN "nobody" ELSE "userA"

Placed(a, type, side, price, size, rests) ==
  [account |-> a, type |-> type, side |-> side, price |-> price, size |-> size,
   rests |-> rests]

TakesFromTwo ==
  {Placed("a1", "limit", "ask", 2, 1, TRUE), Placed("b", "limit", "bid", 2, 2, TRUE)}

Swaps ==
  {Placed("a1", "limit", "ask", 2, 1, TRUE), Placed("a2", "swap", "bid", NoPrice, 1, FALSE),
   Placed("nobody", "coins", "bid", NoPrice, 1, FALSE)}

TwoLevels ==
  {Placed("a1", "limit", "ask", 2, 1, TRUE), Placed("a1", "limit", "ask", 3, 1, TRUE)}

-----------------------------------------------------------------------------
Fills == INSTANCE MqttPublisher WITH
  Placements <- TakesFromTwo, NewSizes <- {}, MaxOrders <- 3, MaxEvents <- 7,
  OneCallEach <- TRUE, PriceLevels <- FALSE, MaxFaults <- 0

Broken == INSTANCE MqttPublisher WITH
  Placements <- TakesFromTwo, NewSizes <- {}, MaxOrders <- 2, MaxEvents <- 4,
  OneCallEach <- TRUE, PriceLevels <- FALSE

Unsigned == INSTANCE MqttPublisher WITH
  Placements <- Swaps, NewSizes <- {}, MaxOrders <- 2, MaxEvents <- 4,
  OneCallEach <- FALSE, PriceLevels <- FALSE, MaxFaults <- 0

Requests == INSTANCE TxSubmission WITH
  Tasks <- {"t"}, Aborting <- {}, RetryCount <- 3, SubmitAttempts <- 3,
  MaxCalls <- 3, MaxFaults <- 2, MaxDeployments <- 1, faults <- txFaults

Shared == INSTANCE TxSubmission WITH
  Tasks <- {"t", "u"}, Aborting <- {"t"}, RetryCount <- 3, SubmitAttempts <- 3,
  MaxCalls <- 1, MaxFaults <- 0, MaxDeployments <- 1, faults <- txFaults

-----------------------------------------------------------------------------
(* An instance that does not run keeps the state it starts in.             *)
InstancesInit ==
  /\ instance \in {"levels", "fills", "broken", "swaps", "requests", "shared"}
  /\ Init
  /\ IF instance = "shared" THEN Shared!Init ELSE Requests!Init

RunLevels   == instance = "levels" /\ Next /\ UNCHANGED <<txVars, instance>>
RunFills    == instance = "fills" /\ Fills!Next /\ UNCHANGED <<txVars, instance>>
RunBroken   == instance = "broken" /\ Broken!Next /\ UNCHANGED <<txVars, instance>>
RunSwaps    == instance = "swaps" /\ Unsigned!Next /\ UNCHANGED <<txVars, instance>>
RunRequests == instance = "requests" /\ Requests!Next /\ UNCHANGED <<vars, instance>>
RunShared   == instance = "shared" /\ Shared!Next /\ UNCHANGED <<vars, instance>>

InstancesNext ==
  RunLevels \/ RunFills \/ RunBroken \/ RunSwaps \/ RunRequests \/ RunShared

(* The fairness of MqttPublisher and TxSubmission, of the one that runs.   *)
Publishing == instance \in {"levels", "fills", "broken", "swaps"}

PublisherFairness ==
  /\ WF_vars(Publishing /\ Receive) /\ SF_vars(Publishing /\ Send)
  /\ WF_vars(Publishing /\ Poll)
  /\ WF_vars(instance = "levels" /\ AggregateUserHistory)
  /\ WF_vars(instance = "levels" /\ ReadLevels)
  /\ WF_vars(instance = "levels" /\ ReadVersion)
  /\ WF_vars(instance = "levels" /\ ReadVersionFails)
  /\ SF_vars(instance = "levels" /\ SendLevel)
  /\ WF_vars(instance = "levels" /\ Sleep)

ClientFairness ==
  /\ WF_txVars(instance = "requests" /\ Requests!Step("t"))
  /\ \A t \in {"t", "u"} : WF_txVars(instance = "shared" /\ Shared!Step(t))
  /\ WF_txVars(~Publishing /\ Shared!Execute)
  /\ WF_txVars(~Publishing /\ Shared!Expire)

InstancesSpec ==
  /\ InstancesInit /\ [][InstancesNext]_<<vars, txVars, instance>>
  /\ PublisherFairness /\ ClientFairness

-----------------------------------------------------------------------------
(* ResultTrue of the instance that runs.                                   *)
EachResultTrue ==
  /\ instance = "requests" => Requests!ResultTrue
  /\ instance = "shared" => Shared!ResultTrue

(* The calls of each instance return, and their effects come in order.     *)
EachCallReturns ==
  Shared!CallsReturn /\ Requests!CallsInOrder

(* Events that enter the database once the publisher listens are published *)
(* in the end, and so are the levels of the user history; and every call   *)
(* of the client returns.                                                  *)
ClientsServed == Delivered /\ LevelsShown /\ EachCallReturns
=============================================================================
