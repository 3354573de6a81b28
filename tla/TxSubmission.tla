---------------------------- MODULE TxSubmission ----------------------------
(***************************************************************************)
(* The client of the Rust SDK as it submits transactions of one account:   *)
(* a sequence number of its own, which it corrects when the node rejects   *)
(* it, and attempts that follow each other until one is seen to execute.   *)
(* The node admits, holds, executes and drops transactions.  Tasks may run *)
(* on threads of their own: the number is atomic, its correction is not.   *)
(***************************************************************************)
EXTENDS Naturals, Sequences

CONSTANTS
  Tasks,              \* that share a client
  Aborting,           \* tasks of which the entry function aborts
  RetryCount,         \* config.retry_count
  SubmitAttempts,     \* SUBMIT_ATTEMPTS
  MaxCalls,           \* of a task
  MaxFaults,          \* bound on lost requests and replies, and on dropped transactions
  MaxDeployments      \* bound on new deployments of the node

VARIABLES
  local, chainId,     \* of the client
  call,               \* submit_tx of each task, under way
  results,            \* of the calls of each task
  deployment, sequence, mempool, executed,    \* of the node
  faults

clientVars == <<local, chainId, call, results>>
nodeVars == <<deployment, sequence, mempool, executed>>
vars == <<clientVars, nodeVars, faults>>

NoTx == [task |-> "none"]
Idle == [step |-> "idle", attempt |-> 0, tx |-> NoTx, seen |-> 0, began |-> 0]

MaxOf(a, b) == IF a >= b THEN a ELSE b

(* connect: the number and the chain are those of the node.                *)
Init ==
  /\ deployment = 0 /\ sequence = 0 /\ mempool = {} /\ executed = {}
  /\ local = sequence /\ chainId = deployment
  /\ call = [t \in Tasks |-> Idle]
  /\ results = [t \in Tasks |-> << >>]
  /\ faults = 0

-----------------------------------------------------------------------------
(* submit_tx.                                                              *)

(* `began' is the deployment of the node as the call begins.               *)
SubmitTx(t) ==
  /\ call[t].step = "idle" /\ Len(results[t]) < MaxCalls
  /\ call' = [call EXCEPT ![t] = [Idle EXCEPT !.step = "ready", !.began = deployment]]
  /\ UNCHANGED <<local, chainId, results, nodeVars, faults>>

Return(t, result) ==
  /\ results' = [results EXCEPT ![t] =
                  Append(@, [result |-> result, began |-> call[t].began,
                             ended |-> deployment])]
  /\ call' = [call EXCEPT ![t] = Idle]

(* An error, of the last attempt or of another one.                        *)
AttemptFails(t) ==
  IF call[t].attempt = SubmitAttempts - 1 THEN Return(t, "error")
  ELSE IF call[t].attempt + 1 = RetryCount THEN Return(t, "failed")
  ELSE /\ call' = [call EXCEPT ![t].attempt = @ + 1, ![t].step = "ready"]
       /\ UNCHANGED results

-----------------------------------------------------------------------------
(* submit_tx_internal.                                                     *)

(* Signed with the client's number, which stays: a call that follows a     *)
(* success has its first attempt rejected. An attempt has an expiration of *)
(* its own, and is a transaction of its own.                               *)
Sign(t) ==
  /\ call[t].step = "ready"
  /\ call' = [call EXCEPT
        ![t].step = "submit",
        ![t].tx = [task |-> t, call |-> Len(results[t]) + 1, attempt |-> call[t].attempt,
                   number |-> local, chain |-> chainId]]
  /\ UNCHANGED <<local, chainId, results, nodeVars, faults>>

(* Else VmError, as the chain is another one, SequenceNumberTooOld, or     *)
(* InvalidTransactionUpdate.                                               *)
Admissible(tx) ==
  /\ tx.chain = deployment
  /\ tx.number >= sequence
  /\ \A other \in mempool : other.number # tx.number

Submitted(t) ==
  /\ call[t].step = "submit" /\ Admissible(call[t].tx)
  /\ mempool' = mempool \cup {call[t].tx}
  /\ call' = [call EXCEPT ![t].step = "wait"]
  /\ UNCHANGED <<local, chainId, results, deployment, sequence, executed, faults>>

Rejected(t) ==
  /\ call[t].step = "submit" /\ ~Admissible(call[t].tx)
  /\ call' = [call EXCEPT ![t].step = "rejected"]
  /\ UNCHANGED <<local, chainId, results, nodeVars, faults>>

GetSequenceNumber(t) ==
  /\ call[t].step = "rejected"
  /\ call' = [call EXCEPT ![t].step = "correct", ![t].seen = sequence]
  /\ UNCHANGED <<local, chainId, results, nodeVars, faults>>

Corrected(seen) == MaxOf(seen, local + 1)

ReadLocal(t) ==
  /\ call[t].step = "correct"
  /\ call' = [call EXCEPT ![t].step = "set", ![t].seen = Corrected(@)]
  /\ UNCHANGED <<local, chainId, results, nodeVars, faults>>

SetSequenceNumber(t) ==
  /\ call[t].step = "set"
  /\ local' = call[t].seen
  /\ AttemptFails(t)
  /\ UNCHANGED <<chainId, nodeVars, faults>>

(* MUTANT: a transaction that the node no longer holds is done.            *)
SucceededWhenGone(tx) == TRUE

(* A new deployment knows nothing of what was executed before it.          *)
Succeeded(tx) == tx \in executed /\ tx.chain = deployment /\ tx.task \notin Aborting

(* wait_for_transaction ends with the transaction, or once it has expired. *)
Wait(t) ==
  /\ call[t].step = "wait" /\ call[t].tx \notin mempool
  /\ IF Succeeded(call[t].tx) THEN Return(t, "ok") ELSE AttemptFails(t)
  /\ UNCHANGED <<local, chainId, nodeVars, faults>>

Step(t) ==
  \/ SubmitTx(t) \/ Sign(t)
  \/ Submitted(t) \/ Rejected(t)
  \/ GetSequenceNumber(t) \/ ReadLocal(t) \/ SetSequenceNumber(t)
  \/ Wait(t)

UpdateChainId ==
  /\ \A t \in Tasks : call[t].step = "idle"
  /\ chainId' = deployment
  /\ UNCHANGED <<local, call, results, nodeVars, faults>>

-----------------------------------------------------------------------------
(* The node.                                                               *)

Execute ==
  \E tx \in mempool :
    /\ tx.number = sequence
    /\ sequence' = sequence + 1
    /\ executed' = executed \cup {tx} /\ mempool' = mempool \ {tx}
    /\ UNCHANGED <<clientVars, deployment, faults>>

(* A transaction that waits for a lower number expires.                    *)
Expire ==
  \E tx \in mempool :
    /\ tx.number > sequence
    /\ mempool' = mempool \ {tx}
    /\ UNCHANGED <<clientVars, deployment, sequence, executed, faults>>

(* A new chain, with an account that is new, or not.                       *)
NewDeployment ==
  /\ deployment < MaxDeployments
  /\ deployment' = deployment + 1
  /\ sequence' \in {0, sequence} /\ mempool' = {}
  /\ UNCHANGED <<clientVars, executed, faults>>

-----------------------------------------------------------------------------
(* Faults: a request that is lost, or refused for a reason other than its  *)
(* number or chain; a reply that is lost, or not understood (an event that *)
(* does not parse); a node that drops what it could execute.               *)

Fault == faults < MaxFaults /\ faults' = faults + 1

LoseRequest(t) ==
  /\ Fault /\ call[t].step \in {"submit", "rejected"}
  /\ AttemptFails(t)
  /\ UNCHANGED <<local, chainId, nodeVars>>

(* Any VmError is taken for a wrong number.                                *)
Refuse(t) ==
  /\ Fault /\ call[t].step = "submit"
  /\ call' = [call EXCEPT ![t].step = "rejected"]
  /\ UNCHANGED <<local, chainId, results, nodeVars>>

LoseReply(t) ==
  /\ Fault
  /\ \/ /\ call[t].step = "submit" /\ Admissible(call[t].tx)
        /\ mempool' = mempool \cup {call[t].tx}
     \/ call[t].step = "wait" /\ UNCHANGED mempool
  /\ AttemptFails(t)
  /\ UNCHANGED <<local, chainId, deployment, sequence, executed>>

Drop ==
  /\ Fault
  /\ \E tx \in mempool : mempool' = mempool \ {tx}
  /\ UNCHANGED <<clientVars, deployment, sequence, executed>>

Next ==
  \/ \E t \in Tasks : Step(t) \/ LoseRequest(t) \/ Refuse(t) \/ LoseReply(t)
  \/ UpdateChainId
  \/ Execute \/ Expire \/ Drop \/ NewDeployment

(* A task goes on unless it waits; a node executes what it can and drops   *)
(* what has expired.                                                       *)
Spec ==
  /\ Init /\ [][Next]_vars
  /\ \A t \in Tasks : WF_vars(Step(t))
  /\ WF_vars(Execute) /\ WF_vars(Expire)

-----------------------------------------------------------------------------
(* Properties.                                                             *)

Executions(t, n) == {tx \in executed : tx.task = t /\ tx.call = n /\ t \notin Aborting}

(* "Create and submit a transaction to the blockchain" (lib.rs:380).  A    *)
(* result that is Ok is that of an execution.  Without faults, one that is *)
(* not means that there is none, unless the node was deployed anew during  *)
(* the call, and the entry function takes effect at most once, however     *)
(* many attempts there are and tasks share the client; and a task that is  *)
(* alone, and does not abort, succeeds, as long as the chain is the same.  *)
ResultTrue ==
  \A t \in DOMAIN call : \A n \in DOMAIN results[t] :
    LET r == results[t][n]
        ok == r.result = "ok"
    IN /\ ok => Executions(t, n) # {}
       /\ faults = 0 /\ ~ok /\ r.began = r.ended => Executions(t, n) = {}
       /\ faults = 0 => \A tx, other \in Executions(t, n) : tx = other
       /\ faults = 0 /\ deployment = 0 /\ DOMAIN call = {t} /\ t \notin Aborting => ok

(* Of the transactions of a task that is alone, no later call is executed  *)
(* before an earlier one, whatever is lost; nor of one that shares the     *)
(* client, as long as nothing is lost (its number may fall when two tasks  *)
(* correct it at once).                                                    *)
CallsInOrder ==
  [][\A tx, earlier \in executed' :
       /\ tx \notin executed /\ earlier.task = tx.task
       /\ faults' = 0 \/ Tasks = {tx.task}
       => earlier.call <= tx.call]_vars

Returned(t) == t \in DOMAIN call => call[t].step = "idle"

(* Every call returns, whatever is lost.                                   *)
CallsReturn ==
  \A t \in Tasks : ~Returned(t) ~> Returned(t)
=============================================================================
