----------------------------- MODULE Pipelines ------------------------------
(***************************************************************************)
(* The aggregator's process: which pipelines it runs, how it schedules,    *)
(* retries and gives up on them, and the two pipelines whose work lies     *)
(* outside the events: coins, which asks a node for what it does not know, *)
(* and the refresh of materialized views.  What the other pipelines do in  *)
(* a run is in UserHistory, OrderHistory and FillPipelines.  Its names are *)
(* its own, so that a module can extend it together with another service.  *)
(***************************************************************************)
EXTENDS Integers, Sequences, FiniteSets, SequencesExt

CONSTANTS
  Defaults,           \* pipelines that run unless excluded, in order
  Resolutions,        \* resolutions of candlesticks
  Arguments,          \* records [noDefault, include, exclude] of a deployment
  AllCoins,           \* coins of registered markets
  Broken,             \* coins the node knows nothing of
  Short, Long,        \* ticks between runs, and after a limited answer
  MaxFailures,        \* bound on failed queries and answers, limited ones, crashes
  MaxSource           \* bound on changes of what a view shows

ASSUME PipelinesAssumption ==
  /\ Broken \subseteq AllCoins /\ IsFiniteSet(AllCoins)
  /\ Short \in Nat \ {0} /\ Long \in Nat /\ Short <= Long
  /\ MaxFailures \in Nat /\ MaxSource \in Nat

MaxRetries == 3

Views == {"tvl_per_asset", "tvl_per_market", "market_24h_data"}

VARIABLES
  arguments,          \* of the deployment
  up,                 \* the process runs
  tasks,              \* what each of its tasks runs
  stage,              \* of each task: "historical", or "loop"
  doing,              \* of each task: "sleeping", "running" or "failed"
  wait,               \* of each task: ticks left to sleep
  retries,            \* of each task, since its last success
  rateLimited,        \* of the coins pipeline
  todo,               \* coins that its run has yet to ask for
  coins,              \* the table
  source, view,       \* what a view should show, and what each shows
  failures,
  inARow,             \* of each task: failures since its last success
  cool                \* ticks since a limited answer, counted down from Long

processVars == <<up, tasks, stage, doing, wait, retries, rateLimited, todo>>
databaseVars == <<coins, source, view>>
pipelinesVars == <<arguments, processVars, databaseVars, failures, inARow, cool>>

-----------------------------------------------------------------------------
(* The tasks that the arguments ask for.                                   *)

(* Sorted and without duplicates, whatever the order.                      *)
Dedup(list) == SetToSeq(ToSet(list))

Selected(a) ==
  IF a.noDefault THEN Dedup(a.include)
  ELSE Dedup(SelectSeq(Defaults, LAMBDA p : p \notin ToSet(a.exclude)) \o a.include)

Instances(p) ==
  IF p = "candlesticks" THEN [i \in DOMAIN Resolutions |-> <<p, Resolutions[i]>>]
  ELSE <<<<p, 0>>>>

TasksOf(a) ==
  LET selected == Selected(a)
  IN FlattenSeq([i \in DOMAIN selected |-> Instances(selected[i])])

-----------------------------------------------------------------------------
ProcessInit ==
  /\ arguments \in Arguments
  /\ up = FALSE /\ tasks = << >> /\ stage = << >> /\ doing = << >> /\ wait = << >>
  /\ retries = << >> /\ rateLimited = FALSE /\ todo = << >>
  /\ coins = {} /\ source = 0 /\ view = [v \in Views |-> 0]
  /\ failures = 0 /\ inARow = << >> /\ cool = 0

Stopped ==
  /\ up' = FALSE /\ tasks' = << >> /\ stage' = << >> /\ doing' = << >>
  /\ wait' = << >> /\ retries' = << >> /\ inARow' = << >>
  /\ rateLimited' = FALSE /\ todo' = << >> /\ cool' = 0
  /\ UNCHANGED <<arguments, databaseVars>>

(* main: panics if no pipeline is left; the container starts it again.     *)
Start ==
  /\ ~up /\ TasksOf(arguments) # << >>
  /\ up' = TRUE
  /\ tasks' = TasksOf(arguments)
  /\ stage' = [i \in DOMAIN tasks' |-> "historical"]
  /\ doing' = [i \in DOMAIN tasks' |-> "sleeping"]
  /\ wait' = [i \in DOMAIN tasks' |-> 0]
  /\ retries' = [i \in DOMAIN tasks' |-> 0]
  /\ inARow' = [i \in DOMAIN tasks' |-> 0]
  /\ UNCHANGED <<arguments, rateLimited, todo, databaseVars, failures, cool>>

Name(i) == tasks[i][1]

-----------------------------------------------------------------------------
(* A task: a run without delay when it starts, then one after each sleep.  *)

(* MUTANT: the query returns all coins of markets.                         *)
MissingAll == AllCoins

Missing == AllCoins \ coins

(* The query that finds missing coins returns them in any order.           *)
Begin(i) ==
  /\ doing[i] = "sleeping" /\ wait[i] = 0
  /\ doing' = [doing EXCEPT ![i] = "running"]
  /\ IF Name(i) = "coins"
     THEN rateLimited' = FALSE /\ todo' \in SetToSeqs(Missing)
     ELSE UNCHANGED <<rateLimited, todo>>
  /\ UNCHANGED <<arguments, up, tasks, stage, wait, retries, databaseVars, failures,
                 inARow, cool>>

PollInterval(i) == IF Name(i) = "coins" /\ rateLimited THEN Long ELSE Short

Succeed(i) ==
  /\ doing' = [doing EXCEPT ![i] = "sleeping"]
  /\ stage' = [stage EXCEPT ![i] = "loop"]
  /\ wait' = [wait EXCEPT ![i] = PollInterval(i)]
  /\ retries' = [retries EXCEPT ![i] = 0]
  /\ inARow' = [inARow EXCEPT ![i] = 0]

(* MUTANT: one retry more.                                                 *)
GivesUpLate(i) == stage[i] = "historical" \/ retries[i] > MaxRetries

(* The first run is not retried.                                           *)
GivesUp(i) == stage[i] = "historical" \/ retries[i] + 1 > MaxRetries

Failed(i) ==
  /\ doing' = [doing EXCEPT ![i] = IF GivesUp(i) THEN "failed" ELSE "sleeping"]
  /\ wait' = [wait EXCEPT ![i] = IF GivesUp(i) THEN 0 ELSE PollInterval(i)]
  /\ retries' = [retries EXCEPT ![i] = IF GivesUp(i) THEN @ ELSE @ + 1]
  /\ inARow' = [inARow EXCEPT ![i] = @ + 1]
  /\ UNCHANGED stage

(* A run of a pipeline other than coins is one transaction, or statement.  *)
Finish(i) ==
  /\ doing[i] = "running" /\ Name(i) # "coins"
  /\ Succeed(i)
  /\ view' = IF Name(i) \in Views THEN [view EXCEPT ![Name(i)] = source] ELSE view
  /\ UNCHANGED <<arguments, up, tasks, rateLimited, todo, coins, source, failures, cool>>

(* A query of a run fails; of a run of coins, that of one statement.       *)
Fail(i) ==
  /\ doing[i] = "running" /\ failures < MaxFailures
  /\ Failed(i)
  /\ failures' = failures + 1
  /\ todo' = IF Name(i) = "coins" THEN << >> ELSE todo
  /\ UNCHANGED <<arguments, up, tasks, rateLimited, databaseVars, cool>>

-----------------------------------------------------------------------------
(* A run of coins: each missing coin is asked for in turn.                 *)

AskingFor(i) ==
  doing[i] = "running" /\ Name(i) = "coins" /\ todo # << >>

(* The answer is stored by a statement of its own, and not rolled back.    *)
AnswerOk(i) ==
  /\ AskingFor(i) /\ Head(todo) \notin Broken
  /\ coins' = coins \cup {Head(todo)}
  /\ todo' = Tail(todo)
  /\ UNCHANGED <<arguments, up, tasks, stage, doing, wait, retries, rateLimited,
                 source, view, failures, inARow, cool>>

(* A limited run goes on with the other coins.                             *)
AnswerRateLimited(i) ==
  /\ AskingFor(i) /\ failures < MaxFailures
  /\ rateLimited' = TRUE /\ cool' = Long
  /\ todo' = Tail(todo)
  /\ failures' = failures + 1
  /\ UNCHANGED <<arguments, up, tasks, stage, doing, wait, retries, databaseVars, inARow>>

(* Any other error is logged: for a coin that the node does not know, or a *)
(* query that fails once.                                                  *)
AnswerOther(i) ==
  /\ AskingFor(i)
  /\ \/ Head(todo) \in Broken /\ UNCHANGED failures
     \/ failures < MaxFailures /\ failures' = failures + 1
  /\ todo' = Tail(todo)
  /\ UNCHANGED <<arguments, up, tasks, stage, doing, wait, retries, rateLimited,
                 databaseVars, inARow, cool>>

FinishCoins(i) ==
  /\ doing[i] = "running" /\ Name(i) = "coins" /\ todo = << >>
  /\ Succeed(i)
  /\ UNCHANGED <<arguments, up, tasks, rateLimited, todo, databaseVars, failures, cool>>

-----------------------------------------------------------------------------
(* The process, time and the rest of the world.                            *)

(* MUTANT: a task that ends with an error is only joined.                  *)
JoinIgnores ==
  /\ up /\ \A i \in DOMAIN tasks : doing[i] = "failed"
  /\ Stopped /\ UNCHANGED failures

(* The first task that ends with an error ends main.                       *)
Join ==
  /\ up /\ \E i \in DOMAIN tasks : doing[i] = "failed"
  /\ Stopped /\ UNCHANGED failures

Crash ==
  /\ up /\ failures < MaxFailures
  /\ failures' = failures + 1
  /\ Stopped

Less(n) == IF n = 0 THEN 0 ELSE n - 1

TimePasses ==
  /\ \E i \in DOMAIN wait : wait[i] > 0
  /\ wait' = [i \in DOMAIN wait |-> Less(wait[i])]
  /\ cool' = Less(cool)
  /\ UNCHANGED <<arguments, up, tasks, stage, doing, retries, rateLimited, todo,
                 databaseVars, failures, inARow>>

SourceChanges ==
  /\ source < MaxSource
  /\ source' = source + 1
  /\ UNCHANGED <<arguments, processVars, coins, view, failures, inARow, cool>>

Run(i) ==
  \/ Begin(i) \/ Finish(i) \/ FinishCoins(i)
  \/ AnswerOk(i) \/ AnswerOther(i)

ProcessNext ==
  \/ Start \/ Join \/ Crash \/ TimePasses \/ SourceChanges
  \/ \E i \in DOMAIN tasks : Run(i) \/ Fail(i) \/ AnswerRateLimited(i)

(* The container is restarted unless stopped; queries return, and the node *)
(* answers or refuses.                                                     *)
ProcessSpec ==
  /\ ProcessInit /\ [][ProcessNext]_pipelinesVars
  /\ WF_pipelinesVars(Start) /\ WF_pipelinesVars(Join) /\ WF_pipelinesVars(TimePasses)
  /\ \A i \in 1..8 : WF_pipelinesVars(i \in DOMAIN tasks /\ Run(i))

-----------------------------------------------------------------------------
(* Properties.                                                             *)

(* A task gives up after its fourth failure in a row, or if its first run  *)
(* fails; neither earlier nor later.                                       *)
GivesUpAfterRetries ==
  \A i \in DOMAIN tasks :
    doing[i] = "failed" <=>
      inARow[i] = (IF stage[i] = "historical" THEN 1 ELSE MaxRetries + 1)

(* A coin is asked for only while it is missing: an insert never meets a   *)
(* row of its key, in spite of crashes between two inserts of a run.       *)
AsksForMissing == ToSet(todo) \cap coins = {} /\ IsInjective(todo)

(* After a limited answer the process leaves the node alone for a while.   *)
BacksOff ==
  [][\A i \in DOMAIN tasks :
       Begin(i) /\ Name(i) = "coins" => cool = 0]_pipelinesVars

(* Every task gets past its first run again and again: one that gives up   *)
(* takes the process down, which is then restarted.                        *)
KeepsRunning ==
  [](up => <>(up /\ \A i \in DOMAIN tasks : stage[i] = "loop"))
  /\ []<>(up /\ \A i \in DOMAIN tasks : doing[i] # "failed")

(* A coin of which the node knows is stored in the end, whatever happens   *)
(* to the others of its run.                                               *)
CoinsStored ==
  \A c \in AllCoins \ Broken :
    (\E i \in DOMAIN tasks : Name(i) = "coins") ~> c \in coins

(* A view shows each change of its source in the end.                      *)
ViewsRefreshed ==
  \A v \in Views, n \in 1..MaxSource :
    ((\E i \in DOMAIN tasks : Name(i) = v) /\ source = n) ~> view[v] >= n

(* Whatever fails, the process keeps serving: its tasks run, its tables    *)
(* are filled, and it does not press a node that limits it.                *)
KeepsServing == KeepsRunning /\ CoinsStored /\ ViewsRefreshed /\ BacksOff
=============================================================================
