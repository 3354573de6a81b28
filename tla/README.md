# Verification of Econia

Econia is an order book for the Aptos blockchain: Move modules that keep the
order books and the collateral of traders on chain, and Rust services that
rebuild markets, user histories and statistics from the events those modules
emit. This directory holds TLA+ models of both, TLC configurations that check
them, and proofs that TLAPS checks.

## The system

### On chain (`src/move/econia/sources`)

| Component | State | Operations | What makes it correct |
|---|---|---|---|
| `avl_queue` | a tree of price levels, each a list of orders; head and tail; stacks of inactive tree and list nodes | `insert`, `remove`, `pop_head`, `pop_tail`, `insert_check_eviction`, `insert_evict_tail`, traversal by pages | entries sorted by price, then time; balanced heights; nodes neither lost nor shared; access keys stay valid under rotations |
| `user` | accounts per user, market and custodian: total, available and ceiling of base and quote; tables of orders indexed by access key; stacks of inactive keys; maps of collateral by type of coin; event handles | register, deposit, withdraw, place, cancel, fill, change size | counters equal collateral less, or plus, what open orders would give, or receive; an access key names one order; collateral backs the totals |
| `market` | per market: queues of asks and bids, an order counter | limit, market and passive advance orders, swaps, cancels, size changes, matching | book and accounts agree; no asset is created or lost; never crossed; price-time priority; takers stay within their limits |
| `incentives` | fee stores, tiers, fee parameters | assess fees, upgrade tiers, withdraw, set parameters | shares never exceed fees; stored tiers stay valid; coins are conserved |
| `registry` | markets, custodian and underwriter counts, recognized markets | register, recognize, forget | IDs unique; each market found under its description; one recognized market per pair |
| `tablist` | a table whose keys are doubly linked | add, remove, iterate | iteration meets every key once, in order of insertion |

`market` calls `user` for every change of an account and `avl_queue` for every
change of a book; each holds the access key of the other's copy of an order.
`incentives` takes the taker's fee out of the coins of a match, and the fees of
registrations. A Move transaction runs alone and takes effect as a whole: what
makes the code hard is not interleaving but that one transaction changes several
copies of the same facts, reads amounts before it changes them, cancels and evicts
orders of others as it goes, and may fail an assertion when most of its work is
done; and that identifiers (list nodes, access keys) are used again.

### Off chain (`src/rust`)

| Component | State | What makes it correct |
|---|---|---|
| `aggregator`, the process (`main.rs`) | a task for each pipeline, its retries | retried three times in a row; one that gives up takes the others down, to be restarted |
| `aggregator`, `user_history` | a row per order, the last version, a batch size | at any time the table shows one version of the chain; time priority can be read off it |
| `aggregator`, order history pipelines | orders in memory; rows per minute | the row of a minute is that of the book at that minute |
| `aggregator`, pipelines over fills | a table and a last version each | every fill counts once |
| `aggregator`, `coins` and the views | coins known; materialized views | what is missing is asked for, once, and stored in the end |
| `aggv2` | two caches between three threads, saved state | rows are those of the events of each second, across restarts |
| `mqtt-publisher` | the set of fills seen once, the client's queue | fills published once per channel, in order; levels true of the version they name |
| `sdk` (`submit_tx`) | a sequence number shared by tasks | a call returns what became of its transaction |

The processor, external to the repository, inserts events by whole transactions.
These services interleave with it and with each other, and crash, lose
connections, fall behind and retry.

## The modules

| Module | Models |
|---|---|
| `MarketAccount` | the arithmetic and the key stacks of one market account (`user.move`), as operators on a record |
| `PriceTimeQueue` | an AVL queue as its callers see it: a sorted list, node IDs and their stack |
| `Market` | one market: `book`, `acct`, `counter`, `fees`, and the transactions on them (`market.move`, and the fee of `incentives.move`) |
| `MarketSafety` | the properties of a market |
| `AVLqueue` | the tree with its rotations, the lists, both stacks and the cached ends (`avl_queue.move`), as operators on a record |
| `PriceTimeQueueSpec` | what the queue promises: operations on a `PriceTimeQueue` |
| `AVLqueueSpec` | the same operations on an `AVLqueue`, with the refinement mapping |
| `Tablist`, `TablistSpec` | the linked table, and a table with its keys in order of addition, which it implements |
| `Incentives` | fee parameters, stores, tiers, utility coins |
| `Registry` | the registry; extends `Incentives`, whose fees its registrations pay |
| `UserAccounts` | the accounts of users over several markets and custodians, collateral maps, event handles; uses `MarketAccount` |
| `MarketEvents` | a market as the services see it: the events of each transaction, their insertion by the processor, and a ledger of what is true after each |
| `BatchSize`, `EventMerge` | the adaptive batch size, and the merge of event tables into the order of the chain, that two pipelines share |
| `UserHistory`, `OrderRecords` | the user history, and the promise it implements |
| `OrderHistory` | spreads and liquidity by minute |
| `FillPipelines` | candlesticks, enumerated volume, fees, prices, rolling volume, user balances, leaderboards |
| `Pipelines` | the aggregator's process, the coins pipeline, the refreshed views |
| `Feed` | the order book feed (`aggv2`) |
| `MqttPublisher` | the MQTT publisher |
| `TxSubmission` | the submission of transactions by the Rust SDK, and the node it talks to |
| `MC...` | constants and instances for TLC |
| `MarketAccountProofs`, `MarketProofs` | the invariant of a market: what its operators on accounts and queues preserve, and its actions; what it promises takers and makers; the order of orders, and their IDs |
| `AVLtreeProofs` | the tree of the AVL queue: searches, rotations, retracing, insertion and removal of a tree node |
| `AVLqueueProofs` | the AVL queue: lists, stacks, ends, pages, access keys; its refinement of the price-time queue |
| `UserAccountsProofs` | what is kept for users beside their accounts: collateral, lists, handles |
| `RegistryProofs` | the invariants of fees and registry; the refinement of the tablist, which holds their tables |
| `ServicesProofs` | the invariants of the event log of a market and of the MQTT publisher, of the aggregator's tasks, and of the calls of the SDK |
| `CollectionProofs` | sums over finite sets, on which the proofs about amounts rest, and sequences that list a set in an order, on which those about queues rest |

### How the on-chain models correspond to the code

`book[side]` is the AVL queue of a side, whose entries carry the price as key,
the list node ID and the `Order` value. `acct[a]` is the `MarketAccount` of a
user and custodian: `Traders` are such pairs. `counter` is the order counter of
the book. `fees` adds up the fee stores of Econia and of integrators. `net` is
not in the code: it records what was brought in from outside and taken out, so
that conservation can be stated.

A transaction that runs the match loop or cancels several orders takes several
steps. `tx` holds its local variables: the remaining `lots_until_max` and
`ticks_until_max`, the coins in flight, the fees, the self match flag. `saved`
is the state at its beginning. Each round of the loop of `match` is one step:
`MatchExit` (the book is empty, the limit price is violated, or nothing more
fits), `MatchSelf` or `MatchFill`; `Settle` is everything after the loop: fees,
the assertions on traded amounts, the deposits and, for a limit order, posting.
When an assertion fails that depends on what the caller asked for (a self match
under `ABORT`, a minimum not traded, a deposit that overflows, a price that is
not good enough for a full side, not enough collateral to rest), `Rollback`
restores `saved`. A call rejected at once changes nothing, and is no step; so it
is in all the on-chain modules.

Assertions that would betray an inconsistency between book and account (start
size, access key, order ID, head price, insertion key after a size change) are
not guards: they are consequences of the invariant `BookMatchesAccounts`.

What is abstracted. A market order ID is the record of its counter, list node
and price; the tree node ID that its low bits also hold is in `AVLqueue`, which
`PriceTimeQueue` hides. `u64` counters are integers, and
invariants say that they stay between 0 and `HI_64`, which is small so that range
checks bite. In `AVLqueue`, packed fields are records and tables sequences, and
mirror images (left and right, head and tail, ascending and descending) are one
operator with a parameter. A loop that follows links (the search, both phases of
`traverse`, the walk of a page) is the `Path` along a function from each node to the
next or `NIL`, a recursive function of the node; `Retrace` is as many rounds of its
loop as there are nodes, which are enough because each round climbs one level. Names in the registry are model values of the right
length; a market's sizes are one value. The branch of `match` for an
order of size zero is left out, because `NoEmptyOrders` shows that it is never
taken. A passive advance by more than 100 percent aborts only where the
code computes with it: there is a price to cross and room to advance. The market's
queues do not evict on account of the tree's height: an AVL
tree of 16383 nodes is at most 18 high, and 18 is the critical height that the
order book passes; `AVLqueueSpec` has that branch.

### How the off-chain models correspond to the code

`MarketEvents` has a matching of its own, without lots, fees or self match
behaviors: `ledger` is what the consumers ought to show, computed from the orders
and not from the events. A transaction may hold several calls. `Index` is the
processor, which inserts whole transactions in order (one concurrent task, by
`docker/processor/start.sh`); accounts in `Legacy` have no event handles until
`InitHandles`.

A run of a pipeline is one database transaction at repeatable read: its first
query fixes the snapshot, its writes become visible at the commit, and an error
or crash between any two statements loses them. Each module has an action for
the beginning, one for each batch or statement after which something can
intervene, one for the commit and one for failure. What lives in memory
(`batchSize`; the orders of `OrderHistory`; the caches of `Feed`; `emitted` of the
publisher) survives a failed run and not a restart, as in the code.

In `Feed` the cache manager, the aggregator and the inserter are three processes
with an action for each critical section. Its events keep the time alone as key,
as the code's map does. In `MqttPublisher` the event loop (`Poll`), the
notification loop and the price level loop share the client's bounded queue.
Until the user history has committed once, `fetch_one` finds no version, the
error ends the price level loop, and `try_join!` the process: `ReadVersionFails`, after
which the container starts it again and it listens anew. `since` is the version of the
database at that moment.

`TxSubmission` has an action for each await of `submit_tx` and `submit_tx_internal`,
and one each for reading and for setting the client's number as it is corrected
(`ReadLocal`, `SetSequenceNumber`), between which another task may set it. The node,
external, admits, holds, executes or expires transactions by their sequence numbers,
as the client's use of its errors supposes; it may refuse one for another reason with an
error that makes the client correct its number (`Refuse`, a fault), and a transaction that
was executed is not found on the chain of a new deployment, so that waiting for it fails.

In `Pipelines` the node may answer any request for a coin with an error other than that it
limits the rate (`AnswerOther`); of a broken coin it always does. `BatchSize` has whole
sizes: the code divides decimals and keeps the fraction, which only moves the batch
limits, and no property depends on it.

## The runs

A module `MC...` whose configuration names one instance holds further ones as
instances of the same module with other constants, and `instance`, which never
changes, says which of them runs: one run explores the union of small models, each
aimed at one case.

| Run | Question | Bounds and instances |
|---|---|---|
| `matching` | Takers of all kinds: book and accounts agree, assets are conserved, coins in flight suffice, takers stay within limits, matching is exhaustive, no empty orders | 2 accounts, 3 orders, lots of 2, ticks of 3, fee divisor 4, two prices |
| `maintenance` | Counters, keys, nodes, sorting, priority, stale order IDs, and that every transaction ends | 2 list nodes a side, 3 orders, three prices, size changes and cancels under any ID ever issued, passive advances |
| `net_quote` | A documented bound that does not hold | as `matching`, fee divisor 3 |
| `queue` | `AVLqueue` implements `PriceTimeQueueSpec` | 3 nodes, 3 keys up to `HiInsertionKey`, every sequence of operations; a critical height of 0, so that the tall branch is taken |
| `containers` | After each operation the tree is balanced, tree nodes and stack partition the nodes, ends are exact, pages are complete, and every access key still finds its entry; the tablist implements a table | every AVL tree of 7, 9 and 12 nodes, as inserting its keys by depth builds it, then two operations: all rotations and all cases of a node with two children; tablists of four keys |
| `registry` | Fee shares, upgrade paths, conservation of coins; market lookup and recognition; collateral and handles | `tiers`, `fees`, `markets`, `recognized`, `names`, `collateral` |
| `history` | User history: refinement of `OrderRecords`, priority, catching up | `faults` (several calls each, batches, a failure), `priority` (three orders at one price that grow and shrink), `handles` (an account older than handles) |
| `market_data` | Tables of the pipelines over fills; spreads by minute | `runs` (each pipeline, a failure, two minutes), `rolling` (candlesticks and rolling volume side by side, five minutes); of the order history `restart` (two prices, three minutes, a crash), `groups` (two sides), `failure` |
| `liquidity` | A documented value that is not the one recorded | two asks and two bids, a fill, two groups |
| `feed` | The feed's state and rows | `orders` (crash), `fills`, `periods`, `schema` |
| `pipelines` | Retries, restarts, coins and views | 5 faults, 3 coins of which one is broken, three deployments |
| `clients` | MQTT and SDK | `levels`, `fills`, `broken`, `swaps`; `requests` (one task, lost requests and replies, transactions refused, a new deployment), `shared` (two tasks, a new deployment) |

Why the bounds are enough. On the market, it takes two orders of one account on
a side to fill, cancel and recycle keys in either order, a third to use a recycled
key or node, and a taker; two accounts are a maker and a taker, a maker that is
the taker, and a third order between two of the same account. They are alike, so
`matching` uses them as a symmetry set; `maintenance`, which checks liveness, does
not. Two prices give a spread that is crossed, touched or open; sizes 1 to 3 give
partial and complete fills from either side. `Endowment`, what each account first
deposits, is small enough that quote runs out in the middle of a match. A
rebalancing looks at most two levels below a node and at one above: trees of 12
nodes, five levels high with every sparse shape, have each case at the root, below
it, and in a chain of retraces. For consumers of events, two events suffice to be
in one batch or in two, in one transaction or in two; a third lets a failure fall
between them. One failure, restart or lost connection is enough to lose what is
lost; the count bounds them. As counters and clocks are bounded, models stop where
the system does not, so deadlock is checked only where nothing is bounded in that
way: `queue` and `pipelines`.

Fairness, and why the code justifies it:

- `Market`: weak fairness of the steps of a transaction under way. The virtual
  machine executes a transaction to its end. Nothing is assumed of users.
- `UserHistory`, `Pipelines`: weak fairness of each task's own steps; `main.rs` polls
  each task in a loop with sleeps. Failures are bounded, not fair.
- `MqttPublisher`: weak fairness of each loop's steps and of the event loop; strong
  fairness of the two senders, because the queue they share hands free places to
  those that wait in order.
- `TxSubmission`: weak fairness of each task, of the node's execution of what can
  execute, and of expiry.

`OrderHistory`, `FillPipelines` and `Feed` state the fairness of their tasks and
threads in `Spec` as well; their runs check safety only. Liveness is checked by
`maintenance`, `history`, `pipelines` and `clients`.

Each property of a passing run has a mutant, a definition marked `MUTANT` that
stands for a plausible bug, under which the run finds the property violated.

### What the runs show, and what they do not say

`PriceTimePriority` looks at every step between committed states: no order passes
another of its price level unless the other grew or left, and only a strictly
better order evicts. `StaleIdsHitNothing`: a cancel or size change under any ID ever issued,
whose node may since be used by another order, touches the order of that ID or
none. `TransactionsEnd` rests on each round of the match loop using up an order,
the taker, or ending the loop.

`IsPriceTimeQueue` closes the gap between the tree and the sorted list that the
model and the proofs of a market use: the list nodes in particular, which are part
of order IDs, are those that the tree's implementation hands out. `ShowsOneVersion` maps the table of the user history to the ledger, as
long as every order has been announced by an event; `StampsGivePriority` reads time
priority off `last_increase_stamp`. `TablesExact` says that tables do not depend on
how fills fall into runs, except prices, which stay between those of their fills.

Divergences between code and documentation that the models bear out:

- `net_quote`, a run: the maximum quote to match for a taker that sells is chosen
  so that, less one fee on the whole, the taker receives at most `max_quote`; but the
  fee is rounded down for each fill. A taker that sells against several small bids
  receives more. `AssetsConserved` holds; the excess is at most one unit a fill.
- A fill between two custodians of one user is emitted twice with the same address,
  and passes `user_history.rs:156`, which means to deduplicate by handle, twice.
- A size change of an order without a row, placed before its account had handles,
  fails every run of the user history (`user_history.rs:271`). `CatchesUp` excepts
  this state, `Stuck`.
- After a failed query the orders in memory of the order history pipelines are ahead
  of the tables; line 262 sets their version back, not the orders. `SpreadsShowBook`
  holds until a query fails.
- `liquidity`, a run: `add_to_map` values the first ask of a key at the price of the last
  fill and later ones at their own (`order_history_pipelines.rs:364`), the first bid at its
  own price and later ones at that of the last fill (line 371). The documentation of
  `LiquidityValue` (lines 73 to 77) has the last price for all asks, and the quote that is
  locked, at each bid's own price, for all bids (`LiquidityAsDocumented`). As orders are met
  in the order of a hash map, which ones differ is chance.
- The row of the first timestamp is inserted only when the process starts
  (`order_history_pipelines.rs:441`): started before the first limit order, the
  pipeline records nothing until it is restarted.
- Without `--no-default` the inclusion list is appended, not ignored (`main.rs:219`).
- In `aggv2` the cache keeps one event of each time (`feed.rs:361`); a restart applies
  all events again (`feed.rs:64`); the spread's minimum of `None` and an ask is `None`
  (`spread.rs:31`); and inserting a row of only a time violates a constraint of
  `aggv2.state_cache` (`state.rs:238`), which the constant `SchemaAccepts` switches.
- Notifications that arrive while the publisher reconnects or starts again are never
  published, and with price levels on it starts again and again until the user history has
  a version (`mqtt-publisher/src/main.rs:155`). `ClientsServed` asks for delivery of all that
  enters the database after the publisher last began to listen, also after faults. A price
  level that vanishes has no message.
- `EachPeriodsAddUp` is about a feed that has not been restarted: after a restart the
  first period is the volume of all history. `EachSavedAsOf` is about the events
  that the cache kept. `RollingVolumeNotOverstated` bounds the rows from above: a fill whose
  candlestick is written after a row is missing from it for good.
- Any error starts another attempt of `submit_tx`, a lost reply too: the first may
  have executed (`EachResultTrue` asks for one execution without faults). A transaction
  executed on a chain that is then deployed anew counts as failed; the property speaks of
  errors of calls during which the node stays. When two tasks correct the client's
  number at once it may fall, so that with something lost as well their calls may take
  effect out of order; `CallsInOrder` speaks of a task that is alone, or of runs without
  losses. A new chain ID leaves the sequence number too high. `retry_count` above `SUBMIT_ATTEMPTS` has no effect.

## Proofs

TLAPS proves, for every value of the constants that satisfies the named
assumptions of the modules (any finite set of traders, any inputs, no bound on
the counter that matters, lots and ticks of any size; any number of nodes in a
queue; any tiers, updates, markets and events; any tasks and coins; any keys and
values):

| Module | Theorem | Property |
|---|---|---|
| `MarketProofs` | `TypeCorrect` | `TypeOK` |
| | `BookAndAccountsAgree` | `BookMatchesAccounts` |
| | `BooksSorted` | `Sorted` |
| | `NodesKept` | `NodesPartitioned` |
| | `AccessKeysKept` | `InactiveKeysChained` |
| | `NoneEmpty` | `NoEmptyOrders` |
| | `BookStaysUncrossed` | `BookNotCrossed` |
| | `MatchesAreExhaustive` | `MatchIsExhaustive` |
| | `CoinsSuffice` | `CoinsInFlightSuffice` |
| | `LimitsKept` | `TakerWithinLimits` |
| | `CountersKept` | `CountersMatchOrders` |
| | `AssetsKept` | `AssetsConserved` |
| | `PriorityKept` | `PriceTimePriority` |
| | `OrderIdsKept` | `StaleIdsHitNothing` |
| `AVLqueueProofs` | `TreeAlwaysHolds` | `TreeHolds` |
| | `AccessKeysAlwaysHold` | `AccessKeysHold` |
| | `AVLqueueRefines` | `IsPriceTimeQueue` |
| `UserAccountsProofs` | `CollateralKept` | `CollateralBacksTotals` (of `AccountsAgree`) |
| | `AccountsAlwaysListed` | `AccountsListed` (of `AccountsAgree`) |
| | `HandlesAlwaysDistinct` | `HandlesDistinct` (of `AccountsAgree`) |
| | `HandlesAlwaysKept` | `HandlesKept` |
| `RegistryProofs` | `ShareAlwaysWithinFee` | `ShareWithinFee` |
| | `UpgradePathsAlwaysEqual` | `UpgradePathsEqual` |
| | `RegistryKept` | `RegistryAgrees` |
| | `CoinsKept` | `CoinsConserved` |
| | `TablistRefines` | `TablistIsTable` |
| `ServicesProofs` | `AlwaysGivesUpAfterRetries` | `GivesUpAfterRetries` |
| | `AlwaysAsksForMissing` | `AsksForMissing` |
| | `ResultsAlwaysTrue` | `ResultTrue` (of `EachResultTrue`) |
| | `CallsAlwaysInOrder` | `CallsInOrder` (of `ClientsServed`) |
| | `PublishedAlwaysTrue` | `PublishedTrue` |

That is every safety property that a run checks of a market, of its AVL queues, of the
accounts of users, of the tablist, of the registry with its fees, and of the MQTT
publisher.

**Market.** None of the first six is inductive alone. That a cancel finds its order
needs the access key of the book's entry to be active in the account; that the
account hands out a key no order has needs the stack of inactive keys to be a chain;
that the entry a match removes is the one at the head needs list nodes to be
distinct; that a partial fill leaves a positive size needs the sizes on both sides to
be equal; and a rollback needs all of it of the state to which it returns. `IInv` is
the conjunction, `Consistent(book, acct, counter)` and, while a transaction is under
way, `Consistent(saved...)`, with the types of the local variables. TLC checked
`IInv` as an invariant of the runs before it was proved.

The argument goes by layers. The first part of `MarketProofs` shows where an inserted
entry goes (`Ahead` is a prefix of a sorted list, lemma `Prefix`), and that inserting,
removing and evicting keep a queue sorted and its nodes partitioned.
`MarketAccountProofs` shows that deactivating a key pushes it on the chain and
placing an order pops it (lemmas `Push`, `Pop`), so that each operation of
`user.move` opens, closes or resizes exactly one order (`Opens`, `Closes`,
`Resizes`). `Linked(q, accts, side, c, W)` says that a queue and the accounts agree
but for the keys in `W`, of orders that have left the queue and not yet their
accounts, which is how far the two differ in the middle of a fill, a cancel or an
eviction. Then there is one lemma for each action. An order that a size change sends
to the back of its price level keeps its ID because its list node and its access
key, just freed, are on top of their stacks (`FreedNode`, `CancelOrderFreesKey`):
that is what the assertion at the end of `change_order_size` relies on.

**AVL queue.** The theorems assume `QueueAssumption`: there is room for some node, and
keys are between 1 and `HI_INSERTION_KEY`, as prices are. `QueueInv` says that there
are a set of tree nodes `T`, a set of list nodes `A`, a home in `T` and an age for
each node of `A`, such that:

- `T` is a search tree. Instead of an order of the nodes, which a rotation would have
  to rearrange, `Tree(trees, root, T, lo, hi)` has an interval of keys for each node,
  which its children split at its key; an empty side is a `Gap` in which no key is.
  Search, and both directions of `traverse`, then end because the interval shrinks or
  grows (`Descending`), and what they find follows from the intervals (`SearchFinds`,
  `TraverseFinds`). A rotation gives two or three nodes other intervals
  (`RotatesLinks`, `RotateTwiceIs`); a node with two children gives its interval to
  its predecessor (`PredecessorIs`, `ReplacedTree`).
- Heights are exact and balanced. In the middle of `retrace` they are wrong on one
  side of one node, by `delta` of one more or one less (`HeightsBut`, `Retracing`);
  each round repairs that side, rotates if it must, and either ends or hands the
  parent the difference. The rounds are no more than the nodes because the subtree
  under repair grows with each (`Climbing`).
- The list of a tree node is the nodes that have it as their home, linked by age, with
  the head the oldest and the tail the youngest; no tree node of `T` has an empty list.
  All other nodes of either kind are on their stacks (`StackIs`).
- The cached head is the node with the best key and, of these, the oldest; the tail is
  the opposite (`EndIs`). That the next end is in the list of the neighbor that
  `traverse` finds is where tree and lists meet (`NextEndIs`, `FoundEndIs`).
- The access keys issued are those of the nodes in `A`, with their homes and keys.

The sequences of the properties (the tree from left to right, the list of a node, the
whole queue, a page) are recursive functions. Each is `Ranked`, which is to say that it
lists a set in an order; a set has only one such sequence (`CollectionProofs`). So
`Ordered` is known from `A`, keys and ages alone. In the refinement each operation adds or
removes one element of `A`, the new one younger than all others, and the sequence
ranked by price and age is the one that `PriceTimeQueue` computes by position.

**Limits.** The book is uncrossed at every step, not only between transactions
(`UncrossedInv`): a match takes from one side, what is left of a limit order rests
only where no price crosses, and an eviction or a rollback adds no price to the
present book or to the saved one. `LedgerInv` says three things that need each
other. Counters are what sums over open orders say (`Ledgers`), now and in the saved
accounts: one operation changes one order and the counters by that order's worth
(`TotalAdd`, `TotalRemove`, `TotalChange` in `CollectionProofs`). The coins in flight are
what the lots and ticks filled so far leave of what the taker gave and bring it, the
ticks on the taker's side of price times lots, and the fees at most their share of
the ticks (`Reckoned`). And the account of the taker has room for what may
come back (`Reserved`), which an order of its own that a match cancels only widens.
`AssetsConserved` follows from `ConservedInv`, a balance of one sum over traders,
coins in flight and fees, kept by whatever moves units between outside, one account,
flight and fees (`Moves`, `MovedBalance`), which is all that a step does. The saved
state is balanced too, for the sake of rollbacks.

**Orders.** `Follows` relates the lists before and after a step by a map of positions:
the orders that stay keep their IDs and their sequence, and one that grows was the
last of its price level or goes behind it.
The proof shows of each action which of five things it does to the book
(`Still`, `Dropped`, `ResizedInPlace`, `MovedBack`, `Posted`, with an eviction), and
of each that lists follow. `RanksInv` says that within a transaction the present
book follows from the saved one, because a step that ends the transaction may add an
order, which has to be told from those that were there when it began, and a rollback
reverses all steps at once.

**Accounts of users.** The theorems assume `ConstantsTyped`, what the registry makes
sure of: the base and the quote of a market differ, and the quote is a coin. That is why one
deposit moves the coins of one asset only. `FundsInv` says of each user that collateral has
an entry for each account and each coin of its market, equal to the account's total; a
fill is two changes of it, which may be to two accounts of one user (`RoutedFunds`,
`FillOrderFunds`). `ListsInv` says that the list of custodians has one entry for each
market, in which no custodian comes twice; going through it is a recursive function,
which keeps elements distinct (`DistinctFlatten`). `HandlesInv` adds to `HandlesDistinct`
that creation numbers in use are below the next one.

**Fees.** `FeeInv` says that the parameters have passed the checks of
`update_incentives`, that every store's tier is one of the present tiers (an update
never has fewer), and that what was paid for a store is
the activation fee of its tier, as long as the parameters are those it was last
activated under. A share is a division by a larger divisor than the fee's
(lemma `QuotientFalls`), because each tier's divisor is at least the taker's.

**Registry.** `RegistryInv` adds the types of the tables to what `RegistryAgrees` says,
and `RecognizedOK(s)` states its part on recognized markets of a state between two
elements of a vector: `set_recognized_markets` and `remove_recognized_markets` fold
over one, and the events are folded to the map they tell. A fold is a recursive
function on the positions left; `FoldExists` and `FoldSteps` show that the recursion has a
solution and that it goes from one element to the next, `FoldKeeps` that a vector
of any length keeps `RecognizedOK`, and `ToldMore` that one more event changes the map by that event.
`CoinInv` says that the fees held of a market are those in its stores, a sum over
the integrators' stores; it needs `MarketsFound` and `StoresReachable`, as a fee goes to a
store only if both are there.

**Tasks.** `RetryInv` ties the counter of retries to the failures in a row, which the
code does not keep; `AskInv` says that the list a run still has to ask for has no
repetitions and none of the coins of the table, which a crash in the middle of the
list keeps true because each coin leaves the list when it is stored.

**Calls of the SDK.** `ResultsAlwaysTrue` assumes that a call has at least two attempts by
either bound (the code has ten by both). `ResultInv` says that a result that is Ok has an
execution, and, as long as nothing is lost, that all the node holds is awaited by the call
that sent it, and that what has executed is awaited or has been told: so a call
that tries again has had no effect, and none comes later, because the node has dropped
the attempt for good. That a task which is alone succeeds needs `AloneInv`: the client's number is
the node's, or one less after a success, which the first attempt of the next call
corrects; that attempt is the only one to fail. `ChainsKnown` says on which
chains calls begin and transactions are: none of the call under way is of an older chain
than the one it began on, which is what an error without a new deployment rests on. `CallsAlwaysInOrder` holds in spite of deployments,
and of a task that is alone in spite of faults: the numbers and chains that a task signs with never fall from call
to call (`NumbersGrow`), and what has executed on a chain is below the number that
the node executes next (`NumbersKnown`).

**Publisher.** `PublishedTrue` rests on what a market may emit, which `ChainInv` states: the
log is in the order of the chain, accounts and types of orders never change, the fills
of a trade are of one transaction and of two accounts, there are at most two, and there
are two if both sides have handles. A match emits up to two sequences of fills, to the makers
and to the taker, each a subsequence of the same entries of the book; `SelectMaps` says where
the elements of a subsequence come from, and from the orders' IDs follows that a trade is
in each at most once. `PublisherInv` then follows a fill through the queue of
notifications, the message being sent, the client's queue and the broker: each comes in turn
(`MessagesOrdered`, `QueueOrdered`); if a trade has been sent from once, and its other fill is
still to be received, the trade is remembered, so that the second one is not published
again on the channels of both accounts (`TradesOnce`); and without faults a remembered trade of two accounts
that both hear of it has its second notification ahead (`TradesForgotten`). With a restart
the queue is lost together with the memory, and with a connection the queue alone, which leaves
trades remembered that no notification will end: `RememberedUntilSecond` speaks of runs without
faults only, and not of trades one side of which has no handle. Levels (`LevelsTyped`) are those of a version
that the ledger will never change again.

**Tablist.** `TablistInv` says that there is a sequence of distinct keys that the
links follow both ways. It is unique: walking from the head meets it (`WalkIsList`),
and so the refinement mapping, which walks, is that sequence (`Seen`). Adding a key
appends it, and removing one closes the gap (`LinkedAdd`, `LinkedRemove`), so that
each step of `Tablist` is the step of `TablistSpec` of the same name. `NONE` must not be a key, as
in Move, where links are options.

**Sums and folds.** The induction theorems of the library take a predicate as a
parameter, which the installed provers cannot instantiate. The recursions above are
over finite sets, and the lemmas go by a smallest counterexample instead: of the
sets, or numbers, for which the claim fails, one has no smaller one among them
(`Least` and `Smallest` in `CollectionProofs`, from the well-foundedness of the natural
numbers).

Left to TLC: liveness, which rests on fairness and is out of the prover's reach; and
the other consumers of events (`StampsGivePriority`, `ShowsOneVersion`, `SpreadsShowBook`,
`TablesExact`, `RollingVolumeNotOverstated`, `EachSavedAsOf`, `EachPeriodsAddUp`). The
queries they model filter, join and sort
rows, with `SelectSeq`, `@@` and `SortSeq`, of which the prover has no definition; the first two it
would take subsequences and joins of records in the way of `MarketEvents`
(`Select`, `Extend`) to prove about.

## Not modelled

- `resource_account` stores one signer capability and reads it; `assets`, the faucet,
  the competition throttler, the wrapper demo and the governance script mint test
  coins or call entry functions of the core: no protocol state of their own.
- Views of `user.move` and `market.move` that return records of what the models
  already hold, and the encoding of access keys and order IDs in bits.
- The SDK's `entry.rs` and `view.rs` marshal arguments of one call each and decode
  its answer; its example is a client of them. The types crate and the Python SDK
  are definitions and marshalling.
- The REST views, roles and indices of `dbv2`, and the commands that edit a competition:
  SQL without a process around it. Views and triggers that the services rest on are in the
  modules of those services. The tables `aggv2` reads are filled by an external processor.
- Several markets at once in the services: each event carries its market and the
  statements group by it. One consequence is not covered: the volume as quote of
  an asset that is the base of two markets is added twice
  (`enumerated_volume/update.sql:46`).
- Deployment, infrastructure, documentation.

## Plan

- Two markets in `MarketEvents`, for the pipelines that group by market and asset.
- Proofs about the consumers of events, of which `ShowsOneVersion` says most.
