------------------------- MODULE PriceTimeQueueSpec -------------------------
(***************************************************************************)
(* The operations of a price-time queue, one step each: what a caller of   *)
(* avl_queue.move may rely on, whatever the shape of the tree.             *)
(***************************************************************************)
EXTENDS PriceTimeQueue

CONSTANT Keys

VARIABLES
  queue,
  tall,               \* whether the tree is above the critical height
  done                \* the last operation, and the value it gave back, or 0

vars == <<queue, tall, done>>

CanInsert == queue.inactive # << >> \/ queue.nNodes < NNodesMax

Done(operation, value) == done' = [operation |-> operation, value |-> value]

Init ==
  /\ \E ascending \in BOOLEAN : queue = New(ascending)
  /\ tall = FALSE
  /\ done = [operation |-> "new", value |-> 0]

InsertKey(key) ==
  /\ Done("insert", 0)
  /\ CanInsert
  /\ queue' = Insert(queue, key, key)

MustEvict == ~IsEmpty(queue) /\ (tall \/ IsFull(queue))

InsertOrEvict(key) ==
  \/ /\ Done("insert", 0)
     /\ ~MustEvict
     /\ queue' = Insert(queue, key, key)
  \/ /\ MustEvict /\ ~WouldUpdateTail(queue, key)
     /\ Done("evict", Last(queue.list).value)
     /\ queue' = Insert(RemoveEntry(queue, Len(queue.list)), key, key)
  \/ /\ Done("refuse", key)
     /\ MustEvict /\ WouldUpdateTail(queue, key)
     /\ UNCHANGED queue

InsertThenEvict(key) ==
  /\ ~IsEmpty(queue) /\ ~WouldUpdateTail(queue, key) /\ CanInsert
  /\ Done("evict", Last(queue.list).value)
  /\ LET longer == Insert(queue, key, key)
     IN queue' = RemoveEntry(longer, Len(longer.list))

RemoveAny ==
  \E i \in DOMAIN queue.list :
    /\ Done("remove", queue.list[i].value)
    /\ queue' = RemoveEntry(queue, i)

PopEnd(operation, i) ==
  /\ ~IsEmpty(queue)
  /\ Done(operation, queue.list[i].value)
  /\ queue' = RemoveEntry(queue, i)

Next ==
  /\ \/ \E key \in Keys : InsertKey(key) \/ InsertOrEvict(key) \/ InsertThenEvict(key)
     \/ RemoveAny
     \/ PopEnd("pop head", 1)
     \/ PopEnd("pop tail", Len(queue.list))
  /\ tall' \in BOOLEAN

Spec == Init /\ [][Next]_vars
=============================================================================
