---------------------------- MODULE AVLqueueSpec ----------------------------
(***************************************************************************)
(* A side of an order book that keeps its orders in an AVL queue: the      *)
(* public operations of avl_queue.move, and the access keys it has handed  *)
(* out, which the orders' users hold as part of their order IDs.           *)
(***************************************************************************)
EXTENDS AVLqueue

CONSTANT CriticalHeight    \* CRITICAL_HEIGHT of the order book

VARIABLES
  avlq,
  issued,             \* access keys handed out, of entries not yet returned
  done                \* the last operation, and the value it gave back, or NIL

vars == <<avlq, issued, done>>

Did(operation, value) == done' = [operation |-> operation, value |-> value]

Init ==
  /\ \E ascending \in BOOLEAN : avlq = New(ascending)
  /\ issued = {}
  /\ done = [operation |-> "new", value |-> NIL]

InsertKey(key) ==
  /\ CanInsert(avlq)
  /\ \E inserted \in {Insert(avlq, key)} :
       /\ avlq' = inserted.queue
       /\ issued' = issued \cup {inserted.access}
  /\ Did("insert", NIL)

InsertOrEvict(key) ==
  \E inserted \in {InsertCheckEviction(avlq, key, CriticalHeight)} :
    /\ avlq' = inserted.queue
    /\ issued' = (issued \ inserted.evicted) \cup inserted.access
    /\ \/ inserted.access = {} /\ Did("refuse", key)
       \/ /\ inserted.access # {} /\ inserted.evicted = {}
          /\ Did("insert", NIL)
       \/ \E evicted \in inserted.evicted : Did("evict", avlq.values[evicted.list])

InsertThenEvict(key) ==
  /\ ~Empty(avlq) /\ Better(avlq, key, avlq.tail.key) /\ CanInsert(avlq)
  /\ \E inserted \in {InsertEvictTail(avlq, key)} :
       /\ avlq' = inserted.queue
       /\ issued' = (issued \ {inserted.evicted}) \cup {inserted.access}
       /\ Did("evict", avlq.values[inserted.evicted.list])

Take(operation, access) ==
  /\ avlq' = RemoveAccess(avlq, access)
  /\ issued' = issued \ {access}
  /\ Did(operation, avlq.values[access.list])

RemoveAny == \E access \in issued : Take("remove", access)
PopHead == ~Empty(avlq) /\ Take("pop head", HeadAccess(avlq))
PopTail == ~Empty(avlq) /\ Take("pop tail", TailAccess(avlq))

Next ==
  \/ \E key \in Keys : InsertKey(key) \/ InsertOrEvict(key) \/ InsertThenEvict(key)
  \/ RemoveAny
  \/ PopHead
  \/ PopTail

Spec == Init /\ [][Next]_vars

-----------------------------------------------------------------------------
(* The queue that callers see: the tree in order, and each node's list.    *)

(* The list node after one, in its list or in the stack.                   *)
NextListNode(q) ==
  [i \in DOMAIN q.lists |-> IF q.lists[i].next.tree THEN NIL ELSE q.lists[i].next.id]

(* From left to right.                                                     *)
TreeNodes(q) ==
  LET from[id \in {NIL} \cup DOMAIN q.trees] ==
        IF id = NIL THEN << >>
        ELSE from[q.trees[id].child["left"]] \o <<id>> \o from[q.trees[id].child["right"]]
  IN from[q.root]

EntriesAt(q, tree) ==
  LET nodes == Path(NextListNode(q), q.trees[tree].head)
  IN [i \in DOMAIN nodes |-> [key |-> q.trees[tree].key, node |-> nodes[i],
                              value |-> q.values[nodes[i]]]]

Ordered(q) ==
  LET trees == TreeNodes(q)
      best == IF q.ascending THEN trees ELSE Reverse(trees)
  IN FlattenSeq([i \in DOMAIN best |-> EntriesAt(q, best[i])])

ListStack(q) == Reverse(Path(NextListNode(q), q.listTop))
TreeStack(q) == Reverse(Path([i \in DOMAIN q.trees |-> q.trees[i].next], q.treeTop))

Queue == INSTANCE PriceTimeQueueSpec WITH
  queue <- [ascending |-> avlq.ascending, list |-> Ordered(avlq),
            nNodes |-> Len(avlq.lists), inactive |-> ListStack(avlq)],
  tall <- ~Empty(avlq) /\ Height(avlq.trees[avlq.root]) > CriticalHeight

-----------------------------------------------------------------------------
(* Properties.                                                             *)

(* The AVL queue is a price-time queue: what it holds, in which order,     *)
(* which list nodes it uses and what each operation gives back follow from *)
(* price and time alone, whatever the tree went through.                   *)
IsPriceTimeQueue == Queue!Spec

(* The tree is a balanced search tree: keys increase from left to right,   *)
(* and the heights kept at a node are those of its subtrees, which differ  *)
(* by one at most (retrace).                                               *)
Balanced ==
  LET trees == TreeNodes(avlq)
      node(i) == avlq.trees[trees[i]]
      height(id) == IF id = NIL THEN 0 ELSE 1 + Height(avlq.trees[id])
  IN /\ \A i \in DOMAIN trees \ {1} : node(i - 1).key < node(i).key
     /\ \A i \in DOMAIN trees :
          /\ \A side \in {"left", "right"} :
               /\ node(i).height[side] = height(node(i).child[side])
               /\ node(i).child[side] # NIL =>
                    avlq.trees[node(i).child[side]].parent = trees[i]
          /\ node(i).height["left"] - node(i).height["right"] \in {-1, 0, 1}
     /\ avlq.root # NIL => avlq.trees[avlq.root].parent = NIL

(* An access key leads to its entry for as long as that is in the queue:   *)
(* neither its list node nor its tree node moves, and an evicted entry is  *)
(* named by the key that its user holds.                                   *)
AccessKeysHold ==
  issued = UNION {{Access(e.key, e.node, tree) : e \in ToSet(EntriesAt(avlq, tree))}
                   : tree \in ToSet(TreeNodes(avlq))}

(* The cached ends are those of the queue (next_list_node_in_sequence).    *)
EndsCached ==
  LET entries == Ordered(avlq)
      end(e) == [node |-> e.node, key |-> e.key]
  IN IF entries = << >> THEN avlq.head.node = NIL /\ avlq.tail.node = NIL
     ELSE avlq.head = end(Head(entries)) /\ avlq.tail = end(entries[Len(entries)])

(* A tree node is in the tree or in the stack, once.                       *)
TreeNodesKept ==
  LET used == TreeNodes(avlq) \o TreeStack(avlq)
  IN IsInjective(used) /\ ToSet(used) = DOMAIN avlq.trees

(* get_open_orders_paginated: pages of any size, of one version of the     *)
(* book, hold each order once, the best first.                             *)
PagesComplete ==
  LET entries == Ordered(avlq)
  IN \A max \in 1..Len(entries) :
       Pages(avlq, avlq.head.node, max) = [i \in DOMAIN entries |-> entries[i].node]

(* Whatever rotations and replacements went before, the tree is balanced,  *)
(* its nodes are accounted for, the ends are at hand, and a walk from the  *)
(* head meets each entry: what each later operation trusts.                *)
TreeHolds == Balanced /\ TreeNodesKept /\ EndsCached /\ PagesComplete
=============================================================================
