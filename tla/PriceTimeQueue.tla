--------------------------- MODULE PriceTimeQueue ---------------------------
(***************************************************************************)
(* What an AVL queue (avl_queue.move) is to the order book that uses it: a *)
(* list of entries sorted by insertion key and, within a key, by time of   *)
(* insertion.  An entry lives in a list node; node IDs are handed out from *)
(* 1 up to NNodesMax and, once freed, again from a stack.  The entry at    *)
(* index 1 is the head.                                                    *)
(*                                                                         *)
(* The tree of the implementation, whose shape no caller sees, is left     *)
(* out.  The height at which insert_check_eviction also evicts is out of   *)
(* reach: a tree of N_NODES_MAX = 16383 nodes is at most 18 high, which is *)
(* the order book's critical height.                                       *)
(***************************************************************************)
EXTENDS Integers, Sequences, FiniteSets, SequencesExt

CONSTANT NNodesMax    \* N_NODES_MAX

ASSUME NNodesMaxAssumption == NNodesMax \in Nat \ {0}

Entries(V) == [key : Nat, node : Nat, value : V]
Queues(V)  == [ascending : BOOLEAN, list : Seq(Entries(V)),
               nNodes : Nat, inactive : Seq(Nat)]

New(ascending) ==
  [ascending |-> ascending, list |-> << >>, nNodes |-> 0, inactive |-> << >>]

(* Key k is strictly nearer the head than key l.                           *)
Precedes(q, k, l) == IF q.ascending THEN k < l ELSE k > l

IsEmpty(q) == q.list = << >>
HeadKey(q) == q.list[1].key
TailKey(q) == q.list[Len(q.list)].key

WouldUpdateHead(q, key) == IsEmpty(q) \/ Precedes(q, key, HeadKey(q))
WouldUpdateTail(q, key) == IsEmpty(q) \/ ~Precedes(q, key, TailKey(q))

Nodes(q) == {q.list[i].node : i \in DOMAIN q.list}

ContainsActiveListNode(q, node) == node \in Nodes(q)
IndexOf(q, node) == CHOOSE i \in DOMAIN q.list : q.list[i].node = node

(* No entry with the same key was inserted later.                          *)
IsLocalTail(q, i) == i = Len(q.list) \/ q.list[i + 1].key # q.list[i].key

-----------------------------------------------------------------------------

(* MUTANT: descending queues are sorted like ascending ones.               *)
AscendingOnly(q, key) == {i \in DOMAIN q.list : q.list[i].key <= key}

(* The entries that stay in front of a new one: those with a better key,   *)
(* and those with the same key, which came first.                          *)
Ahead(q, key) == {i \in DOMAIN q.list : ~Precedes(q, key, q.list[i].key)}

(* The node for a new entry: the top of the stack, or a new one.           *)
NextNode(q) == IF q.inactive = << >> THEN q.nNodes + 1 ELSE Last(q.inactive)

TakeNode(q) ==
  IF q.inactive = << >> THEN [q EXCEPT !.nNodes = @ + 1]
                        ELSE [q EXCEPT !.inactive = Front(@)]

Insert(q, key, value) ==
  LET entry == [key |-> key, node |-> NextNode(q), value |-> value]
  IN [TakeNode(q) EXCEPT
        !.list = InsertAt(@, Cardinality(Ahead(q, key)) + 1, entry)]

RemoveEntry(q, i) ==
  [q EXCEPT !.list     = RemoveAt(@, i),
            !.inactive = Append(@, q.list[i].node)]

-----------------------------------------------------------------------------
(* Insertion into a queue that may be full.                                *)

(* MUTANT: off by one.                                                     *)
FullOnceOver(q) == ~IsEmpty(q) /\ q.nNodes > NNodesMax /\ q.inactive = << >>

IsFull(q) == ~IsEmpty(q) /\ q.nNodes = NNodesMax /\ q.inactive = << >>

(* A full queue takes only a key strictly better than its tail's, ...      *)
Admits(q, key) == IsFull(q) => ~WouldUpdateTail(q, key)

(* ... for which it evicts the tail.                                       *)
Evict(q) == IF IsFull(q) THEN RemoveEntry(q, Len(q.list)) ELSE q

InsertCheckEviction(q, key, value) == Insert(Evict(q), key, value)

-----------------------------------------------------------------------------
(* What a queue promises.                                                  *)

(* Entries are sorted by key, the best first.                              *)
SortedByKey(q) ==
  \A i, j \in DOMAIN q.list :
    i < j => ~Precedes(q, q.list[j].key, q.list[i].key)

(* A list node holds one entry or is on the stack of inactive nodes, once. *)
PartitionsNodes(q) ==
  LET active == [i \in DOMAIN q.list |-> q.list[i].node]
  IN /\ IsInjective(active)
     /\ IsInjective(q.inactive)
     /\ Nodes(q) \cap ToSet(q.inactive) = {}
     /\ Nodes(q) \cup ToSet(q.inactive) = 1..q.nNodes
     /\ q.nNodes <= NNodesMax
=============================================================================
