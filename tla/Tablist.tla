------------------------------ MODULE Tablist -------------------------------
(***************************************************************************)
(* A table whose entries are linked both ways (tablist.move).  A call that *)
(* aborts changes nothing, so it is a step that is not taken.              *)
(***************************************************************************)
EXTENDS SequencesExt

CONSTANTS Keys, Values, NONE    \* NONE is neither a key nor a value

VARIABLES
  table,      \* key to Node: [value, previous, next]
  head, tail, \* keys, or NONE
  returned    \* by the last call: [value, previous, next]

vars == <<table, head, tail, returned>>

Nothing == [value |-> NONE, previous |-> NONE, next |-> NONE]

(* tablist::new.                                                           *)
Init == table = << >> /\ head = NONE /\ tail = NONE /\ returned = Nothing

(* Set a field of a node, if there is the node.                            *)
LinkNext(t, key, next) == IF key = NONE THEN t ELSE [t EXCEPT ![key].next = next]
LinkPrevious(t, key, previous) ==
  IF key = NONE THEN t ELSE [t EXCEPT ![key].previous = previous]

Add(key, value) ==
  /\ key \notin DOMAIN table
  /\ LET node == [value |-> value, previous |-> tail, next |-> NONE]
         added == [k \in DOMAIN table \cup {key} |->
                    IF k = key THEN node ELSE table[k]]
     IN table' = LinkNext(added, tail, key)
  /\ head' = IF head = NONE THEN key ELSE head
  /\ tail' = key
  /\ returned' = Nothing

(* borrow, borrow_iterable.                                                *)
BorrowIterable(key) ==
  /\ key \in DOMAIN table
  /\ returned' = table[key]
  /\ UNCHANGED <<table, head, tail>>

(* borrow_mut, borrow_iterable_mut, and the caller's assignment.           *)
Assign(key, value) ==
  /\ key \in DOMAIN table
  /\ table' = [table EXCEPT ![key].value = value]
  /\ returned' = table'[key]
  /\ UNCHANGED <<head, tail>>

(* MUTANT: removing the tail leaves the tail where it was, if it is not    *)
(* the head.                                                               *)
RemoveIterableKeepingTail(key) ==
  /\ key \in DOMAIN table
  /\ LET node == table[key]
         rest == [k \in DOMAIN table \ {key} |-> table[k]]
     IN /\ table' = LinkPrevious(LinkNext(rest, node.previous, node.next),
                                 node.next, node.previous)
        /\ head' = IF node.previous = NONE THEN node.next ELSE head
        /\ tail' = IF node.previous = NONE /\ node.next = NONE
                   THEN NONE ELSE tail
        /\ returned' = node

(* remove, remove_iterable.                                                *)
RemoveIterable(key) ==
  /\ key \in DOMAIN table
  /\ LET node == table[key]
         rest == [k \in DOMAIN table \ {key} |-> table[k]]
     IN /\ table' = LinkPrevious(LinkNext(rest, node.previous, node.next),
                                 node.next, node.previous)
        /\ head' = IF node.previous = NONE THEN node.next ELSE head
        /\ tail' = IF node.next = NONE THEN node.previous ELSE tail
        /\ returned' = node

Next == \E key \in Keys : \/ \E value \in Values : \/ Add(key, value)
                                                   \/ Assign(key, value)
                          \/ BorrowIterable(key)
                          \/ RemoveIterable(key)

Spec == Init /\ [][Next]_vars

-----------------------------------------------------------------------------
(* Properties.                                                             *)

(* The keys met on the way along the links of a table from its first key.  *)
Walk(t, first) ==
  LET at[i \in 1..Cardinality(DOMAIN t)] ==
        IF i = 1 THEN first
        ELSE IF at[i - 1] \in DOMAIN t THEN t[at[i - 1]].next ELSE NONE
  IN at

Forwards == Walk(table, head)

ValuesOf(t) == [k \in DOMAIN t |-> t[k].value]

(* The links implement a table in the order of addition: each call gives   *)
(* the answer that TablistSpec gives.                                      *)
List == INSTANCE TablistSpec WITH
  list <- Forwards,
  values <- ValuesOf(table)

TablistIsTable == List!Spec
=============================================================================
