---------------------------- MODULE MCContainers ----------------------------
(***************************************************************************)
(* The two containers that the packages build on, for TLC: the tree of an  *)
(* AVL queue, and a tablist.  They share no state, and each behavior is    *)
(* one of either.                                                          *)
(*                                                                         *)
(* A tree starts from each shape that it may have, with an entry per key,  *)
(* and goes on for a few operations.  A shape is described by the depth of *)
(* each key; to insert the keys by depth builds it without a rotation, so  *)
(* that it is a queue the code can be in.                                  *)
(***************************************************************************)
EXTENDS AVLqueueSpec

CONSTANTS MaxOperations, TableKeys, TableValues, NONE

VARIABLES
  operations,                     \* bounded by MaxOperations
  table, head, tail, returned,    \* of the tablist
  container                       \* the one that is used

tableVars == <<table, head, tail, returned>>

Tables == INSTANCE Tablist WITH Keys <- TableKeys, Values <- TableValues

EvenKeys(n) == {2 * i : i \in 1..n}
NewKeys == {1, 8, 13, 18, 25}
AllKeys == EvenKeys(12) \cup NewKeys

Deeper(depths) == [key \in DOMAIN depths |-> depths[key] + 1]
Tallest(depths) == Max({-1} \cup {depths[key] : key \in DOMAIN depths})

(* The depths of the keys 2 * first, ..., 2 * last in each AVL tree.       *)
RECURSIVE Shapes(_, _)
Shapes(first, last) ==
  IF first > last THEN {<< >>}
  ELSE UNION {
    {Deeper(left) @@ Deeper(right) @@ ((2 * top) :> 0) :
       <<left, right>> \in
         {pair \in Shapes(first, top - 1) \X Shapes(top + 1, last) :
            Tallest(pair[1]) - Tallest(pair[2]) \in {-1, 0, 1}}}
    : top \in first..last}

ByDepth(depths) ==
  LET keys == [i \in 1..Cardinality(DOMAIN depths) |-> 2 * i]
      level(d) == SelectSeq(keys, LAMBDA key : depths[key] = d)
  IN FlattenSeq([i \in 1..(Tallest(depths) + 1) |-> level(i - 1)])

Built(depths, ascending) ==
  FoldLeft(LAMBDA q, key : Insert(q, key).queue, New(ascending), ByDepth(depths))

GrownInit ==
  /\ \E size \in {7, 9, 12} : \E depths \in Shapes(1, size) :
       avlq = Built(depths, size # 9)
  /\ issued = {Access(avlq.trees[i].key, avlq.trees[i].head, i) : i \in DOMAIN avlq.trees}
  /\ done = [operation |-> "new", value |-> NIL]

GrownNext ==
  /\ operations < MaxOperations
  /\ operations' = operations + 1
  /\ \/ \E key \in NewKeys : InsertKey(key) \/ InsertOrEvict(key)
     \/ RemoveAny
     \/ PopHead
     \/ PopTail

ContainersInit ==
  /\ \/ container = "AVL queue" /\ GrownInit
     \/ container = "tablist" /\ Init
  /\ operations = 0
  /\ Tables!Init

UseQueue ==
  /\ container = "AVL queue"
  /\ GrownNext
  /\ UNCHANGED <<tableVars, container>>

UseTable ==
  /\ container = "tablist"
  /\ Tables!Next
  /\ UNCHANGED <<vars, operations, container>>

ContainersNext == UseQueue \/ UseTable

ContainersSpec ==
  ContainersInit
    /\ [][ContainersNext]_<<vars, operations, tableVars, container>>

(* A tablist is a table that keeps the order of addition, and links each   *)
(* key to its neighbors (TablistSpec).                                     *)
TablistIsTable == Tables!TablistIsTable
=============================================================================
