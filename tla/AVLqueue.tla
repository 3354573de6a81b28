------------------------------ MODULE AVLqueue ------------------------------
(***************************************************************************)
(* The AVL queue of avl_queue.move: an AVL tree with a node per insertion  *)
(* key, at each of which a doubly linked list holds the entries with that  *)
(* key, in order of insertion.  Inactive tree nodes and list nodes are     *)
(* stacks; the IDs and keys of the queue's head and tail are cached.       *)
(*                                                                         *)
(* Packed fields are records, tables are sequences (node IDs count from 1) *)
(* and the mirror images of a tree operation are one operator with a side. *)
(* The entry with a key is an order, of which the price is that key.       *)
(***************************************************************************)
EXTENDS Integers, SequencesExt

CONSTANTS
  NNodesMax,          \* N_NODES_MAX
  HiInsertionKey,     \* HI_INSERTION_KEY
  Keys                \* insertion keys: prices, so not 0

ASSUME QueueAssumption ==
  /\ NNodesMax \in Nat \ {0}
  /\ HiInsertionKey \in Nat
  /\ Keys \subseteq 1..HiInsertionKey

NIL == 0
Other(side) == IF side = "left" THEN "right" ELSE "left"
Larger(a, b) == IF a >= b THEN a ELSE b

(* A link of a list node: to a list node, or to the tree node of its list. *)
ToList(id) == [tree |-> FALSE, id |-> id]
ToTree(id) == [tree |-> TRUE, id |-> id]

NoEnd == [node |-> NIL, key |-> NIL]
NoChild == [side \in {"left", "right"} |-> NIL]

(* A tree node in the stack of inactive ones.                              *)
Inactive(next) ==
  [key |-> NIL, height |-> NoChild, parent |-> NIL, child |-> NoChild,
   head |-> NIL, tail |-> NIL, next |-> next]

New(ascending) ==
  [ascending |-> ascending, root |-> NIL, head |-> NoEnd, tail |-> NoEnd,
   treeTop |-> NIL, listTop |-> NIL,
   trees |-> << >>, lists |-> << >>, values |-> << >>]

Empty(q) == q.head.node = NIL

Height(node) == Larger(node.height["left"], node.height["right"])

(* The side of the tree where the queue's head is.                         *)
HeadSide(q) == IF q.ascending THEN "left" ELSE "right"

Better(q, key, other) == IF q.ascending THEN key < other ELSE key > other

-----------------------------------------------------------------------------
(* Walks, along a function from each node to the next one or NIL.          *)

Path(next, id) ==
  LET from[i \in DOMAIN next] ==
        LET then == next[i] IN IF then = NIL THEN <<i>> ELSE <<i>> \o from[then]
  IN IF id = NIL THEN << >> ELSE from[id]

PathEnd(next, id) == Last(Path(next, id))

(* The side of a node where a key is, if it is not the node's own.         *)
KeySide(node, key) == IF key < node.key THEN "left" ELSE "right"

(* The node with the key, or the one that a new leaf is a child of.        *)
SearchStep(trees, key) ==
  [i \in DOMAIN trees |->
     IF trees[i].key = key THEN NIL ELSE trees[i].child[KeySide(trees[i], key)]]

Search(q, key) ==
  LET found == PathEnd(SearchStep(q.trees, key), q.root)
      node == q.trees[found]
  IN IF q.root = NIL THEN [node |-> NIL, leaf |-> "none"]
     ELSE [node |-> found, leaf |-> IF node.key = key THEN "none" ELSE KeySide(node, key)]

DownStep(trees, side) == [i \in DOMAIN trees |-> trees[i].child[side]]

Down(trees, id, side) == PathEnd(DownStep(trees, side), id)

(* As long as a node is not its parent's child on the side.                *)
UpStep(trees, side) ==
  [i \in DOMAIN trees |->
     LET parent == trees[i].parent
     IN IF parent # NIL /\ trees[parent].child[side] = i THEN NIL ELSE parent]

Up(trees, id, side) == trees[PathEnd(UpStep(trees, side), id)].parent

(* The tree node next to one, on the given side: the predecessor is on the *)
(* left.                                                                   *)
Traverse(trees, id, side) ==
  LET child == trees[id].child[side]
  IN IF child = NIL THEN Up(trees, id, Other(side)) ELSE Down(trees, child, Other(side))

-----------------------------------------------------------------------------
(* Rotations about a node x that is heavy on a side, where its child is z. *)
(* Each yields the nodes, the new root of the subtree and its height.      *)

SetParent(trees, id, parent) ==
  IF id = NIL THEN trees ELSE [trees EXCEPT ![id].parent = parent]

(* rotate_right for "left", rotate_left for "right".                       *)
Rotate(trees, x, z, side) ==
  LET other == Other(side)
      tree2 == trees[z].child[other]
      newX == [trees[x] EXCEPT !.child[side] = tree2, !.parent = z,
                               !.height[side] = trees[z].height[other]]
      newZ == [trees[z] EXCEPT !.child[other] = x, !.parent = trees[x].parent,
                               !.height[other] = Height(newX) + 1]
  IN [trees |-> [SetParent(trees, tree2, x) EXCEPT ![x] = newX, ![z] = newZ],
      root |-> z, height |-> Height(newZ)]

(* rotate_left_right for "left", rotate_right_left for "right".            *)
RotateTwice(trees, x, z, side) ==
  LET other == Other(side)
      y == trees[z].child[other]
      inner == trees[y].child[side]
      outer == trees[y].child[other]
      newX == [trees[x] EXCEPT !.child[side] = outer, !.parent = y,
                               !.height[side] = trees[y].height[other]]
      newZ == [trees[z] EXCEPT !.child[other] = inner, !.parent = y,
                               !.height[other] = trees[y].height[side]]
      height == Height(newZ) + 1
      newY == [trees[y] EXCEPT !.child = [s \in {"left", "right"} |-> IF s = side THEN z ELSE x],
                               !.height = [s \in {"left", "right"} |-> height],
                               !.parent = trees[x].parent]
  IN [trees |-> [SetParent(SetParent(trees, inner, z), outer, x)
                   EXCEPT ![x] = newX, ![y] = newY, ![z] = newZ],
      root |-> y, height |-> height]

(* MUTANT: one rotation, whatever the child's balance.                     *)
RebalanceOnce(trees, x, side) == Rotate(trees, x, trees[x].child[side], side)

Rebalance(trees, x, side) ==
  LET z == trees[x].child[side]
      node == trees[z]
  IN IF node.height[Other(side)] > node.height[side]
     THEN RotateTwice(trees, x, z, side) ELSE Rotate(trees, x, z, side)

(* The subtree at a node of which a height was updated.                    *)
Rebalanced(trees, id) ==
  LET height == trees[id].height
  IN IF height["left"] - height["right"] \in {-1, 0, 1}
     THEN [trees |-> trees, root |-> id, height |-> Height(trees[id])]
     ELSE Rebalance(trees, id, IF height["left"] > height["right"] THEN "left" ELSE "right")

ChildSide(trees, parent, id) ==
  IF parent # NIL /\ trees[parent].child["left"] = id THEN "left" ELSE "right"

(* A subtree takes the place on a side of a parent, or that of the tree.   *)
Attached(trees, root, parent, side, child) ==
  IF parent = NIL THEN [trees |-> trees, root |-> child]
  ELSE [trees |-> [trees EXCEPT ![parent].child[side] = child], root |-> root]

(* The height on one side of a node has changed by delta, and with it that *)
(* of the node, if not NIL is left to do.                                  *)
RetraceOne(s) ==
  LET parent == s.trees[s.id].parent
      oldHeight == Height(s.trees[s.id])
      subtree == Rebalanced([s.trees EXCEPT ![s.id].height[s.side] = @ + s.delta], s.id)
      side == ChildSide(subtree.trees, parent, s.id)
      tree == Attached(subtree.trees, s.root, parent, side, subtree.root)
  IN [trees |-> tree.trees, root |-> tree.root,
      id |-> IF subtree.height = oldHeight THEN NIL ELSE parent,
      side |-> side, delta |-> subtree.height - oldHeight]

(* From the node, if any, to the root or to the first subtree whose height *)
(* stays: there are no more steps than nodes.                              *)
Retrace(trees, root, id, side, delta) ==
  LET after[n \in 0..Len(trees)] ==
        IF n = 0
        THEN [trees |-> trees, root |-> root, id |-> id, side |-> side, delta |-> delta]
        ELSE LET s == after[n - 1] IN IF s.id = NIL THEN s ELSE RetraceOne(s)
  IN after[Len(trees)]

WithTree(q, tree) == [q EXCEPT !.trees = tree.trees, !.root = tree.root]

-----------------------------------------------------------------------------
(* Insertion.                                                              *)

NextList(q) == IF q.listTop = NIL THEN Len(q.lists) + 1 ELSE q.listTop
NextTree(q) == IF q.treeTop = NIL THEN Len(q.trees) + 1 ELSE q.treeTop

(* Else E_TOO_MANY_LIST_NODES.                                             *)
CanInsert(q) == NextList(q) <= NNodesMax

(* Last in the list of an anchor tree node, or alone at the next tree node.*)
InsertListNode(q, anchor, value) ==
  LET id == NextList(q)
      node == IF anchor = NIL
              THEN [last |-> ToTree(NextTree(q)), next |-> ToTree(NextTree(q))]
              ELSE [last |-> ToList(q.trees[anchor].tail), next |-> ToTree(anchor)]
      stored == IF q.listTop = NIL
                THEN [q EXCEPT !.lists = Append(@, node), !.values = Append(@, value)]
                ELSE [q EXCEPT !.listTop = q.lists[id].next.id,
                               !.lists[id] = node, !.values[id] = value]
  IN IF anchor = NIL THEN stored
     ELSE [stored EXCEPT !.lists[node.last.id].next = ToList(id),
                         !.trees[anchor].tail = id]

InsertTreeNode(q, key, match, list) ==
  LET id == NextTree(q)
      node == [Inactive(NIL) EXCEPT !.key = key, !.parent = match.node,
                                    !.head = list, !.tail = list]
      stored == IF q.treeTop = NIL THEN [q EXCEPT !.trees = Append(@, node)]
                ELSE [q EXCEPT !.treeTop = q.trees[id].next, !.trees[id] = node]
  IN IF match.leaf = "none" THEN [stored EXCEPT !.root = id]
     ELSE [stored EXCEPT !.trees[match.node].child[match.leaf] = id]

InsertCheckHeadTail(q, key, list) ==
  LET end == [node |-> list, key |-> key]
  IN [q EXCEPT !.head = IF Empty(q) \/ Better(q, key, @.key) THEN end ELSE @,
               !.tail = IF Empty(q) \/ ~Better(q, key, @.key) THEN end ELSE @]

(* An access key names the list node and the tree node.                    *)
Access(key, list, tree) == [key |-> key, list |-> list, tree |-> tree]

(* In the list of the node with the key, or at a new leaf.                 *)
InsertMatched(q, key, match) ==
  LET list == NextList(q)
  IN IF match.node # NIL /\ match.leaf = "none"
     THEN [queue |-> InsertCheckHeadTail(InsertListNode(q, match.node, key), key, list),
           access |-> Access(key, list, match.node)]
     ELSE LET planted == InsertTreeNode(InsertListNode(q, NIL, key), key, match, list)
              tree == Retrace(planted.trees, planted.root, match.node, match.leaf, 1)
          IN [queue |-> InsertCheckHeadTail(WithTree(planted, tree), key, list),
              access |-> Access(key, list, NextTree(q))]

Insert(q, key) == InsertMatched(q, key, Search(q, key))

-----------------------------------------------------------------------------
(* Removal.                                                                *)

RemoveListNode(q, id) ==
  LET node == q.lists[id]
      freed == [q EXCEPT !.lists[id] = [last |-> ToList(NIL), next |-> ToList(q.listTop)],
                         !.values[id] = NIL, !.listTop = id]
      first == IF node.last.tree
               THEN [freed EXCEPT !.trees[node.last.id].head = node.next.id]
               ELSE [freed EXCEPT !.lists[node.last.id].next = node.next]
  IN IF node.last.tree /\ node.next.tree THEN freed
     ELSE IF node.next.tree THEN [first EXCEPT !.trees[node.next.id].tail = node.last.id]
     ELSE [first EXCEPT !.lists[node.next.id].last = node.last]

(* The first or the last entry of the neighbour of a tree node, if any.    *)
EndAt(q, tree, end) ==
  IF tree = NIL THEN NoEnd ELSE [node |-> q.trees[tree][end], key |-> q.trees[tree].key]

(* The queue's ends after the list node is gone: within its list, or from  *)
(* the next tree node.                                                     *)
RemoveUpdateHead(q, node, tree) ==
  [q EXCEPT !.head = IF ~node.next.tree THEN [@ EXCEPT !.node = node.next.id]
                     ELSE EndAt(q, Traverse(q.trees, tree, Other(HeadSide(q))), "head")]

RemoveUpdateTail(q, node, tree) ==
  [q EXCEPT !.tail = IF ~node.last.tree THEN [@ EXCEPT !.node = node.last.id]
                     ELSE EndAt(q, Traverse(q.trees, tree, HeadSide(q)), "tail")]

(* MUTANT: the subtree below y is lost.                                    *)
WithChildrenDropsTreeY(trees, x) ==
  LET node == trees[x]
      l == node.child["left"]
      r == node.child["right"]
      y == Down(trees, l, "right")
      parentY == trees[y].parent
      inPlace == [trees[y] EXCEPT !.height = node.height, !.parent = node.parent,
                                  !.child["right"] = r]
  IN IF y = l
     THEN [trees |-> [SetParent(trees, r, l) EXCEPT ![l] = inPlace],
           root |-> l, from |-> l, side |-> "left"]
     ELSE [trees |-> [SetParent(SetParent(trees, r, y), l, y)
                        EXCEPT ![y] = [inPlace EXCEPT !.child["left"] = l],
                               ![parentY].child["right"] = NIL],
           root |-> y, from |-> parentY, side |-> "right"]

(* Node x has two children: its predecessor takes its place, which is its  *)
(* left child l or the rightmost node y below l.  Yields the nodes, the    *)
(* new root of the subtree and where to retrace from.                      *)
RemoveTreeNodeWithChildren(trees, x) ==
  LET node == trees[x]
      l == node.child["left"]
      r == node.child["right"]
      y == Down(trees, l, "right")
      treeY == trees[y].child["left"]
      parentY == trees[y].parent
      inPlace == [trees[y] EXCEPT !.height = node.height, !.parent = node.parent,
                                  !.child["right"] = r]
  IN IF y = l
     THEN [trees |-> [SetParent(trees, r, l) EXCEPT ![l] = inPlace],
           root |-> l, from |-> l, side |-> "left"]
     ELSE [trees |-> [SetParent(SetParent(SetParent(trees, treeY, parentY), r, y), l, y)
                        EXCEPT ![y] = [inPlace EXCEPT !.child["left"] = l],
                               ![parentY].child["right"] = treeY],
           root |-> y, from |-> parentY, side |-> "right"]

(* A leaf, or a node with one child, is replaced by that child.            *)
Cut(trees, x) ==
  LET node == trees[x]
      child == Larger(node.child["left"], node.child["right"])
  IN IF node.child["left"] # NIL /\ node.child["right"] # NIL
     THEN RemoveTreeNodeWithChildren(trees, x)
     ELSE [trees |-> SetParent(trees, child, node.parent), root |-> child,
           from |-> node.parent, side |-> ChildSide(trees, node.parent, x)]

RemoveTreeNode(q, x) ==
  LET parent == q.trees[x].parent
      cut == Cut(q.trees, x)
      rest == Attached(cut.trees, q.root, parent, ChildSide(q.trees, parent, x), cut.root)
      tree == Retrace(rest.trees, rest.root, cut.from, cut.side, -1)
  IN [q EXCEPT !.trees = [tree.trees EXCEPT ![x] = Inactive(q.treeTop)],
               !.root = tree.root, !.treeTop = x]

(* Of the ends, those that were the list node move on.                     *)
UpdateEnds(q, node, access) ==
  LET headed == IF q.head.node = access.list
                THEN RemoveUpdateHead(q, node, access.tree) ELSE q
  IN IF q.tail.node = access.list
     THEN RemoveUpdateTail(headed, node, access.tree) ELSE headed

RemoveAccess(q, access) ==
  LET node == q.lists[access.list]
      listed == UpdateEnds(RemoveListNode(q, access.list), node, access)
  IN IF node.last.tree /\ node.next.tree THEN RemoveTreeNode(listed, access.tree) ELSE listed

(* The access keys by which the queue removes its own ends.                *)
HeadAccess(q) == Access(q.head.key, q.head.node, q.lists[q.head.node].last.id)
TailAccess(q) == Access(q.tail.key, q.tail.node, q.lists[q.tail.node].next.id)

-----------------------------------------------------------------------------
(* Insertion with eviction, and pages.                                     *)

(* MUTANT: full once the last node is allocated, inactive nodes or not.    *)
FullIgnoringStack(q, critical) ==
  Height(q.trees[q.root]) > critical \/ Len(q.lists) = NNodesMax

MustEvict(q, critical) ==
  \/ Height(q.trees[q.root]) > critical
  \/ Len(q.lists) = NNodesMax /\ q.listTop = NIL

InsertCheckEviction(q, key, critical) ==
  IF Empty(q) \/ ~MustEvict(q, critical)
  THEN LET inserted == Insert(q, key)
       IN [queue |-> inserted.queue, access |-> {inserted.access}, evicted |-> {}]
  ELSE IF ~Better(q, key, q.tail.key)
  THEN [queue |-> q, access |-> {}, evicted |-> {}]
  ELSE LET inserted == Insert(RemoveAccess(q, TailAccess(q)), key)
       IN [queue |-> inserted.queue, access |-> {inserted.access}, evicted |-> {TailAccess(q)}]

(* The new entry takes a node before the tail frees its own.               *)
InsertEvictTail(q, key) ==
  LET inserted == Insert(q, key)
  IN [queue |-> RemoveAccess(inserted.queue, TailAccess(q)),
      access |-> inserted.access, evicted |-> TailAccess(q)]

NextInQueue(q, list) ==
  LET next == q.lists[list].next
      tree == Traverse(q.trees, next.id, Other(HeadSide(q)))
  IN IF ~next.tree THEN next.id ELSE IF tree = NIL THEN NIL ELSE q.trees[tree].head

(* get_open_orders_for_side_paginated: at most max entries from a list     *)
(* node on, and the node that the next page starts from.                   *)
Page(q, list, max) ==
  LET rest == Path([i \in DOMAIN q.lists |-> NextInQueue(q, i)], list)
      count == IF max < Len(rest) THEN max ELSE Len(rest)
  IN [entries |-> SubSeq(rest, 1, count),
      next |-> IF count < Len(rest) THEN rest[count + 1] ELSE NIL]

Pages(q, list, max) ==
  LET starts == Path([i \in DOMAIN q.lists |-> Page(q, i, max).next], list)
  IN FlattenSeq([k \in DOMAIN starts |-> Page(q, starts[k], max).entries])
=============================================================================
