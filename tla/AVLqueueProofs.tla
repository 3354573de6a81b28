--------------------------- MODULE AVLqueueProofs ---------------------------
(***************************************************************************)
(* The AVL queue, of any size and for any keys: its tree stays a balanced  *)
(* search tree, its nodes are in the tree and in lists or else on stacks,  *)
(* its ends are cached, its access keys lead to their entries, and it      *)
(* implements the price-time queue.                                        *)
(*                                                                         *)
(* QueueInv is the invariant: there are tree nodes T that a search tree    *)
(* links, each with an interval of keys, and list nodes A, each with a     *)
(* home in T and an age.  A sequence that a walk yields is known by the    *)
(* set and the order it lists (Ranked).                                    *)
(***************************************************************************)
EXTENDS AVLqueueSpec, AVLtreeProofs

-----------------------------------------------------------------------------
(* Stacks of nodes.                                                        *)

(* The nodes of S, the last of which is on top, are those not in use.      *)
StackIs(next, top, S, free) ==
  /\ S \in Seq(free) /\ free \subseteq DOMAIN next
  /\ top = IF S = << >> THEN NIL ELSE S[Len(S)]
  /\ \A k \in 1..Len(S) : next[S[k]] = IF k = 1 THEN NIL ELSE S[k - 1]
  /\ \A j, k \in 1..Len(S) : S[j] = S[k] => j = k
  /\ \A i \in free : \E k \in 1..Len(S) : S[k] = i

(* A node that is freed is on top.                                         *)
LEMMA StackPush ==
  ASSUME NEW next, NEW top, NEW S, NEW free, StackIs(next, top, S, free),
         NEW x, x \notin free, x # NIL, NEW next2, free \cup {x} \subseteq DOMAIN next2,
         next2[x] = top, \A i \in free : next2[i] = next[i]
  PROVE  StackIs(next2, x, Append(S, x), free \cup {x})
<1> DEFINE R == Append(S, x)
           n == Len(S)
<1>1. S \in Seq(free) /\ n \in Nat /\ DOMAIN S = 1..n
  BY DEF StackIs
<1>2. /\ R \in Seq(free \cup {x}) /\ Len(R) = n + 1 /\ R[n + 1] = x
      /\ \A k \in 1..n : R[k] = S[k]
  BY <1>1
<1>3. \A k \in 1..n : S[k] \in free /\ S[k] # x
  BY <1>1
<1>4. top = IF n = 0 THEN NIL ELSE S[n]
  BY <1>1 DEF StackIs
<1>5. /\ \A k \in 1..n : next[S[k]] = IF k = 1 THEN NIL ELSE S[k - 1]
      /\ \A j, k \in 1..n : S[j] = S[k] => j = k
      /\ \A i \in free : \E k \in 1..n : S[k] = i
  BY DEF StackIs
<1> HIDE DEF R, n
<1>6. ASSUME NEW k \in 1..Len(R)
      PROVE  next2[R[k]] = IF k = 1 THEN NIL ELSE R[k - 1]
  <2>1. CASE k = n + 1
    BY <2>1, <1>1, <1>2, <1>4
  <2>2. CASE k # n + 1
    <3>1. k \in 1..n /\ (k # 1 => k - 1 \in 1..n)
      BY <2>2, <1>1, <1>2
    <3> QED
      BY <3>1, <1>2, <1>3, <1>5
  <2> QED
    BY <2>1, <2>2
<1>7. \A j, k \in 1..Len(R) : R[j] = R[k] => j = k
  <2>1. ASSUME NEW j \in 1..Len(R), NEW k \in 1..Len(R), R[j] = R[k]
        PROVE  j = k
    <3>1. (j \in 1..n \/ j = n + 1) /\ (k \in 1..n \/ k = n + 1)
      BY <1>1, <1>2
    <3> QED
      BY <3>1, <2>1, <1>2, <1>3, <1>5
  <2> QED
    BY <2>1
<1>8. ASSUME NEW i \in free \cup {x}
      PROVE  \E k \in 1..Len(R) : R[k] = i
  <2>1. CASE i = x
    <3>1. n + 1 \in 1..Len(R)
      BY <1>1, <1>2
    <3> QED
      BY <3>1, <2>1, <1>2
  <2>2. CASE i \in free
    <3>1. PICK k \in 1..n : S[k] = i
      BY <2>2, <1>5
    <3>2. k \in 1..Len(R) /\ R[k] = i
      BY <3>1, <1>1, <1>2
    <3> QED
      BY <3>2
  <2> QED
    BY <2>1, <2>2
<1>9. x = (IF R = << >> THEN NIL ELSE R[Len(R)])
  BY <1>1, <1>2
<1>10. StackIs(next2, x, R, free \cup {x})
  BY <1>2, <1>6, <1>7, <1>8, <1>9 DEF StackIs
<1> QED
  BY <1>10 DEF R

(* The nodes of a stack that are linked as before.                         *)
SameStack(next, next2, free) ==
  free \subseteq DOMAIN next2 /\ \A i \in free : next2[i] = next[i]

(* The node on top is taken.                                               *)
Popped(S) == SubSeq(S, 1, Len(S) - 1)

(* A stack of which the top was taken is a stack.                          *)
LEMMA StackPop ==
  ASSUME NEW next, NEW top, NEW S, NEW free, StackIs(next, top, S, free), top # NIL,
         NEW next2, SameStack(next, next2, free \ {top})
  PROVE  /\ top \in free /\ S # << >> /\ S[Len(S)] = top
         /\ StackIs(next2, next[top], Popped(S), free \ {top})
<1> DEFINE R == Popped(S)
           n == Len(S)
<1>0. /\ free \ {top} \subseteq DOMAIN next2
      /\ \A i \in free \ {top} : next2[i] = next[i]
  BY DEF SameStack
<1>1. S \in Seq(free) /\ n \in Nat /\ DOMAIN S = 1..n /\ S # << >> /\ top = S[n]
  BY DEF StackIs
<1>2. n >= 1 /\ n \in 1..n /\ top \in free
  BY <1>1
<1>3. /\ R \in Seq(free) /\ Len(R) = n - 1 /\ \A k \in 1..n - 1 : R[k] = S[k]
  BY <1>1, <1>2 DEF Popped
<1>4. /\ \A k \in 1..n : next[S[k]] = IF k = 1 THEN NIL ELSE S[k - 1]
      /\ \A j, k \in 1..n : S[j] = S[k] => j = k
      /\ \A i \in free : \E k \in 1..n : S[k] = i
  BY DEF StackIs
<1> HIDE DEF R, n
<1>5. \A k \in 1..n - 1 : k \in 1..n /\ R[k] = S[k] /\ S[k] # top /\ S[k] \in free
  <2>1. ASSUME NEW k \in 1..n - 1
        PROVE  k \in 1..n /\ R[k] = S[k] /\ S[k] # top /\ S[k] \in free
    <3>1. k \in 1..n /\ k # n
      BY <1>1
    <3> QED
      BY <3>1, <1>1, <1>2, <1>3, <1>4
  <2> QED
    BY <2>1
<1>6. R \in Seq(free \ {top})
  <2>1. \A k \in 1..Len(R) : R[k] \in free \ {top}
    BY <1>3, <1>5
  <2> QED
    BY <2>1, <1>3
<1>7. ASSUME NEW k \in 1..Len(R)
      PROVE  next2[R[k]] = IF k = 1 THEN NIL ELSE R[k - 1]
  <2>1. k \in 1..n - 1 /\ (k # 1 => k - 1 \in 1..n - 1)
    BY <1>1, <1>3
  <2>2. next2[R[k]] = next[S[k]]
    BY <2>1, <1>0, <1>5
  <2> QED
    BY <2>1, <2>2, <1>4, <1>5
<1>8. \A j, k \in 1..Len(R) : R[j] = R[k] => j = k
  BY <1>3, <1>4, <1>5
<1>9. ASSUME NEW i \in free \ {top}
      PROVE  \E k \in 1..Len(R) : R[k] = i
  <2>1. PICK k \in 1..n : S[k] = i
    BY <1>4
  <2>2. k # n
    BY <2>1, <1>1
  <2>3. k \in 1..Len(R) /\ R[k] = i
    BY <2>1, <2>2, <1>1, <1>3
  <2> QED
    BY <2>3
<1>10. next[top] = (IF R = << >> THEN NIL ELSE R[Len(R)])
  <2>1. next[top] = IF n = 1 THEN NIL ELSE S[n - 1]
    BY <1>1, <1>2, <1>4
  <2>2. CASE n = 1
    <3>1. R = << >>
      BY <2>2, <1>3
    <3> QED
      BY <3>1, <2>1, <2>2
  <2>3. CASE n # 1
    <3>1. n - 1 \in 1..n - 1 /\ R # << >>
      BY <2>3, <1>1, <1>2, <1>3
    <3> QED
      BY <3>1, <2>1, <2>3, <1>3
  <2> QED
    BY <2>2, <2>3
<1>11. StackIs(next2, next[top], R, free \ {top})
  BY <1>0, <1>6, <1>7, <1>8, <1>9, <1>10 DEF StackIs
<1> QED
  BY <1>1, <1>2, <1>11 DEF R, n

(* A stack without a top is empty.                                         *)
LEMMA StackEmpty ==
  ASSUME NEW next, NEW top, NEW S, NEW free, StackIs(next, top, S, free),
         NIL \notin DOMAIN next
  PROVE  /\ top = NIL <=> S = << >>
         /\ top = NIL => free = {}
         /\ top # NIL => top \in free
<1>1. S \in Seq(free) /\ free \subseteq DOMAIN next
  BY DEF StackIs
<1>2. CASE S = << >>
  <2>1. Len(S) = 0
    BY <1>2
  <2> QED
    BY <1>2, <2>1 DEF StackIs
<1>3. CASE S # << >>
  <2>1. Len(S) \in 1..Len(S)
    BY <1>1, <1>3
  <2>2. top = S[Len(S)] /\ top \in free
    BY <1>1, <1>3, <2>1 DEF StackIs
  <2> QED
    BY <1>1, <1>3, <2>2
<1> QED
  BY <1>2, <1>3

(* Only the nodes in the stack matter.                                     *)
LEMMA StackKept ==
  ASSUME NEW next, NEW top, NEW S, NEW free, StackIs(next, top, S, free),
         NEW next2, free \subseteq DOMAIN next2, \A i \in free : next2[i] = next[i]
  PROVE  StackIs(next2, top, S, free)
<1>1. \A k \in 1..Len(S) : S[k] \in free
  BY DEF StackIs
<1> QED
  BY <1>1 DEF StackIs

-----------------------------------------------------------------------------
(* Queues.                                                                 *)

Link == [tree : BOOLEAN, id : Nat]
ListNode == [last : Link, next : Link]
End == [node : Nat, key : Nat]
QueueType ==
  [ascending : BOOLEAN, root : Nat, head : End, tail : End, treeTop : Nat, listTop : Nat,
   trees : Seq(TreeNode), lists : Seq(ListNode), values : Seq(Nat)]

FreeNext(t) == [i \in DOMAIN t |-> t[i].next]

(* The nodes T are the balanced search tree; the others are in the stack.  *)
TreeOf(q, T) ==
  /\ AVLTree(q.trees, q.root, T)
  /\ Idle(q.trees, T)
  /\ \A i \in T : q.trees[i].next = NIL
  /\ \E S : StackIs(FreeNext(q.trees), q.treeTop, S, DOMAIN q.trees \ T)

(* Queues that differ in their trees only.                                 *)
ListsKept(q, q2) ==
  /\ q2.ascending = q.ascending /\ q2.head = q.head /\ q2.tail = q.tail
  /\ q2.listTop = q.listTop /\ q2.lists = q.lists /\ q2.values = q.values

(* The fields of a queue.                                                  *)
LEMMA QueueFields ==
  ASSUME NEW q \in QueueType
  PROVE  /\ q.ascending \in BOOLEAN /\ q.root \in Nat /\ q.head \in End /\ q.tail \in End
         /\ q.treeTop \in Nat /\ q.listTop \in Nat /\ q.trees \in Seq(TreeNode)
         /\ q.lists \in Seq(ListNode) /\ q.values \in Seq(Nat)
         /\ DOMAIN q.trees = 1..Len(q.trees) /\ Len(q.trees) \in Nat
         /\ NIL \notin DOMAIN q.trees
BY DEF QueueType, NIL

(* The next tree node is not in the tree.                                  *)
LEMMA NextTreeIs ==
  ASSUME NEW q \in QueueType, NEW T, TreeOf(q, T)
  PROVE  /\ NextTree(q) \in Nat /\ NextTree(q) # NIL /\ NextTree(q) \notin T
         /\ T \subseteq DOMAIN q.trees
         /\ q.treeTop = NIL => /\ DOMAIN q.trees = T /\ NextTree(q) = Len(q.trees) + 1
         /\ q.treeTop # NIL => NextTree(q) \in DOMAIN q.trees /\ NextTree(q) = q.treeTop
<1> DEFINE t == q.trees
           free == DOMAIN t \ T
           next == FreeNext(t)
           top == q.treeTop
<1>1. PICK S : StackIs(next, top, S, free)
  BY DEF TreeOf
<1>2. T \subseteq DOMAIN t
  BY DEF TreeOf, AVLTree, Searchable, Tree
<1>3. DOMAIN t = 1..Len(t) /\ Len(t) \in Nat /\ NIL \notin DOMAIN t /\ top \in Nat
  BY QueueFields
<1>4. DOMAIN next = DOMAIN t
  BY DEF FreeNext
<1> HIDE DEF next, free
<1>5. (top = NIL => free = {}) /\ (top # NIL => top \in free)
  BY <1>1, <1>3, <1>4, StackEmpty
<1> USE DEF free
<1>6. NextTree(q) = IF top = NIL THEN Len(t) + 1 ELSE top
  BY DEF NextTree
<1> HIDE DEF t, top
<1>7. CASE top = NIL
  <2>1. DOMAIN t = T
    BY <1>2, <1>5, <1>7
  <2>2. Len(t) + 1 \in Nat /\ Len(t) + 1 # 0 /\ Len(t) + 1 \notin 1..Len(t)
    BY <1>3
  <2> QED
    BY <1>2, <1>3, <1>6, <1>7, <2>1, <2>2 DEF NIL, t, top
<1>8. CASE top # NIL
  <2>1. top \in DOMAIN t /\ top \notin T
    BY <1>5, <1>8
  <2> QED
    BY <1>2, <1>3, <1>6, <1>8, <2>1 DEF t, top
<1> QED
  BY <1>7, <1>8

(* A leaf.                                                                 *)
NewNode(key, parent, list) ==
  [Inactive(NIL) EXCEPT !.key = key, !.parent = parent, !.head = list, !.tail = list]

(* Its fields.                                                             *)
LEMMA NewNodeIs ==
  ASSUME NEW key \in Nat, NEW parent \in Nat, NEW list \in Nat
  PROVE  LET n == NewNode(key, parent, list)
         IN /\ n \in TreeNode /\ n.key = key /\ n.parent = parent
            /\ n.head = list /\ n.tail = list /\ n.next = NIL
            /\ \A s \in Sides : n.child[s] = NIL /\ n.height[s] = 0
<1> DEFINE n0 == Inactive(NIL)
<1>1. NoChild \in [Sides -> Nat] /\ \A s \in Sides : NoChild[s] = NIL
  BY DEF NoChild, Sides, NIL
<1>2. NIL \in Nat /\ NIL = 0
  BY DEF NIL
<1>3. /\ n0 \in TreeNode /\ n0.next = NIL /\ n0.child = NoChild /\ n0.height = NoChild
  BY <1>1, <1>2 DEF TreeNode, Inactive
<1>4. NewNode(key, parent, list) =
        [n0 EXCEPT !.key = key, !.parent = parent, !.head = list, !.tail = list]
  BY DEF NewNode
<1> HIDE DEF n0
<1> DEFINE n == NewNode(key, parent, list)
<1>5. /\ n \in TreeNode /\ n.key = key /\ n.parent = parent
      /\ n.head = list /\ n.tail = list /\ n.next = NIL
      /\ n.child = NoChild /\ n.height = NoChild
  BY <1>3, <1>4 DEF TreeNode
<1> HIDE DEF n
<1>6. \A s \in Sides : n.child[s] = NIL /\ n.height[s] = 0
  BY <1>1, <1>2, <1>5
<1> QED
  BY <1>5, <1>6 DEF n

(* The nodes after a leaf was stored.                                      *)
Stored(t, u, id, node) ==
  /\ u \in Seq(TreeNode) /\ DOMAIN u = DOMAIN t \cup {id} /\ u[id] = node
  /\ \A i \in DOMAIN t : i # id => u[i] = t[i]

(* It is in the place of an inactive one, or at the end.                   *)
LEMMA StoredIs ==
  ASSUME NEW t \in Seq(TreeNode), NEW node \in TreeNode
  PROVE  /\ Stored(t, Append(t, node), Len(t) + 1, node)
         /\ \A id \in DOMAIN t : Stored(t, [t EXCEPT ![id] = node], id, node)
<1>1. Stored(t, Append(t, node), Len(t) + 1, node)
  BY DEF Stored
<1>2. \A id \in DOMAIN t : Stored(t, [t EXCEPT ![id] = node], id, node)
  BY NodeSet DEF Stored
<1> QED
  BY <1>1, <1>2

(* A new leaf is in the tree's nodes, and hangs where the search ended.    *)
Planted(q, p, T, key, match, list) ==
  LET id == NextTree(q)
  IN /\ p \in QueueType /\ ListsKept(q, p)
     /\ p.treeTop = IF q.treeTop = NIL THEN NIL ELSE q.trees[id].next
     /\ DOMAIN p.trees = DOMAIN q.trees \cup {id}
     /\ SameKept(p.trees[id], NewNode(key, match.node, list))
     /\ \A i \in DOMAIN q.trees : i # id => SameKept(p.trees[i], q.trees[i])
     /\ \A i \in DOMAIN q.trees \ T : i # id => p.trees[i] = q.trees[i]
     /\ Leafed(q.trees, q.root, T, p.trees, p.root, id, key, match.node, match.leaf)

(* What insert_tree_node sets.                                             *)
LEMMA PlantedIs ==
  ASSUME NEW q \in QueueType, NEW T, TreeOf(q, T), NEW key \in Nat, NEW list \in Nat,
         NEW match, match.node = NIL => T = {} /\ match.leaf = "none",
         match.node # NIL => match.node \in T /\ match.leaf \in Sides
  PROVE  Planted(q, InsertTreeNode(q, key, match, list), T, key, match, list)
<1> DEFINE t == q.trees
           id == NextTree(q)
           m == match.node
           leaf == match.leaf
           node == NewNode(key, m, list)
           u0 == IF q.treeTop = NIL THEN Append(t, node) ELSE [t EXCEPT ![id] = node]
           stored == IF q.treeTop = NIL THEN [q EXCEPT !.trees = Append(@, node)]
                     ELSE [q EXCEPT !.treeTop = q.trees[id].next, !.trees[id] = node]
           top == IF q.treeTop = NIL THEN NIL ELSE q.trees[id].next
           p == InsertTreeNode(q, key, match, list)
<1>1. /\ id \in Nat /\ id # NIL /\ id \notin T /\ T \subseteq DOMAIN t
      /\ q.treeTop = NIL => id = Len(t) + 1
      /\ q.treeTop # NIL => id \in DOMAIN t
  BY NextTreeIs
<1>2. t \in Seq(TreeNode) /\ NIL \notin DOMAIN t /\ \A i \in DOMAIN t : i \in Nat /\ t[i] \in TreeNode
  BY QueueFields
<1>3. m \in Nat
  <2>1. m = NIL \/ m \in DOMAIN t
    BY <1>1
  <2> QED
    BY <2>1, <1>2 DEF NIL
<1>4. /\ node \in TreeNode /\ node.key = key /\ node.parent = m
      /\ node.head = list /\ node.tail = list /\ node.next = NIL
      /\ \A s \in Sides : node.child[s] = NIL /\ node.height[s] = 0
  BY <1>3, NewNodeIs
<1>5. p = IF leaf = "none" THEN [stored EXCEPT !.root = id]
          ELSE [stored EXCEPT !.trees[m].child[leaf] = id]
  BY DEF InsertTreeNode, NewNode
<1>6. Stored(t, u0, id, node)
  <2> HIDE DEF node
  <2>1. CASE q.treeTop = NIL
    BY <2>1, <1>1, <1>2, <1>4, StoredIs
  <2>2. CASE q.treeTop # NIL
    BY <2>2, <1>1, <1>2, <1>4, StoredIs
  <2> QED
    BY <2>1, <2>2
<1>7. top \in Nat
  <2>1. CASE q.treeTop = NIL
    BY <2>1 DEF NIL
  <2>2. CASE q.treeTop # NIL
    BY <2>2, <1>1, <1>2 DEF TreeNode
  <2> QED
    BY <2>1, <2>2
<1>8. stored = [q EXCEPT !.trees = u0, !.treeTop = top]
  <2> HIDE DEF node, id
  <2>1. CASE q.treeTop = NIL
    BY <2>1 DEF QueueType
  <2>2. CASE q.treeTop # NIL
    BY <2>2 DEF QueueType
  <2> QED
    BY <2>1, <2>2
<1>9. u0 \in Seq(TreeNode) /\ DOMAIN u0 = DOMAIN t \cup {id} /\ u0[id] = node
      /\ \A i \in DOMAIN t : i # id => u0[i] = t[i]
  BY <1>6 DEF Stored
<1>10. /\ stored \in QueueType /\ stored.trees = u0 /\ stored.treeTop = top
       /\ stored.root = q.root /\ ListsKept(q, stored)
  <2> HIDE DEF u0, top, stored
  <2> QED
    BY <1>7, <1>8, <1>9 DEF QueueType, ListsKept
<1> HIDE DEF p, stored, u0, node, top, t, id, m, leaf
<1>11. CASE leaf = "none"
  <2>1. m = NIL /\ T = {}
    BY <1>11 DEF Sides, m, leaf
  <2>2. p = [stored EXCEPT !.root = id]
    BY <1>5, <1>11
  <2>3. p \in QueueType /\ p.trees = u0 /\ p.treeTop = top /\ p.root = id /\ ListsKept(q, p)
    BY <2>2, <1>1, <1>10 DEF QueueType, ListsKept
  <2>4. Leafed(t, q.root, T, u0, id, id, key, m, leaf)
    BY <2>1, <1>4, <1>9 DEF Leafed
  <2>5. SameKept(u0[id], node) /\ \A i \in DOMAIN t : i # id => SameKept(u0[i], t[i])
    BY <1>9 DEF SameKept
  <2> QED
    BY <2>3, <2>4, <2>5, <1>9 DEF Planted, p, t, id, m, leaf, node, top
<1>12. CASE leaf # "none"
  <2>1. m # NIL /\ m \in T /\ leaf \in Sides
    BY <1>12 DEF m, leaf
  <2>2. m \in DOMAIN t /\ m \in DOMAIN u0 /\ m # id /\ u0[m] = t[m]
    BY <2>1, <1>1, <1>9
  <2> DEFINE n == [u0[m] EXCEPT !.child[leaf] = id]
             u == [u0 EXCEPT ![m] = n]
  <2>3. p = [stored EXCEPT !.trees = u]
    <3>1. p = [stored EXCEPT !.trees[m].child[leaf] = id]
      BY <1>5, <1>12
    <3>2. "trees" \in DOMAIN stored
      BY <1>10 DEF QueueType
    <3> QED
      BY <3>1, <3>2, <1>10
  <2>4. NodeIs(n, t[m], t[m].parent, With(t[m].child, leaf, id), t[m].height)
    BY <2>1, <2>2, <1>1, <1>2, NodeChild
  <2>5. n \in TreeNode
    BY <2>4 DEF NodeIs
  <2> HIDE DEF n
  <2>6. /\ u \in Seq(TreeNode) /\ DOMAIN u = DOMAIN u0 /\ u[m] = n
        /\ \A i \in DOMAIN u0 : i # m => u[i] = u0[i]
    BY <2>2, <2>5, <1>9, NodeSet
  <2> HIDE DEF u
  <2>7. p \in QueueType /\ p.trees = u /\ p.treeTop = top /\ p.root = q.root /\ ListsKept(q, p)
    BY <2>3, <2>6, <1>10 DEF QueueType, ListsKept
  <2>8. /\ u[id] = node /\ \A i \in DOMAIN t : i # id /\ i # m => u[i] = t[i]
    BY <2>2, <2>6, <1>9
  <2>9. SameKept(n, t[m]) /\ n.key = t[m].key /\ n.parent = t[m].parent
        /\ \A s \in Sides : n.height[s] = t[m].height[s]
    BY <2>4 DEF NodeIs, SameKept
  <2>10. ChildWith(n, t[m], leaf, id)
    BY <2>1, <2>2, <2>4, <1>2, ChildIs
  <2>11. \A i \in T : i # m => Alike(t, u, i)
    <3>1. \A i \in T : i # m => u[i] = t[i] /\ t[i] \in TreeNode
      BY <2>8, <1>1, <1>2
    <3> QED
      BY <3>1 DEF Alike
  <2>12. Leafed(t, q.root, T, u, q.root, id, key, m, leaf)
    <3>1. T \subseteq DOMAIN u /\ id \in DOMAIN u
      BY <1>1, <1>9, <2>6
    <3> QED
      BY <3>1, <2>1, <2>6, <2>8, <2>9, <2>10, <2>11, <1>4 DEF Leafed
  <2>13. SameKept(u[id], node) /\ \A i \in DOMAIN t : i # id => SameKept(u[i], t[i])
    <3>1. ASSUME NEW i \in DOMAIN t, i # id
          PROVE  SameKept(u[i], t[i])
      <4>1. CASE i = m
        BY <4>1, <2>6, <2>9
      <4>2. CASE i # m
        BY <4>2, <3>1, <2>8 DEF SameKept
      <4> QED
        BY <4>1, <4>2
    <3> QED
      BY <3>1, <2>8 DEF SameKept
  <2>14. DOMAIN u = DOMAIN t \cup {id} /\ \A i \in DOMAIN t \ T : i # id => u[i] = t[i]
    BY <2>1, <2>6, <2>8, <1>9
  <2> QED
    BY <2>7, <2>12, <2>13, <2>14 DEF Planted, p, t, id, m, leaf, node, top
<1> QED
  BY <1>11, <1>12 DEF p

(* The tree with one node more, at which the list is of one list node.     *)
TreeAdded(q, q2, T, id, key, list) ==
  /\ q2 \in QueueType /\ ListsKept(q, q2) /\ TreeOf(q2, T \cup {id})
  /\ id \in Nat /\ id # NIL /\ id \notin T
  /\ DOMAIN q2.trees = DOMAIN q.trees \cup {id}
  /\ q2.trees[id].key = key /\ q2.trees[id].head = list /\ q2.trees[id].tail = list
  /\ \A i \in DOMAIN q.trees : i # id => SameKept(q2.trees[i], q.trees[i])

Plant(q, key, match, list) ==
  LET planted == InsertTreeNode(q, key, match, list)
      tree == Retrace(planted.trees, planted.root, match.node, match.leaf, 1)
  IN WithTree(planted, tree)

(* Inserting a tree node keeps the tree.                                   *)
LEMMA PlantHolds ==
  ASSUME NEW q \in QueueType, NEW T, TreeOf(q, T), NEW key \in 1..HiInsertionKey,
         NEW list \in Nat, NEW match, match = Search(q, key),
         match.node # NIL => match.leaf # "none"
  PROVE  TreeAdded(q, Plant(q, key, match, list), T, NextTree(q), key, list)
<1> DEFINE t == q.trees
           id == NextTree(q)
           m == match.node
           leaf == match.leaf
           node == NewNode(key, m, list)
           p == InsertTreeNode(q, key, match, list)
           r == Retrace(p.trees, p.root, m, leaf, 1)
           T2 == T \cup {id}
           q2 == Plant(q, key, match, list)
<1>1. PICK lo, hi : Searchable(t, q.root, T, lo, hi)
  BY DEF TreeOf, AVLTree
<1>2. Tree(t, q.root, T, lo, hi) /\ Idle(t, T)
  BY <1>1 DEF Searchable, TreeOf
<1>3. Found(t, T, lo, hi, key, match)
  BY <1>2, SearchFinds
<1>4. /\ m = NIL => T = {} /\ leaf = "none"
      /\ m # NIL => m \in T /\ leaf \in Sides
  BY <1>3 DEF Found
<1>5. key \in Nat
  BY QueueAssumption
<1>6. Planted(q, p, T, key, match, list)
  BY <1>4, <1>5, PlantedIs
<1>7. /\ id \in Nat /\ id # NIL /\ id \notin T /\ T \subseteq DOMAIN t
      /\ q.treeTop = NIL => DOMAIN t = T
      /\ q.treeTop # NIL => id = q.treeTop
  BY NextTreeIs
<1>8. Leafed(t, q.root, T, p.trees, p.root, id, key, m, leaf)
  BY <1>6 DEF Planted
<1>9. Retracing(RetraceStart(p.trees, p.root, m, leaf, 1), T2,
                LeafLo(t, lo, id, m, leaf), LeafHi(t, hi, id, m, leaf))
  BY <1>1, <1>2, <1>3, <1>7, <1>8, LeafRetracing
<1>10. Framed(p.trees, r.trees, T2) /\ AVLTree(r.trees, r.root, T2)
  BY <1>9, RetraceHolds
<1>11. q2 = [p EXCEPT !.trees = r.trees, !.root = r.root]
  BY DEF Plant, WithTree
<1>12. /\ p \in QueueType /\ ListsKept(q, p) /\ DOMAIN p.trees = DOMAIN t \cup {id}
       /\ p.treeTop = IF q.treeTop = NIL THEN NIL ELSE t[id].next
       /\ SameKept(p.trees[id], node)
       /\ \A i \in DOMAIN t : i # id => SameKept(p.trees[i], t[i])
       /\ \A i \in DOMAIN t \ T : i # id => p.trees[i] = t[i]
  BY <1>6 DEF Planted
<1>13. node.key = key /\ node.head = list /\ node.tail = list /\ node.next = NIL
  <2>1. m \in Nat
    <3>1. m = NIL \/ m \in DOMAIN t
      BY <1>4, <1>7
    <3>2. \A i \in DOMAIN t : i \in Nat
      BY QueueFields
    <3> QED
      BY <3>1, <3>2 DEF NIL
  <2> QED
    BY <2>1, <1>5, NewNodeIs
<1> HIDE DEF p, r, q2, node
<1>14. /\ r.trees \in Seq(TreeNode) /\ DOMAIN r.trees = DOMAIN t \cup {id}
       /\ \A i \in DOMAIN p.trees : SameKept(r.trees[i], p.trees[i])
       /\ \A i \in DOMAIN p.trees \ T2 : r.trees[i] = p.trees[i]
  BY <1>10, <1>12 DEF Framed
<1>15. r.root \in Nat
  <2>1. r.root = NIL \/ r.root \in DOMAIN r.trees
    BY <1>10, <1>14 DEF AVLTree, Searchable, Tree
  <2>2. \A i \in DOMAIN r.trees : i \in Nat
    BY <1>14
  <2> QED
    BY <2>1, <2>2 DEF NIL
<1>16. /\ q2 \in QueueType /\ ListsKept(p, q2) /\ q2.trees = r.trees /\ q2.root = r.root
       /\ q2.treeTop = p.treeTop
  BY <1>11, <1>12, <1>14, <1>15 DEF QueueType, ListsKept
<1> HIDE DEF t, id, m, leaf, T2
<1>17. /\ \A i \in DOMAIN t : i # id => SameKept(r.trees[i], t[i])
       /\ SameKept(r.trees[id], node)
       /\ \A i \in DOMAIN t \ T2 : r.trees[i] = t[i]
  <2>1. \A i \in DOMAIN t \ T2 : i \in DOMAIN p.trees \ T2 /\ i \in DOMAIN t \ T /\ i # id
    BY <1>12 DEF T2
  <2>2. \A i \in DOMAIN t \ T2 : r.trees[i] = t[i]
    BY <2>1, <1>12, <1>14
  <2>3. \A i \in DOMAIN t : i # id => SameKept(r.trees[i], t[i])
    BY <1>12, <1>14 DEF SameKept
  <2>4. SameKept(r.trees[id], node)
    <3>1. id \in DOMAIN p.trees
      BY <1>12
    <3> QED
      BY <3>1, <1>12, <1>14 DEF SameKept
  <2> QED
    BY <2>2, <2>3, <2>4
<1>18. DOMAIN r.trees \ T2 = (DOMAIN t \ T) \ {id}
  BY <1>14 DEF T2
<1>19. Idle(r.trees, T2)
  <2>1. \A i \in DOMAIN r.trees \ T2 : i \in DOMAIN t \ T /\ i \in DOMAIN t \ T2
    BY <1>14 DEF T2
  <2> QED
    BY <2>1, <1>2, <1>17 DEF Idle
<1>20. \A i \in T2 : r.trees[i].next = NIL
  <2>1. \A i \in T : t[i].next = NIL /\ i \in DOMAIN t /\ i # id
    BY <1>7 DEF TreeOf, t
  <2> QED
    BY <2>1, <1>13, <1>17 DEF T2, SameKept
<1>21. \E S : StackIs(FreeNext(r.trees), p.treeTop, S, DOMAIN r.trees \ T2)
  <2>1. PICK S : StackIs(FreeNext(t), q.treeTop, S, DOMAIN t \ T)
    BY DEF TreeOf, t
  <2> DEFINE next == FreeNext(t)
             next2 == FreeNext(r.trees)
             free == DOMAIN t \ T
             free2 == DOMAIN r.trees \ T2
  <2>2. free2 \subseteq DOMAIN next2 /\ \A i \in free2 : next2[i] = next[i]
    <3>1. DOMAIN next2 = DOMAIN r.trees /\ \A i \in DOMAIN r.trees : next2[i] = r.trees[i].next
      BY DEF FreeNext
    <3>2. DOMAIN next = DOMAIN t /\ \A i \in DOMAIN t : next[i] = t[i].next
      BY DEF FreeNext
    <3>3. \A i \in free2 : i \in DOMAIN t \ T2 /\ i \in DOMAIN r.trees
      BY <1>18 DEF T2
    <3> HIDE DEF next, next2
    <3> QED
      BY <3>1, <3>2, <3>3, <1>17
  <2>3. free2 = free \ {id}
    BY <1>18
  <2>4. CASE q.treeTop = NIL
    <3>1. free = {} /\ p.treeTop = q.treeTop
      BY <2>4, <1>7, <1>12 DEF t
    <3>2. free2 = free
      BY <3>1, <2>3
    <3> HIDE DEF next, next2, free, free2
    <3>3. StackIs(next2, q.treeTop, S, free)
      BY <2>1, <2>2, <3>2, StackKept DEF next, free
    <3> QED
      BY <3>1, <3>2, <3>3 DEF next2, free2
  <2>5. CASE q.treeTop # NIL
    <3>1. id = q.treeTop
      BY <2>5, <1>7 DEF t
    <3> HIDE DEF next, next2, free, free2
    <3>2. StackIs(next, id, S, free)
      BY <2>1, <3>1 DEF next, free
    <3>a. SameStack(next, next2, free \ {id}) /\ id # NIL
      BY <2>2, <2>3, <1>7 DEF id, SameStack
    <3>3. id \in free /\ StackIs(next2, next[id], Popped(S), free \ {id})
      BY ONLY <3>2, <3>a, StackPop
    <3>4. next[id] = t[id].next
      BY <3>3 DEF free, next, FreeNext
    <3>5. p.treeTop = next[id]
      BY <3>4, <2>5, <1>12
    <3> QED
      BY <3>3, <3>5, <2>3 DEF next2, free2
  <2> QED
    BY <2>4, <2>5
<1>22. TreeOf(q2, T2)
  BY <1>10, <1>16, <1>19, <1>20, <1>21 DEF TreeOf
<1>23. ListsKept(q, q2)
  BY <1>12, <1>16 DEF ListsKept
<1> QED
  BY <1>7, <1>13, <1>14, <1>16, <1>17, <1>22, <1>23 DEF TreeAdded, T2, SameKept, q2, id, t

(* The tree with one node less, which is on top of the stack.              *)
TreeDropped(q, q2, T, x) ==
  /\ q2 \in QueueType /\ ListsKept(q, q2) /\ TreeOf(q2, T \ {x})
  /\ DOMAIN q2.trees = DOMAIN q.trees /\ q2.treeTop = x
  /\ \A i \in DOMAIN q.trees : i # x => SameKept(q2.trees[i], q.trees[i])

(* An inactive node.                                                       *)
LEMMA InactiveIs ==
  ASSUME NEW next \in Nat
  PROVE  LET n == Inactive(next)
         IN /\ n \in TreeNode /\ n.parent = NIL /\ n.next = next
            /\ \A s \in Sides : n.child[s] = NIL
<1>1. NoChild \in [Sides -> Nat] /\ \A s \in Sides : NoChild[s] = NIL
  BY DEF NoChild, Sides, NIL
<1>2. NIL \in Nat
  BY DEF NIL
<1> QED
  BY <1>1, <1>2 DEF TreeNode, Inactive

(* Removing a tree node keeps the tree.                                    *)
LEMMA DropHolds ==
  ASSUME NEW q \in QueueType, NEW T, TreeOf(q, T), NEW x \in T
  PROVE  TreeDropped(q, RemoveTreeNode(q, x), T, x)
<1> DEFINE t == q.trees
           p == t[x].parent
           cut == Cut(t, x)
           rest == Attached(cut.trees, q.root, p, ChildSide(t, p, x), cut.root)
           r == Retrace(rest.trees, rest.root, cut.from, cut.side, -1)
           T2 == T \ {x}
           off == Inactive(q.treeTop)
           u == [r.trees EXCEPT ![x] = off]
           q2 == RemoveTreeNode(q, x)
<1>1. PICK lo, hi : Searchable(t, q.root, T, lo, hi)
  BY DEF TreeOf, AVLTree
<1>2. Idle(t, T) /\ T \subseteq DOMAIN t /\ t \in Seq(TreeNode)
  BY <1>1 DEF Searchable, Tree, TreeOf
<1>3. /\ Framed(t, rest.trees, T)
      /\ \E lo2, hi2 : Retracing(RetraceStart(rest.trees, rest.root, cut.from, cut.side, -1),
                                 T2, lo2, hi2)
  BY <1>1, <1>2, CutRetracing
<1>4. Framed(rest.trees, r.trees, T2) /\ AVLTree(r.trees, r.root, T2)
  BY <1>3, RetraceHolds
<1>5. q2 = [q EXCEPT !.trees = u, !.root = r.root, !.treeTop = x]
  BY DEF RemoveTreeNode
<1>6. off \in TreeNode /\ off.parent = NIL /\ off.next = q.treeTop
      /\ \A s \in Sides : off.child[s] = NIL
  BY QueueFields, InactiveIs
<1> HIDE DEF t, p, cut, rest, r, off, q2
<1>7. /\ r.trees \in Seq(TreeNode) /\ DOMAIN r.trees = DOMAIN t
      /\ \A i \in DOMAIN t : SameKept(r.trees[i], t[i])
      /\ \A i \in DOMAIN t \ T : r.trees[i] = t[i]
  BY <1>3, <1>4 DEF Framed, SameKept
<1>8. /\ u \in Seq(TreeNode) /\ DOMAIN u = DOMAIN t /\ u[x] = off
      /\ \A i \in DOMAIN t : i # x => u[i] = r.trees[i]
  BY <1>2, <1>6, <1>7, NodeSet
<1> HIDE DEF u
<1>9. x \in DOMAIN t /\ x # NIL /\ x \in Nat
  BY <1>2 DEF NIL
<1>10. AVLTree(u, r.root, T2)
  <2>1. PICK lo2, hi2 : Searchable(r.trees, r.root, T2, lo2, hi2)
    BY <1>4 DEF AVLTree
  <2>2. \A i \in T2 : u[i] = r.trees[i] /\ r.trees[i] \in TreeNode
    BY <1>2, <1>7, <1>8
  <2>3. \A i \in T2 : Alike(r.trees, u, i)
    BY <2>2 DEF Alike
  <2>4. T2 \subseteq DOMAIN u
    BY <1>2, <1>8
  <2> HIDE DEF T2
  <2>5. Searchable(u, r.root, T2, lo2, hi2)
    BY <2>1, <2>3, <2>4, <1>8, SearchableAlike
  <2> QED
    BY <2>5 DEF AVLTree
<1>11. r.root \in Nat
  <2>1. r.root = NIL \/ r.root \in DOMAIN u
    BY <1>10 DEF AVLTree, Searchable, Tree
  <2>2. \A i \in DOMAIN u : i \in Nat
    BY <1>8
  <2> QED
    BY <2>1, <2>2 DEF NIL
<1>12. /\ q2 \in QueueType /\ ListsKept(q, q2) /\ q2.trees = u /\ q2.root = r.root
       /\ q2.treeTop = x
  BY <1>5, <1>8, <1>9, <1>11 DEF QueueType, ListsKept
<1>13. \A i \in DOMAIN t : i # x => SameKept(u[i], t[i])
  BY <1>7, <1>8
<1>14. Idle(u, T2)
  <2>1. \A i \in DOMAIN t \ T2 : i # x => i \in DOMAIN t \ T /\ u[i] = t[i]
    BY <1>7, <1>8
  <2>2. ASSUME NEW i \in DOMAIN u \ T2
        PROVE  u[i].parent = NIL /\ \A side \in Sides : u[i].child[side] = NIL
    <3>1. CASE i = x
      BY <3>1, <1>6, <1>8
    <3>2. CASE i # x
      BY <3>2, <2>1, <1>2, <1>8 DEF Idle
    <3> QED
      BY <3>1, <3>2
  <2> QED
    BY <2>2 DEF Idle
<1>15. \A i \in T2 : u[i].next = NIL
  <2>1. \A i \in T2 : t[i].next = NIL /\ i \in DOMAIN t /\ i # x
    BY <1>2 DEF TreeOf, t
  <2> QED
    BY <2>1, <1>13 DEF SameKept
<1>16. \E S : StackIs(FreeNext(u), x, S, DOMAIN u \ T2)
  <2>1. PICK S : StackIs(FreeNext(t), q.treeTop, S, DOMAIN t \ T)
    BY DEF TreeOf, t
  <2> DEFINE next == FreeNext(t)
             next2 == FreeNext(u)
             free == DOMAIN t \ T
  <2>2. DOMAIN next2 = DOMAIN t /\ \A i \in DOMAIN t : next2[i] = u[i].next
    BY <1>8 DEF FreeNext
  <2>3. \A i \in DOMAIN t : next[i] = t[i].next
    BY DEF FreeNext
  <2> HIDE DEF next, next2
  <2>4. next2[x] = q.treeTop /\ x \notin free
    BY <2>2, <1>6, <1>8, <1>9
  <2>5. \A i \in free : next2[i] = next[i]
    <3>1. \A i \in free : i \in DOMAIN t /\ i # x
      OBVIOUS
    <3> QED
      BY <3>1, <2>2, <2>3, <1>13 DEF SameKept
  <2>6. free \cup {x} = DOMAIN u \ T2 /\ free \cup {x} \subseteq DOMAIN next2
    BY <2>2, <1>2, <1>8, <1>9
  <2> HIDE DEF free
  <2>7. StackIs(next, q.treeTop, S, free)
    BY <2>1 DEF next, free
  <2>8. StackIs(next2, x, Append(S, x), free \cup {x})
    BY <2>4, <2>5, <2>6, <2>7, <1>9, StackPush
  <2> QED
    BY <2>6, <2>8 DEF next2
<1>17. TreeOf(q2, T2)
  BY <1>10, <1>12, <1>14, <1>15, <1>16 DEF TreeOf
<1> QED
  BY <1>8, <1>12, <1>13, <1>17 DEF TreeDropped, q2, t

-----------------------------------------------------------------------------
(* Lists.                                                                  *)

(* A node of a list is before another one in a direction: older, or newer. *)
Before(age, dir, i, j) == IF dir = "next" THEN age[i] < age[j] ELSE age[j] < age[i]

(* The link of a node leads to the nearest one of its list on that side,   *)
(* or else to the tree node of its list.                                   *)
LinkHolds(lists, A, home, age, dir, i) ==
  LET link == lists[i][dir]
  IN IF link.tree
     THEN link.id = home[i] /\ \A j \in A : home[j] = home[i] => ~Before(age, dir, i, j)
     ELSE /\ link.id \in A /\ home[link.id] = home[i] /\ Before(age, dir, i, link.id)
          /\ \A j \in A : home[j] = home[i] =>
               ~(Before(age, dir, i, j) /\ Before(age, dir, j, link.id))

(* A list starts, or ends, with a node before which there is none.         *)
EndHolds(A, home, age, dir, h, i) ==
  i \in A /\ home[i] = h /\ \A j \in A : home[j] = h => ~Before(age, dir, j, i)

(* The nodes A are in the lists of the tree nodes home, in the order of    *)
(* their ages; the others are in the stack.                                *)
Links(lists, A, home, age) ==
  /\ A \subseteq DOMAIN lists
  /\ home \in [Nat -> Nat] /\ age \in [Nat -> Nat]
  /\ \A i, j \in A : age[i] = age[j] => i = j
  /\ \A i \in A : LinkHolds(lists, A, home, age, "next", i) /\ LinkHolds(lists, A, home, age, "last", i)

ListNext(lists) ==
  [i \in DOMAIN lists |-> IF lists[i].next.tree THEN NIL ELSE lists[i].next.id]

FreeLists(q, A) ==
  /\ \A i \in DOMAIN q.lists \ A : ~q.lists[i].next.tree
  /\ \E S : StackIs(ListNext(q.lists), q.listTop, S, DOMAIN q.lists \ A)

Ends(q, T, A, home, age) ==
  \A h \in T : /\ EndHolds(A, home, age, "next", h, q.trees[h].head)
               /\ EndHolds(A, home, age, "last", h, q.trees[h].tail)

(* Each node has the key of the tree node of its list.                     *)
Homes(q, T, A, home) ==
  /\ DOMAIN q.values = DOMAIN q.lists
  /\ \A i \in A : home[i] \in T /\ q.values[i] = q.trees[home[i]].key

ListsOf(q, T, A, home, age) ==
  /\ Links(q.lists, A, home, age)
  /\ FreeLists(q, A)
  /\ Ends(q, T, A, home, age)
  /\ Homes(q, T, A, home)

(* The next list node is not in use.                                       *)
LEMMA NextListIs ==
  ASSUME NEW q \in QueueType, NEW A, A \subseteq DOMAIN q.lists, FreeLists(q, A)
  PROVE  /\ NextList(q) \in Nat /\ NextList(q) # NIL /\ NextList(q) \notin A
         /\ q.listTop = NIL => /\ DOMAIN q.lists = A /\ NextList(q) = Len(q.lists) + 1
         /\ q.listTop # NIL => NextList(q) \in DOMAIN q.lists /\ NextList(q) = q.listTop
<1> DEFINE t == q.lists
           free == DOMAIN t \ A
           next == ListNext(t)
           top == q.listTop
<1>1. PICK S : StackIs(next, top, S, free)
  BY DEF FreeLists
<1>2. A \subseteq DOMAIN t
  OBVIOUS
<1>3. DOMAIN t = 1..Len(t) /\ Len(t) \in Nat /\ NIL \notin DOMAIN t /\ top \in Nat
  BY DEF QueueType, NIL
<1>4. DOMAIN next = DOMAIN t
  BY DEF ListNext
<1> HIDE DEF next, free
<1>5. (top = NIL => free = {}) /\ (top # NIL => top \in free)
  BY <1>1, <1>3, <1>4, StackEmpty
<1> USE DEF free
<1>6. NextList(q) = IF top = NIL THEN Len(t) + 1 ELSE top
  BY DEF NextList
<1> HIDE DEF t, top
<1>7. CASE top = NIL
  <2>1. DOMAIN t = A
    BY <1>2, <1>5, <1>7
  <2>2. Len(t) + 1 \in Nat /\ Len(t) + 1 # 0 /\ Len(t) + 1 \notin 1..Len(t)
    BY <1>3
  <2> QED
    BY <1>2, <1>3, <1>6, <1>7, <2>1, <2>2 DEF NIL, t, top
<1>8. CASE top # NIL
  <2>1. top \in DOMAIN t /\ top \notin A
    BY <1>5, <1>8
  <2> QED
    BY <1>2, <1>3, <1>6, <1>8, <2>1 DEF t, top
<1> QED
  BY <1>7, <1>8

(* What inserting a list node does, at the end of the list of an anchor or *)
(* alone.                                                                  *)
ListAdded(q, p, id, anchor, value) ==
  LET tail == q.trees[anchor].tail
  IN /\ p \in QueueType
     /\ p.ascending = q.ascending /\ p.root = q.root /\ p.treeTop = q.treeTop
     /\ p.head = q.head /\ p.tail = q.tail
     /\ p.listTop = IF q.listTop = NIL THEN NIL ELSE q.lists[id].next.id
     /\ DOMAIN p.lists = DOMAIN q.lists \cup {id} /\ DOMAIN p.values = DOMAIN q.values \cup {id}
     /\ p.values[id] = value /\ \A i \in DOMAIN q.values : i # id => p.values[i] = q.values[i]
     /\ p.lists[id].next = ToTree(IF anchor = NIL THEN NextTree(q) ELSE anchor)
     /\ p.lists[id].last = IF anchor = NIL THEN ToTree(NextTree(q)) ELSE ToList(tail)
     /\ \A i \in DOMAIN q.lists : i # id =>
          /\ p.lists[i].last = q.lists[i].last
          /\ p.lists[i].next = IF anchor # NIL /\ i = tail THEN ToList(id) ELSE q.lists[i].next
     /\ DOMAIN p.trees = DOMAIN q.trees
     /\ \A h \in DOMAIN q.trees : h # anchor => p.trees[h] = q.trees[h]
     /\ anchor # NIL => p.trees[anchor] = [q.trees[anchor] EXCEPT !.tail = id]

(* A sequence of which one element is set, or which has one more.          *)
SetIn(D, t, u, id, value) ==
  /\ u \in Seq(D) /\ DOMAIN u = DOMAIN t \cup {id} /\ u[id] = value
  /\ \A i \in DOMAIN t : i # id => u[i] = t[i]

(* Both append and an update set an element.                               *)
LEMMA SetInIs ==
  ASSUME NEW D, NEW t \in Seq(D), NEW value \in D
  PROVE  /\ SetIn(D, t, Append(t, value), Len(t) + 1, value)
         /\ \A id \in DOMAIN t : SetIn(D, t, [t EXCEPT ![id] = value], id, value)
<1>1. SetIn(D, t, Append(t, value), Len(t) + 1, value)
  BY DEF SetIn
<1>2. ASSUME NEW id \in DOMAIN t
      PROVE  SetIn(D, t, [t EXCEPT ![id] = value], id, value)
  <2>1. [t EXCEPT ![id] = value] \in Seq(D)
    BY ExceptSeq
  <2> QED
    BY <2>1 DEF SetIn
<1> QED
  BY <1>1, <1>2

(* A list node and its links.                                              *)
LEMMA LinkTypes ==
  ASSUME NEW id \in Nat
  PROVE  /\ ToList(id) \in Link /\ ToTree(id) \in Link
         /\ ToList(id).id = id /\ ToTree(id).id = id /\ ~ToList(id).tree /\ ToTree(id).tree
         /\ \A l1, l2 \in Link : [last |-> l1, next |-> l2] \in ListNode
BY DEF ToList, ToTree, Link, ListNode

(* What insert_list_node sets.                                             *)
LEMMA ListAddedIs ==
  ASSUME NEW q \in QueueType, NEW A, A \subseteq DOMAIN q.lists, FreeLists(q, A),
         DOMAIN q.values = DOMAIN q.lists, NextTree(q) \in Nat,
         NEW anchor, anchor # NIL => anchor \in DOMAIN q.trees /\ q.trees[anchor].tail \in A,
         NEW value \in Nat
  PROVE  ListAdded(q, InsertListNode(q, anchor, value), NextList(q), anchor, value)
<1> DEFINE id == NextList(q)
           tree == NextTree(q)
           tail == q.trees[anchor].tail
           node == IF anchor = NIL THEN [last |-> ToTree(tree), next |-> ToTree(tree)]
                   ELSE [last |-> ToList(tail), next |-> ToTree(anchor)]
           lists0 == IF q.listTop = NIL THEN Append(q.lists, node)
                     ELSE [q.lists EXCEPT ![id] = node]
           values0 == IF q.listTop = NIL THEN Append(q.values, value)
                      ELSE [q.values EXCEPT ![id] = value]
           top == IF q.listTop = NIL THEN NIL ELSE q.lists[id].next.id
           stored == IF q.listTop = NIL
                     THEN [q EXCEPT !.lists = Append(@, node), !.values = Append(@, value)]
                     ELSE [q EXCEPT !.listTop = q.lists[id].next.id,
                                    !.lists[id] = node, !.values[id] = value]
           p == InsertListNode(q, anchor, value)
<1>1. p = IF anchor = NIL THEN stored
          ELSE [stored EXCEPT !.lists[node.last.id].next = ToList(id),
                              !.trees[anchor].tail = id]
  BY DEF InsertListNode
<1>2. /\ id \in Nat /\ id # NIL /\ id \notin A
      /\ q.listTop = NIL => id = Len(q.lists) + 1
      /\ q.listTop # NIL => id \in DOMAIN q.lists
  BY NextListIs
<1>3. /\ q.lists \in Seq(ListNode) /\ q.values \in Seq(Nat) /\ q.trees \in Seq(TreeNode)
      /\ Len(q.values) = Len(q.lists) /\ q.listTop \in Nat
  BY DEF QueueType
<1>4. /\ anchor # NIL => /\ anchor \in Nat /\ anchor \in DOMAIN q.trees /\ q.trees[anchor] \in TreeNode
                         /\ tail \in DOMAIN q.lists /\ tail \in Nat /\ tail # id
  BY <1>2, <1>3
<1>5. node \in ListNode /\ (anchor # NIL => node.last.id = tail)
      /\ node.next = ToTree(IF anchor = NIL THEN tree ELSE anchor)
      /\ node.last = IF anchor = NIL THEN ToTree(tree) ELSE ToList(tail)
  <2>1. tree \in Nat
    OBVIOUS
  <2> HIDE DEF tree, tail
  <2>2. CASE anchor = NIL
    BY <2>1, <2>2, LinkTypes
  <2>3. CASE anchor # NIL
    BY <2>3, <1>4, LinkTypes
  <2> QED
    BY <2>2, <2>3
<1> HIDE DEF node, id, tail, tree
<1>6. SetIn(ListNode, q.lists, lists0, id, node) /\ SetIn(Nat, q.values, values0, id, value)
  <2>1. CASE q.listTop = NIL
    BY <2>1, <1>2, <1>3, <1>5, SetInIs
  <2>2. CASE q.listTop # NIL
    BY <2>2, <1>2, <1>3, <1>5, SetInIs
  <2> QED
    BY <2>1, <2>2
<1>7. top \in Nat
  <2>1. CASE q.listTop = NIL
    BY <2>1 DEF NIL
  <2>2. CASE q.listTop # NIL
    <3>1. q.lists[id] \in ListNode
      BY <2>2, <1>2, <1>3
    <3> QED
      BY <2>2, <3>1 DEF ListNode, Link
  <2> QED
    BY <2>1, <2>2
<1>8. stored = [q EXCEPT !.lists = lists0, !.values = values0, !.listTop = top]
  <2>1. CASE q.listTop = NIL
    BY <2>1 DEF QueueType
  <2>2. CASE q.listTop # NIL
    BY <2>2 DEF QueueType
  <2> QED
    BY <2>1, <2>2
<1> HIDE DEF lists0, values0, top, stored
<1>9. /\ lists0 \in Seq(ListNode) /\ DOMAIN lists0 = DOMAIN q.lists \cup {id}
      /\ lists0[id] = node /\ \A i \in DOMAIN q.lists : i # id => lists0[i] = q.lists[i]
      /\ values0 \in Seq(Nat) /\ DOMAIN values0 = DOMAIN q.values \cup {id}
      /\ values0[id] = value /\ \A i \in DOMAIN q.values : i # id => values0[i] = q.values[i]
  BY <1>6 DEF SetIn
<1>10. /\ stored \in QueueType /\ stored.lists = lists0 /\ stored.values = values0
       /\ stored.listTop = top /\ stored.trees = q.trees
       /\ stored.ascending = q.ascending /\ stored.root = q.root /\ stored.treeTop = q.treeTop
       /\ stored.head = q.head /\ stored.tail = q.tail
  BY <1>7, <1>8, <1>9 DEF QueueType
<1>11. CASE anchor = NIL
  <2>1. p = stored
    BY <1>1, <1>11
  <2> QED
    BY <2>1, <1>5, <1>9, <1>10, <1>11 DEF ListAdded, top, tail, tree, id
<1>12. CASE anchor # NIL
  <2> DEFINE n == [lists0[tail] EXCEPT !.next = ToList(id)]
             m == [q.trees[anchor] EXCEPT !.tail = id]
             lists1 == [lists0 EXCEPT ![tail] = n]
             trees1 == [q.trees EXCEPT ![anchor] = m]
  <2>1. p = [stored EXCEPT !.lists = lists1, !.trees = trees1]
    <3>1. p = [stored EXCEPT !.lists[tail].next = ToList(id), !.trees[anchor].tail = id]
      BY <1>1, <1>5, <1>12
    <3>2. "lists" \in DOMAIN stored /\ "trees" \in DOMAIN stored
      BY <1>10 DEF QueueType
    <3> QED
      BY <3>1, <3>2, <1>10
  <2>2. /\ n \in ListNode /\ n.last = q.lists[tail].last /\ n.next = ToList(id)
    <3>1. lists0[tail] = q.lists[tail] /\ q.lists[tail] \in ListNode /\ ToList(id) \in Link
      BY <1>2, <1>3, <1>4, <1>9, <1>12, LinkTypes
    <3> QED
      BY <3>1 DEF ListNode
  <2>3. m \in TreeNode
    BY <1>2, <1>4, <1>12 DEF TreeNode
  <2> HIDE DEF n
  <2>4. /\ lists1 \in Seq(ListNode) /\ DOMAIN lists1 = DOMAIN lists0 /\ lists1[tail] = n
        /\ \A i \in DOMAIN lists0 : i # tail => lists1[i] = lists0[i]
    <3>1. tail \in DOMAIN lists0
      BY <1>4, <1>9, <1>12
    <3>2. SetIn(ListNode, lists0, lists1, tail, n)
      BY <3>1, <2>2, <1>9, SetInIs
    <3> QED
      BY <3>1, <3>2 DEF SetIn
  <2>5. /\ trees1 \in Seq(TreeNode) /\ DOMAIN trees1 = DOMAIN q.trees /\ trees1[anchor] = m
        /\ \A h \in DOMAIN q.trees : h # anchor => trees1[h] = q.trees[h]
    <3> HIDE DEF m
    <3> QED
      BY <2>3, <1>3, <1>4, <1>12, NodeSet
  <2> HIDE DEF lists1, trees1
  <2>6. /\ p \in QueueType /\ p.lists = lists1 /\ p.trees = trees1 /\ p.values = values0
        /\ p.listTop = top
        /\ p.ascending = q.ascending /\ p.root = q.root /\ p.treeTop = q.treeTop
        /\ p.head = q.head /\ p.tail = q.tail
    BY <2>1, <2>4, <2>5, <1>10 DEF QueueType
  <2>7. lists1[id] = node /\ DOMAIN lists1 = DOMAIN q.lists \cup {id}
    BY <2>4, <1>4, <1>9, <1>12
  <2>8. \A i \in DOMAIN q.lists : i # id =>
          /\ lists1[i].last = q.lists[i].last
          /\ lists1[i].next = IF anchor # NIL /\ i = tail THEN ToList(id) ELSE q.lists[i].next
    BY <2>2, <2>4, <1>9, <1>12
  <2> HIDE DEF m
  <2> QED
    BY <2>5, <2>6, <2>7, <2>8, <1>5, <1>9, <1>12 DEF ListAdded, top, tail, tree, id, m
<1> QED
  BY <1>11, <1>12 DEF p, id

(* The stack of list nodes after one was taken.                            *)
LEMMA AddedFree ==
  ASSUME NEW q \in QueueType, NEW A, A \subseteq DOMAIN q.lists, FreeLists(q, A),
         NEW p, NEW anchor, NEW value, ListAdded(q, p, NextList(q), anchor, value),
         anchor # NIL => q.trees[anchor].tail \in A
  PROVE  FreeLists(p, A \cup {NextList(q)})
<1> DEFINE id == NextList(q)
           next == ListNext(q.lists)
           next2 == ListNext(p.lists)
           free == DOMAIN q.lists \ A
           free2 == DOMAIN p.lists \ (A \cup {id})
<1>1. PICK S : StackIs(next, q.listTop, S, free)
  BY DEF FreeLists
<1>2. /\ id # NIL /\ id \notin A
      /\ q.listTop = NIL => DOMAIN q.lists = A
      /\ q.listTop # NIL => id = q.listTop /\ id \in DOMAIN q.lists
  BY NextListIs
<1>3. DOMAIN p.lists = DOMAIN q.lists \cup {id}
      /\ p.listTop = IF q.listTop = NIL THEN NIL ELSE q.lists[id].next.id
  BY DEF ListAdded
<1>4. free2 = free \ {id}
  BY <1>3
<1>5. \A i \in free2 : i \in DOMAIN q.lists /\ i \notin A /\ p.lists[i].next = q.lists[i].next
  <2>1. \A i \in free2 : i \in DOMAIN q.lists /\ i \notin A /\ i # id
    BY <1>3
  <2>2. \A i \in free2 : ~(anchor # NIL /\ i = q.trees[anchor].tail)
    BY <2>1
  <2> QED
    BY <2>1, <2>2 DEF ListAdded
<1>6. \A i \in free2 : ~p.lists[i].next.tree
  BY <1>5 DEF FreeLists
<1>7. /\ DOMAIN next = DOMAIN q.lists /\ DOMAIN next2 = DOMAIN p.lists
      /\ \A i \in DOMAIN q.lists : next[i] = IF q.lists[i].next.tree THEN NIL ELSE q.lists[i].next.id
      /\ \A i \in DOMAIN p.lists : next2[i] = IF p.lists[i].next.tree THEN NIL ELSE p.lists[i].next.id
  BY DEF ListNext
<1>8. free2 \subseteq DOMAIN next2 /\ \A i \in free2 : next2[i] = next[i]
  <2> HIDE DEF next, next2
  <2> QED
    BY <1>5, <1>7
<1>9. CASE q.listTop = NIL
  <2>1. free = {} /\ free2 = free /\ p.listTop = q.listTop
    BY <1>2, <1>3, <1>4, <1>9
  <2> HIDE DEF next, next2, free, free2
  <2>2. StackIs(next2, q.listTop, S, free)
    BY <1>1, <1>8, <2>1, StackKept
  <2> QED
    BY <1>6, <2>1, <2>2 DEF FreeLists, next2, free2, id
<1>10. CASE q.listTop # NIL
  <2>1. id = q.listTop /\ id \in free /\ ~q.lists[id].next.tree
    BY <1>2, <1>10 DEF FreeLists
  <2>2. next[id] = p.listTop
    BY <2>1, <1>3, <1>7, <1>10
  <2> HIDE DEF next, next2, free, free2, id
  <2>3. StackIs(next, id, S, free)
    BY <1>1, <2>1
  <2>4. SameStack(next, next2, free \ {id}) /\ id # NIL
    BY <1>2, <1>4, <1>8 DEF SameStack
  <2>5. StackIs(next2, next[id], Popped(S), free \ {id})
    BY ONLY <2>3, <2>4, StackPop
  <2> QED
    BY <1>4, <1>6, <2>2, <2>5 DEF FreeLists, next2, free2, id
<1> QED
  BY <1>9, <1>10

(* A node that is newer than the others, in the list at tree node h.       *)
Aged(f, id, value) == [f EXCEPT ![id] = value]

(* Lists to which a node was added at the tail are linked as lists are.    *)
LEMMA AddedLinks ==
  ASSUME NEW q \in QueueType, NEW A, NEW home, NEW age, Links(q.lists, A, home, age),
         NEW p, NEW anchor, NEW value, NEW id \in Nat, id \notin A,
         ListAdded(q, p, id, anchor, value),
         NEW now \in Nat, \A i \in A : age[i] < now,
         NEW h \in Nat, h = IF anchor = NIL THEN NextTree(q) ELSE anchor,
         anchor # NIL => EndHolds(A, home, age, "last", anchor, q.trees[anchor].tail),
         anchor = NIL => \A i \in A : home[i] # h
  PROVE  Links(p.lists, A \cup {id}, Aged(home, id, h), Aged(age, id, now))
<1> DEFINE home2 == Aged(home, id, h)
           age2 == Aged(age, id, now)
           A2 == A \cup {id}
           tail == q.trees[anchor].tail
           lists == q.lists
           lists2 == p.lists
<1>1. /\ home2 \in [Nat -> Nat] /\ age2 \in [Nat -> Nat]
      /\ home2[id] = h /\ age2[id] = now
      /\ \A i \in Nat : i # id => home2[i] = home[i] /\ age2[i] = age[i]
  BY DEF Links, Aged
<1>2. A \subseteq DOMAIN lists /\ \A i \in A : i \in Nat /\ i # id
  <2>1. A \subseteq DOMAIN lists
    BY DEF Links
  <2>2. \A i \in DOMAIN lists : i \in Nat
    <3>1. lists \in Seq(ListNode)
      BY DEF QueueType
    <3> QED
      BY <3>1
  <2> QED
    BY <2>1, <2>2
<1>3. \A i \in A : home2[i] = home[i] /\ age2[i] = age[i] /\ age[i] \in Nat /\ age[i] < now
  BY <1>1, <1>2 DEF Links
<1>4. /\ DOMAIN lists2 = DOMAIN lists \cup {id}
      /\ lists2[id].next = ToTree(h)
      /\ lists2[id].last = IF anchor = NIL THEN ToTree(h) ELSE ToList(tail)
      /\ \A i \in A : /\ lists2[i].last = lists[i].last
                      /\ lists2[i].next = IF anchor # NIL /\ i = tail THEN ToList(id)
                                          ELSE lists[i].next
  BY <1>2 DEF ListAdded
<1>5. \A i, j \in A : age[i] = age[j] => i = j
  BY DEF Links
<1>6. \A i \in A : LinkHolds(lists, A, home, age, "next", i) /\ LinkHolds(lists, A, home, age, "last", i)
  BY DEF Links
<1>7. anchor # NIL => /\ tail \in A /\ home[tail] = h
                      /\ \A j \in A : home[j] = h => ~(age[tail] < age[j])
  BY DEF EndHolds, Before
<1>8. anchor = NIL => \A i \in A : home[i] # h
  OBVIOUS
<1>9. \A n \in Nat : ToTree(n).tree /\ ToTree(n).id = n /\ ~ToList(n).tree /\ ToList(n).id = n
  BY LinkTypes
<1> HIDE DEF home2, age2, A2, tail, lists, lists2
<1>10. \A i, j \in A2 : age2[i] = age2[j] => i = j
  <2>1. ASSUME NEW i \in A2, NEW j \in A2, age2[i] = age2[j]
        PROVE  i = j
    <3>1. CASE i \in A /\ j \in A
      BY <3>1, <2>1, <1>3, <1>5
    <3>2. CASE i = id \/ j = id
      BY <3>2, <2>1, <1>1, <1>3 DEF A2
    <3> QED
      BY <3>1, <3>2 DEF A2
  <2> QED
    BY <2>1
<1>11. LinkHolds(lists2, A2, home2, age2, "next", id)
  <2>1. \A j \in A2 : ~Before(age2, "next", id, j)
    BY <1>1, <1>3 DEF Before, A2
  <2> QED
    BY <2>1, <1>1, <1>4, <1>9 DEF LinkHolds
<1>12. LinkHolds(lists2, A2, home2, age2, "last", id)
  <2>1. CASE anchor = NIL
    <3>1. \A j \in A2 : home2[j] = h => j = id
      BY <2>1, <1>3, <1>8 DEF A2
    <3>2. ~Before(age2, "last", id, id)
      BY <1>1 DEF Before
    <3> QED
      BY <2>1, <3>1, <3>2, <1>1, <1>4, <1>9 DEF LinkHolds
  <2>2. CASE anchor # NIL
    <3>1. tail \in A /\ home2[tail] = h /\ age2[tail] = age[tail] /\ tail \in Nat
      BY <2>2, <1>2, <1>3, <1>7
    <3>2. lists2[id].last.id = tail /\ ~lists2[id].last.tree
      BY <2>2, <3>1, <1>4, <1>9
    <3>3. Before(age2, "last", id, tail)
      BY <3>1, <1>1, <1>3 DEF Before
    <3>4. ASSUME NEW j \in A2, home2[j] = h
          PROVE  ~(Before(age2, "last", id, j) /\ Before(age2, "last", j, tail))
      <4>1. CASE j = id
        BY <4>1, <1>1 DEF Before
      <4>2. CASE j \in A
        <5>1. ~(age[tail] < age[j]) /\ age2[j] = age[j]
          BY <4>2, <3>4, <2>2, <1>3, <1>7
        <5> QED
          BY <5>1, <3>1 DEF Before
      <4> QED
        BY <4>1, <4>2 DEF A2
    <3> QED
      BY <3>1, <3>2, <3>3, <3>4, <1>1 DEF LinkHolds, A2
  <2> QED
    BY <2>1, <2>2
<1>13. ASSUME NEW i \in A
       PROVE  LinkHolds(lists2, A2, home2, age2, "last", i)
  <2> DEFINE l == lists[i].last
  <2>1. lists2[i].last = l /\ LinkHolds(lists, A, home, age, "last", i)
    BY <1>4, <1>6
  <2>2. ~Before(age2, "last", i, id)
    BY <1>1, <1>3 DEF Before
  <2>3. \A j, k \in A : Before(age2, "last", j, k) <=> Before(age, "last", j, k)
    BY <1>3 DEF Before
  <2> HIDE DEF l
  <2>4. CASE l.tree
    BY <2>1, <2>2, <2>3, <2>4, <1>3 DEF LinkHolds, l, A2
  <2>5. CASE ~l.tree
    BY <2>1, <2>2, <2>3, <2>5, <1>3 DEF LinkHolds, l, A2
  <2> QED
    BY <2>4, <2>5
<1>14. ASSUME NEW i \in A
       PROVE  LinkHolds(lists2, A2, home2, age2, "next", i)
  <2> DEFINE l == lists[i].next
  <2>1. LinkHolds(lists, A, home, age, "next", i)
    BY <1>6
  <2>2. \A j, k \in A : Before(age2, "next", j, k) <=> Before(age, "next", j, k)
    BY <1>3 DEF Before
  <2>3. \A j \in A : Before(age2, "next", j, id) /\ ~Before(age2, "next", id, j)
    BY <1>1, <1>3 DEF Before
  <2> HIDE DEF l
  <2>4. CASE anchor # NIL /\ i = tail
    <3>1. lists2[i].next = ToList(id) /\ ~ToList(id).tree /\ ToList(id).id = id
      BY <2>4, <1>4, <1>9
    <3>2. home2[i] = h /\ home2[id] = h /\ id \in A2
      BY <2>4, <1>1, <1>3, <1>7 DEF A2
    <3>3. ASSUME NEW j \in A2, home2[j] = h
          PROVE  ~(Before(age2, "next", i, j) /\ Before(age2, "next", j, id))
      <4>1. CASE j = id
        BY <4>1, <1>1 DEF Before
      <4>2. CASE j \in A
        BY <4>2, <3>3, <2>4, <2>2, <1>3, <1>7 DEF Before
      <4> QED
        BY <4>1, <4>2 DEF A2
    <3> QED
      BY <3>1, <3>2, <3>3, <2>3 DEF LinkHolds
  <2>5. CASE ~(anchor # NIL /\ i = tail)
    <3>1. lists2[i].next = l
      BY <2>5, <1>4 DEF l
    <3>2. CASE l.tree
      <4>1. l.id = home[i] /\ \A j \in A : home[j] = home[i] => ~Before(age, "next", i, j)
        BY <3>2, <2>1 DEF LinkHolds, l
      <4>2. home[i] # h
        <5>1. CASE anchor = NIL
          BY <5>1, <1>8
        <5>2. CASE anchor # NIL
          <6>1. i # tail /\ tail \in A /\ home[tail] = h /\ age[tail] # age[i]
            BY <5>2, <2>5, <1>5, <1>7
          <6>2. home[i] = h => ~(age[tail] < age[i]) /\ ~(age[i] < age[tail])
            BY <5>2, <6>1, <4>1, <1>7 DEF Before
          <6> QED
            BY <6>1, <6>2, <1>3
        <5> QED
          BY <5>1, <5>2
      <4>3. \A j \in A2 : home2[j] = home2[i] => ~Before(age2, "next", i, j)
        BY <4>1, <4>2, <2>2, <1>1, <1>3 DEF A2
      <4> QED
        BY <3>1, <3>2, <4>1, <4>3, <1>3 DEF LinkHolds
    <3>3. CASE ~l.tree
      <4>1. /\ l.id \in A /\ home[l.id] = home[i] /\ Before(age, "next", i, l.id)
            /\ \A j \in A : home[j] = home[i] =>
                 ~(Before(age, "next", i, j) /\ Before(age, "next", j, l.id))
        BY <3>3, <2>1 DEF LinkHolds, l
      <4>2. \A j \in A2 : home2[j] = home2[i] =>
              ~(Before(age2, "next", i, j) /\ Before(age2, "next", j, l.id))
        BY <4>1, <2>2, <2>3, <1>3 DEF A2
      <4> QED
        BY <3>1, <3>3, <4>1, <4>2, <2>2, <1>3 DEF LinkHolds, A2
    <3> QED
      BY <3>2, <3>3
  <2> QED
    BY <2>4, <2>5
<1>15. A2 \subseteq DOMAIN lists2
  BY <1>2, <1>4 DEF A2
<1>16. Links(lists2, A2, home2, age2)
  BY <1>1, <1>10, <1>11, <1>12, <1>13, <1>14, <1>15 DEF Links, A2
<1> QED
  BY <1>16 DEF lists2, A2, home2, age2

-----------------------------------------------------------------------------
(* The order of the queue, and its ends.                                   *)

Ahead(q, age, i, j) ==
  Better(q, q.values[i], q.values[j]) \/ (q.values[i] = q.values[j] /\ age[i] < age[j])

CacheHolds(q, A, age) ==
  IF A = {} THEN q.head = NoEnd /\ q.tail = NoEnd
  ELSE /\ q.head.node \in A /\ q.head.key = q.values[q.head.node]
       /\ \A j \in A : ~Ahead(q, age, j, q.head.node)
       /\ q.tail.node \in A /\ q.tail.key = q.values[q.tail.node]
       /\ \A j \in A : ~Ahead(q, age, q.tail.node, j)

(* Queues that differ in their cached ends only.                           *)
BodyKept(q, q2) ==
  /\ q2.ascending = q.ascending /\ q2.root = q.root
  /\ q2.treeTop = q.treeTop /\ q2.listTop = q.listTop
  /\ q2.trees = q.trees /\ q2.lists = q.lists /\ q2.values = q.values

(* The nodes of the queue have other ages, or are in another queue.        *)
LEMMA CacheKept ==
  ASSUME NEW q, NEW A, NEW age, CacheHolds(q, A, age), NEW p, NEW age2,
         p.head = q.head, p.tail = q.tail, p.ascending = q.ascending,
         \A i \in A : p.values[i] = q.values[i] /\ age2[i] = age[i]
  PROVE  CacheHolds(p, A, age2)
<1>1. CASE A = {}
  BY <1>1 DEF CacheHolds
<1>2. CASE A # {}
  <2>1. q.head.node \in A /\ q.tail.node \in A
    BY <1>2 DEF CacheHolds
  <2>2. \A i, j \in A : Ahead(p, age2, i, j) <=> Ahead(q, age, i, j)
    BY DEF Ahead, Better
  <2> QED
    BY <1>2, <2>1, <2>2 DEF CacheHolds
<1> QED
  BY <1>1, <1>2

(* A new node may be the first, or the last.                               *)
LEMMA CacheAdded ==
  ASSUME NEW q \in QueueType, NEW A, NEW age \in [Nat -> Nat], CacheHolds(q, A, age),
         \A i \in A : i \in Nat /\ i # NIL /\ q.values[i] \in Nat,
         NEW id \in Nat, id # NIL, id \notin A, NEW key \in Nat, q.values[id] = key,
         \A i \in A : age[i] < age[id]
  PROVE  LET q2 == InsertCheckHeadTail(q, key, id)
         IN q2 \in QueueType /\ BodyKept(q, q2) /\ CacheHolds(q2, A \cup {id}, age)
<1> DEFINE q2 == InsertCheckHeadTail(q, key, id)
           A2 == A \cup {id}
           end == [node |-> id, key |-> key]
           head2 == IF Empty(q) \/ Better(q, key, q.head.key) THEN end ELSE q.head
           tail2 == IF Empty(q) \/ ~Better(q, key, q.tail.key) THEN end ELSE q.tail
<1>1. q2 = [q EXCEPT !.head = head2, !.tail = tail2]
  BY DEF InsertCheckHeadTail, QueueType
<1>2. end \in End /\ head2 \in End /\ tail2 \in End
  BY DEF End, QueueType
<1>3. end.node = id /\ end.key = key
  OBVIOUS
<1> HIDE DEF q2, end, head2, tail2
<1>4. q2 \in QueueType /\ BodyKept(q, q2) /\ q2.head = head2 /\ q2.tail = tail2
  BY <1>1, <1>2 DEF QueueType, BodyKept
<1> USE DEF head2, tail2
<1>5. \A i, j : Ahead(q2, age, i, j) <=> Ahead(q, age, i, j)
  BY <1>4 DEF Ahead, Better, BodyKept
<1>6. ~Ahead(q, age, id, id)
  BY DEF Ahead, Better
<1>7. CASE A = {}
  <2>1. Empty(q)
    BY <1>7 DEF CacheHolds, Empty, NoEnd
  <2>2. head2 = end /\ tail2 = end /\ A2 = {id}
    BY <1>7, <2>1
  <2> HIDE DEF head2, tail2
  <2>3. CacheHolds(q2, A2, age)
    BY <1>3, <1>4, <1>5, <1>6, <2>2 DEF CacheHolds, BodyKept
  <2> QED
    BY <1>4, <2>3 DEF q2
<1>8. CASE A # {}
  <2> DEFINE a == q.head.node
             b == q.tail.node
  <2>1. /\ a \in A /\ q.head.key = q.values[a] /\ \A j \in A : ~Ahead(q, age, j, a)
        /\ b \in A /\ q.tail.key = q.values[b] /\ \A j \in A : ~Ahead(q, age, b, j)
    BY <1>8 DEF CacheHolds
  <2>2. ~Empty(q)
    BY <2>1 DEF Empty
  <2>3. \A i \in A : Ahead(q, age, id, i) <=> Better(q, key, q.values[i])
    BY DEF Ahead
  <2>4. \A i \in A : Ahead(q, age, i, id) <=> ~Better(q, key, q.values[i])
    BY DEF Ahead, Better
  <2>5. \A i, j \in A : ~Ahead(q, age, j, i) /\ Ahead(q, age, id, i) => ~Ahead(q, age, j, id)
    BY DEF Ahead, Better
  <2>6. \A i, j \in A : ~Ahead(q, age, i, j) /\ Ahead(q, age, i, id) => ~Ahead(q, age, id, j)
    BY DEF Ahead, Better
  <2> HIDE DEF a, b
  <2>7. /\ head2.node \in A2 /\ head2.key = q.values[head2.node]
        /\ \A j \in A2 : ~Ahead(q, age, j, head2.node)
    <3>1. CASE Better(q, key, q.head.key)
      BY <3>1, <2>1, <2>3, <2>5, <1>3, <1>6
    <3>2. CASE ~Better(q, key, q.head.key)
      BY <3>2, <2>1, <2>2, <2>3 DEF a
    <3> QED
      BY <3>1, <3>2
  <2>8. /\ tail2.node \in A2 /\ tail2.key = q.values[tail2.node]
        /\ \A j \in A2 : ~Ahead(q, age, tail2.node, j)
    <3>1. CASE ~Better(q, key, q.tail.key)
      BY <3>1, <2>1, <2>4, <2>6, <1>3, <1>6
    <3>2. CASE Better(q, key, q.tail.key)
      BY <3>2, <2>1, <2>2, <2>4 DEF b
    <3> QED
      BY <3>1, <3>2
  <2> HIDE DEF head2, tail2
  <2>9. CacheHolds(q2, A2, age)
    BY <1>4, <1>5, <2>7, <2>8 DEF CacheHolds, BodyKept
  <2> QED
    BY <1>4, <2>9 DEF q2
<1> QED
  BY <1>7, <1>8

-----------------------------------------------------------------------------
(* The queue as a whole.                                                   *)

(* Its tree nodes are T and its list nodes A, in lists at home.            *)
AVLQueue(q, T, A, home, age) ==
  /\ q \in QueueType
  /\ TreeOf(q, T)
  /\ ListsOf(q, T, A, home, age)
  /\ CacheHolds(q, A, age)

(* Only the links and the heights make the tree.                           *)
LEMMA TreeOfAlike ==
  ASSUME NEW q, NEW T, TreeOf(q, T), NEW p, p.root = q.root, p.treeTop = q.treeTop,
         p.trees \in Seq(TreeNode), DOMAIN p.trees = DOMAIN q.trees,
         \A i \in DOMAIN q.trees :
           Alike(q.trees, p.trees, i) /\ p.trees[i].next = q.trees[i].next
  PROVE  TreeOf(p, T)
<1>1. PICK lo, hi : Searchable(q.trees, q.root, T, lo, hi)
  BY DEF TreeOf, AVLTree
<1>2. T \subseteq DOMAIN q.trees
  BY <1>1 DEF Searchable, Tree
<1>3. AVLTree(p.trees, p.root, T)
  <2>1. \A i \in T : Alike(q.trees, p.trees, i)
    BY <1>2
  <2>2. Searchable(p.trees, q.root, T, lo, hi)
    BY <1>1, <1>2, <2>1, SearchableAlike
  <2> QED
    BY <2>2 DEF AVLTree
<1>4. Idle(p.trees, T)
  BY DEF TreeOf, Idle, Alike
<1>5. \A i \in T : p.trees[i].next = NIL
  BY <1>2 DEF TreeOf
<1>6. \E S : StackIs(FreeNext(p.trees), p.treeTop, S, DOMAIN p.trees \ T)
  <2>1. PICK S : StackIs(FreeNext(q.trees), q.treeTop, S, DOMAIN q.trees \ T)
    BY DEF TreeOf
  <2> DEFINE next == FreeNext(q.trees)
             next2 == FreeNext(p.trees)
             free == DOMAIN q.trees \ T
  <2>2. DOMAIN next2 = DOMAIN q.trees /\ \A i \in DOMAIN q.trees : next2[i] = next[i]
    BY DEF FreeNext
  <2>3. free \subseteq DOMAIN next2 /\ \A i \in free : next2[i] = next[i]
    BY <2>2
  <2> HIDE DEF next, next2, free
  <2>4. StackIs(next, q.treeTop, S, free)
    BY <2>1 DEF next, free
  <2>5. StackIs(next2, q.treeTop, S, free)
    BY <2>3, <2>4, StackKept
  <2> QED
    BY <2>5 DEF next2, free
<1> QED
  BY <1>3, <1>4, <1>5, <1>6 DEF TreeOf

(* What holds of the nodes of a queue.                                     *)
QueueFacts(q, T, A, home, age) ==
  /\ q \in QueueType /\ T \subseteq DOMAIN q.trees /\ A \subseteq DOMAIN q.lists
  /\ \A h \in T : /\ h \in Nat /\ h # NIL /\ q.trees[h] \in TreeNode
                  /\ q.trees[h].key \in 1..HiInsertionKey
  /\ \A g, h \in T : q.trees[g].key = q.trees[h].key => g = h
  /\ \A i \in A : /\ i \in Nat /\ i # NIL /\ home[i] \in T /\ age[i] \in Nat
                  /\ q.values[i] = q.trees[home[i]].key /\ q.values[i] \in Nat
  /\ \A i, j \in A : q.values[i] = q.values[j] => home[i] = home[j]
  /\ \A i, j \in A : age[i] = age[j] => i = j
  /\ home \in [Nat -> Nat] /\ age \in [Nat -> Nat]
  /\ DOMAIN q.values = DOMAIN q.lists
  /\ \A h \in T : q.trees[h].head \in A /\ q.trees[h].tail \in A
  /\ \A h \in T : home[q.trees[h].head] = h /\ home[q.trees[h].tail] = h
  /\ NIL \notin DOMAIN q.lists

(* The facts about a queue that hold for any of the nodes follow from      *)
(* its lists.                                                              *)
LEMMA QueueFactsHold ==
  ASSUME NEW q \in QueueType, NEW T, NEW A, NEW home, NEW age, TreeOf(q, T),
         ListsOf(q, T, A, home, age)
  PROVE  QueueFacts(q, T, A, home, age)
<1>1. PICK lo, hi : Searchable(q.trees, q.root, T, lo, hi)
  BY DEF TreeOf, AVLTree
<1>2. Tree(q.trees, q.root, T, lo, hi)
  BY <1>1 DEF Searchable
<1>3. T \subseteq DOMAIN q.trees /\ \A g, h \in T : q.trees[g].key = q.trees[h].key => g = h
  BY <1>2 DEF Tree
<1>4. \A i \in DOMAIN q.trees : i \in Nat /\ i # NIL /\ q.trees[i] \in TreeNode
  BY <1>2, TreeTypes
<1>5. ASSUME NEW h \in T
      PROVE  q.trees[h].key \in 1..HiInsertionKey
  <2> DEFINE key == q.trees[h].key
             a == lo[h]
             b == hi[h]
  <2>1. key \in Nat /\ a \in Nat /\ b \in Nat /\ a < key /\ key < b
        /\ b <= HiInsertionKey + 1 /\ HiInsertionKey \in Nat
    BY <1>2, NodeBounds
  <2> HIDE DEF key, a, b
  <2>2. key \in 1..HiInsertionKey
    BY ONLY <2>1
  <2> QED
    BY <2>2 DEF key
<1>6. A \subseteq DOMAIN q.lists /\ home \in [Nat -> Nat] /\ age \in [Nat -> Nat]
      /\ \A i, j \in A : age[i] = age[j] => i = j
  BY DEF ListsOf, Links
<1>7. \A i \in DOMAIN q.lists : i \in Nat /\ i # NIL
  <2>1. q.lists \in Seq(ListNode)
    BY DEF QueueType
  <2> QED
    BY <2>1 DEF NIL
<1>8. DOMAIN q.values = DOMAIN q.lists
      /\ \A i \in A : home[i] \in T /\ q.values[i] = q.trees[home[i]].key
  BY DEF ListsOf, Homes
<1>9. \A i \in A : q.values[i] \in Nat
  <2>1. q.values \in Seq(Nat)
    BY DEF QueueType
  <2>2. \A i \in DOMAIN q.values : q.values[i] \in Nat
    BY <2>1
  <2> QED
    BY <2>2, <1>6, <1>8
<1>10. \A h \in T : /\ q.trees[h].head \in A /\ q.trees[h].tail \in A
                    /\ home[q.trees[h].head] = h /\ home[q.trees[h].tail] = h
  BY DEF ListsOf, Ends, EndHolds
<1>11. \A i, j \in A : q.values[i] = q.values[j] => home[i] = home[j]
  BY <1>3, <1>8
<1>12. \A h \in T : h \in Nat /\ h # NIL /\ q.trees[h] \in TreeNode /\ q.trees[h].key \in 1..HiInsertionKey
  BY <1>3, <1>4, <1>5
<1>13. \A i \in A : i \in Nat /\ i # NIL /\ age[i] \in Nat
  BY <1>6, <1>7
<1> QED
  BY <1>3, <1>6, <1>7, <1>8, <1>9, <1>10, <1>11, <1>12, <1>13 DEF QueueFacts

(* What an insertion does to the list nodes.                               *)
NodesAdded(q, q2, A, id, key) ==
  /\ q2.ascending = q.ascending
  /\ q2.values[id] = key /\ \A i \in A : q2.values[i] = q.values[i]
  /\ DOMAIN q2.lists = DOMAIN q.lists \cup {id}
  /\ q2.listTop = IF q.listTop = NIL THEN NIL ELSE q.lists[id].next.id
  /\ \A i \in DOMAIN q.lists \ A : i # id => q2.lists[i].next = q.lists[i].next

(* What insert_list_node does to list nodes and values, whatever it does   *)
(* to trees.                                                               *)
LEMMA NodesAddedIs ==
  ASSUME NEW q \in QueueType, NEW A, A \subseteq DOMAIN q.lists, DOMAIN q.values = DOMAIN q.lists,
         NEW p, NEW anchor, NEW value, NEW id, id \notin A, ListAdded(q, p, id, anchor, value),
         anchor # NIL => q.trees[anchor].tail \in A,
         NEW q2, q2.lists = p.lists, q2.values = p.values, q2.listTop = p.listTop,
         q2.ascending = p.ascending
  PROVE  NodesAdded(q, q2, A, id, value)
<1>1. \A i \in DOMAIN q.lists \ A : ~(anchor # NIL /\ i = q.trees[anchor].tail)
  OBVIOUS
<1>2. \A i \in A : i \in DOMAIN q.values /\ i # id
  OBVIOUS
<1> QED
  BY <1>1, <1>2 DEF ListAdded, NodesAdded

(* The ends of the lists after the newest node joined one.                 *)
LEMMA AddedEnds ==
  ASSUME NEW q \in QueueType, NEW T, NEW A, NEW home, NEW age, QueueFacts(q, T, A, home, age),
         Ends(q, T, A, home, age),
         NEW p, NEW anchor \in T, NEW value, NEW id \in Nat, id \notin A,
         ListAdded(q, p, id, anchor, value), NEW now \in Nat, \A i \in A : age[i] < now
  PROVE  Ends(p, T, A \cup {id}, Aged(home, id, anchor), Aged(age, id, now))
<1> DEFINE home2 == Aged(home, id, anchor)
           age2 == Aged(age, id, now)
           A2 == A \cup {id}
<1>1. /\ home2[id] = anchor /\ age2[id] = now
      /\ \A i \in A : home2[i] = home[i] /\ age2[i] = age[i] /\ age[i] \in Nat /\ age[i] < now
  BY DEF QueueFacts, Aged
<1>2. T \subseteq DOMAIN q.trees /\ anchor # NIL /\ q.trees[anchor] \in TreeNode
  BY DEF QueueFacts
<1>3. /\ \A h \in T : h # anchor => p.trees[h] = q.trees[h]
      /\ p.trees[anchor] = [q.trees[anchor] EXCEPT !.tail = id]
  BY <1>2 DEF ListAdded
<1>4. p.trees[anchor].head = q.trees[anchor].head /\ p.trees[anchor].tail = id
  BY <1>2, <1>3 DEF TreeNode
<1> HIDE DEF home2, age2, A2
<1>5. ASSUME NEW h \in T
      PROVE  EndHolds(A2, home2, age2, "next", h, p.trees[h].head)
  <2>1. EndHolds(A, home, age, "next", h, q.trees[h].head)
    BY DEF Ends
  <2>2. p.trees[h].head = q.trees[h].head
    BY <1>3, <1>4
  <2> DEFINE i == q.trees[h].head
  <2>3. i \in A /\ home[i] = h /\ \A j \in A : home[j] = h => ~(age[j] < age[i])
    BY <2>1 DEF EndHolds, Before
  <2> HIDE DEF i
  <2>4. \A j \in A2 : home2[j] = h => ~(age2[j] < age2[i])
    BY <2>3, <1>1 DEF A2
  <2>5. EndHolds(A2, home2, age2, "next", h, i)
    BY <2>3, <2>4, <1>1 DEF EndHolds, Before, A2
  <2> QED
    BY <2>2, <2>5 DEF i
<1>6. ASSUME NEW h \in T
      PROVE  EndHolds(A2, home2, age2, "last", h, p.trees[h].tail)
  <2>1. CASE h = anchor
    <3>1. \A j \in A2 : ~(age2[id] < age2[j])
      BY <1>1 DEF A2
    <3> QED
      BY <3>1, <2>1, <1>1, <1>4 DEF EndHolds, Before, A2
  <2>2. CASE h # anchor
    <3>1. EndHolds(A, home, age, "last", h, q.trees[h].tail)
      BY DEF Ends
    <3> DEFINE i == q.trees[h].tail
    <3>2. i \in A /\ home[i] = h /\ \A j \in A : home[j] = h => ~(age[i] < age[j])
      BY <3>1 DEF EndHolds, Before
    <3> HIDE DEF i
    <3>3. \A j \in A2 : home2[j] = h => ~(age2[i] < age2[j])
      BY <3>2, <2>2, <1>1 DEF A2
    <3>4. EndHolds(A2, home2, age2, "last", h, i)
      BY <3>2, <3>3, <1>1 DEF EndHolds, Before, A2
    <3> QED
      BY <3>4, <2>2, <1>3 DEF i
  <2> QED
    BY <2>1, <2>2
<1>7. Ends(p, T, A2, home2, age2)
  BY <1>5, <1>6 DEF Ends
<1> QED
  BY <1>7 DEF A2, home2, age2

(* An insertion, of a key as the newest entry.                             *)
Inserted(q, r, A, home, age, now, key) ==
  LET id == NextList(q)
  IN /\ id \in Nat /\ id # NIL /\ id \notin A
     /\ NodesAdded(q, r.queue, A, id, key)
     /\ \E T2, h :
          /\ h \in Nat
          /\ AVLQueue(r.queue, T2, A \cup {id}, Aged(home, id, h), Aged(age, id, now))
          /\ r.access = Access(key, id, h)

(* The parts of a queue of which only the cached ends were set.            *)
LEMMA BodyHolds ==
  ASSUME NEW p, NEW T, NEW A, NEW home, NEW age, TreeOf(p, T), ListsOf(p, T, A, home, age),
         NEW q2 \in QueueType, BodyKept(p, q2), CacheHolds(q2, A, age)
  PROVE  AVLQueue(q2, T, A, home, age)
BY DEF BodyKept, TreeOf, ListsOf, FreeLists, Ends, Homes, AVLQueue

(* In the list of the node with the key.                                   *)
LEMMA InsertListHolds ==
  ASSUME NEW q, NEW T, NEW A, NEW home, NEW age, AVLQueue(q, T, A, home, age),
         NEW now \in Nat, \A i \in A : age[i] < now,
         NEW x \in T, NEW key \in Nat, q.trees[x].key = key
  PROVE  LET q2 == InsertCheckHeadTail(InsertListNode(q, x, key), key, NextList(q))
         IN Inserted(q, [queue |-> q2, access |-> Access(key, NextList(q), x)],
                     A, home, age, now, key)
<1> DEFINE id == NextList(q)
           p == InsertListNode(q, x, key)
           q2 == InsertCheckHeadTail(p, key, id)
           home2 == Aged(home, id, x)
           age2 == Aged(age, id, now)
           A2 == A \cup {id}
<1>1. q \in QueueType /\ TreeOf(q, T) /\ ListsOf(q, T, A, home, age) /\ CacheHolds(q, A, age)
  BY DEF AVLQueue
<1>2. QueueFacts(q, T, A, home, age)
  BY <1>1, QueueFactsHold
<1>3. Links(q.lists, A, home, age) /\ FreeLists(q, A) /\ Ends(q, T, A, home, age) /\ Homes(q, T, A, home)
  BY <1>1 DEF ListsOf
<1>4. /\ A \subseteq DOMAIN q.lists /\ DOMAIN q.values = DOMAIN q.lists
      /\ x \in DOMAIN q.trees /\ x # NIL /\ x \in Nat /\ q.trees[x].tail \in A
      /\ home \in [Nat -> Nat] /\ age \in [Nat -> Nat]
  BY <1>2 DEF QueueFacts
<1>5. id \in Nat /\ id # NIL /\ id \notin A
  BY <1>1, <1>3, <1>4, NextListIs
<1>6. NextTree(q) \in Nat
  BY <1>1, NextTreeIs
<1>7. ListAdded(q, p, id, x, key)
  BY <1>1, <1>3, <1>4, <1>6, ListAddedIs
<1> HIDE DEF p
<1>8. p \in QueueType
  BY <1>7 DEF ListAdded
<1>9. TreeOf(p, T)
  <2>1. /\ p.root = q.root /\ p.treeTop = q.treeTop /\ DOMAIN p.trees = DOMAIN q.trees
        /\ \A h \in DOMAIN q.trees : h # x => p.trees[h] = q.trees[h]
        /\ p.trees[x] = [q.trees[x] EXCEPT !.tail = id]
    BY <1>4, <1>7 DEF ListAdded
  <2>2. p.trees \in Seq(TreeNode) /\ \A h \in DOMAIN q.trees : q.trees[h] \in TreeNode
    BY <1>1, <1>8, QueueFields
  <2>3. ASSUME NEW h \in DOMAIN q.trees
        PROVE  Alike(q.trees, p.trees, h) /\ p.trees[h].next = q.trees[h].next
    <3>1. CASE h = x
      BY <3>1, <2>1, <2>2, <1>5 DEF Alike, TreeNode
    <3>2. CASE h # x
      BY <3>2, <2>1, <2>2 DEF Alike
    <3> QED
      BY <3>1, <3>2
  <2> QED
    BY <2>1, <2>2, <2>3, <1>1, TreeOfAlike
<1>10. Links(p.lists, A2, home2, age2)
  <2>1. EndHolds(A, home, age, "last", x, q.trees[x].tail)
    BY <1>3 DEF Ends
  <2>2. x = IF x = NIL THEN NextTree(q) ELSE x
    BY <1>4
  <2> HIDE DEF id
  <2> QED
    BY <2>1, <2>2, <1>1, <1>3, <1>4, <1>5, <1>7, AddedLinks
<1>11. FreeLists(p, A2)
  BY <1>1, <1>3, <1>4, <1>7, AddedFree
<1>12. Ends(p, T, A2, home2, age2)
  <2> HIDE DEF id
  <2> QED
    BY <1>1, <1>2, <1>3, <1>5, <1>7, AddedEnds
<1>13. NodesAdded(q, p, A, id, key)
  <2> HIDE DEF id
  <2> QED
    BY <1>1, <1>4, <1>5, <1>7, NodesAddedIs
<1> HIDE DEF id, home2, age2, A2
<1>14. /\ home2[id] = x /\ age2[id] = now /\ age2 \in [Nat -> Nat]
       /\ \A i \in A : home2[i] = home[i] /\ age2[i] = age[i] /\ age[i] < now
  BY <1>2, <1>4, <1>5 DEF QueueFacts, home2, age2, Aged
<1>15. Homes(p, T, A2, home2)
  <2>1. DOMAIN p.values = DOMAIN p.lists
    BY <1>4, <1>7 DEF ListAdded
  <2>2. \A h \in T : p.trees[h].key = q.trees[h].key
    <3>1. ASSUME NEW h \in T
          PROVE  p.trees[h].key = q.trees[h].key
      <4>1. h \in DOMAIN q.trees /\ q.trees[h] \in TreeNode
        BY <1>2 DEF QueueFacts
      <4>2. CASE h = x
        BY <4>1, <4>2, <1>4, <1>7 DEF ListAdded, TreeNode
      <4>3. CASE h # x
        BY <4>1, <4>3, <1>7 DEF ListAdded
      <4> QED
        BY <4>2, <4>3
    <3> QED
      BY <3>1
  <2>3. /\ p.values[id] = key /\ \A i \in A : p.values[i] = q.values[i]
    BY <1>13 DEF NodesAdded
  <2>4. \A i \in A : home[i] \in T /\ q.values[i] = q.trees[home[i]].key
    BY <1>2 DEF QueueFacts
  <2> QED
    BY <2>1, <2>2, <2>3, <2>4, <1>14 DEF Homes, A2
<1>16. ListsOf(p, T, A2, home2, age2)
  BY <1>10, <1>11, <1>12, <1>15 DEF ListsOf
<1>17. q2 \in QueueType /\ BodyKept(p, q2) /\ CacheHolds(q2, A2, age2)
  <2>1. \A i \in A : p.values[i] = q.values[i] /\ age2[i] = age[i]
    BY <1>13, <1>14 DEF NodesAdded
  <2>2. p.head = q.head /\ p.tail = q.tail /\ p.ascending = q.ascending
    BY <1>7 DEF ListAdded
  <2>3. CacheHolds(p, A, age2)
    BY <2>1, <2>2, <1>1, CacheKept
  <2>4. \A i \in A : i \in Nat /\ i # NIL /\ p.values[i] \in Nat
    BY <2>1, <1>2 DEF QueueFacts
  <2>5. p.values[id] = key /\ \A i \in A : age2[i] < age2[id]
    BY <1>13, <1>14 DEF NodesAdded
  <2> QED
    BY <2>3, <2>4, <2>5, <1>5, <1>8, <1>14, CacheAdded DEF A2
<1> HIDE DEF q2
<1>18. AVLQueue(q2, T, A2, home2, age2)
  BY <1>9, <1>16, <1>17, BodyHolds
<1>19. NodesAdded(q, q2, A, id, key)
  BY <1>13, <1>17 DEF NodesAdded, BodyKept
<1> DEFINE res == [queue |-> q2, access |-> Access(key, id, x)]
<1>20. res.queue = q2 /\ res.access = Access(key, id, x)
  OBVIOUS
<1> HIDE DEF res
<1>21. Inserted(q, res, A, home, age, now, key)
  BY <1>4, <1>5, <1>18, <1>19, <1>20 DEF Inserted, A2, home2, age2, id
<1> QED
  BY <1>21 DEF res, q2, p, id

(* At a new tree node.                                                     *)
LEMMA InsertTreeHolds ==
  ASSUME NEW q, NEW T, NEW A, NEW home, NEW age, AVLQueue(q, T, A, home, age),
         NEW now \in Nat, \A i \in A : age[i] < now,
         NEW key \in 1..HiInsertionKey, NEW match, match = Search(q, key),
         match.node # NIL => match.leaf # "none"
  PROVE  LET q2 == InsertCheckHeadTail(Plant(InsertListNode(q, NIL, key), key, match, NextList(q)),
                                       key, NextList(q))
         IN Inserted(q, [queue |-> q2, access |-> Access(key, NextList(q), NextTree(q))],
                     A, home, age, now, key)
<1> DEFINE id == NextList(q)
           x == NextTree(q)
           p0 == InsertListNode(q, NIL, key)
           p == Plant(p0, key, match, id)
           q2 == InsertCheckHeadTail(p, key, id)
           home2 == Aged(home, id, x)
           age2 == Aged(age, id, now)
           A2 == A \cup {id}
           T2 == T \cup {x}
<1>1. q \in QueueType /\ TreeOf(q, T) /\ ListsOf(q, T, A, home, age) /\ CacheHolds(q, A, age)
  BY DEF AVLQueue
<1>2. QueueFacts(q, T, A, home, age)
  BY <1>1, QueueFactsHold
<1>3. Links(q.lists, A, home, age) /\ FreeLists(q, A) /\ Ends(q, T, A, home, age) /\ Homes(q, T, A, home)
  BY <1>1 DEF ListsOf
<1>4. /\ A \subseteq DOMAIN q.lists /\ DOMAIN q.values = DOMAIN q.lists
      /\ home \in [Nat -> Nat] /\ age \in [Nat -> Nat] /\ T \subseteq DOMAIN q.trees
  BY <1>2 DEF QueueFacts
<1>5. id \in Nat /\ id # NIL /\ id \notin A
  BY <1>1, <1>3, <1>4, NextListIs
<1>6. x \in Nat /\ x # NIL /\ x \notin T
  BY <1>1, NextTreeIs
<1>k. key \in Nat
  BY QueueAssumption
<1>7. ListAdded(q, p0, id, NIL, key)
  BY <1>1, <1>3, <1>4, <1>6, <1>k, ListAddedIs
<1>8. p0.trees = q.trees
  BY <1>1 DEF InsertListNode, QueueType
<1> HIDE DEF p0
<1>9. p0 \in QueueType /\ p0.root = q.root /\ p0.treeTop = q.treeTop
  BY <1>7 DEF ListAdded
<1>10. TreeOf(p0, T)
  BY <1>1, <1>8, <1>9 DEF TreeOf
<1>11. NextTree(p0) = x /\ match = Search(p0, key)
  BY <1>8, <1>9 DEF NextTree, Search
<1>12. TreeAdded(p0, p, T, x, key, id)
  <2> HIDE DEF p, id
  <2>1. TreeAdded(p0, Plant(p0, key, match, id), T, NextTree(p0), key, id)
    BY <1>5, <1>9, <1>10, <1>11, PlantHolds
  <2> QED
    BY <2>1, <1>11 DEF p
<1> HIDE DEF p
<1>13. /\ p \in QueueType /\ TreeOf(p, T2) /\ p.lists = p0.lists /\ p.values = p0.values
       /\ p.listTop = p0.listTop /\ p.ascending = p0.ascending
       /\ p.head = p0.head /\ p.tail = p0.tail
       /\ p.trees[x].key = key /\ p.trees[x].head = id /\ p.trees[x].tail = id
       /\ \A i \in DOMAIN q.trees : i # x => SameKept(p.trees[i], q.trees[i])
  BY <1>8, <1>12 DEF TreeAdded, ListsKept
<1>14. Links(p.lists, A2, home2, age2)
  <2>1. \A i \in A : home[i] # x
    BY <1>2, <1>6 DEF QueueFacts
  <2>2. x = IF NIL = NIL THEN NextTree(q) ELSE NIL
    OBVIOUS
  <2> HIDE DEF id, x
  <2>3. Links(p0.lists, A2, home2, age2)
    BY <2>1, <2>2, <1>1, <1>3, <1>5, <1>6, <1>7, AddedLinks
  <2> QED
    BY <2>3, <1>13
<1>15. FreeLists(p, A2)
  <2>1. FreeLists(p0, A2)
    BY <1>1, <1>3, <1>4, <1>7, AddedFree
  <2> QED
    BY <2>1, <1>13 DEF FreeLists
<1>16. NodesAdded(q, p, A, id, key)
  <2> HIDE DEF id
  <2> QED
    BY <1>1, <1>4, <1>5, <1>7, <1>13, NodesAddedIs
<1> HIDE DEF id, home2, age2, A2, x
<1>17. /\ home2[id] = x /\ age2[id] = now /\ age2 \in [Nat -> Nat]
       /\ \A i \in A : home2[i] = home[i] /\ age2[i] = age[i] /\ age[i] < now /\ home[i] \in T
  BY <1>2, <1>4, <1>5 DEF QueueFacts, home2, age2, Aged
<1>18. \A h \in T : h # x /\ SameKept(p.trees[h], q.trees[h])
  BY <1>4, <1>6, <1>13
<1>19. Ends(p, T2, A2, home2, age2)
  <2>1. ASSUME NEW h \in T, NEW dir, NEW i, EndHolds(A, home, age, dir, h, i)
        PROVE  EndHolds(A2, home2, age2, dir, h, i)
    <3>1. \A j \in A2 : home2[j] = h => j \in A
      BY <1>6, <1>17 DEF A2
    <3>2. i \in A /\ home[i] = h /\ \A j \in A : home[j] = h => ~Before(age, dir, j, i)
      BY <2>1 DEF EndHolds
    <3>3. \A j \in A : Before(age2, dir, j, i) <=> Before(age, dir, j, i)
      BY <3>2, <1>17 DEF Before
    <3> QED
      BY <3>1, <3>2, <3>3, <1>17 DEF EndHolds, A2
  <2>2. ASSUME NEW dir
        PROVE  EndHolds(A2, home2, age2, dir, x, id)
    <3>1. \A j \in A2 : home2[j] = x => j = id
      BY <1>6, <1>17 DEF A2
    <3>2. ~Before(age2, dir, id, id)
      BY <1>17 DEF Before
    <3> QED
      BY <3>1, <3>2, <1>17 DEF EndHolds, A2
  <2>3. \A h \in T : /\ EndHolds(A, home, age, "next", h, q.trees[h].head)
                     /\ EndHolds(A, home, age, "last", h, q.trees[h].tail)
    BY <1>3 DEF Ends
  <2>4. \A h \in T : p.trees[h].head = q.trees[h].head /\ p.trees[h].tail = q.trees[h].tail
    BY <1>18 DEF SameKept
  <2>5. \A h \in T : /\ EndHolds(A2, home2, age2, "next", h, p.trees[h].head)
                     /\ EndHolds(A2, home2, age2, "last", h, p.trees[h].tail)
    BY <2>1, <2>3, <2>4
  <2> QED
    BY <2>2, <2>5, <1>13 DEF Ends
<1>20. Homes(p, T2, A2, home2)
  <2>1. DOMAIN p.values = DOMAIN p.lists
    BY <1>4, <1>7, <1>13 DEF ListAdded
  <2>2. /\ p.values[id] = key /\ \A i \in A : p.values[i] = q.values[i]
    BY <1>16 DEF NodesAdded
  <2>3. \A i \in A : home[i] \in T /\ q.values[i] = q.trees[home[i]].key
    BY <1>2 DEF QueueFacts
  <2>4. \A h \in T : p.trees[h].key = q.trees[h].key
    BY <1>18 DEF SameKept
  <2> QED
    BY <2>1, <2>2, <2>3, <2>4, <1>13, <1>17 DEF Homes, A2
<1>21. ListsOf(p, T2, A2, home2, age2)
  BY <1>14, <1>15, <1>19, <1>20 DEF ListsOf
<1>22. q2 \in QueueType /\ BodyKept(p, q2) /\ CacheHolds(q2, A2, age2)
  <2>1. \A i \in A : p.values[i] = q.values[i] /\ age2[i] = age[i]
    BY <1>16, <1>17 DEF NodesAdded
  <2>2. p.head = q.head /\ p.tail = q.tail /\ p.ascending = q.ascending
    BY <1>7, <1>13 DEF ListAdded
  <2>3. CacheHolds(p, A, age2)
    BY <2>1, <2>2, <1>1, CacheKept
  <2>4. \A i \in A : i \in Nat /\ i # NIL /\ p.values[i] \in Nat
    BY <2>1, <1>2 DEF QueueFacts
  <2>5. p.values[id] = key /\ \A i \in A : age2[i] < age2[id]
    BY <1>16, <1>17 DEF NodesAdded
  <2> QED
    BY <2>3, <2>4, <2>5, <1>5, <1>k, <1>13, <1>17, CacheAdded DEF A2
<1> HIDE DEF q2
<1>23. AVLQueue(q2, T2, A2, home2, age2)
  <2> HIDE DEF T2
  <2> QED
    BY <1>13, <1>21, <1>22, BodyHolds
<1>24. NodesAdded(q, q2, A, id, key)
  BY <1>16, <1>22 DEF NodesAdded, BodyKept
<1> DEFINE res == [queue |-> q2, access |-> Access(key, id, x)]
<1>25. res.queue = q2 /\ res.access = Access(key, id, x)
  OBVIOUS
<1> HIDE DEF res
<1>26. Inserted(q, res, A, home, age, now, key)
  BY <1>5, <1>6, <1>23, <1>24, <1>25 DEF Inserted, A2, home2, age2, id
<1> QED
  BY <1>26 DEF res, q2, p, p0, id, x

(* Inserting a key keeps the queue.                                        *)
LEMMA InsertHolds ==
  ASSUME NEW q, NEW T, NEW A, NEW home, NEW age, AVLQueue(q, T, A, home, age),
         NEW now \in Nat, \A i \in A : age[i] < now, NEW key \in 1..HiInsertionKey
  PROVE  Inserted(q, Insert(q, key), A, home, age, now, key)
<1> DEFINE match == Search(q, key)
<1>1. q \in QueueType /\ TreeOf(q, T)
  BY DEF AVLQueue
<1>2. PICK lo, hi : Searchable(q.trees, q.root, T, lo, hi)
  BY <1>1 DEF TreeOf, AVLTree
<1>3. Tree(q.trees, q.root, T, lo, hi) /\ Idle(q.trees, T)
  BY <1>1, <1>2 DEF Searchable, TreeOf
<1>4. Found(q.trees, T, lo, hi, key, match)
  BY <1>3, SearchFinds
<1>5. key \in Nat
  BY QueueAssumption
<1>6. Insert(q, key) = InsertMatched(q, key, match)
  BY DEF Insert
<1> HIDE DEF match
<1>7. CASE match.node # NIL /\ match.leaf = "none"
  <2>1. match.node \in T /\ q.trees[match.node].key = key
    BY <1>4, <1>7 DEF Found, Sides
  <2>2. InsertMatched(q, key, match) =
          [queue |-> InsertCheckHeadTail(InsertListNode(q, match.node, key), key, NextList(q)),
           access |-> Access(key, NextList(q), match.node)]
    BY <1>7 DEF InsertMatched
  <2> QED
    BY <2>1, <2>2, <1>5, <1>6, InsertListHolds
<1>8. CASE ~(match.node # NIL /\ match.leaf = "none")
  <2>1. InsertMatched(q, key, match) =
          [queue |-> InsertCheckHeadTail(Plant(InsertListNode(q, NIL, key), key, match, NextList(q)),
                                         key, NextList(q)),
           access |-> Access(key, NextList(q), NextTree(q))]
    BY <1>8 DEF InsertMatched, Plant
  <2> QED
    BY <2>1, <1>6, <1>8, InsertTreeHolds DEF match
<1> QED
  BY <1>7, <1>8

-----------------------------------------------------------------------------
(* Removal of a list node.                                                 *)

(* A queue of which a field of one list node, or tree node, was set.       *)
SetNextLink(q, i, link) == [q EXCEPT !.lists[i].next = link]
SetLastLink(q, i, link) == [q EXCEPT !.lists[i].last = link]
SetHead(q, h, id) == [q EXCEPT !.trees[h].head = id]
SetTail(q, h, id) == [q EXCEPT !.trees[h].tail = id]

(* All but the nodes.                                                      *)
RestKept(q, p) ==
  /\ p.ascending = q.ascending /\ p.root = q.root /\ p.treeTop = q.treeTop
  /\ p.head = q.head /\ p.tail = q.tail /\ p.listTop = q.listTop /\ p.values = q.values

(* Setting one link of a list node.                                        *)
LEMMA LinkSet ==
  ASSUME NEW q \in QueueType, NEW i \in DOMAIN q.lists, NEW link \in Link
  PROVE  /\ LET p == SetNextLink(q, i, link)
            IN /\ p \in QueueType /\ RestKept(q, p) /\ p.trees = q.trees
               /\ DOMAIN p.lists = DOMAIN q.lists
               /\ p.lists[i].next = link /\ p.lists[i].last = q.lists[i].last
               /\ \A j \in DOMAIN q.lists : j # i => p.lists[j] = q.lists[j]
         /\ LET p == SetLastLink(q, i, link)
            IN /\ p \in QueueType /\ RestKept(q, p) /\ p.trees = q.trees
               /\ DOMAIN p.lists = DOMAIN q.lists
               /\ p.lists[i].last = link /\ p.lists[i].next = q.lists[i].next
               /\ \A j \in DOMAIN q.lists : j # i => p.lists[j] = q.lists[j]
<1>1. q.lists \in Seq(ListNode) /\ q.lists[i] \in ListNode
  BY DEF QueueType
<1>2. ASSUME NEW n \in ListNode, NEW p, p = [q EXCEPT !.lists = [q.lists EXCEPT ![i] = n]]
      PROVE  /\ p \in QueueType /\ RestKept(q, p) /\ p.trees = q.trees
             /\ DOMAIN p.lists = DOMAIN q.lists /\ p.lists[i] = n
             /\ \A j \in DOMAIN q.lists : j # i => p.lists[j] = q.lists[j]
  <2> DEFINE lists == [q.lists EXCEPT ![i] = n]
  <2>1. SetIn(ListNode, q.lists, lists, i, n)
    BY <1>1, SetInIs
  <2>2. lists \in Seq(ListNode) /\ DOMAIN lists = DOMAIN q.lists /\ lists[i] = n
        /\ \A j \in DOMAIN q.lists : j # i => lists[j] = q.lists[j]
    BY <2>1 DEF SetIn
  <2>3. p = [q EXCEPT !.lists = lists]
    BY <1>2
  <2> HIDE DEF lists
  <2>4. p \in QueueType /\ RestKept(q, p) /\ p.trees = q.trees /\ p.lists = lists
    BY <2>2, <2>3 DEF QueueType, RestKept
  <2> QED
    BY <2>2, <2>4
<1> DEFINE n1 == [q.lists[i] EXCEPT !.next = link]
           n2 == [q.lists[i] EXCEPT !.last = link]
           p1 == SetNextLink(q, i, link)
           p2 == SetLastLink(q, i, link)
<1>3. /\ n1 \in ListNode /\ n1.next = link /\ n1.last = q.lists[i].last
      /\ n2 \in ListNode /\ n2.last = link /\ n2.next = q.lists[i].next
  BY <1>1 DEF ListNode
<1>4. /\ p1 = [q EXCEPT !.lists = [q.lists EXCEPT ![i] = n1]]
      /\ p2 = [q EXCEPT !.lists = [q.lists EXCEPT ![i] = n2]]
  BY DEF SetNextLink, SetLastLink, QueueType
<1> HIDE DEF n1, n2, p1, p2
<1>5. /\ p1 \in QueueType /\ RestKept(q, p1) /\ p1.trees = q.trees
      /\ DOMAIN p1.lists = DOMAIN q.lists /\ p1.lists[i] = n1
      /\ \A j \in DOMAIN q.lists : j # i => p1.lists[j] = q.lists[j]
  BY <1>2, <1>3, <1>4
<1>6. /\ p2 \in QueueType /\ RestKept(q, p2) /\ p2.trees = q.trees
      /\ DOMAIN p2.lists = DOMAIN q.lists /\ p2.lists[i] = n2
      /\ \A j \in DOMAIN q.lists : j # i => p2.lists[j] = q.lists[j]
  BY <1>2, <1>3, <1>4
<1> QED
  BY <1>3, <1>5, <1>6 DEF p1, p2

(* A tree node of which an end of the list, or both, are others.           *)
EndsAre(n, r, head, tail) ==
  /\ n \in TreeNode /\ n.key = r.key /\ n.parent = r.parent /\ n.next = r.next
  /\ \A s \in Sides : n.child[s] = r.child[s] /\ n.height[s] = r.height[s]
  /\ n.head = head /\ n.tail = tail

(* Setting the head or the tail of a tree node.                            *)
LEMMA EndSet ==
  ASSUME NEW q \in QueueType, NEW h \in DOMAIN q.trees, NEW id \in Nat
  PROVE  /\ LET p == SetHead(q, h, id)
            IN /\ p \in QueueType /\ RestKept(q, p) /\ p.lists = q.lists
               /\ DOMAIN p.trees = DOMAIN q.trees
               /\ EndsAre(p.trees[h], q.trees[h], id, q.trees[h].tail)
               /\ \A j \in DOMAIN q.trees : j # h => p.trees[j] = q.trees[j]
         /\ LET p == SetTail(q, h, id)
            IN /\ p \in QueueType /\ RestKept(q, p) /\ p.lists = q.lists
               /\ DOMAIN p.trees = DOMAIN q.trees
               /\ EndsAre(p.trees[h], q.trees[h], q.trees[h].head, id)
               /\ \A j \in DOMAIN q.trees : j # h => p.trees[j] = q.trees[j]
<1>1. q.trees \in Seq(TreeNode) /\ q.trees[h] \in TreeNode
  BY DEF QueueType
<1>2. ASSUME NEW n \in TreeNode, NEW p, p = [q EXCEPT !.trees = [q.trees EXCEPT ![h] = n]]
      PROVE  /\ p \in QueueType /\ RestKept(q, p) /\ p.lists = q.lists
             /\ DOMAIN p.trees = DOMAIN q.trees /\ p.trees[h] = n
             /\ \A j \in DOMAIN q.trees : j # h => p.trees[j] = q.trees[j]
  <2> DEFINE trees == [q.trees EXCEPT ![h] = n]
  <2>1. /\ trees \in Seq(TreeNode) /\ DOMAIN trees = DOMAIN q.trees /\ trees[h] = n
        /\ \A j \in DOMAIN q.trees : j # h => trees[j] = q.trees[j]
    BY <1>1, NodeSet
  <2>2. p = [q EXCEPT !.trees = trees]
    BY <1>2
  <2> HIDE DEF trees
  <2>3. p \in QueueType /\ RestKept(q, p) /\ p.lists = q.lists /\ p.trees = trees
    BY <2>1, <2>2 DEF QueueType, RestKept
  <2> QED
    BY <2>1, <2>3
<1> DEFINE n1 == [q.trees[h] EXCEPT !.head = id]
           n2 == [q.trees[h] EXCEPT !.tail = id]
           p1 == SetHead(q, h, id)
           p2 == SetTail(q, h, id)
<1>3. /\ EndsAre(n1, q.trees[h], id, q.trees[h].tail)
      /\ EndsAre(n2, q.trees[h], q.trees[h].head, id)
  BY <1>1 DEF TreeNode, EndsAre
<1>4. /\ p1 = [q EXCEPT !.trees = [q.trees EXCEPT ![h] = n1]]
      /\ p2 = [q EXCEPT !.trees = [q.trees EXCEPT ![h] = n2]]
  BY DEF SetHead, SetTail, QueueType
<1>5. n1 \in TreeNode /\ n2 \in TreeNode
  BY <1>3 DEF EndsAre
<1> HIDE DEF n1, n2, p1, p2
<1>6. /\ p1 \in QueueType /\ RestKept(q, p1) /\ p1.lists = q.lists
      /\ DOMAIN p1.trees = DOMAIN q.trees /\ p1.trees[h] = n1
      /\ \A j \in DOMAIN q.trees : j # h => p1.trees[j] = q.trees[j]
  BY <1>2, <1>4, <1>5
<1>7. /\ p2 \in QueueType /\ RestKept(q, p2) /\ p2.lists = q.lists
      /\ DOMAIN p2.trees = DOMAIN q.trees /\ p2.trees[h] = n2
      /\ \A j \in DOMAIN q.trees : j # h => p2.trees[j] = q.trees[j]
  BY <1>2, <1>4, <1>5
<1> QED
  BY <1>3, <1>6, <1>7 DEF p1, p2

(* What removing a list node does: the nodes on its sides, or the ends of  *)
(* its list, are linked to one another, unless it was alone.               *)
ListDropped(q, p, id) ==
  LET node == q.lists[id]
      alone == node.last.tree /\ node.next.tree
  IN /\ p \in QueueType
     /\ p.ascending = q.ascending /\ p.root = q.root /\ p.treeTop = q.treeTop
     /\ p.head = q.head /\ p.tail = q.tail /\ p.listTop = id
     /\ DOMAIN p.lists = DOMAIN q.lists /\ DOMAIN p.values = DOMAIN q.values
     /\ \A i \in DOMAIN q.values : i # id => p.values[i] = q.values[i]
     /\ p.lists[id].next = ToList(q.listTop)
     /\ \A i \in DOMAIN q.lists : i # id =>
          /\ p.lists[i].next = IF ~node.last.tree /\ i = node.last.id THEN node.next
                               ELSE q.lists[i].next
          /\ p.lists[i].last = IF ~node.next.tree /\ i = node.next.id THEN node.last
                               ELSE q.lists[i].last
     /\ DOMAIN p.trees = DOMAIN q.trees
     /\ \A h \in DOMAIN q.trees :
          EndsAre(p.trees[h], q.trees[h],
                  IF ~alone /\ node.last.tree /\ h = node.last.id THEN node.next.id
                  ELSE q.trees[h].head,
                  IF ~alone /\ node.next.tree /\ h = node.next.id THEN node.last.id
                  ELSE q.trees[h].tail)

(* What remove_list_node sets: the neighbors, which are list nodes or      *)
(* the tree node.                                                          *)
LEMMA ListDroppedIs ==
  ASSUME NEW q \in QueueType, NEW id \in DOMAIN q.lists, DOMAIN q.values = DOMAIN q.lists,
         q.lists[id].last.tree => q.lists[id].last.id \in DOMAIN q.trees,
         ~q.lists[id].last.tree => q.lists[id].last.id \in DOMAIN q.lists \ {id},
         q.lists[id].next.tree => q.lists[id].next.id \in DOMAIN q.trees,
         ~q.lists[id].next.tree => q.lists[id].next.id \in DOMAIN q.lists \ {id}
  PROVE  ListDropped(q, RemoveListNode(q, id), id)
<1> DEFINE node == q.lists[id]
           l == node.last
           n == node.next
           off == [last |-> ToList(NIL), next |-> ToList(q.listTop)]
           lists0 == [q.lists EXCEPT ![id] = off]
           values0 == [q.values EXCEPT ![id] = NIL]
           freed == [q EXCEPT !.lists[id] = off, !.values[id] = NIL, !.listTop = id]
           first == IF l.tree THEN SetHead(freed, l.id, n.id) ELSE SetNextLink(freed, l.id, n)
           p == RemoveListNode(q, id)
<1>1. p = IF l.tree /\ n.tree THEN freed
          ELSE IF n.tree THEN SetTail(first, n.id, l.id) ELSE SetLastLink(first, n.id, l)
  BY DEF RemoveListNode, SetHead, SetNextLink, SetTail, SetLastLink
<1>2. /\ q.lists \in Seq(ListNode) /\ q.values \in Seq(Nat) /\ q.trees \in Seq(TreeNode)
      /\ id \in Nat /\ node \in ListNode /\ q.listTop \in Nat
  BY DEF QueueType
<1>3. l \in Link /\ n \in Link /\ l.id \in Nat /\ n.id \in Nat
  BY <1>2 DEF ListNode, Link
<1>4. off \in ListNode /\ off.next = ToList(q.listTop)
  <2>1. NIL \in Nat
    BY DEF NIL
  <2> QED
    BY <2>1, <1>2, LinkTypes
<1>5. freed = [q EXCEPT !.lists = lists0, !.values = values0, !.listTop = id]
  BY DEF QueueType
<1>6. /\ lists0 \in Seq(ListNode) /\ DOMAIN lists0 = DOMAIN q.lists /\ lists0[id] = off
      /\ \A i \in DOMAIN q.lists : i # id => lists0[i] = q.lists[i]
  <2> HIDE DEF off
  <2>1. SetIn(ListNode, q.lists, lists0, id, off)
    BY <1>2, <1>4, SetInIs
  <2> QED
    BY <2>1 DEF SetIn
<1>7. /\ values0 \in Seq(Nat) /\ DOMAIN values0 = DOMAIN q.values
      /\ \A i \in DOMAIN q.values : i # id => values0[i] = q.values[i]
  <2>1. SetIn(Nat, q.values, values0, id, NIL)
    BY <1>2, SetInIs DEF NIL
  <2> QED
    BY <2>1 DEF SetIn
<1>8. \A h \in DOMAIN q.trees : q.trees[h] \in TreeNode
  BY <1>2
<1> HIDE DEF node, l, n, off, lists0, values0, freed
<1>9. /\ freed \in QueueType /\ freed.lists = lists0 /\ freed.values = values0
      /\ freed.listTop = id /\ freed.trees = q.trees
      /\ freed.ascending = q.ascending /\ freed.root = q.root /\ freed.treeTop = q.treeTop
      /\ freed.head = q.head /\ freed.tail = q.tail
  BY <1>2, <1>5, <1>6, <1>7 DEF QueueType
<1>10. /\ l.tree => l.id \in DOMAIN q.trees
       /\ ~l.tree => l.id \in DOMAIN q.lists /\ l.id # id
       /\ n.tree => n.id \in DOMAIN q.trees
       /\ ~n.tree => n.id \in DOMAIN q.lists /\ n.id # id
  BY DEF l, n, node
<1>11. \A h \in DOMAIN q.trees : EndsAre(q.trees[h], q.trees[h], q.trees[h].head, q.trees[h].tail)
  BY <1>8 DEF EndsAre
<1> HIDE DEF first, p
<1>12. CASE l.tree /\ n.tree
  <2>1. p = freed
    BY <1>1, <1>12
  <2> QED
    BY <2>1, <1>4, <1>6, <1>7, <1>9, <1>11, <1>12 DEF ListDropped, p, l, n, node
<1>13. /\ first \in QueueType /\ first.values = values0 /\ first.listTop = id
       /\ first.ascending = q.ascending /\ first.root = q.root /\ first.treeTop = q.treeTop
       /\ first.head = q.head /\ first.tail = q.tail
       /\ DOMAIN first.lists = DOMAIN q.lists /\ DOMAIN first.trees = DOMAIN q.trees
       /\ first.lists[id] = off
       /\ \A i \in DOMAIN q.lists : i # id =>
            /\ first.lists[i].next = IF ~l.tree /\ i = l.id THEN n ELSE q.lists[i].next
            /\ first.lists[i].last = q.lists[i].last
       /\ \A h \in DOMAIN q.trees :
            EndsAre(first.trees[h], q.trees[h], IF l.tree /\ h = l.id THEN n.id ELSE q.trees[h].head,
                    q.trees[h].tail)
  <2>1. CASE l.tree
    <3>1. first = SetHead(freed, l.id, n.id)
      BY <2>1 DEF first
    <3>2. /\ first \in QueueType /\ RestKept(freed, first) /\ first.lists = freed.lists
          /\ DOMAIN first.trees = DOMAIN freed.trees
          /\ EndsAre(first.trees[l.id], freed.trees[l.id], n.id, freed.trees[l.id].tail)
          /\ \A j \in DOMAIN freed.trees : j # l.id => first.trees[j] = freed.trees[j]
      BY <3>1, <2>1, <1>3, <1>9, <1>10, EndSet
    <3> QED
      BY <3>2, <2>1, <1>6, <1>9, <1>10, <1>11 DEF RestKept
  <2>2. CASE ~l.tree
    <3>1. first = SetNextLink(freed, l.id, n)
      BY <2>2 DEF first
    <3>2. /\ first \in QueueType /\ RestKept(freed, first) /\ first.trees = freed.trees
          /\ DOMAIN first.lists = DOMAIN freed.lists
          /\ first.lists[l.id].next = n /\ first.lists[l.id].last = freed.lists[l.id].last
          /\ \A j \in DOMAIN freed.lists : j # l.id => first.lists[j] = freed.lists[j]
      BY <3>1, <2>2, <1>3, <1>6, <1>9, <1>10, LinkSet
    <3> QED
      BY <3>2, <2>2, <1>2, <1>6, <1>9, <1>10, <1>11 DEF RestKept
  <2> QED
    BY <2>1, <2>2
<1>14. CASE ~l.tree /\ n.tree
  <2>1. p = SetTail(first, n.id, l.id)
    BY <1>1, <1>14
  <2>2. /\ p \in QueueType /\ RestKept(first, p) /\ p.lists = first.lists
        /\ DOMAIN p.trees = DOMAIN first.trees
        /\ EndsAre(p.trees[n.id], first.trees[n.id], first.trees[n.id].head, l.id)
        /\ \A j \in DOMAIN first.trees : j # n.id => p.trees[j] = first.trees[j]
    BY <2>1, <1>3, <1>10, <1>13, <1>14, EndSet
  <2>3. ASSUME NEW h \in DOMAIN q.trees
        PROVE  EndsAre(p.trees[h], q.trees[h], q.trees[h].head,
                       IF h = n.id THEN l.id ELSE q.trees[h].tail)
    <3>1. EndsAre(first.trees[h], q.trees[h], q.trees[h].head, q.trees[h].tail)
      BY <1>13, <1>14
    <3>2. CASE h = n.id
      BY <3>1, <3>2, <2>2 DEF EndsAre
    <3>3. CASE h # n.id
      BY <3>1, <3>3, <2>2, <1>13
    <3> QED
      BY <3>2, <3>3
  <2>8. \A h \in DOMAIN q.trees :
          EndsAre(p.trees[h], q.trees[h],
                  IF ~(l.tree /\ n.tree) /\ l.tree /\ h = l.id THEN n.id ELSE q.trees[h].head,
                  IF ~(l.tree /\ n.tree) /\ n.tree /\ h = n.id THEN l.id ELSE q.trees[h].tail)
    BY <2>3, <1>14
  <2>9. \A i \in DOMAIN q.lists : i # id =>
          /\ p.lists[i].next = IF ~l.tree /\ i = l.id THEN n ELSE q.lists[i].next
          /\ p.lists[i].last = IF ~n.tree /\ i = n.id THEN l ELSE q.lists[i].last
    BY <2>2, <1>13, <1>14
  <2>10. /\ p \in QueueType
         /\ p.ascending = q.ascending /\ p.root = q.root /\ p.treeTop = q.treeTop
         /\ p.head = q.head /\ p.tail = q.tail /\ p.listTop = id
         /\ DOMAIN p.lists = DOMAIN q.lists /\ DOMAIN p.values = DOMAIN q.values
         /\ DOMAIN p.trees = DOMAIN q.trees
         /\ \A i \in DOMAIN q.values : i # id => p.values[i] = q.values[i]
         /\ p.lists[id].next = ToList(q.listTop)
    BY <2>2, <1>4, <1>7, <1>13 DEF RestKept
  <2>11. ListDropped(q, p, id)
    BY <2>8, <2>9, <2>10 DEF ListDropped, l, n, node
  <2> QED
    BY <2>11 DEF p
<1>15. CASE ~n.tree
  <2>1. p = SetLastLink(first, n.id, l)
    BY <1>1, <1>15
  <2>2. /\ p \in QueueType /\ RestKept(first, p) /\ p.trees = first.trees
        /\ DOMAIN p.lists = DOMAIN first.lists
        /\ p.lists[n.id].last = l /\ p.lists[n.id].next = first.lists[n.id].next
        /\ \A j \in DOMAIN first.lists : j # n.id => p.lists[j] = first.lists[j]
    BY <2>1, <1>3, <1>10, <1>13, <1>15, LinkSet
  <2>3. \A i \in DOMAIN q.lists : i # id =>
          /\ p.lists[i].next = IF ~l.tree /\ i = l.id THEN n ELSE q.lists[i].next
          /\ p.lists[i].last = IF i = n.id THEN l ELSE q.lists[i].last
    BY <2>2, <1>10, <1>13, <1>15
  <2>4. p.lists[id] = off
    BY <2>2, <1>2, <1>10, <1>13, <1>15
  <2>8. \A h \in DOMAIN q.trees :
          EndsAre(p.trees[h], q.trees[h],
                  IF ~(l.tree /\ n.tree) /\ l.tree /\ h = l.id THEN n.id ELSE q.trees[h].head,
                  IF ~(l.tree /\ n.tree) /\ n.tree /\ h = n.id THEN l.id ELSE q.trees[h].tail)
    BY <2>2, <1>13, <1>15
  <2>9. \A i \in DOMAIN q.lists : i # id =>
          /\ p.lists[i].next = IF ~l.tree /\ i = l.id THEN n ELSE q.lists[i].next
          /\ p.lists[i].last = IF ~n.tree /\ i = n.id THEN l ELSE q.lists[i].last
    BY <2>3, <1>15
  <2>10. /\ p \in QueueType
         /\ p.ascending = q.ascending /\ p.root = q.root /\ p.treeTop = q.treeTop
         /\ p.head = q.head /\ p.tail = q.tail /\ p.listTop = id
         /\ DOMAIN p.lists = DOMAIN q.lists /\ DOMAIN p.values = DOMAIN q.values
         /\ DOMAIN p.trees = DOMAIN q.trees
         /\ \A i \in DOMAIN q.values : i # id => p.values[i] = q.values[i]
         /\ p.lists[id].next = ToList(q.listTop)
    BY <2>2, <2>4, <1>4, <1>7, <1>13 DEF RestKept
  <2>11. ListDropped(q, p, id)
    BY <2>8, <2>9, <2>10 DEF ListDropped, l, n, node
  <2> QED
    BY <2>11 DEF p
<1>16. ~(l.tree /\ n.tree) => (~l.tree /\ n.tree) \/ ~n.tree
  BY <1>3 DEF Link
<1> QED
  BY <1>12, <1>14, <1>15, <1>16

-----------------------------------------------------------------------------
(* The lists after a node was removed.                                     *)

Ids(A) == A \subseteq Nat
Back(dir) == IF dir = "next" THEN "last" ELSE "next"

(* In a direction, the nodes are in a total order.                         *)
InOrder(A, age, dir) ==
  /\ \A i, j \in A : Before(age, dir, i, j) \/ Before(age, dir, j, i) \/ i = j
  /\ \A i, j \in A : Before(age, dir, i, j) => ~Before(age, dir, j, i) /\ i # j
  /\ \A i, j, k \in A : Before(age, dir, i, j) /\ Before(age, dir, j, k) => Before(age, dir, i, k)
  /\ \A i, j \in A : Before(age, Back(dir), i, j) <=> Before(age, dir, j, i)

(* The ages order them.                                                    *)
LEMMA AgesOrder ==
  ASSUME NEW A, Ids(A), NEW age \in [Nat -> Nat],
         \A i, j \in A : age[i] = age[j] => i = j, NEW dir \in {"next", "last"}
  PROVE  InOrder(A, age, dir)
<1>1. \A i \in A : age[i] \in Nat
  BY DEF Ids
<1>2. CASE dir = "next"
  <2>1. \A i, j \in A : /\ Before(age, dir, i, j) <=> age[i] < age[j]
                        /\ Before(age, Back(dir), i, j) <=> age[j] < age[i]
    BY <1>2 DEF Before, Back
  <2> QED
    BY <1>1, <2>1 DEF InOrder
<1>3. CASE dir = "last"
  <2>1. \A i, j \in A : /\ Before(age, dir, i, j) <=> age[j] < age[i]
                        /\ Before(age, Back(dir), i, j) <=> age[i] < age[j]
    BY <1>3 DEF Before, Back
  <2> QED
    BY <1>1, <2>1 DEF InOrder
<1> QED
  BY <1>2, <1>3

(* A node is alone in its list.                                            *)
Alone(lists, id) == lists[id].last.tree /\ lists[id].next.tree

(* The link of the removed node leads to another one, or to its tree node. *)
LEMMA LinkIn ==
  ASSUME NEW lists, NEW A, Ids(A), NEW home, NEW age, Links(lists, A, home, age),
         NEW dir \in {"next", "last"}
  PROVE  /\ InOrder(A, age, dir)
         /\ \A id \in A :
              /\ LinkHolds(lists, A, home, age, dir, id)
              /\ lists[id][dir].tree => lists[id][dir].id = home[id]
              /\ ~lists[id][dir].tree => /\ lists[id][dir].id \in A \ {id}
                                         /\ home[lists[id][dir].id] = home[id]
<1>1. InOrder(A, age, dir)
  BY AgesOrder DEF Links
<1>2. \A id \in A : LinkHolds(lists, A, home, age, dir, id)
  BY DEF Links
<1>3. \A id \in A : /\ lists[id][dir].tree => lists[id][dir].id = home[id]
                    /\ ~lists[id][dir].tree => /\ lists[id][dir].id \in A
                                               /\ Before(age, dir, id, lists[id][dir].id)
                                               /\ home[lists[id][dir].id] = home[id]
  BY <1>2 DEF LinkHolds
<1> QED
  BY <1>1, <1>2, <1>3 DEF InOrder

(* The links of the others, in a direction.                                *)
LEMMA DroppedLink ==
  ASSUME NEW lists, NEW A, Ids(A), NEW home, NEW age, Links(lists, A, home, age),
         NEW id \in A, NEW dir \in {"next", "last"}, NEW lists2, NEW i \in A \ {id},
         lists2[i][dir] = IF ~lists[id][Back(dir)].tree /\ i = lists[id][Back(dir)].id
                          THEN lists[id][dir] ELSE lists[i][dir]
  PROVE  LinkHolds(lists2, A \ {id}, home, age, dir, i)
<1>1. /\ InOrder(A, age, dir) /\ LinkHolds(lists, A, home, age, dir, i)
      /\ LinkHolds(lists, A, home, age, dir, id)
      /\ LinkHolds(lists, A, home, age, Back(dir), id)
  <2>1. Back(dir) \in {"next", "last"}
    BY DEF Back
  <2> QED
    BY <2>1, LinkIn
<1>2. CASE ~lists[id][Back(dir)].tree /\ i = lists[id][Back(dir)].id
  <2>1. home[i] = home[id] /\ Before(age, dir, i, id)
    BY <1>1, <1>2 DEF LinkHolds, InOrder
  <2>2. \A j \in A \ {id} : home[j] = home[i] /\ Before(age, dir, i, j) => Before(age, dir, id, j)
    BY <1>1, <1>2, <2>1 DEF LinkHolds, InOrder
  <2>3. lists2[i][dir] = lists[id][dir]
    BY <1>2
  <2>4. CASE lists[id][dir].tree
    BY <1>1, <2>1, <2>2, <2>3, <2>4 DEF LinkHolds
  <2>5. CASE ~lists[id][dir].tree
    <3>1. /\ lists[id][dir].id \in A \ {id} /\ home[lists[id][dir].id] = home[i]
          /\ Before(age, dir, i, lists[id][dir].id)
      BY <1>1, <2>1, <2>5 DEF LinkHolds, InOrder
    <3>2. \A j \in A \ {id} : home[j] = home[i] =>
            ~(Before(age, dir, i, j) /\ Before(age, dir, j, lists[id][dir].id))
      BY <1>1, <2>1, <2>2, <2>5 DEF LinkHolds
    <3> QED
      BY <2>3, <2>5, <3>1, <3>2 DEF LinkHolds
  <2> QED
    BY <2>4, <2>5
<1>3. CASE ~(~lists[id][Back(dir)].tree /\ i = lists[id][Back(dir)].id)
  <2>1. lists2[i][dir] = lists[i][dir]
    BY <1>3
  <2>2. ~(~lists[i][dir].tree /\ lists[i][dir].id = id)
    <3>1. SUFFICES ASSUME ~lists[i][dir].tree, lists[i][dir].id = id
                   PROVE  FALSE
      OBVIOUS
    <3>2. /\ home[id] = home[i] /\ Before(age, dir, i, id)
          /\ \A j \in A : home[j] = home[i] => ~(Before(age, dir, i, j) /\ Before(age, dir, j, id))
      BY <1>1, <3>1 DEF LinkHolds
    <3>3. ~lists[id][Back(dir)].tree
      BY <1>1, <3>2 DEF LinkHolds, InOrder
    <3> DEFINE k == lists[id][Back(dir)].id
    <3>4. /\ k \in A /\ home[k] = home[id] /\ Before(age, Back(dir), id, k)
          /\ \A j \in A : home[j] = home[id] =>
               ~(Before(age, Back(dir), id, j) /\ Before(age, Back(dir), j, k))
      BY <1>1, <3>3 DEF LinkHolds
    <3>5. k = i
      BY <1>1, <3>2, <3>4 DEF InOrder
    <3> QED
      BY <1>3, <3>3, <3>5
  <2> QED
    BY <1>1, <2>1, <2>2 DEF LinkHolds
<1> QED
  BY <1>2, <1>3

(* The ends of the lists that are left.                                    *)
LEMMA DroppedEnd ==
  ASSUME NEW lists, NEW A, Ids(A), NEW home, NEW age, Links(lists, A, home, age),
         NEW id \in A, NEW dir \in {"next", "last"}, NEW h, NEW e,
         EndHolds(A, home, age, dir, h, e), ~Alone(lists, id) \/ h # home[id],
         NEW e2, e2 = IF ~Alone(lists, id) /\ lists[id][Back(dir)].tree /\ h = lists[id][Back(dir)].id
                      THEN lists[id][dir].id ELSE e
  PROVE  EndHolds(A \ {id}, home, age, dir, h, e2)
<1>1. /\ InOrder(A, age, dir) /\ LinkHolds(lists, A, home, age, dir, id)
      /\ LinkHolds(lists, A, home, age, Back(dir), id)
      /\ lists[id][Back(dir)].tree => lists[id][Back(dir)].id = home[id]
  <2>1. Back(dir) \in {"next", "last"}
    BY DEF Back
  <2> QED
    BY <2>1, LinkIn
<1>2. Alone(lists, id) <=> lists[id][dir].tree /\ lists[id][Back(dir)].tree
  BY DEF Alone, Back
<1>3. CASE h # home[id]
  BY <1>1, <1>3 DEF EndHolds
<1>4. CASE h = home[id] /\ lists[id][Back(dir)].tree
  <2>1. ~lists[id][dir].tree /\ e2 = lists[id][dir].id
    BY <1>1, <1>2, <1>4
  <2>2. /\ e2 \in A \ {id} /\ home[e2] = h
        /\ \A j \in A : home[j] = h => ~(Before(age, dir, id, j) /\ Before(age, dir, j, e2))
    BY <1>1, <1>4, <2>1 DEF LinkHolds, InOrder
  <2>3. \A j \in A \ {id} : home[j] = h => Before(age, dir, id, j)
    BY <1>1, <1>4 DEF LinkHolds, InOrder
  <2> QED
    BY <2>2, <2>3 DEF EndHolds
<1>5. CASE h = home[id] /\ ~lists[id][Back(dir)].tree
  <2>1. e # id
    BY <1>1, <1>5 DEF LinkHolds, InOrder, EndHolds
  <2> QED
    BY <1>5, <2>1 DEF EndHolds
<1> QED
  BY <1>3, <1>4, <1>5

(* The removed node is on top of the stack.                                *)
LEMMA DroppedFree ==
  ASSUME NEW q \in QueueType, NEW A, A \subseteq DOMAIN q.lists, FreeLists(q, A),
         NEW home, NEW age, Links(q.lists, A, home, age),
         NEW id \in A, NEW p, ListDropped(q, p, id)
  PROVE  FreeLists(p, A \ {id})
<1> DEFINE free == DOMAIN q.lists \ A
           free2 == DOMAIN p.lists \ (A \ {id})
<1>1. PICK S : StackIs(ListNext(q.lists), q.listTop, S, free)
  BY DEF FreeLists
<1>2. Ids(A) /\ id # NIL
  BY QueueFields, ElementOfSeq DEF NIL, Ids
<1>3. ~q.lists[id].last.tree => q.lists[id].last.id \in A
  BY <1>2, LinkIn
<1>4. DOMAIN p.lists = DOMAIN q.lists /\ p.lists[id].next = ToList(q.listTop) /\ p.listTop = id
  BY DEF ListDropped
<1>5. \A i \in free : p.lists[i].next = q.lists[i].next
  BY <1>3 DEF ListDropped
<1>6. free2 = free \cup {id} /\ id \notin free
  BY <1>4
<1>7. /\ \A i \in free : ListNext(p.lists)[i] = ListNext(q.lists)[i]
      /\ DOMAIN ListNext(p.lists) = DOMAIN q.lists
      /\ ListNext(p.lists)[id] = q.listTop
  BY <1>4, <1>5 DEF ListNext, ToList
<1>8. StackIs(ListNext(p.lists), id, Append(S, id), free \cup {id})
  <2> HIDE DEF free
  <2>1. free \cup {id} \subseteq DOMAIN ListNext(p.lists)
    BY <1>4, <1>7 DEF free
  <2> QED
    BY <1>1, <1>2, <1>6, <1>7, <2>1, StackPush
<1>9. \A i \in free2 : ~p.lists[i].next.tree
  <2>1. \A i \in free : ~q.lists[i].next.tree
    BY DEF FreeLists
  <2> QED
    BY <2>1, <1>4, <1>5, <1>6 DEF ToList
<1> QED
  <2> HIDE DEF free, free2
  <2>1. StackIs(ListNext(p.lists), p.listTop, Append(S, id), free2)
    BY <1>4, <1>6, <1>8
  <2> QED
    BY <2>1, <1>9 DEF FreeLists, free2

(* The queue after a list node was removed, but not yet its tree node, if  *)
(* that was its only one.                                                  *)
TreesLeft(q, T, home, id) == IF Alone(q.lists, id) THEN T \ {home[id]} ELSE T

(* The lists after remove_list_node are lists, with one node less, and     *)
(* the tree is as it was.                                                  *)
LEMMA RemoveListHolds ==
  ASSUME NEW q, NEW T, NEW A, NEW home, NEW age, AVLQueue(q, T, A, home, age), NEW id \in A,
         NEW p, p = RemoveListNode(q, id)
  PROVE  /\ ListDropped(q, p, id) /\ TreeOf(p, T)
         /\ ListsOf(p, TreesLeft(q, T, home, id), A \ {id}, home, age)
         /\ Alone(q.lists, id) => \A j \in A : home[j] = home[id] => j = id
<1>1. /\ q \in QueueType /\ TreeOf(q, T) /\ ListsOf(q, T, A, home, age)
      /\ QueueFacts(q, T, A, home, age)
  BY QueueFactsHold DEF AVLQueue
<1>2. /\ A \subseteq DOMAIN q.lists /\ Ids(A) /\ T \subseteq DOMAIN q.trees
      /\ \A i \in A : home[i] \in T
  BY <1>1 DEF QueueFacts, Ids
<1>3. /\ Links(q.lists, A, home, age) /\ FreeLists(q, A) /\ Ends(q, T, A, home, age)
      /\ Homes(q, T, A, home)
  BY <1>1 DEF ListsOf
<1>4. \A dir \in {"next", "last"} :
         /\ InOrder(A, age, dir) /\ LinkHolds(q.lists, A, home, age, dir, id)
         /\ q.lists[id][dir].tree => q.lists[id][dir].id = home[id]
         /\ ~q.lists[id][dir].tree => q.lists[id][dir].id \in A \ {id}
  <2>1. SUFFICES ASSUME NEW dir \in {"next", "last"}
                 PROVE  /\ InOrder(A, age, dir) /\ LinkHolds(q.lists, A, home, age, dir, id)
                        /\ q.lists[id][dir].tree => q.lists[id][dir].id = home[id]
                        /\ ~q.lists[id][dir].tree => q.lists[id][dir].id \in A \ {id}
    OBVIOUS
  <2> DEFINE nodes == q.lists
  <2>2. Links(nodes, A, home, age)
    BY <1>3
  <2> HIDE DEF nodes
  <2>3. /\ InOrder(A, age, dir) /\ LinkHolds(nodes, A, home, age, dir, id)
        /\ nodes[id][dir].tree => nodes[id][dir].id = home[id]
        /\ ~nodes[id][dir].tree => nodes[id][dir].id \in A \ {id}
    <3>1. Ids(A)
      BY <1>2
    <3>2. /\ InOrder(A, age, dir)
         /\ \A i \in A :
              /\ LinkHolds(nodes, A, home, age, dir, i)
              /\ nodes[i][dir].tree => nodes[i][dir].id = home[i]
              /\ ~nodes[i][dir].tree => /\ nodes[i][dir].id \in A \ {i}
                                        /\ home[nodes[i][dir].id] = home[i]
      BY <3>1, <2>2, LinkIn
    <3> QED
      BY <3>2
  <2> QED
    BY <2>3 DEF nodes
<1>5. /\ q.lists[id].next.tree => q.lists[id].next.id = home[id]
      /\ ~q.lists[id].next.tree => q.lists[id].next.id \in A \ {id}
      /\ q.lists[id].last.tree => q.lists[id].last.id = home[id]
      /\ ~q.lists[id].last.tree => q.lists[id].last.id \in A \ {id}
  BY <1>4
<1>6. ListDropped(q, p, id)
  <2>1. DOMAIN q.values = DOMAIN q.lists /\ id \in DOMAIN q.lists
    BY <1>1, <1>2 DEF QueueFacts
  <2>2. home[id] \in DOMAIN q.trees
    BY <1>2
  <2> QED
    BY <1>1, <1>2, <1>5, <2>1, <2>2, ListDroppedIs
<1>7. TreeOf(p, T)
  <2>1. /\ p.root = q.root /\ p.treeTop = q.treeTop /\ DOMAIN p.trees = DOMAIN q.trees
        /\ p.trees \in Seq(TreeNode)
    BY <1>6, QueueFields DEF ListDropped
  <2>2. \A i \in DOMAIN q.trees :
           Alike(q.trees, p.trees, i) /\ p.trees[i].next = q.trees[i].next
    BY <1>6 DEF ListDropped, EndsAre, Alike
  <2> QED
    BY <1>1, <2>1, <2>2, TreeOfAlike
<1>8. FreeLists(p, A \ {id})
  BY <1>1, <1>2, <1>3, <1>6, DroppedFree
<1>9. Alone(q.lists, id) => \A j \in A : home[j] = home[id] => j = id
  <2>2. LinkHolds(q.lists, A, home, age, "next", id) /\ LinkHolds(q.lists, A, home, age, "last", id)
    BY <1>4
  <2>3. InOrder(A, age, "next")
    BY <1>4
  <2>4. \A j \in A : Before(age, "last", id, j) <=> Before(age, "next", j, id)
    BY DEF Before
  <2> QED
    BY <2>2, <2>3, <2>4 DEF Alone, LinkHolds, InOrder
<1>10. Links(p.lists, A \ {id}, home, age)
  <2>1. /\ DOMAIN p.lists = DOMAIN q.lists
        /\ \A i \in A \ {id} :
             /\ p.lists[i]["next"] = IF ~q.lists[id]["last"].tree /\ i = q.lists[id]["last"].id
                                     THEN q.lists[id]["next"] ELSE q.lists[i]["next"]
             /\ p.lists[i]["last"] = IF ~q.lists[id]["next"].tree /\ i = q.lists[id]["next"].id
                                     THEN q.lists[id]["last"] ELSE q.lists[i]["last"]
    BY <1>2, <1>6 DEF ListDropped
  <2>2. Back("next") = "last" /\ Back("last") = "next"
    BY DEF Back
  <2> DEFINE nodes == q.lists
             nodes2 == p.lists
  <2>3. Links(nodes, A, home, age)
    BY <1>3
  <2>4. \A i \in A \ {id} :
             /\ nodes2[i]["next"] = IF ~nodes[id]["last"].tree /\ i = nodes[id]["last"].id
                                    THEN nodes[id]["next"] ELSE nodes[i]["next"]
             /\ nodes2[i]["last"] = IF ~nodes[id]["next"].tree /\ i = nodes[id]["next"].id
                                    THEN nodes[id]["last"] ELSE nodes[i]["last"]
    BY <2>1
  <2> HIDE DEF nodes, nodes2
  <2>5. \A i \in A \ {id} : LinkHolds(nodes2, A \ {id}, home, age, "next", i)
    BY <1>2, <2>2, <2>3, <2>4, DroppedLink
  <2>6. \A i \in A \ {id} : LinkHolds(nodes2, A \ {id}, home, age, "last", i)
    BY <1>2, <2>2, <2>3, <2>4, DroppedLink, ZenonT(40)
  <2>7. Links(nodes2, A \ {id}, home, age)
    <3>1. A \ {id} \subseteq DOMAIN nodes2
      BY <1>2, <2>1 DEF nodes2
    <3> QED
      BY <3>1, <2>3, <2>5, <2>6 DEF Links
  <2> QED
    BY <2>7 DEF nodes2
<1>11. Ends(p, TreesLeft(q, T, home, id), A \ {id}, home, age)
  <2>1. SUFFICES ASSUME NEW h \in TreesLeft(q, T, home, id)
                 PROVE  /\ EndHolds(A \ {id}, home, age, "next", h, p.trees[h].head)
                        /\ EndHolds(A \ {id}, home, age, "last", h, p.trees[h].tail)
    BY DEF Ends
  <2>2. /\ h \in T /\ (~Alone(q.lists, id) \/ h # home[id])
        /\ EndHolds(A, home, age, "next", h, q.trees[h].head)
        /\ EndHolds(A, home, age, "last", h, q.trees[h].tail)
    BY <1>3 DEF TreesLeft, Ends
  <2>3. Back("next") = "last" /\ Back("last") = "next"
    BY DEF Back
  <2>4. EndsAre(p.trees[h], q.trees[h],
                IF ~(q.lists[id].last.tree /\ q.lists[id].next.tree)
                     /\ q.lists[id].last.tree /\ h = q.lists[id].last.id
                THEN q.lists[id].next.id ELSE q.trees[h].head,
                IF ~(q.lists[id].last.tree /\ q.lists[id].next.tree)
                     /\ q.lists[id].next.tree /\ h = q.lists[id].next.id
                THEN q.lists[id].last.id ELSE q.trees[h].tail)
    BY <1>2, <1>6, <2>2 DEF ListDropped
  <2>5. /\ p.trees[h].head = IF ~Alone(q.lists, id) /\ q.lists[id]["last"].tree
                                  /\ h = q.lists[id]["last"].id
                             THEN q.lists[id]["next"].id ELSE q.trees[h].head
        /\ p.trees[h].tail = IF ~Alone(q.lists, id) /\ q.lists[id]["next"].tree
                                  /\ h = q.lists[id]["next"].id
                             THEN q.lists[id]["last"].id ELSE q.trees[h].tail
    BY <2>4 DEF EndsAre, Alone
  <2>6. EndHolds(A \ {id}, home, age, "next", h, p.trees[h].head)
    BY <1>2, <1>3, <2>2, <2>3, <2>5, DroppedEnd
  <2>7. EndHolds(A \ {id}, home, age, "last", h, p.trees[h].tail)
    BY <1>2, <1>3, <2>2, <2>3, <2>5, DroppedEnd
  <2> QED
    BY <2>6, <2>7
<1>12. Homes(p, TreesLeft(q, T, home, id), A \ {id}, home)
  <2>1. /\ DOMAIN p.values = DOMAIN p.lists
        /\ \A i \in A \ {id} : p.values[i] = q.values[i]
        /\ \A h \in T : p.trees[h].key = q.trees[h].key
    BY <1>1, <1>2, <1>6 DEF ListDropped, QueueFacts, EndsAre
  <2>2. \A i \in A \ {id} : home[i] \in TreesLeft(q, T, home, id)
    BY <1>2, <1>9 DEF TreesLeft
  <2> QED
    BY <1>1, <1>2, <2>1, <2>2 DEF Homes, QueueFacts
<1>13. ListsOf(p, TreesLeft(q, T, home, id), A \ {id}, home, age)
  BY <1>8, <1>10, <1>11, <1>12 DEF ListsOf
<1> QED
  BY <1>6, <1>7, <1>9, <1>13

-----------------------------------------------------------------------------
(* The ends of the queue after a node was removed.                         *)

(* The order of the queue from an end of it, where the keys increase to    *)
(* the side and the ages in the direction.                                 *)
Farther(side, a, b) == IF side = "right" THEN a < b ELSE b < a
Sooner(q, age, side, dir, i, j) ==
  Farther(side, q.values[i], q.values[j]) \/ (q.values[i] = q.values[j] /\ Before(age, dir, i, j))
EndIs(q, A, age, side, dir, e) ==
  IF A = {} THEN e = NoEnd
  ELSE /\ e.node \in A /\ e.key = q.values[e.node]
       /\ \A j \in A : ~Sooner(q, age, side, dir, j, e.node)

(* Both ends are such.                                                     *)
LEMMA CacheIs ==
  ASSUME NEW q \in QueueType, NEW A, NEW age
  PROVE  CacheHolds(q, A, age) <=>
           /\ EndIs(q, A, age, Other(HeadSide(q)), "next", q.head)
           /\ EndIs(q, A, age, HeadSide(q), "last", q.tail)
<1>1. CASE q.ascending
  <2>1. /\ HeadSide(q) = "left" /\ Other(HeadSide(q)) = "right"
        /\ \A a, b : Better(q, a, b) <=> a < b
    BY <1>1 DEF HeadSide, Other, Better
  <2>2. /\ \A i, j : Sooner(q, age, "right", "next", i, j) <=> Ahead(q, age, i, j)
        /\ \A i, j : Sooner(q, age, "left", "last", i, j) <=> Ahead(q, age, j, i)
    BY <2>1 DEF Sooner, Farther, Ahead, Before
  <2> QED
    BY <2>1, <2>2 DEF CacheHolds, EndIs
<1>2. CASE ~q.ascending
  <2>1. /\ HeadSide(q) = "right" /\ Other(HeadSide(q)) = "left"
        /\ \A a, b : Better(q, a, b) <=> a > b
    BY <1>2 DEF HeadSide, Other, Better
  <2>2. /\ \A i, j : Sooner(q, age, "left", "next", i, j) <=> Ahead(q, age, i, j)
        /\ \A i, j : Sooner(q, age, "right", "last", i, j) <=> Ahead(q, age, j, i)
    BY <2>1 DEF Sooner, Farther, Ahead, Before
  <2> QED
    BY <2>1, <2>2 DEF CacheHolds, EndIs
<1> QED
  BY <1>1, <1>2

(* The next end, when the one that is removed was the end.                 *)
EndOf(dir) == IF dir = "next" THEN "head" ELSE "tail"
NextEnd(q, id, e, dir, y) ==
  IF ~q.lists[id][dir].tree THEN [e EXCEPT !.node = q.lists[id][dir].id]
  ELSE IF y = NIL THEN NoEnd ELSE [node |-> q.trees[y][EndOf(dir)], key |-> q.trees[y].key]

(* What the next end is found from.                                        *)
InLists(q, T, A, home, age) ==
  /\ QueueFacts(q, T, A, home, age) /\ Ids(A)
  /\ Links(q.lists, A, home, age) /\ Ends(q, T, A, home, age)

(* When the end of the queue is removed, the next in its list, or else     *)
(* of the next tree node, is the end.                                      *)
LEMMA NextEndIs ==
  ASSUME NEW q, NEW T, NEW A, NEW home, NEW age, InLists(q, T, A, home, age),
         NEW id \in A, NEW dir \in {"next", "last"}, NEW side \in Sides,
         NEW e \in End, e.node = id, EndIs(q, A, age, side, dir, e),
         NEW y, Neighbor(q.trees, T, home[id], y, side)
  PROVE  EndIs(q, A \ {id}, age, side, dir, NextEnd(q, id, e, dir, y))
<1> DEFINE nodes == q.lists
           link == nodes[id][dir]
           e2 == NextEnd(q, id, e, dir, y)
<1>1. /\ InOrder(A, age, dir) /\ LinkHolds(nodes, A, home, age, dir, id)
      /\ link.tree => link.id = home[id]
      /\ ~link.tree => link.id \in A \ {id} /\ home[link.id] = home[id]
  <2>1. Links(nodes, A, home, age) /\ Ids(A)
    BY DEF InLists
  <2> HIDE DEF nodes
  <2> QED
    BY <2>1, LinkIn DEF link
<1>2. /\ e.key = q.values[id]
      /\ \A j \in A : ~Farther(side, q.values[j], q.values[id])
      /\ \A j \in A : q.values[j] = q.values[id] => ~Before(age, dir, j, id)
  BY DEF EndIs, Sooner
<1>3. /\ \A i \in A : q.values[i] \in Nat /\ q.values[i] = q.trees[home[i]].key /\ home[i] \in T
      /\ \A i, j \in A : q.values[i] = q.values[j] => home[i] = home[j]
      /\ \A h \in T : q.trees[h].key \in Nat
  BY DEF QueueFacts, InLists
<1>4. CASE ~link.tree
  <2>1. e2 = [e EXCEPT !.node = link.id]
    BY <1>4 DEF NextEnd
  <2>2. e2.node = link.id /\ e2.key = e.key
    BY <2>1 DEF End
  <2>3. link.id \in A \ {id} /\ q.values[link.id] = q.values[id]
    BY <1>1, <1>3, <1>4
  <2>4. \A j \in A \ {id} : ~Sooner(q, age, side, dir, j, link.id)
    <3>1. \A j \in A : home[j] = home[id] => ~(Before(age, dir, id, j) /\ Before(age, dir, j, link.id))
      BY <1>1, <1>4 DEF LinkHolds
    <3>2. \A j \in A \ {id} : q.values[j] = q.values[id] => Before(age, dir, id, j)
      BY <1>1, <1>2 DEF InOrder
    <3> QED
      BY <1>2, <1>3, <2>3, <3>1, <3>2 DEF Sooner
  <2> HIDE DEF e2, link
  <2>5. EndIs(q, A \ {id}, age, side, dir, e2)
    BY <1>2, <2>2, <2>3, <2>4 DEF EndIs
  <2> QED
    BY <2>5 DEF e2
<1>5. CASE link.tree
  <2>1. \A j \in A \ {id} : q.values[j] # q.values[id]
    BY <1>1, <1>2, <1>3, <1>5 DEF LinkHolds, InOrder
  <2>2. \A j \in A \ {id} : Farther(side, q.values[id], q.values[j])
    BY <1>2, <1>3, <2>1 DEF Farther
  <2>3. CASE y = NIL
    <3>1. e2 = NoEnd
      BY <1>5, <2>3 DEF NextEnd
    <3>2. A \ {id} = {}
      <4>1. \A j \in T : ~Farther(side, q.trees[home[id]].key, q.trees[j].key)
        BY <2>3 DEF Neighbor, Farther, Sides
      <4> QED
        BY <1>3, <2>2, <4>1
    <3> QED
      BY <3>1, <3>2 DEF EndIs
  <2>4. CASE y # NIL
    <3>1. /\ y \in T /\ Farther(side, q.trees[home[id]].key, q.trees[y].key)
          /\ \A j \in T : ~(/\ Farther(side, q.trees[home[id]].key, q.trees[j].key)
                            /\ Farther(side, q.trees[j].key, q.trees[y].key))
      BY <2>4 DEF Neighbor, Farther, Sides
    <3> DEFINE f == q.trees[y][EndOf(dir)]
    <3>2. e2 = [node |-> f, key |-> q.trees[y].key]
      BY <1>5, <2>4 DEF NextEnd
    <3>3. EndHolds(A, home, age, dir, y, f)
      BY <3>1 DEF Ends, EndOf, InLists
    <3>4. f \in A /\ home[f] = y /\ \A j \in A : home[j] = y => ~Before(age, dir, j, f)
      BY <3>3 DEF EndHolds
    <3>5. f # id
      BY <1>3, <3>1, <3>4 DEF Farther
    <3>6. \A j \in A \ {id} : ~Farther(side, q.values[j], q.values[f])
      BY <1>3, <2>2, <3>1, <3>4
    <3>7. \A j \in A \ {id} : ~Sooner(q, age, side, dir, j, f)
      BY <1>3, <3>4, <3>6 DEF Sooner
    <3> HIDE DEF f, e2
    <3>8. e2.node = f /\ e2.key = q.values[f]
      BY <1>3, <3>2, <3>4
    <3>9. EndIs(q, A \ {id}, age, side, dir, e2)
      BY <3>4, <3>5, <3>7, <3>8 DEF EndIs
    <3> QED
      BY <3>9 DEF e2
  <2> QED
    BY <2>3, <2>4
<1> QED
  BY <1>4, <1>5

(* An end that is not removed.                                             *)
LEMMA EndIsKept ==
  ASSUME NEW q, NEW A, NEW age, NEW side, NEW dir, NEW e, EndIs(q, A, age, side, dir, e),
         NEW id \in A, e.node # id
  PROVE  EndIs(q, A \ {id}, age, side, dir, e)
<1> QED
  BY DEF EndIs

(* Only the values and the ages of the nodes matter.                       *)
LEMMA EndIsSame ==
  ASSUME NEW q, NEW A, NEW age, NEW side, NEW dir, NEW e, EndIs(q, A, age, side, dir, e),
         NEW p, \A i \in A : p.values[i] = q.values[i]
  PROVE  EndIs(p, A, age, side, dir, e)
<1> QED
  BY DEF EndIs, Sooner

(* A queue with other ends.                                                *)
LEMMA WithEnds ==
  ASSUME NEW q \in QueueType, NEW e \in End
  PROVE  /\ LET p == [q EXCEPT !.head = e]
            IN p \in QueueType /\ BodyKept(q, p) /\ p.head = e /\ p.tail = q.tail
         /\ LET p == [q EXCEPT !.tail = e]
            IN p \in QueueType /\ BodyKept(q, p) /\ p.head = q.head /\ p.tail = e
<1> QED
  BY DEF QueueType, BodyKept

(* The next end, as the code finds it in the queue without the node.       *)
FoundEnd(p, node, tree, e, dir, side) ==
  IF ~node[dir].tree THEN [e EXCEPT !.node = node[dir].id]
  ELSE EndAt(p, Traverse(p.trees, tree, side), EndOf(dir))

(* The end that remove finds is the end of what is left, with the key      *)
(* and the node.                                                           *)
LEMMA FoundEndIs ==
  ASSUME NEW q, NEW T, NEW A, NEW home, NEW age, AVLQueue(q, T, A, home, age), NEW id \in A,
         NEW p, ListDropped(q, p, id), TreeOf(p, T),
         NEW dir \in {"next", "last"}, NEW side \in Sides,
         NEW e \in End, e.node = id, EndIs(q, A, age, side, dir, e)
  PROVE  LET f == FoundEnd(p, q.lists[id], home[id], e, dir, side)
         IN f \in End /\ EndIs(p, A \ {id}, age, side, dir, f)
<1> DEFINE y == Traverse(p.trees, home[id], side)
           f == NextEnd(q, id, e, dir, y)
<1>1. /\ q \in QueueType /\ QueueFacts(q, T, A, home, age)
      /\ Links(q.lists, A, home, age) /\ Ends(q, T, A, home, age)
  BY QueueFactsHold DEF AVLQueue, ListsOf
<1>2. /\ Ids(A) /\ home[id] \in T /\ T \subseteq DOMAIN q.trees
      /\ \A h \in T : h # NIL /\ q.trees[h] \in TreeNode
  BY <1>1 DEF QueueFacts, Ids
<1>3. Neighbor(p.trees, T, home[id], y, side)
  <2>1. PICK lo, hi : Tree(p.trees, p.root, T, lo, hi)
    BY DEF TreeOf, AVLTree, Searchable
  <2>2. Idle(p.trees, T)
    BY DEF TreeOf
  <2> QED
    BY <1>2, <2>1, <2>2, TraverseFinds
<1>4. \A h \in T : /\ p.trees[h].key = q.trees[h].key
                   /\ h # home[id] => p.trees[h].head = q.trees[h].head /\ p.trees[h].tail = q.trees[h].tail
  <2>1. /\ q.lists[id].last.tree => q.lists[id].last.id = home[id]
        /\ q.lists[id].next.tree => q.lists[id].next.id = home[id]
    BY <1>1 DEF Links, LinkHolds
  <2>2. \A h \in T :
          EndsAre(p.trees[h], q.trees[h],
                  IF ~(q.lists[id].last.tree /\ q.lists[id].next.tree)
                       /\ q.lists[id].last.tree /\ h = q.lists[id].last.id
                  THEN q.lists[id].next.id ELSE q.trees[h].head,
                  IF ~(q.lists[id].last.tree /\ q.lists[id].next.tree)
                       /\ q.lists[id].next.tree /\ h = q.lists[id].next.id
                  THEN q.lists[id].last.id ELSE q.trees[h].tail)
    BY <1>2 DEF ListDropped
  <2> QED
    BY <2>1, <2>2 DEF EndsAre
<1>5. Neighbor(q.trees, T, home[id], y, side)
  <2> HIDE DEF y
  <2> QED
    BY <1>2, <1>3, <1>4 DEF Neighbor
<1>6. y = NIL \/ (y \in T /\ y # home[id])
  <2> HIDE DEF y
  <2>1. \A h \in T : q.trees[h].key \in Nat
    BY <1>1 DEF QueueFacts
  <2> QED
    BY <1>2, <1>5, <2>1 DEF Neighbor
<1>7. f = FoundEnd(p, q.lists[id], home[id], e, dir, side)
  <2>1. f = IF ~q.lists[id][dir].tree THEN [e EXCEPT !.node = q.lists[id][dir].id]
            ELSE EndAt(p, y, EndOf(dir))
    <3> HIDE DEF y
    <3>1. y \in T => p.trees[y][EndOf(dir)] = q.trees[y][EndOf(dir)] /\ p.trees[y].key = q.trees[y].key
      BY <1>2, <1>4, <1>6 DEF EndOf
    <3> QED
      BY <1>2, <1>6, <3>1 DEF NextEnd, EndAt
  <2> QED
    BY <2>1 DEF FoundEnd
<1>8. EndIs(q, A \ {id}, age, side, dir, f)
  <2>1. InLists(q, T, A, home, age)
    BY <1>1, <1>2 DEF InLists
  <2> HIDE DEF y
  <2> QED
    BY <1>5, <2>1, NextEndIs
<1>9. f \in End
  <2>1. ~q.lists[id][dir].tree => q.lists[id][dir].id \in Nat
    BY <1>1, <1>2 DEF Links, LinkHolds, Ids
  <2>2. y # NIL => q.trees[y][EndOf(dir)] \in Nat /\ q.trees[y].key \in Nat
    <3> HIDE DEF y
    <3> QED
      BY <1>2, <1>6 DEF EndOf, TreeNode
  <2> HIDE DEF y
  <2> QED
    BY <2>1, <2>2 DEF NextEnd, End, NoEnd, NIL
<1>10. EndIs(p, A \ {id}, age, side, dir, f)
  <2>1. \A i \in A \ {id} : p.values[i] = q.values[i]
    BY <1>1 DEF ListDropped, QueueFacts
  <2> HIDE DEF f
  <2> QED
    BY <1>8, <2>1, EndIsSame
<1> QED
  <2> HIDE DEF f
  <2> QED
    BY <1>7, <1>9, <1>10

(* The ends move on.                                                       *)
LEMMA UpdateEndsHolds ==
  ASSUME NEW q, NEW T, NEW A, NEW home, NEW age, AVLQueue(q, T, A, home, age), NEW id \in A,
         NEW p, ListDropped(q, p, id), TreeOf(p, T), NEW key
  PROVE  LET q2 == UpdateEnds(p, q.lists[id], Access(key, id, home[id]))
         IN q2 \in QueueType /\ BodyKept(p, q2) /\ CacheHolds(q2, A \ {id}, age)
<1> DEFINE node == q.lists[id]
           access == Access(key, id, home[id])
           head == IF q.head.node = id
                   THEN FoundEnd(p, node, home[id], q.head, "next", Other(HeadSide(q))) ELSE q.head
           tail == IF q.tail.node = id
                   THEN FoundEnd(p, node, home[id], q.tail, "last", HeadSide(q)) ELSE q.tail
           headed == IF q.head.node = id THEN RemoveUpdateHead(p, node, home[id]) ELSE p
           q2 == UpdateEnds(p, node, access)
<1>1. /\ q \in QueueType /\ CacheHolds(q, A, age) /\ QueueFacts(q, T, A, home, age)
      /\ q.head \in End /\ q.tail \in End
  BY QueueFactsHold, QueueFields DEF AVLQueue
<1>2. /\ p \in QueueType /\ p.head = q.head /\ p.tail = q.tail /\ HeadSide(p) = HeadSide(q)
  BY DEF ListDropped, HeadSide
<1>3. /\ EndIs(q, A, age, Other(HeadSide(q)), "next", q.head)
      /\ EndIs(q, A, age, HeadSide(q), "last", q.tail)
      /\ HeadSide(q) \in Sides /\ Other(HeadSide(q)) \in Sides
  BY <1>1, CacheIs DEF HeadSide, Other, Sides
<1>4. \A i \in A \ {id} : p.values[i] = q.values[i]
  BY <1>1 DEF ListDropped, QueueFacts
<1>5. head \in End /\ EndIs(p, A \ {id}, age, Other(HeadSide(q)), "next", head)
  <2>1. CASE q.head.node = id
    BY <1>1, <1>3, <2>1, FoundEndIs
  <2>2. CASE q.head.node # id
    BY <1>1, <1>3, <1>4, <2>2, EndIsKept, EndIsSame
  <2> QED
    BY <2>1, <2>2
<1>6. tail \in End /\ EndIs(p, A \ {id}, age, HeadSide(q), "last", tail)
  <2>1. CASE q.tail.node = id
    BY <1>1, <1>3, <2>1, FoundEndIs
  <2>2. CASE q.tail.node # id
    BY <1>1, <1>3, <1>4, <2>2, EndIsKept, EndIsSame
  <2> QED
    BY <2>1, <2>2
<1>7. /\ headed \in QueueType /\ BodyKept(p, headed) /\ headed.head = head
      /\ headed.tail = q.tail
  <2>1. CASE q.head.node = id
    <3>1. headed = [p EXCEPT !.head = head]
      BY <1>2, <2>1 DEF RemoveUpdateHead, FoundEnd, EndOf
    <3> HIDE DEF headed, head
    <3> QED
      BY <1>2, <1>5, <3>1, WithEnds
  <2>2. CASE q.head.node # id
    BY <1>2, <2>2 DEF BodyKept
  <2> QED
    BY <2>1, <2>2
<1>8. q2 = IF q.tail.node = id THEN RemoveUpdateTail(headed, node, home[id]) ELSE headed
  BY <1>2 DEF UpdateEnds, Access
<1>9. /\ q2 \in QueueType /\ BodyKept(headed, q2) /\ q2.head = head /\ q2.tail = tail
  <2>1. CASE q.tail.node = id
    <3>1. HeadSide(headed) = HeadSide(q) /\ headed.trees = p.trees
      BY <1>2, <1>7 DEF BodyKept, HeadSide
    <3> HIDE DEF headed
    <3>2. q2 = [headed EXCEPT !.tail = tail]
      BY <1>7, <1>8, <2>1, <3>1 DEF RemoveUpdateTail, FoundEnd, EndOf, EndAt
    <3> HIDE DEF q2, tail, head
    <3> QED
      BY <1>6, <1>7, <3>2, WithEnds
  <2>2. CASE q.tail.node # id
    <3> HIDE DEF headed
    <3>1. q2 = headed /\ tail = q.tail
      BY <1>8, <2>2
    <3> HIDE DEF q2, tail, head
    <3> QED
      BY <1>7, <3>1 DEF BodyKept
  <2> QED
    BY <2>1, <2>2
<1> HIDE DEF headed, head, tail, q2
<1>10. BodyKept(p, q2)
  BY <1>7, <1>9 DEF BodyKept
<1>11. CacheHolds(q2, A \ {id}, age)
  <2>1. HeadSide(q2) = HeadSide(q)
    BY <1>2, <1>10 DEF BodyKept, HeadSide
  <2>2. \A i \in A \ {id} : q2.values[i] = p.values[i]
    BY <1>10 DEF BodyKept
  <2>3. /\ EndIs(q2, A \ {id}, age, Other(HeadSide(q2)), "next", q2.head)
        /\ EndIs(q2, A \ {id}, age, HeadSide(q2), "last", q2.tail)
    BY <1>5, <1>6, <1>9, <2>1, <2>2, EndIsSame
  <2> QED
    BY <1>9, <2>3, CacheIs
<1> QED
  BY <1>9, <1>10, <1>11 DEF q2

(* What a removal does to the list nodes.                                  *)
NodesRemoved(q, q2, A, id) ==
  /\ q2.ascending = q.ascending
  /\ \A i \in A \ {id} : q2.values[i] = q.values[i]
  /\ DOMAIN q2.lists = DOMAIN q.lists
  /\ q2.listTop = id /\ q2.lists[id].next = ToList(q.listTop)
  /\ \A i \in DOMAIN q.lists \ A : q2.lists[i].next = q.lists[i].next

(* Removing an entry keeps the queue.                                      *)
LEMMA RemoveHolds ==
  ASSUME NEW q, NEW T, NEW A, NEW home, NEW age, AVLQueue(q, T, A, home, age), NEW id \in A,
         NEW key, NEW q2, q2 = RemoveAccess(q, Access(key, id, home[id]))
  PROVE  /\ NodesRemoved(q, q2, A, id)
         /\ \E T2 : AVLQueue(q2, T2, A \ {id}, home, age)
<1> DEFINE x == home[id]
           p == RemoveListNode(q, id)
           listed == UpdateEnds(p, q.lists[id], Access(key, id, x))
           T2 == TreesLeft(q, T, home, id)
<1>1. /\ q \in QueueType /\ QueueFacts(q, T, A, home, age) /\ Links(q.lists, A, home, age)
      /\ x \in T
  BY QueueFactsHold DEF AVLQueue, ListsOf, QueueFacts
<1>2. /\ ListDropped(q, p, id) /\ TreeOf(p, T) /\ ListsOf(p, T2, A \ {id}, home, age)
      /\ Alone(q.lists, id) => \A j \in A : home[j] = home[id] => j = id
  BY RemoveListHolds
<1>3. /\ listed \in QueueType /\ BodyKept(p, listed) /\ CacheHolds(listed, A \ {id}, age)
  BY <1>2, UpdateEndsHolds
<1>4. q2 = IF Alone(q.lists, id) THEN RemoveTreeNode(listed, x) ELSE listed
  BY DEF RemoveAccess, Access, Alone
<1>5. NodesRemoved(q, p, A, id)
  <2>1. ~q.lists[id].last.tree => q.lists[id].last.id \in A
    BY <1>1 DEF Links, LinkHolds
  <2>2. A \subseteq DOMAIN q.lists /\ DOMAIN q.values = DOMAIN q.lists
    BY <1>1 DEF QueueFacts
  <2> QED
    BY <1>2, <2>1, <2>2 DEF ListDropped, NodesRemoved
<1> HIDE DEF p, listed
<1>6. NodesRemoved(q, listed, A, id)
  BY <1>3, <1>5 DEF NodesRemoved, BodyKept
<1>7. TreeOf(listed, T)
  BY <1>2, <1>3 DEF TreeOf, BodyKept
<1>8. ListsOf(listed, T2, A \ {id}, home, age)
  BY <1>2, <1>3 DEF ListsOf, FreeLists, Ends, Homes, BodyKept
<1>9. CASE ~Alone(q.lists, id)
  <2>1. q2 = listed /\ T2 = T
    BY <1>4, <1>9 DEF TreesLeft
  <2>2. AVLQueue(q2, T, A \ {id}, home, age)
    BY <1>3, <1>7, <1>8, <2>1 DEF AVLQueue
  <2> QED
    BY <1>6, <2>1, <2>2
<1>10. CASE Alone(q.lists, id)
  <2>1. q2 = RemoveTreeNode(listed, x) /\ T2 = T \ {x}
    BY <1>4, <1>10 DEF TreesLeft
  <2>2. TreeDropped(listed, q2, T, x)
    BY <1>1, <1>3, <1>7, <2>1, DropHolds
  <2>3. q2 \in QueueType /\ ListsKept(listed, q2) /\ TreeOf(q2, T2)
    BY <2>1, <2>2 DEF TreeDropped
  <2>4. NodesRemoved(q, q2, A, id)
    BY <1>6, <2>3 DEF NodesRemoved, ListsKept
  <2>5. \A h \in T2 : SameKept(q2.trees[h], listed.trees[h])
    <3>1. T \subseteq DOMAIN listed.trees
      BY <1>3, <1>7, NextTreeIs
    <3> QED
      BY <2>1, <2>2, <3>1 DEF TreeDropped
  <2>6. ListsOf(q2, T2, A \ {id}, home, age)
    <3>1. Links(q2.lists, A \ {id}, home, age) /\ FreeLists(q2, A \ {id})
      BY <1>8, <2>3 DEF ListsOf, ListsKept, FreeLists
    <3>2. Ends(q2, T2, A \ {id}, home, age)
      BY <1>8, <2>5 DEF ListsOf, Ends, SameKept
    <3>3. Homes(q2, T2, A \ {id}, home)
      BY <1>8, <2>3, <2>5 DEF ListsOf, Homes, SameKept, ListsKept
    <3> QED
      BY <3>1, <3>2, <3>3 DEF ListsOf
  <2>7. CacheHolds(q2, A \ {id}, age)
    BY <1>3, <2>3, CacheKept DEF ListsKept
  <2>8. AVLQueue(q2, T2, A \ {id}, home, age)
    BY <2>3, <2>6, <2>7 DEF AVLQueue
  <2> QED
    BY <2>4, <2>8
<1> QED
  BY <1>9, <1>10

-----------------------------------------------------------------------------
(* The operations of the queue, on one that is in order.                   *)

(* A queue with entries has ends, of which it knows the access keys.       *)
LEMMA EndAccess ==
  ASSUME NEW q, NEW T, NEW A, NEW home, NEW age, AVLQueue(q, T, A, home, age)
  PROVE  /\ Empty(q) <=> A = {}
         /\ ~Empty(q) =>
              /\ q.head.node \in A /\ q.tail.node \in A
              /\ HeadAccess(q) = Access(q.values[q.head.node], q.head.node, home[q.head.node])
              /\ TailAccess(q) = Access(q.values[q.tail.node], q.tail.node, home[q.tail.node])
<1>1. /\ q \in QueueType /\ CacheHolds(q, A, age) /\ QueueFacts(q, T, A, home, age)
      /\ Links(q.lists, A, home, age) /\ Homes(q, T, A, home)
  BY QueueFactsHold DEF AVLQueue, ListsOf
<1>2. Empty(q) <=> A = {}
  BY <1>1 DEF Empty, CacheHolds, QueueFacts, NoEnd
<1>3. ASSUME A # {}
      PROVE  /\ q.head.node \in A /\ q.tail.node \in A
             /\ q.head.key = q.values[q.head.node] /\ q.tail.key = q.values[q.tail.node]
             /\ q.lists[q.head.node].last.id = home[q.head.node]
             /\ q.lists[q.tail.node].next.id = home[q.tail.node]
  <2> DEFINE f == q.head.node
             l == q.tail.node
  <2>1. /\ f \in A /\ q.head.key = q.values[f] /\ \A j \in A : ~Ahead(q, age, j, f)
        /\ l \in A /\ q.tail.key = q.values[l] /\ \A j \in A : ~Ahead(q, age, l, j)
    BY <1>1, <1>3 DEF CacheHolds
  <2>2. \A i, j \in A : home[i] = home[j] => q.values[i] = q.values[j]
    BY <1>1 DEF Homes
  <2>3. /\ \A j \in A : home[j] = home[f] => ~(age[j] < age[f])
        /\ \A j \in A : home[j] = home[l] => ~(age[l] < age[j])
    BY <2>1, <2>2 DEF Ahead
  <2> HIDE DEF f, l
  <2>4. /\ LinkHolds(q.lists, A, home, age, "last", f)
        /\ LinkHolds(q.lists, A, home, age, "next", l)
    BY <1>1, <2>1 DEF Links
  <2>5. q.lists[f].last.id = home[f]
    BY <2>3, <2>4 DEF LinkHolds, Before
  <2>6. q.lists[l].next.id = home[l]
    BY <2>3, <2>4 DEF LinkHolds, Before
  <2> QED
    BY <2>1, <2>5, <2>6 DEF f, l
<1> QED
  BY <1>2, <1>3 DEF HeadAccess, TailAccess

(* The access keys of the entries.                                         *)
AccessKeys(q, A, home) == {Access(q.values[i], i, home[i]) : i \in A}

(* The queue holds the entries whose access keys were handed out.          *)
HoldsEntries(q, keys) ==
  \E T, A, home, age, now :
    /\ AVLQueue(q, T, A, home, age)
    /\ now \in Nat /\ \A i \in A : age[i] < now
    /\ keys = AccessKeys(q, A, home)

(* A new queue holds none.                                                 *)
LEMMA NewHolds ==
  ASSUME NEW ascending \in BOOLEAN
  PROVE  HoldsEntries(New(ascending), {})
<1> DEFINE q == New(ascending)
           zero == [n \in Nat |-> 0]
<1>1. /\ q.root = NIL /\ q.treeTop = NIL /\ q.listTop = NIL /\ q.head = NoEnd /\ q.tail = NoEnd
      /\ q.trees = << >> /\ q.lists = << >> /\ q.values = << >>
  BY DEF New
<1>2. q \in QueueType
  <2>1. << >> \in Seq(TreeNode) /\ << >> \in Seq(ListNode) /\ << >> \in Seq(Nat)
    OBVIOUS
  <2>2. NoEnd \in End /\ NIL \in Nat
    BY DEF NoEnd, End, NIL
  <2> QED
    BY <2>1, <2>2 DEF New, QueueType
<1>3. zero \in [Nat -> Nat]
  OBVIOUS
<1>4. DOMAIN << >> = {}
  OBVIOUS
<1> HIDE DEF q, zero
<1>5. AVLTree(q.trees, q.root, {})
  <2> DEFINE top == [n \in Nat |-> HiInsertionKey + 1]
  <2>1. top \in [Nat -> Nat]
    BY QueueAssumption
  <2>2. q.trees \in Seq(TreeNode)
    BY <1>2, QueueFields
  <2> HIDE DEF top
  <2>3. Tree(q.trees, q.root, {}, zero, top)
    BY <1>1, <1>3, <2>1, <2>2 DEF Tree
  <2>4. Searchable(q.trees, q.root, {}, zero, top)
    BY <2>3 DEF Searchable
  <2> QED
    BY <2>4 DEF AVLTree
<1>6. StackIs(FreeNext(q.trees), q.treeTop, << >>, DOMAIN q.trees \ {})
  BY <1>1, <1>4 DEF StackIs, FreeNext
<1>7. TreeOf(q, {})
  BY <1>1, <1>4, <1>5, <1>6 DEF TreeOf, Idle
<1>8. StackIs(ListNext(q.lists), q.listTop, << >>, DOMAIN q.lists \ {})
  BY <1>1, <1>4 DEF StackIs, ListNext
<1>9. ListsOf(q, {}, {}, zero, zero)
  <2>1. Links(q.lists, {}, zero, zero)
    BY <1>3 DEF Links
  <2>2. FreeLists(q, {})
    BY <1>1, <1>4, <1>8 DEF FreeLists
  <2> QED
    BY <1>1, <2>1, <2>2 DEF ListsOf, Ends, Homes
<1>10. AVLQueue(q, {}, {}, zero, zero)
  BY <1>1, <1>2, <1>7, <1>9 DEF AVLQueue, CacheHolds
<1>11. AccessKeys(q, {}, zero) = {}
  BY DEF AccessKeys
<1>12. HoldsEntries(q, {})
  BY <1>10, <1>11 DEF HoldsEntries
<1> QED
  BY <1>12 DEF q

(* An insertion adds an access key.                                        *)
LEMMA InsertAccess ==
  ASSUME NEW q, NEW keys, HoldsEntries(q, keys), NEW key \in 1..HiInsertionKey
  PROVE  /\ HoldsEntries(Insert(q, key).queue, keys \cup {Insert(q, key).access})
         /\ Insert(q, key).access \notin keys
<1> DEFINE r == Insert(q, key)
           id == NextList(q)
<1>1. PICK T, A, home, age, now :
        /\ AVLQueue(q, T, A, home, age)
        /\ now \in Nat /\ \A i \in A : age[i] < now
        /\ keys = AccessKeys(q, A, home)
  BY DEF HoldsEntries
<1>2. Inserted(q, r, A, home, age, now, key)
  BY <1>1, InsertHolds
<1> HIDE DEF r
<1>3. PICK T2, h :
        /\ h \in Nat
        /\ AVLQueue(r.queue, T2, A \cup {id}, Aged(home, id, h), Aged(age, id, now))
        /\ r.access = Access(key, id, h)
  BY <1>2 DEF Inserted
<1>4. /\ id \in Nat /\ id \notin A /\ NodesAdded(q, r.queue, A, id, key)
      /\ home \in [Nat -> Nat] /\ age \in [Nat -> Nat]
  BY <1>1, <1>2, QueueFactsHold DEF Inserted, AVLQueue, QueueFacts
<1> DEFINE home2 == Aged(home, id, h)
           age2 == Aged(age, id, now)
<1>5. /\ home2[id] = h /\ \A i \in A : home2[i] = home[i]
      /\ age2[id] = now /\ \A i \in A : age2[i] = age[i]
  <2>1. A \subseteq Nat
    BY <1>1, QueueFactsHold DEF AVLQueue, QueueFacts
  <2> QED
    BY <1>4, <2>1 DEF Aged
<1> HIDE DEF home2, age2, id
<1>6. AccessKeys(r.queue, A \cup {id}, home2) = keys \cup {r.access}
  <2>1. \A i \in A : Access(r.queue.values[i], i, home2[i]) = Access(q.values[i], i, home[i])
    BY <1>4, <1>5 DEF NodesAdded
  <2>2. Access(r.queue.values[id], id, home2[id]) = r.access
    BY <1>3, <1>4, <1>5 DEF NodesAdded
  <2> QED
    BY <1>1, <2>1, <2>2 DEF AccessKeys
<1>7. now + 1 \in Nat /\ \A i \in A \cup {id} : age2[i] < now + 1
  <2>1. \A i \in A : age[i] \in Nat
    BY <1>1, QueueFactsHold DEF AVLQueue, QueueFacts
  <2> QED
    BY <1>1, <1>5, <2>1
<1>8. HoldsEntries(r.queue, keys \cup {r.access})
  BY <1>3, <1>6, <1>7 DEF HoldsEntries, home2, age2
<1>9. r.access \notin keys
  <2>1. r.access.list = id
    BY <1>3 DEF Access
  <2>2. \A k \in keys : k.list \in A
    BY <1>1 DEF AccessKeys, Access
  <2> QED
    BY <1>4, <2>1, <2>2
<1> QED
  BY <1>8, <1>9 DEF r

(* A removal takes one away.                                               *)
LEMMA RemoveAccessKey ==
  ASSUME NEW q, NEW keys, HoldsEntries(q, keys), NEW access \in keys
  PROVE  HoldsEntries(RemoveAccess(q, access), keys \ {access})
<1>1. PICK T, A, home, age, now :
        /\ AVLQueue(q, T, A, home, age)
        /\ now \in Nat /\ \A i \in A : age[i] < now
        /\ keys = AccessKeys(q, A, home)
  BY DEF HoldsEntries
<1>2. PICK id \in A : access = Access(q.values[id], id, home[id])
  BY <1>1 DEF AccessKeys
<1> DEFINE q2 == RemoveAccess(q, access)
<1>3. NodesRemoved(q, q2, A, id) /\ \E T2 : AVLQueue(q2, T2, A \ {id}, home, age)
  BY <1>1, <1>2, RemoveHolds
<1> HIDE DEF q2
<1>4. AccessKeys(q2, A \ {id}, home) = keys \ {access}
  <2>1. \A i \in A \ {id} : Access(q2.values[i], i, home[i]) = Access(q.values[i], i, home[i])
    BY <1>3 DEF NodesRemoved
  <2>2. \A i, j \in A : Access(q.values[i], i, home[i]) = Access(q.values[j], j, home[j]) => i = j
    BY DEF Access
  <2> QED
    BY <1>1, <1>2, <2>1, <2>2 DEF AccessKeys
<1>5. HoldsEntries(q2, keys \ {access})
  BY <1>1, <1>3, <1>4 DEF HoldsEntries
<1> QED
  BY <1>5 DEF q2

(* The ends are among the access keys.                                     *)
LEMMA EndsHeld ==
  ASSUME NEW q, NEW keys, HoldsEntries(q, keys), ~Empty(q)
  PROVE  HeadAccess(q) \in keys /\ TailAccess(q) \in keys
<1> QED
  BY EndAccess DEF HoldsEntries, AccessKeys

-----------------------------------------------------------------------------
(* The specification.                                                      *)

QueueInv == HoldsEntries(avlq, issued)

(* Insertion with eviction.                                                *)
LEMMA EvictionHolds ==
  ASSUME NEW q, NEW keys, HoldsEntries(q, keys), NEW key \in 1..HiInsertionKey, NEW critical,
         NEW r, r = InsertCheckEviction(q, key, critical)
  PROVE  HoldsEntries(r.queue, (keys \ r.evicted) \cup r.access)
<1>1. CASE Empty(q) \/ ~MustEvict(q, critical)
  <2>1. /\ r.queue = Insert(q, key).queue /\ r.evicted = {}
        /\ r.access = {Insert(q, key).access}
    BY <1>1 DEF InsertCheckEviction
  <2> QED
    BY <2>1, InsertAccess
<1>2. CASE ~(Empty(q) \/ ~MustEvict(q, critical)) /\ ~Better(q, key, q.tail.key)
  <2>1. r.queue = q /\ r.access = {} /\ r.evicted = {}
    BY <1>2 DEF InsertCheckEviction
  <2> QED
    BY <2>1
<1>3. CASE ~(Empty(q) \/ ~MustEvict(q, critical)) /\ Better(q, key, q.tail.key)
  <2> DEFINE q2 == RemoveAccess(q, TailAccess(q))
             keys2 == keys \ {TailAccess(q)}
  <2>1. /\ r.queue = Insert(q2, key).queue /\ r.evicted = {TailAccess(q)}
        /\ r.access = {Insert(q2, key).access}
    BY <1>3 DEF InsertCheckEviction
  <2>2. HoldsEntries(q2, keys2)
    BY <1>3, EndsHeld, RemoveAccessKey
  <2> HIDE DEF q2
  <2> QED
    BY <2>1, <2>2, InsertAccess
<1> QED
  BY <1>1, <1>2, <1>3

(* The new entry first, then without the old tail.                         *)
LEMMA EvictTailHolds ==
  ASSUME NEW q, NEW keys, HoldsEntries(q, keys), ~Empty(q), NEW key \in 1..HiInsertionKey,
         NEW r, r = InsertEvictTail(q, key)
  PROVE  HoldsEntries(r.queue, (keys \ {r.evicted}) \cup {r.access})
<1> DEFINE i == Insert(q, key)
<1>1. /\ r.queue = RemoveAccess(i.queue, TailAccess(q)) /\ r.access = i.access
      /\ r.evicted = TailAccess(q)
  BY DEF InsertEvictTail
<1>2. HoldsEntries(i.queue, keys \cup {i.access}) /\ i.access \notin keys
  BY InsertAccess
<1>3. TailAccess(q) \in keys
  BY EndsHeld
<1> HIDE DEF i
<1>4. HoldsEntries(r.queue, (keys \cup {i.access}) \ {TailAccess(q)})
  BY <1>1, <1>2, <1>3, RemoveAccessKey
<1>5. (keys \cup {i.access}) \ {TailAccess(q)} = (keys \ {r.evicted}) \cup {r.access}
  BY <1>1, <1>2, <1>3
<1> QED
  BY <1>4, <1>5

(* Each operation keeps the queue in order, and the access keys issued.    *)
LEMMA QueueStep ==
  ASSUME QueueInv, [Next]_vars
  PROVE  QueueInv'
<1>1. ASSUME NEW key \in Keys, InsertKey(key)
      PROVE  QueueInv'
  BY <1>1, QueueAssumption, InsertAccess DEF InsertKey, QueueInv
<1>2. ASSUME NEW key \in Keys, InsertOrEvict(key)
      PROVE  QueueInv'
  <2>1. key \in 1..HiInsertionKey
    BY QueueAssumption
  <2>2. PICK inserted \in {InsertCheckEviction(avlq, key, CriticalHeight)} :
          /\ avlq' = inserted.queue
          /\ issued' = (issued \ inserted.evicted) \cup inserted.access
    BY <1>2 DEF InsertOrEvict
  <2> QED
    BY <2>1, <2>2, EvictionHolds DEF QueueInv
<1>3. ASSUME NEW key \in Keys, InsertThenEvict(key)
      PROVE  QueueInv'
  <2>1. key \in 1..HiInsertionKey
    BY QueueAssumption
  <2>2. PICK inserted \in {InsertEvictTail(avlq, key)} :
          /\ avlq' = inserted.queue
          /\ issued' = (issued \ {inserted.evicted}) \cup {inserted.access}
    BY <1>3 DEF InsertThenEvict
  <2> QED
    BY <1>3, <2>1, <2>2, EvictTailHolds DEF QueueInv, InsertThenEvict
<1>4. ASSUME NEW operation, NEW access \in issued, Take(operation, access)
      PROVE  QueueInv'
  BY <1>4, RemoveAccessKey DEF QueueInv, Take
<1>5. CASE RemoveAny
  BY <1>4, <1>5 DEF RemoveAny
<1>6. CASE PopHead \/ PopTail
  BY <1>4, <1>6, EndsHeld, Zenon DEF PopHead, PopTail, QueueInv
<1>7. CASE UNCHANGED vars
  BY <1>7 DEF vars, QueueInv
<1> QED
  BY <1>1, <1>2, <1>3, <1>5, <1>6, <1>7 DEF Next

(* After any sequence of calls the tree nodes are a balanced search        *)
(* tree, each with a list in order of time, all others are on the          *)
(* stacks, and the ends are cached.                                        *)
THEOREM QueueHolds == Spec => []QueueInv
<1>1. Init => QueueInv
  BY NewHolds DEF Init, QueueInv
<1>2. QueueInv /\ [Next]_vars => QueueInv'
  BY QueueStep
<1> QED
  BY <1>1, <1>2, PTL DEF Spec

-----------------------------------------------------------------------------
(* The nodes of the tree from left to right.                               *)

ByKey(t, T) == {p \in T \X T : t[p[1]].key < t[p[2]].key}
Between(t, T, low, high) == {j \in T : low < t[j].key /\ t[j].key < high}

(* The order of the keys is one.                                           *)
LEMMA KeysOneWay ==
  ASSUME NEW t, NEW root, NEW T, NEW lo, NEW hi, Tree(t, root, T, lo, hi)
  PROVE  /\ \A S \in SUBSET T : OneWay(ByKey(t, T), S)
         /\ \A low, high : Between(t, T, low, high) \in SUBSET T
<1>1. \A i \in T : t[i].key \in Nat
  BY NodeBounds
<1>2. \A x, y \in T : <<x, y>> \in ByKey(t, T) <=> t[x].key < t[y].key
  BY DEF ByKey
<1>3. \A x, y \in T : <<x, y>> \in ByKey(t, T) => <<y, x>> \notin ByKey(t, T)
  BY <1>1, <1>2
<1> QED
  BY <1>3 DEF OneWay, Between

(* The subtree of a node is those on its sides and the node.               *)
LEMMA NodeJoin ==
  ASSUME NEW t, NEW root, NEW T, NEW lo, NEW hi, Tree(t, root, T, lo, hi), NEW i \in T,
         NEW l, Ranked(ByKey(t, T), l, Between(t, T, lo[i], t[i].key)),
         NEW r, Ranked(ByKey(t, T), r, Between(t, T, t[i].key, hi[i]))
  PROVE  Ranked(ByKey(t, T), l \o <<i>> \o r, Between(t, T, lo[i], hi[i]))
<1> DEFINE R == ByKey(t, T)
           L == Between(t, T, lo[i], t[i].key)
           H == Between(t, T, t[i].key, hi[i])
<1>1. /\ \A j \in T : t[j].key \in Nat
      /\ \A j \in T : t[j].key = t[i].key => j = i
      /\ lo[i] \in Nat /\ hi[i] \in Nat /\ lo[i] < t[i].key /\ t[i].key < hi[i]
  <2>1. \A j \in T : t[j].key = t[i].key => j = i
    BY DEF Tree
  <2> QED
    BY <2>1, NodeBounds
<1>2. \A x, y \in T : <<x, y>> \in R <=> t[x].key < t[y].key
  BY DEF ByKey
<1>3. Ranked(R, <<i>>, {i})
  BY RankedFew
<1>4. \A x \in L, y \in {i} : <<x, y>> \in R
  BY <1>2 DEF Between
<1>5. \A x \in L \cup {i}, y \in H : <<x, y>> \in R
  <2>1. \A x \in L \cup {i} : x \in T /\ (t[x].key < t[i].key \/ x = i)
    BY DEF Between
  <2>2. \A y \in H : y \in T /\ t[i].key < t[y].key
    BY DEF Between
  <2> HIDE DEF L, H, R
  <2>3. \A x \in L \cup {i}, y \in H : t[x].key < t[y].key
    BY <1>1, <2>1, <2>2
  <2> QED
    BY <1>2, <2>1, <2>2, <2>3, Zenon
<1>6. Between(t, T, lo[i], hi[i]) = (L \cup {i}) \cup H
  BY <1>1 DEF Between
<1> HIDE DEF R, L, H
<1>7. Ranked(R, l \o <<i>>, L \cup {i})
  BY <1>3, <1>4, RankedConcat DEF R, L
<1>8. Ranked(R, (l \o <<i>>) \o r, (L \cup {i}) \cup H)
  BY <1>5, <1>7, RankedConcat DEF R, H
<1> QED
  BY <1>6, <1>8 DEF R

(* On a side of a node is the subtree of its child, if any.                *)
LEMMA SideBetween ==
  ASSUME NEW t, NEW root, NEW T, NEW lo, NEW hi, Tree(t, root, T, lo, hi), NEW i \in T,
         NEW side \in Sides
  PROVE  LET c == t[i].child[side]
             S == Between(t, T, Low(t, lo, i, side), High(t, hi, i, side))
         IN IF c = NIL THEN S = {}
            ELSE /\ c \in T /\ S = Between(t, T, lo[c], hi[c])
                 /\ hi[c] - lo[c] \in Nat /\ hi[i] - lo[i] \in Nat
                 /\ hi[c] - lo[c] < hi[i] - lo[i]
<1> DEFINE c == t[i].child[side]
<1>1. SideHolds(t, T, lo, hi, i, side)
  BY DEF Tree
<1>2. CASE c = NIL
  BY <1>1, <1>2 DEF SideHolds, Between
<1>3. CASE c # NIL
  <2>1. c \in T /\ lo[c] = Low(t, lo, i, side) /\ hi[c] = High(t, hi, i, side)
    BY <1>1, <1>3 DEF SideHolds
  <2> HIDE DEF c
  <2>2. /\ lo[i] \in Nat /\ hi[i] \in Nat /\ t[i].key \in Nat /\ lo[i] < t[i].key /\ t[i].key < hi[i]
        /\ lo[c] \in Nat /\ hi[c] \in Nat /\ t[c].key \in Nat /\ lo[c] < t[c].key /\ t[c].key < hi[c]
    BY <2>1, NodeBounds
  <2>3. /\ hi[c] - lo[c] \in Nat /\ hi[i] - lo[i] \in Nat
        /\ hi[c] - lo[c] < hi[i] - lo[i]
    <3>1. \/ lo[c] = lo[i] /\ hi[c] = t[i].key
          \/ lo[c] = t[i].key /\ hi[c] = hi[i]
      BY <2>1 DEF Low, High
    <3> QED
      BY ONLY <2>2, <3>1
  <2> QED
    BY <1>3, <2>1, <2>3 DEF c
<1> QED
  BY <1>2, <1>3

(* Each subtree can be listed so.                                          *)
LEMMA SubtreeRanked ==
  ASSUME NEW t, NEW root, NEW T, NEW lo, NEW hi, Tree(t, root, T, lo, hi)
  PROVE  \A i \in T : \E s : Ranked(ByKey(t, T), s, Between(t, T, lo[i], hi[i]))
<1> DEFINE R == ByKey(t, T)
           Good(i) == \E s : Ranked(R, s, Between(t, T, lo[i], hi[i]))
           N == {n \in Nat : \E i \in T : hi[i] - lo[i] = n /\ ~Good(i)}
<1>1. N \in SUBSET Nat
  OBVIOUS
<1>2. \A i \in T : hi[i] - lo[i] \in Nat
  <2>1. \A i \in T : lo[i] \in Nat /\ hi[i] \in Nat /\ t[i].key \in Nat
                       /\ lo[i] < t[i].key /\ t[i].key < hi[i]
    BY NodeBounds
  <2> QED
    BY <2>1
<1>3. N = {}
  <2> SUFFICES ASSUME N # {} PROVE FALSE
    OBVIOUS
  <2>1. PICK n \in N : \A m \in N : n <= m
    <3> HIDE DEF N
    <3> QED
      BY <1>1, Least
  <2>2. PICK i \in T : hi[i] - lo[i] = n /\ ~Good(i)
    BY <2>1
  <2>3. ASSUME NEW side \in Sides
        PROVE  \E s : Ranked(R, s, Between(t, T, Low(t, lo, i, side), High(t, hi, i, side)))
    <3> DEFINE c == t[i].child[side]
    <3>1. CASE c = NIL
      <4>1. Between(t, T, Low(t, lo, i, side), High(t, hi, i, side)) = {}
        BY <3>1, SideBetween
      <4> QED
        BY <4>1, RankedFew
    <3>2. CASE c # NIL
      <4>1. /\ c \in T /\ hi[c] - lo[c] \in Nat /\ hi[c] - lo[c] < n
            /\ Between(t, T, Low(t, lo, i, side), High(t, hi, i, side)) = Between(t, T, lo[c], hi[c])
        BY <2>2, <3>2, SideBetween
      <4> HIDE DEF c
      <4>2. hi[c] - lo[c] \notin N
        <5>1. n \in Nat
          BY <1>1, <2>1
        <5> HIDE DEF N
        <5> QED
          BY <2>1, <4>1, <5>1
      <4>3. Good(c)
        BY <4>1, <4>2
      <4> QED
        BY <4>1, <4>3
    <3> QED
      BY <3>1, <3>2
  <2>4. PICK l : Ranked(R, l, Between(t, T, lo[i], t[i].key))
    BY <2>3 DEF Low, High, Sides
  <2>5. PICK r : Ranked(R, r, Between(t, T, t[i].key, hi[i]))
    BY <2>3 DEF Low, High, Sides
  <2>6. Good(i)
    BY <2>4, <2>5, NodeJoin
  <2> QED
    BY <2>2, <2>6
<1> QED
  BY <1>2, <1>3

(* The function by which TreeNodes is defined.                             *)
NodesFcn(t, f) ==
  f = [id \in {NIL} \cup DOMAIN t |->
         IF id = NIL THEN << >> ELSE f[t[id].child["left"]] \o <<id>> \o f[t[id].child["right"]]]

(* It exists: a node that is not in the tree has no children.              *)
LEMMA NodesFcnExists ==
  ASSUME NEW t, NEW root, NEW T, NEW lo, NEW hi, Tree(t, root, T, lo, hi), Idle(t, T)
  PROVE  \E f : NodesFcn(t, f)
<1> DEFINE R == ByKey(t, T)
           s(i) == CHOOSE x : Ranked(R, x, Between(t, T, lo[i], hi[i]))
           f == [id \in {NIL} \cup DOMAIN t |->
                   IF id = NIL THEN << >> ELSE IF id \in T THEN s(id) ELSE <<id>>]
<1>1. /\ NIL \notin DOMAIN t /\ T \subseteq DOMAIN t
  BY TreeTypes
<1>2. \A i \in T : Ranked(R, s(i), Between(t, T, lo[i], hi[i]))
  BY SubtreeRanked
<1>3. ASSUME NEW i \in T, NEW side \in Sides
      PROVE  /\ t[i].child[side] \in {NIL} \cup DOMAIN t
             /\ Ranked(R, f[t[i].child[side]],
                       Between(t, T, Low(t, lo, i, side), High(t, hi, i, side)))
  <2> DEFINE c == t[i].child[side]
             S == Between(t, T, Low(t, lo, i, side), High(t, hi, i, side))
  <2>1. CASE c = NIL
    <3>1. S = {} /\ f[c] = << >>
      BY <2>1, SideBetween
    <3> HIDE DEF c, S, R, f
    <3>2. Ranked(R, f[c], S)
      BY <3>1, RankedFew
    <3> QED
      BY <2>1, <3>2 DEF c, S
  <2>2. CASE c # NIL
    <3>1. c \in T /\ S = Between(t, T, lo[c], hi[c])
      BY <2>2, SideBetween
    <3> HIDE DEF c, S, R, s
    <3>2. c \in DOMAIN t /\ f[c] = s(c)
      BY <1>1, <2>2, <3>1
    <3>3. Ranked(R, f[c], S)
      <4> HIDE DEF f
      <4> QED
        BY <1>2, <3>1, <3>2, SMTT(30)
    <3> QED
      BY <3>2, <3>3 DEF c, S
  <2> QED
    BY <2>1, <2>2
<1>4. ASSUME NEW i \in T
      PROVE  f[i] = f[t[i].child["left"]] \o <<i>> \o f[t[i].child["right"]]
  <2> DEFINE l == f[t[i].child["left"]]
             r == f[t[i].child["right"]]
             B == Between(t, T, lo[i], hi[i])
  <2>1. f[i] = s(i)
    BY <1>1
  <2> HIDE DEF f, s
  <2>2. /\ Ranked(R, l, Between(t, T, lo[i], t[i].key))
        /\ Ranked(R, r, Between(t, T, t[i].key, hi[i]))
    BY <1>3 DEF Low, High, Sides
  <2> HIDE DEF l, r
  <2>3. Ranked(R, l \o <<i>> \o r, B)
    BY <2>2, NodeJoin
  <2>4. OneWay(R, B) /\ Ranked(R, s(i), B)
    BY <1>2, KeysOneWay
  <2> HIDE DEF R, B
  <2>5. s(i) = l \o <<i>> \o r
    BY <2>3, <2>4, RankedUnique
  <2> QED
    BY <2>1, <2>5 DEF l, r
<1>5. ASSUME NEW i \in DOMAIN t \ T
      PROVE  f[i] = f[t[i].child["left"]] \o <<i>> \o f[t[i].child["right"]]
  <2>1. t[i].child["left"] = NIL /\ t[i].child["right"] = NIL
    BY DEF Idle, Sides
  <2>2. f[i] = <<i>> /\ f[NIL] = << >>
    BY <1>1
  <2>3. << >> \o <<i>> \o << >> = <<i>>
    OBVIOUS
  <2> HIDE DEF f
  <2> QED
    BY <2>1, <2>2, <2>3
<1>6. \A id \in {NIL} \cup DOMAIN t :
        f[id] = IF id = NIL THEN << >>
                ELSE f[t[id].child["left"]] \o <<id>> \o f[t[id].child["right"]]
  <2>1. f[NIL] = << >>
    OBVIOUS
  <2> HIDE DEF f
  <2> QED
    BY <1>4, <1>5, <2>1
<1>7. f = [id \in {NIL} \cup DOMAIN t |-> f[id]]
  OBVIOUS
<1> HIDE DEF f
<1>8. NodesFcn(t, f)
  BY <1>6, <1>7 DEF NodesFcn
<1> QED
  BY <1>8

(* TreeNodes lists the nodes of the tree, in the order of their keys.      *)
LEMMA TreeNodesRanked ==
  ASSUME NEW q, NEW T, NEW lo, NEW hi, Tree(q.trees, q.root, T, lo, hi), Idle(q.trees, T)
  PROVE  Ranked(ByKey(q.trees, T), TreeNodes(q), T)
<1> DEFINE t == q.trees
           R == ByKey(t, T)
           f == CHOOSE g : NodesFcn(t, g)
           Good(i) == Ranked(R, f[i], Between(t, T, lo[i], hi[i]))
           N == {n \in Nat : \E i \in T : hi[i] - lo[i] = n /\ ~Good(i)}
<1>1. TreeNodes(q) = f[q.root]
  BY DEF TreeNodes, NodesFcn
<1>2. NodesFcn(t, f)
  BY NodesFcnExists
<1>3. NIL \notin DOMAIN t /\ T \subseteq DOMAIN t
  BY TreeTypes
<1> HIDE DEF f
<1>4. /\ f[NIL] = << >>
      /\ \A i \in T : f[i] = f[t[i].child["left"]] \o <<i>> \o f[t[i].child["right"]]
  BY <1>2, <1>3, Zenon DEF NodesFcn
<1>5. N = {}
  <2> SUFFICES ASSUME N # {} PROVE FALSE
    OBVIOUS
  <2>1. PICK n \in N : \A m \in N : n <= m
    <3>1. N \in SUBSET Nat
      OBVIOUS
    <3> HIDE DEF N
    <3> QED
      BY <3>1, Least
  <2>2. PICK i \in T : n \in Nat /\ hi[i] - lo[i] = n /\ ~Good(i)
    BY <2>1
  <2>3. ASSUME NEW side \in Sides
        PROVE  Ranked(R, f[t[i].child[side]],
                      Between(t, T, Low(t, lo, i, side), High(t, hi, i, side)))
    <3> DEFINE c == t[i].child[side]
               S == Between(t, T, Low(t, lo, i, side), High(t, hi, i, side))
    <3>1. CASE c = NIL
      <4>1. S = {}
        BY <3>1, SideBetween
      <4> HIDE DEF S, R, c
      <4>2. Ranked(R, f[c], S)
        BY <1>4, <3>1, <4>1, RankedFew
      <4> QED
        BY <4>2 DEF S, c
    <3>2. CASE c # NIL
      <4>1. c \in T /\ hi[c] - lo[c] \in Nat /\ hi[c] - lo[c] < n /\ S = Between(t, T, lo[c], hi[c])
        BY <2>2, <3>2, SideBetween
      <4> HIDE DEF c, S
      <4>2. hi[c] - lo[c] \notin N
        <5> HIDE DEF N
        <5> QED
          BY <2>1, <2>2, <4>1
      <4>3. Good(c)
        BY <4>1, <4>2
      <4>4. Ranked(R, f[c], S)
        BY <4>1, <4>3
      <4> QED
        BY <4>4 DEF c, S
    <3> QED
      BY <3>1, <3>2
  <2> DEFINE l == f[t[i].child["left"]]
             r == f[t[i].child["right"]]
  <2>4. /\ Ranked(R, l, Between(t, T, lo[i], t[i].key))
        /\ Ranked(R, r, Between(t, T, t[i].key, hi[i]))
    BY <2>3 DEF Low, High, Sides
  <2> HIDE DEF l, r
  <2>5. Ranked(R, l \o <<i>> \o r, Between(t, T, lo[i], hi[i]))
    BY <2>4, NodeJoin
  <2>6. Good(i)
    BY <1>4, <2>5, Zenon DEF l, r
  <2> QED
    BY <2>2, <2>6
<1>6. CASE q.root = NIL
  <2>1. T = {}
    BY <1>6 DEF Tree
  <2> QED
    BY <1>1, <1>4, <1>6, <2>1, RankedFew
<1>7. CASE q.root # NIL
  <2>1. q.root \in T /\ lo[q.root] = 0 /\ hi[q.root] = HiInsertionKey + 1
    BY <1>7 DEF Tree
  <2>2. Between(t, T, lo[q.root], hi[q.root]) = T
    <3>1. \A j \in T : 0 < t[j].key /\ t[j].key < HiInsertionKey + 1
      <4>1. \A j \in T : t[j].key \in Nat /\ lo[j] \in Nat /\ hi[j] \in Nat /\ HiInsertionKey \in Nat
                /\ lo[j] < t[j].key /\ t[j].key < hi[j] /\ hi[j] <= HiInsertionKey + 1
        BY NodeBounds
      <4> QED
        BY ONLY <4>1
    <3> QED
      BY <2>1, <3>1 DEF Between
  <2>3. hi[q.root] - lo[q.root] \in Nat
    BY <2>1, QueueAssumption
  <2>4. Good(q.root)
    BY <1>5, <2>1, <2>3
  <2> QED
    BY <1>1, <2>2, <2>4
<1> QED
  BY <1>6, <1>7

-----------------------------------------------------------------------------
(* The nodes of a list, from its head to its tail.                         *)

(* The next node of P is the one with the next age, if there is one.       *)
AgeNext(next, P, age) ==
  /\ \A j \in P : age[j] \in Nat
  /\ \A j, k \in P : age[j] = age[k] => j = k
  /\ \A j \in P : next[j] # NIL =>
       /\ next[j] \in P /\ age[j] < age[next[j]]
       /\ \A k \in P : ~(age[j] < age[k] /\ age[k] < age[next[j]])
  /\ \A j \in P : next[j] = NIL => \A k \in P : ~(age[j] < age[k])

(* The way from the oldest comes by all of them.                           *)
LEMMA WayRanked ==
  ASSUME NEW next, NEW P, NEW age, AgeNext(next, P, age),
         NEW i \in P, \A j \in P : ~(age[j] < age[i]), NEW p, IsWay(next, i, p),
         NEW R, \A x, y \in P : age[x] < age[y] => <<x, y>> \in R
  PROVE  Ranked(R, p, P)
<1> DEFINE n == Len(p)
<1>1. /\ n \in Nat /\ n >= 1 /\ p[1] = i /\ p \in Seq(DOMAIN next)
      /\ \A k \in 1..n - 1 : next[p[k]] # NIL /\ p[k + 1] = next[p[k]]
      /\ next[p[n]] = NIL
  BY LenProperties DEF IsWay
<1>2. p = [k \in 1..n |-> p[k]]
  BY <1>1, LenProperties
<1> HIDE DEF n
<1>3. \A k \in 1..n : p[k] \in P
  <2> DEFINE N == {k \in 1..n : p[k] \notin P}
  <2> SUFFICES ASSUME N # {} PROVE FALSE
    OBVIOUS
  <2>1. PICK k \in N : \A m \in N : k <= m
    <3>1. N \in SUBSET Nat
      BY <1>1
    <3> HIDE DEF N
    <3> QED
      BY <3>1, Least
  <2>2. k \in 1..n /\ p[k] \notin P /\ k # 1
    BY <1>1, <2>1
  <2>3. k - 1 \in 1..n - 1 /\ (k - 1) + 1 = k /\ k - 1 \in 1..n
    BY <1>1, <2>2
  <2>4. p[k - 1] \in P
    BY <1>1, <2>1, <2>2, <2>3
  <2>5. p[k] = next[p[k - 1]] /\ next[p[k - 1]] # NIL
    BY <1>1, <2>3
  <2> QED
    BY <2>2, <2>4, <2>5 DEF AgeNext
<1>4. \A k \in 1..n - 1 :
         /\ age[p[k]] \in Nat /\ age[p[k + 1]] \in Nat /\ age[p[k]] < age[p[k + 1]]
         /\ \A j \in P : ~(age[p[k]] < age[j] /\ age[j] < age[p[k + 1]])
  <2>1. \A k \in 1..n - 1 : k \in 1..n /\ k + 1 \in 1..n
    BY <1>1
  <2> QED
    BY <1>1, <1>3, <2>1 DEF AgeNext
<1>5. ASSUME NEW k \in 1..n, NEW m \in 1..n, k < m
      PROVE  age[p[k]] < age[p[m]]
  <2> DEFINE N == {j \in 1..n : k < j /\ ~(age[p[k]] < age[p[j]])}
  <2> SUFFICES ASSUME N # {} PROVE FALSE
    BY <1>5
  <2>1. PICK j \in N : \A l \in N : j <= l
    <3>1. N \in SUBSET Nat
      BY <1>1
    <3> HIDE DEF N
    <3> QED
      BY <3>1, Least
  <2>2. j \in 1..n /\ k < j /\ ~(age[p[k]] < age[p[j]])
    BY <2>1
  <2>3. j - 1 \in 1..n - 1 /\ (j - 1) + 1 = j /\ j - 1 \in 1..n /\ (k = j - 1 \/ k < j - 1)
    BY <1>1, <2>2
  <2>4. k < j - 1 => age[p[k]] < age[p[j - 1]]
    BY <1>1, <2>1, <2>2, <2>3
  <2>5. age[p[j - 1]] \in Nat /\ age[p[j]] \in Nat /\ age[p[j - 1]] < age[p[j]]
    BY <1>4, <2>3
  <2>6. age[p[k]] \in Nat
    BY <1>3 DEF AgeNext
  <2> QED
    BY <2>2, <2>3, <2>4, <2>5, <2>6
<1>6. ASSUME NEW j \in P
      PROVE  \E k \in 1..n : p[k] = j
  <2> DEFINE N == {k \in 1..n : k = n \/ age[j] < age[p[k + 1]]}
  <2>1. PICK k \in N : \A m \in N : k <= m
    <3>1. N \in SUBSET Nat /\ n \in N
      BY <1>1
    <3> HIDE DEF N
    <3> QED
      BY <3>1, Least
  <2>2. k \in 1..n /\ (k = n \/ age[j] < age[p[k + 1]])
    BY <2>1
  <2>3. /\ age[j] \in Nat /\ p[k] \in P /\ age[p[k]] \in Nat
    BY <1>3, <2>2 DEF AgeNext
  <2>4. ~(age[j] < age[p[k]])
    <3>1. CASE k = 1
      BY <1>1, <3>1
    <3>2. CASE k # 1
      <4>1. k - 1 \in 1..n /\ k - 1 # n /\ (k - 1) + 1 = k /\ ~(k <= k - 1)
        BY <1>1, <2>2, <3>2
      <4>2. k - 1 \notin N
        BY <2>1, <4>1
      <4> QED
        BY <4>1, <4>2
    <3> QED
      BY <3>1, <3>2
  <2>5. ~(age[p[k]] < age[j])
    <3>1. CASE k = n
      BY <1>1, <2>3, <3>1 DEF AgeNext
    <3>2. CASE k # n
      <4>1. k \in 1..n - 1
        BY <1>1, <2>2, <3>2
      <4> QED
        BY <1>4, <2>2, <3>2, <4>1
    <3> QED
      BY <3>1, <3>2
  <2>6. age[p[k]] = age[j]
    BY <2>3, <2>4, <2>5
  <2>7. p[k] = j
    BY <2>3, <2>6 DEF AgeNext
  <2> QED
    BY <2>2, <2>7
<1>7. p \in Seq(P) /\ Len(p) = n
  BY <1>1, <1>2, <1>3 DEF n
<1>8. \A k, m \in 1..n : k < m => <<p[k], p[m]>> \in R
  BY <1>3, <1>5
<1> QED
  BY <1>6, <1>7, <1>8 DEF Ranked

(* A stack is a path from its top.                                         *)
LEMMA StackPath ==
  ASSUME NEW next, NEW m, Descending(next, m), NIL \notin DOMAIN next,
         NEW top, NEW S, NEW free, StackIs(next, top, S, free)
  PROVE  Reverse(Path(next, top)) = S
<1> DEFINE n == Len(S)
           r == Reverse(S)
<1>1. /\ n \in Nat /\ S \in Seq(free) /\ free \subseteq DOMAIN next
      /\ \A k \in 1..n : S[k] \in free
      /\ S \in Seq(DOMAIN next)
  BY ElementOfSeq, LenProperties, SeqMonotonic DEF StackIs
<1>2. \A k \in 1..n : (n - k) + 1 \in 1..n /\ (n - ((n - k) + 1)) + 1 = k
  BY <1>1
<1>3. r = [k \in 1..n |-> S[(n - k) + 1]]
  BY DEF Reverse
<1>4. CASE S = << >>
  <2>1. top = NIL
    BY <1>4 DEF StackIs
  <2>2. Path(next, top) = << >>
    BY <2>1 DEF Path
  <2>3. Reverse(<< >>) = << >>
    BY DEF Reverse
  <2> QED
    BY <1>4, <2>2, <2>3
<1>5. CASE S # << >>
  <2>1. n >= 1 /\ top = S[n]
    BY <1>1, <1>5 DEF StackIs
  <2>2. r \in Seq(DOMAIN next) /\ Len(r) = n
    <3> HIDE DEF r, n
    <3> QED
      BY <1>1, <1>2, <1>3
  <2> HIDE DEF r
  <2>3. r[1] = top
    <3>1. 1 \in 1..n /\ (n - 1) + 1 = n
      BY <1>1, <2>1
    <3> QED
      BY <1>3, <2>1, <3>1
  <2>4. \A k \in 1..n - 1 : next[r[k]] # NIL /\ r[k + 1] = next[r[k]]
    <3>1. SUFFICES ASSUME NEW k \in 1..n - 1
                   PROVE  next[r[k]] # NIL /\ r[k + 1] = next[r[k]]
      OBVIOUS
    <3>2. /\ k \in 1..n /\ k + 1 \in 1..n /\ (n - k) + 1 \in 1..n /\ (n - k) + 1 # 1
          /\ ((n - k) + 1) - 1 = (n - (k + 1)) + 1 /\ (n - (k + 1)) + 1 \in 1..n
      BY <1>1
    <3>3. r[k] = S[(n - k) + 1] /\ r[k + 1] = S[(n - (k + 1)) + 1]
      BY <1>3, <3>2
    <3>4. next[S[(n - k) + 1]] = S[((n - k) + 1) - 1]
      BY <3>2 DEF StackIs, n
    <3>5. S[(n - (k + 1)) + 1] # NIL
      BY <1>1, <3>2
    <3> QED
      BY <3>2, <3>3, <3>4, <3>5
  <2>5. next[r[n]] = NIL
    <3>1. n \in 1..n /\ (n - n) + 1 = 1 /\ 1 \in 1..n
      BY <1>1, <2>1
    <3>2. r[n] = S[1] /\ next[S[1]] = NIL
      BY <1>3, <3>1 DEF StackIs, n
    <3> QED
      BY <3>2
  <2>6. IsWay(next, top, r)
    BY <2>1, <2>2, <2>3, <2>4, <2>5 DEF IsWay
  <2>7. top \in DOMAIN next /\ top # NIL
    BY <1>1, <2>1
  <2>8. Path(next, top) = r
    BY <2>6, <2>7, PathIsWay, WayUnique
  <2>9. Reverse(r) = S
    <3>1. Reverse(r) = [k \in 1..n |-> r[(n - k) + 1]]
      BY <2>2 DEF Reverse
    <3>2. \A k \in 1..n : r[(n - k) + 1] = S[k]
      BY <1>2, <1>3
    <3>3. S = [k \in 1..n |-> S[k]]
      BY <1>1, LenProperties
    <3> HIDE DEF n
    <3> QED
      BY <3>1, <3>2, <3>3
  <2> QED
    BY <2>8, <2>9
<1> QED
  BY <1>4, <1>5

(* Walks along the list nodes end: by age in a list, and in the stack.     *)
Indexes(S, i) == CHOOSE k \in 1..Len(S) : S[k] = i

(* The walk along a list and that down the stack of list nodes both end.   *)
LEMMA ListsDescend ==
  ASSUME NEW q, NEW T, NEW A, NEW home, NEW age, AVLQueue(q, T, A, home, age),
         NEW now \in Nat, \A i \in A : age[i] < now
  PROVE  /\ \E m : Descending(NextListNode(q), m)
         /\ \E S : StackIs(NextListNode(q), q.listTop, S, DOMAIN q.lists \ A)
         /\ DOMAIN NextListNode(q) = DOMAIN q.lists /\ NIL \notin DOMAIN q.lists
<1> DEFINE next == NextListNode(q)
           free == DOMAIN q.lists \ A
<1>1. /\ QueueFacts(q, T, A, home, age) /\ Links(q.lists, A, home, age) /\ FreeLists(q, A)
  BY QueueFactsHold DEF AVLQueue, ListsOf
<1>2. PICK S : StackIs(ListNext(q.lists), q.listTop, S, free)
  BY <1>1 DEF FreeLists
<1>3. next = ListNext(q.lists) /\ DOMAIN next = DOMAIN q.lists /\ NIL \notin DOMAIN q.lists
  BY <1>1 DEF NextListNode, ListNext, QueueFacts
<1> DEFINE m == [i \in DOMAIN q.lists |-> IF i \in A THEN now - age[i] ELSE Indexes(S, i)]
<1>4. ASSUME NEW i \in A
      PROVE  /\ m[i] \in Nat
             /\ next[i] # NIL => next[i] \in DOMAIN next /\ m[next[i]] < m[i]
  <2>1. i \in DOMAIN q.lists /\ age[i] \in Nat /\ m[i] = now - age[i]
    BY <1>1 DEF QueueFacts
  <2>2. next[i] = IF q.lists[i].next.tree THEN NIL ELSE q.lists[i].next.id
    BY <2>1 DEF NextListNode
  <2>3. next[i] # NIL => next[i] \in A /\ age[i] < age[next[i]]
    BY <1>1, <2>2 DEF Links, LinkHolds, Before
  <2> HIDE DEF next
  <2>4. ASSUME next[i] # NIL
        PROVE  /\ next[i] \in DOMAIN next /\ age[next[i]] \in Nat
               /\ m[next[i]] = now - age[next[i]] /\ age[i] < age[next[i]]
    BY <1>1, <1>3, <2>3, <2>4 DEF QueueFacts
  <2> HIDE DEF m
  <2>5. age[i] < now
    OBVIOUS
  <2>6. now - age[i] \in Nat
    BY ONLY <2>1, <2>5, now \in Nat
  <2>7. ASSUME next[i] # NIL
        PROVE  m[next[i]] < m[i]
    BY ONLY <2>1, <2>4, <2>7, now \in Nat
  <2> QED
    BY <2>1, <2>4, <2>6, <2>7
<1>5. ASSUME NEW i \in free
      PROVE  /\ m[i] \in Nat
             /\ next[i] # NIL => next[i] \in DOMAIN next /\ m[next[i]] < m[i]
  <2>1. \A j \in free : m[j] = Indexes(S, j)
    OBVIOUS
  <2>2. /\ S \in Seq(free) /\ Len(S) \in Nat /\ \A k \in 1..Len(S) : S[k] \in free
    BY <1>2, ElementOfSeq, LenProperties DEF StackIs
  <2>3. /\ \A j \in free : \E k \in 1..Len(S) : S[k] = j
        /\ \A k \in 1..Len(S) : next[S[k]] = IF k = 1 THEN NIL ELSE S[k - 1]
        /\ \A j, k \in 1..Len(S) : S[j] = S[k] => j = k
    BY <1>2, <1>3 DEF StackIs
  <2>4. \A j \in free : Indexes(S, j) \in 1..Len(S) /\ S[Indexes(S, j)] = j
    BY <2>3 DEF Indexes
  <2> HIDE DEF next, m, free
  <2> DEFINE k == Indexes(S, i)
  <2>5. k \in 1..Len(S) /\ S[k] = i /\ m[i] = k /\ next[i] = IF k = 1 THEN NIL ELSE S[k - 1]
    BY <2>1, <2>3, <2>4
  <2> HIDE DEF k
  <2>6. k \in Nat
    BY <2>2, <2>5
  <2>7. ASSUME k # 1
        PROVE  S[k - 1] \in free /\ m[S[k - 1]] < m[i]
    <3>1. k - 1 \in 1..Len(S)
      BY <2>2, <2>5, <2>7
    <3>2. S[k - 1] \in free
      BY <2>2, <3>1
    <3>3. m[S[k - 1]] = k - 1
      BY <2>1, <2>3, <2>4, <3>1, <3>2
    <3> QED
      BY <2>5, <2>6, <3>2, <3>3
  <2>8. free \subseteq DOMAIN next
    BY <1>3 DEF free
  <2> QED
    BY <2>5, <2>6, <2>7, <2>8
<1>6. Descending(next, m)
  <2>1. DOMAIN next = A \cup free
    BY <1>1, <1>3 DEF QueueFacts
  <2> HIDE DEF next, m, free
  <2> QED
    BY <1>4, <1>5, <2>1 DEF Descending
<1> QED
  BY <1>2, <1>3, <1>6

(* The nodes of the list at a tree node, by age.                           *)
AtHome(A, home, h) == {i \in A : home[i] = h}
ByAge(A, age) == {p \in A \X A : age[p[1]] < age[p[2]]}

(* The path from the head of a list has each of its nodes.                 *)
LEMMA ListRanked ==
  ASSUME NEW q, NEW T, NEW A, NEW home, NEW age, AVLQueue(q, T, A, home, age),
         NEW now \in Nat, \A i \in A : age[i] < now, NEW h \in T
  PROVE  Ranked(ByAge(A, age), Path(NextListNode(q), q.trees[h].head), AtHome(A, home, h))
<1> DEFINE next == NextListNode(q)
           P == AtHome(A, home, h)
           i == q.trees[h].head
<1>1. /\ QueueFacts(q, T, A, home, age) /\ Links(q.lists, A, home, age) /\ Ends(q, T, A, home, age)
  BY QueueFactsHold DEF AVLQueue, ListsOf
<1>2. EndHolds(A, home, age, "next", h, i)
  BY <1>1 DEF Ends
<1>3. /\ i \in P /\ \A j \in P : ~(age[j] < age[i])
  BY <1>2 DEF EndHolds, AtHome, Before
<1>4. \A j \in P : /\ j \in A /\ home[j] = h /\ age[j] \in Nat /\ j # NIL /\ j \in DOMAIN q.lists
  BY <1>1 DEF QueueFacts, AtHome
<1>5. AgeNext(next, P, age)
  <2>1. \A j \in P : next[j] = IF q.lists[j].next.tree THEN NIL ELSE q.lists[j].next.id
    BY <1>4 DEF NextListNode
  <2>2. \A j \in P : LinkHolds(q.lists, A, home, age, "next", j)
    BY <1>1, <1>4 DEF Links
  <2>3. \A j, k \in P : age[j] = age[k] => j = k
    BY <1>1, <1>4 DEF Links
  <2>4. ASSUME NEW j \in P, next[j] # NIL
        PROVE  /\ next[j] \in P /\ age[j] < age[next[j]]
               /\ \A k \in P : ~(age[j] < age[k] /\ age[k] < age[next[j]])
    <3> HIDE DEF next
    <3>1. ~q.lists[j].next.tree /\ next[j] = q.lists[j].next.id
      BY <2>1, <2>4
    <3>2. LinkHolds(q.lists, A, home, age, "next", j)
      BY <2>2
    <3> QED
      BY <1>4, <3>1, <3>2 DEF LinkHolds, Before, AtHome
  <2>5. ASSUME NEW j \in P, next[j] = NIL
        PROVE  \A k \in P : ~(age[j] < age[k])
    <3> HIDE DEF next
    <3>1. q.lists[j].next.tree
      <4>1. ~q.lists[j].next.tree => q.lists[j].next.id \in A
        BY <2>2 DEF LinkHolds
      <4> QED
        BY <1>1, <2>1, <2>5, <4>1 DEF QueueFacts
    <3>2. LinkHolds(q.lists, A, home, age, "next", j)
      BY <2>2
    <3> QED
      BY <1>4, <3>1, <3>2 DEF LinkHolds, Before, AtHome
  <2> HIDE DEF next, P
  <2> QED
    BY <1>4, <2>3, <2>4, <2>5 DEF AgeNext
<1>6. IsWay(next, i, Path(next, i))
  <2>1. PICK m : Descending(next, m)
    BY ListsDescend
  <2>2. i \in DOMAIN next /\ i # NIL
    BY <1>3, <1>4, ListsDescend
  <2> HIDE DEF next
  <2> QED
    BY <2>1, <2>2, PathIsWay
<1>7. \A x, y \in P : age[x] < age[y] => <<x, y>> \in ByAge(A, age)
  BY <1>4 DEF ByAge
<1> HIDE DEF next, P, i
<1>8. Ranked(ByAge(A, age), Path(next, i), P)
  BY <1>3, <1>5, <1>6, <1>7, WayRanked
<1> QED
  BY <1>8 DEF next, P, i

-----------------------------------------------------------------------------
(* The access keys.                                                        *)

(* What HoldsEntries says, with the tree's bounds.                         *)
Whole(q, T, A, home, age, now, lo, hi) ==
  /\ AVLQueue(q, T, A, home, age) /\ QueueFacts(q, T, A, home, age)
  /\ now \in Nat /\ \A i \in A : age[i] < now
  /\ Searchable(q.trees, q.root, T, lo, hi) /\ Tree(q.trees, q.root, T, lo, hi)
  /\ Idle(q.trees, T)

(* A queue that is in order can be unfolded.                               *)
LEMMA WholeOf ==
  ASSUME NEW q, NEW T, NEW A, NEW home, NEW age, AVLQueue(q, T, A, home, age),
         NEW now \in Nat, \A i \in A : age[i] < now
  PROVE  \E lo, hi : Whole(q, T, A, home, age, now, lo, hi)
<1>1. QueueFacts(q, T, A, home, age) /\ TreeOf(q, T)
  BY QueueFactsHold DEF AVLQueue
<1>2. PICK lo, hi : Searchable(q.trees, q.root, T, lo, hi)
  BY <1>1 DEF TreeOf, AVLTree
<1>3. Tree(q.trees, q.root, T, lo, hi) /\ Idle(q.trees, T)
  BY <1>1, <1>2 DEF Searchable, TreeOf
<1>4. Whole(q, T, A, home, age, now, lo, hi)
  BY <1>1, <1>2, <1>3 DEF Whole
<1> QED
  BY <1>4

(* So can one that holds entries.                                          *)
LEMMA WholeExists ==
  ASSUME NEW q, NEW keys, HoldsEntries(q, keys)
  PROVE  \E T, A, home, age, now, lo, hi :
           Whole(q, T, A, home, age, now, lo, hi) /\ keys = AccessKeys(q, A, home)
  BY WholeOf DEF HoldsEntries

(* The entries at a tree node are those of its list.                       *)
LEMMA EntriesAtHome ==
  ASSUME NEW q, NEW T, NEW A, NEW home, NEW age, NEW now, NEW lo, NEW hi,
         Whole(q, T, A, home, age, now, lo, hi), NEW h \in T
  PROVE  LET nodes == Path(NextListNode(q), q.trees[h].head)
         IN /\ Ranked(ByAge(A, age), nodes, AtHome(A, home, h))
            /\ DOMAIN EntriesAt(q, h) = 1..Len(nodes) /\ Len(nodes) \in Nat
            /\ \A k \in 1..Len(nodes) :
                 /\ nodes[k] \in A /\ home[nodes[k]] = h
                 /\ EntriesAt(q, h)[k] = [key |-> q.trees[h].key, node |-> nodes[k],
                                          value |-> q.values[nodes[k]]]
<1> DEFINE nodes == Path(NextListNode(q), q.trees[h].head)
<1>1. Ranked(ByAge(A, age), nodes, AtHome(A, home, h))
  BY ListRanked DEF Whole
<1>2. EntriesAt(q, h) = [i \in DOMAIN nodes |-> [key |-> q.trees[h].key, node |-> nodes[i],
                                                 value |-> q.values[nodes[i]]]]
  BY DEF EntriesAt
<1> HIDE DEF nodes
<1>3. DOMAIN nodes = 1..Len(nodes) /\ Len(nodes) \in Nat /\ nodes \in Seq(AtHome(A, home, h))
  BY <1>1, RankedSet
<1>4. \A k \in 1..Len(nodes) : nodes[k] \in AtHome(A, home, h)
  BY <1>3, ElementOfSeq
<1>5. \A k \in 1..Len(nodes) : nodes[k] \in A /\ home[nodes[k]] = h
  BY <1>4 DEF AtHome
<1> QED
  BY <1>1, <1>2, <1>3, <1>5 DEF nodes

(* An access key leads to its entry for as long as it is in the queue.     *)
LEMMA AccessKeysFollow ==
  ASSUME QueueInv
  PROVE  AccessKeysHold
<1>1. PICK T, A, home, age, now, lo, hi :
        Whole(avlq, T, A, home, age, now, lo, hi) /\ issued = AccessKeys(avlq, A, home)
  BY WholeExists DEF QueueInv
<1>2. ToSet(TreeNodes(avlq)) = T
  BY <1>1, TreeNodesRanked, RankedSet DEF Whole
<1>3. /\ \A i \in A : home[i] \in T /\ avlq.values[i] = avlq.trees[home[i]].key
  BY <1>1 DEF Whole, QueueFacts
<1>4. ASSUME NEW h \in T
      PROVE  {Access(e.key, e.node, h) : e \in ToSet(EntriesAt(avlq, h))}
               = {Access(avlq.values[i], i, home[i]) : i \in AtHome(A, home, h)}
  <2> DEFINE nodes == Path(NextListNode(avlq), avlq.trees[h].head)
             entries == EntriesAt(avlq, h)
  <2>1. /\ Ranked(ByAge(A, age), nodes, AtHome(A, home, h))
        /\ DOMAIN entries = 1..Len(nodes)
        /\ \A k \in 1..Len(nodes) :
             /\ nodes[k] \in A /\ home[nodes[k]] = h
             /\ entries[k] = [key |-> avlq.trees[h].key, node |-> nodes[k],
                              value |-> avlq.values[nodes[k]]]
    BY <1>1, EntriesAtHome
  <2> HIDE DEF nodes, entries
  <2>2. \A k \in 1..Len(nodes) :
          Access(entries[k].key, entries[k].node, h)
            = Access(avlq.values[nodes[k]], nodes[k], home[nodes[k]])
    BY <1>3, <2>1
  <2>3. \A i \in AtHome(A, home, h) : \E k \in 1..Len(nodes) : nodes[k] = i
    BY <2>1 DEF Ranked
  <2>4. \A k \in 1..Len(nodes) : nodes[k] \in AtHome(A, home, h)
    BY <2>1 DEF AtHome
  <2>5. ToSet(entries) = {entries[k] : k \in 1..Len(nodes)}
    BY <2>1 DEF ToSet
  <2>6. {Access(e.key, e.node, h) : e \in ToSet(entries)}
          = {Access(entries[k].key, entries[k].node, h) : k \in 1..Len(nodes)}
    BY <2>5
  <2>7. {Access(entries[k].key, entries[k].node, h) : k \in 1..Len(nodes)}
          = {Access(avlq.values[i], i, home[i]) : i \in AtHome(A, home, h)}
    BY <2>2, <2>3, <2>4
  <2> QED
    BY <2>6, <2>7 DEF entries
<1>5. UNION {{Access(e.key, e.node, h) : e \in ToSet(EntriesAt(avlq, h))} : h \in T}
        = {Access(avlq.values[i], i, home[i]) : i \in A}
  BY <1>3, <1>4 DEF AtHome
<1> QED
  BY <1>1, <1>2, <1>5 DEF AccessKeysHold, AccessKeys

(* The tree is in order.                                                   *)
LEMMA BalancedFollows ==
  ASSUME QueueInv
  PROVE  Balanced
<1> DEFINE t == avlq.trees
           trees == TreeNodes(avlq)
           node(i) == t[trees[i]]
           height(id) == IF id = NIL THEN 0 ELSE 1 + Height(t[id])
<1>1. PICK T, A, home, age, now, lo, hi : Whole(avlq, T, A, home, age, now, lo, hi)
  BY WholeExists DEF QueueInv
<1>2. /\ Ranked(ByKey(t, T), trees, T) /\ Searchable(t, avlq.root, T, lo, hi)
      /\ Tree(t, avlq.root, T, lo, hi)
  BY <1>1, TreeNodesRanked DEF Whole
<1> HIDE DEF trees
<1>3. /\ DOMAIN trees = 1..Len(trees) /\ Len(trees) \in Nat /\ \A i \in 1..Len(trees) : trees[i] \in T
  BY <1>2, RankedSet, ElementOfSeq
<1>4. \A i \in DOMAIN trees \ {1} : node(i - 1).key < node(i).key
  <2>1. SUFFICES ASSUME NEW i \in DOMAIN trees \ {1}
                 PROVE  node(i - 1).key < node(i).key
    OBVIOUS
  <2>2. i \in 1..Len(trees) /\ i - 1 \in 1..Len(trees) /\ i - 1 < i
    BY <1>3
  <2>3. <<trees[i - 1], trees[i]>> \in ByKey(t, T)
    BY <1>2, <2>2 DEF Ranked
  <2> QED
    BY <2>3 DEF ByKey
<1>5. ASSUME NEW h \in T, NEW side \in Sides
      PROVE  /\ t[h].height[side] = height(t[h].child[side])
             /\ t[h].child[side] # NIL => t[t[h].child[side]].parent = h
             /\ t[h].height["left"] - t[h].height["right"] \in {-1, 0, 1}
  <2>1. BalancedAt(t, h) /\ HeightHolds(t, h, side) /\ SideHolds(t, T, lo, hi, h, side)
    BY <1>2 DEF Searchable, Tree
  <2>2. t[h].child[side] # NIL => t[h].child[side] \in T /\ t[t[h].child[side]].parent = h
    BY <2>1 DEF SideHolds
  <2>3. t[h].child[side] # NIL => Height(t[t[h].child[side]]) + 1 = 1 + Height(t[t[h].child[side]])
    <3> DEFINE c == t[h].child[side]
    <3>1. ASSUME c # NIL
          PROVE  Height(t[c]) \in Nat
      BY <1>2, <2>2, <3>1, TreeTypes, HeightType
    <3> QED
      BY <3>1
  <2> QED
    BY <2>1, <2>2, <2>3 DEF BalancedAt, HeightHolds, HeightBelow
<1>6. avlq.root # NIL => t[avlq.root].parent = NIL
  BY <1>2 DEF Tree
<1>7. \A i \in DOMAIN trees :
          /\ \A side \in {"left", "right"} :
               /\ node(i).height[side] = height(node(i).child[side])
               /\ node(i).child[side] # NIL => t[node(i).child[side]].parent = trees[i]
          /\ node(i).height["left"] - node(i).height["right"] \in {-1, 0, 1}
  BY <1>3, <1>5 DEF Sides
<1> QED
  BY <1>4, <1>6, <1>7 DEF Balanced, trees

(* Each tree node is in the tree or in the stack, once.                    *)
LEMMA TreeNodesKeptFollow ==
  ASSUME QueueInv
  PROVE  TreeNodesKept
<1> DEFINE t == avlq.trees
           trees == TreeNodes(avlq)
           next == [i \in DOMAIN t |-> t[i].next]
           stack == TreeStack(avlq)
           used == trees \o stack
<1>1. PICK T, A, home, age, now, lo, hi : Whole(avlq, T, A, home, age, now, lo, hi)
  BY WholeExists DEF QueueInv
<1>2. /\ Ranked(ByKey(t, T), trees, T) /\ Tree(t, avlq.root, T, lo, hi)
  BY <1>1, TreeNodesRanked DEF Whole
<1> DEFINE free == DOMAIN t \ T
<1>3. /\ next = FreeNext(t) /\ DOMAIN next = DOMAIN t /\ NIL \notin DOMAIN t /\ T \subseteq DOMAIN t
      /\ \A i \in T : next[i] = NIL
  <2>1. TreeOf(avlq, T)
    BY <1>1 DEF Whole, AVLQueue
  <2>2. NIL \notin DOMAIN t /\ T \subseteq DOMAIN t
    BY <1>2, TreeTypes
  <2>3. \A i \in T : t[i].next = NIL
    BY <2>1 DEF TreeOf
  <2> QED
    BY <2>2, <2>3 DEF FreeNext
<1>4. PICK S : StackIs(next, avlq.treeTop, S, free)
  BY <1>1, <1>3 DEF Whole, AVLQueue, TreeOf
<1>5. stack = Reverse(Path(next, avlq.treeTop))
  BY DEF TreeStack
<1> HIDE DEF next, stack, trees
<1>6. \E m : Descending(next, m)
  <2> DEFINE m == [i \in DOMAIN t |-> IF i \in T THEN 0 ELSE Indexes(S, i)]
  <2>1. /\ S \in Seq(free) /\ Len(S) \in Nat /\ \A k \in 1..Len(S) : S[k] \in free
    BY <1>4, ElementOfSeq, LenProperties DEF StackIs
  <2>2. /\ \A j \in free : \E k \in 1..Len(S) : S[k] = j
        /\ \A k \in 1..Len(S) : next[S[k]] = IF k = 1 THEN NIL ELSE S[k - 1]
        /\ \A j, k \in 1..Len(S) : S[j] = S[k] => j = k
    BY <1>4 DEF StackIs
  <2>3. \A j \in free : Indexes(S, j) \in 1..Len(S) /\ S[Indexes(S, j)] = j
    BY <2>2 DEF Indexes
  <2>4. \A j \in free : m[j] = Indexes(S, j) /\ j \in DOMAIN t
    OBVIOUS
  <2>5. \A j \in T : m[j] = 0
    BY <1>3
  <2>6. DOMAIN t = T \cup free
    BY <1>3
  <2> HIDE DEF m, free, t
  <2>7. ASSUME NEW i \in free
        PROVE  /\ m[i] \in Nat
               /\ next[i] # NIL => next[i] \in DOMAIN next /\ m[next[i]] < m[i]
    <3> DEFINE k == Indexes(S, i)
    <3>1. k \in 1..Len(S) /\ S[k] = i /\ m[i] = k /\ next[i] = IF k = 1 THEN NIL ELSE S[k - 1]
      BY <2>2, <2>3, <2>4
    <3> HIDE DEF k
    <3>2. k \in Nat
      BY <2>1, <3>1
    <3>3. ASSUME k # 1
          PROVE  S[k - 1] \in free /\ m[S[k - 1]] < m[i]
      <4>1. k - 1 \in 1..Len(S)
        BY <2>1, <3>1, <3>3
      <4>2. S[k - 1] \in free
        BY <2>1, <4>1
      <4>3. m[S[k - 1]] = k - 1
        BY <2>2, <2>3, <2>4, <4>1, <4>2
      <4> QED
        BY <3>1, <3>2, <4>2, <4>3
    <3>4. free \subseteq DOMAIN next
      BY <1>3, <2>4
    <3> QED
      BY <3>1, <3>2, <3>3, <3>4
  <2>8. Descending(next, m)
    BY <1>3, <2>5, <2>6, <2>7 DEF Descending
  <2> QED
    BY <2>8
<1>7. stack = S
  BY <1>3, <1>4, <1>5, <1>6, StackPath
<1>8. /\ trees \in Seq(T) /\ Len(trees) \in Nat /\ \A i \in 1..Len(trees) : trees[i] \in T
      /\ \A i, j \in 1..Len(trees) : trees[i] = trees[j] => i = j
      /\ \A x \in T : \E i \in 1..Len(trees) : trees[i] = x
  <2>1. OneWay(ByKey(t, T), T)
    BY <1>2, KeysOneWay
  <2>2. \A i, j \in 1..Len(trees) : trees[i] = trees[j] => i = j
    BY <1>2, <2>1, RankedOnce
  <2>3. trees \in Seq(T) /\ Len(trees) \in Nat
    BY <1>2, RankedSet
  <2>4. \A x \in T : \E i \in 1..Len(trees) : trees[i] = x
    BY <1>2 DEF Ranked
  <2> QED
    BY <2>2, <2>3, <2>4, ElementOfSeq
<1>9. /\ S \in Seq(free) /\ Len(S) \in Nat /\ \A i \in 1..Len(S) : S[i] \in free
      /\ \A i, j \in 1..Len(S) : S[i] = S[j] => i = j
      /\ \A x \in free : \E i \in 1..Len(S) : S[i] = x
  BY <1>4, ElementOfSeq, LenProperties DEF StackIs
<1>10. trees \in Seq(DOMAIN t) /\ S \in Seq(DOMAIN t)
  BY <1>3, <1>8, <1>9, SeqMonotonic
<1>11. /\ Len(used) = Len(trees) + Len(S) /\ DOMAIN used = 1..Len(used)
       /\ \A i \in 1..Len(trees) + Len(S) :
            used[i] = IF i <= Len(trees) THEN trees[i] ELSE S[i - Len(trees)]
  BY <1>7, <1>10, ConcatProperties, LenProperties
<1> HIDE DEF used, free
<1>12. /\ \A i \in 1..Len(trees) : used[i] = trees[i] /\ i \in DOMAIN used
       /\ \A i \in 1..Len(S) : used[i + Len(trees)] = S[i] /\ i + Len(trees) \in DOMAIN used
       /\ \A i \in DOMAIN used : i \in 1..Len(trees) \/ \E j \in 1..Len(S) : i = j + Len(trees)
  <2>1. \A i \in 1..Len(trees) : i \in 1..Len(trees) + Len(S) /\ i <= Len(trees)
    BY <1>8, <1>9
  <2>2. \A i \in 1..Len(S) : /\ i + Len(trees) \in 1..Len(trees) + Len(S) /\ ~(i + Len(trees) <= Len(trees))
                              /\ (i + Len(trees)) - Len(trees) = i
    BY <1>8, <1>9
  <2>3. ASSUME NEW i \in 1..Len(trees) + Len(S)
        PROVE  i \in 1..Len(trees) \/ \E j \in 1..Len(S) : i = j + Len(trees)
    <3>1. CASE ~(i <= Len(trees))
      <4>1. i - Len(trees) \in 1..Len(S) /\ i = (i - Len(trees)) + Len(trees)
        BY <1>8, <1>9, <3>1
      <4> QED
        BY <4>1
    <3> QED
      BY <1>8, <1>9, <3>1
  <2> QED
    BY <1>11, <2>1, <2>2, <2>3
<1>13. \A x \in T : x \notin free
  BY DEF free
<1> HIDE DEF t
<1>14. ASSUME NEW a \in DOMAIN used, NEW b \in DOMAIN used, used[a] = used[b]
       PROVE  a = b
  <2>1. ASSUME a \in 1..Len(trees), b \in 1..Len(trees)
        PROVE  a = b
    BY <1>8, <1>12, <1>14, <2>1
  <2>2. ASSUME NEW i \in 1..Len(S), NEW j \in 1..Len(S),
               a = i + Len(trees), b = j + Len(trees)
        PROVE  a = b
    <3>1. S[i] = S[j]
      BY <1>12, <1>14, <2>2
    <3> QED
      BY <1>9, <2>2, <3>1
  <2>3. ASSUME NEW i \in 1..Len(trees), NEW j \in 1..Len(S),
               NEW k, k = j + Len(trees)
        PROVE  used[i] # used[k]
    <3>1. used[i] \in T /\ used[k] \in free
      BY <1>8, <1>9, <1>12, <2>3
    <3> QED
      BY <1>13, <3>1
  <2> QED
    BY <1>12, <1>14, <2>1, <2>2, <2>3
<1>15. ToSet(used) = DOMAIN t
  <2>1. DOMAIN t = T \cup free
    BY <1>3 DEF free
  <2>2. ASSUME NEW i \in DOMAIN used
        PROVE  used[i] \in T \cup free
    <3>1. ASSUME NEW j \in 1..Len(S), i = j + Len(trees)
          PROVE  used[i] \in free
      BY <1>9, <1>12, <3>1
    <3> QED
      BY <1>8, <1>12, <3>1
  <2>3. ASSUME NEW x \in T \cup free
        PROVE  \E i \in DOMAIN used : used[i] = x
    <3>1. CASE x \in T
      <4>1. PICK i \in 1..Len(trees) : trees[i] = x
        BY <1>8, <3>1
      <4> QED
        BY <1>12, <4>1
    <3>2. CASE x \in free
      <4>1. PICK i \in 1..Len(S) : S[i] = x
        BY <1>9, <3>2
      <4> QED
        BY <1>12, <4>1
    <3> QED
      BY <3>1, <3>2
  <2>4. ToSet(used) = {used[i] : i \in DOMAIN used}
    BY DEF ToSet
  <2> QED
    BY <2>1, <2>2, <2>3, <2>4
<1> QED
  BY <1>14, <1>15 DEF TreeNodesKept, IsInjective, used, trees, stack, t

-----------------------------------------------------------------------------
(* The queue that callers see.                                             *)

EntryOf(q, i) == [key |-> q.values[i], node |-> i, value |-> q.values[i]]
EntrySet(q, A) == {EntryOf(q, i) : i \in A}

(* By key, the best first, and by age.                                     *)
InTurn(q, A, age) ==
  {p \in EntrySet(q, A) \X EntrySet(q, A) : Ahead(q, age, p[1].node, p[2].node)}

(* The order of two entries.                                               *)
LEMMA InTurnIs ==
  ASSUME NEW q, NEW A, NEW age, NEW i \in A, NEW j \in A
  PROVE  /\ EntryOf(q, i) \in EntrySet(q, A) /\ EntryOf(q, i).node = i
         /\ <<EntryOf(q, i), EntryOf(q, j)>> \in InTurn(q, A, age) <=> Ahead(q, age, i, j)
<1>1. EntryOf(q, i).node = i /\ EntryOf(q, j).node = j
  BY DEF EntryOf
<1>2. EntryOf(q, i) \in EntrySet(q, A) /\ EntryOf(q, j) \in EntrySet(q, A)
  BY DEF EntrySet
<1> QED
  BY <1>1, <1>2 DEF InTurn

(* It is an order.                                                         *)
LEMMA InTurnOneWay ==
  ASSUME NEW q, NEW A, NEW age, \A i \in A : q.values[i] \in Nat /\ age[i] \in Nat
  PROVE  OneWay(InTurn(q, A, age), EntrySet(q, A))
<1> SUFFICES ASSUME NEW x \in EntrySet(q, A), NEW y \in EntrySet(q, A),
                    <<x, y>> \in InTurn(q, A, age), <<y, x>> \in InTurn(q, A, age)
             PROVE  FALSE
  BY DEF OneWay
<1>1. PICK i \in A : x = EntryOf(q, i)
  BY DEF EntrySet
<1>2. PICK j \in A : y = EntryOf(q, j)
  BY DEF EntrySet
<1>3. Ahead(q, age, i, j) /\ Ahead(q, age, j, i)
  BY <1>1, <1>2, InTurnIs
<1> DEFINE a == q.values[i]
           b == q.values[j]
           c == age[i]
           d == age[j]
<1>4. /\ a \in Nat /\ b \in Nat /\ c \in Nat /\ d \in Nat
      /\ (IF q.ascending THEN a < b ELSE a > b) \/ (a = b /\ c < d)
      /\ (IF q.ascending THEN b < a ELSE b > a) \/ (b = a /\ d < c)
  BY <1>3 DEF Ahead, Better
<1> HIDE DEF a, b, c, d
<1> QED
  BY ONLY <1>4

(* The tree nodes from the best one on.                                    *)
BestFirst(q) == IF q.ascending THEN TreeNodes(q) ELSE Reverse(TreeNodes(q))
Best(q, T) == {p \in T \X T : Better(q, q.trees[p[1]].key, q.trees[p[2]].key)}

(* The sorted tree nodes, which the refinement maps to the price levels,   *)
(* are ranked by key.                                                      *)
LEMMA BestRanked ==
  ASSUME NEW q, NEW T, NEW lo, NEW hi, Tree(q.trees, q.root, T, lo, hi), Idle(q.trees, T)
  PROVE  Ranked(Best(q, T), BestFirst(q), T)
<1>1. Ranked(ByKey(q.trees, T), TreeNodes(q), T)
  BY TreeNodesRanked
<1>2. CASE q.ascending
  <2>1. \A x, y \in T : <<x, y>> \in ByKey(q.trees, T) => <<x, y>> \in Best(q, T)
    BY <1>2 DEF ByKey, Best, Better
  <2> QED
    BY <1>1, <1>2, <2>1, RankedAlike DEF BestFirst
<1>3. CASE ~q.ascending
  <2>1. Ranked(Inverted(ByKey(q.trees, T), T), Reverse(TreeNodes(q)), T)
    BY <1>1, RankedReverse
  <2>2. \A x, y \in T : <<x, y>> \in Inverted(ByKey(q.trees, T), T) => <<x, y>> \in Best(q, T)
    <3> SUFFICES ASSUME NEW x \in T, NEW y \in T, <<x, y>> \in Inverted(ByKey(q.trees, T), T)
                 PROVE  <<x, y>> \in Best(q, T)
      OBVIOUS
    <3>1. <<y, x>> \in ByKey(q.trees, T)
      BY DEF Inverted
    <3>2. q.trees[y].key < q.trees[x].key
      BY <3>1 DEF ByKey
    <3>3. q.trees[x].key \in Nat /\ q.trees[y].key \in Nat
      BY NodeBounds
    <3>4. q.trees[x].key > q.trees[y].key
      BY <3>2, <3>3
    <3> QED
      BY <1>3, <3>4 DEF Best, Better
  <2> QED
    BY <1>3, <2>1, <2>2, RankedAlike DEF BestFirst
<1> QED
  BY <1>2, <1>3

(* The entries at a tree node, in their turns.                             *)
LEMMA EntriesRanked ==
  ASSUME NEW q, NEW T, NEW A, NEW home, NEW age, NEW now, NEW lo, NEW hi,
         Whole(q, T, A, home, age, now, lo, hi), NEW h \in T
  PROVE  Ranked(InTurn(q, A, age), EntriesAt(q, h), {EntryOf(q, i) : i \in AtHome(A, home, h)})
<1> DEFINE nodes == Path(NextListNode(q), q.trees[h].head)
           R == InTurn(q, A, age)
           s == EntriesAt(q, h)
           n == Len(nodes)
           E == {EntryOf(q, i) : i \in AtHome(A, home, h)}
<1>1. /\ Ranked(ByAge(A, age), nodes, AtHome(A, home, h))
      /\ DOMAIN s = 1..n /\ n \in Nat
      /\ \A k \in 1..n :
           /\ nodes[k] \in A /\ home[nodes[k]] = h
           /\ s[k] = [key |-> q.trees[h].key, node |-> nodes[k], value |-> q.values[nodes[k]]]
  BY EntriesAtHome
<1>2. s = [k \in DOMAIN s |-> s[k]]
  BY DEF EntriesAt
<1> HIDE DEF nodes, s
<1>3. \A i \in A : q.values[i] = q.trees[home[i]].key
  BY DEF Whole, QueueFacts
<1>4. \A k \in 1..n : s[k] = EntryOf(q, nodes[k]) /\ nodes[k] \in AtHome(A, home, h)
  BY <1>1, <1>3 DEF EntryOf, AtHome
<1>5. s \in Seq(E) /\ Len(s) = n
  <2>1. \A k \in 1..n : s[k] \in E
    BY <1>4
  <2> HIDE DEF E, n
  <2> QED
    BY <1>1, <1>2, <2>1
<1>6. ASSUME NEW j \in 1..n, NEW k \in 1..n, j < k
      PROVE  <<s[j], s[k]>> \in R
  <2>1. <<nodes[j], nodes[k]>> \in ByAge(A, age)
    BY <1>1, <1>6 DEF Ranked
  <2>2. age[nodes[j]] < age[nodes[k]] /\ q.values[nodes[j]] = q.values[nodes[k]]
    BY <1>1, <1>3, <2>1 DEF ByAge
  <2>3. Ahead(q, age, nodes[j], nodes[k])
    BY <2>2 DEF Ahead
  <2> QED
    BY <1>1, <1>4, <2>3, InTurnIs, ZenonT(40)
<1>7. ASSUME NEW x \in E
      PROVE  \E k \in 1..n : s[k] = x
  <2>1. PICK i \in AtHome(A, home, h) : x = EntryOf(q, i)
    OBVIOUS
  <2>2. PICK k \in 1..n : nodes[k] = i
    BY <1>1, <2>1 DEF Ranked
  <2> QED
    BY <1>4, <2>1, <2>2
<1> HIDE DEF E, R
<1>8. Ranked(R, s, E)
  BY <1>5, <1>6, <1>7 DEF Ranked
<1> QED
  BY <1>8 DEF R, s, E

(* The queue that callers see has each entry in its turn.                  *)
LEMMA OrderedRanked ==
  ASSUME NEW q, NEW T, NEW A, NEW home, NEW age, NEW now, NEW lo, NEW hi,
         Whole(q, T, A, home, age, now, lo, hi)
  PROVE  /\ Ranked(InTurn(q, A, age), Ordered(q), EntrySet(q, A))
         /\ OneWay(InTurn(q, A, age), EntrySet(q, A))
<1> DEFINE best == BestFirst(q)
           R == InTurn(q, A, age)
           ss == [i \in DOMAIN best |-> EntriesAt(q, best[i])]
           E == [i \in DOMAIN best |-> {EntryOf(q, j) : j \in AtHome(A, home, best[i])}]
           n == Len(best)
<1>1. Ranked(Best(q, T), best, T)
  BY BestRanked DEF Whole
<1>2. Ordered(q) = FlattenSeq(ss)
  BY DEF Ordered, BestFirst
<1> HIDE DEF best
<1>3. n \in Nat /\ DOMAIN best = 1..n /\ \A i \in 1..n : best[i] \in T
  BY <1>1, RankedSet, ElementOfSeq
<1>4. Len(ss) = n /\ (n = 0 => ss = << >>)
  <2> HIDE DEF n
  <2> QED
    BY <1>3
<1>5. /\ \A i \in A : q.values[i] \in Nat /\ age[i] \in Nat
      /\ \A i \in A : home[i] \in T /\ q.values[i] = q.trees[home[i]].key
  BY DEF Whole, QueueFacts
<1>6. OneWay(R, EntrySet(q, A))
  BY <1>5, InTurnOneWay
<1>7. ASSUME NEW i \in 1..n
      PROVE  Ranked(R, ss[i], E[i])
  <2>1. ss[i] = EntriesAt(q, best[i]) /\ E[i] = {EntryOf(q, j) : j \in AtHome(A, home, best[i])}
    BY <1>3
  <2> QED
    BY <1>3, <2>1, EntriesRanked
<1>8. ASSUME NEW i \in 1..n, NEW j \in 1..n, i < j, NEW x \in E[i], NEW y \in E[j]
      PROVE  <<x, y>> \in R
  <2>1. PICK a \in AtHome(A, home, best[i]) : x = EntryOf(q, a)
    BY <1>3
  <2>2. PICK b \in AtHome(A, home, best[j]) : y = EntryOf(q, b)
    BY <1>3
  <2>3. <<best[i], best[j]>> \in Best(q, T)
    BY <1>1, <1>8 DEF Ranked
  <2>4. Better(q, q.trees[best[i]].key, q.trees[best[j]].key)
    BY <2>3 DEF Best
  <2>5. /\ a \in A /\ b \in A /\ q.values[a] = q.trees[best[i]].key
        /\ q.values[b] = q.trees[best[j]].key
    BY <1>5 DEF AtHome
  <2>6. Ahead(q, age, a, b)
    BY <2>4, <2>5 DEF Ahead
  <2> QED
    BY <2>1, <2>2, <2>5, <2>6, InTurnIs
<1>9. FirstOf(E, n) = EntrySet(q, A)
  <2>1. \A i \in 1..n : E[i] = {EntryOf(q, j) : j \in AtHome(A, home, best[i])}
    BY <1>3
  <2>2. \A i \in 1..n : E[i] \subseteq EntrySet(q, A)
    BY <2>1 DEF EntrySet, AtHome
  <2>3. ASSUME NEW j \in A
        PROVE  \E i \in 1..n : EntryOf(q, j) \in E[i]
    <3>1. PICK i \in 1..n : best[i] = home[j]
      BY <1>1, <1>5 DEF Ranked
    <3>2. j \in AtHome(A, home, best[i])
      BY <3>1 DEF AtHome
    <3> QED
      BY <2>1, <3>2
  <2> HIDE DEF E
  <2> QED
    BY <2>2, <2>3 DEF FirstOf, EntrySet
<1> HIDE DEF ss, E, R
<1>10. InTurns(R, ss, E)
  BY <1>3, <1>4, <1>7, <1>8 DEF InTurns
<1>11. Ranked(R, FlattenSeq(ss), EntrySet(q, A))
  BY <1>4, <1>6, <1>9, <1>10, FlattenRanked
<1> QED
  BY <1>2, <1>6, <1>11 DEF R

(* The cached ends are those of the queue that callers see.                *)
FirstAndLast(q, s) ==
  /\ Len(s) \in Nat \ {0} /\ s # << >> /\ DOMAIN s = 1..Len(s)
  /\ s[1] = EntryOf(q, q.head.node) /\ s[Len(s)] = EntryOf(q, q.tail.node)
  /\ q.head.key = q.values[q.head.node] /\ q.tail.key = q.values[q.tail.node]

(* The cached ends are those of the queue in order.                        *)
LEMMA EndsFollow ==
  ASSUME NEW q, NEW T, NEW A, NEW home, NEW age, NEW now, NEW lo, NEW hi,
         Whole(q, T, A, home, age, now, lo, hi)
  PROVE  /\ A = {} => Ordered(q) = << >> /\ q.head = NoEnd /\ q.tail = NoEnd
         /\ A # {} => FirstAndLast(q, Ordered(q))
<1> DEFINE R == InTurn(q, A, age)
           E == EntrySet(q, A)
           s == Ordered(q)
           h == q.head
           l == q.tail
<1>1. Ranked(R, s, E)
  BY OrderedRanked
<1>2. CacheHolds(q, A, age)
  BY DEF Whole, AVLQueue
<1> HIDE DEF s
<1>3. CASE A = {}
  <2>1. E = {}
    BY <1>3 DEF EntrySet
  <2>2. s = << >>
    BY <1>1, <2>1 DEF Ranked
  <2>3. h = NoEnd /\ l = NoEnd
    BY <1>2, <1>3 DEF CacheHolds
  <2> QED
    BY <1>3, <2>2, <2>3 DEF s
<1>4. CASE A # {}
  <2>1. /\ h.node \in A /\ h.key = q.values[h.node]
        /\ \A j \in A : ~Ahead(q, age, j, h.node)
        /\ l.node \in A /\ l.key = q.values[l.node]
        /\ \A j \in A : ~Ahead(q, age, l.node, j)
    BY <1>2, <1>4 DEF CacheHolds
  <2> DEFINE eh == EntryOf(q, h.node)
             el == EntryOf(q, l.node)
  <2>2. eh \in E /\ el \in E
    BY <2>1 DEF EntrySet
  <2>3. \A y \in E : <<y, eh>> \notin R /\ <<el, y>> \notin R
    <3> SUFFICES ASSUME NEW y \in E
                 PROVE  <<y, eh>> \notin R /\ <<el, y>> \notin R
      OBVIOUS
    <3>1. PICK j \in A : y = EntryOf(q, j)
      BY DEF EntrySet
    <3> QED
      BY <2>1, <3>1, InTurnIs
  <2> HIDE DEF R, E, eh, el
  <2>4. s # << >> /\ s[1] = eh /\ s[Len(s)] = el /\ Len(s) \in Nat \ {0}
    <3>1. s # << >> /\ Len(s) \in Nat \ {0} /\ ((\A y \in E : <<y, eh>> \notin R) => s[1] = eh)
      BY <1>1, <2>2, RankedEnds
    <3>2. (\A y \in E : <<el, y>> \notin R) => s[Len(s)] = el
      BY <1>1, <2>2, RankedEnds
    <3> QED
      BY <2>3, <3>1, <3>2
  <2>5. DOMAIN s = 1..Len(s)
    BY <1>1, RankedSet
  <2> QED
    BY <1>4, <2>1, <2>4, <2>5 DEF s, eh, el, FirstAndLast
<1> QED
  BY <1>3, <1>4

(* As the property says it.                                                *)
LEMMA EndsCachedFollow ==
  ASSUME QueueInv
  PROVE  EndsCached
<1> DEFINE s == Ordered(avlq)
           end(e) == [node |-> e.node, key |-> e.key]
<1>1. PICK T, A, home, age, now, lo, hi : Whole(avlq, T, A, home, age, now, lo, hi)
  BY WholeExists DEF QueueInv
<1>2. CASE A = {}
  BY <1>1, <1>2, EndsFollow DEF EndsCached, NoEnd
<1>3. CASE A # {}
  <2>1. FirstAndLast(avlq, s)
    BY <1>1, <1>3, EndsFollow
  <2>2. avlq.head \in End /\ avlq.tail \in End
    BY <1>1 DEF Whole, AVLQueue, QueueType
  <2> HIDE DEF s
  <2>3. avlq.head = end(Head(s)) /\ avlq.tail = end(s[Len(s)])
    BY <2>1, <2>2 DEF FirstAndLast, EntryOf, End
  <2> QED
    BY <2>1, <2>3 DEF EndsCached, FirstAndLast, s
<1> QED
  BY <1>2, <1>3

-----------------------------------------------------------------------------
(* The pages.                                                              *)

(* From one node to the next one in the queue.                             *)
LEMMA NextInQueueIs ==
  ASSUME NEW q, NEW T, NEW A, NEW home, NEW age, NEW now, NEW lo, NEW hi,
         Whole(q, T, A, home, age, now, lo, hi), NEW id \in A,
         NEW y, y = NextInQueue(q, id)
  PROVE  IF y = NIL THEN \A j \in A : ~Ahead(q, age, id, j)
         ELSE /\ y \in A /\ Ahead(q, age, id, y)
              /\ \A j \in A : ~(Ahead(q, age, id, j) /\ Ahead(q, age, j, y))
<1> DEFINE link == q.lists[id].next
           side == Other(HeadSide(q))
           h == home[id]
           n == Traverse(q.trees, h, side)
           v == q.values
<1>1. /\ q \in QueueType /\ QueueFacts(q, T, A, home, age)
      /\ Links(q.lists, A, home, age) /\ Ends(q, T, A, home, age)
      /\ Tree(q.trees, q.root, T, lo, hi) /\ Idle(q.trees, T)
  BY DEF Whole, AVLQueue, ListsOf
<1>2. /\ \A i \in A : /\ i # NIL /\ home[i] \in T /\ v[i] = q.trees[home[i]].key
                      /\ v[i] \in Nat /\ age[i] \in Nat
      /\ \A i, j \in A : v[i] = v[j] <=> home[i] = home[j]
      /\ \A i, j \in A : age[i] = age[j] => i = j
  BY <1>1 DEF QueueFacts
<1>3. LinkHolds(q.lists, A, home, age, "next", id)
  BY <1>1 DEF Links
<1>4. y = IF ~link.tree THEN link.id
          ELSE LET tree == Traverse(q.trees, link.id, side)
               IN IF tree = NIL THEN NIL ELSE q.trees[tree].head
  BY DEF NextInQueue
<1>5. side \in Sides
  BY DEF HeadSide, Other, Sides
<1>6. \A a, b \in Nat : Better(q, a, b) <=> Farther(side, a, b)
  BY DEF Better, Farther, HeadSide, Other
<1> HIDE DEF side
<1>7. CASE ~link.tree
  <2>1. /\ y \in A /\ home[y] = h /\ age[id] < age[y]
        /\ \A j \in A : home[j] = h => ~(age[id] < age[j] /\ age[j] < age[y])
    BY <1>3, <1>4, <1>7 DEF LinkHolds, Before
  <2>2. v[y] = v[id] /\ y # NIL
    BY <1>2, <2>1
  <2>3. ASSUME NEW j \in A, Ahead(q, age, id, j), Ahead(q, age, j, y)
        PROVE  FALSE
    <3>1. v[j] # v[id]
      <4> SUFFICES ASSUME v[j] = v[id] PROVE FALSE
        OBVIOUS
      <4>1. home[j] = h
        BY <1>2
      <4>2. ~Better(q, v[id], v[j]) /\ ~Better(q, v[j], v[y])
        BY <1>2, <2>2 DEF Better
      <4>3. age[id] < age[j] /\ age[j] < age[y]
        BY <2>3, <4>2 DEF Ahead
      <4> QED
        BY <2>1, <4>1, <4>3
    <3>2. Better(q, v[id], v[j]) /\ Better(q, v[j], v[id])
      BY <2>2, <2>3, <3>1 DEF Ahead
    <3>3. v[id] \in Nat /\ v[j] \in Nat
      BY <1>2
    <3> QED
      BY <3>2, <3>3 DEF Better
  <2>4. Ahead(q, age, id, y)
    BY <2>1, <2>2 DEF Ahead
  <2> QED
    BY <2>1, <2>2, <2>3, <2>4
<1>8. CASE link.tree
  <2>1. link.id = h /\ \A j \in A : home[j] = h => ~(age[id] < age[j])
    BY <1>3, <1>8 DEF LinkHolds, Before
  <2>2. y = IF n = NIL THEN NIL ELSE q.trees[n].head
    BY <1>4, <1>8, <2>1
  <2>3. Neighbor(q.trees, T, h, n, side)
    BY <1>1, <1>2, <1>5, TraverseFinds
  <2> HIDE DEF n, h
  <2>4. \A j \in A : Ahead(q, age, id, j) => Farther(side, v[id], v[j])
    <3> SUFFICES ASSUME NEW j \in A, Ahead(q, age, id, j), ~Farther(side, v[id], v[j])
                 PROVE  FALSE
      OBVIOUS
    <3>1. v[id] = v[j] /\ age[id] < age[j]
      BY <1>2, <1>6 DEF Ahead
    <3> QED
      BY <1>2, <2>1, <3>1 DEF h
  <2>5. CASE n = NIL
    <3>1. \A g \in T : ~Farther(side, q.trees[h].key, q.trees[g].key)
      BY <1>5, <2>3, <2>5 DEF Neighbor, Farther, Sides
    <3>2. \A j \in A : ~Farther(side, v[id], v[j])
      BY <1>2, <3>1 DEF h
    <3> QED
      BY <2>2, <2>4, <2>5, <3>2
  <2>6. CASE n # NIL
    <3>1. /\ n \in T /\ Farther(side, q.trees[h].key, q.trees[n].key)
          /\ \A g \in T : ~(/\ Farther(side, q.trees[h].key, q.trees[g].key)
                            /\ Farther(side, q.trees[g].key, q.trees[n].key))
      BY <1>5, <2>3, <2>6 DEF Neighbor, Farther, Sides
    <3>2. EndHolds(A, home, age, "next", n, y)
      BY <1>1, <2>2, <2>6, <3>1 DEF Ends
    <3>3. y \in A /\ home[y] = n /\ \A j \in A : home[j] = n => ~(age[j] < age[y])
      BY <3>2 DEF EndHolds, Before
    <3>4. Farther(side, v[id], v[y])
      BY <1>2, <3>1, <3>3 DEF h
    <3>5. Ahead(q, age, id, y) /\ y # NIL
      BY <1>2, <1>6, <3>3, <3>4 DEF Ahead
    <3>6. ASSUME NEW j \in A, Ahead(q, age, id, j), Ahead(q, age, j, y)
          PROVE  FALSE
      <4>1. Farther(side, v[id], v[j])
        BY <2>4, <3>6
      <4>2. ~Farther(side, v[j], v[y])
        BY <1>2, <3>1, <3>3, <4>1 DEF h
      <4>3. v[j] = v[y] /\ age[j] < age[y]
        BY <1>2, <1>6, <3>3, <3>6, <4>2 DEF Ahead
      <4> QED
        BY <1>2, <3>3, <4>3
    <3> QED
      BY <3>3, <3>5, <3>6
  <2> QED
    BY <2>5, <2>6
<1> QED
  BY <1>7, <1>8

ByTurn(q, A, age) == {p \in A \X A : Ahead(q, age, p[1], p[2])}

(* The list nodes of the entries, in their turns.                          *)
NodesOf(entries) == [i \in DOMAIN entries |-> entries[i].node]

(* The nodes of the queue in order are all nodes that are in lists, by     *)
(* key and age.                                                            *)
LEMMA NodesRanked ==
  ASSUME NEW q, NEW T, NEW A, NEW home, NEW age, NEW now, NEW lo, NEW hi,
         Whole(q, T, A, home, age, now, lo, hi)
  PROVE  /\ Ranked(ByTurn(q, A, age), NodesOf(Ordered(q)), A) /\ OneWay(ByTurn(q, A, age), A)
         /\ Len(NodesOf(Ordered(q))) = Len(Ordered(q))
         /\ DOMAIN Ordered(q) = 1..Len(Ordered(q))
<1> DEFINE s == Ordered(q)
           R == InTurn(q, A, age)
           E == EntrySet(q, A)
           p == NodesOf(s)
           n == Len(s)
<1>1. Ranked(R, s, E) /\ OneWay(R, E)
  BY OrderedRanked
<1> HIDE DEF s
<1>2. n \in Nat /\ DOMAIN s = 1..n /\ \A i \in 1..n : s[i] \in E
  BY <1>1, RankedSet, ElementOfSeq
<1>3. \A i \in 1..n : p[i] \in A /\ s[i] = EntryOf(q, p[i])
  <2> SUFFICES ASSUME NEW i \in 1..n PROVE p[i] \in A /\ s[i] = EntryOf(q, p[i])
    OBVIOUS
  <2>1. PICK j \in A : s[i] = EntryOf(q, j)
    BY <1>2 DEF EntrySet
  <2>2. p[i] = s[i].node
    BY <1>2 DEF NodesOf
  <2> QED
    BY <2>1, <2>2 DEF EntryOf
<1>4. p \in Seq(A) /\ Len(p) = n
  <2>1. p = [i \in 1..n |-> p[i]]
    BY <1>2 DEF NodesOf
  <2> HIDE DEF p, n
  <2> QED
    BY <1>2, <1>3, <2>1
<1> HIDE DEF p
<1>5. ASSUME NEW i \in 1..n, NEW j \in 1..n, i < j
      PROVE  <<p[i], p[j]>> \in ByTurn(q, A, age)
  <2>1. <<EntryOf(q, p[i]), EntryOf(q, p[j])>> \in R
    BY <1>1, <1>3, <1>5 DEF Ranked
  <2>2. Ahead(q, age, p[i], p[j])
    BY <1>3, <2>1, InTurnIs
  <2> QED
    BY <1>3, <2>2 DEF ByTurn
<1>6. ASSUME NEW x \in A
      PROVE  \E i \in 1..n : p[i] = x
  <2>1. EntryOf(q, x) \in E
    BY DEF EntrySet
  <2>2. PICK i \in 1..n : s[i] = EntryOf(q, x)
    BY <1>1, <2>1 DEF Ranked
  <2>3. EntryOf(q, p[i]).node = p[i] /\ EntryOf(q, x).node = x
    BY DEF EntryOf
  <2>4. p[i] = x
    BY <1>3, <2>2, <2>3
  <2> QED
    BY <2>4
<1>7. Ranked(ByTurn(q, A, age), p, A)
  BY <1>4, <1>5, <1>6 DEF Ranked
<1>8. OneWay(ByTurn(q, A, age), A)
  <2> SUFFICES ASSUME NEW x \in A, NEW y \in A,
                      <<x, y>> \in ByTurn(q, A, age), <<y, x>> \in ByTurn(q, A, age)
               PROVE  FALSE
    BY DEF OneWay
  <2>1. Ahead(q, age, x, y) /\ Ahead(q, age, y, x)
    BY DEF ByTurn
  <2>2. <<EntryOf(q, x), EntryOf(q, y)>> \in R /\ <<EntryOf(q, y), EntryOf(q, x)>> \in R
    BY <2>1, InTurnIs
  <2>3. EntryOf(q, x) \in E /\ EntryOf(q, y) \in E
    BY DEF EntrySet
  <2> QED
    BY <1>1, <2>2, <2>3 DEF OneWay
<1> QED
  BY <1>2, <1>4, <1>7, <1>8 DEF s, p, n

(* The walk along the queue, and down the stack.                           *)
QueueWalk(q) == [i \in DOMAIN q.lists |-> NextInQueue(q, i)]

(* It has the entries in their turns, and ends.                            *)
LEMMA QueueLine ==
  ASSUME NEW q, NEW T, NEW A, NEW home, NEW age, NEW now, NEW lo, NEW hi,
         Whole(q, T, A, home, age, now, lo, hi), NEW s, s = NodesOf(Ordered(q))
  PROVE  /\ A \subseteq DOMAIN q.lists /\ NIL \notin DOMAIN q.lists
         /\ \A k \in 1..Len(s) : QueueWalk(q)[s[k]] = IF k = Len(s) THEN NIL ELSE s[k + 1]
<1>1. Ranked(ByTurn(q, A, age), s, A) /\ OneWay(ByTurn(q, A, age), A)
  BY NodesRanked
<1>2. A \subseteq DOMAIN q.lists /\ NIL \notin DOMAIN q.lists
  BY DEF Whole, QueueFacts
<1> DEFINE f == QueueWalk(q)
           R == ByTurn(q, A, age)
<1>3. ASSUME NEW x \in A
      PROVE  IF f[x] = 0 THEN \A y \in A : <<x, y>> \notin R
             ELSE /\ f[x] \in A /\ <<x, f[x]>> \in R
                  /\ \A y \in A : ~(<<x, y>> \in R /\ <<y, f[x]>> \in R)
  <2>1. f[x] = NextInQueue(q, x)
    BY <1>2 DEF QueueWalk
  <2> HIDE DEF f
  <2>2. IF f[x] = NIL THEN \A j \in A : ~Ahead(q, age, x, j)
        ELSE /\ f[x] \in A /\ Ahead(q, age, x, f[x])
             /\ \A j \in A : ~(Ahead(q, age, x, j) /\ Ahead(q, age, j, f[x]))
    BY <2>1, NextInQueueIs
  <2>3. \A i, j \in A : <<i, j>> \in R <=> Ahead(q, age, i, j)
    BY DEF ByTurn
  <2> HIDE DEF R
  <2> QED
    BY <2>2, <2>3 DEF NIL
<1> HIDE DEF f, R
<1>4. StepsIn(R, A, f)
  BY <1>3 DEF StepsIn
<1>5. \A k \in 1..Len(s) : f[s[k]] = IF k = Len(s) THEN 0 ELSE s[k + 1]
  BY <1>1, <1>4, RankedSteps DEF R
<1> QED
  BY <1>2, <1>5 DEF f, NIL

(* Every walk along the list nodes ends.                                   *)
LEMMA QueueWalkEnds ==
  ASSUME NEW q, NEW T, NEW A, NEW home, NEW age, NEW now, NEW lo, NEW hi,
         Whole(q, T, A, home, age, now, lo, hi)
  PROVE  \E m : Descending(QueueWalk(q), m)
<1> DEFINE s == NodesOf(Ordered(q))
           f == QueueWalk(q)
           D == DOMAIN q.lists
           free == D \ A
           n == Len(s)
<1>1. Ranked(ByTurn(q, A, age), s, A)
  BY NodesRanked
<1>2. /\ A \subseteq D /\ NIL \notin D
      /\ \A k \in 1..n : f[s[k]] = IF k = n THEN NIL ELSE s[k + 1]
  BY QueueLine
<1>3. FreeLists(q, A)
  BY DEF Whole, AVLQueue, ListsOf
<1>4. PICK S : StackIs(ListNext(q.lists), q.listTop, S, free)
  BY <1>3 DEF FreeLists
<1> HIDE DEF s
<1>5. n \in Nat /\ (\A k \in 1..n : s[k] \in A) /\ \A i \in A : \E k \in 1..n : s[k] = i
  BY <1>1, RankedSet, ElementOfSeq DEF Ranked
<1>6. /\ Len(S) \in Nat /\ (\A k \in 1..Len(S) : S[k] \in free)
      /\ \A k \in 1..Len(S) : ListNext(q.lists)[S[k]] = IF k = 1 THEN NIL ELSE S[k - 1]
      /\ \A i \in free : \E k \in 1..Len(S) : S[k] = i
      /\ \A i, j \in 1..Len(S) : S[i] = S[j] => i = j
  BY <1>4, ElementOfSeq, LenProperties DEF StackIs
<1>7. \A i, j \in 1..n : s[i] = s[j] => i = j
  BY <1>1, NodesRanked, RankedOnce
<1> DEFINE m == [i \in D |-> IF i \in A THEN n - Indexes(s, i) ELSE Indexes(S, i)]
<1>8. /\ \A i \in A : Indexes(s, i) \in 1..n /\ s[Indexes(s, i)] = i
      /\ \A i \in free : Indexes(S, i) \in 1..Len(S) /\ S[Indexes(S, i)] = i
  BY <1>5, <1>6 DEF Indexes
<1>9. /\ \A k \in 1..n : Indexes(s, s[k]) = k
      /\ \A k \in 1..Len(S) : Indexes(S, S[k]) = k
  BY <1>5, <1>6, <1>7, <1>8
<1>10. /\ \A i \in A : m[i] = n - Indexes(s, i)
       /\ \A i \in free : m[i] = Indexes(S, i)
  BY <1>2
<1>11. DOMAIN f = D /\ \A i \in free : f[i] = ListNext(q.lists)[i]
  BY <1>3 DEF FreeLists, QueueWalk, NextInQueue, ListNext
<1> HIDE DEF f, m, n
<1>12. ASSUME NEW i \in A
       PROVE  m[i] \in Nat /\ (f[i] # NIL => f[i] \in A /\ m[f[i]] < m[i])
  <2> DEFINE k == Indexes(s, i)
  <2>1. k \in 1..n /\ s[k] = i /\ m[i] = n - k /\ f[i] = IF k = n THEN NIL ELSE s[k + 1]
    BY <1>2, <1>8, <1>10 DEF n
  <2> HIDE DEF k
  <2>2. ASSUME k # n
        PROVE  s[k + 1] \in A /\ m[s[k + 1]] = n - (k + 1)
    <3>1. k + 1 \in 1..n
      BY <1>5, <2>1, <2>2 DEF n
    <3>2. s[k + 1] \in A
      BY <1>5, <3>1 DEF n
    <3> QED
      BY <1>9, <1>10, <3>1, <3>2
  <2>3. n \in Nat /\ k \in Nat /\ n - k \in Nat /\ n - (k + 1) < n - k
    BY <1>5, <2>1 DEF n
  <2> QED
    BY <2>1, <2>2, <2>3
<1>13. ASSUME NEW i \in free
       PROVE  m[i] \in Nat /\ (f[i] # NIL => f[i] \in free /\ m[f[i]] < m[i])
  <2> DEFINE k == Indexes(S, i)
  <2>1. k \in 1..Len(S) /\ S[k] = i /\ m[i] = k /\ f[i] = IF k = 1 THEN NIL ELSE S[k - 1]
    BY <1>6, <1>8, <1>10, <1>11
  <2> HIDE DEF k
  <2>2. ASSUME k # 1
        PROVE  S[k - 1] \in free /\ m[S[k - 1]] = k - 1
    <3>1. k - 1 \in 1..Len(S)
      BY <1>6, <2>1, <2>2
    <3>2. S[k - 1] \in free
      BY <1>6, <3>1
    <3> QED
      BY <1>9, <1>10, <3>1, <3>2
  <2>3. k \in Nat /\ k - 1 < k
    BY <1>6, <2>1
  <2> QED
    BY <2>1, <2>2, <2>3
<1>14. D = A \cup free
  BY <1>2
<1> HIDE DEF free
<1>15. Descending(f, m)
  BY <1>11, <1>12, <1>13, <1>14 DEF Descending
<1> QED
  BY <1>15 DEF f

(* What is left of a walk.                                                 *)
LEMMA WayDescends ==
  ASSUME NEW next, NEW m, Descending(next, m), NEW i, NEW p, IsWay(next, i, p)
  PROVE  \A k \in 1..Len(p) :
           /\ p[k] \in DOMAIN next /\ m[p[k]] \in Nat
           /\ k # 1 => m[p[k]] < m[i]
<1> DEFINE n == Len(p)
           P == {k \in 1..n : k # 1 => m[p[k]] < m[i]}
<1>1. /\ n \in Nat /\ n >= 1 /\ p[1] = i /\ \A k \in 1..n : p[k] \in DOMAIN next
      /\ \A k \in 1..n - 1 : next[p[k]] # NIL /\ p[k + 1] = next[p[k]]
  BY ElementOfSeq, LenProperties DEF IsWay
<1>2. \A k \in 1..n : m[p[k]] \in Nat
  BY <1>1 DEF Descending
<1> HIDE DEF n
<1>3. 1 \in P
  BY <1>1
<1>4. ASSUME NEW k \in 1..n - 1, k \in P
      PROVE  k + 1 \in P
  <2>1. k \in 1..n /\ k + 1 \in 1..n /\ 1 \in 1..n
    BY <1>1
  <2>2. m[p[k + 1]] < m[p[k]]
    BY <1>1, <2>1 DEF Descending
  <2>3. m[p[k]] \in Nat /\ m[p[k + 1]] \in Nat /\ m[i] \in Nat
    BY <1>1, <1>2, <2>1
  <2>4. k = 1 \/ m[p[k]] < m[i]
    BY <1>4
  <2>5. m[p[k + 1]] < m[i]
    BY <1>1, <2>2, <2>3, <2>4
  <2> QED
    BY <2>1, <2>5
<1>5. \A k \in 1..n : k \in P
  <2> HIDE DEF P
  <2> QED
    BY <1>1, <1>3, <1>4, StepByStep
<1> QED
  BY <1>1, <1>2, <1>5 DEF n

(* Along a sequence, the walk from an element is what is left of it.       *)
LEMMA LineRest ==
  ASSUME NEW next, NEW m, Descending(next, m), NIL \notin DOMAIN next,
         NEW s \in Seq(DOMAIN next),
         \A k \in 1..Len(s) : next[s[k]] = IF k = Len(s) THEN NIL ELSE s[k + 1],
         NEW k \in 1..Len(s)
  PROVE  Path(next, s[k]) = [i \in 1..(Len(s) - k) + 1 |-> s[(k + i) - 1]]
<1> DEFINE n == Len(s)
           l == (n - k) + 1
           w == [i \in 1..l |-> s[(k + i) - 1]]
<1>1. n \in Nat /\ \A i \in 1..n : s[i] \in DOMAIN next /\ s[i] # NIL
  BY ElementOfSeq, LenProperties
<1> HIDE DEF n
<1>2. l \in Nat /\ l >= 1 /\ \A i \in 1..l : (k + i) - 1 \in 1..n
  BY <1>1 DEF n
<1>3. w \in Seq(DOMAIN next) /\ Len(w) = l /\ \A i \in 1..l : w[i] = s[(k + i) - 1]
  <2> HIDE DEF l
  <2> QED
    BY <1>1, <1>2
<1> HIDE DEF w
<1>4. w[1] = s[k]
  <2>1. 1 \in 1..l /\ (k + 1) - 1 = k
    BY <1>1, <1>2 DEF n
  <2> QED
    BY <1>3, <2>1
<1>5. \A i \in 1..l - 1 : next[w[i]] # NIL /\ w[i + 1] = next[w[i]]
  <2> SUFFICES ASSUME NEW i \in 1..l - 1 PROVE next[w[i]] # NIL /\ w[i + 1] = next[w[i]]
    OBVIOUS
  <2>1. /\ i \in 1..l /\ i + 1 \in 1..l /\ (k + (i + 1)) - 1 = ((k + i) - 1) + 1
        /\ (k + i) - 1 # n
    BY <1>1, <1>2 DEF n
  <2>2. next[w[i]] = s[((k + i) - 1) + 1]
    BY <1>2, <1>3, <2>1 DEF n
  <2>3. w[i + 1] = s[((k + i) - 1) + 1] /\ s[((k + i) - 1) + 1] # NIL
    BY <1>1, <1>2, <1>3, <2>1
  <2> QED
    BY <2>2, <2>3
<1>6. next[w[l]] = NIL
  <2>1. l \in 1..l /\ (k + l) - 1 = n
    BY <1>1, <1>2 DEF n
  <2> QED
    BY <1>1, <1>2, <1>3, <2>1, Zenon DEF n
<1> HIDE DEF l
<1>7. IsWay(next, s[k], w)
  BY <1>2, <1>3, <1>4, <1>5, <1>6 DEF IsWay
<1>8. Path(next, s[k]) = w
  BY <1>1, <1>7, PathIsWay, WayUnique DEF n
<1> QED
  BY <1>8 DEF w, l, n

(* A walk from page to page.                                               *)
PageWalk(q, max) == [i \in DOMAIN q.lists |-> Page(q, i, max).next]

(* A page has the first entries of what is left.                           *)
LEMMA PageIs ==
  ASSUME NEW q, NEW list, NEW max \in Nat \ {0}, NEW S, NEW rest \in Seq(S),
         rest = Path(QueueWalk(q), list), Len(rest) >= 1
  PROVE  LET count == IF max < Len(rest) THEN max ELSE Len(rest)
             page == Page(q, list, max)
         IN /\ page.entries \in Seq(S) /\ Len(page.entries) = count
            /\ \A i \in 1..count : page.entries[i] = rest[i]
            /\ page.next = IF max < Len(rest) THEN rest[max + 1] ELSE NIL
<1> DEFINE count == IF max < Len(rest) THEN max ELSE Len(rest)
           page == Page(q, list, max)
<1>1. page = [entries |-> SubSeq(rest, 1, count),
              next |-> IF count < Len(rest) THEN rest[count + 1] ELSE NIL]
  BY DEF Page, QueueWalk
<1>2. Len(rest) \in Nat /\ count \in Nat /\ count <= Len(rest) /\ count >= 1
  BY LenProperties
<1>3. count < Len(rest) <=> max < Len(rest)
  BY <1>2
<1>4. \A i \in 1..count : rest[i] \in S
  BY <1>2, ElementOfSeq
<1> HIDE DEF count
<1>5. /\ SubSeq(rest, 1, count) \in Seq(S) /\ Len(SubSeq(rest, 1, count)) = count
      /\ \A i \in 1..count : SubSeq(rest, 1, count)[i] = rest[i]
  BY <1>2, <1>4, SubSeqProperties
<1>6. page.entries = SubSeq(rest, 1, count)
      /\ page.next = IF max < Len(rest) THEN rest[count + 1] ELSE NIL
  <2>1. /\ page.entries = SubSeq(rest, 1, count)
        /\ page.next = IF count < Len(rest) THEN rest[count + 1] ELSE NIL
    <3> HIDE DEF page
    <3> QED
      BY <1>1
  <2> HIDE DEF page
  <2> QED
    BY <1>3, <2>1
<1>7. max < Len(rest) => count = max
  BY DEF count
<1> HIDE DEF page
<1> QED
  BY <1>5, <1>6, <1>7 DEF page, count

(* The walk of a page, which stops at its length, ends as well.            *)
LEMMA PageWalkEnds ==
  ASSUME NEW q, NEW m, Descending(QueueWalk(q), m), NIL \notin DOMAIN q.lists,
         NEW max \in Nat \ {0}
  PROVE  Descending(PageWalk(q, max), m)
<1> DEFINE f == QueueWalk(q)
           g == PageWalk(q, max)
           D == DOMAIN q.lists
<1>1. DOMAIN f = D /\ DOMAIN g = D /\ \A i \in D : g[i] = Page(q, i, max).next
  BY DEF QueueWalk, PageWalk
<1> HIDE DEF f, g
<1>2. ASSUME NEW i \in D
      PROVE  m[i] \in Nat /\ (g[i] # NIL => g[i] \in D /\ m[g[i]] < m[i])
  <2> DEFINE rest == Path(f, i)
  <2>1. IsWay(f, i, rest)
    BY <1>1, PathIsWay DEF f
  <2> HIDE DEF rest
  <2>2. rest \in Seq(D) /\ Len(rest) \in Nat /\ Len(rest) >= 1
    BY <1>1, <2>1 DEF IsWay
  <2>3. g[i] = IF max < Len(rest) THEN rest[max + 1] ELSE NIL
    <3>1. Page(q, i, max).next = IF max < Len(rest) THEN rest[max + 1] ELSE NIL
      BY <2>2, PageIs DEF rest, f
    <3> QED
      BY <1>1, <3>1
  <2>4. \A k \in 1..Len(rest) : rest[k] \in D /\ (k # 1 => m[rest[k]] < m[i])
    BY <1>1, <2>1, WayDescends DEF f
  <2>5. max < Len(rest) => max + 1 \in 1..Len(rest) /\ max + 1 # 1
    BY <2>2
  <2>6. m[i] \in Nat
    BY <1>1 DEF Descending, f
  <2> QED
    BY <2>3, <2>4, <2>5, <2>6
<1>3. Descending(g, m)
  BY <1>1, <1>2 DEF Descending
<1> QED
  BY <1>3 DEF g

(* The page from an entry of the queue on.                                 *)
PageHolds(page, s, k, max) ==
  LET count == IF max < (Len(s) - k) + 1 THEN max ELSE (Len(s) - k) + 1
  IN /\ page.entries \in Seq(ToSet(s)) /\ Len(page.entries) = count
     /\ \A i \in 1..count : page.entries[i] = s[(k + i) - 1]
     /\ page.next = IF k + max <= Len(s) THEN s[k + max] ELSE NIL

(* A page is the block of the queue from its first node on.                *)
LEMMA PageAt ==
  ASSUME NEW q, NEW m, Descending(QueueWalk(q), m), NIL \notin DOMAIN q.lists,
         NEW s \in Seq(DOMAIN q.lists),
         \A k \in 1..Len(s) : QueueWalk(q)[s[k]] = IF k = Len(s) THEN NIL ELSE s[k + 1],
         NEW max \in Nat \ {0}, NEW k \in 1..Len(s)
  PROVE  PageHolds(Page(q, s[k], max), s, k, max)
<1> DEFINE f == QueueWalk(q)
           n == Len(s)
           l == (n - k) + 1
           rest == Path(f, s[k])
           page == Page(q, s[k], max)
<1>1. n \in Nat /\ l \in Nat /\ l >= 1 /\ \A i \in 1..l : (k + i) - 1 \in 1..n
  BY LenProperties
<1>2. \A i \in 1..n : s[i] \in ToSet(s)
  BY LenProperties DEF ToSet
<1>3. DOMAIN f = DOMAIN q.lists
  BY DEF QueueWalk
<1> HIDE DEF f
<1>4. rest = [i \in 1..l |-> s[(k + i) - 1]]
  <2>1. s \in Seq(DOMAIN f) /\ NIL \notin DOMAIN f /\ Descending(f, m)
    BY <1>3 DEF f
  <2>2. \A j \in 1..Len(s) : f[s[j]] = IF j = Len(s) THEN NIL ELSE s[j + 1]
    BY DEF f
  <2> QED
    BY <2>1, <2>2, LineRest
<1> HIDE DEF rest, l
<1>5. rest \in Seq(ToSet(s)) /\ Len(rest) = l /\ \A i \in 1..l : rest[i] = s[(k + i) - 1]
  <2> DEFINE e(i) == s[(k + i) - 1]
  <2>1. \A i \in 1..l : e(i) \in ToSet(s)
    <3> HIDE DEF n
    <3> QED
      BY <1>1, <1>2
  <2>2. rest = [i \in 1..l |-> e(i)]
    BY <1>4
  <2> HIDE DEF e, n
  <2>3. rest \in Seq(ToSet(s)) /\ Len(rest) = l /\ \A i \in 1..l : rest[i] = e(i)
    BY <1>1, <2>1, <2>2
  <2> QED
    BY <2>3 DEF e
<1> DEFINE count == IF max < l THEN max ELSE l
<1> HIDE DEF page
<1>6. /\ page.entries \in Seq(ToSet(s)) /\ Len(page.entries) = count
      /\ \A i \in 1..count : page.entries[i] = rest[i]
      /\ page.next = IF max < l THEN rest[max + 1] ELSE NIL
  <2>1. rest = Path(QueueWalk(q), s[k])
    BY DEF rest, f
  <2> QED
    BY <1>1, <1>5, <2>1, PageIs DEF page
<1>7. \A i \in 1..count : i \in 1..l
  BY <1>1
<1>8. max < l <=> k + max <= n
  BY <1>1 DEF l
<1>9. max < l => max + 1 \in 1..l /\ (k + (max + 1)) - 1 = k + max
  BY <1>1
<1>10. page.next = IF k + max <= n THEN s[k + max] ELSE NIL
  <2> HIDE DEF n
  <2> QED
    BY <1>5, <1>6, <1>8, <1>9
<1>11. \A i \in 1..count : page.entries[i] = s[(k + i) - 1]
  <2> HIDE DEF n, count
  <2> QED
    BY <1>5, <1>6, <1>7
<1>12. PageHolds(page, s, k, max)
  BY <1>6, <1>10, <1>11 DEF PageHolds, l, n
<1> QED
  BY <1>12 DEF page

(* Steps of one length from 1 on, up to the last one that is in 1..n,      *)
(* leave no gap.                                                           *)
LEMMA Blocks ==
  ASSUME NEW l \in Nat, NEW n \in Nat, NEW max \in Nat \ {0}, l >= 1, NEW at,
         \A j \in 1..l : at[j] \in 1..n, at[1] = 1,
         \A j \in 1..l - 1 : at[j + 1] = at[j] + max, n < at[l] + max
  PROVE  /\ \A i, j \in 1..l : i < j => at[i] + max <= at[j]
         /\ \A k \in 1..n : \E j \in 1..l : at[j] <= k /\ k < at[j] + max
<1>1. \A j \in 1..l : at[j] \in Nat
  OBVIOUS
<1> DEFINE P == {j \in 1..l : \A i \in 1..j - 1 : at[i] + max <= at[j]}
           Q == {j \in 1..l : \A k \in 1..n : k < at[j] + max =>
                                \E i \in 1..j : at[i] <= k /\ k < at[i] + max}
<1>2. \A j \in 1..l : j \in P
  <2>1. 1 \in P
    OBVIOUS
  <2>2. ASSUME NEW j \in 1..l - 1, j \in P
        PROVE  j + 1 \in P
    <3>1. j \in 1..l /\ j + 1 \in 1..l
      OBVIOUS
    <3>2. ASSUME NEW i \in 1..(j + 1) - 1
          PROVE  at[i] + max <= at[j + 1]
      <4>1. i = j \/ i \in 1..j - 1
        OBVIOUS
      <4>2. i \in 1..l
        BY <3>1
      <4>3. at[i] \in Nat /\ at[j] \in Nat /\ at[j + 1] = at[j] + max
        BY <1>1, <3>1, <4>2
      <4>4. i = j \/ at[i] + max <= at[j]
        BY <2>2, <4>1
      <4> QED
        BY <4>3, <4>4
    <3> QED
      BY <3>1, <3>2
  <2> HIDE DEF P
  <2> QED
    BY <2>1, <2>2, StepByStep
<1>3. \A j \in 1..l : j \in Q
  <2>1. 1 \in Q
    <3>1. 1 \in 1..l /\ 1 \in 1..1
      OBVIOUS
    <3>2. \A k \in 1..n : at[1] <= k
      OBVIOUS
    <3> QED
      BY <3>1, <3>2
  <2>2. ASSUME NEW j \in 1..l - 1, j \in Q
        PROVE  j + 1 \in Q
    <3>1. j \in 1..l /\ j + 1 \in 1..l /\ j + 1 \in 1..j + 1
      OBVIOUS
    <3>2. ASSUME NEW k \in 1..n, k < at[j + 1] + max
          PROVE  \E i \in 1..j + 1 : at[i] <= k /\ k < at[i] + max
      <4>1. CASE k < at[j] + max
        <5>1. PICK i \in 1..j : at[i] <= k /\ k < at[i] + max
          BY <2>2, <4>1
        <5>2. i \in 1..j + 1
          OBVIOUS
        <5> QED
          BY <5>1, <5>2
      <4>2. CASE ~(k < at[j] + max)
        <5>1. at[j] \in Nat /\ at[j + 1] = at[j] + max
          BY <1>1, <3>1
        <5>2. at[j + 1] <= k
          BY <4>2, <5>1
        <5> QED
          BY <3>1, <3>2, <5>2
      <4> QED
        BY <4>1, <4>2
    <3> QED
      BY <3>1, <3>2
  <2> HIDE DEF Q
  <2> QED
    BY <2>1, <2>2, StepByStep
<1>4. ASSUME NEW i \in 1..l, NEW j \in 1..l, i < j
      PROVE  at[i] + max <= at[j]
  <2>1. i \in 1..j - 1
    BY <1>4
  <2> QED
    BY <1>2, <2>1
<1>5. ASSUME NEW k \in 1..n
      PROVE  \E j \in 1..l : at[j] <= k /\ k < at[j] + max
  <2>1. l \in 1..l /\ k < at[l] + max
    BY <1>1
  <2> QED
    BY <1>3, <2>1
<1> QED
  BY <1>4, <1>5

(* A page is a part of the order.                                          *)
Block(s, k, max) == {s[i] : i \in {j \in 1..Len(s) : k <= j /\ j < k + max}}

(* A page is ranked as the queue is.                                       *)
LEMMA PageRanked ==
  ASSUME NEW R, NEW S, NEW s, Ranked(R, s, S), NEW k \in 1..Len(s), NEW max \in Nat \ {0},
         NEW page, PageHolds(page, s, k, max)
  PROVE  Ranked(R, page.entries, Block(s, k, max))
<1> DEFINE n == Len(s)
           c == IF max < (n - k) + 1 THEN max ELSE (n - k) + 1
           e == page.entries
           B == Block(s, k, max)
<1>1. n \in Nat /\ \A i, j \in 1..n : i < j => <<s[i], s[j]>> \in R
  BY RankedSet DEF Ranked
<1>2. Len(e) = c /\ (\A i \in 1..c : e[i] = s[(k + i) - 1]) /\ e \in Seq(ToSet(s))
  BY DEF PageHolds
<1> HIDE DEF n, e
<1>3. c \in Nat /\ \A i \in 1..c : /\ (k + i) - 1 \in 1..n /\ k <= (k + i) - 1
                                   /\ (k + i) - 1 < k + max
  BY <1>1 DEF n
<1>4. \A j \in 1..n : k <= j /\ j < k + max => (j - k) + 1 \in 1..c /\ (k + ((j - k) + 1)) - 1 = j
  BY <1>1 DEF n
<1> HIDE DEF c
<1>5. \A i \in 1..c : e[i] \in B
  BY <1>2, <1>3 DEF Block, n
<1>6. e \in Seq(B)
  <2>1. e = [i \in 1..c |-> e[i]]
    BY <1>2, <1>3, LenProperties
  <2> HIDE DEF B
  <2> QED
    BY <1>3, <1>5, <2>1
<1>7. ASSUME NEW i \in 1..c, NEW j \in 1..c, i < j
      PROVE  <<e[i], e[j]>> \in R
  <2>1. (k + i) - 1 < (k + j) - 1
    BY <1>3, <1>7
  <2> QED
    BY <1>1, <1>2, <1>3, <2>1
<1>8. ASSUME NEW x \in B
      PROVE  \E i \in 1..c : e[i] = x
  <2>1. PICK j \in 1..n : k <= j /\ j < k + max /\ x = s[j]
    BY DEF Block, n
  <2>2. e[(j - k) + 1] = x
    BY <1>2, <1>4, <2>1
  <2> QED
    BY <1>4, <2>1, <2>2
<1> HIDE DEF B
<1>9. Ranked(R, e, B)
  BY <1>2, <1>6, <1>7, <1>8 DEF Ranked
<1> QED
  BY <1>9 DEF e, B

(* The pages of an order, each of which starts where the one before ended. *)
LEMMA PagesRanked ==
  ASSUME NEW R, NEW S, OneWay(R, S), NEW s, Ranked(R, s, S), NEW max \in Nat \ {0},
         NEW next, NEW m, Descending(next, m), NIL \notin DOMAIN next, S \subseteq DOMAIN next,
         NEW page,
         \A k \in 1..Len(s) : PageHolds(page[s[k]], s, k, max) /\ next[s[k]] = page[s[k]].next,
         s # << >>
  PROVE  FlattenSeq([j \in DOMAIN Path(next, s[1]) |-> page[Path(next, s[1])[j]].entries]) = s
<1> DEFINE n == Len(s)
           p == Path(next, s[1])
           l == Len(p)
           ss == [j \in DOMAIN p |-> page[p[j]].entries]
           at == [j \in 1..l |-> Indexes(s, p[j])]
           E == [j \in 1..l |-> Block(s, at[j], max)]
<1>1. /\ n \in Nat /\ (\A i \in 1..n : s[i] \in S) /\ \A x \in S : \E i \in 1..n : s[i] = x
      /\ s \in Seq(S)
  BY RankedSet, ElementOfSeq DEF Ranked
<1>2. \A i, j \in 1..n : s[i] = s[j] => i = j
  BY RankedOnce
<1>3. 1 \in 1..n
  BY <1>1, EmptySeq
<1>4. IsWay(next, s[1], p)
  BY <1>1, <1>3, PathIsWay
<1> HIDE DEF p
<1>5. /\ p \in Seq(DOMAIN next) /\ l \in Nat /\ l >= 1 /\ p[1] = s[1] /\ DOMAIN p = 1..l
      /\ \A k \in 1..l - 1 : next[p[k]] # NIL /\ p[k + 1] = next[p[k]]
      /\ next[p[l]] = NIL
  BY <1>4, LenProperties DEF IsWay
<1>6. \A x \in S : Indexes(s, x) \in 1..n /\ s[Indexes(s, x)] = x
  BY <1>1 DEF Indexes
<1>7. \A k \in 1..n : Indexes(s, s[k]) = k
  <2> SUFFICES ASSUME NEW k \in 1..n PROVE Indexes(s, s[k]) = k
    OBVIOUS
  <2> DEFINE i == Indexes(s, s[k])
  <2>1. i \in 1..n /\ s[i] = s[k]
    BY <1>1, <1>6
  <2> HIDE DEF i
  <2>2. i = k
    BY <1>2, <2>1
  <2> QED
    BY <2>2 DEF i
<1>8. \A k \in 1..n : next[s[k]] = IF k + max <= n THEN s[k + max] ELSE NIL
  BY DEF PageHolds
<1> HIDE DEF n, l
<1> DEFINE P == {j \in 1..l : p[j] \in S}
<1>9. \A j \in 1..l : j \in P
  <2>1. 1 \in P
    BY <1>1, <1>3, <1>5
  <2>2. ASSUME NEW j \in 1..l - 1, j \in P
        PROVE  j + 1 \in P
    <3> DEFINE k == Indexes(s, p[j])
    <3>1. k \in 1..n /\ s[k] = p[j]
      BY <1>6, <2>2
    <3> HIDE DEF k
    <3>2. next[p[j]] = IF k + max <= n THEN s[k + max] ELSE NIL
      BY <1>8, <3>1
    <3>3. k + max <= n /\ p[j + 1] = s[k + max]
      BY <1>5, <3>2
    <3>4. k + max \in 1..n /\ j + 1 \in 1..l
      BY <1>1, <1>5, <3>1, <3>3
    <3> QED
      BY <1>1, <3>3, <3>4
  <2> HIDE DEF P
  <2> QED
    BY <1>5, <2>1, <2>2, StepByStep
<1>10. \A j \in 1..l : p[j] \in S /\ at[j] = Indexes(s, p[j])
  BY <1>9
<1> HIDE DEF at
<1>11. \A j \in 1..l : at[j] \in 1..n /\ s[at[j]] = p[j]
  BY <1>6, <1>10
<1>12. at[1] = 1
  <2>1. 1 \in 1..l
    BY <1>5
  <2> QED
    BY <1>3, <1>5, <1>7, <1>10, <2>1
<1>13. \A j \in 1..l : next[p[j]] = IF at[j] + max <= n THEN s[at[j] + max] ELSE NIL
  BY <1>8, <1>11
<1>14. \A j \in 1..l - 1 : at[j + 1] = at[j] + max
  <2> SUFFICES ASSUME NEW j \in 1..l - 1 PROVE at[j + 1] = at[j] + max
    OBVIOUS
  <2>1. j \in 1..l /\ j + 1 \in 1..l
    BY <1>5
  <2>2. at[j] + max <= n /\ p[j + 1] = s[at[j] + max]
    BY <1>5, <1>13, <2>1
  <2>3. at[j] + max \in 1..n
    BY <1>1, <1>11, <2>1, <2>2
  <2> QED
    BY <1>7, <1>10, <2>1, <2>2, <2>3
<1>15. n < at[l] + max
  <2>1. l \in 1..l /\ next[p[l]] = NIL
    BY <1>5
  <2>2. at[l] \in Nat
    BY <1>1, <1>11, <2>1
  <2>3. ~(at[l] + max <= n)
    <3> SUFFICES ASSUME at[l] + max <= n PROVE FALSE
      OBVIOUS
    <3>1. at[l] + max \in 1..n
      BY <1>1, <2>2
    <3> QED
      BY <1>1, <1>13, <2>1, <3>1
  <2> QED
    BY <1>1, <2>2, <2>3
<1>16. /\ \A i, j \in 1..l : i < j => at[i] + max <= at[j]
       /\ \A k \in 1..n : \E j \in 1..l : at[j] <= k /\ k < at[j] + max
  BY <1>1, <1>5, <1>11, <1>12, <1>14, <1>15, Blocks
<1>17. \A j \in 1..l : ss[j] = page[p[j]].entries /\ E[j] = Block(s, at[j], max)
  BY <1>5
<1>18. Len(ss) = l /\ (l = 0 => ss = << >>)
  BY <1>5
<1>19. ASSUME NEW j \in 1..l
       PROVE  Ranked(R, ss[j], E[j])
  <2>1. PageHolds(page[p[j]], s, at[j], max)
    BY <1>11 DEF n
  <2>2. Ranked(R, page[p[j]].entries, Block(s, at[j], max))
    BY <1>11, <2>1, PageRanked DEF n
  <2> HIDE DEF ss, E
  <2> QED
    BY <1>17, <2>2
<1> HIDE DEF ss, E
<1>20. ASSUME NEW i \in 1..l, NEW j \in 1..l, i < j, NEW x \in E[i], NEW y \in E[j]
       PROVE  <<x, y>> \in R
  <2>1. PICK a \in 1..n : at[i] <= a /\ a < at[i] + max /\ x = s[a]
    BY <1>17 DEF Block, n
  <2>2. PICK b \in 1..n : at[j] <= b /\ b < at[j] + max /\ y = s[b]
    BY <1>17 DEF Block, n
  <2>3. at[i] \in Nat /\ at[j] \in Nat /\ at[i] + max <= at[j]
    BY <1>1, <1>11, <1>16, <1>20
  <2>4. a < b
    BY <1>1, <2>1, <2>2, <2>3
  <2> QED
    BY <2>1, <2>2, <2>4 DEF Ranked, n
<1>21. FirstOf(E, l) = S
  <2>1. \A j \in 1..l : E[j] \subseteq S
    BY <1>1, <1>17 DEF Block, n
  <2>2. ASSUME NEW x \in S
        PROVE  \E j \in 1..l : x \in E[j]
    <3>1. PICK k \in 1..n : s[k] = x
      BY <1>1
    <3>2. PICK j \in 1..l : at[j] <= k /\ k < at[j] + max
      BY <1>16
    <3>3. x \in Block(s, at[j], max)
      BY <3>1, <3>2 DEF Block, n
    <3> QED
      BY <1>17, <3>3
  <2> QED
    BY <2>1, <2>2 DEF FirstOf
<1>22. InTurns(R, ss, E)
  BY <1>5, <1>18, <1>19, <1>20 DEF InTurns
<1>23. Ranked(R, FlattenSeq(ss), S)
  BY <1>18, <1>21, <1>22, FlattenRanked
<1>24. FlattenSeq(ss) = s
  BY <1>23, RankedUnique
<1> QED
  BY <1>24 DEF ss, p

(* Pages of any size have each entry once, the best first.                 *)
LEMMA PagesCompleteFollow ==
  ASSUME QueueInv
  PROVE  PagesComplete
<1> DEFINE entries == Ordered(avlq)
           s == NodesOf(entries)
<1>1. PICK T, A, home, age, now, lo, hi : Whole(avlq, T, A, home, age, now, lo, hi)
  BY WholeExists DEF QueueInv
<1> DEFINE R == ByTurn(avlq, A, age)
<1>2. /\ Ranked(R, s, A) /\ OneWay(R, A)
      /\ Len(s) = Len(entries) /\ DOMAIN entries = 1..Len(entries)
  BY <1>1, NodesRanked
<1>3. /\ A \subseteq DOMAIN avlq.lists /\ NIL \notin DOMAIN avlq.lists
      /\ \A k \in 1..Len(s) : QueueWalk(avlq)[s[k]] = IF k = Len(s) THEN NIL ELSE s[k + 1]
  BY <1>1, QueueLine
<1>4. PICK m : Descending(QueueWalk(avlq), m)
  BY <1>1, QueueWalkEnds
<1>5. EndsCached
  BY EndsCachedFollow
<1> HIDE DEF entries, R
<1>6. SUFFICES ASSUME NEW max \in 1..Len(entries)
               PROVE  Pages(avlq, avlq.head.node, max) = s
  BY DEF PagesComplete, NodesOf, entries
<1>7. s \in Seq(A) /\ Len(s) \in Nat /\ max \in Nat \ {0} /\ s # << >> /\ entries # << >>
  <2>1. s \in Seq(A) /\ Len(s) \in Nat
    BY <1>2, RankedSet
  <2> HIDE DEF s
  <2> QED
    BY <1>2, <2>1
<1>8. avlq.head.node = s[1]
  <2>1. avlq.head = [node |-> Head(entries).node, key |-> Head(entries).key]
    BY <1>5, <1>7 DEF EndsCached, entries
  <2>2. Head(entries) = entries[1] /\ 1 \in DOMAIN entries
    BY <1>2, <1>7
  <2>3. s[1] = entries[1].node
    BY <2>2 DEF NodesOf
  <2> HIDE DEF s
  <2> QED
    BY <2>1, <2>2, <2>3
<1> HIDE DEF s
<1> DEFINE page == [i \in DOMAIN avlq.lists |-> Page(avlq, i, max)]
           next == PageWalk(avlq, max)
<1>9. s \in Seq(DOMAIN avlq.lists) /\ \A k \in 1..Len(s) : s[k] \in DOMAIN avlq.lists
  BY <1>3, <1>7, SeqMonotonic, ElementOfSeq
<1>10. /\ Descending(next, m) /\ DOMAIN next = DOMAIN avlq.lists
       /\ \A i \in DOMAIN avlq.lists : next[i] = page[i].next /\ page[i] = Page(avlq, i, max)
  BY <1>3, <1>4, <1>7, PageWalkEnds DEF PageWalk
<1>11. \A k \in 1..Len(s) : PageHolds(Page(avlq, s[k], max), s, k, max)
  BY <1>3, <1>4, <1>7, <1>9, PageAt
<1> HIDE DEF page, next
<1>12. \A k \in 1..Len(s) : PageHolds(page[s[k]], s, k, max) /\ next[s[k]] = page[s[k]].next
  BY <1>9, <1>10, <1>11
<1> DEFINE p == Path(next, s[1])
<1>13. FlattenSeq([j \in DOMAIN p |-> page[p[j]].entries]) = s
  <2>1. NIL \notin DOMAIN next /\ A \subseteq DOMAIN next
    BY <1>3, <1>10
  <2> QED
    BY <1>2, <1>7, <1>10, <1>12, <2>1, PagesRanked
<1>14. \A j \in DOMAIN p : p[j] \in DOMAIN avlq.lists
  <2>1. 1 \in 1..Len(s)
    BY <1>7
  <2>2. s[1] \in DOMAIN next /\ s[1] # NIL
    BY <1>3, <1>9, <1>10, <2>1
  <2>3. IsWay(next, s[1], p)
    BY <1>10, <2>2, PathIsWay
  <2> HIDE DEF p
  <2> QED
    BY <1>10, <2>3, ElementOfSeq, LenProperties DEF IsWay
<1>15. Pages(avlq, s[1], max) = FlattenSeq([j \in DOMAIN p |-> Page(avlq, p[j], max).entries])
  BY DEF Pages, PageWalk, next
<1> HIDE DEF p
<1>16. [j \in DOMAIN p |-> Page(avlq, p[j], max).entries] = [j \in DOMAIN p |-> page[p[j]].entries]
  BY <1>10, <1>14
<1> QED
  BY <1>8, <1>13, <1>15, <1>16 DEF p

-----------------------------------------------------------------------------
(* Theorems.                                                               *)

(* Whatever rotations and replacements went before, the tree is balanced,  *)
(* its nodes are accounted for, the ends are at hand, and pages from the   *)
(* head on have each entry (what each later operation trusts).             *)
THEOREM TreeAlwaysHolds == Spec => []TreeHolds
<1>1. QueueInv => TreeHolds
  BY BalancedFollows, TreeNodesKeptFollow, EndsCachedFollow, PagesCompleteFollow DEF TreeHolds
<1> QED
  BY <1>1, QueueHolds, PTL

(* The access keys that were handed out, and no others, lead to the        *)
(* entries of the queue.                                                   *)
THEOREM AccessKeysAlwaysHold == Spec => []AccessKeysHold
<1>1. QueueInv => AccessKeysHold
  BY AccessKeysFollow
<1> QED
  BY <1>1, QueueHolds, PTL

-----------------------------------------------------------------------------
(* The AVL queue implements the price-time queue.                          *)

AsQueue(q) ==
  [ascending |-> q.ascending, list |-> Ordered(q),
   nNodes |-> Len(q.lists), inactive |-> ListStack(q)]

(* The operators on sequences of the two specifications are the same.      *)
LEMMA SameOperators ==
  /\ \A s, i, e : Queue!InsertAt(s, i, e) = InsertAt(s, i, e)
  /\ \A s, i : Queue!RemoveAt(s, i) = RemoveAt(s, i)
  /\ \A s : Queue!Front(s) = Front(s) /\ Queue!Last(s) = Last(s)
  /\ \A S : Queue!Cardinality(S) = Cardinality(S)
BY DEF InsertAt, Queue!InsertAt, RemoveAt, Queue!RemoveAt, Front, Queue!Front,
       Last, Queue!Last, Cardinality, Queue!Cardinality

(* The stack that callers see.                                             *)
LEMMA ListStackIs ==
  ASSUME NEW q, NEW T, NEW A, NEW home, NEW age, NEW now, NEW lo, NEW hi,
         Whole(q, T, A, home, age, now, lo, hi)
  PROVE  /\ StackIs(NextListNode(q), q.listTop, ListStack(q), DOMAIN q.lists \ A)
         /\ \A S, free : StackIs(NextListNode(q), q.listTop, S, free) => ListStack(q) = S
         /\ NIL \notin DOMAIN q.lists /\ DOMAIN NextListNode(q) = DOMAIN q.lists
<1> DEFINE next == NextListNode(q)
<1>1. /\ \E m : Descending(next, m)
      /\ \E S : StackIs(next, q.listTop, S, DOMAIN q.lists \ A)
      /\ DOMAIN next = DOMAIN q.lists /\ NIL \notin DOMAIN q.lists
  BY ListsDescend DEF Whole
<1>2. ListStack(q) = Reverse(Path(next, q.listTop))
  BY DEF ListStack
<1> HIDE DEF next
<1>3. \A S, free : StackIs(next, q.listTop, S, free) => ListStack(q) = S
  BY <1>1, <1>2, StackPath
<1> QED
  BY <1>1, <1>3 DEF next

(* The list of a removal: without the entry.                               *)
LEMMA RemovedOrdered ==
  ASSUME NEW q, NEW T, NEW A, NEW home, NEW age, NEW now, NEW lo, NEW hi,
         Whole(q, T, A, home, age, now, lo, hi), NEW id \in A,
         NEW q2, NodesRemoved(q, q2, A, id),
         NEW T2, NEW now2, NEW lo2, NEW hi2, Whole(q2, T2, A \ {id}, home, age, now2, lo2, hi2),
         NEW k \in 1..Len(Ordered(q)), Ordered(q)[k] = EntryOf(q, id)
  PROVE  Ordered(q2) = RemoveAt(Ordered(q), k)
<1> DEFINE A2 == A \ {id}
           R == InTurn(q, A, age)
           R2 == InTurn(q2, A2, age)
           E == EntrySet(q, A)
           E2 == EntrySet(q2, A2)
           s == Ordered(q)
<1>1. Ranked(R, s, E) /\ OneWay(R, E)
  BY OrderedRanked
<1>2. Ranked(R2, Ordered(q2), E2) /\ OneWay(R2, E2)
  BY OrderedRanked
<1>3. Ranked(R, RemoveAt(s, k), E \ {s[k]})
  BY <1>1, RankedRemove
<1>4. /\ q2.ascending = q.ascending
      /\ \A i \in A2 : q2.values[i] = q.values[i] /\ EntryOf(q2, i) = EntryOf(q, i)
  BY DEF NodesRemoved, EntryOf
<1>5. \A i, j \in A2 : Ahead(q, age, i, j) <=> Ahead(q2, age, i, j)
  BY <1>4 DEF Ahead, Better
<1>6. E \ {s[k]} = E2
  <2>1. \A i \in A : EntryOf(q, i) = EntryOf(q, id) => i = id
    BY DEF EntryOf
  <2> QED
    BY <1>4, <2>1 DEF EntrySet
<1>7. \A x, y \in E2 : <<x, y>> \in R => <<x, y>> \in R2
  <2> SUFFICES ASSUME NEW x \in E2, NEW y \in E2, <<x, y>> \in R
               PROVE  <<x, y>> \in R2
    OBVIOUS
  <2>1. PICK i \in A2 : x = EntryOf(q2, i)
    BY DEF EntrySet
  <2>2. PICK j \in A2 : y = EntryOf(q2, j)
    BY DEF EntrySet
  <2>3. x = EntryOf(q, i) /\ y = EntryOf(q, j) /\ i \in A /\ j \in A
    BY <1>4, <2>1, <2>2
  <2>4. Ahead(q, age, i, j)
    BY <2>3, InTurnIs
  <2> QED
    BY <1>5, <2>1, <2>2, <2>4, InTurnIs
<1> HIDE DEF R, R2, E, E2, s
<1>8. Ranked(R2, RemoveAt(s, k), E2)
  BY <1>3, <1>6, <1>7, RankedAlike
<1>9. Ordered(q2) = RemoveAt(s, k)
  BY <1>2, <1>8, RankedUnique
<1> QED
  BY <1>9 DEF s

(* The stack of a removal: with the list node on top.                      *)
LEMMA RemovedStack ==
  ASSUME NEW q, NEW T, NEW A, NEW home, NEW age, NEW now, NEW lo, NEW hi,
         Whole(q, T, A, home, age, now, lo, hi), NEW id \in A,
         NEW q2, NodesRemoved(q, q2, A, id),
         NEW T2, NEW now2, NEW lo2, NEW hi2, Whole(q2, T2, A \ {id}, home, age, now2, lo2, hi2)
  PROVE  ListStack(q2) = Append(ListStack(q), id) /\ Len(q2.lists) = Len(q.lists)
<1> DEFINE next == NextListNode(q)
           next2 == NextListNode(q2)
           free == DOMAIN q.lists \ A
           S == ListStack(q)
<1>1. StackIs(next, q.listTop, S, free) /\ NIL \notin DOMAIN q.lists
  BY ListStackIs
<1>2. \A Z, f : StackIs(next2, q2.listTop, Z, f) => ListStack(q2) = Z
  BY ListStackIs
<1>3. A \subseteq DOMAIN q.lists /\ q.lists \in Seq(ListNode) /\ q2.lists \in Seq(ListNode)
  BY DEF Whole, QueueFacts, QueueType
<1>4. /\ DOMAIN q2.lists = DOMAIN q.lists /\ q2.listTop = id
      /\ q2.lists[id].next = ToList(q.listTop)
      /\ \A i \in free : q2.lists[i].next = q.lists[i].next
  BY DEF NodesRemoved
<1>5. next2[id] = q.listTop
  BY <1>3, <1>4 DEF NextListNode, ToList
<1>6. \A i \in free : next2[i] = next[i]
  BY <1>4 DEF NextListNode
<1>7. id \notin free /\ id # NIL /\ free \cup {id} \subseteq DOMAIN next2
  BY <1>1, <1>3, <1>4 DEF NextListNode
<1>8. Len(q2.lists) = Len(q.lists)
  BY <1>3, <1>4, LenProperties
<1> HIDE DEF next, next2, free, S
<1>9. StackIs(next2, id, Append(S, id), free \cup {id})
  BY <1>1, <1>5, <1>6, <1>7, StackPush
<1>10. ListStack(q2) = Append(S, id)
  BY <1>2, <1>4, <1>9
<1> QED
  BY <1>8, <1>10 DEF S

(* How many entries stay in front of a new one.                            *)
LEMMA AheadIs ==
  ASSUME NEW q, NEW T, NEW A, NEW home, NEW age, NEW now, NEW lo, NEW hi,
         Whole(q, T, A, home, age, now, lo, hi), NEW key \in Nat
  PROVE  LET s == Ordered(q)
             c == Queue!Cardinality(Queue!Ahead(AsQueue(q), key))
         IN /\ c \in 0..Len(s)
            /\ \A i \in 1..Len(s) : i < c + 1 <=> ~Better(q, key, s[i].key)
<1> DEFINE s == Ordered(q)
           n == Len(s)
           C == Queue!Ahead(AsQueue(q), key)
           R == InTurn(q, A, age)
<1>1. Ranked(R, s, EntrySet(q, A))
  BY OrderedRanked
<1>2. n \in Nat /\ DOMAIN s = 1..n /\ \A i \in 1..n : s[i] \in EntrySet(q, A)
  BY <1>1, RankedSet, ElementOfSeq
<1>3. \A i \in A : q.values[i] \in Nat
  BY DEF Whole, QueueFacts
<1>4. AsQueue(q).list = s /\ AsQueue(q).ascending = q.ascending
  BY DEF AsQueue
<1> HIDE DEF s, n
<1>5. C = {i \in 1..n : ~Better(q, key, s[i].key)}
  BY <1>2, <1>4 DEF Queue!Ahead, Queue!Precedes, Better
<1> HIDE DEF C
<1>6. ASSUME NEW i \in C, NEW j \in 1..i
      PROVE  j \in C
  <2>1. i \in 1..n /\ j \in 1..n /\ (j = i \/ j < i) /\ ~Better(q, key, s[i].key)
    BY <1>2, <1>5
  <2>2. CASE j < i
    <3>1. PICK a \in A : s[i] = EntryOf(q, a)
      BY <1>2, <2>1 DEF EntrySet
    <3>2. PICK b \in A : s[j] = EntryOf(q, b)
      BY <1>2, <2>1 DEF EntrySet
    <3>3. <<s[j], s[i]>> \in R
      BY <1>1, <2>1, <2>2 DEF Ranked, n
    <3>4. Ahead(q, age, b, a)
      BY <3>1, <3>2, <3>3, InTurnIs
    <3>5. s[i].key = q.values[a] /\ s[j].key = q.values[b]
      BY <3>1, <3>2 DEF EntryOf
    <3>6. q.values[a] \in Nat /\ q.values[b] \in Nat
      BY <1>3
    <3>7. ~Better(q, key, s[j].key)
      BY <2>1, <3>4, <3>5, <3>6 DEF Ahead, Better
    <3> QED
      BY <1>5, <2>1, <3>7
  <2> QED
    BY <2>1, <2>2
<1>7. C \in SUBSET (1..n)
  BY <1>5
<1> DEFINE c == Cardinality(C)
<1>8. c \in 0..n /\ C = 1..c
  <2>1. \A i \in C : \A j \in 1..i : j \in C
    BY <1>6
  <2> QED
    BY <1>2, <1>7, <2>1, Prefix
<1>9. Queue!Cardinality(C) = c
  BY SameOperators
<1> HIDE DEF c
<1>10. ASSUME NEW i \in 1..n
       PROVE  i < c + 1 <=> ~Better(q, key, s[i].key)
  <2>1. i < c + 1 <=> i \in 1..c
    BY <1>2, <1>8
  <2>2. i \in C <=> ~Better(q, key, s[i].key)
    BY <1>5
  <2> QED
    BY <1>8, <2>1, <2>2
<1> QED
  BY <1>8, <1>9, <1>10 DEF s, n, C

(* The list of an insertion: the entry behind those that are as good.      *)
LEMMA InsertedOrdered ==
  ASSUME NEW q, NEW T, NEW A, NEW home, NEW age, NEW now, NEW lo, NEW hi,
         Whole(q, T, A, home, age, now, lo, hi), NEW id \in Nat, id \notin A, NEW key \in Nat,
         NEW q2, NodesAdded(q, q2, A, id, key), NEW h,
         NEW T2, NEW now2, NEW lo2, NEW hi2,
         Whole(q2, T2, A \cup {id}, Aged(home, id, h), Aged(age, id, now), now2, lo2, hi2)
  PROVE  Ordered(q2) = InsertAt(Ordered(q),
                                Queue!Cardinality(Queue!Ahead(AsQueue(q), key)) + 1,
                                EntryOf(q2, id))
<1> DEFINE A2 == A \cup {id}
           age2 == Aged(age, id, now)
           home2 == Aged(home, id, h)
           R == InTurn(q, A, age)
           R2 == InTurn(q2, A2, age2)
           E == EntrySet(q, A)
           E2 == EntrySet(q2, A2)
           s == Ordered(q)
           e == EntryOf(q2, id)
           c == Queue!Cardinality(Queue!Ahead(AsQueue(q), key))
<1>1. Ranked(R, s, E)
  BY OrderedRanked
<1>2. Ranked(R2, Ordered(q2), E2) /\ OneWay(R2, E2)
  <2>1. Whole(q2, T2, A2, home2, age2, now2, lo2, hi2)
    OBVIOUS
  <2> HIDE DEF A2, home2, age2
  <2> QED
    BY <2>1, OrderedRanked
<1>3. c \in 0..Len(s) /\ \A i \in 1..Len(s) : i < c + 1 <=> ~Better(q, key, s[i].key)
  BY AheadIs
<1>4. /\ age \in [Nat -> Nat] /\ now \in Nat /\ \A i \in A : i \in Nat /\ q.values[i] \in Nat
      /\ \A i \in A : age[i] < now
  BY DEF Whole, QueueFacts
<1>5. age2[id] = now /\ \A i \in A : age2[i] = age[i]
  BY <1>4 DEF Aged
<1>6. /\ q2.ascending = q.ascending /\ q2.values[id] = key
      /\ \A i \in A : q2.values[i] = q.values[i] /\ EntryOf(q2, i) = EntryOf(q, i)
  BY DEF NodesAdded, EntryOf
<1> HIDE DEF age2, home2, c
<1>7. \A i, j \in A : Ahead(q, age, i, j) <=> Ahead(q2, age2, i, j)
  BY <1>5, <1>6 DEF Ahead, Better
<1>8. E2 = E \cup {e}
  BY <1>6 DEF EntrySet
<1>9. Len(s) \in Nat /\ s \in Seq(E) /\ \A i \in 1..Len(s) : s[i] \in E
  BY <1>1, RankedSet, ElementOfSeq
<1>10. ASSUME NEW x \in E, NEW y \in E, <<x, y>> \in R
       PROVE  <<x, y>> \in R2
  <2>1. PICK i \in A : x = EntryOf(q, i)
    BY DEF EntrySet
  <2>2. PICK j \in A : y = EntryOf(q, j)
    BY DEF EntrySet
  <2>3. Ahead(q, age, i, j)
    BY <1>10, <2>1, <2>2, InTurnIs
  <2>4. /\ Ahead(q2, age2, i, j) /\ x = EntryOf(q2, i) /\ y = EntryOf(q2, j)
        /\ i \in A2 /\ j \in A2
    BY <1>6, <1>7, <2>1, <2>2, <2>3
  <2> HIDE DEF A2
  <2> QED
    BY <2>4, InTurnIs
<1>11. ASSUME NEW x \in E
       PROVE  IF ~Better(q, key, x.key) THEN <<x, e>> \in R2 ELSE <<e, x>> \in R2
  <2>1. PICK i \in A : x = EntryOf(q, i)
    BY DEF EntrySet
  <2>2. x = EntryOf(q2, i) /\ i \in A2 /\ id \in A2 /\ x.key = q.values[i]
    BY <1>6, <2>1 DEF EntryOf
  <2>3. IF ~Better(q, key, q.values[i]) THEN Ahead(q2, age2, i, id) ELSE Ahead(q2, age2, id, i)
    <3>1. q.values[i] \in Nat /\ q2.values[i] = q.values[i] /\ age2[i] < age2[id]
      BY <1>4, <1>5, <1>6
    <3> QED
      BY <1>6, <3>1 DEF Ahead, Better
  <2> HIDE DEF A2
  <2> QED
    BY <2>2, <2>3, InTurnIs
<1> HIDE DEF s, R, R2, E, E2, e
<1>12. Ranked(R2, s, E)
  BY <1>1, <1>10, RankedAlike
<1>13. c + 1 \in 1..Len(s) + 1
  BY <1>3, <1>9
<1>14. \A i \in 1..Len(s) : IF i < c + 1 THEN <<s[i], e>> \in R2 ELSE <<e, s[i]>> \in R2
  BY <1>3, <1>9, <1>11
<1>15. Ranked(R2, InsertAt(s, c + 1, e), E2)
  BY <1>8, <1>12, <1>13, <1>14, RankedInsert
<1>16. Ordered(q2) = InsertAt(s, c + 1, e)
  BY <1>2, <1>15, RankedUnique
<1> QED
  BY <1>16 DEF s, c, e

(* The stack of an insertion: the list node on top is taken, or a new one. *)
LEMMA InsertedStack ==
  ASSUME NEW q, NEW T, NEW A, NEW home, NEW age, NEW now, NEW lo, NEW hi,
         Whole(q, T, A, home, age, now, lo, hi), NEW id, id = NextList(q), NEW key,
         NEW q2, NodesAdded(q, q2, A, id, key),
         NEW T2, NEW home2, NEW age2, NEW now2, NEW lo2, NEW hi2,
         Whole(q2, T2, A \cup {id}, home2, age2, now2, lo2, hi2)
  PROVE  /\ id = IF ListStack(q) = << >> THEN Len(q.lists) + 1 ELSE Last(ListStack(q))
         /\ ListStack(q2) = IF ListStack(q) = << >> THEN << >> ELSE Front(ListStack(q))
         /\ Len(q2.lists) = IF ListStack(q) = << >> THEN Len(q.lists) + 1 ELSE Len(q.lists)
<1> DEFINE next == NextListNode(q)
           next2 == NextListNode(q2)
           free == DOMAIN q.lists \ A
           top == q.listTop
           S == ListStack(q)
<1>1. StackIs(next, top, S, free) /\ NIL \notin DOMAIN next
  BY ListStackIs
<1>2. \A Z, f : StackIs(next2, q2.listTop, Z, f) => ListStack(q2) = Z
  BY ListStackIs
<1>3. /\ q \in QueueType /\ q2 \in QueueType /\ A \subseteq DOMAIN q.lists
      /\ FreeLists(q, A)
  BY DEF Whole, QueueFacts, AVLQueue, ListsOf
<1>4. /\ DOMAIN q.lists = 1..Len(q.lists) /\ Len(q.lists) \in Nat
      /\ DOMAIN q2.lists = 1..Len(q2.lists) /\ Len(q2.lists) \in Nat
  BY <1>3, QueueFields, LenProperties
<1>5. /\ top = NIL => DOMAIN q.lists = A /\ id = Len(q.lists) + 1
      /\ top # NIL => id \in DOMAIN q.lists /\ id = top
  BY <1>3, NextListIs
<1>6. /\ DOMAIN q2.lists = DOMAIN q.lists \cup {id}
      /\ q2.listTop = IF top = NIL THEN NIL ELSE q.lists[id].next.id
      /\ \A i \in free : i # id => q2.lists[i].next = q.lists[i].next
  BY DEF NodesAdded
<1>7. top = NIL <=> S = << >>
  BY <1>1, StackEmpty
<1>8. CASE top = NIL
  <2>1. StackIs(next2, NIL, << >>, {})
    BY DEF StackIs
  <2>2. ListStack(q2) = << >>
    BY <1>2, <1>6, <1>8, <2>1
  <2>3. Len(q2.lists) = Len(q.lists) + 1
    <3>1. 1..Len(q2.lists) = 1..Len(q.lists) \cup {Len(q.lists) + 1}
      BY <1>4, <1>5, <1>6, <1>8
    <3>2. Len(q.lists) + 1 \in 1..Len(q2.lists)
      BY <1>4, <3>1
    <3>3. Len(q2.lists) \in 1..Len(q2.lists)
      BY <1>4, <3>2
    <3>4. Len(q2.lists) \in 1..Len(q.lists) \cup {Len(q.lists) + 1}
      BY ONLY <3>1, <3>3
    <3> QED
      BY ONLY <1>4, <3>2, <3>4
  <2> QED
    BY <1>5, <1>7, <1>8, <2>2, <2>3 DEF S
<1>9. CASE top # NIL
  <2>1. top \in free
    BY <1>1, <1>9, StackEmpty
  <2>2. \A i \in free : next[i] = q.lists[i].next.id
    BY <1>3 DEF FreeLists, NextListNode
  <2>3. \A i \in free \ {top} : next2[i] = next[i]
    BY <1>5, <1>6, <1>9 DEF NextListNode
  <2>4. free \ {top} \subseteq DOMAIN next2
    BY <1>6 DEF NextListNode
  <2>5. q2.listTop = next[top]
    BY <1>5, <1>6, <1>9, <2>1, <2>2
  <2>6. Len(q2.lists) = Len(q.lists)
    <3>1. 1..Len(q2.lists) = 1..Len(q.lists)
      BY <1>4, <1>5, <1>6, <1>9
    <3> QED
      BY ONLY <1>4, <3>1
  <2> HIDE DEF next, next2, free, top, S
  <2>7. SameStack(next, next2, free \ {top})
    BY <2>3, <2>4 DEF SameStack
  <2>8. S # << >> /\ S[Len(S)] = top /\ StackIs(next2, next[top], Popped(S), free \ {top})
    BY <1>1, <1>9, <2>7, StackPop
  <2>9. ListStack(q2) = Popped(S)
    BY <1>2, <2>5, <2>8
  <2>10. Popped(S) = Front(S) /\ Last(S) = S[Len(S)]
    BY DEF Popped, Front, Last
  <2> QED
    BY <1>5, <1>9, <2>6, <2>8, <2>9, <2>10 DEF S
<1> QED
  BY <1>8, <1>9

(* How the price-time queue takes an entry, and gives one back.            *)
LEMMA AbstractSteps ==
  ASSUME NEW ascending, NEW list, NEW n, NEW stack
  PROVE  LET Q == [ascending |-> ascending, list |-> list, nNodes |-> n, inactive |-> stack]
         IN /\ \A key :
                 Queue!Insert(Q, key, key) =
                   [ascending |-> ascending,
                    list |-> InsertAt(list, Queue!Cardinality(Queue!Ahead(Q, key)) + 1,
                                      [key |-> key, value |-> key,
                                       node |-> IF stack = << >> THEN n + 1 ELSE Last(stack)]),
                    nNodes |-> IF stack = << >> THEN n + 1 ELSE n,
                    inactive |-> IF stack = << >> THEN << >> ELSE Front(stack)]
            /\ \A k :
                 Queue!RemoveEntry(Q, k) =
                   [ascending |-> ascending, list |-> RemoveAt(list, k), nNodes |-> n,
                    inactive |-> Append(stack, list[k].node)]
<1> DEFINE Q == [ascending |-> ascending, list |-> list, nNodes |-> n, inactive |-> stack]
<1>1. ASSUME NEW key
      PROVE  Queue!Insert(Q, key, key) =
               [ascending |-> ascending,
                list |-> InsertAt(list, Queue!Cardinality(Queue!Ahead(Q, key)) + 1,
                                  [key |-> key, value |-> key,
                                   node |-> IF stack = << >> THEN n + 1 ELSE Last(stack)]),
                nNodes |-> IF stack = << >> THEN n + 1 ELSE n,
                inactive |-> IF stack = << >> THEN << >> ELSE Front(stack)]
  <2> DEFINE c == Queue!Cardinality(Queue!Ahead(Q, key)) + 1
             e == [key |-> key, node |-> Queue!NextNode(Q), value |-> key]
             R == Queue!TakeNode(Q)
  <2>1. Queue!Insert(Q, key, key) = [R EXCEPT !.list = Queue!InsertAt(R.list, c, e)]
    BY DEF Queue!Insert
  <2>2. Queue!NextNode(Q) = IF stack = << >> THEN n + 1 ELSE Last(stack)
    BY SameOperators DEF Queue!NextNode
  <2>3. R = [ascending |-> ascending, list |-> list,
             nNodes |-> IF stack = << >> THEN n + 1 ELSE n,
             inactive |-> IF stack = << >> THEN << >> ELSE Front(stack)]
    BY SameOperators DEF Queue!TakeNode
  <2>4. e = [key |-> key, value |-> key,
             node |-> IF stack = << >> THEN n + 1 ELSE Last(stack)]
    BY <2>2
  <2>5. Queue!InsertAt(list, c, e) = InsertAt(list, c, e)
    BY SameOperators
  <2> HIDE DEF R, e, c
  <2>6. Queue!Insert(Q, key, key) =
          [ascending |-> ascending, list |-> InsertAt(list, c, e),
           nNodes |-> IF stack = << >> THEN n + 1 ELSE n,
           inactive |-> IF stack = << >> THEN << >> ELSE Front(stack)]
    BY <2>1, <2>3, <2>5
  <2> QED
    BY <2>4, <2>6 DEF c
<1>2. ASSUME NEW k
      PROVE  Queue!RemoveEntry(Q, k) =
               [ascending |-> ascending, list |-> RemoveAt(list, k), nNodes |-> n,
                inactive |-> Append(stack, list[k].node)]
  <2> DEFINE list2 == RemoveAt(list, k)
             stack2 == Append(stack, list[k].node)
  <2>1. Queue!RemoveAt(Q.list, k) = list2 /\ Append(Q.inactive, Q.list[k].node) = stack2
    BY SameOperators
  <2>2. Queue!RemoveEntry(Q, k) = [Q EXCEPT !.list = list2, !.inactive = stack2]
    BY <2>1 DEF Queue!RemoveEntry
  <2> HIDE DEF list2, stack2
  <2>3. Queue!RemoveEntry(Q, k) = [ascending |-> ascending, list |-> list2, nNodes |-> n,
                                   inactive |-> stack2]
    BY <2>2
  <2> QED
    BY <2>3 DEF list2, stack2
<1> QED
  BY <1>1, <1>2

(* An insertion is one of the price-time queue.                            *)
LEMMA InsertIs ==
  ASSUME NEW q, NEW keys, HoldsEntries(q, keys), NEW key \in 1..HiInsertionKey
  PROVE  AsQueue(Insert(q, key).queue) = Queue!Insert(AsQueue(q), key, key)
<1> DEFINE q2 == Insert(q, key).queue
           id == NextList(q)
           s == ListStack(q)
           c == Queue!Cardinality(Queue!Ahead(AsQueue(q), key)) + 1
<1>1. PICK T, A, home, age, now, lo, hi : Whole(q, T, A, home, age, now, lo, hi)
  BY WholeExists
<1>2. Inserted(q, Insert(q, key), A, home, age, now, key)
  BY <1>1, InsertHolds DEF Whole
<1>3. PICK T2, h : /\ h \in Nat
                   /\ AVLQueue(q2, T2, A \cup {id}, Aged(home, id, h), Aged(age, id, now))
  BY <1>2 DEF Inserted
<1>4. id \in Nat /\ id \notin A /\ NodesAdded(q, q2, A, id, key) /\ key \in Nat
  BY <1>2 DEF Inserted
<1> DEFINE home2 == Aged(home, id, h)
           age2 == Aged(age, id, now)
           A2 == A \cup {id}
<1>5. \A i \in A2 : age2[i] < now + 1
  BY <1>1, <1>4 DEF Whole, QueueFacts, Aged
<1>6. AVLQueue(q2, T2, A2, home2, age2) /\ now + 1 \in Nat
  BY <1>1, <1>3 DEF Whole
<1> HIDE DEF q2, id
<1>7. PICK lo2, hi2 : Whole(q2, T2, A2, home2, age2, now + 1, lo2, hi2)
  <2> HIDE DEF A2, home2, age2
  <2> QED
    BY <1>5, <1>6, WholeOf
<1>8. Ordered(q2) = InsertAt(Ordered(q), c, EntryOf(q2, id))
  BY <1>1, <1>4, <1>7, InsertedOrdered
<1>9. /\ id = IF s = << >> THEN Len(q.lists) + 1 ELSE Last(s)
      /\ ListStack(q2) = IF s = << >> THEN << >> ELSE Front(s)
      /\ Len(q2.lists) = IF s = << >> THEN Len(q.lists) + 1 ELSE Len(q.lists)
  BY <1>1, <1>4, <1>7, InsertedStack DEF id
<1>10. q2.ascending = q.ascending /\ EntryOf(q2, id) = [key |-> key, value |-> key, node |-> id]
  BY <1>4 DEF NodesAdded, EntryOf
<1>11. Queue!Insert(AsQueue(q), key, key) =
         [ascending |-> q.ascending,
          list |-> InsertAt(Ordered(q), c, [key |-> key, value |-> key, node |-> id]),
          nNodes |-> IF s = << >> THEN Len(q.lists) + 1 ELSE Len(q.lists),
          inactive |-> IF s = << >> THEN << >> ELSE Front(s)]
  BY <1>9, AbstractSteps DEF AsQueue
<1> HIDE DEF c, s
<1>12. AsQueue(q2) = Queue!Insert(AsQueue(q), key, key)
  BY <1>8, <1>9, <1>10, <1>11 DEF AsQueue
<1> QED
  BY <1>12 DEF q2

(* A removal is one of the price-time queue, of the entry's index.         *)
LEMMA RemoveIs ==
  ASSUME NEW q, NEW T, NEW A, NEW home, NEW age, NEW now, NEW lo, NEW hi,
         Whole(q, T, A, home, age, now, lo, hi), NEW id \in A,
         NEW k \in 1..Len(Ordered(q)), Ordered(q)[k] = EntryOf(q, id)
  PROVE  AsQueue(RemoveAccess(q, Access(q.values[id], id, home[id])))
           = Queue!RemoveEntry(AsQueue(q), k)
<1> DEFINE q2 == RemoveAccess(q, Access(q.values[id], id, home[id]))
           A2 == A \ {id}
<1>1. NodesRemoved(q, q2, A, id) /\ \E T2 : AVLQueue(q2, T2, A2, home, age)
  BY RemoveHolds DEF Whole
<1>2. PICK T2 : AVLQueue(q2, T2, A2, home, age)
  BY <1>1
<1>3. now \in Nat /\ \A i \in A2 : age[i] < now
  BY DEF Whole
<1> HIDE DEF q2
<1>4. PICK lo2, hi2 : Whole(q2, T2, A2, home, age, now, lo2, hi2)
  <2> HIDE DEF A2
  <2> QED
    BY <1>2, <1>3, WholeOf
<1>5. Ordered(q2) = RemoveAt(Ordered(q), k)
  BY <1>1, <1>4, RemovedOrdered
<1>6. ListStack(q2) = Append(ListStack(q), id) /\ Len(q2.lists) = Len(q.lists)
  <2>1. id \in A /\ Whole(q, T, A, home, age, now, lo, hi)
    OBVIOUS
  <2>2. NodesRemoved(q, q2, A, id)
    BY <1>1
  <2> QED
    BY ONLY <1>4, <2>1, <2>2, RemovedStack, SMTT(30)
<1>7. q2.ascending = q.ascending /\ Ordered(q)[k].node = id
  BY <1>1 DEF NodesRemoved, EntryOf
<1>8. Queue!RemoveEntry(AsQueue(q), k) =
        [ascending |-> q.ascending, list |-> RemoveAt(Ordered(q), k), nNodes |-> Len(q.lists),
         inactive |-> Append(ListStack(q), id)]
  BY <1>7, AbstractSteps DEF AsQueue
<1>9. AsQueue(q2) = Queue!RemoveEntry(AsQueue(q), k)
  BY <1>5, <1>6, <1>7, <1>8 DEF AsQueue
<1> QED
  BY <1>9 DEF q2

(* It is empty when callers see no entry; else its ends are theirs, and    *)
(* removing one removes the first or the last entry.                       *)
LEMMA RemoveEndsIs ==
  ASSUME NEW q, NEW keys, HoldsEntries(q, keys)
  PROVE  /\ Empty(q) <=> Ordered(q) = << >>
         /\ ~Empty(q) =>
              /\ FirstAndLast(q, Ordered(q))
              /\ HeadAccess(q).list = q.head.node /\ TailAccess(q).list = q.tail.node
              /\ AsQueue(RemoveAccess(q, HeadAccess(q))) = Queue!RemoveEntry(AsQueue(q), 1)
              /\ AsQueue(RemoveAccess(q, TailAccess(q)))
                   = Queue!RemoveEntry(AsQueue(q), Len(Ordered(q)))
<1> DEFINE s == Ordered(q)
           h == q.head.node
           l == q.tail.node
<1>1. PICK T, A, home, age, now, lo, hi : Whole(q, T, A, home, age, now, lo, hi)
  BY WholeExists
<1>2. /\ Empty(q) <=> A = {}
      /\ ~Empty(q) =>
           /\ h \in A /\ l \in A
           /\ HeadAccess(q) = Access(q.values[h], h, home[h])
           /\ TailAccess(q) = Access(q.values[l], l, home[l])
  BY <1>1, EndAccess DEF Whole
<1>3. /\ A = {} => s = << >>
      /\ A # {} => FirstAndLast(q, s)
  BY <1>1, EndsFollow
<1>4. FirstAndLast(q, s) => s # << >>
  BY DEF FirstAndLast
<1>5. Empty(q) <=> s = << >>
  BY <1>2, <1>3, <1>4
<1>6. ASSUME ~Empty(q)
      PROVE  /\ FirstAndLast(q, s)
             /\ HeadAccess(q).list = h /\ TailAccess(q).list = l
             /\ AsQueue(RemoveAccess(q, HeadAccess(q))) = Queue!RemoveEntry(AsQueue(q), 1)
             /\ AsQueue(RemoveAccess(q, TailAccess(q))) = Queue!RemoveEntry(AsQueue(q), Len(s))
  <2>1. FirstAndLast(q, s) /\ h \in A /\ l \in A
    BY <1>2, <1>3, <1>6
  <2>2. /\ 1 \in 1..Len(s) /\ Len(s) \in 1..Len(s)
        /\ s[1] = EntryOf(q, h) /\ s[Len(s)] = EntryOf(q, l)
    BY <2>1 DEF FirstAndLast
  <2>3. /\ HeadAccess(q) = Access(q.values[h], h, home[h])
        /\ TailAccess(q) = Access(q.values[l], l, home[l])
    BY <1>2, <1>6
  <2>4. HeadAccess(q).list = h /\ TailAccess(q).list = l
    BY <2>3 DEF Access
  <2> HIDE DEF h, l
  <2>5. AsQueue(RemoveAccess(q, Access(q.values[h], h, home[h]))) = Queue!RemoveEntry(AsQueue(q), 1)
    BY <1>1, <2>1, <2>2, RemoveIs
  <2>6. AsQueue(RemoveAccess(q, Access(q.values[l], l, home[l])))
          = Queue!RemoveEntry(AsQueue(q), Len(s))
    BY <1>1, <2>1, <2>2, RemoveIs
  <2> QED
    BY <2>1, <2>3, <2>4, <2>5, <2>6
<1> QED
  BY <1>5, <1>6

(* Removing by an access key removes some entry, with its value.           *)
LEMMA RemoveAnyIs ==
  ASSUME NEW q, NEW keys, HoldsEntries(q, keys), NEW access \in keys
  PROVE  \E k \in DOMAIN Ordered(q) :
           /\ Ordered(q)[k].value = q.values[access.list]
           /\ AsQueue(RemoveAccess(q, access)) = Queue!RemoveEntry(AsQueue(q), k)
<1> DEFINE s == Ordered(q)
<1>1. PICK T, A, home, age, now, lo, hi :
        Whole(q, T, A, home, age, now, lo, hi) /\ keys = AccessKeys(q, A, home)
  BY WholeExists
<1>2. PICK id \in A : access = Access(q.values[id], id, home[id])
  BY <1>1 DEF AccessKeys
<1>3. Ranked(InTurn(q, A, age), s, EntrySet(q, A))
  BY <1>1, OrderedRanked
<1>4. EntryOf(q, id) \in EntrySet(q, A) /\ access.list = id /\ EntryOf(q, id).value = q.values[id]
  BY <1>2 DEF EntrySet, EntryOf, Access
<1>5. PICK k \in 1..Len(s) : s[k] = EntryOf(q, id)
  <2> HIDE DEF s
  <2> QED
    BY <1>3, <1>4 DEF Ranked
<1>6. DOMAIN s = 1..Len(s)
  BY <1>3, RankedSet
<1>7. AsQueue(RemoveAccess(q, access)) = Queue!RemoveEntry(AsQueue(q), k)
  BY <1>1, <1>2, <1>5, RemoveIs
<1> QED
  BY <1>4, <1>5, <1>6, <1>7

(* A key that is better than the tail's does not become the tail.          *)
LEMMA TailStays ==
  ASSUME NEW q, NEW keys, HoldsEntries(q, keys), ~Empty(q), NEW key \in 1..HiInsertionKey,
         Better(q, key, q.tail.key), NEW q2, q2 = Insert(q, key).queue
  PROVE  ~Empty(q2) /\ TailAccess(q2) = TailAccess(q)
<1> DEFINE id == NextList(q)
           l == q.tail.node
           l2 == q2.tail.node
<1>1. PICK T, A, home, age, now, lo, hi : Whole(q, T, A, home, age, now, lo, hi)
  BY WholeExists
<1>2. Inserted(q, Insert(q, key), A, home, age, now, key)
  BY <1>1, InsertHolds DEF Whole
<1>3. PICK T2, h : /\ h \in Nat
                   /\ AVLQueue(q2, T2, A \cup {id}, Aged(home, id, h), Aged(age, id, now))
  BY <1>2 DEF Inserted
<1>4. id \in Nat /\ id \notin A /\ NodesAdded(q, q2, A, id, key) /\ key \in Nat
  BY <1>2 DEF Inserted
<1> HIDE DEF id
<1> DEFINE home2 == Aged(home, id, h)
           age2 == Aged(age, id, now)
           A2 == A \cup {id}
<1>5. /\ A # {} /\ l \in A /\ TailAccess(q) = Access(q.values[l], l, home[l])
  BY <1>1, EndAccess DEF Whole
<1>6. /\ q.tail.key = q.values[l] /\ \A j \in A : ~Ahead(q, age, l, j)
  BY <1>1, <1>5 DEF Whole, AVLQueue, CacheHolds
<1>7. /\ Empty(q2) <=> A2 = {}
      /\ ~Empty(q2) => /\ l2 \in A2
                       /\ TailAccess(q2) = Access(q2.values[l2], l2, home2[l2])
  <2> HIDE DEF home2, age2, A2
  <2> QED
    BY <1>3, EndAccess DEF home2, age2, A2
<1>8. ~Empty(q2)
  BY <1>7
<1>9. \A j \in A2 : ~Ahead(q2, age2, l2, j)
  BY <1>3 DEF AVLQueue, CacheHolds
<1>10. /\ home2[l] = home[l] /\ age2[id] = now /\ \A i \in A : age2[i] = age[i] /\ age[i] \in Nat
       /\ \A i, j \in A : age[i] = age[j] => i = j
       /\ \A i \in A : q.values[i] \in Nat
  BY <1>1, <1>4, <1>5 DEF Whole, QueueFacts, Aged
<1>11. /\ q2.ascending = q.ascending /\ q2.values[id] = key
       /\ \A i \in A : q2.values[i] = q.values[i]
  BY <1>4 DEF NodesAdded
<1> HIDE DEF home2, age2
<1>12. l2 = l
  <2>1. ~Ahead(q2, age2, l2, l) /\ l2 \in A2 /\ q2.values[l] = q.values[l]
    BY <1>5, <1>7, <1>8, <1>9, <1>11
  <2>2. CASE l2 \in A
    <3>1. ~Ahead(q, age, l, l2) /\ q2.values[l2] = q.values[l2]
      BY <1>6, <1>11, <2>2
    <3>2. age2[l] = age[l] /\ age2[l2] = age[l2] /\ age[l] \in Nat /\ age[l2] \in Nat
      BY <1>5, <1>10, <2>2
    <3>3. q.values[l] \in Nat /\ q.values[l2] \in Nat
      BY <1>5, <1>10, <2>2
    <3>4. ~Ahead(q, age, l2, l)
      BY <1>11, <2>1, <3>1, <3>2 DEF Ahead, Better
    <3>5. age[l] = age[l2]
      BY <3>1, <3>2, <3>3, <3>4 DEF Ahead, Better
    <3> QED
      BY <1>5, <1>10, <2>2, <3>5
  <2>3. CASE l2 = id
    <3>1. Better(q, key, q.values[l])
      BY <1>6
    <3>2. Ahead(q2, age2, id, l)
      BY <1>11, <2>1, <3>1 DEF Ahead, Better
    <3> QED
      BY <2>1, <2>3, <3>2
  <2> QED
    BY <2>1, <2>2, <2>3
<1>13. TailAccess(q2) = TailAccess(q)
  BY <1>5, <1>7, <1>8, <1>10, <1>11, <1>12
<1> QED
  BY <1>8, <1>13

(* The stack that callers see is empty when the queue's is.                *)
LEMMA StackSeen ==
  ASSUME NEW q, NEW keys, HoldsEntries(q, keys)
  PROVE  (q.listTop = NIL <=> ListStack(q) = << >>) /\ Len(q.lists) \in Nat
<1>1. PICK T, A, home, age, now, lo, hi : Whole(q, T, A, home, age, now, lo, hi)
  BY WholeExists
<1>2. /\ StackIs(NextListNode(q), q.listTop, ListStack(q), DOMAIN q.lists \ A)
      /\ NIL \notin DOMAIN NextListNode(q)
  BY <1>1, ListStackIs
<1>3. q.listTop = NIL <=> ListStack(q) = << >>
  BY <1>2, StackEmpty
<1>4. q.lists \in Seq(ListNode)
  BY <1>1, QueueFields DEF Whole, QueueFacts
<1> QED
  BY <1>3, <1>4, LenProperties

-----------------------------------------------------------------------------
(* Each step of the AVL queue is one of the price-time queue.              *)

(* To insert is to insert in a queue by price and time.                    *)
LEMMA StepInsert ==
  ASSUME QueueInv, NEW key \in Keys, InsertKey(key)
  PROVE  Queue!InsertKey(key)
<1>1. HoldsEntries(avlq, issued) /\ key \in 1..HiInsertionKey /\ NNodesMax \in Nat
  BY QueueAssumption DEF QueueInv
<1>2. /\ CanInsert(avlq) /\ avlq' = Insert(avlq, key).queue
      /\ done' = [operation |-> "insert", value |-> 0]
  BY DEF InsertKey, Did, NIL
<1>3. AsQueue(avlq') = Queue!Insert(AsQueue(avlq), key, key)
  BY <1>1, <1>2, InsertIs
<1>4. ListStack(avlq) # << >> \/ Len(avlq.lists) < NNodesMax
  <2>1. (avlq.listTop = NIL <=> ListStack(avlq) = << >>) /\ Len(avlq.lists) \in Nat
    BY <1>1, StackSeen
  <2> QED
    BY <1>1, <1>2, <2>1 DEF CanInsert, NextList
<1>5. Queue!CanInsert
  BY <1>4 DEF Queue!CanInsert
<1> QED
  BY <1>2, <1>3, <1>5 DEF Queue!InsertKey, Queue!Done, AsQueue

(* To insert or evict is that in a queue by price and time: the evicted    *)
(* node is the last.                                                       *)
LEMMA StepEvict ==
  ASSUME QueueInv, NEW key \in Keys, InsertOrEvict(key)
  PROVE  Queue!InsertOrEvict(key)
<1> DEFINE q == avlq
           critical == CriticalHeight
<1>1. HoldsEntries(q, issued) /\ key \in 1..HiInsertionKey
  BY QueueAssumption DEF QueueInv
<1>2. PICK r \in {InsertCheckEviction(q, key, critical)} :
        /\ avlq' = r.queue
        /\ \/ r.access = {} /\ Did("refuse", key)
           \/ r.access # {} /\ r.evicted = {} /\ Did("insert", NIL)
           \/ \E evicted \in r.evicted : Did("evict", q.values[evicted.list])
  BY DEF InsertOrEvict
<1>3. /\ Empty(q) <=> Ordered(q) = << >>
      /\ ~Empty(q) =>
           /\ FirstAndLast(q, Ordered(q)) /\ TailAccess(q).list = q.tail.node
           /\ AsQueue(RemoveAccess(q, TailAccess(q))) = Queue!RemoveEntry(AsQueue(q), Len(Ordered(q)))
  BY <1>1, RemoveEndsIs
<1>4. AsQueue(q).list = Ordered(q) /\ AsQueue(q).nNodes = Len(q.lists)
      /\ AsQueue(q).inactive = ListStack(q) /\ AsQueue(q).ascending = q.ascending
  BY DEF AsQueue
<1>5. Queue!MustEvict <=> ~Empty(q) /\ MustEvict(q, critical)
  <2>1. q.listTop = NIL <=> ListStack(q) = << >>
    BY <1>1, StackSeen
  <2>2. Queue!IsEmpty(AsQueue(q)) <=> Empty(q)
    BY <1>3, <1>4 DEF Queue!IsEmpty
  <2>3. Queue!IsFull(AsQueue(q)) <=> ~Empty(q) /\ Len(q.lists) = NNodesMax /\ q.listTop = NIL
    BY <1>4, <2>1, <2>2 DEF Queue!IsFull
  <2> QED
    BY <2>2, <2>3 DEF Queue!MustEvict, MustEvict, AsQueue
<1>6. ~Empty(q) => (Queue!WouldUpdateTail(AsQueue(q), key) <=> ~Better(q, key, q.tail.key))
  <2> SUFFICES ASSUME ~Empty(q)
               PROVE  Queue!WouldUpdateTail(AsQueue(q), key) <=> ~Better(q, key, q.tail.key)
    OBVIOUS
  <2>1. Ordered(q) # << >> /\ Ordered(q)[Len(Ordered(q))].key = q.tail.key
    BY <1>3 DEF FirstAndLast, EntryOf
  <2> QED
    BY <1>4, <2>1 DEF Queue!WouldUpdateTail, Queue!IsEmpty, Queue!TailKey, Queue!Precedes, Better
<1>7. CASE Empty(q) \/ ~MustEvict(q, critical)
  <2>1. r.queue = Insert(q, key).queue /\ r.access # {} /\ r.evicted = {}
    BY <1>2, <1>7 DEF InsertCheckEviction
  <2>2. done' = [operation |-> "insert", value |-> 0]
    BY <1>2, <2>1 DEF Did, NIL
  <2>3. AsQueue(avlq') = Queue!Insert(AsQueue(q), key, key)
    BY <1>1, <1>2, <2>1, InsertIs
  <2>4. ~Queue!MustEvict
    BY <1>5, <1>7
  <2> QED
    BY <2>2, <2>3, <2>4 DEF Queue!InsertOrEvict, Queue!Done, AsQueue
<1>8. CASE ~Empty(q) /\ MustEvict(q, critical) /\ ~Better(q, key, q.tail.key)
  <2>1. r.queue = q /\ r.access = {} /\ r.evicted = {}
    BY <1>2, <1>8 DEF InsertCheckEviction
  <2>2. done' = [operation |-> "refuse", value |-> key]
    BY <1>2, <2>1 DEF Did
  <2>3. Queue!MustEvict /\ Queue!WouldUpdateTail(AsQueue(q), key) /\ AsQueue(avlq') = AsQueue(q)
    BY <1>2, <1>5, <1>6, <1>8, <2>1
  <2> QED
    BY <2>2, <2>3 DEF Queue!InsertOrEvict, Queue!Done, AsQueue
<1>9. CASE ~Empty(q) /\ MustEvict(q, critical) /\ Better(q, key, q.tail.key)
  <2> DEFINE rest == RemoveAccess(q, TailAccess(q))
             k == Len(Ordered(q))
  <2>1. r.queue = Insert(rest, key).queue /\ r.access # {} /\ r.evicted = {TailAccess(q)}
    BY <1>2, <1>9 DEF InsertCheckEviction
  <2>2. done' = [operation |-> "evict", value |-> q.values[q.tail.node]]
    BY <1>2, <1>3, <1>9, <2>1 DEF Did
  <2>3. HoldsEntries(rest, issued \ {TailAccess(q)})
    BY <1>1, <1>9, EndsHeld, RemoveAccessKey
  <2>4. AsQueue(rest) = Queue!RemoveEntry(AsQueue(q), k)
    BY <1>3, <1>9
  <2> HIDE DEF rest
  <2>5. AsQueue(avlq') = Queue!Insert(AsQueue(rest), key, key)
    BY <1>1, <1>2, <2>1, <2>3, InsertIs
  <2>6. Queue!MustEvict /\ ~Queue!WouldUpdateTail(AsQueue(q), key)
    BY <1>5, <1>6, <1>9
  <2>7. Queue!Last(AsQueue(q).list).value = q.values[q.tail.node]
    BY <1>3, <1>4, <1>9 DEF Queue!Last, FirstAndLast, EntryOf
  <2>8. /\ Queue!Done("evict", Queue!Last(AsQueue(q).list).value)
        /\ AsQueue(avlq') = Queue!Insert(Queue!RemoveEntry(AsQueue(q), Len(AsQueue(q).list)), key, key)
    BY <1>4, <2>2, <2>4, <2>5, <2>7 DEF Queue!Done
  <2> QED
    BY <2>6, <2>8 DEF Queue!InsertOrEvict, AsQueue
<1> QED
  BY <1>7, <1>8, <1>9

(* To insert and then evict the tail is that in a queue by price and       *)
(* time.                                                                   *)
LEMMA StepEvictTail ==
  ASSUME QueueInv, NEW key \in Keys, InsertThenEvict(key)
  PROVE  Queue!InsertThenEvict(key)
<1> DEFINE q == avlq
           q2 == Insert(q, key).queue
<1>1. HoldsEntries(q, issued) /\ key \in 1..HiInsertionKey /\ NNodesMax \in Nat
  BY QueueAssumption DEF QueueInv
<1>2. /\ ~Empty(q) /\ Better(q, key, q.tail.key) /\ CanInsert(q)
      /\ avlq' = RemoveAccess(q2, TailAccess(q))
      /\ done' = [operation |-> "evict", value |-> q.values[TailAccess(q).list]]
  BY DEF InsertThenEvict, InsertEvictTail, Did
<1>3. /\ Empty(q) <=> Ordered(q) = << >>
      /\ FirstAndLast(q, Ordered(q)) /\ TailAccess(q).list = q.tail.node
  BY <1>1, <1>2, RemoveEndsIs
<1>4. AsQueue(q).list = Ordered(q) /\ AsQueue(q).nNodes = Len(q.lists)
      /\ AsQueue(q).inactive = ListStack(q) /\ AsQueue(q).ascending = q.ascending
  BY DEF AsQueue
<1>5. AsQueue(q2) = Queue!Insert(AsQueue(q), key, key)
  BY <1>1, InsertIs
<1>6. \E keys : HoldsEntries(q2, keys)
  BY <1>1, InsertAccess
<1>7. ~Empty(q2) /\ TailAccess(q2) = TailAccess(q)
  BY <1>1, <1>2, TailStays
<1> HIDE DEF q2
<1>8. AsQueue(avlq') = Queue!RemoveEntry(AsQueue(q2), Len(Ordered(q2)))
  BY <1>2, <1>6, <1>7, RemoveEndsIs
<1>9. Ordered(q2) = AsQueue(q2).list
  BY DEF AsQueue
<1>10. ~Queue!IsEmpty(AsQueue(q)) /\ ~Queue!WouldUpdateTail(AsQueue(q), key)
  <2>1. Ordered(q) # << >> /\ Ordered(q)[Len(Ordered(q))].key = q.tail.key
    BY <1>3 DEF FirstAndLast, EntryOf
  <2> QED
    BY <1>2, <1>4, <2>1
    DEF Queue!WouldUpdateTail, Queue!IsEmpty, Queue!TailKey, Queue!Precedes, Better
<1>11. Queue!CanInsert
  <2>1. (q.listTop = NIL <=> ListStack(q) = << >>) /\ Len(q.lists) \in Nat
    BY <1>1, StackSeen
  <2> QED
    BY <1>1, <1>2, <2>1 DEF CanInsert, NextList, Queue!CanInsert
<1>12. Queue!Last(AsQueue(q).list).value = q.values[q.tail.node]
  BY <1>3, <1>4 DEF Queue!Last, FirstAndLast, EntryOf
<1>13. Queue!Done("evict", Queue!Last(AsQueue(q).list).value)
  BY <1>2, <1>3, <1>12 DEF Queue!Done
<1>14. LET longer == Queue!Insert(AsQueue(q), key, key)
       IN AsQueue(avlq') = Queue!RemoveEntry(longer, Len(longer.list))
  BY <1>5, <1>8, <1>9
<1> QED
  BY <1>10, <1>11, <1>13, <1>14 DEF Queue!InsertThenEvict, AsQueue

(* To remove by access key is to remove an entry from a queue by price     *)
(* and time.                                                               *)
LEMMA StepRemoveAny ==
  ASSUME QueueInv, RemoveAny
  PROVE  Queue!RemoveAny
<1>1. HoldsEntries(avlq, issued)
  BY DEF QueueInv
<1>2. PICK access \in issued :
        /\ avlq' = RemoveAccess(avlq, access)
        /\ done' = [operation |-> "remove", value |-> avlq.values[access.list]]
  BY DEF RemoveAny, Take, Did
<1>3. PICK k \in DOMAIN Ordered(avlq) :
        /\ Ordered(avlq)[k].value = avlq.values[access.list]
        /\ AsQueue(avlq') = Queue!RemoveEntry(AsQueue(avlq), k)
  BY <1>1, <1>2, RemoveAnyIs
<1>4. k \in DOMAIN AsQueue(avlq).list /\ Queue!Done("remove", AsQueue(avlq).list[k].value)
  BY <1>2, <1>3 DEF AsQueue, Queue!Done
<1> QED
  BY <1>3, <1>4 DEF Queue!RemoveAny, AsQueue

(* To pop an end is to remove the first or the last entry.                 *)
LEMMA StepPops ==
  ASSUME QueueInv
  PROVE  /\ PopHead => Queue!PopEnd("pop head", 1)
         /\ PopTail => Queue!PopEnd("pop tail", Len(AsQueue(avlq).list))
<1>1. HoldsEntries(avlq, issued)
  BY DEF QueueInv
<1>2. /\ Empty(avlq) <=> Ordered(avlq) = << >>
      /\ ~Empty(avlq) =>
           /\ FirstAndLast(avlq, Ordered(avlq))
           /\ HeadAccess(avlq).list = avlq.head.node /\ TailAccess(avlq).list = avlq.tail.node
           /\ AsQueue(RemoveAccess(avlq, HeadAccess(avlq))) = Queue!RemoveEntry(AsQueue(avlq), 1)
           /\ AsQueue(RemoveAccess(avlq, TailAccess(avlq)))
                = Queue!RemoveEntry(AsQueue(avlq), Len(Ordered(avlq)))
  BY <1>1, RemoveEndsIs
<1>3. AsQueue(avlq).list = Ordered(avlq)
  BY DEF AsQueue
<1>4. ~Empty(avlq) => ~Queue!IsEmpty(AsQueue(avlq))
  BY <1>2, <1>3 DEF Queue!IsEmpty
<1>5. ASSUME PopHead
      PROVE  Queue!PopEnd("pop head", 1)
  <2>1. /\ ~Empty(avlq) /\ avlq' = RemoveAccess(avlq, HeadAccess(avlq))
        /\ done' = [operation |-> "pop head", value |-> avlq.values[HeadAccess(avlq).list]]
    BY <1>5, Zenon DEF PopHead, Take, Did
  <2>2. AsQueue(avlq).list[1].value = avlq.values[avlq.head.node]
    <3>1. FirstAndLast(avlq, Ordered(avlq))
      BY <1>2, <2>1, Zenon
    <3> QED
      BY ONLY <1>3, <3>1 DEF FirstAndLast, EntryOf
  <2>3. Queue!Done("pop head", AsQueue(avlq).list[1].value)
    BY <1>2, <2>1, <2>2, Zenon DEF Queue!Done
  <2>4. AsQueue(avlq') = Queue!RemoveEntry(AsQueue(avlq), 1)
    BY <1>2, <2>1, Zenon
  <2> QED
    BY <1>4, <2>1, <2>3, <2>4, Zenon DEF Queue!PopEnd, AsQueue
<1>6. ASSUME PopTail
      PROVE  Queue!PopEnd("pop tail", Len(AsQueue(avlq).list))
  <2> DEFINE k == Len(AsQueue(avlq).list)
  <2>1. /\ ~Empty(avlq) /\ avlq' = RemoveAccess(avlq, TailAccess(avlq))
        /\ done' = [operation |-> "pop tail", value |-> avlq.values[TailAccess(avlq).list]]
    BY <1>6, Zenon DEF PopTail, Take, Did
  <2>2. AsQueue(avlq).list[k].value = avlq.values[avlq.tail.node]
    <3>1. FirstAndLast(avlq, Ordered(avlq))
      BY <1>2, <2>1, Zenon
    <3> QED
      BY ONLY <1>3, <3>1 DEF FirstAndLast, EntryOf
  <2>3. Queue!Done("pop tail", AsQueue(avlq).list[k].value)
    BY <1>2, <2>1, <2>2, Zenon DEF Queue!Done
  <2>4. AsQueue(avlq') = Queue!RemoveEntry(AsQueue(avlq), k)
    BY <1>2, <1>3, <2>1, Zenon
  <2> QED
    BY <1>4, <2>1, <2>3, <2>4, Zenon DEF Queue!PopEnd, AsQueue
<1> QED
  BY <1>5, <1>6, Zenon

(* Each step of the AVL queue is one of the queue by price and time, or    *)
(* none.                                                                   *)
LEMMA QueueRefines ==
  ASSUME QueueInv, [Next]_vars
  PROVE  [Queue!Next]_(Queue!vars)
<1> DEFINE tall == ~Empty(avlq) /\ Height(avlq.trees[avlq.root]) > CriticalHeight
           Some == \/ \E key \in Keys : Queue!InsertKey(key) \/ Queue!InsertOrEvict(key)
                                          \/ Queue!InsertThenEvict(key)
                   \/ Queue!RemoveAny
                   \/ Queue!PopEnd("pop head", 1)
                   \/ Queue!PopEnd("pop tail", Len(AsQueue(avlq).list))
<1>1. ASSUME Next
      PROVE  Some
  <2>1. CASE \E key \in Keys : InsertKey(key) \/ InsertOrEvict(key) \/ InsertThenEvict(key)
    <3>1. PICK key \in Keys : InsertKey(key) \/ InsertOrEvict(key) \/ InsertThenEvict(key)
      BY <2>1
    <3>2. Queue!InsertKey(key) \/ Queue!InsertOrEvict(key) \/ Queue!InsertThenEvict(key)
      BY <3>1, StepInsert, StepEvict, StepEvictTail
    <3> QED
      BY <3>2, Zenon
  <2>2. CASE RemoveAny
    BY <2>2, StepRemoveAny
  <2>3. CASE PopHead \/ PopTail
    BY <2>3, StepPops, Zenon
  <2> QED
    BY <1>1, <2>1, <2>2, <2>3, Zenon DEF Next
<1>2. CASE UNCHANGED vars
  BY <1>2 DEF vars, Queue!vars
<1>3. tall' \in BOOLEAN
  OBVIOUS
<1>4. Some => [Queue!Next]_(Queue!vars)
  BY <1>3, Zenon DEF Queue!Next, AsQueue
<1> QED
  BY <1>1, <1>2, <1>4, Zenon

(* The AVL queue implements the price-time queue: what it holds, in which  *)
(* order, which list nodes it uses and what each operation gives back      *)
(* follow from price and time alone, whatever the tree went through.       *)
THEOREM AVLqueueRefines == Spec => IsPriceTimeQueue
<1>1. Init => Queue!Init
  <2> SUFFICES ASSUME Init
               PROVE  Queue!Init
    OBVIOUS
  <2>1. PICK ascending \in BOOLEAN : avlq = New(ascending)
    BY DEF Init
  <2>2. done = [operation |-> "new", value |-> 0]
    BY DEF Init, NIL
  <2>3. HoldsEntries(avlq, {})
    BY <2>1, NewHolds
  <2>4. /\ Empty(avlq) /\ avlq.listTop = NIL /\ avlq.lists = << >>
        /\ avlq.ascending = ascending
    BY <2>1 DEF New, Empty, NoEnd
  <2>5. Ordered(avlq) = << >> /\ ListStack(avlq) = << >> /\ Len(avlq.lists) = 0
    BY <2>3, <2>4, RemoveEndsIs, StackSeen
  <2>6. AsQueue(avlq) = Queue!New(ascending)
    BY <2>4, <2>5 DEF AsQueue, Queue!New
  <2> QED
    BY <2>1, <2>2, <2>4, <2>6 DEF Queue!Init, AsQueue
<1>2. QueueInv /\ [Next]_vars => [Queue!Next]_(Queue!vars)
  BY QueueRefines
<1> QED
  BY <1>1, <1>2, QueueHolds, PTL DEF Spec, IsPriceTimeQueue, Queue!Spec
=============================================================================
