---------------------------- MODULE AVLtreeProofs ---------------------------
(***************************************************************************)
(* The tree of the AVL queue, of any size and for any keys: what search    *)
(* and traverse find, that rotations and retrace leave a balanced search   *)
(* tree with exact heights, and what the insertion and the removal of a    *)
(* tree node do to its keys and to the links of other nodes.               *)
(*                                                                         *)
(* A set T of tree nodes is a search tree that gives each node an interval *)
(* of keys.  Every walk is along a function, and ends because a measure    *)
(* decreases.                                                              *)
(***************************************************************************)
EXTENDS AVLqueue, CollectionProofs

-----------------------------------------------------------------------------
(* Walks end, when a measure of the nodes decreases on the way.            *)

Descending(next, m) ==
  \A i \in DOMAIN next :
    /\ m[i] \in Nat
    /\ next[i] # NIL => next[i] \in DOMAIN next /\ m[next[i]] < m[i]

(* The nodes p from i on, of which each is next to the one before.         *)
IsWay(next, i, p) ==
  /\ p \in Seq(DOMAIN next) /\ Len(p) >= 1 /\ p[1] = i
  /\ \A k \in 1..Len(p) - 1 : next[p[k]] # NIL /\ p[k + 1] = next[p[k]]
  /\ next[p[Len(p)]] = NIL

(* A way from a node goes on with the way from the next.                   *)
LEMMA WayStep ==
  ASSUME NEW next, NEW i \in DOMAIN next, next[i] # NIL, NEW p, IsWay(next, next[i], p)
  PROVE  IsWay(next, i, <<i>> \o p)
<1> DEFINE w == <<i>> \o p
<1>1. /\ p \in Seq(DOMAIN next) /\ Len(p) \in Nat /\ Len(p) >= 1 /\ DOMAIN p = 1..Len(p)
      /\ p[1] = next[i] /\ next[p[Len(p)]] = NIL
  BY DEF IsWay
<1>2. /\ w \in Seq(DOMAIN next) /\ Len(w) = Len(p) + 1 /\ w[1] = i
      /\ \A k \in 1..Len(p) : w[k + 1] = p[k]
  BY <1>1
<1> HIDE DEF w
<1>3. ASSUME NEW k \in 1..Len(w) - 1
      PROVE  next[w[k]] # NIL /\ w[k + 1] = next[w[k]]
  <2>1. CASE k = 1
    BY <2>1, <1>1, <1>2
  <2>2. CASE k # 1
    <3>1. k - 1 \in 1..Len(p) - 1 /\ (k - 1) + 1 = k /\ k \in 1..Len(p) /\ k - 1 \in 1..Len(p)
      BY <2>2, <1>1, <1>2
    <3>2. next[p[k - 1]] # NIL /\ p[(k - 1) + 1] = next[p[k - 1]]
      BY <3>1 DEF IsWay
    <3>3. w[(k - 1) + 1] = p[k - 1] /\ w[k + 1] = p[k]
      BY <3>1, <1>2
    <3> QED
      BY <3>1, <3>2, <3>3
  <2> QED
    BY <2>1, <2>2
<1>4. w[Len(w)] = p[Len(p)]
  BY <1>1, <1>2
<1>5. IsWay(next, i, w)
  BY <1>1, <1>2, <1>3, <1>4 DEF IsWay
<1> QED
  BY <1>5 DEF w

(* A way of one node, where there is no next.                              *)
LEMMA WayStop ==
  ASSUME NEW next, NEW i \in DOMAIN next, next[i] = NIL
  PROVE  IsWay(next, i, <<i>>)
BY DEF IsWay

(* There is one way from a node at most.                                   *)
LEMMA WayUnique ==
  ASSUME NEW next, NEW i, NEW p, NEW w, IsWay(next, i, p), IsWay(next, i, w)
  PROVE  p = w
<1>1. /\ p \in Seq(DOMAIN next) /\ Len(p) \in Nat /\ Len(p) >= 1 /\ DOMAIN p = 1..Len(p)
      /\ w \in Seq(DOMAIN next) /\ Len(w) \in Nat /\ Len(w) >= 1 /\ DOMAIN w = 1..Len(w)
  BY DEF IsWay
<1> DEFINE N == {k \in Nat : k \in 1..Len(p) /\ k \in 1..Len(w) /\ p[k] # w[k]}
<1>2. N = {}
  <2> SUFFICES ASSUME N # {} PROVE FALSE
    OBVIOUS
  <2>1. PICK k \in N : \A j \in N : k <= j
    <3>1. N \in SUBSET Nat
      OBVIOUS
    <3> HIDE DEF N
    <3> QED
      BY <3>1, Least
  <2>2. k # 1
    BY DEF IsWay
  <2>3. k - 1 \in Nat /\ k - 1 \in 1..Len(p) - 1 /\ k - 1 \in 1..Len(w) - 1 /\ (k - 1) + 1 = k
    BY <2>2, <1>1
  <2>4. p[k - 1] = w[k - 1]
    BY <2>1, <2>3
  <2>5. p[(k - 1) + 1] = next[p[k - 1]] /\ w[(k - 1) + 1] = next[w[k - 1]]
    BY <2>3 DEF IsWay
  <2> QED
    BY <2>3, <2>4, <2>5
<1>3. \A k \in 1..Len(p) : k \in 1..Len(w) => p[k] = w[k]
  BY <1>1, <1>2
<1>4. ~(Len(p) < Len(w))
  <2> SUFFICES ASSUME Len(p) < Len(w) PROVE FALSE
    OBVIOUS
  <2>1. Len(p) \in 1..Len(p) /\ Len(p) \in 1..Len(w) - 1 /\ Len(p) \in 1..Len(w)
    BY <1>1
  <2>2. next[w[Len(p)]] # NIL /\ next[p[Len(p)]] = NIL
    BY <2>1 DEF IsWay
  <2> QED
    BY <1>3, <2>1, <2>2
<1>5. ~(Len(w) < Len(p))
  <2> SUFFICES ASSUME Len(w) < Len(p) PROVE FALSE
    OBVIOUS
  <2>1. Len(w) \in 1..Len(w) /\ Len(w) \in 1..Len(p) - 1 /\ Len(w) \in 1..Len(p)
    BY <1>1
  <2>2. next[p[Len(w)]] # NIL /\ next[w[Len(w)]] = NIL
    BY <2>1 DEF IsWay
  <2> QED
    BY <1>3, <2>1, <2>2
<1>6. Len(p) = Len(w)
  <2>1. Len(p) \in Nat /\ Len(w) \in Nat
    BY <1>1
  <2> QED
    BY ONLY <2>1, <1>4, <1>5
<1> QED
  BY <1>1, <1>3, <1>6, SeqEqual

(* What holds of each node next to which it holds, holds of every node.    *)
LEMMA WayExists ==
  ASSUME NEW next, NEW m, Descending(next, m)
  PROVE  \A i \in DOMAIN next : \E p : IsWay(next, i, p)
<1> DEFINE N == {n \in Nat : \E i \in DOMAIN next : m[i] = n /\ ~\E p : IsWay(next, i, p)}
<1>1. N = {}
  <2> SUFFICES ASSUME N # {} PROVE FALSE
    OBVIOUS
  <2>1. PICK n \in N : \A j \in N : n <= j
    <3>1. N \in SUBSET Nat
      OBVIOUS
    <3> HIDE DEF N
    <3> QED
      BY <3>1, Least
  <2>2. PICK i \in DOMAIN next : m[i] = n /\ ~\E p : IsWay(next, i, p)
    OBVIOUS
  <2>3. next[i] # NIL
    BY <2>2, WayStop
  <2>4. next[i] \in DOMAIN next /\ m[next[i]] \in Nat /\ m[next[i]] < n
    BY <2>2, <2>3 DEF Descending
  <2>5. m[next[i]] \notin N
    BY <2>1, <2>4
  <2>6. \E p : IsWay(next, next[i], p)
    BY <2>4, <2>5
  <2> QED
    BY <2>2, <2>3, <2>6, WayStep
<1> QED
  BY <1>1 DEF Descending

PathFcn(next, f) ==
  f = [i \in DOMAIN next |-> IF next[i] = NIL THEN <<i>> ELSE <<i>> \o f[next[i]]]

(* The function by which Path is defined exists.                           *)
LEMMA PathExists ==
  ASSUME NEW next, NEW m, Descending(next, m)
  PROVE  \E f : PathFcn(next, f)
<1> DEFINE f == [i \in DOMAIN next |-> CHOOSE p : IsWay(next, i, p)]
<1>1. ASSUME NEW i \in DOMAIN next PROVE IsWay(next, i, f[i])
  BY WayExists
<1>2. ASSUME NEW i \in DOMAIN next
      PROVE  f[i] = IF next[i] = NIL THEN <<i>> ELSE <<i>> \o f[next[i]]
  <2> HIDE DEF f
  <2>1. CASE next[i] = NIL
    BY <1>1, <2>1, WayStop, WayUnique
  <2>2. CASE next[i] # NIL
    <3>1. next[i] \in DOMAIN next
      BY <2>2 DEF Descending
    <3>2. IsWay(next, i, <<i>> \o f[next[i]])
      BY <1>1, <2>2, <3>1, WayStep
    <3> QED
      BY <1>1, <2>2, <3>2, WayUnique
  <2> QED
    BY <2>1, <2>2
<1>3. PathFcn(next, f)
  BY <1>2 DEF PathFcn
<1> QED
  BY <1>3

(* A path is the way from a node.                                          *)
LEMMA PathIsWay ==
  ASSUME NEW next, NEW m, Descending(next, m), NEW id \in DOMAIN next, id # NIL
  PROVE  IsWay(next, id, Path(next, id))
<1> DEFINE f == CHOOSE g : PathFcn(next, g)
<1>1. Path(next, id) = f[id]
  BY DEF Path, PathFcn
<1>2. PathFcn(next, f)
  BY PathExists
<1> HIDE DEF f
<1>3. \A i \in DOMAIN next : f[i] = IF next[i] = NIL THEN <<i>> ELSE <<i>> \o f[next[i]]
  BY <1>2 DEF PathFcn
<1> DEFINE N == {n \in Nat : \E i \in DOMAIN next : m[i] = n /\ ~IsWay(next, i, f[i])}
<1>4. N = {}
  <2> SUFFICES ASSUME N # {} PROVE FALSE
    OBVIOUS
  <2>1. PICK n \in N : \A j \in N : n <= j
    <3>1. N \in SUBSET Nat
      OBVIOUS
    <3> HIDE DEF N
    <3> QED
      BY <3>1, Least
  <2>2. PICK i \in DOMAIN next : m[i] = n /\ ~IsWay(next, i, f[i])
    OBVIOUS
  <2>3. next[i] # NIL
    BY <1>3, <2>2, WayStop
  <2>4. next[i] \in DOMAIN next /\ m[next[i]] \in Nat /\ m[next[i]] < n
    BY <2>2, <2>3 DEF Descending
  <2>5. m[next[i]] \notin N
    BY <2>1, <2>4
  <2>6. IsWay(next, next[i], f[next[i]])
    BY <2>4, <2>5
  <2>7. IsWay(next, i, <<i>> \o f[next[i]])
    BY <2>3, <2>6, WayStep
  <2> QED
    BY <1>3, <2>2, <2>3, <2>7
<1> QED
  BY <1>1, <1>4 DEF Descending

(* A set that the next node does not leave holds the end of a way.         *)
LEMMA WayEnd ==
  ASSUME NEW next, NEW i, NEW p, IsWay(next, i, p),
         NEW P, i \in P, \A j \in P : next[j] # NIL => next[j] \in P
  PROVE  p[Len(p)] \in P
<1>1. /\ p \in Seq(DOMAIN next) /\ Len(p) \in Nat /\ Len(p) >= 1 /\ p[1] = i
  BY DEF IsWay
<1> DEFINE N == {k \in Nat : k \in 1..Len(p) /\ p[k] \notin P}
<1>2. N = {}
  <2> SUFFICES ASSUME N # {} PROVE FALSE
    OBVIOUS
  <2>1. PICK k \in N : \A j \in N : k <= j
    <3>1. N \in SUBSET Nat
      OBVIOUS
    <3> HIDE DEF N
    <3> QED
      BY <3>1, Least
  <2>2. k # 1
    BY <1>1
  <2>3. k - 1 \in Nat /\ k - 1 \in 1..Len(p) - 1 /\ (k - 1) + 1 = k
    BY <2>2, <1>1
  <2>4. p[k - 1] \in P
    BY <2>1, <2>3
  <2>5. next[p[k - 1]] # NIL /\ p[(k - 1) + 1] = next[p[k - 1]]
    BY <2>3 DEF IsWay
  <2> QED
    BY <2>3, <2>4, <2>5
<1> QED
  BY <1>1, <1>2

(* A walk ends at a node of such a set that has no next.                   *)
LEMMA PathEndIn ==
  ASSUME NEW next, NEW m, Descending(next, m), NEW id \in DOMAIN next, id # NIL,
         NEW P, id \in P, \A j \in P : next[j] # NIL => next[j] \in P
  PROVE  PathEnd(next, id) \in P /\ next[PathEnd(next, id)] = NIL
<1> DEFINE p == Path(next, id)
<1>1. IsWay(next, id, p)
  BY PathIsWay
<1>2. PathEnd(next, id) = p[Len(p)]
  BY DEF PathEnd, Last
<1> HIDE DEF p
<1>3. p[Len(p)] \in P
  BY <1>1, WayEnd
<1> QED
  BY <1>1, <1>2, <1>3 DEF IsWay

-----------------------------------------------------------------------------
(* The tree.                                                               *)

Sides == {"left", "right"}

TreeNode ==
  [key : Nat, height : [Sides -> Nat], parent : Nat, child : [Sides -> Nat],
   head : Nat, tail : Nat, next : Nat]

(* The keys that may be on a side of a node are between two bounds.        *)
Low(t, lo, i, side) == IF side = "left" THEN lo[i] ELSE t[i].key
High(t, hi, i, side) == IF side = "left" THEN t[i].key ELSE hi[i]

(* The subtree on a side of a node holds each key between its bounds.      *)
SideHolds(t, T, lo, hi, i, side) ==
  LET c == t[i].child[side]
  IN IF c = NIL
     THEN \A j \in T : ~(Low(t, lo, i, side) < t[j].key /\ t[j].key < High(t, hi, i, side))
     ELSE /\ c \in T /\ t[c].parent = i
          /\ lo[c] = Low(t, lo, i, side) /\ hi[c] = High(t, hi, i, side)

ParentHolds(t, root, T, i) ==
  LET p == t[i].parent
  IN IF p = NIL THEN i = root ELSE p \in T /\ \E s \in Sides : t[p].child[s] = i

(* The nodes T of t are a search tree, the keys of the subtree at a node i *)
(* being those between lo[i] and hi[i].                                    *)
Tree(t, root, T, lo, hi) ==
  /\ t \in Seq(TreeNode) /\ T \subseteq DOMAIN t
  /\ lo \in [Nat -> Nat] /\ hi \in [Nat -> Nat]
  /\ \A i \in T : lo[i] < t[i].key /\ t[i].key < hi[i] /\ hi[i] <= HiInsertionKey + 1
  /\ \A i \in T : \A side \in Sides : SideHolds(t, T, lo, hi, i, side)
  /\ \A i \in T : ParentHolds(t, root, T, i)
  /\ IF root = NIL THEN T = {}
     ELSE root \in T /\ t[root].parent = NIL /\ lo[root] = 0 /\ hi[root] = HiInsertionKey + 1
  /\ \A i, j \in T : t[i].key = t[j].key => i = j

(* Nodes that are not in the tree have no neighbors in it.                 *)
Idle(t, T) ==
  \A i \in DOMAIN t \ T : t[i].parent = NIL /\ \A side \in Sides : t[i].child[side] = NIL

(* The nodes of a tree, their keys and their links are of these types.     *)
LEMMA TreeTypes ==
  ASSUME NEW t, NEW root, NEW T, NEW lo, NEW hi, Tree(t, root, T, lo, hi)
  PROVE  /\ HiInsertionKey \in Nat
         /\ DOMAIN t = 1..Len(t) /\ Len(t) \in Nat /\ NIL \notin DOMAIN t
         /\ \A i \in DOMAIN t : i \in Nat /\ i # NIL /\ t[i] \in TreeNode
         /\ \A i \in T : i \in DOMAIN t
         /\ \A i \in Nat : lo[i] \in Nat /\ hi[i] \in Nat
         /\ \A i \in DOMAIN t : t[i].key \in Nat /\ t[i].parent \in Nat
         /\ \A i \in DOMAIN t : \A side \in Sides : t[i].child[side] \in Nat
<1>1. t \in Seq(TreeNode) /\ T \subseteq DOMAIN t
      /\ lo \in [Nat -> Nat] /\ hi \in [Nat -> Nat]
  BY DEF Tree
<1>2. DOMAIN t = 1..Len(t) /\ Len(t) \in Nat /\ NIL \notin DOMAIN t
  <2>1. DOMAIN t = 1..Len(t) /\ Len(t) \in Nat
    BY <1>1, LenProperties
  <2> QED
    BY <2>1 DEF NIL
<1>3. \A i \in DOMAIN t : i \in Nat /\ i # NIL /\ t[i] \in TreeNode
  <2>1. \A i \in DOMAIN t : t[i] \in TreeNode
    BY <1>1, <1>2, ElementOfSeq
  <2> QED
    BY <1>2, <2>1
<1>4. \A i \in DOMAIN t : t[i].key \in Nat /\ t[i].parent \in Nat
  BY <1>3 DEF TreeNode
<1>5. \A i \in DOMAIN t : \A side \in Sides : t[i].child[side] \in Nat
  BY <1>3 DEF TreeNode
<1> QED
  BY <1>1, <1>2, <1>3, <1>4, <1>5, QueueAssumption

(* The key of a node of the tree is between the bounds of its subtree.     *)
LEMMA NodeBounds ==
  ASSUME NEW t, NEW root, NEW T, NEW lo, NEW hi, Tree(t, root, T, lo, hi), NEW i \in T
  PROVE  /\ i \in DOMAIN t /\ i \in Nat /\ i # NIL
         /\ t[i].key \in Nat /\ lo[i] \in Nat /\ hi[i] \in Nat
         /\ lo[i] < t[i].key /\ t[i].key < hi[i] /\ hi[i] <= HiInsertionKey + 1
         /\ HiInsertionKey \in Nat
<1>1. lo[i] < t[i].key /\ t[i].key < hi[i] /\ hi[i] <= HiInsertionKey + 1
  BY DEF Tree
<1> QED
  BY <1>1, TreeTypes

(* The number of keys below a node, and above it.                          *)
Span(t, T, lo, hi) == [i \in DOMAIN t |-> IF i \in T THEN hi[i] - lo[i] ELSE 0]
Room(t, T, lo, hi) ==
  [i \in DOMAIN t |-> IF i \in T THEN HiInsertionKey + 1 - (hi[i] - lo[i]) ELSE 0]

(* A walk to a child is down, of less span.                                *)
LEMMA ChildBelow ==
  ASSUME NEW t, NEW root, NEW T, NEW lo, NEW hi, Tree(t, root, T, lo, hi),
         NEW i \in T, NEW side \in Sides, t[i].child[side] # NIL
  PROVE  /\ t[i].child[side] \in T /\ t[t[i].child[side]].parent = i
         /\ lo[t[i].child[side]] = Low(t, lo, i, side)
         /\ hi[t[i].child[side]] = High(t, hi, i, side)
         /\ hi[t[i].child[side]] - lo[t[i].child[side]] < hi[i] - lo[i]
<1> DEFINE c == t[i].child[side]
<1>1. SideHolds(t, T, lo, hi, i, side)
  BY DEF Tree
<1>2. c \in T /\ t[c].parent = i /\ lo[c] = Low(t, lo, i, side) /\ hi[c] = High(t, hi, i, side)
  BY <1>1 DEF SideHolds
<1>3. lo[i] < t[i].key /\ t[i].key < hi[i]
  BY DEF Tree
<1>4. lo[i] \in Nat /\ hi[i] \in Nat /\ t[i].key \in Nat
  BY TreeTypes
<1>5. hi[c] - lo[c] < hi[i] - lo[i]
  BY <1>2, <1>3, <1>4 DEF Low, High
<1> QED
  BY <1>2, <1>5

(* On the way down to the leftmost or rightmost node the bounds get        *)
(* closer.                                                                 *)
LEMMA DownDescending ==
  ASSUME NEW t, NEW root, NEW T, NEW lo, NEW hi, Tree(t, root, T, lo, hi), Idle(t, T),
         NEW side \in Sides
  PROVE  Descending(DownStep(t, side), Span(t, T, lo, hi))
<1> DEFINE next == DownStep(t, side)
           m == Span(t, T, lo, hi)
<1>1. ASSUME NEW i \in DOMAIN t
      PROVE  m[i] \in Nat /\ (next[i] # NIL => next[i] \in DOMAIN t /\ m[next[i]] < m[i])
  <2>1. CASE i \in T
    <3>1. lo[i] \in Nat /\ hi[i] \in Nat /\ t[i].key \in Nat
      BY TreeTypes
    <3>2. lo[i] < t[i].key /\ t[i].key < hi[i]
      BY <2>1 DEF Tree
    <3>3. m[i] = hi[i] - lo[i] /\ m[i] \in Nat
      BY <2>1, <3>1, <3>2 DEF Span
    <3>4. ASSUME t[i].child[side] # NIL
          PROVE  t[i].child[side] \in DOMAIN t /\ m[t[i].child[side]] < m[i]
      <4>1. t[i].child[side] \in T
            /\ hi[t[i].child[side]] - lo[t[i].child[side]] < hi[i] - lo[i]
        BY <2>1, <3>4, ChildBelow
      <4>2. t[i].child[side] \in DOMAIN t
        BY <4>1, TreeTypes
      <4> QED
        BY <3>3, <4>1, <4>2 DEF Span
    <3> QED
      BY <3>3, <3>4 DEF DownStep
  <2>2. CASE i \notin T
    BY <2>2 DEF Idle, Span, DownStep
  <2> QED
    BY <2>1, <2>2
<1>2. DOMAIN next = DOMAIN t
  BY DEF DownStep
<1> QED
  BY <1>1, <1>2 DEF Descending

(* A walk to the side of a key goes down as well.                          *)
LEMMA SearchDescending ==
  ASSUME NEW t, NEW root, NEW T, NEW lo, NEW hi, Tree(t, root, T, lo, hi), Idle(t, T),
         NEW key
  PROVE  Descending(SearchStep(t, key), Span(t, T, lo, hi))
<1> DEFINE next == SearchStep(t, key)
           m == Span(t, T, lo, hi)
<1>1. ASSUME NEW i \in DOMAIN t
      PROVE  m[i] \in Nat /\ (next[i] # NIL => next[i] \in DOMAIN t /\ m[next[i]] < m[i])
  <2> DEFINE side == KeySide(t[i], key)
  <2>1. side \in Sides
    BY DEF KeySide, Sides
  <2>2. Descending(DownStep(t, side), m)
    BY <2>1, DownDescending
  <2>3. DOMAIN DownStep(t, side) = DOMAIN t /\ DownStep(t, side)[i] = t[i].child[side]
    BY DEF DownStep
  <2>4. /\ m[i] \in Nat
        /\ t[i].child[side] # NIL =>
             t[i].child[side] \in DOMAIN t /\ m[t[i].child[side]] < m[i]
    BY <2>2, <2>3 DEF Descending
  <2>5. next[i] # NIL => next[i] = t[i].child[side]
    BY DEF SearchStep
  <2> HIDE DEF next, m, side
  <2> QED
    BY <2>4, <2>5
<1>2. DOMAIN next = DOMAIN t
  BY DEF SearchStep
<1> QED
  BY <1>1, <1>2 DEF Descending

(* A search finds the node with the key, or else the node without a child  *)
(* on the side where the key would be.                                     *)
Found(t, T, lo, hi, key, match) ==
  IF match.node = NIL THEN T = {} /\ match.leaf = "none"
  ELSE /\ match.node \in T
       /\ \/ match.leaf = "none" /\ t[match.node].key = key
          \/ /\ match.leaf \in Sides /\ t[match.node].child[match.leaf] = NIL
             /\ Low(t, lo, match.node, match.leaf) < key
             /\ key < High(t, hi, match.node, match.leaf)

(* What search returns, from the root down to a node with the key or to    *)
(* where it would be.                                                      *)
LEMMA SearchFinds ==
  ASSUME NEW q, NEW T, NEW lo, NEW hi, Tree(q.trees, q.root, T, lo, hi), Idle(q.trees, T),
         NEW key \in 1..HiInsertionKey
  PROVE  Found(q.trees, T, lo, hi, key, Search(q, key))
<1> DEFINE t == q.trees
           next == SearchStep(t, key)
           e == PathEnd(next, q.root)
           P == {j \in T : lo[j] < key /\ key < hi[j]}
<1>1. CASE q.root = NIL
  <2>1. T = {}
    BY <1>1 DEF Tree
  <2> QED
    BY <1>1, <2>1 DEF Found, Search, NIL
<1>2. CASE q.root # NIL
  <2>1. q.root \in T /\ lo[q.root] = 0 /\ hi[q.root] = HiInsertionKey + 1
    BY <1>2 DEF Tree
  <2>2. q.root \in P
    BY <2>1, TreeTypes
  <2>3. ASSUME NEW j \in P, next[j] # NIL PROVE next[j] \in P
    <3> DEFINE side == KeySide(t[j], key)
    <3>1. j \in DOMAIN t /\ t[j].key \in Nat
      BY TreeTypes
    <3>2. t[j].key # key /\ next[j] = t[j].child[side]
      BY <2>3, <3>1 DEF SearchStep
    <3>3. side \in Sides
      BY DEF KeySide, Sides
    <3>4. /\ t[j].child[side] \in T /\ lo[t[j].child[side]] = Low(t, lo, j, side)
          /\ hi[t[j].child[side]] = High(t, hi, j, side)
      BY <2>3, <3>2, <3>3, ChildBelow
    <3>5. Low(t, lo, j, side) < key /\ key < High(t, hi, j, side)
      BY <3>1, <3>2 DEF KeySide, Low, High
    <3> QED
      BY <3>2, <3>4, <3>5
  <2>4. Descending(next, Span(t, T, lo, hi))
    BY SearchDescending
  <2>5. q.root \in DOMAIN next
    BY <2>1, TreeTypes DEF SearchStep
  <2> HIDE DEF next, P
  <2>6. e \in P /\ next[e] = NIL
    BY <1>2, <2>2, <2>3, <2>4, <2>5, PathEndIn
  <2> USE DEF P
  <2>7. e \in T /\ lo[e] < key /\ key < hi[e] /\ e \in DOMAIN t /\ e # NIL
        /\ t[e].key \in Nat /\ lo[e] \in Nat /\ hi[e] \in Nat
    BY <2>6, TreeTypes
  <2>8. Search(q, key) =
          [node |-> e, leaf |-> IF t[e].key = key THEN "none" ELSE KeySide(t[e], key)]
    BY <1>2 DEF Search, next
  <2> HIDE DEF e
  <2>9. CASE t[e].key = key
    BY <2>7, <2>8, <2>9 DEF Found
  <2>10. CASE t[e].key # key
    <3> DEFINE side == KeySide(t[e], key)
    <3>1. side \in Sides
      BY DEF KeySide, Sides
    <3>2. t[e].child[side] = NIL
      BY <2>6, <2>7, <2>10 DEF next, SearchStep
    <3>3. Low(t, lo, e, side) < key /\ key < High(t, hi, e, side)
      BY <2>7, <2>10 DEF KeySide, Low, High
    <3> HIDE DEF side
    <3> QED
      BY <2>7, <2>8, <2>10, <3>1, <3>2, <3>3 DEF Found, side
  <2> QED
    BY <2>9, <2>10
<1> QED
  BY <1>1, <1>2

(* A walk up to the parents goes to wider subtrees.                        *)
LEMMA ParentAbove ==
  ASSUME NEW t, NEW root, NEW T, NEW lo, NEW hi, Tree(t, root, T, lo, hi),
         NEW i \in T, t[i].parent # NIL
  PROVE  /\ t[i].parent \in T
         /\ \/ /\ t[t[i].parent].child["left"] = i
               /\ lo[i] = lo[t[i].parent] /\ hi[i] = t[t[i].parent].key
            \/ /\ t[t[i].parent].child["right"] = i
               /\ lo[i] = t[t[i].parent].key /\ hi[i] = hi[t[i].parent]
         /\ hi[i] - lo[i] < hi[t[i].parent] - lo[t[i].parent]
<1> DEFINE p == t[i].parent
<1>1. p \in T /\ \E s \in Sides : t[p].child[s] = i
  BY DEF Tree, ParentHolds
<1>2. PICK s \in Sides : t[p].child[s] = i
  BY <1>1
<1>3. i # NIL
  BY TreeTypes
<1>4. lo[i] = Low(t, lo, p, s) /\ hi[i] = High(t, hi, p, s) /\ hi[i] - lo[i] < hi[p] - lo[p]
  BY <1>1, <1>2, <1>3, ChildBelow
<1> QED
  BY <1>1, <1>2, <1>4 DEF Sides, Low, High

(* On the way up the bounds get wider.                                     *)
LEMMA UpDescending ==
  ASSUME NEW t, NEW root, NEW T, NEW lo, NEW hi, Tree(t, root, T, lo, hi), Idle(t, T),
         NEW side \in Sides
  PROVE  Descending(UpStep(t, side), Room(t, T, lo, hi))
<1> DEFINE next == UpStep(t, side)
           m == Room(t, T, lo, hi)
<1>1. ASSUME NEW i \in DOMAIN t
      PROVE  m[i] \in Nat /\ (next[i] # NIL => next[i] \in DOMAIN t /\ m[next[i]] < m[i])
  <2>0. next[i] # NIL => next[i] = t[i].parent
    BY DEF UpStep
  <2>1. CASE i \in T
    <3>1. lo[i] \in Nat /\ hi[i] \in Nat /\ t[i].key \in Nat /\ HiInsertionKey \in Nat
      BY TreeTypes
    <3>2. lo[i] < t[i].key /\ t[i].key < hi[i] /\ hi[i] <= HiInsertionKey + 1
      BY <2>1 DEF Tree
    <3>3. m[i] = HiInsertionKey + 1 - (hi[i] - lo[i]) /\ m[i] \in Nat
      BY <2>1, <3>1, <3>2 DEF Room
    <3>4. ASSUME t[i].parent # NIL
          PROVE  t[i].parent \in DOMAIN t /\ m[t[i].parent] < m[i]
      <4> DEFINE p == t[i].parent
      <4>1. p \in T /\ hi[i] - lo[i] < hi[p] - lo[p]
        BY <2>1, <3>4, ParentAbove
      <4>2. p \in DOMAIN t /\ lo[p] \in Nat /\ hi[p] \in Nat
        BY <4>1, TreeTypes
      <4>3. m[p] = HiInsertionKey + 1 - (hi[p] - lo[p])
        BY <4>1, <4>2 DEF Room
      <4> HIDE DEF p, m
      <4>4. m[p] < m[i]
        BY <3>1, <3>3, <4>1, <4>2, <4>3
      <4> QED
        BY <4>2, <4>4 DEF p
    <3> HIDE DEF next, m
    <3> QED
      BY <2>0, <3>3, <3>4
  <2>2. CASE i \notin T
    <3>1. t[i].parent = NIL
      BY <2>2 DEF Idle
    <3>2. m[i] = 0
      BY <2>2 DEF Room
    <3> HIDE DEF next, m
    <3> QED
      BY <2>0, <3>1, <3>2
  <2> QED
    BY <2>1, <2>2
<1>2. DOMAIN next = DOMAIN t
  BY DEF UpStep
<1> QED
  BY <1>1, <1>2 DEF Descending

(* A node n is next to another on a side, or there is none (NIL).          *)
Neighbor(t, T, id, n, side) ==
  LET beyond(j) == IF side = "left" THEN t[j].key < t[id].key ELSE t[id].key < t[j].key
      before(j) == IF side = "left" THEN t[n].key < t[j].key ELSE t[j].key < t[n].key
  IN IF n = NIL THEN \A j \in T : ~beyond(j)
     ELSE n \in T /\ beyond(n) /\ \A j \in T : ~(beyond(j) /\ before(j))

(* The successor of a node.                                              *)
LEMMA TraverseRight ==
  ASSUME NEW t, NEW root, NEW T, NEW lo, NEW hi, Tree(t, root, T, lo, hi), Idle(t, T),
         NEW id \in T
  PROVE  Neighbor(t, T, id, Traverse(t, id, "right"), "right")
<1> DEFINE c == t[id].child["right"]
           n == Traverse(t, id, "right")
<1>0. /\ Other("right") = "left" /\ "right" \in Sides /\ "left" \in Sides
      /\ id \in DOMAIN t /\ id # NIL /\ lo[id] \in Nat /\ hi[id] \in Nat /\ t[id].key \in Nat
      /\ lo[id] < t[id].key /\ t[id].key < hi[id]
  BY NodeBounds DEF Other, Sides
<1>1. CASE c # NIL
  <2> DEFINE next == DownStep(t, "left")
             P == {j \in T : lo[j] = t[id].key /\ hi[j] <= hi[id]}
             e == PathEnd(next, c)
  <2>1. c \in P
    <3>1. c \in T /\ lo[c] = Low(t, lo, id, "right") /\ hi[c] = High(t, hi, id, "right")
      BY <1>0, <1>1, ChildBelow
    <3> QED
      BY <1>0, <3>1 DEF Low, High
  <2>2. ASSUME NEW j \in P, next[j] # NIL PROVE next[j] \in P
    <3>1. j \in DOMAIN t /\ next[j] = t[j].child["left"]
      BY TreeTypes DEF DownStep
    <3>2. /\ next[j] \in T /\ lo[next[j]] = Low(t, lo, j, "left")
          /\ hi[next[j]] = High(t, hi, j, "left")
      BY <1>0, <2>2, <3>1, ChildBelow
    <3>3. /\ lo[j] < t[j].key /\ t[j].key < hi[j] /\ lo[j] \in Nat /\ hi[j] \in Nat
          /\ t[j].key \in Nat
      BY NodeBounds
    <3> QED
      BY <1>0, <3>2, <3>3 DEF Low, High
  <2>3. Descending(next, Span(t, T, lo, hi))
    BY <1>0, DownDescending
  <2>4. c \in DOMAIN next
    BY <2>1, TreeTypes DEF DownStep
  <2> HIDE DEF next, P
  <2>5. e \in P /\ next[e] = NIL
    BY <1>1, <2>1, <2>2, <2>3, <2>4, PathEndIn
  <2>6. n = e
    BY <1>0, <1>1 DEF Traverse, Down, next
  <2> HIDE DEF e, n, c
  <2>7. e \in T /\ lo[e] = t[id].key
    BY <2>5 DEF P
  <2>8. e \in DOMAIN t /\ e # NIL /\ t[e].key \in Nat /\ lo[e] \in Nat /\ hi[e] \in Nat
        /\ lo[e] < t[e].key /\ t[e].key < hi[e]
    BY <2>7, NodeBounds
  <2>9. t[e].child["left"] = NIL
    BY <2>5, <2>8 DEF next, DownStep
  <2>10. SideHolds(t, T, lo, hi, e, "left")
    BY <1>0, <2>7 DEF Tree
  <2>11. \A j \in T : ~(lo[e] < t[j].key /\ t[j].key < t[e].key)
    BY <2>9, <2>10 DEF SideHolds, Low, High
  <2> QED
    BY <1>0, <2>6, <2>7, <2>8, <2>11 DEF Neighbor, n
<1>2. CASE c = NIL
  <2> DEFINE next == UpStep(t, "left")
             P == {j \in T : hi[j] = hi[id]}
             e == PathEnd(next, id)
  <2>1. id \in P
    OBVIOUS
  <2>2. ASSUME NEW j \in P, next[j] # NIL PROVE next[j] \in P
    <3>1. j \in DOMAIN t
      BY TreeTypes
    <3>2. next[j] = t[j].parent /\ t[t[j].parent].child["left"] # j
      BY <2>2, <3>1 DEF UpStep
    <3>3. t[j].parent \in T /\ hi[j] = hi[t[j].parent]
      BY <2>2, <3>2, ParentAbove
    <3> QED
      BY <3>2, <3>3
  <2>3. Descending(next, Room(t, T, lo, hi))
    BY <1>0, UpDescending
  <2>4. id \in DOMAIN next
    BY <1>0 DEF UpStep
  <2> HIDE DEF next, P
  <2>5. e \in P /\ next[e] = NIL
    BY <1>0, <2>1, <2>2, <2>3, <2>4, PathEndIn
  <2>6. n = t[e].parent
    BY <1>0, <1>2 DEF Traverse, Up, next
  <2> HIDE DEF e, n
  <2>7. e \in T /\ hi[e] = hi[id]
    BY <2>5 DEF P
  <2>8. e \in DOMAIN t
    BY <2>7, TreeTypes
  <2>9. SideHolds(t, T, lo, hi, id, "right")
    BY <1>0 DEF Tree
  <2>10. \A j \in T : ~(t[id].key < t[j].key /\ t[j].key < hi[id])
    BY <1>2, <2>9 DEF SideHolds, Low, High
  <2>11. CASE n = NIL
    <3>1. t[e].parent = NIL
      BY <2>6, <2>11
    <3>2. e = root /\ root # NIL
      BY <2>7, <2>8, <3>1 DEF Tree, ParentHolds
    <3>3. hi[id] = HiInsertionKey + 1
      BY <2>7, <3>2 DEF Tree
    <3>4. ASSUME NEW j \in T PROVE lo[j] < t[j].key /\ t[j].key < hi[j] /\ hi[j] <= HiInsertionKey + 1
                                   /\ t[j].key \in Nat /\ lo[j] \in Nat /\ hi[j] \in Nat
      BY NodeBounds
    <3> QED
      BY <1>0, <2>10, <2>11, <3>3, <3>4, TreeTypes DEF Neighbor, n
  <2>12. CASE n # NIL
    <3>1. t[n].child["left"] = e
      BY <2>5, <2>6, <2>8, <2>12 DEF next, UpStep
    <3>2. e # NIL
      BY <2>8, TreeTypes
    <3>3. n \in T
      BY <2>6, <2>7, <2>12, ParentAbove
    <3>4. lo[e] = Low(t, lo, n, "left") /\ hi[e] = High(t, hi, n, "left")
      BY <1>0, <3>1, <3>2, <3>3, ChildBelow
    <3>5. hi[id] = t[n].key
      BY <2>7, <3>4 DEF Low, High
    <3> QED
      BY <1>0, <2>10, <2>12, <3>3, <3>5 DEF Neighbor, n
  <2> QED
    BY <2>11, <2>12
<1> QED
  BY <1>1, <1>2

(* The predecessor of a node.                                            *)
LEMMA TraverseLeft ==
  ASSUME NEW t, NEW root, NEW T, NEW lo, NEW hi, Tree(t, root, T, lo, hi), Idle(t, T),
         NEW id \in T
  PROVE  Neighbor(t, T, id, Traverse(t, id, "left"), "left")
<1> DEFINE c == t[id].child["left"]
           n == Traverse(t, id, "left")
<1>0. /\ Other("left") = "right" /\ "left" \in Sides /\ "right" \in Sides
      /\ id \in DOMAIN t /\ id # NIL /\ lo[id] \in Nat /\ hi[id] \in Nat /\ t[id].key \in Nat
      /\ lo[id] < t[id].key /\ t[id].key < hi[id]
  BY NodeBounds DEF Other, Sides
<1>1. CASE c # NIL
  <2> DEFINE next == DownStep(t, "right")
             P == {j \in T : hi[j] = t[id].key /\ lo[id] <= lo[j]}
             e == PathEnd(next, c)
  <2>1. c \in P
    <3>1. c \in T /\ lo[c] = Low(t, lo, id, "left") /\ hi[c] = High(t, hi, id, "left")
      BY <1>0, <1>1, ChildBelow
    <3> QED
      BY <1>0, <3>1 DEF Low, High
  <2>2. ASSUME NEW j \in P, next[j] # NIL PROVE next[j] \in P
    <3>1. j \in DOMAIN t /\ next[j] = t[j].child["right"]
      BY TreeTypes DEF DownStep
    <3>2. /\ next[j] \in T /\ lo[next[j]] = Low(t, lo, j, "right")
          /\ hi[next[j]] = High(t, hi, j, "right")
      BY <1>0, <2>2, <3>1, ChildBelow
    <3>3. /\ lo[j] < t[j].key /\ t[j].key < hi[j] /\ lo[j] \in Nat /\ hi[j] \in Nat
          /\ t[j].key \in Nat
      BY NodeBounds
    <3> QED
      BY <1>0, <3>2, <3>3 DEF Low, High
  <2>3. Descending(next, Span(t, T, lo, hi))
    BY <1>0, DownDescending
  <2>4. c \in DOMAIN next
    BY <2>1, TreeTypes DEF DownStep
  <2> HIDE DEF next, P
  <2>5. e \in P /\ next[e] = NIL
    BY <1>1, <2>1, <2>2, <2>3, <2>4, PathEndIn
  <2>6. n = e
    BY <1>0, <1>1 DEF Traverse, Down, next
  <2> HIDE DEF e, n, c
  <2>7. e \in T /\ hi[e] = t[id].key
    BY <2>5 DEF P
  <2>8. e \in DOMAIN t /\ e # NIL /\ t[e].key \in Nat /\ lo[e] \in Nat /\ hi[e] \in Nat
        /\ lo[e] < t[e].key /\ t[e].key < hi[e]
    BY <2>7, NodeBounds
  <2>9. t[e].child["right"] = NIL
    BY <2>5, <2>8 DEF next, DownStep
  <2>10. SideHolds(t, T, lo, hi, e, "right")
    BY <1>0, <2>7 DEF Tree
  <2>11. \A j \in T : ~(t[e].key < t[j].key /\ t[j].key < hi[e])
    BY <2>9, <2>10 DEF SideHolds, Low, High
  <2> QED
    BY <1>0, <2>6, <2>7, <2>8, <2>11 DEF Neighbor, n
<1>2. CASE c = NIL
  <2> DEFINE next == UpStep(t, "right")
             P == {j \in T : lo[j] = lo[id]}
             e == PathEnd(next, id)
  <2>1. id \in P
    OBVIOUS
  <2>2. ASSUME NEW j \in P, next[j] # NIL PROVE next[j] \in P
    <3>1. j \in DOMAIN t
      BY TreeTypes
    <3>2. next[j] = t[j].parent /\ t[t[j].parent].child["right"] # j
      BY <2>2, <3>1 DEF UpStep
    <3>3. t[j].parent \in T /\ lo[j] = lo[t[j].parent]
      BY <2>2, <3>2, ParentAbove
    <3> QED
      BY <3>2, <3>3
  <2>3. Descending(next, Room(t, T, lo, hi))
    BY <1>0, UpDescending
  <2>4. id \in DOMAIN next
    BY <1>0 DEF UpStep
  <2> HIDE DEF next, P
  <2>5. e \in P /\ next[e] = NIL
    BY <1>0, <2>1, <2>2, <2>3, <2>4, PathEndIn
  <2>6. n = t[e].parent
    BY <1>0, <1>2 DEF Traverse, Up, next
  <2> HIDE DEF e, n
  <2>7. e \in T /\ lo[e] = lo[id]
    BY <2>5 DEF P
  <2>8. e \in DOMAIN t
    BY <2>7, TreeTypes
  <2>9. SideHolds(t, T, lo, hi, id, "left")
    BY <1>0 DEF Tree
  <2>10. \A j \in T : ~(lo[id] < t[j].key /\ t[j].key < t[id].key)
    BY <1>2, <2>9 DEF SideHolds, Low, High
  <2>11. CASE n = NIL
    <3>1. t[e].parent = NIL
      BY <2>6, <2>11
    <3>2. e = root /\ root # NIL
      BY <2>7, <2>8, <3>1 DEF Tree, ParentHolds
    <3>3. lo[id] = 0
      BY <2>7, <3>2 DEF Tree
    <3>4. ASSUME NEW j \in T PROVE lo[j] < t[j].key /\ t[j].key < hi[j] /\ hi[j] <= HiInsertionKey + 1
                                   /\ t[j].key \in Nat /\ lo[j] \in Nat /\ hi[j] \in Nat
      BY NodeBounds
    <3> QED
      BY <1>0, <2>10, <2>11, <3>3, <3>4, TreeTypes DEF Neighbor, n
  <2>12. CASE n # NIL
    <3>1. t[n].child["right"] = e
      BY <2>5, <2>6, <2>8, <2>12 DEF next, UpStep
    <3>2. e # NIL
      BY <2>8, TreeTypes
    <3>3. n \in T
      BY <2>6, <2>7, <2>12, ParentAbove
    <3>4. lo[e] = Low(t, lo, n, "right") /\ hi[e] = High(t, hi, n, "right")
      BY <1>0, <3>1, <3>2, <3>3, ChildBelow
    <3>5. lo[id] = t[n].key
      BY <2>7, <3>4 DEF Low, High
    <3> QED
      BY <1>0, <2>10, <2>12, <3>3, <3>5 DEF Neighbor, n
  <2> QED
    BY <2>11, <2>12
<1> QED
  BY <1>1, <1>2

(* What traverse returns is the node with the next key on that side, or    *)
(* NIL when there is none.                                                 *)
LEMMA TraverseFinds ==
  ASSUME NEW t, NEW root, NEW T, NEW lo, NEW hi, Tree(t, root, T, lo, hi), Idle(t, T),
         NEW id \in T, NEW side \in Sides
  PROVE  Neighbor(t, T, id, Traverse(t, id, side), side)
<1>1. CASE side = "left"
  BY <1>1, TraverseLeft
<1>2. CASE side = "right"
  BY <1>2, TraverseRight
<1> QED
  BY <1>1, <1>2 DEF Sides

-----------------------------------------------------------------------------
(* Nodes and their fields.                                                 *)

SameKept(n, r) == n.key = r.key /\ n.head = r.head /\ n.tail = r.tail /\ n.next = r.next

(* A function of which one value is another.                              *)
With(f, side, value) == [f EXCEPT ![side] = value]

(* A node n that is r but for these links and heights.                     *)
NodeIs(n, r, parent, child, height) ==
  /\ n \in TreeNode /\ SameKept(n, r) /\ n.parent = parent
  /\ \A side \in Sides : n.child[side] = child[side] /\ n.height[side] = height[side]

(* A node is what it is.                                                   *)
LEMMA NodeItself ==
  ASSUME NEW r \in TreeNode
  PROVE  NodeIs(r, r, r.parent, r.child, r.height)
BY DEF NodeIs, SameKept

(* A node with another parent.                                             *)
LEMMA NodeParent ==
  ASSUME NEW r \in TreeNode, NEW p \in Nat
  PROVE  NodeIs([r EXCEPT !.parent = p], r, p, r.child, r.height)
BY DEF NodeIs, SameKept, TreeNode

(* A node with another child on one side.                                  *)
LEMMA NodeChild ==
  ASSUME NEW r \in TreeNode, NEW side \in Sides, NEW c \in Nat
  PROVE  NodeIs([r EXCEPT !.child[side] = c], r, r.parent, With(r.child, side, c), r.height)
BY DEF NodeIs, SameKept, TreeNode, With

(* A node with another child and height on one side, and another parent.   *)
LEMMA NodeUpdate ==
  ASSUME NEW r \in TreeNode, NEW side \in Sides, NEW c \in Nat, NEW p \in Nat, NEW h \in Nat
  PROVE  NodeIs([r EXCEPT !.child[side] = c, !.parent = p, !.height[side] = h],
                r, p, With(r.child, side, c), With(r.height, side, h))
BY DEF NodeIs, SameKept, TreeNode, With

(* Setting the parent of a node, if there is one, leaves the other nodes   *)
(* alone.                                                                  *)
LEMMA SetParentIs ==
  ASSUME NEW t \in Seq(TreeNode), NEW id \in DOMAIN t \cup {NIL}, NEW p \in Nat
  PROVE  /\ SetParent(t, id, p) \in Seq(TreeNode) /\ DOMAIN SetParent(t, id, p) = DOMAIN t
         /\ Len(SetParent(t, id, p)) = Len(t)
         /\ \A i \in DOMAIN t : i # id => SetParent(t, id, p)[i] = t[i]
         /\ id # NIL => SetParent(t, id, p)[id] = [t[id] EXCEPT !.parent = p]
<1>1. CASE id = NIL
  BY <1>1 DEF SetParent
<1>2. CASE id # NIL
  <2>1. id \in DOMAIN t /\ t[id] \in TreeNode
    BY <1>2, ElementOfSeq, LenProperties
  <2>2. [t[id] EXCEPT !.parent = p] \in TreeNode
    BY <2>1, NodeParent DEF NodeIs
  <2>3. SetParent(t, id, p) = [t EXCEPT ![id] = [t[id] EXCEPT !.parent = p]]
    BY <1>2 DEF SetParent
  <2>4. [t EXCEPT ![id] = [t[id] EXCEPT !.parent = p]] \in Seq(TreeNode)
        /\ Len([t EXCEPT ![id] = [t[id] EXCEPT !.parent = p]]) = Len(t)
    BY <2>1, <2>2, ExceptSeq, LenProperties
  <2> QED
    BY <1>2, <2>1, <2>3, <2>4
<1> QED
  BY <1>1, <1>2

(* A sequence of nodes of which one, if any, got a parent.                 *)
Parented(t, id, p, u) ==
  /\ u \in Seq(TreeNode) /\ DOMAIN u = DOMAIN t /\ Len(u) = Len(t)
  /\ \A i \in DOMAIN t : i # id => u[i] = t[i]
  /\ id # NIL => NodeIs(u[id], t[id], p, t[id].child, t[id].height)

(* SetParent sets the parent, if there is a node.                          *)
LEMMA SetParented ==
  ASSUME NEW t \in Seq(TreeNode), NEW id \in DOMAIN t \cup {NIL}, NEW p \in Nat
  PROVE  Parented(t, id, p, SetParent(t, id, p))
<1>1. /\ SetParent(t, id, p) \in Seq(TreeNode) /\ DOMAIN SetParent(t, id, p) = DOMAIN t
      /\ Len(SetParent(t, id, p)) = Len(t)
      /\ \A i \in DOMAIN t : i # id => SetParent(t, id, p)[i] = t[i]
      /\ id # NIL => SetParent(t, id, p)[id] = [t[id] EXCEPT !.parent = p]
  BY SetParentIs
<1>2. id # NIL => t[id] \in TreeNode
  BY ElementOfSeq, LenProperties
<1>3. id # NIL => NodeIs([t[id] EXCEPT !.parent = p], t[id], p, t[id].child, t[id].height)
  BY <1>2, NodeParent
<1> QED
  BY <1>1, <1>3 DEF Parented

(* A sequence of nodes of which one is replaced.                           *)
LEMMA NodeSet ==
  ASSUME NEW t \in Seq(TreeNode), NEW id \in DOMAIN t, NEW n \in TreeNode
  PROVE  /\ [t EXCEPT ![id] = n] \in Seq(TreeNode)
         /\ DOMAIN [t EXCEPT ![id] = n] = DOMAIN t
         /\ Len([t EXCEPT ![id] = n]) = Len(t)
         /\ [t EXCEPT ![id] = n][id] = n
         /\ \A i \in DOMAIN t : i # id => [t EXCEPT ![id] = n][i] = t[i]
BY ExceptSeq, LenProperties

-----------------------------------------------------------------------------
(* Rotations.                                                              *)

(* A node, its child and its parent.                                       *)
FamilyOf(t, T, lo, hi, x, side) ==
  /\ Other(side) \in Sides /\ Other(side) # side /\ Other(Other(side)) = side
  /\ \A s \in Sides : s = side \/ s = Other(side)
  /\ t[x].parent # NIL =>
       /\ t[x].parent \in T /\ hi[x] - lo[x] < hi[t[x].parent] - lo[t[x].parent]
       /\ t[t[x].parent].child[ChildSide(t, t[x].parent, x)] = x
  /\ ChildSide(t, t[x].parent, x) \in Sides
  /\ t[x].child[side] # NIL =>
       /\ t[x].child[side] \in T /\ t[t[x].child[side]].parent = x
       /\ hi[t[x].child[side]] - lo[t[x].child[side]] < hi[x] - lo[x]
  /\ hi[x] \in Nat /\ lo[x] \in Nat

(* Each node of a tree and each side make such a family.                   *)
LEMMA Family ==
  ASSUME NEW t, NEW root, NEW T, NEW lo, NEW hi, Tree(t, root, T, lo, hi),
         NEW x \in T, NEW side \in Sides
  PROVE  FamilyOf(t, T, lo, hi, x, side)
<1>1. /\ Other(side) \in Sides /\ Other(side) # side /\ Other(Other(side)) = side
      /\ \A s \in Sides : s = side \/ s = Other(side)
  BY DEF Other, Sides
<1>2. ASSUME t[x].parent # NIL
      PROVE  /\ t[x].parent \in T /\ hi[x] - lo[x] < hi[t[x].parent] - lo[t[x].parent]
             /\ t[t[x].parent].child[ChildSide(t, t[x].parent, x)] = x
  <2>1. /\ t[x].parent \in T
        /\ t[t[x].parent].child["left"] = x \/ t[t[x].parent].child["right"] = x
        /\ hi[x] - lo[x] < hi[t[x].parent] - lo[t[x].parent]
    BY <1>2, ParentAbove
  <2> QED
    BY <1>2, <2>1 DEF ChildSide
<1>3. ChildSide(t, t[x].parent, x) \in Sides
  BY DEF ChildSide, Sides
<1>4. t[x].child[side] # NIL =>
              /\ t[x].child[side] \in T /\ t[t[x].child[side]].parent = x
              /\ hi[t[x].child[side]] - lo[t[x].child[side]] < hi[x] - lo[x]
  BY ChildBelow
<1> QED
  BY <1>1, <1>2, <1>3, <1>4, NodeBounds DEF FamilyOf

(* A node of one tree and of another are the same.                         *)
Same(t, u, i) == NodeIs(u[i], t[i], t[i].parent, t[i].child, t[i].height)

(* What a rotation about x, and attaching the subtree, does to the nodes.  *)
Rotates(t, root, x, side, u, newRoot) ==
  LET other == Other(side)
      z == t[x].child[side]
      c == t[z].child[other]
      p == t[x].parent
      cs == ChildSide(t, p, x)
  IN /\ u \in Seq(TreeNode) /\ Len(u) = Len(t) /\ DOMAIN u = DOMAIN t
     /\ newRoot = IF p = NIL THEN z ELSE root
     /\ NodeIs(u[x], t[x], z, With(t[x].child, side, c),
               With(t[x].height, side, t[z].height[other]))
     /\ NodeIs(u[z], t[z], p, With(t[z].child, other, x),
               With(t[z].height, other, Height(u[x]) + 1))
     /\ c # NIL => NodeIs(u[c], t[c], x, t[c].child, t[c].height)
     /\ p # NIL => NodeIs(u[p], t[p], t[p].parent, With(t[p].child, cs, z), t[p].height)
     /\ \A i \in DOMAIN t \ {x, z, c, p} : u[i] = t[i]

(* A rotation and the link to the new root of the subtree.                 *)
RotatedAt(t, root, x, side) ==
  LET r == Rotate(t, x, t[x].child[side], side)
  IN Attached(r.trees, root, t[x].parent, ChildSide(r.trees, t[x].parent, x), r.root)

(* The height of a node is that of its higher side.                        *)
LEMMA HeightType ==
  ASSUME NEW r \in TreeNode
  PROVE  /\ Height(r) \in Nat
         /\ \A side \in Sides : r.height[side] \in Nat /\ r.height[side] <= Height(r)
         /\ \E side \in Sides : r.height[side] = Height(r)
BY DEF Height, Larger, TreeNode, Sides

(* What a rotation sets: the links of x, of its child, of the subtree      *)
(* between them and of the parent, and the heights of the two.             *)
LEMMA RotateIs ==
  ASSUME NEW t, NEW root, NEW T, NEW lo, NEW hi, Tree(t, root, T, lo, hi),
         NEW x \in T, NEW side \in Sides, t[x].child[side] # NIL
  PROVE  /\ Rotates(t, root, x, side, RotatedAt(t, root, x, side).trees,
                    RotatedAt(t, root, x, side).root)
         /\ Rotate(t, x, t[x].child[side], side).root = t[x].child[side]
         /\ Rotate(t, x, t[x].child[side], side).height =
              Height(RotatedAt(t, root, x, side).trees[t[x].child[side]])
         /\ ChildSide(Rotate(t, x, t[x].child[side], side).trees, t[x].parent, x) =
              ChildSide(t, t[x].parent, x)
<1> DEFINE other == Other(side)
           z == t[x].child[side]
           c == t[z].child[other]
           p == t[x].parent
           cs == ChildSide(t, p, x)
           newX == [t[x] EXCEPT !.child[side] = c, !.parent = z, !.height[side] = t[z].height[other]]
           newZ == [t[z] EXCEPT !.child[other] = x, !.parent = p, !.height[other] = Height(newX) + 1]
           t1 == SetParent(t, c, x)
           t2 == [t1 EXCEPT ![x] = newX]
           t3 == [t2 EXCEPT ![z] = newZ]
           u == RotatedAt(t, root, x, side).trees
<1>1. /\ other \in Sides /\ cs \in Sides
      /\ z \in T /\ t[z].parent = x /\ hi[z] - lo[z] < hi[x] - lo[x]
      /\ p # NIL => p \in T /\ hi[x] - lo[x] < hi[p] - lo[p] /\ t[p].child[cs] = x
      /\ hi[x] \in Nat /\ lo[x] \in Nat
  <2>1. FamilyOf(t, T, lo, hi, x, side)
    BY Family
  <2> QED
    BY <2>1 DEF FamilyOf
<1>2. /\ c # NIL => c \in T /\ t[c].parent = z /\ hi[c] - lo[c] < hi[z] - lo[z]
      /\ hi[z] \in Nat /\ lo[z] \in Nat
  <2>1. FamilyOf(t, T, lo, hi, z, other)
    BY <1>1, Family
  <2> QED
    BY <2>1 DEF FamilyOf
<1>3. /\ p # NIL => hi[p] \in Nat /\ lo[p] \in Nat
      /\ c # NIL => hi[c] \in Nat /\ lo[c] \in Nat
  BY <1>1, <1>2, NodeBounds
<1>4. x # z /\ (c # NIL => c # x /\ c # z) /\ (p # NIL => p # x /\ p # z)
  BY <1>1, <1>2, <1>3
<1>5. c # NIL /\ p # NIL => c # p
  BY <1>1, <1>2, <1>3
<1>6. /\ t \in Seq(TreeNode) /\ x \in DOMAIN t /\ z \in DOMAIN t /\ x \in Nat /\ z \in Nat
      /\ x # NIL /\ z # NIL /\ p \in Nat /\ c \in Nat
      /\ (p # NIL => p \in DOMAIN t) /\ (c # NIL => c \in DOMAIN t)
      /\ t[x] \in TreeNode /\ t[z] \in TreeNode
      /\ (p # NIL => t[p] \in TreeNode) /\ (c # NIL => t[c] \in TreeNode)
  <2>1. t \in Seq(TreeNode)
    BY DEF Tree
  <2> QED
    BY <2>1, <1>1, <1>2, TreeTypes
<1>7. NodeIs(newX, t[x], z, With(t[x].child, side, c),
             With(t[x].height, side, t[z].height[other]))
  <2>1. t[z].height[other] \in Nat
    BY <1>1, <1>6, HeightType
  <2> QED
    BY <1>1, <1>6, <2>1, NodeUpdate, Zenon
<1>8. NodeIs(newZ, t[z], p, With(t[z].child, other, x),
             With(t[z].height, other, Height(newX) + 1))
  <2>1. newX \in TreeNode
    BY <1>7, Zenon DEF NodeIs
  <2> HIDE DEF newX
  <2>2. Height(newX) + 1 \in Nat
    BY <2>1, HeightType
  <2> QED
    BY <1>1, <1>6, <2>2, NodeUpdate, Zenon
<1>9. newX \in TreeNode /\ newZ \in TreeNode
  BY <1>7, <1>8, Zenon DEF NodeIs
<1>10. Rotate(t, x, z, side) = [trees |-> t3, root |-> z, height |-> Height(newZ)]
  BY DEF Rotate
<1> HIDE DEF newX, newZ
<1>11. /\ t1 \in Seq(TreeNode) /\ DOMAIN t1 = DOMAIN t /\ Len(t1) = Len(t)
       /\ \A i \in DOMAIN t : i # c => t1[i] = t[i]
       /\ c # NIL => NodeIs(t1[c], t[c], x, t[c].child, t[c].height)
  <2>1. c \in DOMAIN t \cup {NIL}
    BY <1>6
  <2>2. /\ t1 \in Seq(TreeNode) /\ DOMAIN t1 = DOMAIN t /\ Len(t1) = Len(t)
        /\ \A i \in DOMAIN t : i # c => t1[i] = t[i]
        /\ c # NIL => t1[c] = [t[c] EXCEPT !.parent = x]
    BY <2>1, <1>6, SetParentIs
  <2>3. c # NIL => NodeIs([t[c] EXCEPT !.parent = x], t[c], x, t[c].child, t[c].height)
    BY <1>6, NodeParent
  <2> QED
    BY <2>2, <2>3, Zenon
<1> HIDE DEF t1
<1>12. /\ t2 \in Seq(TreeNode) /\ DOMAIN t2 = DOMAIN t /\ Len(t2) = Len(t) /\ t2[x] = newX
       /\ \A i \in DOMAIN t : i # x => t2[i] = t1[i]
  BY <1>6, <1>9, <1>11, NodeSet
<1> HIDE DEF t2
<1>13. /\ t3 \in Seq(TreeNode) /\ DOMAIN t3 = DOMAIN t /\ Len(t3) = Len(t) /\ t3[z] = newZ
       /\ \A i \in DOMAIN t : i # z => t3[i] = t2[i]
  BY <1>6, <1>9, <1>12, NodeSet
<1> HIDE DEF t3
<1>14. p # NIL => t3[p] = t[p]
  BY <1>4, <1>5, <1>6, <1>11, <1>12, <1>13
<1>15. ChildSide(t3, p, x) = cs
  BY <1>14 DEF ChildSide
<1>16. RotatedAt(t, root, x, side) = Attached(t3, root, p, cs, z)
  <2> HIDE DEF cs, z, p
  <2> QED
    BY <1>10, <1>15 DEF RotatedAt, z, p
<1>17. CASE p = NIL
  <2>1. u = t3 /\ RotatedAt(t, root, x, side).root = z
    BY <1>16, <1>17 DEF Attached
  <2> HIDE DEF u
  <2>2. u[x] = newX /\ u[z] = newZ
    BY <1>4, <1>6, <1>12, <1>13, <2>1
  <2>3. c # NIL => u[c] = t1[c]
    BY <1>4, <1>6, <1>12, <1>13, <2>1
  <2>4. \A i \in DOMAIN t \ {x, z, c, p} : u[i] = t[i]
    BY <1>6, <1>11, <1>12, <1>13, <2>1
  <2>5. u \in Seq(TreeNode) /\ Len(u) = Len(t) /\ DOMAIN u = DOMAIN t
    BY <1>13, <2>1
  <2>6. Rotates(t, root, x, side, u, z)
    BY <1>17, <2>2, <2>3, <2>4, <2>5, <1>7, <1>8, <1>11, Zenon DEF Rotates
  <2> QED
    BY <2>1, <2>2, <2>6, <1>10, <1>15 DEF u
<1>18. CASE p # NIL
  <2>1. /\ u = [t3 EXCEPT ![p].child[cs] = z]
        /\ RotatedAt(t, root, x, side).root = root
    BY <1>16, <1>18 DEF Attached
  <2> DEFINE newP == [t[p] EXCEPT !.child[cs] = z]
  <2>2. u = [t3 EXCEPT ![p] = newP]
    BY <2>1, <1>14, <1>18, <1>13, <1>6
  <2>3. NodeIs(newP, t[p], t[p].parent, With(t[p].child, cs, z), t[p].height)
    BY <1>1, <1>6, <1>18, NodeChild
  <2>4. newP \in TreeNode
    BY <2>3 DEF NodeIs
  <2> HIDE DEF u, newP
  <2>5. /\ u \in Seq(TreeNode) /\ DOMAIN u = DOMAIN t /\ Len(u) = Len(t) /\ u[p] = newP
        /\ \A i \in DOMAIN t : i # p => u[i] = t3[i]
    BY <1>6, <1>13, <1>18, <2>2, <2>4, NodeSet
  <2>6. u[x] = newX /\ u[z] = newZ
    BY <1>4, <1>6, <1>12, <1>13, <2>5, <1>18
  <2>7. c # NIL => u[c] = t1[c]
    BY <1>4, <1>5, <1>6, <1>12, <1>13, <2>5, <1>18
  <2>8. \A i \in DOMAIN t \ {x, z, c, p} : u[i] = t[i]
    BY <1>6, <1>11, <1>12, <1>13, <2>5
  <2>9. Rotates(t, root, x, side, u, root)
    BY <1>18, <2>5, <2>6, <2>7, <2>8, <2>3, <1>7, <1>8, <1>11, Zenon DEF Rotates
  <2> QED
    BY <2>1, <2>6, <2>9, <1>10, <1>15 DEF u
<1> QED
  BY <1>17, <1>18

RotLo(t, lo, x, z, side) ==
  IF side = "left" THEN [lo EXCEPT ![x] = t[z].key] ELSE [lo EXCEPT ![z] = lo[x]]
RotHi(t, hi, x, z, side) ==
  IF side = "left" THEN [hi EXCEPT ![z] = hi[x]] ELSE [hi EXCEPT ![x] = t[z].key]

(* The bounds of the subtrees that a rotation moves.                       *)
RotBounds(t, u, lo, hi, lo2, hi2, x, z, side) ==
  LET other == Other(side)
  IN /\ lo2 \in [Nat -> Nat] /\ hi2 \in [Nat -> Nat]
     /\ Low(u, lo2, x, side) = Low(t, lo, z, other)
     /\ High(u, hi2, x, side) = High(t, hi, z, other)
     /\ Low(u, lo2, x, other) = Low(t, lo, x, other)
     /\ High(u, hi2, x, other) = High(t, hi, x, other)
     /\ Low(u, lo2, z, side) = Low(t, lo, z, side)
     /\ High(u, hi2, z, side) = High(t, hi, z, side)
     /\ lo2[x] = Low(u, lo2, z, other) /\ hi2[x] = High(u, hi2, z, other)
     /\ lo2[z] = lo[x] /\ hi2[z] = hi[x]
     /\ lo2[x] < t[x].key /\ t[x].key < hi2[x] /\ hi2[x] <= HiInsertionKey + 1
     /\ lo2[z] < t[z].key /\ t[z].key < hi2[z] /\ hi2[z] <= HiInsertionKey + 1
     /\ \A i \in Nat : i # x /\ i # z => lo2[i] = lo[i] /\ hi2[i] = hi[i]

(* The bounds after a rotation are such bounds.                            *)
LEMMA RotBoundsHold ==
  ASSUME NEW t, NEW root, NEW T, NEW lo, NEW hi, Tree(t, root, T, lo, hi),
         NEW x \in T, NEW side \in Sides, t[x].child[side] # NIL,
         NEW z, z = t[x].child[side],
         NEW u, u[x].key = t[x].key, u[z].key = t[z].key
  PROVE  RotBounds(t, u, lo, hi, RotLo(t, lo, x, z, side), RotHi(t, hi, x, z, side), x, z, side)
<1> DEFINE lo2 == RotLo(t, lo, x, z, side)
           hi2 == RotHi(t, hi, x, z, side)
<1>1. z \in T /\ lo[z] = Low(t, lo, x, side) /\ hi[z] = High(t, hi, x, side)
  BY ChildBelow
<1>2. /\ x \in Nat /\ z \in Nat
      /\ lo[x] \in Nat /\ hi[x] \in Nat /\ t[x].key \in Nat
      /\ lo[z] \in Nat /\ hi[z] \in Nat /\ t[z].key \in Nat /\ HiInsertionKey \in Nat
      /\ lo[x] < t[x].key /\ t[x].key < hi[x] /\ hi[x] <= HiInsertionKey + 1
      /\ lo[z] < t[z].key /\ t[z].key < hi[z] /\ hi[z] <= HiInsertionKey + 1
  BY <1>1, NodeBounds
<1>3. lo \in [Nat -> Nat] /\ hi \in [Nat -> Nat]
  BY DEF Tree
<1>4. x # z
  BY <1>1, <1>2 DEF Low, High
<1>5. CASE side = "left"
  <2>1. lo2 = [lo EXCEPT ![x] = t[z].key] /\ hi2 = [hi EXCEPT ![z] = hi[x]]
    BY <1>5 DEF RotLo, RotHi
  <2> HIDE DEF lo2, hi2
  <2>2. /\ lo2 \in [Nat -> Nat] /\ hi2 \in [Nat -> Nat]
        /\ lo2[x] = t[z].key /\ hi2[x] = hi[x] /\ lo2[z] = lo[z] /\ hi2[z] = hi[x]
        /\ \A i \in Nat : i # x /\ i # z => lo2[i] = lo[i] /\ hi2[i] = hi[i]
    BY <2>1, <1>2, <1>3, <1>4
  <2>3. lo[z] = lo[x] /\ hi[z] = t[x].key
    BY <1>1, <1>5 DEF Low, High
  <2>4. RotBounds(t, u, lo, hi, lo2, hi2, x, z, side)
    BY <2>2, <2>3, <1>2, <1>5 DEF RotBounds, Low, High, Other
  <2> QED
    BY <2>4 DEF lo2, hi2
<1>6. CASE side = "right"
  <2>1. lo2 = [lo EXCEPT ![z] = lo[x]] /\ hi2 = [hi EXCEPT ![x] = t[z].key]
    BY <1>6 DEF RotLo, RotHi
  <2> HIDE DEF lo2, hi2
  <2>2. /\ lo2 \in [Nat -> Nat] /\ hi2 \in [Nat -> Nat]
        /\ lo2[x] = lo[x] /\ hi2[x] = t[z].key /\ lo2[z] = lo[x] /\ hi2[z] = hi[z]
        /\ \A i \in Nat : i # x /\ i # z => lo2[i] = lo[i] /\ hi2[i] = hi[i]
    BY <2>1, <1>2, <1>3, <1>4
  <2>3. hi[z] = hi[x] /\ lo[z] = t[x].key
    BY <1>1, <1>6 DEF Low, High
  <2>4. RotBounds(t, u, lo, hi, lo2, hi2, x, z, side)
    BY <2>2, <2>3, <1>2, <1>6 DEF RotBounds, Low, High, Other
  <2> QED
    BY <2>4 DEF lo2, hi2
<1> QED
  BY <1>5, <1>6 DEF Sides

(* The keys of all nodes stay.                                             *)
LEMMA RotatesKept ==
  ASSUME NEW t \in Seq(TreeNode), NEW root, NEW x \in DOMAIN t, NEW side, NEW u, NEW newRoot,
         Rotates(t, root, x, side, u, newRoot)
  PROVE  \A i \in DOMAIN t : u[i] \in TreeNode /\ SameKept(u[i], t[i])
<1> SUFFICES ASSUME NEW i \in DOMAIN t
             PROVE  u[i] \in TreeNode /\ SameKept(u[i], t[i])
  OBVIOUS
<1> DEFINE z == t[x].child[side]
           c == t[z].child[Other(side)]
           p == t[x].parent
<1>1. CASE i = x
  BY <1>1, ZenonT(40) DEF Rotates, NodeIs
<1>2. CASE i = z
  BY <1>2 DEF Rotates, NodeIs
<1>3. NIL \notin DOMAIN t
  BY LenProperties DEF NIL
<1>4. CASE i = c
  BY <1>3, <1>4, Zenon DEF Rotates, NodeIs
<1>5. CASE i = p
  BY <1>3, <1>5, Zenon DEF Rotates, NodeIs
<1>6. CASE i \in DOMAIN t \ {x, z, c, p}
  <2>1. u[i] = t[i] /\ t[i] \in TreeNode
    BY <1>6, ElementOfSeq, LenProperties, Zenon DEF Rotates
  <2> QED
    BY <2>1 DEF SameKept
<1> QED
  BY <1>1, <1>2, <1>4, <1>5, <1>6

(* A node of which the child on one side is another.                       *)
ChildWith(n, r, side, c) ==
  n.child[side] = c /\ \A s \in Sides : s # side => n.child[s] = r.child[s]

(* Setting one child leaves the other.                                     *)
LEMMA ChildIs ==
  ASSUME NEW n, NEW r \in TreeNode, NEW side \in Sides, NEW c, NEW p, NEW h,
         NodeIs(n, r, p, With(r.child, side, c), h)
  PROVE  ChildWith(n, r, side, c)
<1>1. r.child \in [Sides -> Nat]
  BY DEF TreeNode
<1>2. \A s \in Sides : n.child[s] = [r.child EXCEPT ![side] = c][s]
  BY DEF NodeIs, With
<1> QED
  BY <1>1, <1>2 DEF ChildWith

(* A rotation keeps the tree.                                              *)
LEMMA RotatesTree ==
  ASSUME NEW t, NEW root, NEW T, NEW lo, NEW hi, Tree(t, root, T, lo, hi),
         NEW x \in T, NEW side \in Sides, t[x].child[side] # NIL,
         NEW u, NEW newRoot, Rotates(t, root, x, side, u, newRoot)
  PROVE  Tree(u, newRoot, T, RotLo(t, lo, x, t[x].child[side], side),
              RotHi(t, hi, x, t[x].child[side], side))
<1> DEFINE other == Other(side)
           z == t[x].child[side]
           c == t[z].child[other]
           p == t[x].parent
           cs == ChildSide(t, p, x)
           lo2 == RotLo(t, lo, x, z, side)
           hi2 == RotHi(t, hi, x, z, side)
<1>1. /\ other \in Sides /\ other # side /\ cs \in Sides
      /\ \A s \in Sides : s = side \/ s = other
      /\ z \in T /\ t[z].parent = x /\ hi[z] - lo[z] < hi[x] - lo[x]
      /\ p # NIL => p \in T /\ hi[x] - lo[x] < hi[p] - lo[p] /\ t[p].child[cs] = x
      /\ hi[x] \in Nat /\ lo[x] \in Nat
  <2>1. FamilyOf(t, T, lo, hi, x, side)
    BY Family
  <2> QED
    BY <2>1 DEF FamilyOf
<1>2. /\ c # NIL => c \in T /\ t[c].parent = z /\ hi[c] - lo[c] < hi[z] - lo[z]
      /\ hi[z] \in Nat /\ lo[z] \in Nat
  <2>1. FamilyOf(t, T, lo, hi, z, other)
    BY <1>1, Family
  <2> QED
    BY <2>1 DEF FamilyOf
<1>3. /\ p # NIL => hi[p] \in Nat /\ lo[p] \in Nat
      /\ c # NIL => hi[c] \in Nat /\ lo[c] \in Nat
  BY <1>1, <1>2, NodeBounds
<1>4. /\ x # z /\ (c # NIL => c # x /\ c # z) /\ (p # NIL => p # x /\ p # z)
      /\ (c # NIL /\ p # NIL => c # p)
  BY <1>1, <1>2, <1>3
<1>5. /\ t \in Seq(TreeNode) /\ T \subseteq DOMAIN t /\ x \in DOMAIN t /\ NIL \notin DOMAIN t
      /\ T \subseteq Nat /\ x # NIL /\ z # NIL
  <2>1. t \in Seq(TreeNode)
    BY DEF Tree
  <2> QED
    BY <2>1, TreeTypes
<1>6. \A i \in DOMAIN t : u[i] \in TreeNode /\ u[i].key = t[i].key
  <2>1. \A i \in DOMAIN t : u[i] \in TreeNode /\ SameKept(u[i], t[i])
    BY <1>5, RotatesKept
  <2> QED
    BY <2>1 DEF SameKept
<1>7. RotBounds(t, u, lo, hi, lo2, hi2, x, z, side)
  <2>1. u[x].key = t[x].key /\ u[z].key = t[z].key
    BY <1>1, <1>5, <1>6
  <2> QED
    BY <2>1, RotBoundsHold
<1>8. /\ u[x].parent = z /\ u[z].parent = p /\ (c # NIL => u[c].parent = x)
      /\ \A i \in T : i # x /\ i # z /\ i # c => u[i].parent = t[i].parent
  <2>1. /\ u[x].parent = z /\ u[z].parent = p /\ (c # NIL => u[c].parent = x)
        /\ (p # NIL => u[p].parent = t[p].parent)
        /\ \A i \in DOMAIN t \ {x, z, c, p} : u[i] = t[i]
    BY ZenonT(40) DEF Rotates, NodeIs
  <2> QED
    BY <2>1, <1>5
<1>9. /\ u[x].child[side] = c /\ u[x].child[other] = t[x].child[other]
      /\ u[z].child[other] = x /\ u[z].child[side] = t[z].child[side]
      /\ p # NIL => u[p].child[cs] = z
      /\ p # NIL => \A s \in Sides : s # cs => u[p].child[s] = t[p].child[s]
      /\ \A i \in T : i # x /\ i # z /\ i # p => \A s \in Sides : u[i].child[s] = t[i].child[s]
  <2>1. t[x] \in TreeNode /\ t[z] \in TreeNode /\ (p # NIL => t[p] \in TreeNode)
    BY <1>1, TreeTypes
  <2>2. /\ u[x].child[side] = c /\ u[x].child[other] = t[x].child[other]
        /\ u[z].child[other] = x /\ u[z].child[side] = t[z].child[side]
    <3>1. NodeIs(u[x], t[x], z, With(t[x].child, side, c),
                 With(t[x].height, side, t[z].height[other]))
      BY Zenon DEF Rotates
    <3>2. NodeIs(u[z], t[z], p, With(t[z].child, other, x),
                 With(t[z].height, other, Height(u[x]) + 1))
      BY Zenon DEF Rotates
    <3>3. ChildWith(u[x], t[x], side, c)
      BY <2>1, <3>1, ChildIs
    <3>4. ChildWith(u[z], t[z], other, x)
      BY <2>1, <1>1, <3>2, ChildIs, Zenon
    <3> QED
      BY <1>1, <3>3, <3>4 DEF ChildWith
  <2>3. ASSUME p # NIL
        PROVE  u[p].child[cs] = z /\ \A s \in Sides : s # cs => u[p].child[s] = t[p].child[s]
    <3>1. NodeIs(u[p], t[p], t[p].parent, With(t[p].child, cs, z), t[p].height)
      BY <2>3, Zenon DEF Rotates
    <3>2. ChildWith(u[p], t[p], cs, z)
      BY <2>1, <2>3, <1>1, <3>1, ChildIs, Zenon
    <3> QED
      BY <3>2 DEF ChildWith
  <2>5. c # NIL => \A s \in Sides : u[c].child[s] = t[c].child[s]
    BY Zenon DEF Rotates, NodeIs
  <2>6. \A i \in DOMAIN t \ {x, z, c, p} : u[i] = t[i]
    BY Zenon DEF Rotates
  <2> QED
    BY <2>2, <2>3, <2>5, <2>6, <1>5
<1>10. newRoot = IF p = NIL THEN z ELSE root
  BY Zenon DEF Rotates
<1>11. u \in Seq(TreeNode) /\ T \subseteq DOMAIN u
  BY <1>5, Zenon DEF Rotates
<1>12. \A i \in T : \A s \in Sides : SideHolds(t, T, lo, hi, i, s)
  BY DEF Tree
<1>13. x \in Nat /\ z \in Nat /\ x \in DOMAIN t /\ z \in DOMAIN t
  BY <1>1, <1>5
<1>14. ASSUME NEW i \in T, NEW s \in Sides,
              ~(i = x /\ s = side), ~(i = z /\ s = other), ~(i = p /\ s = cs)
       PROVE  SideHolds(u, T, lo2, hi2, i, s)
  <2>1. Low(u, lo2, i, s) = Low(t, lo, i, s) /\ High(u, hi2, i, s) = High(t, hi, i, s)
    <3>1. CASE i = x
      BY <1>1, <1>7, <1>14, <3>1 DEF RotBounds
    <3>2. CASE i = z
      BY <1>1, <1>7, <1>14, <3>2 DEF RotBounds
    <3>3. CASE i # x /\ i # z
      <4>1. lo2[i] = lo[i] /\ hi2[i] = hi[i] /\ u[i].key = t[i].key
        BY <1>5, <1>6, <1>7, <3>3 DEF RotBounds
      <4> QED
        BY <4>1 DEF Low, High
    <3> QED
      BY <3>1, <3>2, <3>3
  <2>2. u[i].child[s] = t[i].child[s]
    <3>1. CASE i = x
      BY <1>1, <1>9, <1>14, <3>1
    <3>2. CASE i = z
      BY <1>1, <1>9, <1>14, <3>2
    <3>3. CASE i = p
      BY <1>1, <1>5, <1>9, <1>14, <3>3
    <3>4. CASE i # x /\ i # z /\ i # p
      BY <1>9, <3>4
    <3> QED
      BY <3>1, <3>2, <3>3, <3>4
  <2> DEFINE k == t[i].child[s]
  <2>3. SideHolds(t, T, lo, hi, i, s)
    BY <1>12
  <2>4. CASE k = NIL
    <3>1. \A j \in T : u[j].key = t[j].key
      BY <1>5, <1>6
    <3> QED
      BY <2>1, <2>2, <2>3, <2>4, <3>1 DEF SideHolds
  <2>5. CASE k # NIL
    <3>1. k \in T /\ t[k].parent = i /\ lo[k] = Low(t, lo, i, s) /\ hi[k] = High(t, hi, i, s)
      BY <2>3, <2>5 DEF SideHolds
    <3>2. k # x
      <4> SUFFICES ASSUME k = x PROVE FALSE
        OBVIOUS
      <4>1. p = i /\ s # cs /\ i # NIL
        BY <1>5, <1>14, <3>1
      <4>2. t[p].child[cs] = x /\ p \in T
        BY <1>1, <4>1
      <4>3. SideHolds(t, T, lo, hi, p, cs)
        BY <1>1, <1>12, <4>2
      <4>4. lo[x] = Low(t, lo, p, cs) /\ hi[x] = High(t, hi, p, cs)
        BY <4>2, <4>3, <1>5 DEF SideHolds
      <4>5. lo[x] = Low(t, lo, p, s) /\ hi[x] = High(t, hi, p, s)
        BY <3>1, <4>1
      <4>6. lo[p] < t[p].key /\ t[p].key < hi[p] /\ lo[p] \in Nat /\ hi[p] \in Nat /\ t[p].key \in Nat
        BY <4>2, NodeBounds
      <4> QED
        BY <1>1, <4>1, <4>4, <4>5, <4>6 DEF Low, High, Sides
    <3>3. k # z
      <4> SUFFICES ASSUME k = z PROVE FALSE
        OBVIOUS
      <4>1. i = x /\ s = other
        BY <1>1, <1>14, <3>1
      <4>2. SideHolds(t, T, lo, hi, x, side)
        BY <1>12
      <4>3. lo[z] = Low(t, lo, x, side) /\ hi[z] = High(t, hi, x, side)
        BY <4>2, <1>5 DEF SideHolds
      <4>4. lo[z] = Low(t, lo, x, other) /\ hi[z] = High(t, hi, x, other)
        BY <3>1, <4>1
      <4>5. lo[x] < t[x].key /\ t[x].key < hi[x] /\ lo[x] \in Nat /\ hi[x] \in Nat /\ t[x].key \in Nat
        BY NodeBounds
      <4> QED
        BY <1>1, <4>3, <4>4, <4>5 DEF Low, High, Sides
    <3>4. k # c
      <4> SUFFICES ASSUME k = c PROVE FALSE
        OBVIOUS
      <4>1. i = z /\ s = side
        BY <1>1, <1>2, <1>14, <2>5, <3>1
      <4>2. SideHolds(t, T, lo, hi, z, other)
        BY <1>1, <1>12
      <4>3. lo[c] = Low(t, lo, z, other) /\ hi[c] = High(t, hi, z, other)
        BY <4>2, <2>5 DEF SideHolds
      <4>4. lo[c] = Low(t, lo, z, side) /\ hi[c] = High(t, hi, z, side)
        BY <3>1, <4>1
      <4>5. lo[z] < t[z].key /\ t[z].key < hi[z] /\ lo[z] \in Nat /\ hi[z] \in Nat /\ t[z].key \in Nat
        BY <1>1, NodeBounds
      <4> QED
        BY <1>1, <4>3, <4>4, <4>5 DEF Low, High, Sides
    <3>5. u[k].parent = i /\ lo2[k] = lo[k] /\ hi2[k] = hi[k]
      BY <1>5, <1>7, <1>8, <3>1, <3>2, <3>3, <3>4 DEF RotBounds
    <3> QED
      BY <2>1, <2>2, <2>5, <3>1, <3>5 DEF SideHolds
  <2> QED
    BY <2>4, <2>5
<1>15. SideHolds(u, T, lo2, hi2, x, side)
  <2>1. SideHolds(t, T, lo, hi, z, other)
    BY <1>1, <1>12
  <2>2. Low(u, lo2, x, side) = Low(t, lo, z, other) /\ High(u, hi2, x, side) = High(t, hi, z, other)
    BY <1>7 DEF RotBounds
  <2>3. CASE c = NIL
    <3>1. \A j \in T : u[j].key = t[j].key
      BY <1>5, <1>6
    <3> QED
      BY <1>9, <2>1, <2>2, <2>3, <3>1 DEF SideHolds
  <2>4. CASE c # NIL
    <3>1. c \in T /\ lo[c] = Low(t, lo, z, other) /\ hi[c] = High(t, hi, z, other)
      BY <2>1, <2>4 DEF SideHolds
    <3>2. lo2[c] = lo[c] /\ hi2[c] = hi[c]
      BY <1>4, <1>5, <1>7, <2>4, <3>1 DEF RotBounds
    <3> QED
      BY <1>8, <1>9, <2>2, <2>4, <3>1, <3>2, Zenon DEF SideHolds
  <2> QED
    BY <2>3, <2>4
<1>16. SideHolds(u, T, lo2, hi2, z, other)
  <2>1. lo2[x] = Low(u, lo2, z, other) /\ hi2[x] = High(u, hi2, z, other)
    BY <1>7 DEF RotBounds
  <2> QED
    BY <1>5, <1>8, <1>9, <2>1 DEF SideHolds
<1>17. ASSUME p # NIL PROVE SideHolds(u, T, lo2, hi2, p, cs)
  <2>1. SideHolds(t, T, lo, hi, p, cs)
    BY <1>1, <1>12, <1>17
  <2>2. lo[x] = Low(t, lo, p, cs) /\ hi[x] = High(t, hi, p, cs)
    BY <1>1, <1>5, <1>17, <2>1 DEF SideHolds
  <2>3. lo2[p] = lo[p] /\ hi2[p] = hi[p] /\ u[p].key = t[p].key
    BY <1>1, <1>4, <1>5, <1>6, <1>7, <1>17 DEF RotBounds
  <2>4. lo2[z] = Low(u, lo2, p, cs) /\ hi2[z] = High(u, hi2, p, cs)
    BY <2>2, <2>3, <1>7 DEF RotBounds, Low, High
  <2> QED
    BY <1>1, <1>5, <1>8, <1>9, <1>17, <2>4 DEF SideHolds
<1>18. ASSUME NEW i \in T, NEW s \in Sides
       PROVE  SideHolds(u, T, lo2, hi2, i, s)
  <2>1. i # NIL
    BY <1>5
  <2> QED
    BY <1>14, <1>15, <1>16, <1>17, <2>1
<1>19. ASSUME NEW i \in T
       PROVE  lo2[i] < u[i].key /\ u[i].key < hi2[i] /\ hi2[i] <= HiInsertionKey + 1
  <2>1. u[i].key = t[i].key
    BY <1>5, <1>6
  <2>2. CASE i = x \/ i = z
    BY <1>7, <2>1, <2>2 DEF RotBounds
  <2>3. CASE i # x /\ i # z
    <3>1. lo2[i] = lo[i] /\ hi2[i] = hi[i]
      BY <1>5, <1>7, <2>3 DEF RotBounds
    <3>2. lo[i] < t[i].key /\ t[i].key < hi[i] /\ hi[i] <= HiInsertionKey + 1
      BY DEF Tree
    <3> QED
      BY <2>1, <3>1, <3>2
  <2> QED
    BY <2>2, <2>3
<1>20. ASSUME NEW i \in T PROVE ParentHolds(u, newRoot, T, i)
  <2>1. \A j \in T : ParentHolds(t, root, T, j)
    BY DEF Tree
  <2>2. CASE i = x
    BY <1>1, <1>5, <1>8, <1>9, <2>2 DEF ParentHolds
  <2>3. CASE i = z
    BY <1>1, <1>8, <1>9, <1>10, <2>3, Zenon DEF ParentHolds
  <2>4. CASE i = c
    BY <1>2, <1>5, <1>8, <1>9, <2>4, Zenon DEF ParentHolds
  <2>5. CASE i # x /\ i # z /\ i # c
    <3>1. u[i].parent = t[i].parent
      BY <1>8, <2>5
    <3>2. CASE t[i].parent = NIL
      <4>1. i = root /\ p # NIL
        BY <2>1, <2>5, <3>2 DEF ParentHolds
      <4> QED
        BY <1>10, <3>1, <3>2, <4>1 DEF ParentHolds
    <3>3. CASE t[i].parent # NIL
      <4> DEFINE k == t[i].parent
      <4>1. k \in T /\ \E s \in Sides : t[k].child[s] = i
        BY <2>1, <3>3 DEF ParentHolds
      <4>2. PICK s \in Sides : t[k].child[s] = i
        BY <4>1
      <4>3. ~(k = x /\ s = side) /\ ~(k = z /\ s = other) /\ ~(k = p /\ s = cs)
        BY <1>1, <2>5, <3>3, <4>2
      <4>4. u[k].child[s] = t[k].child[s]
        <5> HIDE DEF k
        <5>1. CASE k = x
          BY <1>1, <1>9, <4>3, <5>1
        <5>2. CASE k = z
          BY <1>1, <1>9, <4>3, <5>2
        <5>3. CASE k = p
          BY <1>1, <1>5, <1>9, <4>1, <4>3, <5>3
        <5>4. CASE k # x /\ k # z /\ k # p
          BY <1>9, <4>1, <5>4
        <5> QED
          BY <5>1, <5>2, <5>3, <5>4
      <4> HIDE DEF k
      <4>5. u[k].child[s] = i
        BY <4>2, <4>4
      <4> QED
        BY <3>1, <3>3, <4>1, <4>5 DEF ParentHolds, k
    <3> QED
      BY <3>2, <3>3
  <2> QED
    BY <2>2, <2>3, <2>4, <2>5
<1>21. newRoot # NIL /\ newRoot \in T /\ u[newRoot].parent = NIL
       /\ lo2[newRoot] = 0 /\ hi2[newRoot] = HiInsertionKey + 1
  <2>1. root # NIL /\ root \in T /\ t[root].parent = NIL
        /\ lo[root] = 0 /\ hi[root] = HiInsertionKey + 1
    BY DEF Tree
  <2>2. \A j \in T : ParentHolds(t, root, T, j)
    BY DEF Tree
  <2>3. CASE p = NIL
    <3>1. x = root
      BY <2>2, <2>3 DEF ParentHolds
    <3>2. lo2[z] = lo[x] /\ hi2[z] = hi[x]
      BY <1>7 DEF RotBounds
    <3> QED
      BY <1>1, <1>5, <1>8, <1>10, <2>1, <2>3, <3>1, <3>2
  <2>4. CASE p # NIL
    <3>1. root # x /\ root # z /\ root # c
      BY <1>1, <1>2, <1>5, <2>1, <2>4
    <3>2. lo2[root] = lo[root] /\ hi2[root] = hi[root]
      BY <1>5, <1>7, <2>1, <3>1 DEF RotBounds
    <3> QED
      BY <1>8, <1>10, <2>1, <2>4, <3>1, <3>2
  <2> QED
    BY <2>3, <2>4
<1>22. \A i, j \in T : u[i].key = u[j].key => i = j
  <2>1. \A i, j \in T : t[i].key = t[j].key => i = j
    BY DEF Tree
  <2> QED
    BY <1>5, <1>6, <2>1
<1>23. lo2 \in [Nat -> Nat] /\ hi2 \in [Nat -> Nat]
  BY <1>7 DEF RotBounds
<1> HIDE DEF lo2, hi2
<1>24. Tree(u, newRoot, T, lo2, hi2)
  BY <1>11, <1>18, <1>19, <1>20, <1>21, <1>22, <1>23, Zenon DEF Tree
<1> QED
  BY <1>24 DEF lo2, hi2

(* The links of a tree after a rotation.                                   *)
RotLinks(t, root, x, side, u, newRoot) ==
  LET other == Other(side)
      z == t[x].child[side]
      c == t[z].child[other]
      p == t[x].parent
      cs == ChildSide(t, p, x)
  IN /\ u[x].parent = z /\ u[z].parent = p /\ (c # NIL => u[c].parent = x)
     /\ \A i \in DOMAIN t : i # x /\ i # z /\ i # c => u[i].parent = t[i].parent
     /\ ChildWith(u[x], t[x], side, c)
     /\ ChildWith(u[z], t[z], other, x)
     /\ p # NIL => ChildWith(u[p], t[p], cs, z)
     /\ \A i \in DOMAIN t : i # x /\ i # z /\ i # p => \A s \in Sides : u[i].child[s] = t[i].child[s]
     /\ \A i \in DOMAIN t : u[i].key = t[i].key
     /\ u \in Seq(TreeNode) /\ DOMAIN u = DOMAIN t
     /\ newRoot = IF p = NIL THEN z ELSE root

(* A rotation leaves such links.                                           *)
LEMMA RotatesLinks ==
  ASSUME NEW t, NEW root, NEW T, NEW lo, NEW hi, Tree(t, root, T, lo, hi),
         NEW x \in T, NEW side \in Sides, t[x].child[side] # NIL,
         NEW u, NEW newRoot, Rotates(t, root, x, side, u, newRoot)
  PROVE  RotLinks(t, root, x, side, u, newRoot)
<1> DEFINE other == Other(side)
           z == t[x].child[side]
           c == t[z].child[other]
           p == t[x].parent
           cs == ChildSide(t, p, x)
<1>1. /\ other \in Sides /\ cs \in Sides /\ z \in T /\ (p # NIL => p \in T)
  <2>1. FamilyOf(t, T, lo, hi, x, side)
    BY Family
  <2> QED
    BY <2>1 DEF FamilyOf
<1>2. t[x] \in TreeNode /\ t[z] \in TreeNode /\ (p # NIL => t[p] \in TreeNode)
      /\ NIL \notin DOMAIN t /\ x \in DOMAIN t
  BY <1>1, TreeTypes
<1>3. \A i \in DOMAIN t : u[i].key = t[i].key
  <2>1. t \in Seq(TreeNode)
    BY DEF Tree
  <2>2. \A i \in DOMAIN t : u[i] \in TreeNode /\ SameKept(u[i], t[i])
    BY <1>2, <2>1, RotatesKept
  <2> QED
    BY <2>2 DEF SameKept
<1>4. /\ u[x].parent = z /\ u[z].parent = p /\ (c # NIL => u[c].parent = x)
      /\ \A i \in DOMAIN t : i # x /\ i # z /\ i # c => u[i].parent = t[i].parent
  <2>1. /\ u[x].parent = z /\ u[z].parent = p /\ (c # NIL => u[c].parent = x)
        /\ (p # NIL => u[p].parent = t[p].parent)
        /\ \A i \in DOMAIN t \ {x, z, c, p} : u[i] = t[i]
    BY DEF Rotates, NodeIs
  <2> QED
    BY <2>1, <1>2
<1>5. ChildWith(u[x], t[x], side, c)
  <2>1. NodeIs(u[x], t[x], z, With(t[x].child, side, c),
               With(t[x].height, side, t[z].height[other]))
    BY DEF Rotates
  <2> QED
    BY <1>2, <2>1, ChildIs
<1>6. ChildWith(u[z], t[z], other, x)
  <2>1. NodeIs(u[z], t[z], p, With(t[z].child, other, x),
               With(t[z].height, other, Height(u[x]) + 1))
    BY DEF Rotates
  <2> QED
    BY <1>1, <1>2, <2>1, ChildIs
<1>7. ASSUME p # NIL PROVE ChildWith(u[p], t[p], cs, z)
  <2>1. NodeIs(u[p], t[p], t[p].parent, With(t[p].child, cs, z), t[p].height)
    BY <1>7 DEF Rotates
  <2> QED
    BY <1>1, <1>2, <1>7, <2>1, ChildIs
<1>8. \A i \in DOMAIN t : i # x /\ i # z /\ i # p => \A s \in Sides : u[i].child[s] = t[i].child[s]
  <2>1. c # NIL => \A s \in Sides : u[c].child[s] = t[c].child[s]
    BY DEF Rotates, NodeIs
  <2>2. \A i \in DOMAIN t \ {x, z, c, p} : u[i] = t[i]
    BY DEF Rotates
  <2> QED
    BY <2>1, <2>2, <1>2
<1>9. u \in Seq(TreeNode) /\ DOMAIN u = DOMAIN t /\ newRoot = IF p = NIL THEN z ELSE root
  BY Zenon DEF Rotates
<1> QED
  BY <1>3, <1>4, <1>5, <1>6, <1>7, <1>8, <1>9, Zenon DEF RotLinks

(* A tree is known by the keys and the links.                              *)
SameLinks(t, u) ==
  /\ u \in Seq(TreeNode) /\ DOMAIN u = DOMAIN t
  /\ \A i \in DOMAIN t :
       /\ u[i].key = t[i].key /\ u[i].parent = t[i].parent
       /\ \A side \in Sides : u[i].child[side] = t[i].child[side]

(* Heights and the rest of a node are no matter of the tree's links.       *)
LEMMA SameLinksTree ==
  ASSUME NEW t, NEW root, NEW T, NEW lo, NEW hi, Tree(t, root, T, lo, hi),
         NEW u, SameLinks(t, u)
  PROVE  Tree(u, root, T, lo, hi)
<1>1. T \subseteq DOMAIN t /\ T \subseteq DOMAIN u /\ u \in Seq(TreeNode)
      /\ lo \in [Nat -> Nat] /\ hi \in [Nat -> Nat]
  BY DEF Tree, SameLinks
<1>2. \A i \in T : /\ u[i].key = t[i].key /\ u[i].parent = t[i].parent
                   /\ \A side \in Sides : u[i].child[side] = t[i].child[side]
  BY <1>1 DEF SameLinks
<1>3. ASSUME NEW i \in T, NEW side \in Sides PROVE SideHolds(u, T, lo, hi, i, side)
  <2>1. SideHolds(t, T, lo, hi, i, side)
    BY DEF Tree
  <2>2. Low(u, lo, i, side) = Low(t, lo, i, side) /\ High(u, hi, i, side) = High(t, hi, i, side)
    BY <1>2 DEF Low, High
  <2>3. u[i].child[side] = t[i].child[side]
    BY <1>2
  <2> QED
    BY <1>2, <2>1, <2>2, <2>3 DEF SideHolds
<1>4. ASSUME NEW i \in T PROVE ParentHolds(u, root, T, i)
  <2>1. ParentHolds(t, root, T, i)
    BY DEF Tree
  <2> QED
    BY <1>2, <2>1 DEF ParentHolds
<1>5. ASSUME NEW i \in T
      PROVE  lo[i] < u[i].key /\ u[i].key < hi[i] /\ hi[i] <= HiInsertionKey + 1
  BY <1>2 DEF Tree
<1>6. IF root = NIL THEN T = {}
      ELSE root \in T /\ u[root].parent = NIL /\ lo[root] = 0 /\ hi[root] = HiInsertionKey + 1
  BY <1>2 DEF Tree
<1>7. \A i, j \in T : u[i].key = u[j].key => i = j
  <2>1. \A i, j \in T : t[i].key = t[j].key => i = j
    BY DEF Tree
  <2> QED
    BY <1>2, <2>1
<1> QED
  BY <1>1, <1>3, <1>4, <1>5, <1>6, <1>7 DEF Tree

(* What a double rotation about x does to the nodes.                       *)
RotatesTwice(t, root, x, side, u, newRoot) ==
  LET other == Other(side)
      z == t[x].child[side]
      y == t[z].child[other]
      inner == t[y].child[side]
      outer == t[y].child[other]
      p == t[x].parent
      cs == ChildSide(t, p, x)
  IN /\ u \in Seq(TreeNode) /\ Len(u) = Len(t) /\ DOMAIN u = DOMAIN t
     /\ newRoot = IF p = NIL THEN y ELSE root
     /\ NodeIs(u[x], t[x], y, With(t[x].child, side, outer),
               With(t[x].height, side, t[y].height[other]))
     /\ NodeIs(u[z], t[z], y, With(t[z].child, other, inner),
               With(t[z].height, other, t[y].height[side]))
     /\ NodeIs(u[y], t[y], p, With(With(t[y].child, side, z), other, x),
               With(With(t[y].height, side, Height(u[z]) + 1), other, Height(u[z]) + 1))
     /\ inner # NIL => NodeIs(u[inner], t[inner], z, t[inner].child, t[inner].height)
     /\ outer # NIL => NodeIs(u[outer], t[outer], x, t[outer].child, t[outer].height)
     /\ p # NIL => NodeIs(u[p], t[p], t[p].parent, With(t[p].child, cs, y), t[p].height)
     /\ \A i \in DOMAIN t \ {x, y, z, inner, outer, p} : u[i] = t[i]

RotatedTwiceAt(t, root, x, side) ==
  LET r == RotateTwice(t, x, t[x].child[side], side)
  IN Attached(r.trees, root, t[x].parent, ChildSide(r.trees, t[x].parent, x), r.root)

(* A node is on one side of its parent.                                    *)
LEMMA OneSide ==
  ASSUME NEW t, NEW root, NEW T, NEW lo, NEW hi, Tree(t, root, T, lo, hi),
         NEW i \in T, NEW s1 \in Sides, NEW s2 \in Sides,
         t[i].child[s1] = t[i].child[s2], t[i].child[s1] # NIL
  PROVE  s1 = s2
<1> DEFINE c == t[i].child[s1]
<1>1. lo[c] = Low(t, lo, i, s1) /\ lo[c] = Low(t, lo, i, s2)
  BY ChildBelow
<1>2. lo[i] < t[i].key /\ lo[i] \in Nat /\ t[i].key \in Nat
  BY NodeBounds
<1> QED
  BY <1>1, <1>2 DEF Low, Sides

(* The nodes about which a double rotation turns.                          *)
Kin(t, T, lo, hi, x, side, z, y, inner, outer, p, cs) ==
  /\ Other(side) \in Sides /\ cs \in Sides /\ Other(side) # side /\ Other(Other(side)) = side
  /\ z \in T /\ y \in T /\ t[z].parent = x /\ t[y].parent = z
  /\ z # NIL /\ y # NIL /\ x # NIL
  /\ inner # NIL => inner \in T /\ t[inner].parent = y
  /\ outer # NIL => outer \in T /\ t[outer].parent = y
  /\ p # NIL => p \in T /\ t[p].child[cs] = x
  /\ x # z /\ x # y /\ y # z
  /\ inner # NIL => inner # x /\ inner # y /\ inner # z
  /\ outer # NIL => outer # x /\ outer # y /\ outer # z
  /\ inner # NIL /\ outer # NIL => inner # outer
  /\ p # NIL => p # x /\ p # y /\ p # z /\ p # inner /\ p # outer

(* A node, its child and the inner child of that are kin.                  *)
LEMMA KinHold ==
  ASSUME NEW t, NEW root, NEW T, NEW lo, NEW hi, Tree(t, root, T, lo, hi),
         NEW x \in T, NEW side \in Sides, t[x].child[side] # NIL,
         t[t[x].child[side]].child[Other(side)] # NIL
  PROVE  LET other == Other(side)
             z == t[x].child[side]
             y == t[z].child[other]
         IN Kin(t, T, lo, hi, x, side, z, y, t[y].child[side], t[y].child[other], t[x].parent,
                ChildSide(t, t[x].parent, x))
<1> DEFINE other == Other(side)
           z == t[x].child[side]
           y == t[z].child[other]
           inner == t[y].child[side]
           outer == t[y].child[other]
           p == t[x].parent
           cs == ChildSide(t, p, x)
           span(i) == hi[i] - lo[i]
<1>1. /\ other \in Sides /\ other # side /\ Other(other) = side /\ cs \in Sides
      /\ z \in T /\ t[z].parent = x /\ span(z) < span(x)
      /\ p # NIL => p \in T /\ t[p].child[cs] = x /\ span(x) < span(p)
  <2>1. FamilyOf(t, T, lo, hi, x, side)
    BY Family
  <2>2. Other(other) = side
    BY DEF Other, Sides
  <2> QED
    BY <2>1, <2>2 DEF FamilyOf
<1>2. y \in T /\ t[y].parent = z /\ span(y) < span(z)
  <2>1. FamilyOf(t, T, lo, hi, z, other)
    BY <1>1, Family
  <2> QED
    BY <2>1 DEF FamilyOf
<1>3. inner # NIL => inner \in T /\ t[inner].parent = y /\ span(inner) < span(y)
  <2>1. FamilyOf(t, T, lo, hi, y, side)
    BY <1>2, Family
  <2> QED
    BY <2>1, Zenon DEF FamilyOf
<1>4. outer # NIL => outer \in T /\ t[outer].parent = y /\ span(outer) < span(y)
  <2>1. FamilyOf(t, T, lo, hi, y, other)
    BY <1>1, <1>2, Family
  <2> QED
    BY <2>1, Zenon DEF FamilyOf
<1>5. \A i \in T : span(i) \in Int /\ i # NIL
  <2> SUFFICES ASSUME NEW i \in T PROVE hi[i] - lo[i] \in Int /\ i # NIL
    OBVIOUS
  <2>1. hi[i] \in Nat /\ lo[i] \in Nat /\ i # NIL
    BY NodeBounds
  <2> QED
    BY <2>1
<1>6. /\ inner # NIL => lo[inner] = Low(t, lo, y, side)
      /\ outer # NIL => lo[outer] = Low(t, lo, y, other)
      /\ lo[y] < t[y].key /\ lo[y] \in Nat /\ t[y].key \in Nat
  <2>0. t[y].child[side] # NIL => lo[t[y].child[side]] = Low(t, lo, y, side)
    <3> HIDE DEF y
    <3> QED
      BY <1>2, ChildBelow
  <2>1. inner # NIL => lo[inner] = Low(t, lo, y, side)
    BY <2>0, Zenon
  <2>2. t[y].child[other] # NIL => lo[t[y].child[other]] = Low(t, lo, y, other)
    <3> HIDE DEF y
    <3> QED
      BY <1>1, <1>2, ChildBelow
  <2>3. lo[y] < t[y].key /\ lo[y] \in Nat /\ t[y].key \in Nat
    BY <1>2, NodeBounds
  <2> QED
    BY <2>1, <2>2, <2>3, Zenon
<1> HIDE DEF span, z, y, inner, outer, p, cs
<1>7. /\ span(x) \in Int /\ span(y) \in Int /\ span(z) \in Int
      /\ inner # NIL => span(inner) \in Int
      /\ outer # NIL => span(outer) \in Int
      /\ p # NIL => span(p) \in Int
  BY <1>1, <1>2, <1>3, <1>4, <1>5
<1>8. x # z /\ x # y /\ y # z
  BY <1>1, <1>2, <1>7
<1>9. inner # NIL => inner # x /\ inner # y /\ inner # z
  BY <1>1, <1>2, <1>3, <1>7
<1>10. outer # NIL => outer # x /\ outer # y /\ outer # z
  BY <1>1, <1>2, <1>4, <1>7
<1>11. p # NIL => p # x /\ p # y /\ p # z /\ p # inner /\ p # outer
  BY <1>1, <1>2, <1>3, <1>4, <1>7
<1>13. inner # NIL /\ outer # NIL => inner # outer
  BY <1>1, <1>6 DEF Low, Sides
<1>12. Kin(t, T, lo, hi, x, side, z, y, inner, outer, p, cs)
  BY <1>1, <1>2, <1>3, <1>4, <1>5, <1>13, <1>8, <1>9, <1>10, <1>11 DEF Kin
<1> QED
  BY <1>12, Zenon DEF z, y, inner, outer, p, cs

(* A node of which both children and both heights are new.                 *)
LEMMA NodeOver ==
  ASSUME NEW r \in TreeNode, NEW side \in Sides, NEW z \in Nat, NEW x \in Nat, NEW p \in Nat,
         NEW h \in Nat
  PROVE  NodeIs([r EXCEPT !.child = [s \in {"left", "right"} |-> IF s = side THEN z ELSE x],
                          !.height = [s \in {"left", "right"} |-> h], !.parent = p],
                r, p, With(With(r.child, side, z), Other(side), x),
                With(With(r.height, side, h), Other(side), h))
<1>1. r.child \in [Sides -> Nat] /\ r.height \in [Sides -> Nat]
  BY DEF TreeNode
<1>2. \A s \in Sides :
        /\ With(With(r.child, side, z), Other(side), x)[s] = IF s = side THEN z ELSE x
        /\ With(With(r.height, side, h), Other(side), h)[s] = h
  BY <1>1 DEF With, Other, Sides
<1> DEFINE n == [r EXCEPT !.child = [s \in {"left", "right"} |-> IF s = side THEN z ELSE x],
                          !.height = [s \in {"left", "right"} |-> h], !.parent = p]
<1>3. /\ n \in TreeNode /\ SameKept(n, r) /\ n.parent = p
      /\ n.child = [s \in Sides |-> IF s = side THEN z ELSE x]
      /\ n.height = [s \in Sides |-> h]
  BY DEF SameKept, TreeNode, Sides
<1> HIDE DEF n
<1>4. NodeIs(n, r, p, With(With(r.child, side, z), Other(side), x),
             With(With(r.height, side, h), Other(side), h))
  BY <1>2, <1>3 DEF NodeIs
<1> QED
  BY <1>4 DEF n

(* What a double rotation sets, in the order in which the code sets it.    *)
LEMMA RotateTwiceIs ==
  ASSUME NEW t, NEW root, NEW T, NEW lo, NEW hi, Tree(t, root, T, lo, hi),
         NEW x \in T, NEW side \in Sides, t[x].child[side] # NIL,
         t[t[x].child[side]].child[Other(side)] # NIL
  PROVE  /\ RotatesTwice(t, root, x, side, RotatedTwiceAt(t, root, x, side).trees,
                         RotatedTwiceAt(t, root, x, side).root)
         /\ RotateTwice(t, x, t[x].child[side], side).root = t[t[x].child[side]].child[Other(side)]
         /\ RotateTwice(t, x, t[x].child[side], side).height =
              Height(RotatedTwiceAt(t, root, x, side).trees[t[x].child[side]]) + 1
         /\ ChildSide(RotateTwice(t, x, t[x].child[side], side).trees, t[x].parent, x) =
              ChildSide(t, t[x].parent, x)
<1> DEFINE other == Other(side)
           z == t[x].child[side]
           y == t[z].child[other]
           inner == t[y].child[side]
           outer == t[y].child[other]
           p == t[x].parent
           cs == ChildSide(t, p, x)
           newX == [t[x] EXCEPT !.child[side] = outer, !.parent = y,
                                !.height[side] = t[y].height[other]]
           newZ == [t[z] EXCEPT !.child[other] = inner, !.parent = y,
                                !.height[other] = t[y].height[side]]
           h == Height(newZ) + 1
           newY == [t[y] EXCEPT !.child = [s \in {"left", "right"} |-> IF s = side THEN z ELSE x],
                                !.height = [s \in {"left", "right"} |-> h],
                                !.parent = p]
           t0 == SetParent(t, inner, z)
           t1 == SetParent(t0, outer, x)
           t2 == [t1 EXCEPT ![x] = newX]
           t3 == [t2 EXCEPT ![y] = newY]
           t4 == [t3 EXCEPT ![z] = newZ]
           u == RotatedTwiceAt(t, root, x, side).trees
<1>1. Kin(t, T, lo, hi, x, side, z, y, inner, outer, p, cs)
  BY KinHold
<1>2. /\ t \in Seq(TreeNode) /\ x \in DOMAIN t /\ z \in DOMAIN t /\ y \in DOMAIN t
      /\ x \in Nat /\ z \in Nat /\ y \in Nat /\ p \in Nat /\ inner \in Nat /\ outer \in Nat
      /\ (p # NIL => p \in DOMAIN t) /\ (inner # NIL => inner \in DOMAIN t)
      /\ (outer # NIL => outer \in DOMAIN t)
      /\ t[x] \in TreeNode /\ t[z] \in TreeNode /\ t[y] \in TreeNode
      /\ (p # NIL => t[p] \in TreeNode) /\ (inner # NIL => t[inner] \in TreeNode)
      /\ (outer # NIL => t[outer] \in TreeNode)
  <2>1. t \in Seq(TreeNode)
    BY DEF Tree
  <2>2. z \in T /\ y \in T /\ (p # NIL => p \in T) /\ (inner # NIL => inner \in T)
        /\ (outer # NIL => outer \in T) /\ side \in Sides /\ other \in Sides
    BY <1>1, Zenon DEF Kin
  <2>3. /\ x \in DOMAIN t /\ z \in DOMAIN t /\ y \in DOMAIN t /\ x \in Nat /\ z \in Nat /\ y \in Nat
        /\ p \in Nat /\ inner \in Nat /\ outer \in Nat
    BY <2>2, TreeTypes, Zenon
  <2>4. t[x] \in TreeNode /\ t[z] \in TreeNode /\ t[y] \in TreeNode
    BY <2>3, TreeTypes
  <2>5. /\ p # NIL => p \in DOMAIN t /\ t[p] \in TreeNode
        /\ inner # NIL => inner \in DOMAIN t /\ t[inner] \in TreeNode
        /\ outer # NIL => outer \in DOMAIN t /\ t[outer] \in TreeNode
    BY <2>2, TreeTypes, Zenon
  <2> QED
    BY <2>1, <2>3, <2>4, <2>5
<1>3. NodeIs(newX, t[x], y, With(t[x].child, side, outer),
             With(t[x].height, side, t[y].height[other]))
  <2>1. t[y].height[other] \in Nat
    BY <1>1, <1>2, HeightType, Zenon DEF Kin
  <2> QED
    BY <1>2, <2>1, NodeUpdate, Zenon
<1>4. NodeIs(newZ, t[z], y, With(t[z].child, other, inner),
             With(t[z].height, other, t[y].height[side]))
  <2>1. t[y].height[side] \in Nat /\ other \in Sides
    BY <1>1, <1>2, HeightType, Zenon DEF Kin
  <2> QED
    BY <1>2, <2>1, NodeUpdate, Zenon
<1>5. NodeIs(newY, t[y], p, With(With(t[y].child, side, z), other, x),
             With(With(t[y].height, side, h), other, h))
  <2>1. newZ \in TreeNode
    BY <1>4, Zenon DEF NodeIs
  <2> HIDE DEF newZ
  <2>2. h \in Nat
    BY <2>1, HeightType
  <2> HIDE DEF h
  <2> QED
    BY <1>2, <2>2, NodeOver, Zenon
<1>6. newX \in TreeNode /\ newZ \in TreeNode /\ newY \in TreeNode
  BY <1>3, <1>4, <1>5, Zenon DEF NodeIs
<1>7. RotateTwice(t, x, z, side) = [trees |-> t4, root |-> y, height |-> h]
  BY DEF RotateTwice
<1> HIDE DEF newX, newZ, newY
<1>8. /\ t0 \in Seq(TreeNode) /\ DOMAIN t0 = DOMAIN t /\ Len(t0) = Len(t)
      /\ \A i \in DOMAIN t : i # inner => t0[i] = t[i]
      /\ inner # NIL => NodeIs(t0[inner], t[inner], z, t[inner].child, t[inner].height)
  <2>1. inner \in DOMAIN t \cup {NIL}
    BY <1>2
  <2>2. Parented(t, inner, z, t0)
    BY <2>1, <1>2, SetParented, Zenon
  <2> QED
    BY <2>2, Zenon DEF Parented
<1> HIDE DEF t0
<1>9. /\ t1 \in Seq(TreeNode) /\ DOMAIN t1 = DOMAIN t /\ Len(t1) = Len(t)
      /\ \A i \in DOMAIN t : i # outer => t1[i] = t0[i]
      /\ outer # NIL => NodeIs(t1[outer], t[outer], x, t[outer].child, t[outer].height)
  <2>1. outer \in DOMAIN t0 \cup {NIL}
    BY <1>2, <1>8, Zenon
  <2>2. Parented(t0, outer, x, t1)
    <3> HIDE DEF outer
    <3> QED
      BY <2>1, <1>2, <1>8, SetParented, Zenon
  <2>4. outer # NIL => outer # inner
    BY <1>1, Zenon DEF Kin
  <2>5. outer # NIL => t0[outer] = t[outer]
    BY <1>2, <1>8, <2>4, Zenon
  <2> HIDE DEF outer, inner, z, y
  <2> QED
    BY <1>8, <2>2, <2>5 DEF Parented
<1> HIDE DEF t1
<1>10. /\ t2 \in Seq(TreeNode) /\ DOMAIN t2 = DOMAIN t /\ Len(t2) = Len(t) /\ t2[x] = newX
       /\ \A i \in DOMAIN t : i # x => t2[i] = t1[i]
  BY <1>2, <1>6, <1>9, NodeSet, Zenon
<1> HIDE DEF t2
<1>11. /\ t3 \in Seq(TreeNode) /\ DOMAIN t3 = DOMAIN t /\ Len(t3) = Len(t) /\ t3[y] = newY
       /\ \A i \in DOMAIN t : i # y => t3[i] = t2[i]
  BY <1>2, <1>6, <1>10, NodeSet
<1> HIDE DEF t3
<1>12. /\ t4 \in Seq(TreeNode) /\ DOMAIN t4 = DOMAIN t /\ Len(t4) = Len(t) /\ t4[z] = newZ
       /\ \A i \in DOMAIN t : i # z => t4[i] = t3[i]
  BY <1>2, <1>6, <1>11, NodeSet
<1> HIDE DEF t4
<1>13. /\ x # z /\ x # y /\ y # z /\ cs \in Sides
       /\ inner # NIL => inner # x /\ inner # y /\ inner # z /\ inner # outer
       /\ outer # NIL => outer # x /\ outer # y /\ outer # z
       /\ p # NIL => p # x /\ p # y /\ p # z /\ p # inner /\ p # outer
  BY <1>1, Zenon DEF Kin
<1>14. /\ t4[x] = newX /\ t4[y] = newY /\ t4[z] = newZ
       /\ inner # NIL => t4[inner] = t0[inner]
       /\ outer # NIL => t4[outer] = t1[outer]
       /\ p # NIL => t4[p] = t[p]
       /\ \A i \in DOMAIN t \ {x, y, z, inner, outer} : t4[i] = t[i]
  <2>1. t4[x] = newX /\ t4[y] = newY /\ t4[z] = newZ
    BY <1>2, <1>10, <1>11, <1>12, <1>13
  <2>2. inner # NIL => t4[inner] = t0[inner]
    BY <1>2, <1>9, <1>10, <1>11, <1>12, <1>13, ZenonT(40)
  <2>3. outer # NIL => t4[outer] = t1[outer]
    BY <1>2, <1>10, <1>11, <1>12, <1>13, Zenon
  <2>4. \A i \in DOMAIN t \ {x, y, z, inner, outer} : t4[i] = t[i]
    BY <1>8, <1>9, <1>10, <1>11, <1>12, Zenon
  <2> QED
    BY <2>1, <2>2, <2>3, <2>4, <1>2, <1>13, ZenonT(40)
<1>15. ChildSide(t4, p, x) = cs
  BY <1>14, Zenon DEF ChildSide
<1>16. RotatedTwiceAt(t, root, x, side) = Attached(t4, root, p, cs, y)
  <2> HIDE DEF cs, z, p, y
  <2> QED
    BY <1>7, <1>15 DEF RotatedTwiceAt, z, p
<1>17. CASE p = NIL
  <2>1. u = t4 /\ RotatedTwiceAt(t, root, x, side).root = y
    BY <1>16, <1>17 DEF Attached
  <2> HIDE DEF u
  <2>2. RotatesTwice(t, root, x, side, u, y)
    BY <1>17, <2>1, <1>14, <1>12, <1>3, <1>4, <1>5, <1>8, <1>9, Zenon DEF RotatesTwice
  <2>3. u[z] = newZ
    BY <2>1, <1>14, Zenon
  <2> QED
    BY <2>1, <2>2, <2>3, <1>7, <1>15 DEF u
<1>18. CASE p # NIL
  <2>1. /\ u = [t4 EXCEPT ![p].child[cs] = y]
        /\ RotatedTwiceAt(t, root, x, side).root = root
    BY <1>16, <1>18 DEF Attached
  <2> DEFINE newP == [t[p] EXCEPT !.child[cs] = y]
  <2>2. u = [t4 EXCEPT ![p] = newP]
    BY <2>1, <1>14, <1>18, <1>12, <1>2, ZenonT(40)
  <2>3. NodeIs(newP, t[p], t[p].parent, With(t[p].child, cs, y), t[p].height)
    BY <1>13, <1>2, <1>18, NodeChild
  <2>4. newP \in TreeNode
    BY <2>3 DEF NodeIs
  <2> HIDE DEF u, newP
  <2>5. /\ u \in Seq(TreeNode) /\ DOMAIN u = DOMAIN t /\ Len(u) = Len(t) /\ u[p] = newP
        /\ \A i \in DOMAIN t : i # p => u[i] = t4[i]
    BY <1>2, <1>12, <1>18, <2>2, <2>4, NodeSet
  <2>6. u[x] = newX /\ u[z] = newZ /\ u[y] = newY
    BY <1>2, <1>13, <1>14, <1>18, <2>5, Zenon
  <2>7. inner # NIL => u[inner] = t0[inner]
    BY <1>2, <1>13, <1>14, <1>18, <2>5, Zenon
  <2>8. outer # NIL => u[outer] = t1[outer]
    BY <1>2, <1>13, <1>14, <1>18, <2>5, Zenon
  <2>9. \A i \in DOMAIN t \ {x, y, z, inner, outer, p} : u[i] = t[i]
    BY <1>14, <2>5, Zenon
  <2>10. RotatesTwice(t, root, x, side, u, root)
    BY <1>18, <2>5, <2>6, <2>7, <2>8, <2>9, <2>3, <1>3, <1>4, <1>5, <1>8, <1>9, Zenon DEF RotatesTwice
  <2> QED
    BY <2>1, <2>6, <2>10, <1>7, <1>15 DEF u
<1> QED
  BY <1>17, <1>18

(* The links of a tree after a double rotation.                            *)
TwiceLinks(t, root, x, side, u, newRoot) ==
  LET other == Other(side)
      z == t[x].child[side]
      y == t[z].child[other]
      inner == t[y].child[side]
      outer == t[y].child[other]
      p == t[x].parent
      cs == ChildSide(t, p, x)
  IN /\ u[x].parent = y /\ u[z].parent = y /\ u[y].parent = p
     /\ inner # NIL => u[inner].parent = z
     /\ outer # NIL => u[outer].parent = x
     /\ \A i \in DOMAIN t \ {x, y, z, inner, outer} : u[i].parent = t[i].parent
     /\ ChildWith(u[x], t[x], side, outer)
     /\ ChildWith(u[z], t[z], other, inner)
     /\ u[y].child[side] = z /\ u[y].child[other] = x
     /\ p # NIL => ChildWith(u[p], t[p], cs, y)
     /\ \A i \in DOMAIN t \ {x, y, z, p} : \A s \in Sides : u[i].child[s] = t[i].child[s]
     /\ \A i \in DOMAIN t : u[i] \in TreeNode /\ SameKept(u[i], t[i])
     /\ u \in Seq(TreeNode) /\ DOMAIN u = DOMAIN t
     /\ newRoot = IF p = NIL THEN y ELSE root

(* Those are the links that a double rotation leaves.                      *)
LEMMA RotatesTwiceLinks ==
  ASSUME NEW t, NEW root, NEW T, NEW lo, NEW hi, Tree(t, root, T, lo, hi),
         NEW x \in T, NEW side \in Sides, t[x].child[side] # NIL,
         t[t[x].child[side]].child[Other(side)] # NIL,
         NEW u, NEW newRoot, RotatesTwice(t, root, x, side, u, newRoot)
  PROVE  TwiceLinks(t, root, x, side, u, newRoot)
<1> DEFINE other == Other(side)
           z == t[x].child[side]
           y == t[z].child[other]
           inner == t[y].child[side]
           outer == t[y].child[other]
           p == t[x].parent
           cs == ChildSide(t, p, x)
<1>1. Kin(t, T, lo, hi, x, side, z, y, inner, outer, p, cs)
  BY KinHold, Zenon
<1>2. /\ u \in Seq(TreeNode) /\ DOMAIN u = DOMAIN t
      /\ newRoot = IF p = NIL THEN y ELSE root
      /\ NodeIs(u[x], t[x], y, With(t[x].child, side, outer),
                With(t[x].height, side, t[y].height[other]))
      /\ NodeIs(u[z], t[z], y, With(t[z].child, other, inner),
                With(t[z].height, other, t[y].height[side]))
      /\ NodeIs(u[y], t[y], p, With(With(t[y].child, side, z), other, x),
                With(With(t[y].height, side, Height(u[z]) + 1), other, Height(u[z]) + 1))
      /\ inner # NIL => NodeIs(u[inner], t[inner], z, t[inner].child, t[inner].height)
      /\ outer # NIL => NodeIs(u[outer], t[outer], x, t[outer].child, t[outer].height)
      /\ p # NIL => NodeIs(u[p], t[p], t[p].parent, With(t[p].child, cs, y), t[p].height)
      /\ \A i \in DOMAIN t \ {x, y, z, inner, outer, p} : u[i] = t[i]
  BY Zenon DEF RotatesTwice
<1>3. /\ z \in T /\ y \in T /\ z # NIL /\ y # NIL
      /\ p # NIL => p \in T
      /\ other \in Sides /\ cs \in Sides /\ other # side
      /\ p # NIL => p # x /\ p # y /\ p # z /\ p # inner /\ p # outer
  BY <1>1, Zenon DEF Kin
<1>4. \A i \in T : t[i] \in TreeNode /\ i \in DOMAIN t
  BY TreeTypes
<1>5. NIL \notin DOMAIN t
  BY TreeTypes
<1>6. t \in Seq(TreeNode)
  BY DEF Tree
<1> HIDE DEF z, y, inner, outer, p, cs, other
<1>7. u[x].parent = y /\ u[z].parent = y /\ u[y].parent = p
      /\ (inner # NIL => u[inner].parent = z) /\ (outer # NIL => u[outer].parent = x)
  BY <1>2 DEF NodeIs
<1>8. \A i \in DOMAIN t \ {x, y, z, inner, outer} : u[i].parent = t[i].parent
  BY <1>2, <1>5 DEF NodeIs
<1>9. ChildWith(u[x], t[x], side, outer)
  <2>1. NodeIs(u[x], t[x], y, With(t[x].child, side, outer),
               With(t[x].height, side, t[y].height[other]))
    BY <1>2
  <2> QED
    BY <2>1, <1>4, ChildIs
<1>10. ChildWith(u[z], t[z], other, inner)
  <2>1. NodeIs(u[z], t[z], y, With(t[z].child, other, inner),
               With(t[z].height, other, t[y].height[side]))
    BY <1>2
  <2> QED
    BY <2>1, <1>3, <1>4, ChildIs
<1>11. u[y].child[side] = z /\ u[y].child[other] = x
  <2>1. t[y].child \in [Sides -> Nat]
    BY <1>3, <1>4 DEF TreeNode
  <2>2. \A s \in Sides : u[y].child[s] = With(With(t[y].child, side, z), other, x)[s]
    BY <1>2 DEF NodeIs
  <2> QED
    BY <2>1, <2>2, <1>3 DEF With
<1>12. p # NIL => ChildWith(u[p], t[p], cs, y)
  <2> SUFFICES ASSUME p # NIL PROVE ChildWith(u[p], t[p], cs, y)
    OBVIOUS
  <2>1. NodeIs(u[p], t[p], t[p].parent, With(t[p].child, cs, y), t[p].height)
    BY <1>2
  <2> QED
    BY <2>1, <1>3, <1>4, ChildIs
<1>13. \A i \in DOMAIN t \ {x, y, z, p} : \A s \in Sides : u[i].child[s] = t[i].child[s]
  BY <1>2, <1>5 DEF NodeIs
<1>14. ASSUME NEW i \in DOMAIN t PROVE u[i] \in TreeNode /\ SameKept(u[i], t[i])
  <2>1. CASE i \in {x, y, z, inner, outer, p}
    BY <1>2, <1>5, <2>1 DEF NodeIs
  <2>2. CASE i \notin {x, y, z, inner, outer, p}
    <3>1. u[i] = t[i] /\ t[i] \in TreeNode
      BY <1>2, <1>6, <2>2, ElementOfSeq, LenProperties
    <3> QED
      BY <3>1 DEF SameKept
  <2> QED
    BY <2>1, <2>2
<1>15. TwiceLinks(t, root, x, side, u, newRoot) =
         (/\ u[x].parent = y /\ u[z].parent = y /\ u[y].parent = p
          /\ inner # NIL => u[inner].parent = z
          /\ outer # NIL => u[outer].parent = x
          /\ \A i \in DOMAIN t \ {x, y, z, inner, outer} : u[i].parent = t[i].parent
          /\ ChildWith(u[x], t[x], side, outer)
          /\ ChildWith(u[z], t[z], other, inner)
          /\ u[y].child[side] = z /\ u[y].child[other] = x
          /\ p # NIL => ChildWith(u[p], t[p], cs, y)
          /\ \A i \in DOMAIN t \ {x, y, z, p} : \A s \in Sides : u[i].child[s] = t[i].child[s]
          /\ \A i \in DOMAIN t : u[i] \in TreeNode /\ SameKept(u[i], t[i])
          /\ u \in Seq(TreeNode) /\ DOMAIN u = DOMAIN t
          /\ newRoot = IF p = NIL THEN y ELSE root)
  BY DEF TwiceLinks, z, y, inner, outer, p, cs, other
<1> QED
  BY <1>2, <1>7, <1>8, <1>9, <1>10, <1>11, <1>12, <1>13, <1>14, <1>15, Zenon

(* A search tree with the bounds of another one at one of its nodes.       *)
TreeAbove(u, newRoot, T, lo, hi, p) ==
  \E lo2, hi2 : /\ Tree(u, newRoot, T, lo2, hi2)
                /\ p # NIL => lo2[p] = lo[p] /\ hi2[p] = hi[p]

(* A rotation about x keeps the bounds of the parent.                      *)
LEMMA RotatesTreeAbove ==
  ASSUME NEW t, NEW root, NEW T, NEW lo, NEW hi, Tree(t, root, T, lo, hi),
         NEW x \in T, NEW side \in Sides, t[x].child[side] # NIL,
         NEW u, NEW newRoot, Rotates(t, root, x, side, u, newRoot)
  PROVE  TreeAbove(u, newRoot, T, lo, hi, t[x].parent)
<1> DEFINE z == t[x].child[side]
           p == t[x].parent
           lo2 == RotLo(t, lo, x, z, side)
           hi2 == RotHi(t, hi, x, z, side)
<1>1. Tree(u, newRoot, T, lo2, hi2)
  BY RotatesTree
<1>2. z \in T /\ hi[z] - lo[z] < hi[x] - lo[x]
      /\ (p # NIL => p \in T /\ hi[x] - lo[x] < hi[p] - lo[p])
  <2>1. FamilyOf(t, T, lo, hi, x, side)
    BY Family
  <2> QED
    BY <2>1 DEF FamilyOf
<1>3. /\ hi[x] \in Nat /\ lo[x] \in Nat /\ hi[z] \in Nat /\ lo[z] \in Nat /\ x \in Nat /\ z \in Nat
      /\ p # NIL => hi[p] \in Nat /\ lo[p] \in Nat /\ p \in Nat
      /\ lo \in [Nat -> Nat] /\ hi \in [Nat -> Nat]
  <2>1. lo \in [Nat -> Nat] /\ hi \in [Nat -> Nat]
    BY DEF Tree
  <2> QED
    BY <1>2, <2>1, NodeBounds
<1> HIDE DEF z, p
<1>4. p # NIL => p # x /\ p # z
  BY <1>2, <1>3
<1>5. p # NIL => lo2[p] = lo[p] /\ hi2[p] = hi[p]
  BY <1>3, <1>4 DEF RotLo, RotHi
<1> HIDE DEF lo2, hi2
<1>6. TreeAbove(u, newRoot, T, lo, hi, p)
  BY <1>1, <1>5 DEF TreeAbove
<1> QED
  BY <1>6 DEF p

(* A double rotation is one about the child and one about the node.        *)
LEMMA RotatesTwiceTree ==
  ASSUME NEW t, NEW root, NEW T, NEW lo, NEW hi, Tree(t, root, T, lo, hi),
         NEW x \in T, NEW side \in Sides, t[x].child[side] # NIL,
         t[t[x].child[side]].child[Other(side)] # NIL,
         NEW u, NEW newRoot, RotatesTwice(t, root, x, side, u, newRoot)
  PROVE  TreeAbove(u, newRoot, T, lo, hi, t[x].parent)
<1> DEFINE other == Other(side)
           z == t[x].child[side]
           y == t[z].child[other]
           inner == t[y].child[side]
           outer == t[y].child[other]
           p == t[x].parent
           cs == ChildSide(t, p, x)
           t1 == RotatedAt(t, root, z, other).trees
           root1 == RotatedAt(t, root, z, other).root
           lo1 == RotLo(t, lo, z, y, other)
           hi1 == RotHi(t, hi, z, y, other)
           t2 == RotatedAt(t1, root1, x, side).trees
           root2 == RotatedAt(t1, root1, x, side).root
<1>1. Kin(t, T, lo, hi, x, side, z, y, inner, outer, p, cs)
  BY KinHold
<1>2. TwiceLinks(t, root, x, side, u, newRoot)
  BY RotatesTwiceLinks
<1>3. /\ z \in T /\ other \in Sides /\ t[z].parent = x /\ x # NIL /\ Other(other) = side
      /\ other # side /\ y # NIL /\ z # NIL
  BY <1>1, Zenon DEF Kin
<1>4. Rotates(t, root, z, other, t1, root1)
  <2> HIDE DEF z, other
  <2>1. t[z].child[other] # NIL
    BY DEF z, other
  <2> QED
    BY <1>3, <2>1, RotateIs
<1>5. Tree(t1, root1, T, lo1, hi1) /\ RotLinks(t, root, z, other, t1, root1)
  <2> HIDE DEF t1, root1, z, other
  <2>1. t[z].child[other] # NIL
    BY DEF z, other
  <2> QED
    BY <1>3, <1>4, <2>1, RotatesTree, RotatesLinks
<1>6. ChildSide(t, x, z) = side
  <2>1. t[x].child[ChildSide(t, t[z].parent, z)] = z /\ ChildSide(t, t[z].parent, z) \in Sides
    <3>1. FamilyOf(t, T, lo, hi, z, other)
      BY <1>3, Family
    <3> QED
      BY <1>3, <3>1 DEF FamilyOf
  <2>2. lo[z] = Low(t, lo, x, ChildSide(t, x, z))
    <3> DEFINE s == ChildSide(t, x, z)
    <3>1. t[x].child[s] = z /\ s \in Sides
      BY <1>3, <2>1
    <3> HIDE DEF s, z
    <3>2. lo[t[x].child[s]] = Low(t, lo, x, s)
      BY <1>3, <3>1, ChildBelow
    <3> QED
      BY <3>1, <3>2 DEF s
  <2>3. lo[z] = Low(t, lo, x, side)
    BY ChildBelow
  <2>4. lo[x] < t[x].key /\ lo[x] \in Nat /\ t[x].key \in Nat
    BY NodeBounds
  <2> HIDE DEF z
  <2> QED
    BY <1>3, <2>1, <2>2, <2>3, <2>4 DEF Low, Sides
<1> HIDE DEF t1, root1, lo1, hi1
<1>7. /\ t1[z].parent = y /\ t1[y].parent = x /\ (inner # NIL => t1[inner].parent = z)
      /\ \A i \in DOMAIN t : i # z /\ i # y /\ i # inner => t1[i].parent = t[i].parent
      /\ ChildWith(t1[z], t[z], other, inner)
      /\ ChildWith(t1[y], t[y], side, z)
      /\ ChildWith(t1[x], t[x], side, y)
      /\ \A i \in DOMAIN t : i # z /\ i # y /\ i # x => \A s \in Sides : t1[i].child[s] = t[i].child[s]
      /\ \A i \in DOMAIN t : t1[i].key = t[i].key
      /\ t1 \in Seq(TreeNode) /\ DOMAIN t1 = DOMAIN t
      /\ root1 = root
  BY <1>3, <1>5, <1>6, Zenon DEF RotLinks
<1>8. t1[x].child[side] = y /\ t1[x].parent = p /\ t1[y].child[other] = outer
  <2>1. x \in DOMAIN t /\ x # z /\ x # y /\ x # inner
    BY <1>1, TreeTypes, Zenon DEF Kin
  <2>2. t1[x].parent = p
    BY <1>7, <2>1, Zenon
  <2> HIDE DEF z, inner, p, outer
  <2> QED
    BY <1>3, <1>7, <2>2 DEF ChildWith, outer
<1>9. Rotates(t1, root1, x, side, t2, root2)
  <2> HIDE DEF y
  <2> QED
    BY <1>3, <1>5, <1>8, RotateIs
<1> HIDE DEF t2, root2
<1>10. RotLinks(t1, root1, x, side, t2, root2) /\ TreeAbove(t2, root2, T, lo1, hi1, t1[x].parent)
  <2> HIDE DEF y
  <2> QED
    BY <1>3, <1>5, <1>8, <1>9, RotatesLinks, RotatesTreeAbove
<1>11. p # NIL => /\ p \in DOMAIN t /\ p # x /\ p # y /\ p # z /\ p # inner /\ p # outer
                  /\ p \in Nat /\ cs \in Sides
  <2> SUFFICES ASSUME p # NIL
               PROVE  /\ p \in T /\ p # x /\ p # y /\ p # z /\ p # inner /\ p # outer
                      /\ cs \in Sides
    BY TreeTypes
  <2> QED
    BY <1>1, ZenonT(40) DEF Kin
<1>12. ChildSide(t1, p, x) = cs
  <2>1. p # NIL => t1[p].child["left"] = t[p].child["left"]
    BY <1>7, <1>11, Zenon DEF Sides
  <2> HIDE DEF p
  <2> QED
    BY <2>1 DEF ChildSide, cs
<1>13. /\ t2[x].parent = y /\ t2[y].parent = p /\ (outer # NIL => t2[outer].parent = x)
       /\ \A i \in DOMAIN t : i # x /\ i # y /\ i # outer => t2[i].parent = t1[i].parent
       /\ ChildWith(t2[x], t1[x], side, outer)
       /\ ChildWith(t2[y], t1[y], other, x)
       /\ p # NIL => ChildWith(t2[p], t1[p], cs, y)
       /\ \A i \in DOMAIN t : i # x /\ i # y /\ i # p => \A s \in Sides : t2[i].child[s] = t1[i].child[s]
       /\ \A i \in DOMAIN t : t2[i].key = t1[i].key
       /\ t2 \in Seq(TreeNode) /\ DOMAIN t2 = DOMAIN t
       /\ root2 = IF p = NIL THEN y ELSE root
  <2> HIDE DEF y, p, outer, cs
  <2> QED
    BY <1>7, <1>8, <1>10, <1>12 DEF RotLinks
<1>14. /\ x \in DOMAIN t /\ y \in DOMAIN t /\ z \in DOMAIN t
       /\ x # y /\ x # z /\ y # z
       /\ inner # NIL => inner # x /\ inner # y /\ inner # z
       /\ outer # NIL => outer # x /\ outer # y /\ outer # z
       /\ inner # NIL /\ outer # NIL => inner # outer
       /\ NIL \notin DOMAIN t
       /\ \A s \in Sides : s = side \/ s = other
  <2>1. y \in T
    BY <1>1, Zenon DEF Kin
  <2>2. \A s \in Sides : s = side \/ s = other
    BY DEF Sides, Other
  <2> QED
    BY <1>1, <1>3, <2>1, <2>2, TreeTypes, Zenon DEF Kin
<1>15. /\ u[x].parent = y /\ u[z].parent = y /\ u[y].parent = p
       /\ inner # NIL => u[inner].parent = z
       /\ outer # NIL => u[outer].parent = x
       /\ \A i \in DOMAIN t \ {x, y, z, inner, outer} : u[i].parent = t[i].parent
       /\ ChildWith(u[x], t[x], side, outer)
       /\ ChildWith(u[z], t[z], other, inner)
       /\ u[y].child[side] = z /\ u[y].child[other] = x
       /\ p # NIL => ChildWith(u[p], t[p], cs, y)
       /\ \A i \in DOMAIN t \ {x, y, z, p} : \A s \in Sides : u[i].child[s] = t[i].child[s]
       /\ \A i \in DOMAIN t : u[i].key = t[i].key
       /\ u \in Seq(TreeNode) /\ DOMAIN u = DOMAIN t
       /\ newRoot = IF p = NIL THEN y ELSE root
  BY <1>2, Zenon DEF TwiceLinks, SameKept
<1> HIDE DEF y, p, outer, cs, z, inner, other
<1>16. ASSUME NEW i \in DOMAIN t PROVE u[i].parent = t2[i].parent
  <2>1. CASE i \in {x, y, z, inner, outer}
    BY <2>1, <1>7, <1>13, <1>14, <1>15
  <2>2. CASE i \notin {x, y, z, inner, outer}
    BY <2>2, <1>7, <1>13, <1>15
  <2> QED
    BY <2>1, <2>2
<1>17. ASSUME NEW i \in DOMAIN t, NEW s \in Sides PROVE u[i].child[s] = t2[i].child[s]
  <2>1. CASE i = x
    BY <2>1, <1>3, <1>7, <1>13, <1>14, <1>15 DEF ChildWith
  <2>2. CASE i = y
    BY <2>2, <1>3, <1>7, <1>13, <1>14, <1>15 DEF ChildWith
  <2>3. CASE i = z
    <3>1. t2[z].child[s] = t1[z].child[s]
      BY <1>11, <1>13, <1>14
    <3> QED
      BY <2>3, <3>1, <1>7, <1>15 DEF ChildWith
  <2>4. CASE i = p
    <3>1. t1[p].child[s] = t[p].child[s]
      BY <2>4, <1>7, <1>11, <1>14
    <3> QED
      BY <2>4, <3>1, <1>13, <1>14, <1>15 DEF ChildWith
  <2>5. CASE i \notin {x, y, z, p}
    BY <2>5, <1>7, <1>13, <1>15
  <2> QED
    BY <2>1, <2>2, <2>3, <2>4, <2>5
<1>18. SameLinks(t2, u)
  BY <1>7, <1>13, <1>15, <1>16, <1>17 DEF SameLinks
<1>19. PICK lo2, hi2 : /\ Tree(t2, root2, T, lo2, hi2)
                       /\ p # NIL => lo2[p] = lo1[p] /\ hi2[p] = hi1[p]
  BY <1>8, <1>10 DEF TreeAbove
<1>20. Tree(u, newRoot, T, lo2, hi2)
  BY <1>13, <1>15, <1>18, <1>19, SameLinksTree
<1>21. p # NIL => lo1[p] = lo[p] /\ hi1[p] = hi[p]
  <2>1. lo \in [Nat -> Nat] /\ hi \in [Nat -> Nat]
    BY DEF Tree
  <2> QED
    BY <1>11, <2>1 DEF lo1, hi1, RotLo, RotHi
<1>22. TreeAbove(u, newRoot, T, lo, hi, p)
  BY <1>19, <1>20, <1>21 DEF TreeAbove
<1> QED
  BY <1>22 DEF p

-----------------------------------------------------------------------------
(* Heights.                                                                *)

HeightBelow(t, id) == IF id = NIL THEN 0 ELSE Height(t[id]) + 1

HeightHolds(t, i, side) == t[i].height[side] = HeightBelow(t, t[i].child[side])

BalancedAt(t, i) == t[i].height["left"] - t[i].height["right"] \in {-1, 0, 1}

(* The heights hold, but perhaps that on a side of one node.               *)
HeightsBut(t, T, p, cs) ==
  \A i \in T : \A s \in Sides : ~(i = p /\ s = cs) => HeightHolds(t, i, s)

(* A node's height, by either of its sides.                                *)
LEMMA HeightIs ==
  ASSUME NEW n \in TreeNode, NEW side \in Sides
  PROVE  /\ Height(n) = Larger(n.height[side], n.height[Other(side)])
         /\ n.height[side] \in Nat /\ n.height[Other(side)] \in Nat
<1>1. n.height \in [Sides -> Nat]
  BY DEF TreeNode
<1>2. n.height["left"] \in Nat /\ n.height["right"] \in Nat
  BY <1>1 DEF Sides
<1> QED
  BY <1>2 DEF Height, Larger, Other, Sides

(* A balanced node, by either of its sides.                                *)
LEMMA BalancedIs ==
  ASSUME NEW t, NEW i, t[i] \in TreeNode, NEW side \in Sides
  PROVE  BalancedAt(t, i) <=> t[i].height[side] - t[i].height[Other(side)] \in {-1, 0, 1}
<1>1. t[i].height \in [Sides -> Nat]
  BY DEF TreeNode
<1>2. t[i].height["left"] \in Nat /\ t[i].height["right"] \in Nat
  BY <1>1 DEF Sides
<1> QED
  BY <1>2 DEF BalancedAt, Other, Sides

(* The heights of x and z after a rotation, if those before were a and     *)
(* a + 2 at x.                                                             *)
RotatedHeights(t, u, T, x, z, p, cs, side) ==
  /\ HeightsBut(u, T, p, cs)
  /\ \A i \in T : BalancedAt(u, i)
  /\ Height(u[z]) \in {t[x].height[Other(side)] + 1, t[x].height[Other(side)] + 2}

(* A rotation balances a node whose child is not heavy on the other side.  *)
LEMMA RotatesHeights ==
  ASSUME NEW t, NEW root, NEW T, NEW lo, NEW hi, Tree(t, root, T, lo, hi),
         NEW x \in T, NEW side \in Sides, t[x].child[side] # NIL,
         NEW u, NEW newRoot, Rotates(t, root, x, side, u, newRoot),
         HeightsBut(t, T, t[x].parent, ChildSide(t, t[x].parent, x)),
         \A i \in T : i # x => BalancedAt(t, i),
         t[x].height[side] = t[x].height[Other(side)] + 2,
         ~(t[t[x].child[side]].height[Other(side)] > t[t[x].child[side]].height[side])
  PROVE  RotatedHeights(t, u, T, x, t[x].child[side], t[x].parent,
                        ChildSide(t, t[x].parent, x), side)
<1> DEFINE other == Other(side)
           z == t[x].child[side]
           c == t[z].child[other]
           p == t[x].parent
           cs == ChildSide(t, p, x)
<1>1. /\ other \in Sides /\ other # side /\ cs \in Sides
      /\ \A s \in Sides : s = side \/ s = other
      /\ z \in T /\ t[z].parent = x /\ hi[z] - lo[z] < hi[x] - lo[x]
      /\ p # NIL => p \in T /\ hi[x] - lo[x] < hi[p] - lo[p] /\ t[p].child[cs] = x
      /\ hi[x] \in Nat /\ lo[x] \in Nat
  <2>1. FamilyOf(t, T, lo, hi, x, side)
    BY Family, SMTT(30)
  <2> QED
    BY <2>1 DEF FamilyOf
<1>2. /\ c # NIL => c \in T /\ t[c].parent = z /\ hi[c] - lo[c] < hi[z] - lo[z]
      /\ hi[z] \in Nat /\ lo[z] \in Nat
  <2>1. FamilyOf(t, T, lo, hi, z, other)
    BY <1>1, Family
  <2> QED
    BY <2>1 DEF FamilyOf
<1>3. /\ p # NIL => hi[p] \in Nat /\ lo[p] \in Nat
      /\ c # NIL => hi[c] \in Nat /\ lo[c] \in Nat
      /\ x # NIL /\ z # NIL
  BY <1>1, <1>2, NodeBounds
<1>4. /\ NodeIs(u[x], t[x], z, With(t[x].child, side, c),
                With(t[x].height, side, t[z].height[other]))
      /\ NodeIs(u[z], t[z], p, With(t[z].child, other, x),
                With(t[z].height, other, Height(u[x]) + 1))
      /\ c # NIL => NodeIs(u[c], t[c], x, t[c].child, t[c].height)
      /\ p # NIL => NodeIs(u[p], t[p], t[p].parent, With(t[p].child, cs, z), t[p].height)
      /\ \A i \in DOMAIN t \ {x, z, c, p} : u[i] = t[i]
  BY Zenon DEF Rotates
<1>5. RotLinks(t, root, x, side, u, newRoot)
  BY RotatesLinks
<1>6. \A i \in T : i \in DOMAIN t /\ i # NIL /\ t[i] \in TreeNode
  BY TreeTypes
<1>7. \A i \in T : u[i] \in TreeNode
  <2>1. t \in Seq(TreeNode)
    BY DEF Tree
  <2>2. \A i \in DOMAIN t : u[i] \in TreeNode /\ SameKept(u[i], t[i])
    BY <1>6, <2>1, RotatesKept
  <2> QED
    BY <1>6, <2>2
<1>8. \A i \in T : \A s \in Sides : t[i].child[s] # NIL =>
        t[i].child[s] \in T /\ t[t[i].child[s]].parent = i
  BY ChildBelow
<1>9. \A i \in T : \A s1, s2 \in Sides :
        t[i].child[s1] = t[i].child[s2] /\ t[i].child[s1] # NIL => s1 = s2
  BY OneSide, SMTT(30)
<1>10. /\ ChildWith(u[x], t[x], side, c)
       /\ ChildWith(u[z], t[z], other, x)
       /\ p # NIL => ChildWith(u[p], t[p], cs, z)
       /\ \A i \in DOMAIN t : i # x /\ i # z /\ i # p =>
            \A s \in Sides : u[i].child[s] = t[i].child[s]
  BY <1>5 DEF RotLinks
<1> HIDE DEF z, c, p, cs, other
<1>11. x # z /\ (p # NIL => p # x /\ p # z) /\ (c # NIL => c # x /\ c # z)
  BY <1>1, <1>2, <1>3
<1>12. \A i \in T : i # x /\ i # z => \A s \in Sides : u[i].height[s] = t[i].height[s]
  BY <1>4, <1>6 DEF NodeIs
<1>13. \A i \in T : i # x /\ i # z => HeightBelow(u, i) = HeightBelow(t, i)
  BY <1>12 DEF HeightBelow, Height, Sides
<1>14. HeightBelow(u, NIL) = HeightBelow(t, NIL)
  BY DEF HeightBelow
<1>15. /\ u[x].height[side] = t[z].height[other] /\ u[x].height[other] = t[x].height[other]
       /\ u[z].height[side] = t[z].height[side] /\ u[z].height[other] = Height(u[x]) + 1
  <2>1. t[x].height \in [Sides -> Nat] /\ t[z].height \in [Sides -> Nat]
    BY <1>1, <1>6 DEF TreeNode
  <2>2. \A s \in Sides : /\ u[x].height[s] = With(t[x].height, side, t[z].height[other])[s]
                         /\ u[z].height[s] = With(t[z].height, other, Height(u[x]) + 1)[s]
    BY <1>4 DEF NodeIs
  <2> QED
    BY <1>1, <2>1, <2>2 DEF With
<1>16. \A i \in T : \A s \in Sides : ~(i = p /\ s = cs) =>
         t[i].height[s] = HeightBelow(t, t[i].child[s])
  BY DEF HeightsBut, HeightHolds, p, cs
<1>17. ASSUME NEW i \in T, NEW s \in Sides, ~(i = p /\ s = cs)
       PROVE  HeightHolds(u, i, s)
  <2> DEFINE k == t[i].child[s]
  <2>1. t[i].height[s] = HeightBelow(t, k)
    BY <1>16, <1>17
  <2>2. k # NIL => k \in T /\ t[k].parent = i
    BY <1>8
  <2>3. CASE i # x /\ i # z
    <3>1. u[i].child[s] = k
      BY <1>6, <1>10, <1>17, <2>3 DEF ChildWith
    <3>2. k # x
      <4>1. k = x => i = p /\ t[p].child[s] = t[p].child[cs] /\ t[p].child[s] # NIL
        BY <1>1, <1>3, <1>6, <2>2 DEF p
      <4> QED
        BY <1>1, <1>9, <1>17, <4>1
    <3>3. k # z
      BY <1>1, <1>3, <2>2, <2>3
    <3> HIDE DEF k
    <3>4. HeightBelow(u, k) = HeightBelow(t, k)
      BY <1>13, <1>14, <2>2, <3>2, <3>3
    <3> QED
      BY <1>12, <2>1, <2>3, <3>1, <3>4 DEF HeightHolds
  <2>4. CASE i = x /\ s = other
    <3>1. u[i].child[s] = k
      BY <1>1, <1>10, <2>4 DEF ChildWith
    <3>2. k # z
      BY <1>1, <1>3, <1>9, <2>4 DEF z
    <3>3. k # x
      BY <1>11, <2>2, <2>4, <1>1, <1>3, <1>6 DEF p
    <3> HIDE DEF k
    <3>4. HeightBelow(u, k) = HeightBelow(t, k)
      BY <1>13, <1>14, <2>2, <3>2, <3>3
    <3> QED
      BY <1>15, <2>1, <2>4, <3>1, <3>4 DEF HeightHolds
  <2>5. CASE i = z /\ s = side
    <3>1. u[i].child[s] = k
      BY <1>1, <1>10, <2>5 DEF ChildWith
    <3>2. k # z
      BY <1>1, <1>11, <2>2, <2>5, <1>3
    <3>3. k # x
      BY <1>1, <1>3, <1>11, <2>2, <2>5 DEF p
    <3> HIDE DEF k
    <3>4. HeightBelow(u, k) = HeightBelow(t, k)
      BY <1>13, <1>14, <2>2, <3>2, <3>3
    <3> QED
      BY <1>15, <2>1, <2>5, <3>1, <3>4 DEF HeightHolds
  <2>6. CASE i = x /\ s = side
    <3>1. u[i].child[s] = c
      BY <1>10, <2>6 DEF ChildWith
    <3>2. HeightBelow(u, c) = HeightBelow(t, c)
      BY <1>2, <1>11, <1>13, <1>14
    <3>3. t[z].height[other] = HeightBelow(t, c)
      BY <1>1, <1>3, <1>11, <1>16 DEF c
    <3> QED
      BY <1>15, <2>6, <3>1, <3>2, <3>3 DEF HeightHolds
  <2>7. CASE i = z /\ s = other
    <3>1. u[i].child[s] = x
      BY <1>10, <2>7 DEF ChildWith
    <3> QED
      BY <1>3, <1>15, <2>7, <3>1 DEF HeightHolds, HeightBelow
  <2> QED
    BY <1>1, <2>3, <2>4, <2>5, <2>6, <2>7
<1>18. HeightsBut(u, T, p, cs)
  BY <1>17 DEF HeightsBut
<1> DEFINE a == t[x].height[other]
           zo == t[z].height[other]
           zs == t[z].height[side]
<1>19. /\ a \in Nat /\ zo \in Nat /\ zs \in Nat /\ Height(t[z]) = Larger(zs, zo)
       /\ zs - zo \in {-1, 0, 1} /\ ~(zo > zs) /\ Height(t[z]) + 1 = a + 2
  <2>1. a \in Nat
    BY <1>6, HeightIs DEF other
  <2>2. zo \in Nat /\ zs \in Nat /\ Height(t[z]) = Larger(zs, zo)
    BY <1>1, <1>6, HeightIs DEF other
  <2>3. zs - zo \in {-1, 0, 1}
    BY <1>1, <1>6, <1>11, BalancedIs DEF other
  <2>4. ~(zo > zs)
    BY DEF z, other
  <2>5. Height(t[z]) + 1 = a + 2
    <3>1. t[x].height[side] = HeightBelow(t, z)
      BY <1>3, <1>6, <1>11, <1>16 DEF z
    <3>2. HeightBelow(t, z) = Height(t[z]) + 1
      BY <1>3 DEF HeightBelow
    <3> QED
      BY <3>1, <3>2 DEF other
  <2> QED
    BY <2>1, <2>2, <2>3, <2>4, <2>5
<1>20. Height(u[x]) = Larger(zo, a) /\ Height(u[z]) = Larger(zs, Larger(zo, a) + 1)
  BY <1>1, <1>7, <1>15, HeightIs DEF other
<1> HIDE DEF a, zo, zs
<1>21. /\ zo - a \in {-1, 0, 1} /\ zs - (Larger(zo, a) + 1) \in {-1, 0, 1}
       /\ Larger(zs, Larger(zo, a) + 1) \in {a + 1, a + 2}
  BY <1>19 DEF Larger
<1>22. BalancedAt(u, x) /\ BalancedAt(u, z)
  BY <1>1, <1>7, <1>15, <1>20, <1>21, BalancedIs DEF a, zo, zs, other
<1>23. ASSUME NEW i \in T PROVE BalancedAt(u, i)
  <2>1. CASE i = x \/ i = z
    BY <1>22, <2>1
  <2>2. CASE i # x /\ i # z
    BY <1>12, <2>2 DEF BalancedAt, Sides
  <2> QED
    BY <2>1, <2>2
<1>24. RotatedHeights(t, u, T, x, z, p, cs, side)
  BY <1>18, <1>20, <1>21, <1>23 DEF RotatedHeights, a, other
<1> QED
  BY <1>24 DEF z, p, cs

(* A double rotation balances a node whose child is heavy on the other     *)
(* side.                                                                   *)
LEMMA RotatesTwiceHeights ==
  ASSUME NEW t, NEW root, NEW T, NEW lo, NEW hi, Tree(t, root, T, lo, hi),
         NEW x \in T, NEW side \in Sides, t[x].child[side] # NIL,
         t[t[x].child[side]].child[Other(side)] # NIL,
         NEW u, NEW newRoot, RotatesTwice(t, root, x, side, u, newRoot),
         HeightsBut(t, T, t[x].parent, ChildSide(t, t[x].parent, x)),
         \A i \in T : i # x => BalancedAt(t, i),
         t[x].height[side] = t[x].height[Other(side)] + 2,
         t[t[x].child[side]].height[Other(side)] > t[t[x].child[side]].height[side]
  PROVE  /\ HeightsBut(u, T, t[x].parent, ChildSide(t, t[x].parent, x))
         /\ \A i \in T : BalancedAt(u, i)
         /\ Height(u[t[x].child[side]]) = t[x].height[Other(side)]
<1> DEFINE other == Other(side)
           z == t[x].child[side]
           y == t[z].child[other]
           inner == t[y].child[side]
           outer == t[y].child[other]
           p == t[x].parent
           cs == ChildSide(t, p, x)
<1>1. Kin(t, T, lo, hi, x, side, z, y, inner, outer, p, cs)
  BY KinHold, Zenon
<1>2. TwiceLinks(t, root, x, side, u, newRoot)
  BY RotatesTwiceLinks
<1>3. /\ NodeIs(u[x], t[x], y, With(t[x].child, side, outer),
                With(t[x].height, side, t[y].height[other]))
      /\ NodeIs(u[z], t[z], y, With(t[z].child, other, inner),
                With(t[z].height, other, t[y].height[side]))
      /\ NodeIs(u[y], t[y], p, With(With(t[y].child, side, z), other, x),
                With(With(t[y].height, side, Height(u[z]) + 1), other, Height(u[z]) + 1))
      /\ inner # NIL => NodeIs(u[inner], t[inner], z, t[inner].child, t[inner].height)
      /\ outer # NIL => NodeIs(u[outer], t[outer], x, t[outer].child, t[outer].height)
      /\ p # NIL => NodeIs(u[p], t[p], t[p].parent, With(t[p].child, cs, y), t[p].height)
      /\ \A i \in DOMAIN t \ {x, y, z, inner, outer, p} : u[i] = t[i]
  BY Zenon DEF RotatesTwice
<1>4. /\ ChildWith(u[x], t[x], side, outer)
      /\ ChildWith(u[z], t[z], other, inner)
      /\ u[y].child[side] = z /\ u[y].child[other] = x
      /\ p # NIL => ChildWith(u[p], t[p], cs, y)
      /\ \A i \in DOMAIN t \ {x, y, z, p} : \A s \in Sides : u[i].child[s] = t[i].child[s]
      /\ \A i \in DOMAIN t : u[i] \in TreeNode
  BY <1>2, Zenon DEF TwiceLinks
<1>5. \A i \in T : i \in DOMAIN t /\ i # NIL /\ t[i] \in TreeNode
  BY TreeTypes
<1>6. \A i \in T : \A s \in Sides : t[i].child[s] # NIL =>
        t[i].child[s] \in T /\ t[t[i].child[s]].parent = i
  BY ChildBelow
<1>7. \A i \in T : \A s1, s2 \in Sides :
        t[i].child[s1] = t[i].child[s2] /\ t[i].child[s1] # NIL => s1 = s2
  BY OneSide
<1>8. /\ other \in Sides /\ cs \in Sides /\ other # side
      /\ \A s \in Sides : s = side \/ s = other
      /\ z \in T /\ y \in T /\ t[z].parent = x /\ t[y].parent = z
      /\ inner # NIL => inner \in T /\ t[inner].parent = y
      /\ outer # NIL => outer \in T /\ t[outer].parent = y
      /\ p # NIL => p \in T /\ t[p].child[cs] = x
  <2>1. \A s \in Sides : s = side \/ s = other
    BY DEF Sides, Other
  <2> QED
    BY <1>1, <2>1, Zenon DEF Kin
<1>9. /\ x # z /\ x # y /\ y # z
      /\ inner # NIL => inner # x /\ inner # y /\ inner # z
      /\ outer # NIL => outer # x /\ outer # y /\ outer # z
      /\ p # NIL => p # x /\ p # y /\ p # z
  BY <1>1, Zenon DEF Kin
<1> HIDE DEF z, y, inner, outer, p, cs, other
<1>10. \A i \in T : u[i] \in TreeNode
  BY <1>4, <1>5
<1>11. \A i \in T : i # x /\ i # y /\ i # z => \A s \in Sides : u[i].height[s] = t[i].height[s]
  BY <1>3, <1>5 DEF NodeIs
<1>12. \A i \in T : i # x /\ i # y /\ i # z => HeightBelow(u, i) = HeightBelow(t, i)
  BY <1>11 DEF HeightBelow, Height, Sides
<1>13. HeightBelow(u, NIL) = HeightBelow(t, NIL)
  BY DEF HeightBelow
<1>14. /\ u[x].height[side] = t[y].height[other] /\ u[x].height[other] = t[x].height[other]
       /\ u[z].height[side] = t[z].height[side] /\ u[z].height[other] = t[y].height[side]
       /\ u[y].height[side] = Height(u[z]) + 1 /\ u[y].height[other] = Height(u[z]) + 1
  <2>1. /\ t[x].height \in [Sides -> Nat] /\ t[z].height \in [Sides -> Nat]
        /\ t[y].height \in [Sides -> Nat]
    BY <1>5, <1>8 DEF TreeNode
  <2>2. \A s \in Sides :
          /\ u[x].height[s] = With(t[x].height, side, t[y].height[other])[s]
          /\ u[z].height[s] = With(t[z].height, other, t[y].height[side])[s]
          /\ u[y].height[s] =
               With(With(t[y].height, side, Height(u[z]) + 1), other, Height(u[z]) + 1)[s]
    BY <1>3 DEF NodeIs
  <2> QED
    BY <1>8, <2>1, <2>2 DEF With
<1>15. \A i \in T : \A s \in Sides : ~(i = p /\ s = cs) =>
         t[i].height[s] = HeightBelow(t, t[i].child[s])
  BY DEF HeightsBut, HeightHolds, p, cs
<1> DEFINE a == t[x].height[other]
           zo == t[z].height[other]
           zs == t[z].height[side]
           yo == t[y].height[other]
           ys == t[y].height[side]
<1>16. /\ a \in Nat /\ zo \in Nat /\ zs \in Nat /\ Height(t[z]) = Larger(zs, zo)
       /\ zs - zo \in {-1, 0, 1} /\ zo > zs /\ Height(t[z]) + 1 = a + 2
       /\ yo \in Nat /\ ys \in Nat /\ Height(t[y]) = Larger(ys, yo)
       /\ ys - yo \in {-1, 0, 1} /\ Height(t[y]) + 1 = zo
  <2>1. a \in Nat
    BY <1>5, HeightIs DEF other
  <2>2. zo \in Nat /\ zs \in Nat /\ Height(t[z]) = Larger(zs, zo)
    BY <1>5, <1>8, HeightIs DEF other
  <2>3. zs - zo \in {-1, 0, 1}
    BY <1>5, <1>8, <1>9, BalancedIs DEF other
  <2>4. zo > zs
    BY DEF z, other
  <2>5. Height(t[z]) + 1 = a + 2
    <3>1. t[x].height[side] = HeightBelow(t, z)
      BY <1>5, <1>9, <1>15 DEF z
    <3>2. HeightBelow(t, z) = Height(t[z]) + 1
      BY <1>5, <1>8 DEF HeightBelow
    <3> QED
      BY <3>1, <3>2 DEF other
  <2>6. yo \in Nat /\ ys \in Nat /\ Height(t[y]) = Larger(ys, yo)
    BY <1>5, <1>8, HeightIs DEF other
  <2>7. ys - yo \in {-1, 0, 1}
    BY <1>5, <1>8, <1>9, BalancedIs DEF other
  <2>8. Height(t[y]) + 1 = zo
    <3>1. t[z].height[other] = HeightBelow(t, y)
      BY <1>5, <1>8, <1>9, <1>15 DEF y
    <3>2. HeightBelow(t, y) = Height(t[y]) + 1
      BY <1>5, <1>8 DEF HeightBelow
    <3> QED
      BY <3>1, <3>2
  <2> QED
    BY <2>1, <2>2, <2>3, <2>4, <2>5, <2>6, <2>7, <2>8
<1>17. /\ Height(u[x]) = Larger(yo, a) /\ Height(u[z]) = Larger(zs, ys)
       /\ Height(u[y]) = Larger(Height(u[z]) + 1, Height(u[z]) + 1)
  BY <1>8, <1>10, <1>14, HeightIs DEF other
<1> HIDE DEF a, zo, zs, yo, ys
<1>18. /\ yo - a \in {-1, 0, 1} /\ zs - ys \in {-1, 0, 1}
       /\ Larger(zs, ys) = a /\ Larger(yo, a) = a
  BY <1>16 DEF Larger
<1>19. Height(u[x]) = a /\ Height(u[z]) = a
  BY <1>17, <1>18
<1>20. ASSUME NEW i \in T, NEW s \in Sides, ~(i = p /\ s = cs)
       PROVE  HeightHolds(u, i, s)
  <2> DEFINE k == t[i].child[s]
  <2>1. t[i].height[s] = HeightBelow(t, k)
    BY <1>15, <1>20
  <2>2. k # NIL => k \in T /\ t[k].parent = i
    BY <1>6
  <2>3. CASE i # x /\ i # y /\ i # z
    <3>1. u[i].child[s] = k
      BY <1>4, <1>5, <1>20, <2>3 DEF ChildWith
    <3>2. k # x
      <4>1. k = x => i = p /\ t[p].child[s] = t[p].child[cs] /\ t[p].child[s] # NIL
        BY <1>5, <1>8, <2>2 DEF p
      <4> QED
        BY <1>7, <1>8, <1>20, <4>1
    <3>3. k # y /\ k # z
      BY <1>5, <1>8, <2>2, <2>3
    <3> HIDE DEF k
    <3>4. HeightBelow(u, k) = HeightBelow(t, k)
      BY <1>12, <1>13, <2>2, <3>2, <3>3
    <3> QED
      BY <1>11, <2>1, <2>3, <3>1, <3>4 DEF HeightHolds
  <2>4. CASE i = x /\ s = other
    <3>1. u[i].child[s] = k
      BY <1>4, <1>8, <2>4 DEF ChildWith
    <3>2. k # z
      BY <1>5, <1>7, <1>8, <2>4 DEF z
    <3>3. k # x
      BY <1>5, <1>8, <1>9, <2>2, <2>4 DEF p
    <3>4. k # y
      BY <1>5, <1>8, <1>9, <2>2, <2>4
    <3> HIDE DEF k
    <3>5. HeightBelow(u, k) = HeightBelow(t, k)
      BY <1>12, <1>13, <2>2, <3>2, <3>3, <3>4
    <3> QED
      BY <1>14, <2>1, <2>4, <3>1, <3>5 DEF HeightHolds
  <2>5. CASE i = z /\ s = side
    <3>1. u[i].child[s] = k
      BY <1>4, <1>8, <2>5 DEF ChildWith
    <3>2. k # z
      BY <1>5, <1>8, <1>9, <2>2, <2>5
    <3>3. k # x
      BY <1>5, <1>8, <1>9, <2>2, <2>5 DEF p
    <3>4. k # y
      BY <1>5, <1>7, <1>8, <2>5 DEF y
    <3> HIDE DEF k
    <3>5. HeightBelow(u, k) = HeightBelow(t, k)
      BY <1>12, <1>13, <2>2, <3>2, <3>3, <3>4
    <3> QED
      BY <1>14, <2>1, <2>5, <3>1, <3>5 DEF HeightHolds
  <2>6. CASE i = x /\ s = side
    <3>1. u[i].child[s] = outer
      BY <1>4, <2>6 DEF ChildWith
    <3>2. HeightBelow(u, outer) = HeightBelow(t, outer)
      BY <1>8, <1>9, <1>12, <1>13
    <3>3. t[y].height[other] = HeightBelow(t, outer)
      BY <1>5, <1>8, <1>9, <1>15 DEF outer
    <3> QED
      BY <1>14, <2>6, <3>1, <3>2, <3>3 DEF HeightHolds
  <2>7. CASE i = z /\ s = other
    <3>1. u[i].child[s] = inner
      BY <1>4, <2>7 DEF ChildWith
    <3>2. HeightBelow(u, inner) = HeightBelow(t, inner)
      BY <1>8, <1>9, <1>12, <1>13
    <3>3. t[y].height[side] = HeightBelow(t, inner)
      BY <1>5, <1>8, <1>9, <1>15 DEF inner
    <3> QED
      BY <1>14, <2>7, <3>1, <3>2, <3>3 DEF HeightHolds
  <2>8. CASE i = y /\ s = side
    BY <1>4, <1>5, <1>8, <1>14, <2>8 DEF HeightHolds, HeightBelow
  <2>9. CASE i = y /\ s = other
    BY <1>4, <1>5, <1>14, <1>19, <2>9 DEF HeightHolds, HeightBelow
  <2> QED
    BY <1>8, <2>3, <2>4, <2>5, <2>6, <2>7, <2>8, <2>9
<1>21. HeightsBut(u, T, p, cs)
  BY <1>20 DEF HeightsBut
<1>22. BalancedAt(u, x) /\ BalancedAt(u, z) /\ BalancedAt(u, y)
  <2>1. BalancedAt(u, x) /\ BalancedAt(u, z)
    BY <1>8, <1>10, <1>14, <1>18, BalancedIs DEF a, zs, yo, ys, other
  <2>2. u[y].height[side] - u[y].height[other] \in {-1, 0, 1}
    BY <1>14, <1>16, <1>19
  <2> QED
    BY <1>8, <1>10, <2>1, <2>2, BalancedIs DEF other
<1>23. ASSUME NEW i \in T PROVE BalancedAt(u, i)
  <2>1. CASE i = x \/ i = z \/ i = y
    BY <1>22, <2>1
  <2>2. CASE i # x /\ i # z /\ i # y
    BY <1>11, <2>2 DEF BalancedAt, Sides
  <2> QED
    BY <2>1, <2>2
<1>24. Height(u[z]) = t[x].height[other]
  BY <1>19 DEF a
<1> QED
  BY <1>21, <1>23, <1>24 DEF z, p, cs, other

-----------------------------------------------------------------------------
(* Retracing.                                                              *)

(* What retracing leaves alone.                                            *)
Framed(t, u, T) ==
  /\ u \in Seq(TreeNode) /\ DOMAIN u = DOMAIN t /\ Len(u) = Len(t)
  /\ \A i \in DOMAIN t : SameKept(u[i], t[i])
  /\ \A i \in DOMAIN t \ T : u[i] = t[i]

(* A search tree of balanced nodes, of which the height on one side of one *)
(* node, if any, is to change by delta.                                    *)
Retracing(s, T, lo, hi) ==
  /\ Tree(s.trees, s.root, T, lo, hi)
  /\ \A i \in T : BalancedAt(s.trees, i)
  /\ HeightsBut(s.trees, T, s.id, s.side)
  /\ s.id # NIL =>
       /\ s.id \in T /\ s.side \in Sides /\ s.delta \in {-1, 1}
       /\ HeightBelow(s.trees, s.trees[s.id].child[s.side])
            = s.trees[s.id].height[s.side] + s.delta

(* The height of the subtree at r goes to its parent p.                    *)
LEMMA RetracingOn ==
  ASSUME NEW u, NEW newRoot, NEW T, NEW lo, NEW hi, Tree(u, newRoot, T, lo, hi),
         NEW p, NEW cs \in Sides, NEW r \in T, NEW old \in Nat,
         HeightsBut(u, T, p, cs), \A i \in T : BalancedAt(u, i),
         NEW height, height = Height(u[r]), height - old \in {-1, 0, 1},
         p # NIL => p \in T /\ u[p].child[cs] = r /\ u[p].height[cs] = old + 1
  PROVE  Retracing([trees |-> u, root |-> newRoot, id |-> IF height = old THEN NIL ELSE p,
                    side |-> cs, delta |-> height - old], T, lo, hi)
<1> DEFINE s == [trees |-> u, root |-> newRoot, id |-> IF height = old THEN NIL ELSE p,
                 side |-> cs, delta |-> height - old]
<1>1. r # NIL /\ u[r] \in TreeNode /\ \A i \in T : i # NIL
  BY TreeTypes
<1>2. HeightBelow(u, r) = height + 1 /\ height \in Nat
  BY <1>1, HeightType DEF HeightBelow
<1>3. CASE height = old
  <2>1. HeightsBut(u, T, NIL, cs)
    <3> SUFFICES ASSUME NEW i \in T, NEW c \in Sides PROVE HeightHolds(u, i, c)
      BY DEF HeightsBut
    <3>1. CASE i = p /\ c = cs
      BY <1>1, <1>2, <1>3, <3>1 DEF HeightHolds
    <3>2. CASE ~(i = p /\ c = cs)
      BY <3>2 DEF HeightsBut
    <3> QED
      BY <3>1, <3>2
  <2>2. s.id = NIL /\ s.trees = u /\ s.root = newRoot /\ s.side = cs
    BY <1>3
  <2> HIDE DEF s
  <2>3. Retracing(s, T, lo, hi)
    BY <2>1, <2>2 DEF Retracing
  <2> QED
    BY <2>3 DEF s
<1>4. CASE height # old
  <2>1. s.id = p /\ s.trees = u /\ s.root = newRoot /\ s.side = cs /\ s.delta = height - old
    BY <1>4
  <2>2. height - old \in {-1, 1}
    BY <1>2, <1>4
  <2>3. p # NIL => HeightBelow(u, u[p].child[cs]) = u[p].height[cs] + (height - old)
    BY <1>2
  <2> HIDE DEF s
  <2>4. Retracing(s, T, lo, hi)
    BY <2>1, <2>2, <2>3 DEF Retracing
  <2> QED
    BY <2>4 DEF s
<1> QED
  BY <1>3, <1>4

(* A retracing step goes to the parent, whose bounds stay.                 *)
RetraceGoes(s, r, T, lo, hi) ==
  \E lo2, hi2 :
    /\ Retracing(r, T, lo2, hi2)
    /\ Framed(s.trees, r.trees, T)
    /\ r.id # NIL => /\ r.id = s.trees[s.id].parent
                     /\ lo2[r.id] = lo[r.id] /\ hi2[r.id] = hi[r.id]

(* The nodes after a height on one side of x was updated.                  *)
Updated(t, t0, T, x, side, height) ==
  /\ SameLinks(t, t0) /\ Framed(t, t0, T)
  /\ t0[x].height[side] = height /\ t0[x].height[Other(side)] = t[x].height[Other(side)]
  /\ \A i \in DOMAIN t : i # x => t0[i] = t[i]

(* An update of one height is one.                                         *)
LEMMA UpdatedIs ==
  ASSUME NEW t \in Seq(TreeNode), NEW T, T \subseteq DOMAIN t, NEW x \in T, NEW side \in Sides,
         NEW delta, t[x].height[side] + delta \in Nat
  PROVE  Updated(t, [t EXCEPT ![x].height[side] = @ + delta], T, x, side,
                 t[x].height[side] + delta)
<1> DEFINE h == t[x].height[side] + delta
           n == [t[x] EXCEPT !.height[side] = h]
           t0 == [t EXCEPT ![x] = n]
<1>1. [t EXCEPT ![x].height[side] = @ + delta] = t0
  OBVIOUS
<1>2. t[x] \in TreeNode /\ x \in DOMAIN t
  BY ElementOfSeq, LenProperties
<1>3. t[x].height \in [Sides -> Nat]
  BY <1>2 DEF TreeNode
<1>4. Other(side) \in Sides /\ Other(side) # side
  BY DEF Other, Sides
<1>5. /\ n \in TreeNode /\ SameKept(n, t[x]) /\ n.parent = t[x].parent /\ n.child = t[x].child
      /\ n.height = [t[x].height EXCEPT ![side] = h]
  BY <1>2, <1>3 DEF TreeNode, SameKept
<1>6. n.height[side] = h /\ n.height[Other(side)] = t[x].height[Other(side)]
  BY <1>3, <1>4, <1>5
<1> HIDE DEF n, h
<1>7. /\ t0 \in Seq(TreeNode) /\ DOMAIN t0 = DOMAIN t /\ Len(t0) = Len(t) /\ t0[x] = n
      /\ \A i \in DOMAIN t : i # x => t0[i] = t[i]
  BY <1>2, <1>5, NodeSet
<1> HIDE DEF t0
<1>8. \A i \in DOMAIN t : SameKept(t0[i], t[i])
  BY <1>5, <1>7 DEF SameKept
<1>9. Framed(t, t0, T)
  BY <1>7, <1>8 DEF Framed
<1>10. SameLinks(t, t0)
  BY <1>5, <1>7, <1>8 DEF SameLinks, SameKept
<1>11. Updated(t, t0, T, x, side, h)
  BY <1>6, <1>7, <1>9, <1>10 DEF Updated
<1> QED
  BY <1>1, <1>11 DEF t0, n, h

(* Putting a child where it is changes nothing.                            *)
LEMMA AttachedSame ==
  ASSUME NEW t \in Seq(TreeNode), NEW p \in DOMAIN t, NEW cs \in Sides
  PROVE  [t EXCEPT ![p].child[cs] = t[p].child[cs]] = t
<1>1. t[p] \in TreeNode
  BY ElementOfSeq, LenProperties
<1>2. t[p].child \in [Sides -> Nat]
  BY <1>1 DEF TreeNode
<1>3. [t[p].child EXCEPT ![cs] = t[p].child[cs]] = t[p].child
  BY <1>2
<1>4. [t[p] EXCEPT !.child[cs] = t[p].child[cs]] = t[p]
  <2>1. [t[p] EXCEPT !.child[cs] = t[p].child[cs]] = [t[p] EXCEPT !.child = t[p].child]
    BY <1>3
  <2> QED
    BY <1>1, <2>1 DEF TreeNode
<1>5. [t EXCEPT ![p].child[cs] = t[p].child[cs]] = [t EXCEPT ![p] = t[p]]
  BY <1>4
<1>6. [t EXCEPT ![p] = t[p]] = t
  <2>1. t = [i \in DOMAIN t |-> t[i]]
    BY LenProperties
  <2> QED
    BY <2>1
<1> QED
  BY <1>5, <1>6

(* Frames follow one another.                                              *)
LEMMA FramedOn ==
  ASSUME NEW t, NEW u, NEW w, NEW T, Framed(t, u, T), Framed(u, w, T)
  PROVE  Framed(t, w, T)
<1>1. \A i \in DOMAIN t : SameKept(w[i], t[i])
  BY DEF Framed, SameKept
<1>2. \A i \in DOMAIN t \ T : w[i] = t[i]
  BY DEF Framed
<1> QED
  BY <1>1, <1>2 DEF Framed

(* Rotations stay within the tree.                                         *)
LEMMA RotatesFramed ==
  ASSUME NEW t, NEW root, NEW T, NEW lo, NEW hi, Tree(t, root, T, lo, hi),
         NEW x \in T, NEW side \in Sides, t[x].child[side] # NIL,
         NEW u, NEW newRoot, Rotates(t, root, x, side, u, newRoot)
  PROVE  Framed(t, u, T)
<1> DEFINE other == Other(side)
           z == t[x].child[side]
           c == t[z].child[other]
           p == t[x].parent
<1>1. z \in T /\ (p # NIL => p \in T) /\ other \in Sides
  <2>1. FamilyOf(t, T, lo, hi, x, side)
    BY Family
  <2> QED
    BY <2>1 DEF FamilyOf
<1>2. c # NIL => c \in T
  <2> HIDE DEF z
  <2> QED
    BY <1>1, ChildBelow
<1>3. /\ u \in Seq(TreeNode) /\ Len(u) = Len(t) /\ DOMAIN u = DOMAIN t
      /\ \A i \in DOMAIN t \ {x, z, c, p} : u[i] = t[i]
  BY Zenon DEF Rotates
<1>4. \A i \in DOMAIN t : u[i] \in TreeNode /\ SameKept(u[i], t[i])
  <2>1. t \in Seq(TreeNode)
    BY DEF Tree
  <2>2. x \in DOMAIN t
    BY TreeTypes
  <2> QED
    BY <2>1, <2>2, RotatesKept
<1>5. NIL \notin DOMAIN t
  BY TreeTypes
<1> HIDE DEF z, c, p
<1> QED
  BY <1>1, <1>2, <1>3, <1>4, <1>5 DEF Framed

(* A double rotation leaves alone what is not of the tree, and what is     *)
(* kept in its nodes.                                                      *)
LEMMA RotatesTwiceFramed ==
  ASSUME NEW t, NEW root, NEW T, NEW lo, NEW hi, Tree(t, root, T, lo, hi),
         NEW x \in T, NEW side \in Sides, t[x].child[side] # NIL,
         t[t[x].child[side]].child[Other(side)] # NIL,
         NEW u, NEW newRoot, RotatesTwice(t, root, x, side, u, newRoot)
  PROVE  Framed(t, u, T)
<1> DEFINE other == Other(side)
           z == t[x].child[side]
           y == t[z].child[other]
           inner == t[y].child[side]
           outer == t[y].child[other]
           p == t[x].parent
           cs == ChildSide(t, p, x)
<1>1. Kin(t, T, lo, hi, x, side, z, y, inner, outer, p, cs)
  BY KinHold
<1>2. TwiceLinks(t, root, x, side, u, newRoot)
  BY RotatesTwiceLinks
<1>3. \A i \in DOMAIN t : SameKept(u[i], t[i])
  BY <1>2, Zenon DEF TwiceLinks
<1>4. /\ z \in T /\ y \in T
      /\ inner # NIL => inner \in T
      /\ outer # NIL => outer \in T
      /\ p # NIL => p \in T
  BY <1>1, Zenon DEF Kin
<1>5. /\ u \in Seq(TreeNode) /\ Len(u) = Len(t) /\ DOMAIN u = DOMAIN t
      /\ \A i \in DOMAIN t \ {x, y, z, inner, outer, p} : u[i] = t[i]
  BY Zenon DEF RotatesTwice
<1>6. NIL \notin DOMAIN t
  BY TreeTypes
<1> HIDE DEF z, y, inner, outer, p
<1> QED
  BY <1>3, <1>4, <1>5, <1>6 DEF Framed

(* The height that an update leaves at the node and at its sides.          *)
LEMMA HeavySide ==
  ASSUME NEW n \in TreeNode, NEW m \in TreeNode, NEW side \in Sides, NEW delta \in {-1, 1},
         n.height["left"] - n.height["right"] \in {-1, 0, 1},
         m.height[side] = n.height[side] + delta,
         m.height[Other(side)] = n.height[Other(side)]
  PROVE  /\ m.height["left"] - m.height["right"] \in {-1, 0, 1} =>
              Height(m) - Height(n) \in {-1, 0, 1}
         /\ ~(m.height["left"] - m.height["right"] \in {-1, 0, 1}) =>
              LET heavy == IF m.height["left"] > m.height["right"] THEN "left" ELSE "right"
                  a == m.height[Other(heavy)]
              IN /\ m.height[heavy] = a + 2 /\ a \in Nat
                 /\ a + 1 - Height(n) \in {-1, 0, 1}
                 /\ a + 2 - Height(n) \in {-1, 0, 1}
<1>1. n.height \in [Sides -> Nat] /\ m.height \in [Sides -> Nat]
  BY DEF TreeNode
<1>2. /\ n.height["left"] \in Nat /\ n.height["right"] \in Nat
      /\ m.height["left"] \in Nat /\ m.height["right"] \in Nat
  BY <1>1 DEF Sides
<1>3. \/ m.height["left"] = n.height["left"] + delta /\ m.height["right"] = n.height["right"]
      \/ m.height["right"] = n.height["right"] + delta /\ m.height["left"] = n.height["left"]
  BY DEF Sides, Other
<1> DEFINE nl == n.height["left"]
           nr == n.height["right"]
           ml == m.height["left"]
           mr == m.height["right"]
<1>4. Height(n) = Larger(nl, nr) /\ Height(m) = Larger(ml, mr)
  BY DEF Height
<1> HIDE DEF nl, nr, ml, mr
<1>5. ml - mr \in {-1, 0, 1} => Larger(ml, mr) - Larger(nl, nr) \in {-1, 0, 1}
  BY <1>2, <1>3 DEF Larger, nl, nr, ml, mr
<1>6. ~(ml - mr \in {-1, 0, 1}) =>
        \/ /\ ml > mr /\ ml = mr + 2 /\ mr + 1 - Larger(nl, nr) \in {-1, 0, 1}
           /\ mr + 2 - Larger(nl, nr) \in {-1, 0, 1}
        \/ /\ ~(ml > mr) /\ mr = ml + 2 /\ ml + 1 - Larger(nl, nr) \in {-1, 0, 1}
           /\ ml + 2 - Larger(nl, nr) \in {-1, 0, 1}
  <2>1. /\ nl \in Nat /\ nr \in Nat /\ ml \in Nat /\ mr \in Nat /\ nl - nr \in {-1, 0, 1}
        /\ (ml = nl + delta /\ mr = nr) \/ (mr = nr + delta /\ ml = nl)
    BY <1>2, <1>3 DEF nl, nr, ml, mr
  <2>2. CASE delta = 1
    <3>1. CASE nl >= nr
      BY <2>1, <2>2, <3>1 DEF Larger
    <3>2. CASE ~(nl >= nr)
      BY <2>1, <2>2, <3>2 DEF Larger
    <3> QED
      BY <3>1, <3>2
  <2>3. CASE delta = -1
    <3>1. CASE nl >= nr
      BY <2>1, <2>3, <3>1 DEF Larger
    <3>2. CASE ~(nl >= nr)
      BY <2>1, <2>3, <3>2 DEF Larger
    <3> QED
      BY <3>1, <3>2
  <2> QED
    BY <2>2, <2>3
<1>7. ml - mr \in {-1, 0, 1} => Height(m) - Height(n) \in {-1, 0, 1}
  BY <1>4, <1>5
<1>8. ASSUME ~(ml - mr \in {-1, 0, 1})
      PROVE  LET heavy == IF m.height["left"] > m.height["right"] THEN "left" ELSE "right"
                 a == m.height[Other(heavy)]
             IN /\ m.height[heavy] = a + 2 /\ a \in Nat
                /\ a + 1 - Height(n) \in {-1, 0, 1}
                /\ a + 2 - Height(n) \in {-1, 0, 1}
  <2>1. CASE ml > mr
    BY <1>2, <1>4, <1>6, <1>8, <2>1 DEF Other, ml, mr
  <2>2. CASE ~(ml > mr)
    BY <1>2, <1>4, <1>6, <1>8, <2>2 DEF Other, ml, mr
  <2> QED
    BY <2>1, <2>2
<1> QED
  BY <1>7, <1>8 DEF ml, mr

(* One step of retracing.                                                  *)
LEMMA RetraceStep ==
  ASSUME NEW s, NEW T, NEW lo, NEW hi, Retracing(s, T, lo, hi), s.id # NIL
  PROVE  RetraceGoes(s, RetraceOne(s), T, lo, hi)
<1> DEFINE t == s.trees
           x == s.id
           p == t[x].parent
           cs == ChildSide(t, p, x)
           old == Height(t[x])
           t0 == [t EXCEPT ![x].height[s.side] = @ + s.delta]
           h == t0[x].height
           heavy == IF h["left"] > h["right"] THEN "left" ELSE "right"
           sub == Rebalanced(t0, x)
           tree == Attached(sub.trees, s.root, p, ChildSide(sub.trees, p, x), sub.root)
           r == [trees |-> tree.trees, root |-> tree.root,
                 id |-> IF sub.height = old THEN NIL ELSE p,
                 side |-> ChildSide(sub.trees, p, x), delta |-> sub.height - old]
<1>1. RetraceOne(s) = r
  BY DEF RetraceOne
<1>2. /\ Tree(t, s.root, T, lo, hi) /\ \A i \in T : BalancedAt(t, i)
      /\ HeightsBut(t, T, x, s.side)
      /\ x \in T /\ s.side \in Sides /\ s.delta \in {-1, 1}
      /\ HeightBelow(t, t[x].child[s.side]) = t[x].height[s.side] + s.delta
  BY DEF Retracing
<1>3. /\ t \in Seq(TreeNode) /\ T \subseteq DOMAIN t /\ t[x] \in TreeNode /\ x # NIL
      /\ \A i \in T : i # NIL /\ t[i] \in TreeNode
  <2>1. t \in Seq(TreeNode)
    BY <1>2 DEF Tree
  <2>2. Tree(t, s.root, T, lo, hi) /\ x \in T
    BY <1>2
  <2> HIDE DEF t, x
  <2> QED
    BY <2>1, <2>2, TreeTypes
<1>4. t[x].height[s.side] + s.delta \in Nat
  <2>1. t[x].child[s.side] # NIL => t[x].child[s.side] \in T
    <3> HIDE DEF t, x
    <3> QED
      BY <1>2, ChildBelow
  <2>2. HeightBelow(t, t[x].child[s.side]) \in Nat
    BY <1>3, <2>1, HeightType DEF HeightBelow
  <2> QED
    BY <1>2, <2>2
<1>5. Updated(t, t0, T, x, s.side, t[x].height[s.side] + s.delta)
  <2> HIDE DEF t, x
  <2> QED
    BY <1>2, <1>3, <1>4, UpdatedIs
<1> HIDE DEF t0
<1>6. /\ SameLinks(t, t0) /\ Framed(t, t0, T)
      /\ t0[x].height[s.side] = t[x].height[s.side] + s.delta
      /\ t0[x].height[Other(s.side)] = t[x].height[Other(s.side)]
      /\ \A i \in DOMAIN t : i # x => t0[i] = t[i]
  BY <1>5 DEF Updated
<1>7. Tree(t0, s.root, T, lo, hi)
  <2> HIDE DEF t
  <2> QED
    BY <1>2, <1>6, SameLinksTree
<1>8. /\ t0 \in Seq(TreeNode) /\ DOMAIN t0 = DOMAIN t
      /\ t0[x].parent = p /\ \A c \in Sides : t0[x].child[c] = t[x].child[c]
      /\ \A i \in T : t0[i] \in TreeNode
  <2>1. t0 \in Seq(TreeNode) /\ DOMAIN t0 = DOMAIN t
        /\ t0[x].parent = p /\ \A c \in Sides : t0[x].child[c] = t[x].child[c]
    BY <1>2, <1>3, <1>6 DEF SameLinks
  <2>2. \A i \in T : t0[i] \in TreeNode
    BY <1>7, TreeTypes
  <2> QED
    BY <2>1, <2>2
<1>9. /\ Other(s.side) \in Sides /\ Other(s.side) # s.side /\ cs \in Sides
      /\ \A c \in Sides : c = s.side \/ c = Other(s.side)
      /\ p # NIL => /\ p \in T /\ p # x /\ t[p].child[cs] = x
                    /\ t0[p] = t[p] /\ t0[p].child[cs] = x
  <2>1. FamilyOf(t, T, lo, hi, x, s.side)
    <3> HIDE DEF t, x
    <3> QED
      BY <1>2, Family
  <2>2. p # NIL => p \in T /\ hi[x] - lo[x] < hi[p] - lo[p] /\ t[p].child[cs] = x
    BY <2>1 DEF FamilyOf
  <2>3. p # NIL => p # x
    <3>1. hi[x] \in Nat /\ lo[x] \in Nat
      BY <2>1 DEF FamilyOf
    <3> HIDE DEF p, x, t, cs
    <3> QED
      BY <2>2, <3>1
  <2>4. p # NIL => t0[p] = t[p]
    BY <1>3, <1>6, <2>2, <2>3
  <2>5. /\ Other(s.side) \in Sides /\ Other(s.side) # s.side /\ cs \in Sides
        /\ \A c \in Sides : c = s.side \/ c = Other(s.side)
    BY <2>1 DEF FamilyOf
  <2> HIDE DEF p, cs
  <2> QED
    BY <2>2, <2>3, <2>4, <2>5
<1>10. ChildSide(t0, p, x) = cs
  <2> HIDE DEF p
  <2> QED
    BY <1>9 DEF ChildSide, cs
<1>11. \A i \in T : \A c \in Sides : t[i].child[c] # NIL =>
         t[i].child[c] \in T /\ t[t[i].child[c]].parent = i
  <2> HIDE DEF t
  <2> QED
    BY <1>2, ChildBelow
<1>12. \A i \in T : \A s1, s2 \in Sides :
         t[i].child[s1] = t[i].child[s2] /\ t[i].child[s1] # NIL => s1 = s2
  <2> HIDE DEF t
  <2> QED
    BY <1>2, OneSide
<1>13. old \in Nat /\ (p # NIL => t[p].height[cs] = old + 1)
  <2>1. old \in Nat
    BY <1>3, HeightType
  <2>2. p # NIL => t[p].height[cs] = HeightBelow(t, t[p].child[cs])
    <3> HIDE DEF t, p, cs, x
    <3> QED
      BY <1>2, <1>9 DEF HeightsBut, HeightHolds
  <2> QED
    BY <1>3, <1>9, <2>1, <2>2 DEF HeightBelow
<1>14. HeightsBut(t0, T, p, cs)
  <2> SUFFICES ASSUME NEW i \in T, NEW c \in Sides, ~(i = p /\ c = cs)
               PROVE  HeightHolds(t0, i, c)
    BY DEF HeightsBut
  <2> DEFINE k == t[i].child[c]
  <2>1. k # NIL => k \in T /\ t[k].parent = i
    BY <1>11
  <2>2. t0[i].child[c] = k
    BY <1>3, <1>6, <1>8
  <2>3. k # x
    <3>1. k = x => i = p /\ t[p].child[c] = t[p].child[cs] /\ t[p].child[c] # NIL
      BY <1>3, <1>9, <2>1
    <3> HIDE DEF k, p, cs, t
    <3> QED
      BY <1>3, <1>9, <1>12, <3>1
  <2>4. HeightBelow(t0, k) = HeightBelow(t, k)
    <3> HIDE DEF k
    <3> QED
      BY <1>3, <1>6, <2>1, <2>3 DEF HeightBelow
  <2>5. CASE i = x /\ c = s.side
    <3>1. t0[i].height[c] = HeightBelow(t, k)
      BY <1>2, <1>6, <2>5
    <3> QED
      BY <2>2, <2>4, <3>1 DEF HeightHolds
  <2>6. CASE ~(i = x /\ c = s.side)
    <3>1. t[i].height[c] = HeightBelow(t, k)
      BY <1>2, <2>6 DEF HeightsBut, HeightHolds
    <3>2. t0[i].height[c] = t[i].height[c]
      BY <1>3, <1>6, <1>9, <2>6
    <3> QED
      BY <2>2, <2>4, <3>1, <3>2 DEF HeightHolds
  <2> QED
    BY <2>5, <2>6
<1>15. \A i \in T : i # x => BalancedAt(t0, i)
  BY <1>2, <1>3, <1>6 DEF BalancedAt
<1>16. /\ BalancedAt(t0, x) => Height(t0[x]) - old \in {-1, 0, 1}
       /\ ~BalancedAt(t0, x) =>
            /\ t0[x].height[heavy] = t0[x].height[Other(heavy)] + 2
            /\ t0[x].height[Other(heavy)] \in Nat
            /\ t0[x].height[Other(heavy)] + 1 - old \in {-1, 0, 1}
            /\ t0[x].height[Other(heavy)] + 2 - old \in {-1, 0, 1}
  <2>1. t0[x] \in TreeNode /\ BalancedAt(t, x)
    BY <1>2, <1>8
  <2> HIDE DEF t, x
  <2> QED
    BY <1>2, <1>3, <1>6, <2>1, HeavySide DEF BalancedAt
<1> DEFINE Done(v) ==
             /\ r = [trees |-> tree.trees, root |-> tree.root,
                     id |-> IF sub.height = old THEN NIL ELSE p,
                     side |-> cs, delta |-> sub.height - old]
             /\ Framed(t0, tree.trees, T)
             /\ TreeAbove(tree.trees, tree.root, T, lo, hi, p)
             /\ HeightsBut(tree.trees, T, p, cs) /\ \A i \in T : BalancedAt(tree.trees, i)
             /\ v \in T /\ sub.height = Height(tree.trees[v]) /\ sub.height - old \in {-1, 0, 1}
             /\ p # NIL => tree.trees[p].child[cs] = v /\ tree.trees[p].height[cs] = old + 1
<1>17. ASSUME BalancedAt(t0, x) PROVE Done(x)
  <2>1. sub = [trees |-> t0, root |-> x, height |-> Height(t0[x])]
    BY <1>17 DEF Rebalanced, BalancedAt
  <2>2. tree = [trees |-> t0, root |-> s.root]
    <3>1. tree = Attached(t0, s.root, p, cs, x)
      BY <1>10, <2>1
    <3>2. CASE p = NIL
      <4>1. x = s.root
        BY <1>2, <3>2 DEF Tree, ParentHolds
      <4> QED
        BY <3>1, <3>2, <4>1 DEF Attached
    <3>3. CASE p # NIL
      <4>1. [t0 EXCEPT ![p].child[cs] = x] = t0
        <5>1. p \in DOMAIN t0
          BY <1>3, <1>8, <1>9, <3>3
        <5>2. [t0 EXCEPT ![p].child[cs] = t0[p].child[cs]] = t0
          <6> HIDE DEF p, cs
          <6> QED
            BY <1>8, <1>9, <5>1, AttachedSame
        <5> QED
          BY <1>9, <3>3, <5>2, Zenon
      <4> HIDE DEF tree
      <4> QED
        BY <3>1, <3>3, <4>1 DEF Attached
    <3> QED
      BY <3>2, <3>3
  <2>3. TreeAbove(t0, s.root, T, lo, hi, p)
    BY <1>7 DEF TreeAbove
  <2>4. Framed(t0, t0, T)
    BY <1>8 DEF Framed, SameKept
  <2>5. Done(x)
    <3>1. r = [trees |-> tree.trees, root |-> tree.root,
               id |-> IF sub.height = old THEN NIL ELSE p,
               side |-> cs, delta |-> sub.height - old]
      BY <1>10, <2>1
    <3>2. p # NIL => t0[p].child[cs] = x /\ t0[p].height[cs] = old + 1
      BY <1>9, <1>13
    <3> HIDE DEF r, p, cs, old, sub, tree, x
    <3> QED
      BY <1>2, <1>14, <1>15, <1>16, <1>17, <2>1, <2>2, <2>3, <2>4, <3>1, <3>2
  <2> QED
    BY <2>5, Zenon
<1>18. ASSUME ~BalancedAt(t0, x) PROVE \E v : Done(v)
  <2> DEFINE other == Other(heavy)
             a == t0[x].height[other]
             z == t0[x].child[heavy]
             y == t0[z].child[other]
  <2>1. heavy \in Sides /\ other \in Sides
    BY DEF Sides, Other
  <2>2. /\ t0[x].height[heavy] = a + 2 /\ a \in Nat
        /\ a + 1 - old \in {-1, 0, 1} /\ a + 2 - old \in {-1, 0, 1}
    BY <1>16, <1>18
  <2>3. sub = Rebalance(t0, x, heavy)
    BY <1>18 DEF Rebalanced, BalancedAt
  <2> HIDE DEF heavy, t, x
  <2>4. HeightBelow(t0, z) = a + 2
    <3>1. ~(x = p /\ heavy = cs)
      BY <1>3, <1>9
    <3> HIDE DEF p, cs
    <3>2. HeightHolds(t0, x, heavy)
      BY <1>2, <1>14, <2>1, <3>1 DEF HeightsBut
    <3> QED
      BY <2>2, <3>2 DEF HeightHolds
  <2>5. z # NIL /\ z \in T
    <3>1. z # NIL
      BY <2>2, <2>4 DEF HeightBelow
    <3> QED
      BY <1>2, <1>7, <2>1, <3>1, ChildBelow
  <2>6. /\ HeightsBut(t0, T, t0[x].parent, ChildSide(t0, t0[x].parent, x))
        /\ t0[x].height[heavy] = t0[x].height[Other(heavy)] + 2
        /\ t0[x].child[heavy] # NIL
    BY <1>8, <1>10, <1>14, <2>2, <2>5
  <2>7. p # NIL => t0[p].height[cs] = old + 1
    BY <1>9, <1>13
  <2>8. CASE t0[z].height[other] > t0[z].height[heavy]
    <3>1. sub = RotateTwice(t0, x, z, heavy)
      BY <2>3, <2>8 DEF Rebalance
    <3>2. y # NIL
      <4>1. HeightBelow(t0, y) = t0[z].height[other]
        <5>1. ~(z = p /\ other = cs)
          <6>1. t0[z].parent = x /\ t0[x].parent = p
            BY <1>2, <1>7, <1>8, <2>1, <2>5, ChildBelow
          <6>2. hi[z] - lo[z] < hi[x] - lo[x] /\ (p # NIL => hi[x] - lo[x] < hi[p] - lo[p])
            <7>1. FamilyOf(t0, T, lo, hi, x, heavy)
              BY <1>2, <1>7, <2>1, Family
            <7> QED
              BY <1>8, <2>5, <7>1 DEF FamilyOf
          <6>3. hi[z] \in Nat /\ lo[z] \in Nat /\ hi[x] \in Nat /\ lo[x] \in Nat
            BY <1>2, <1>7, <2>5, NodeBounds
          <6> HIDE DEF z, p, cs, other
          <6> QED
            BY <2>5, <6>2, <6>3
        <5> QED
          BY <1>14, <2>1, <2>5, <5>1 DEF HeightsBut, HeightHolds
      <4>2. t0[z].height[other] \in Nat /\ t0[z].height[heavy] \in Nat
        BY <1>8, <2>1, <2>5, HeightType
      <4> HIDE DEF y
      <4> QED
        BY <2>8, <4>1, <4>2 DEF HeightBelow
    <3>3. tree = RotatedTwiceAt(t0, s.root, x, heavy)
      BY <1>8, <3>1 DEF RotatedTwiceAt
    <3> DEFINE u == tree.trees
               newRoot == tree.root
    <3>4. /\ RotatesTwice(t0, s.root, x, heavy, u, newRoot)
          /\ sub.root = y /\ sub.height = Height(u[z]) + 1
          /\ ChildSide(sub.trees, p, x) = cs
      <4>1. /\ RotatesTwice(t0, s.root, x, heavy, RotatedTwiceAt(t0, s.root, x, heavy).trees,
                            RotatedTwiceAt(t0, s.root, x, heavy).root)
            /\ RotateTwice(t0, x, t0[x].child[heavy], heavy).root =
                 t0[t0[x].child[heavy]].child[Other(heavy)]
            /\ RotateTwice(t0, x, t0[x].child[heavy], heavy).height =
                 Height(RotatedTwiceAt(t0, s.root, x, heavy).trees[t0[x].child[heavy]]) + 1
            /\ ChildSide(RotateTwice(t0, x, t0[x].child[heavy], heavy).trees, t0[x].parent, x) =
                 ChildSide(t0, t0[x].parent, x)
        BY <1>2, <1>7, <2>1, <2>6, <3>2, RotateTwiceIs
      <4> HIDE DEF sub, tree
      <4> QED
        BY <4>1, <1>8, <1>10, <3>1, <3>3
    <3> HIDE DEF sub, tree
    <3>5. TreeAbove(u, newRoot, T, lo, hi, p)
      BY <1>2, <1>7, <1>8, <2>1, <2>6, <3>2, <3>4, RotatesTwiceTree
    <3>6. Framed(t0, u, T)
      BY <1>2, <1>7, <2>1, <2>6, <3>2, <3>4, RotatesTwiceFramed
    <3>7. /\ HeightsBut(u, T, p, cs) /\ \A i \in T : BalancedAt(u, i)
          /\ Height(u[z]) = a
      <4>1. /\ HeightsBut(u, T, t0[x].parent, ChildSide(t0, t0[x].parent, x))
            /\ \A i \in T : BalancedAt(u, i)
            /\ Height(u[t0[x].child[heavy]]) = t0[x].height[Other(heavy)]
        <5> HIDE DEF u, newRoot
        <5> QED
          BY <1>2, <1>7, <1>15, <2>1, <2>6, <2>8, <3>2, <3>4, RotatesTwiceHeights
      <4> QED
        BY <4>1, <1>8, <1>10
    <3>8. y \in T /\ Height(u[y]) = sub.height
      <4>1. y \in T
        BY <1>7, <2>1, <2>5, <3>2, ChildBelow
      <4>2. t0[y].height \in [Sides -> Nat]
        BY <1>8, <4>1, Zenon DEF TreeNode
      <4>3. \A c \in Sides : u[y].height[c] =
              With(With(t0[y].height, heavy, Height(u[z]) + 1), other, Height(u[z]) + 1)[c]
        BY <3>4, Zenon DEF RotatesTwice, NodeIs
      <4>4. \A c \in Sides : u[y].height[c] = Height(u[z]) + 1
        BY <2>1, <4>2, <4>3, Zenon DEF With, Other, Sides
      <4>5. Height(u[y]) = Height(u[z]) + 1
        BY <4>4, Zenon DEF Height, Larger, Sides
      <4> QED
        BY <3>4, <4>1, <4>5
    <3>9. p # NIL => u[p].child[cs] = y /\ u[p].height[cs] = old + 1
      <4>1. TwiceLinks(t0, s.root, x, heavy, u, newRoot)
        BY <1>2, <1>7, <2>1, <2>6, <3>2, <3>4, RotatesTwiceLinks
      <4>2. p # NIL => ChildWith(u[p], t0[p], cs, y)
        BY <4>1, <1>8, <1>10, Zenon DEF TwiceLinks
      <4>3. p # NIL => \A c \in Sides : u[p].height[c] = t0[p].height[c]
        BY <3>4, <1>8, ZenonT(40) DEF RotatesTwice, NodeIs
      <4> QED
        BY <1>9, <2>7, <4>2, <4>3 DEF ChildWith
    <3>10. Done(y)
      <4>1. r = [trees |-> tree.trees, root |-> tree.root,
                 id |-> IF sub.height = old THEN NIL ELSE p,
                 side |-> cs, delta |-> sub.height - old]
        BY <3>4
      <4>2. sub.height - old \in {-1, 0, 1}
        <5>1. sub.height = a + 1
          BY <3>4, <3>7
        <5>2. a + 1 - old \in {-1, 0, 1} /\ a \in Nat /\ old \in Nat
          BY <1>13, <2>2
        <5> HIDE DEF a, old
        <5> QED
          BY <5>1, <5>2
      <4> HIDE DEF r, p, cs, old, y, z, other
      <4> QED
        BY <3>5, <3>6, <3>7, <3>8, <3>9, <4>1, <4>2
    <3> QED
      BY <3>10, Zenon
  <2>9. CASE ~(t0[z].height[other] > t0[z].height[heavy])
    <3>1. sub = Rotate(t0, x, z, heavy)
      BY <2>3, <2>9 DEF Rebalance
    <3>3. tree = RotatedAt(t0, s.root, x, heavy)
      BY <1>8, <3>1 DEF RotatedAt
    <3> DEFINE u == tree.trees
               newRoot == tree.root
    <3>4. /\ Rotates(t0, s.root, x, heavy, u, newRoot)
          /\ sub.root = z /\ sub.height = Height(u[z])
          /\ ChildSide(sub.trees, p, x) = cs
      <4>1. /\ Rotates(t0, s.root, x, heavy, RotatedAt(t0, s.root, x, heavy).trees,
                       RotatedAt(t0, s.root, x, heavy).root)
            /\ Rotate(t0, x, t0[x].child[heavy], heavy).root = t0[x].child[heavy]
            /\ Rotate(t0, x, t0[x].child[heavy], heavy).height =
                 Height(RotatedAt(t0, s.root, x, heavy).trees[t0[x].child[heavy]])
            /\ ChildSide(Rotate(t0, x, t0[x].child[heavy], heavy).trees, t0[x].parent, x) =
                 ChildSide(t0, t0[x].parent, x)
        BY <1>2, <1>7, <2>1, <2>6, RotateIs
      <4> HIDE DEF sub, tree
      <4> QED
        BY <4>1, <1>8, <1>10, <3>1, <3>3
    <3> HIDE DEF sub, tree
    <3>5. TreeAbove(u, newRoot, T, lo, hi, p)
      BY <1>2, <1>7, <1>8, <2>1, <2>6, <3>4, RotatesTreeAbove
    <3>6. Framed(t0, u, T)
      BY <1>2, <1>7, <2>1, <2>6, <3>4, RotatesFramed
    <3>7. /\ HeightsBut(u, T, p, cs) /\ \A i \in T : BalancedAt(u, i)
          /\ Height(u[z]) \in {a + 1, a + 2}
      <4>1. RotatedHeights(t0, u, T, x, t0[x].child[heavy], t0[x].parent,
                           ChildSide(t0, t0[x].parent, x), heavy)
        <5> HIDE DEF u, newRoot
        <5> QED
          BY <1>2, <1>7, <1>15, <2>1, <2>6, <2>9, <3>4, RotatesHeights
      <4> QED
        BY <4>1, <1>8, <1>10 DEF RotatedHeights
    <3>9. p # NIL => u[p].child[cs] = z /\ u[p].height[cs] = old + 1
      <4>1. RotLinks(t0, s.root, x, heavy, u, newRoot)
        BY <1>2, <1>7, <2>1, <2>6, <3>4, RotatesLinks
      <4>2. p # NIL => ChildWith(u[p], t0[p], cs, z)
        BY <4>1, <1>8, <1>10, Zenon DEF RotLinks
      <4>3. p # NIL => \A c \in Sides : u[p].height[c] = t0[p].height[c]
        BY <3>4, <1>8, Zenon DEF Rotates, NodeIs
      <4> QED
        BY <1>9, <2>7, <4>2, <4>3 DEF ChildWith
    <3>10. Done(z)
      <4>1. r = [trees |-> tree.trees, root |-> tree.root,
                 id |-> IF sub.height = old THEN NIL ELSE p,
                 side |-> cs, delta |-> sub.height - old]
        BY <3>4
      <4>2. sub.height - old \in {-1, 0, 1}
        <5>1. sub.height \in {a + 1, a + 2}
          BY <3>4, <3>7
        <5>2. /\ a + 1 - old \in {-1, 0, 1} /\ a + 2 - old \in {-1, 0, 1}
              /\ a \in Nat /\ old \in Nat
          BY <1>13, <2>2
        <5> HIDE DEF a, old
        <5> QED
          BY <5>1, <5>2
      <4> HIDE DEF r, p, cs, old, z, other
      <4> QED
        BY <2>5, <3>4, <3>5, <3>6, <3>7, <3>9, <4>1, <4>2
    <3> QED
      BY <3>10, Zenon
  <2> QED
    BY <2>8, <2>9, Zenon
<1>19. PICK v : Done(v)
  BY <1>17, <1>18, Zenon
<1> HIDE DEF sub, tree, r, old, cs, p, x, t
<1>20. PICK lo2, hi2 : /\ Tree(tree.trees, tree.root, T, lo2, hi2)
                       /\ p # NIL => lo2[p] = lo[p] /\ hi2[p] = hi[p]
  BY <1>19 DEF TreeAbove
<1>21. Retracing(r, T, lo2, hi2)
  <2>1. Retracing([trees |-> tree.trees, root |-> tree.root,
                   id |-> IF sub.height = old THEN NIL ELSE p,
                   side |-> cs, delta |-> sub.height - old], T, lo2, hi2)
    BY <1>9, <1>13, <1>19, <1>20, RetracingOn
  <2> QED
    BY <1>19, <2>1
<1>22. r.trees = tree.trees /\ (r.id # NIL => r.id = p)
  BY <1>19
<1>23. Framed(t, r.trees, T)
  BY <1>6, <1>19, <1>22, FramedOn
<1>24. RetraceGoes(s, r, T, lo, hi)
  BY <1>20, <1>21, <1>22, <1>23 DEF RetraceGoes, t, p, x
<1> QED
  BY <1>1, <1>24

(* A balanced search tree.                                                 *)
Searchable(t, root, T, lo, hi) ==
  /\ Tree(t, root, T, lo, hi)
  /\ \A i \in T : BalancedAt(t, i) /\ \A side \in Sides : HeightHolds(t, i, side)

AVLTree(t, root, T) == \E lo, hi : Searchable(t, root, T, lo, hi)

(* Retracing is a run of steps.                                            *)
RetraceNext(s) == IF s.id = NIL THEN s ELSE RetraceOne(s)

Runs(s0, n, g) == g = [k \in 0..n |-> IF k = 0 THEN s0 ELSE RetraceNext(g[k - 1])]

(* There is a run of retracing for any number of steps.                    *)
LEMMA RunExists ==
  ASSUME NEW s0
  PROVE  \A n \in Nat : \E g : Runs(s0, n, g)
<1> DEFINE N == {n \in Nat : ~\E g : Runs(s0, n, g)}
<1> SUFFICES ASSUME N # {} PROVE FALSE
  OBVIOUS
<1>1. PICK n \in N : \A j \in N : n <= j
  <2>1. N \in SUBSET Nat
    OBVIOUS
  <2> HIDE DEF N
  <2> QED
    BY <2>1, Least
<1>2. CASE n = 0
  <2> DEFINE g == [k \in 0..0 |-> s0]
  <2>1. g = [k \in 0..0 |-> IF k = 0 THEN s0 ELSE RetraceNext(g[k - 1])]
    OBVIOUS
  <2> HIDE DEF g
  <2>2. Runs(s0, 0, g)
    BY <2>1 DEF Runs
  <2> QED
    BY <1>2, <2>2
<1>3. CASE n # 0
  <2>1. n - 1 \in Nat /\ n - 1 < n /\ n \in Nat
    BY <1>3
  <2>2. n - 1 \notin N
    BY <1>1, <2>1
  <2>3. PICK g : Runs(s0, n - 1, g)
    BY <2>1, <2>2
  <2> DEFINE f == [k \in 0..n |-> IF k = n THEN RetraceNext(g[n - 1]) ELSE g[k]]
  <2>4. \A k \in 0..n - 1 : g[k] = IF k = 0 THEN s0 ELSE RetraceNext(g[k - 1])
    BY <2>3 DEF Runs
  <2>5. ASSUME NEW k \in 0..n
        PROVE  f[k] = IF k = 0 THEN s0 ELSE RetraceNext(f[k - 1])
    <3>1. CASE k = n
      <4>1. f[k] = RetraceNext(g[n - 1])
        BY <3>1
      <4>2. f[k - 1] = g[n - 1]
        BY <2>1, <3>1
      <4> HIDE DEF f
      <4> QED
        BY <1>3, <3>1, <4>1, <4>2
    <3>2. CASE k # n
      <4>1. k \in 0..n - 1 /\ f[k] = g[k]
        BY <2>1, <3>2
      <4>2. k # 0 => f[k - 1] = g[k - 1]
        BY <2>1, <4>1
      <4> HIDE DEF f
      <4> QED
        BY <2>4, <4>1, <4>2
    <3> QED
      BY <3>1, <3>2
  <2>6. f = [k \in 0..n |-> IF k = 0 THEN s0 ELSE RetraceNext(f[k - 1])]
    BY <2>5
  <2> HIDE DEF f
  <2>7. Runs(s0, n, f)
    BY <2>6 DEF Runs
  <2> QED
    BY <2>7
<1> QED
  BY <1>2, <1>3

RetraceStart(trees, root, id, side, delta) ==
  [trees |-> trees, root |-> root, id |-> id, side |-> side, delta |-> delta]

(* Retrace returns the last state of a run of as many steps as there are   *)
(* nodes.                                                                  *)
LEMMA RetraceRuns ==
  ASSUME NEW trees, NEW root, NEW id, NEW side, NEW delta, Len(trees) \in Nat
  PROVE  \E g : /\ Runs(RetraceStart(trees, root, id, side, delta), Len(trees), g)
                /\ Retrace(trees, root, id, side, delta) = g[Len(trees)]
<1> DEFINE s0 == RetraceStart(trees, root, id, side, delta)
           g == CHOOSE f : Runs(s0, Len(trees), f)
<1>1. Runs(s0, Len(trees), g)
  BY RunExists
<1>2. Retrace(trees, root, id, side, delta) = g[Len(trees)]
  BY DEF Retrace, Runs, RetraceNext, RetraceStart
<1> HIDE DEF g
<1> QED
  BY <1>1, <1>2

(* There are no more nodes in the tree than there are nodes.               *)
LEMMA TreeFinite ==
  ASSUME NEW t \in Seq(TreeNode), NEW T, T \subseteq DOMAIN t
  PROVE  IsFiniteSet(T) /\ Cardinality(T) <= Len(t)
<1>1. DOMAIN t = 1..Len(t) /\ Len(t) \in Nat
  BY LenProperties
<1>2. IsFiniteSet(1..Len(t)) /\ Cardinality(1..Len(t)) = Len(t)
  <2>1. 1 \in Int /\ Len(t) \in Int
    BY <1>1
  <2>2. IsFiniteSet(1..Len(t)) /\ Cardinality(1..Len(t)) = IF 1 > Len(t) THEN 0 ELSE Len(t) - 1 + 1
    BY <2>1, FS_Interval
  <2> QED
    BY <1>1, <2>2
<1>3. T \subseteq 1..Len(t)
  BY <1>1
<1> QED
  BY <1>2, <1>3, FS_Subset

(* The nodes of the subtree at a node.                                     *)
Below(t, T, lo, hi, id) == {j \in T : lo[id] < t[j].key /\ t[j].key < hi[id]}

(* There is one more, at least, in the subtree of the parent.              *)
LEMMA BelowGrows ==
  ASSUME NEW t, NEW root, NEW T, NEW lo, NEW hi, Tree(t, root, T, lo, hi),
         NEW x \in T, t[x].parent # NIL,
         NEW u, Framed(t, u, T), NEW lo2, NEW hi2,
         lo2[t[x].parent] = lo[t[x].parent], hi2[t[x].parent] = hi[t[x].parent]
  PROVE  Cardinality(Below(t, T, lo, hi, x)) < Cardinality(Below(u, T, lo2, hi2, t[x].parent))
<1> DEFINE p == t[x].parent
           B == Below(t, T, lo, hi, x)
           C == Below(u, T, lo2, hi2, p)
<1>1. /\ p \in T
      /\ \/ lo[x] = lo[p] /\ hi[x] = t[p].key
         \/ lo[x] = t[p].key /\ hi[x] = hi[p]
  BY ParentAbove
<1>2. /\ lo[p] < t[p].key /\ t[p].key < hi[p] /\ lo[p] \in Nat /\ hi[p] \in Nat
      /\ t[p].key \in Nat
  BY <1>1, NodeBounds
<1>3. \A j \in T : u[j].key = t[j].key /\ t[j].key \in Nat
  <2>1. T \subseteq DOMAIN t
    BY DEF Tree
  <2> QED
    BY <2>1, NodeBounds DEF Framed, SameKept
<1>4. C = {j \in T : lo[p] < t[j].key /\ t[j].key < hi[p]}
  BY <1>3 DEF Below
<1>5. IsFiniteSet(T)
  <2>1. t \in Seq(TreeNode) /\ T \subseteq DOMAIN t
    BY DEF Tree
  <2> QED
    BY <2>1, TreeFinite
<1> HIDE DEF p
<1>6. B \subseteq C
  BY <1>1, <1>2, <1>3, <1>4 DEF Below
<1>7. p \in C /\ p \notin B
  BY <1>1, <1>2, <1>4 DEF Below
<1>8. IsFiniteSet(C)
  <2>1. C \subseteq T
    BY <1>4
  <2> HIDE DEF C
  <2> QED
    BY <1>5, <2>1, FS_Subset
<1> HIDE DEF B, C
<1>9. IsFiniteSet(B) /\ Cardinality(B) <= Cardinality(C) /\ (Cardinality(B) = Cardinality(C) => B = C)
  BY <1>6, <1>8, FS_Subset
<1>10. Cardinality(B) \in Nat /\ Cardinality(C) \in Nat
  BY <1>8, <1>9, FS_CardinalityType
<1> QED
  BY <1>7, <1>9, <1>10 DEF B, C, p

(* After n steps of retracing, the subtree has more than n nodes.          *)
Climbing(s, t, T, n) ==
  /\ Framed(t, s.trees, T)
  /\ \E lo, hi : /\ Retracing(s, T, lo, hi)
                 /\ s.id # NIL => n < Cardinality(Below(s.trees, T, lo, hi, s.id))

(* One more step of retracing climbs one more node.                        *)
LEMMA ClimbingOn ==
  ASSUME NEW s, NEW t, NEW T, NEW n \in Nat, Climbing(s, t, T, n)
  PROVE  Climbing(RetraceNext(s), t, T, n + 1)
<1>1. PICK lo, hi : /\ Retracing(s, T, lo, hi)
                    /\ s.id # NIL => n < Cardinality(Below(s.trees, T, lo, hi, s.id))
  BY DEF Climbing
<1>2. CASE s.id = NIL
  BY <1>2 DEF Climbing, RetraceNext
<1>3. CASE s.id # NIL
  <2> DEFINE r == RetraceOne(s)
  <2>1. RetraceGoes(s, r, T, lo, hi)
    BY <1>1, <1>3, RetraceStep
  <2> HIDE DEF r
  <2>2. PICK lo2, hi2 : /\ Retracing(r, T, lo2, hi2)
                        /\ Framed(s.trees, r.trees, T)
                        /\ r.id # NIL => /\ r.id = s.trees[s.id].parent
                                         /\ lo2[r.id] = lo[r.id] /\ hi2[r.id] = hi[r.id]
    BY <2>1 DEF RetraceGoes
  <2>3. Framed(t, r.trees, T)
    BY <2>2, FramedOn DEF Climbing
  <2>4. ASSUME r.id # NIL PROVE n + 1 < Cardinality(Below(r.trees, T, lo2, hi2, r.id))
    <3>1. s.id \in T /\ Tree(s.trees, s.root, T, lo, hi)
      BY <1>1, <1>3 DEF Retracing
    <3>2. Cardinality(Below(s.trees, T, lo, hi, s.id)) < Cardinality(Below(r.trees, T, lo2, hi2, r.id))
      BY <2>2, <2>4, <3>1, BelowGrows
    <3>3. /\ IsFiniteSet(Below(s.trees, T, lo, hi, s.id))
          /\ IsFiniteSet(Below(r.trees, T, lo2, hi2, r.id))
      <4>1. s.trees \in Seq(TreeNode) /\ T \subseteq DOMAIN s.trees
        BY <3>1 DEF Tree
      <4>3. IsFiniteSet(T)
        BY <4>1, TreeFinite
      <4>4. Below(s.trees, T, lo, hi, s.id) \subseteq T /\ Below(r.trees, T, lo2, hi2, r.id) \subseteq T
        BY DEF Below
      <4> QED
        BY <4>3, <4>4, FS_Subset
    <3> QED
      BY <1>1, <1>3, <3>2, <3>3, FS_CardinalityType
  <2>5. Climbing(r, t, T, n + 1)
    BY <2>2, <2>3, <2>4 DEF Climbing
  <2> QED
    BY <1>3, <2>5 DEF RetraceNext, r
<1> QED
  BY <1>2, <1>3

(* Retracing ends with a balanced search tree of the same nodes.           *)
LEMMA RetraceHolds ==
  ASSUME NEW trees, NEW root, NEW id, NEW side, NEW delta, NEW T, NEW lo, NEW hi,
         Retracing(RetraceStart(trees, root, id, side, delta), T, lo, hi)
  PROVE  LET r == Retrace(trees, root, id, side, delta)
         IN Framed(trees, r.trees, T) /\ AVLTree(r.trees, r.root, T)
<1> DEFINE s0 == RetraceStart(trees, root, id, side, delta)
           N == Len(trees)
           r == Retrace(trees, root, id, side, delta)
<1>1. s0.trees = trees /\ s0.root = root /\ s0.id = id /\ s0.side = side /\ s0.delta = delta
  BY DEF RetraceStart
<1>2. Tree(trees, root, T, lo, hi) /\ (id # NIL => id \in T)
  BY <1>1 DEF Retracing
<1>3. trees \in Seq(TreeNode) /\ T \subseteq DOMAIN trees
  BY <1>2 DEF Tree
<1>4. N \in Nat /\ DOMAIN trees = 1..N
  BY <1>3, LenProperties
<1>5. PICK g : Runs(s0, N, g) /\ r = g[N]
  BY <1>4, RetraceRuns
<1>6. /\ g[0] = s0
      /\ \A n \in 0..N : n # 0 => g[n] = RetraceNext(g[n - 1])
  BY <1>4, <1>5 DEF Runs
<1>7. IsFiniteSet(T) /\ Cardinality(T) <= N
  BY <1>3, TreeFinite
<1>8. Climbing(s0, trees, T, 0)
  <2>1. Framed(trees, s0.trees, T)
    BY <1>1, <1>3 DEF Framed, SameKept
  <2>2. ASSUME id # NIL PROVE 0 < Cardinality(Below(trees, T, lo, hi, id))
    <3>1. id \in Below(trees, T, lo, hi, id)
      BY <1>2, <2>2, NodeBounds DEF Below
    <3>2. Below(trees, T, lo, hi, id) \subseteq T
      BY DEF Below
    <3>3. IsFiniteSet(Below(trees, T, lo, hi, id))
      BY <1>7, <3>2, FS_Subset
    <3>4. Cardinality(Below(trees, T, lo, hi, id)) \in Nat
      BY <3>3, FS_CardinalityType
    <3>5. Cardinality(Below(trees, T, lo, hi, id)) # 0
      BY <3>1, <3>3, FS_EmptySet
    <3> QED
      BY <3>4, <3>5
  <2> QED
    BY <1>1, <2>1, <2>2 DEF Climbing
<1> HIDE DEF s0, r
<1> DEFINE M == {n \in Nat : n <= N /\ ~Climbing(g[n], trees, T, n)}
<1>9. M = {}
  <2> SUFFICES ASSUME M # {} PROVE FALSE
    OBVIOUS
  <2>1. PICK n \in M : \A j \in M : n <= j
    <3>1. M \in SUBSET Nat
      OBVIOUS
    <3> HIDE DEF M
    <3> QED
      BY <3>1, Least
  <2>2. n # 0
    BY <1>6, <1>8
  <2>3. n - 1 \in Nat /\ n \in 0..N /\ n - 1 <= N /\ n - 1 < n /\ (n - 1) + 1 = n
    BY <1>4, <2>1, <2>2
  <2>4. Climbing(g[n - 1], trees, T, n - 1)
    BY <2>1, <2>3
  <2>5. Climbing(RetraceNext(g[n - 1]), trees, T, (n - 1) + 1)
    BY <2>3, <2>4, ClimbingOn
  <2> QED
    BY <1>6, <2>2, <2>3, <2>5
<1>10. Climbing(r, trees, T, N)
  BY <1>4, <1>5, <1>9
<1>11. PICK lo2, hi2 : /\ Retracing(r, T, lo2, hi2)
                       /\ r.id # NIL => N < Cardinality(Below(r.trees, T, lo2, hi2, r.id))
  BY <1>10 DEF Climbing
<1>12. r.id = NIL
  <2>1. Below(r.trees, T, lo2, hi2, r.id) \subseteq T
    BY DEF Below
  <2>2. /\ IsFiniteSet(Below(r.trees, T, lo2, hi2, r.id))
        /\ Cardinality(Below(r.trees, T, lo2, hi2, r.id)) <= Cardinality(T)
    BY <1>7, <2>1, FS_Subset
  <2>3. Cardinality(Below(r.trees, T, lo2, hi2, r.id)) \in Nat /\ Cardinality(T) \in Nat
    BY <1>7, <2>2, FS_CardinalityType
  <2> QED
    BY <1>4, <1>7, <1>11, <2>2, <2>3
<1>13. /\ Tree(r.trees, r.root, T, lo2, hi2)
       /\ \A i \in T : BalancedAt(r.trees, i)
       /\ HeightsBut(r.trees, T, NIL, r.side)
  BY <1>11, <1>12 DEF Retracing
<1>14. \A i \in T : i # NIL
  BY <1>13, NodeBounds
<1>15. Searchable(r.trees, r.root, T, lo2, hi2)
  BY <1>13, <1>14 DEF Searchable, HeightsBut
<1> QED
  BY <1>10, <1>15 DEF AVLTree, Climbing, r

(* The end of a walk from a node is that from the next, or the node.       *)
LEMMA PathEndOn ==
  ASSUME NEW next, NEW m, Descending(next, m), NEW id \in DOMAIN next, id # NIL,
         NIL \notin DOMAIN next
  PROVE  PathEnd(next, id) = IF next[id] = NIL THEN id ELSE PathEnd(next, next[id])
<1>1. IsWay(next, id, Path(next, id))
  BY PathIsWay
<1>2. CASE next[id] = NIL
  <2>1. Path(next, id) = <<id>>
    BY <1>1, <1>2, WayStop, WayUnique
  <2> QED
    BY <1>2, <2>1 DEF PathEnd, Last
<1>3. CASE next[id] # NIL
  <2>1. next[id] \in DOMAIN next
    BY <1>3 DEF Descending
  <2>2. IsWay(next, next[id], Path(next, next[id]))
    BY <1>3, <2>1, PathIsWay
  <2>3. Path(next, id) = <<id>> \o Path(next, next[id])
    BY <1>1, <1>3, <2>2, WayStep, WayUnique
  <2> DEFINE p == Path(next, next[id])
  <2>4. p \in Seq(DOMAIN next) /\ Len(p) \in Nat /\ Len(p) >= 1
    BY <2>2 DEF IsWay
  <2> HIDE DEF p
  <2>5. Last(<<id>> \o p) = Last(p)
    BY <2>4 DEF Last
  <2> QED
    BY <1>3, <2>3, <2>5 DEF PathEnd, p
<1> QED
  BY <1>2, <1>3

(* A key that is not in the tree belongs below one node only.              *)
Holds(T, lo, hi, key, j) == j \in T /\ lo[j] < key /\ key < hi[j]

(* The search for it comes by each node above.                             *)
LEMMA HoldsAbove ==
  ASSUME NEW t, NEW root, NEW T, NEW lo, NEW hi, Tree(t, root, T, lo, hi),
         NEW key \in Nat, NEW j, Holds(T, lo, hi, key, j), t[j].parent # NIL
  PROVE  /\ Holds(T, lo, hi, key, t[j].parent)
         /\ SearchStep(t, key)[t[j].parent] = j
         /\ hi[j] - lo[j] < hi[t[j].parent] - lo[t[j].parent]
<1> DEFINE p == t[j].parent
<1>1. j \in T /\ lo[j] < key /\ key < hi[j]
  BY DEF Holds
<1>2. /\ p \in T
      /\ \/ /\ t[p].child["left"] = j /\ lo[j] = lo[p] /\ hi[j] = t[p].key
         \/ /\ t[p].child["right"] = j /\ lo[j] = t[p].key /\ hi[j] = hi[p]
      /\ hi[j] - lo[j] < hi[p] - lo[p]
  BY <1>1, ParentAbove
<1>3. /\ p \in DOMAIN t /\ lo[p] < t[p].key /\ t[p].key < hi[p]
      /\ lo[p] \in Nat /\ hi[p] \in Nat /\ t[p].key \in Nat
  BY <1>2, NodeBounds
<1> HIDE DEF p
<1>4. SearchStep(t, key)[p] = IF t[p].key = key THEN NIL ELSE t[p].child[KeySide(t[p], key)]
  BY <1>3 DEF SearchStep
<1>5. Holds(T, lo, hi, key, p)
  BY <1>1, <1>2, <1>3 DEF Holds
<1>6. SearchStep(t, key)[p] = j
  BY <1>1, <1>2, <1>3, <1>4 DEF KeySide
<1> QED
  BY <1>2, <1>5, <1>6 DEF p

(* From each of them it ends where it ends from the root.                  *)
LEMMA SearchEnd ==
  ASSUME NEW t, NEW root, NEW T, NEW lo, NEW hi, Tree(t, root, T, lo, hi), Idle(t, T),
         NEW key \in Nat, NEW i, Holds(T, lo, hi, key, i)
  PROVE  PathEnd(SearchStep(t, key), i) = PathEnd(SearchStep(t, key), root)
<1> DEFINE next == SearchStep(t, key)
           room(j) == HiInsertionKey + 1 - (hi[j] - lo[j])
           Off(j) == Holds(T, lo, hi, key, j) /\ PathEnd(next, j) # PathEnd(next, root)
           N == {room(j) : j \in {j \in T : Off(j)}}
<1>1. \A j \in T : room(j) \in Nat
  <2>1. ASSUME NEW j \in T
        PROVE  room(j) \in Nat
    BY NodeBounds
  <2> QED
    BY <2>1
<1>2. Descending(next, Span(t, T, lo, hi))
  BY SearchDescending
<1>3. DOMAIN next = DOMAIN t /\ NIL \notin DOMAIN t
  BY TreeTypes DEF SearchStep
<1> HIDE DEF next
<1>4. ASSUME NEW j \in T, Off(j)
      PROVE  \E l \in T : Off(l) /\ room(l) < room(j)
  <2>1. Holds(T, lo, hi, key, j)
    BY <1>4
  <2>2. CASE t[j].parent = NIL
    <3>1. j = root
      BY <2>2, <1>4 DEF Tree, ParentHolds
    <3> QED
      BY <3>1, <1>4
  <2>3. CASE t[j].parent # NIL
    <3> DEFINE p == t[j].parent
    <3>1. Holds(T, lo, hi, key, p) /\ next[p] = j /\ hi[j] - lo[j] < hi[p] - lo[p]
      BY <2>1, <2>3, HoldsAbove DEF next
    <3>2. p \in T /\ j \in DOMAIN t /\ p \in DOMAIN t /\ j # NIL
          /\ lo[j] \in Nat /\ hi[j] \in Nat /\ lo[p] \in Nat /\ hi[p] \in Nat /\ HiInsertionKey \in Nat
      <4>1. p \in T
        BY <3>1 DEF Holds
      <4> QED
        BY <4>1, NodeBounds
    <3>3. PathEnd(next, p) = PathEnd(next, j)
      BY <3>1, <3>2, <2>3, <1>2, <1>3, PathEndOn
    <3>4. room(p) < room(j)
      BY <3>1, <3>2
    <3> QED
      BY <3>1, <3>2, <3>3, <3>4, <1>4
  <2> QED
    BY <2>2, <2>3
<1>5. i \in T
  BY DEF Holds
<1> HIDE DEF room
<1>6. N \in SUBSET Nat
  BY <1>1
<1>7. CASE N # {}
  <2>1. PICK n \in N : \A k \in N : n <= k
    BY <1>6, <1>7, Least
  <2>2. PICK j \in T : Off(j) /\ n = room(j)
    BY <2>1
  <2>3. PICK l \in T : Off(l) /\ room(l) < room(j)
    BY <2>2, <1>4
  <2>4. room(l) \in N /\ room(l) \in Nat /\ room(j) \in Nat
    BY <2>3, <1>1
  <2> QED
    BY <2>1, <2>2, <2>3, <2>4
<1>8. CASE N = {}
  BY <1>5, <1>8 DEF next
<1> QED
  BY <1>7, <1>8

(* Only one node has room for a key on an empty side.                      *)
LEMMA GapUnique ==
  ASSUME NEW t, NEW root, NEW T, NEW lo, NEW hi, Tree(t, root, T, lo, hi), Idle(t, T),
         NEW key \in Nat, NEW i, NEW m,
         Holds(T, lo, hi, key, i), Holds(T, lo, hi, key, m),
         SearchStep(t, key)[i] = NIL, SearchStep(t, key)[m] = NIL
  PROVE  i = m
<1> DEFINE next == SearchStep(t, key)
<1>1. Descending(next, Span(t, T, lo, hi))
  BY SearchDescending
<1>2. DOMAIN next = DOMAIN t /\ NIL \notin DOMAIN t /\ i \in DOMAIN t /\ m \in DOMAIN t
  BY TreeTypes DEF SearchStep, Holds
<1>3. PathEnd(next, i) = PathEnd(next, m)
  BY SearchEnd
<1> HIDE DEF next
<1>4. PathEnd(next, i) = i /\ PathEnd(next, m) = m
  BY <1>1, <1>2, PathEndOn DEF next
<1> QED
  BY <1>3, <1>4

-----------------------------------------------------------------------------
(* A new leaf.                                                             *)

(* A node that keeps its links, and its heights.                           *)
Alike(t, u, i) ==
  /\ u[i] \in TreeNode /\ u[i].key = t[i].key /\ u[i].parent = t[i].parent
  /\ \A s \in Sides : u[i].child[s] = t[i].child[s] /\ u[i].height[s] = t[i].height[s]

(* Node id is new below m on a side, or it is the root.                    *)
Leafed(t, root, T, u, newRoot, id, key, m, leaf) ==
  /\ u \in Seq(TreeNode) /\ T \subseteq DOMAIN u /\ id \in DOMAIN u
  /\ u[id].key = key /\ u[id].parent = m
  /\ \A s \in Sides : u[id].child[s] = NIL /\ u[id].height[s] = 0
  /\ newRoot = IF m = NIL THEN id ELSE root
  /\ m # NIL =>
       /\ u[m].key = t[m].key /\ u[m].parent = t[m].parent
       /\ ChildWith(u[m], t[m], leaf, id)
       /\ \A s \in Sides : u[m].height[s] = t[m].height[s]
  /\ \A i \in T : i # m => Alike(t, u, i)

LeafLo(t, lo, id, m, leaf) == [lo EXCEPT ![id] = IF m = NIL THEN 0 ELSE Low(t, lo, m, leaf)]
LeafHi(t, hi, id, m, leaf) ==
  [hi EXCEPT ![id] = IF m = NIL THEN HiInsertionKey + 1 ELSE High(t, hi, m, leaf)]

(* The only gap that holds a key is where the search for it ends.          *)
LEMMA GapOfKey ==
  ASSUME NEW t, NEW root, NEW T, NEW lo, NEW hi, Tree(t, root, T, lo, hi), Idle(t, T),
         NEW key \in Nat, NEW i \in T, NEW s \in Sides, NEW m \in T, NEW leaf \in Sides,
         t[i].child[s] = NIL, Low(t, lo, i, s) < key, key < High(t, hi, i, s),
         t[m].child[leaf] = NIL, Low(t, lo, m, leaf) < key, key < High(t, hi, m, leaf)
  PROVE  i = m /\ s = leaf
<1>1. ASSUME NEW j \in T, NEW r \in Sides, t[j].child[r] = NIL,
             Low(t, lo, j, r) < key, key < High(t, hi, j, r)
      PROVE  /\ Holds(T, lo, hi, key, j) /\ SearchStep(t, key)[j] = NIL
             /\ KeySide(t[j], key) = r
  <2>1. /\ j \in DOMAIN t /\ t[j].key \in Nat /\ lo[j] \in Nat /\ hi[j] \in Nat
        /\ lo[j] < t[j].key /\ t[j].key < hi[j]
    BY NodeBounds
  <2>2. /\ lo[j] < key /\ key < hi[j] /\ key # t[j].key /\ KeySide(t[j], key) = r
    BY <2>1, <1>1 DEF Low, High, KeySide, Sides
  <2>3. SearchStep(t, key)[j] = t[j].child[KeySide(t[j], key)]
    BY <2>1, <2>2 DEF SearchStep
  <2> QED
    BY <2>2, <2>3, <1>1 DEF Holds
<1>2. /\ Holds(T, lo, hi, key, i) /\ SearchStep(t, key)[i] = NIL /\ KeySide(t[i], key) = s
      /\ Holds(T, lo, hi, key, m) /\ SearchStep(t, key)[m] = NIL /\ KeySide(t[m], key) = leaf
  BY <1>1
<1>3. i = m
  BY ONLY <1>2, GapUnique, Tree(t, root, T, lo, hi), Idle(t, T), key \in Nat
<1> QED
  BY <1>2, <1>3

(* The tree with a leaf at the gap of its key.                             *)
LEMMA LeafTree ==
  ASSUME NEW t, NEW root, NEW T, NEW lo, NEW hi, Tree(t, root, T, lo, hi), Idle(t, T),
         NEW key \in 1..HiInsertionKey, NEW m \in T, NEW leaf \in Sides,
         t[m].child[leaf] = NIL, Low(t, lo, m, leaf) < key, key < High(t, hi, m, leaf),
         NEW u, NEW newRoot, NEW id \in Nat, id \notin T, id # NIL,
         Leafed(t, root, T, u, newRoot, id, key, m, leaf)
  PROVE  Tree(u, newRoot, T \cup {id}, LeafLo(t, lo, id, m, leaf), LeafHi(t, hi, id, m, leaf))
<1> DEFINE lo2 == LeafLo(t, lo, id, m, leaf)
           hi2 == LeafHi(t, hi, id, m, leaf)
           T2 == T \cup {id}
<1>0. /\ m \in DOMAIN t /\ m \in Nat /\ m # NIL /\ m # id
      /\ t[m].key \in Nat /\ lo[m] \in Nat /\ hi[m] \in Nat
      /\ lo[m] < t[m].key /\ t[m].key < hi[m] /\ hi[m] <= HiInsertionKey + 1
      /\ HiInsertionKey \in Nat /\ key \in Nat
  BY NodeBounds
<1>1. lo \in [Nat -> Nat] /\ hi \in [Nat -> Nat] /\ T \subseteq DOMAIN t /\ t \in Seq(TreeNode)
  BY DEF Tree
<1>2. Low(t, lo, m, leaf) \in Nat /\ High(t, hi, m, leaf) \in Nat
      /\ High(t, hi, m, leaf) <= HiInsertionKey + 1
  BY <1>0 DEF Low, High
<1>3. /\ lo2 \in [Nat -> Nat] /\ hi2 \in [Nat -> Nat]
      /\ lo2[id] = Low(t, lo, m, leaf) /\ hi2[id] = High(t, hi, m, leaf)
      /\ \A i \in Nat : i # id => lo2[i] = lo[i] /\ hi2[i] = hi[i]
  BY <1>0, <1>1, <1>2 DEF LeafLo, LeafHi
<1> HIDE DEF lo2, hi2
<1>4. \A i \in T : i \in Nat /\ i # id /\ i # NIL /\ i \in DOMAIN t
  BY TreeTypes
<1>5. \A i \in T : u[i].key = t[i].key /\ u[i].parent = t[i].parent
  BY <1>0 DEF Leafed, Alike
<1>6. \A i \in T : \A s \in Sides : ~(i = m /\ s = leaf) => u[i].child[s] = t[i].child[s]
  BY <1>0 DEF Leafed, Alike, ChildWith
<1>7. u[m].child[leaf] = id /\ u[id].key = key /\ u[id].parent = m
      /\ \A s \in Sides : u[id].child[s] = NIL
  BY <1>0 DEF Leafed, ChildWith
<1>8. \A i \in T : \A s \in Sides : Low(u, lo2, i, s) = Low(t, lo, i, s)
                                    /\ High(u, hi2, i, s) = High(t, hi, i, s)
  BY <1>3, <1>4, <1>5 DEF Low, High
<1>9. \A j \in T : ~(Low(t, lo, m, leaf) < t[j].key /\ t[j].key < High(t, hi, m, leaf))
  BY DEF Tree, SideHolds
<1>10. \A i \in T2 : lo2[i] < u[i].key /\ u[i].key < hi2[i] /\ hi2[i] <= HiInsertionKey + 1
  <2>1. ASSUME NEW i \in T
        PROVE  lo2[i] < u[i].key /\ u[i].key < hi2[i] /\ hi2[i] <= HiInsertionKey + 1
    BY <1>3, <1>4, <1>5, NodeBounds
  <2> QED
    BY <2>1, <1>2, <1>3, <1>7
<1>11. ASSUME NEW i \in T2, NEW s \in Sides
       PROVE  SideHolds(u, T2, lo2, hi2, i, s)
  <2>1. CASE i = id
    <3>1. u[i].child[s] = NIL
      BY <2>1, <1>7
    <3>2. Low(u, lo2, i, s) = (IF s = "left" THEN Low(t, lo, m, leaf) ELSE key)
          /\ High(u, hi2, i, s) = (IF s = "left" THEN key ELSE High(t, hi, m, leaf))
      BY <2>1, <1>3, <1>7 DEF Low, High
    <3>3. ASSUME NEW j \in T2
          PROVE  ~(Low(u, lo2, i, s) < u[j].key /\ u[j].key < High(u, hi2, i, s))
      <4>1. CASE j = id
        BY <4>1, <3>2, <1>0, <1>7, <1>2
      <4>2. CASE j \in T
        <5>1. u[j].key = t[j].key /\ t[j].key \in Nat
          BY <4>2, <1>5, NodeBounds
        <5>2. ~(Low(t, lo, m, leaf) < t[j].key /\ t[j].key < High(t, hi, m, leaf))
          BY <4>2, <1>9
        <5> DEFINE a == Low(t, lo, m, leaf)
                   b == High(t, hi, m, leaf)
        <5>3. a \in Nat /\ b \in Nat /\ a < key /\ key < b
          BY <1>2
        <5> HIDE DEF a, b
        <5> QED
          BY <3>2, <5>1, <5>2, <5>3, <1>0 DEF a, b
      <4> QED
        BY <4>1, <4>2
    <3> QED
      BY <3>1, <3>3 DEF SideHolds
  <2>2. CASE i \in T /\ i = m /\ s = leaf
    <3>1. u[i].child[s] = id /\ Low(u, lo2, i, s) = lo2[id] /\ High(u, hi2, i, s) = hi2[id]
      BY <2>2, <1>3, <1>7, <1>8
    <3> QED
      BY <3>1, <2>2, <1>7 DEF SideHolds
  <2>3. CASE i \in T /\ ~(i = m /\ s = leaf)
    <3> DEFINE c == t[i].child[s]
    <3>1. u[i].child[s] = c /\ Low(u, lo2, i, s) = Low(t, lo, i, s)
          /\ High(u, hi2, i, s) = High(t, hi, i, s)
      BY <2>3, <1>6, <1>8
    <3>2. SideHolds(t, T, lo, hi, i, s)
      BY <2>3 DEF Tree
    <3>3. CASE c = NIL
      <4>1. ~(Low(t, lo, i, s) < key /\ key < High(t, hi, i, s))
        BY <2>3, <3>3, <1>0, GapOfKey
      <4>2. \A j \in T : ~(Low(t, lo, i, s) < t[j].key /\ t[j].key < High(t, hi, i, s))
        BY <3>2, <3>3 DEF SideHolds
      <4> QED
        BY <3>1, <3>3, <4>1, <4>2, <1>5, <1>7 DEF SideHolds
    <3>4. CASE c # NIL
      <4>1. c \in T /\ t[c].parent = i /\ lo[c] = Low(t, lo, i, s) /\ hi[c] = High(t, hi, i, s)
        BY <3>2, <3>4 DEF SideHolds
      <4>2. u[c].parent = i /\ lo2[c] = lo[c] /\ hi2[c] = hi[c]
        BY <4>1, <1>3, <1>4, <1>5
      <4> QED
        BY <3>1, <3>4, <4>1, <4>2 DEF SideHolds
    <3> QED
      BY <3>3, <3>4
  <2> QED
    BY <2>1, <2>2, <2>3
<1>12. newRoot = root /\ root # NIL /\ root \in T /\ t[root].parent = NIL /\ lo[root] = 0
       /\ hi[root] = HiInsertionKey + 1
  BY <1>0 DEF Leafed, Tree
<1>13. ASSUME NEW i \in T2
       PROVE  ParentHolds(u, newRoot, T2, i)
  <2>1. CASE i = id
    BY <2>1, <1>0, <1>7 DEF ParentHolds
  <2>2. CASE i \in T
    <3>1. ParentHolds(t, root, T, i)
      BY <2>2 DEF Tree
    <3> DEFINE p == t[i].parent
    <3>2. u[i].parent = p
      BY <2>2, <1>5
    <3>3. CASE p = NIL
      BY <3>1, <3>2, <3>3, <1>12 DEF ParentHolds
    <3>4. CASE p # NIL
      <4>1. PICK s \in Sides : p \in T /\ t[p].child[s] = i
        BY <3>1, <3>4 DEF ParentHolds
      <4>2. ~(p = m /\ s = leaf)
        BY <4>1, <2>2, <1>4
      <4>3. u[p].child[s] = i
        BY <4>1, <4>2, <1>6
      <4> QED
        BY <3>2, <3>4, <4>1, <4>3 DEF ParentHolds
    <3> QED
      BY <3>3, <3>4
  <2> QED
    BY <2>1, <2>2
<1>14. newRoot \in T2 /\ u[newRoot].parent = NIL /\ lo2[newRoot] = 0
       /\ hi2[newRoot] = HiInsertionKey + 1
  BY <1>3, <1>4, <1>5, <1>12
<1>15. \A i, j \in T2 : u[i].key = u[j].key => i = j
  <2>1. \A j \in T : t[j].key # key
    BY <1>9
  <2>2. \A i, j \in T : t[i].key = t[j].key => i = j
    BY DEF Tree
  <2> QED
    BY <2>1, <2>2, <1>5, <1>7
<1>16. u \in Seq(TreeNode) /\ T2 \subseteq DOMAIN u
  BY DEF Leafed
<1>17. Tree(u, newRoot, T2, lo2, hi2)
  BY <1>3, <1>10, <1>11, <1>12, <1>13, <1>14, <1>15, <1>16 DEF Tree
<1> QED
  BY <1>17 DEF lo2, hi2

(* The tree of one leaf.                                                   *)
LEMMA FirstTree ==
  ASSUME NEW t, NEW root, NEW lo, NEW hi, Tree(t, root, {}, lo, hi),
         NEW key \in 1..HiInsertionKey, NEW leaf,
         NEW u, NEW newRoot, NEW id \in Nat, id # NIL,
         Leafed(t, root, {}, u, newRoot, id, key, NIL, leaf)
  PROVE  Tree(u, newRoot, {id}, LeafLo(t, lo, id, NIL, leaf), LeafHi(t, hi, id, NIL, leaf))
<1> DEFINE lo2 == LeafLo(t, lo, id, NIL, leaf)
           hi2 == LeafHi(t, hi, id, NIL, leaf)
<1>0. HiInsertionKey \in Nat /\ key \in Nat /\ lo \in [Nat -> Nat] /\ hi \in [Nat -> Nat]
  <2>1. HiInsertionKey \in Nat
    BY QueueAssumption
  <2>2. lo \in [Nat -> Nat] /\ hi \in [Nat -> Nat]
    BY DEF Tree
  <2> QED
    BY <2>1, <2>2
<1>1. /\ lo2 \in [Nat -> Nat] /\ hi2 \in [Nat -> Nat]
      /\ lo2[id] = 0 /\ hi2[id] = HiInsertionKey + 1
  BY <1>0 DEF LeafLo, LeafHi
<1> HIDE DEF lo2, hi2
<1>2. u \in Seq(TreeNode) /\ {id} \subseteq DOMAIN u /\ u[id].key = key /\ u[id].parent = NIL
      /\ (\A s \in Sides : u[id].child[s] = NIL) /\ newRoot = id
  BY DEF Leafed
<1>3. ASSUME NEW s \in Sides
      PROVE  SideHolds(u, {id}, lo2, hi2, id, s)
  <2>1. ~(Low(u, lo2, id, s) < u[id].key /\ u[id].key < High(u, hi2, id, s))
    BY <1>0, <1>2 DEF Low, High
  <2> QED
    BY <2>1, <1>2 DEF SideHolds
<1>4. ParentHolds(u, newRoot, {id}, id)
  BY <1>2 DEF ParentHolds
<1>5. lo2[id] < u[id].key /\ u[id].key < hi2[id] /\ hi2[id] <= HiInsertionKey + 1
  BY <1>0, <1>1, <1>2
<1>6. Tree(u, newRoot, {id}, lo2, hi2)
  BY <1>1, <1>2, <1>3, <1>4, <1>5 DEF Tree
<1> QED
  BY <1>6 DEF lo2, hi2

(* A new leaf makes its parent higher on its side.                         *)
LEMMA LeafRetracing ==
  ASSUME NEW t, NEW root, NEW T, NEW lo, NEW hi, Searchable(t, root, T, lo, hi), Idle(t, T),
         NEW key \in 1..HiInsertionKey, NEW match, Found(t, T, lo, hi, key, match),
         match.node # NIL => match.leaf # "none",
         NEW u, NEW newRoot, NEW id \in Nat, id \notin T, id # NIL,
         Leafed(t, root, T, u, newRoot, id, key, match.node, match.leaf)
  PROVE  Retracing(RetraceStart(u, newRoot, match.node, match.leaf, 1), T \cup {id},
                   LeafLo(t, lo, id, match.node, match.leaf),
                   LeafHi(t, hi, id, match.node, match.leaf))
<1> DEFINE m == match.node
           leaf == match.leaf
           lo2 == LeafLo(t, lo, id, m, leaf)
           hi2 == LeafHi(t, hi, id, m, leaf)
<1>1. Tree(t, root, T, lo, hi)
  BY DEF Searchable
<1>2. IF m = NIL THEN T = {}
      ELSE /\ m \in T /\ leaf \in Sides /\ t[m].child[leaf] = NIL
           /\ Low(t, lo, m, leaf) < key /\ key < High(t, hi, m, leaf)
  BY DEF Found
<1>3. Leafed(t, root, T, u, newRoot, id, key, m, leaf)
  OBVIOUS
<1> HIDE DEF m, leaf
<1>4. Tree(u, newRoot, T \cup {id}, lo2, hi2)
  <2>1. CASE m = NIL
    <3>1. T = {} /\ T \cup {id} = {id}
      BY <1>2, <2>1
    <3>2. Tree(t, root, {}, lo, hi) /\ Leafed(t, root, {}, u, newRoot, id, key, NIL, leaf)
      BY <1>1, <1>3, <2>1, <3>1
    <3>3. Tree(u, newRoot, {id}, LeafLo(t, lo, id, NIL, leaf), LeafHi(t, hi, id, NIL, leaf))
      BY <3>2, FirstTree
    <3> QED
      BY <2>1, <3>1, <3>3
  <2>2. CASE m # NIL
    BY <1>1, <1>2, <1>3, <2>2, LeafTree
  <2> QED
    BY <2>1, <2>2
<1> HIDE DEF lo2, hi2
<1>5. \A i \in T : \A s \in Sides : u[i].height[s] = t[i].height[s]
  BY <1>3, <1>2 DEF Leafed, Alike
<1>6. \A s \in Sides : u[id].child[s] = NIL /\ u[id].height[s] = 0
  BY <1>3 DEF Leafed
<1>7. \A i \in T : \A s \in Sides : ~(i = m /\ s = leaf) => u[i].child[s] = t[i].child[s]
  BY <1>2, <1>3 DEF Leafed, Alike, ChildWith
<1>8. \A i \in T : Height(u[i]) = Height(t[i])
  BY <1>5 DEF Height, Sides
<1>9. ASSUME NEW i \in T \cup {id}
      PROVE  BalancedAt(u, i)
  <2>1. CASE i = id
    BY <2>1, <1>6 DEF BalancedAt, Sides
  <2>2. CASE i \in T
    <3>1. BalancedAt(t, i)
      BY <2>2 DEF Searchable
    <3> QED
      BY <2>2, <3>1, <1>5 DEF BalancedAt, Sides
  <2> QED
    BY <2>1, <2>2
<1>10. ASSUME NEW i \in T \cup {id}, NEW s \in Sides, ~(i = m /\ s = leaf)
       PROVE  HeightHolds(u, i, s)
  <2>1. CASE i = id
    BY <2>1, <1>6 DEF HeightHolds, HeightBelow
  <2>2. CASE i \in T
    <3>1. HeightHolds(t, i, s)
      BY <2>2 DEF Searchable
    <3>2. t[i].child[s] # NIL => t[i].child[s] \in T
      BY <2>2, <1>1 DEF Tree, SideHolds
    <3>3. u[i].height[s] = t[i].height[s] /\ u[i].child[s] = t[i].child[s]
      BY <2>2, <1>5, <1>7, <1>10
    <3> QED
      BY <3>1, <3>2, <3>3, <1>8 DEF HeightHolds, HeightBelow
  <2> QED
    BY <2>1, <2>2
<1>11. ASSUME m # NIL
       PROVE  /\ m \in T /\ leaf \in Sides
              /\ HeightBelow(u, u[m].child[leaf]) = u[m].height[leaf] + 1
  <2>1. m \in T /\ leaf \in Sides /\ t[m].child[leaf] = NIL
    BY <1>2, <1>11
  <2>2. t[m].height[leaf] = 0
    <3>1. HeightHolds(t, m, leaf)
      BY <2>1 DEF Searchable
    <3> QED
      BY <2>1, <3>1 DEF HeightHolds, HeightBelow
  <2>3. u[m].height[leaf] = 0
    BY <2>1, <2>2, <1>5
  <2>4. u[m].child[leaf] = id
    BY <1>3, <1>11 DEF Leafed, ChildWith
  <2>5. Height(u[id]) = 0
    BY <1>6 DEF Height, Larger, Sides
  <2> QED
    BY <2>1, <2>3, <2>4, <2>5 DEF HeightBelow
<1>12. Retracing(RetraceStart(u, newRoot, m, leaf, 1), T \cup {id}, lo2, hi2)
  BY <1>4, <1>9, <1>10, <1>11 DEF Retracing, RetraceStart, HeightsBut
<1> QED
  BY <1>12 DEF m, leaf, lo2, hi2

-----------------------------------------------------------------------------
(* A node x with an empty side is cut.                                     *)

(* The bounds that x was go to where x began, or ended.                    *)
CutLo(t, lo, x, es) ==
  [j \in Nat |-> IF es = "left" /\ lo[j] = t[x].key THEN lo[x] ELSE lo[j]]
CutHi(t, hi, x, es) ==
  [j \in Nat |-> IF es = "right" /\ hi[j] = t[x].key THEN hi[x] ELSE hi[j]]

(* There is no key of T between two bounds.                                *)
Gap(t, T, low, high) == \A j \in T : ~(low < t[j].key /\ t[j].key < high)

CutBounds(t, root, T, lo, hi, x, es, c, lo2, hi2) ==
  /\ lo2 \in [Nat -> Nat] /\ hi2 \in [Nat -> Nat]
  /\ \A i \in T \ {x} : lo2[i] < t[i].key /\ t[i].key < hi2[i] /\ hi2[i] <= HiInsertionKey + 1
  /\ \A i \in T \ {x} : \A s \in Sides :
       LET d == t[i].child[s]
       IN /\ d = NIL => Gap(t, T \ {x}, Low(t, lo2, i, s), High(t, hi2, i, s))
          /\ d = x => Low(t, lo2, i, s) = lo[x] /\ High(t, hi2, i, s) = hi[x]
          /\ d # NIL /\ d # x => lo2[d] = Low(t, lo2, i, s) /\ hi2[d] = High(t, hi2, i, s)
  /\ c = NIL => Gap(t, T \ {x}, lo[x], hi[x])
  /\ c # NIL => lo2[c] = lo[x] /\ hi2[c] = hi[x]
  /\ root # x => lo2[root] = 0 /\ hi2[root] = HiInsertionKey + 1

(* The bounds after a node gave way to its only child are such bounds.     *)
LEMMA CutBoundsHold ==
  ASSUME NEW t, NEW root, NEW T, NEW lo, NEW hi, Tree(t, root, T, lo, hi),
         NEW x \in T, NEW es \in Sides, t[x].child[es] = NIL
  PROVE  CutBounds(t, root, T, lo, hi, x, es, t[x].child[Other(es)],
                   CutLo(t, lo, x, es), CutHi(t, hi, x, es))
<1> DEFINE c == t[x].child[Other(es)]
           k == t[x].key
           lo2 == CutLo(t, lo, x, es)
           hi2 == CutHi(t, hi, x, es)
<1>1. /\ x \in Nat /\ k \in Nat /\ lo[x] \in Nat /\ hi[x] \in Nat /\ lo[x] < k /\ k < hi[x]
      /\ hi[x] <= HiInsertionKey + 1 /\ HiInsertionKey \in Nat
  BY NodeBounds
<1>2. \A i \in Nat : /\ lo2[i] = IF es = "left" /\ lo[i] = k THEN lo[x] ELSE lo[i]
                     /\ hi2[i] = IF es = "right" /\ hi[i] = k THEN hi[x] ELSE hi[i]
  BY DEF CutLo, CutHi
<1>3. lo2 \in [Nat -> Nat] /\ hi2 \in [Nat -> Nat]
  <2>1. lo \in [Nat -> Nat] /\ hi \in [Nat -> Nat]
    BY DEF Tree
  <2> QED
    BY <2>1, <1>1 DEF CutLo, CutHi
<1>4. \A i \in T : /\ i \in Nat /\ i # NIL /\ t[i].key \in Nat /\ lo[i] \in Nat /\ hi[i] \in Nat
                   /\ lo[i] < t[i].key /\ t[i].key < hi[i] /\ hi[i] <= HiInsertionKey + 1
  BY NodeBounds
<1>5. \A i, j \in T : t[i].key = t[j].key => i = j
  BY DEF Tree
<1>6. Gap(t, T, Low(t, lo, x, es), High(t, hi, x, es))
  BY DEF Tree, SideHolds, Gap
<1> HIDE DEF lo2, hi2
<1>7. ASSUME NEW i \in T \ {x}
      PROVE  lo2[i] < t[i].key /\ t[i].key < hi2[i] /\ hi2[i] <= HiInsertionKey + 1
  <2> DEFINE l2 == lo2[i]
             h2 == hi2[i]
             l == lo[i]
             h == hi[i]
             key == t[i].key
  <2>1. l2 = (IF es = "left" /\ l = k THEN lo[x] ELSE l) /\ h2 = (IF es = "right" /\ h = k THEN hi[x] ELSE h)
    BY <1>2, <1>4
  <2>2. key \in Nat /\ l \in Nat /\ h \in Nat /\ l < key /\ key < h /\ h <= HiInsertionKey + 1
    BY <1>4
  <2> HIDE DEF l2, h2, l, h, key
  <2>3. l2 < key /\ key < h2 /\ h2 <= HiInsertionKey + 1
    BY <2>1, <2>2, <1>1
  <2> QED
    BY <2>3 DEF l2, h2, key
<1>8. ASSUME NEW i \in T \ {x}, NEW s \in Sides, t[i].child[s] = NIL
      PROVE  Gap(t, T \ {x}, Low(t, lo2, i, s), High(t, hi2, i, s))
  <2>1. Gap(t, T, Low(t, lo, i, s), High(t, hi, i, s))
    BY <1>8 DEF Tree, SideHolds, Gap
  <2>2. SUFFICES ASSUME NEW j \in T \ {x},
                        Low(t, lo2, i, s) < t[j].key, t[j].key < High(t, hi2, i, s)
                 PROVE  FALSE
    BY DEF Gap
  <2>3. ~(Low(t, lo, i, s) < t[j].key /\ t[j].key < High(t, hi, i, s))
    BY <2>1 DEF Gap
  <2>4. ~(Low(t, lo, x, es) < t[j].key /\ t[j].key < High(t, hi, x, es)) /\ t[j].key # k
    BY <1>5, <1>6 DEF Gap
  <2>5. CASE s = "left"
    <3>1. /\ Low(t, lo2, i, s) = lo2[i] /\ High(t, hi2, i, s) = t[i].key
          /\ Low(t, lo, i, s) = lo[i] /\ High(t, hi, i, s) = t[i].key
      BY <2>5 DEF Low, High
    <3>2. es = "left" /\ lo[i] = k /\ lo2[i] = lo[x]
      BY <3>1, <2>2, <2>3, <1>2, <1>4
    <3>3. Low(t, lo, x, es) = lo[x] /\ High(t, hi, x, es) = k
      BY <3>2 DEF Low, High
    <3> QED
      BY <3>1, <3>2, <3>3, <2>2, <2>3, <2>4, <1>1, <1>4
  <2>6. CASE s = "right"
    <3>1. /\ Low(t, lo2, i, s) = t[i].key /\ High(t, hi2, i, s) = hi2[i]
          /\ Low(t, lo, i, s) = t[i].key /\ High(t, hi, i, s) = hi[i]
      BY <2>6 DEF Low, High
    <3>2. es = "right" /\ hi[i] = k /\ hi2[i] = hi[x]
      BY <3>1, <2>2, <2>3, <1>2, <1>4
    <3>3. Low(t, lo, x, es) = k /\ High(t, hi, x, es) = hi[x]
      BY <3>2 DEF Low, High
    <3> QED
      BY <3>1, <3>2, <3>3, <2>2, <2>3, <2>4, <1>1, <1>4
  <2> QED
    BY <2>5, <2>6 DEF Sides
<1>9. ASSUME NEW i \in T \ {x}, NEW s \in Sides, t[i].child[s] # NIL
      PROVE  LET d == t[i].child[s]
             IN /\ d = x => Low(t, lo2, i, s) = lo[x] /\ High(t, hi2, i, s) = hi[x]
                /\ d # x => lo2[d] = Low(t, lo2, i, s) /\ hi2[d] = High(t, hi2, i, s)
  <2> DEFINE d == t[i].child[s]
  <2>1. d \in T /\ lo[d] = Low(t, lo, i, s) /\ hi[d] = High(t, hi, i, s)
    BY <1>9, ZenonT(40) DEF Tree, SideHolds
  <2>2. t[i].key # k
    BY <1>5
  <2> HIDE DEF d
  <2>3. /\ d = x => Low(t, lo2, i, s) = lo[x] /\ High(t, hi2, i, s) = hi[x]
        /\ d # x => lo2[d] = Low(t, lo2, i, s) /\ hi2[d] = High(t, hi2, i, s)
    <3>1. CASE s = "left"
      BY <3>1, <2>1, <2>2, <1>1, <1>2, <1>4 DEF Low, High
    <3>2. CASE s = "right"
      BY <3>2, <2>1, <2>2, <1>1, <1>2, <1>4 DEF Low, High
    <3> QED
      BY <3>1, <3>2 DEF Sides
  <2> QED
    BY <2>3 DEF d
<1>10. Other(es) \in Sides /\ Other(es) # es
  BY DEF Other, Sides
<1>11. ASSUME c = NIL
       PROVE  Gap(t, T \ {x}, lo[x], hi[x])
  <2>1. Gap(t, T, Low(t, lo, x, Other(es)), High(t, hi, x, Other(es)))
    BY <1>10, <1>11 DEF Tree, SideHolds, Gap
  <2>2. SUFFICES ASSUME NEW j \in T \ {x}, lo[x] < t[j].key, t[j].key < hi[x]
                 PROVE  FALSE
    BY DEF Gap
  <2>3. /\ ~(Low(t, lo, x, es) < t[j].key /\ t[j].key < High(t, hi, x, es)) /\ t[j].key # k
        /\ ~(Low(t, lo, x, Other(es)) < t[j].key /\ t[j].key < High(t, hi, x, Other(es)))
    BY <1>5, <1>6, <2>1 DEF Gap
  <2> DEFINE key == t[j].key
  <2>4. key \in Nat /\ lo[x] < key /\ key < hi[x]
    BY <2>2, <1>4
  <2>5. ~(lo[x] < key /\ key < k) /\ ~(k < key /\ key < hi[x]) /\ key # k
    BY <2>3 DEF Low, High, Other, Sides
  <2> HIDE DEF key, k
  <2> QED
    BY <2>4, <2>5, <1>1
<1>12. ASSUME c # NIL
       PROVE  lo2[c] = lo[x] /\ hi2[c] = hi[x]
  <2>1. c \in T /\ lo[c] = Low(t, lo, x, Other(es)) /\ hi[c] = High(t, hi, x, Other(es))
    BY <1>10, <1>12 DEF Tree, SideHolds
  <2> HIDE DEF c
  <2> QED
    BY <2>1, <1>1, <1>2, <1>4 DEF Low, High, Other, Sides
<1>13. ASSUME root # x
       PROVE  lo2[root] = 0 /\ hi2[root] = HiInsertionKey + 1
  <2>1. root \in T /\ lo[root] = 0 /\ hi[root] = HiInsertionKey + 1
    BY DEF Tree
  <2> QED
    BY <2>1, <1>1, <1>2, <1>4
<1> HIDE DEF c
<1>14. CutBounds(t, root, T, lo, hi, x, es, c, lo2, hi2)
  BY <1>3, <1>4, <1>7, <1>8, <1>9, <1>11, <1>12, <1>13 DEF CutBounds
<1> QED
  BY <1>14 DEF c, lo2, hi2

(* The child c of x, if any, takes its place below p.                      *)
Cuts(t, root, T, x, c, p, cs, u, newRoot) ==
  /\ u \in Seq(TreeNode) /\ T \ {x} \subseteq DOMAIN u
  /\ newRoot = IF p = NIL THEN c ELSE root
  /\ \A i \in T \ {x} :
       /\ u[i].key = t[i].key
       /\ u[i].parent = IF i = c THEN p ELSE t[i].parent
       /\ \A s \in Sides :
            /\ u[i].child[s] = IF i = p /\ s = cs THEN c ELSE t[i].child[s]
            /\ u[i].height[s] = t[i].height[s]

(* What is around a node with an empty side.                               *)
CutAround(t, root, T, x, es, c, p, cs) ==
  /\ p # NIL => p \in T /\ p # x /\ cs \in Sides /\ t[p].child[cs] = x
  /\ p = NIL <=> x = root
  /\ c # NIL => c \in T /\ c # x /\ t[c].parent = x
  /\ \A i \in T : \A s \in Sides :
       /\ t[i].child[s] = x => i = p /\ s = cs
       /\ t[i].child[s] # NIL => t[i].child[s] \in T /\ t[t[i].child[s]].parent = i
       /\ c # NIL /\ t[i].child[s] = c => i = x
  /\ \A i \in T : t[i].parent = x => i = c

(* This is what is around a node with an empty side.                       *)
LEMMA CutAroundHolds ==
  ASSUME NEW t, NEW root, NEW T, NEW lo, NEW hi, Tree(t, root, T, lo, hi),
         NEW x \in T, NEW es \in Sides, t[x].child[es] = NIL
  PROVE  CutAround(t, root, T, x, es, t[x].child[Other(es)], t[x].parent,
                   ChildSide(t, t[x].parent, x))
<1> DEFINE c == t[x].child[Other(es)]
           p == t[x].parent
           cs == ChildSide(t, p, x)
<1>1. FamilyOf(t, T, lo, hi, x, es) /\ FamilyOf(t, T, lo, hi, x, Other(es))
  BY Family DEF Other, Sides
<1>2. /\ cs \in Sides /\ Other(es) \in Sides /\ \A s \in Sides : s = es \/ s = Other(es)
      /\ p # NIL => p \in T /\ t[p].child[cs] = x /\ hi[x] - lo[x] < hi[p] - lo[p]
      /\ c # NIL => c \in T /\ t[c].parent = x /\ hi[c] - lo[c] < hi[x] - lo[x]
  BY <1>1 DEF FamilyOf
<1>3. \A i \in T : \A s \in Sides :
        t[i].child[s] # NIL => t[i].child[s] \in T /\ t[t[i].child[s]].parent = i
  BY DEF Tree, SideHolds
<1>4. \A i \in T : i # NIL /\ lo[i] \in Nat /\ hi[i] \in Nat
  BY NodeBounds
<1> HIDE DEF c, cs
<1>5. ASSUME NEW i \in T, NEW s \in Sides, t[i].child[s] = x
      PROVE  i = p /\ s = cs
  <2>1. i = p /\ p # NIL
    BY <1>3, <1>4, <1>5
  <2> QED
    BY <2>1, <1>2, <1>4, <1>5, OneSide
<1>6. p = NIL <=> x = root
  BY DEF Tree, ParentHolds
<1>7. p # NIL => p # x
  BY <1>2, <1>4
<1>8. c # NIL => c # x
  BY <1>2, <1>4
<1>9. ASSUME NEW i \in T, t[i].parent = x
      PROVE  i = c
  <2>1. x # NIL
    BY <1>4
  <2>2. PICK s \in Sides : t[x].child[s] = i
    BY <1>9, <2>1 DEF Tree, ParentHolds
  <2>3. s = Other(es)
    BY <2>2, <1>2, <1>4
  <2> QED
    BY <2>2, <2>3 DEF c
<1>10. \A i \in T : \A s \in Sides : c # NIL /\ t[i].child[s] = c => i = x
  BY <1>2, <1>3
<1>11. CutAround(t, root, T, x, es, c, p, cs)
  BY <1>2, <1>3, <1>5, <1>6, <1>7, <1>8, <1>9, <1>10 DEF CutAround
<1> QED
  BY <1>11 DEF c, cs

(* The tree without x.                                                     *)
LEMMA CutTree ==
  ASSUME NEW t, NEW root, NEW T, NEW lo, NEW hi, Tree(t, root, T, lo, hi),
         NEW x \in T, NEW es \in Sides, t[x].child[es] = NIL,
         NEW u, NEW newRoot,
         Cuts(t, root, T, x, t[x].child[Other(es)], t[x].parent,
              ChildSide(t, t[x].parent, x), u, newRoot)
  PROVE  Tree(u, newRoot, T \ {x}, CutLo(t, lo, x, es), CutHi(t, hi, x, es))
<1> DEFINE c == t[x].child[Other(es)]
           p == t[x].parent
           cs == ChildSide(t, p, x)
           T2 == T \ {x}
           lo2 == CutLo(t, lo, x, es)
           hi2 == CutHi(t, hi, x, es)
<1>1. CutAround(t, root, T, x, es, c, p, cs)
  BY CutAroundHolds
<1>2. CutBounds(t, root, T, lo, hi, x, es, c, lo2, hi2)
  BY CutBoundsHold
<1>3. Cuts(t, root, T, x, c, p, cs, u, newRoot)
  OBVIOUS
<1>4. /\ \A i \in T : i \in Nat /\ i # NIL
      /\ x \in Nat
  BY NodeBounds
<1> HIDE DEF c, p, cs, lo2, hi2
<1>5. \A i \in T2 : u[i].key = t[i].key
  BY <1>3 DEF Cuts
<1>6. \A i \in T2 : \A s \in Sides :
        Low(u, lo2, i, s) = Low(t, lo2, i, s) /\ High(u, hi2, i, s) = High(t, hi2, i, s)
  BY <1>5 DEF Low, High
<1>7. \A low, high : Gap(t, T2, low, high) => Gap(u, T2, low, high)
  BY <1>5 DEF Gap
<1>8. ASSUME NEW i \in T2, NEW s \in Sides
      PROVE  SideHolds(u, T2, lo2, hi2, i, s)
  <2> DEFINE d == t[i].child[s]
  <2>1. u[i].child[s] = IF i = p /\ s = cs THEN c ELSE d
    BY <1>3 DEF Cuts
  <2>2. /\ d = NIL => Gap(t, T2, Low(t, lo2, i, s), High(t, hi2, i, s))
        /\ d = x => Low(t, lo2, i, s) = lo[x] /\ High(t, hi2, i, s) = hi[x]
        /\ d # NIL /\ d # x => lo2[d] = Low(t, lo2, i, s) /\ hi2[d] = High(t, hi2, i, s)
        /\ c = NIL => Gap(t, T2, lo[x], hi[x])
        /\ c # NIL => lo2[c] = lo[x] /\ hi2[c] = hi[x]
    BY <1>2 DEF CutBounds
  <2>3. /\ d = x <=> i = p /\ s = cs
        /\ d # NIL => d \in T /\ t[d].parent = i
        /\ c # NIL => c \in T /\ c # x /\ t[c].parent = x
        /\ d # NIL => d # c
    BY <1>1, <1>4 DEF CutAround
  <2> HIDE DEF d
  <2>4. CASE d = x
    <3>1. u[i].child[s] = c /\ Low(u, lo2, i, s) = lo[x] /\ High(u, hi2, i, s) = hi[x] /\ i = p
      BY <2>1, <2>2, <2>3, <2>4, <1>6
    <3>2. CASE c = NIL
      BY <3>1, <3>2, <2>2, <1>7 DEF SideHolds, Gap
    <3>3. CASE c # NIL
      <4>1. c \in T2 /\ u[c].parent = p
        BY <3>3, <2>3, <1>3 DEF Cuts
      <4> QED
        BY <3>1, <3>3, <4>1, <2>2 DEF SideHolds
    <3> QED
      BY <3>2, <3>3
  <2>5. CASE d # x
    <3>1. u[i].child[s] = d
      BY <2>1, <2>3, <2>5
    <3>2. CASE d = NIL
      BY <3>1, <3>2, <2>2, <1>6, <1>7 DEF SideHolds, Gap
    <3>3. CASE d # NIL
      <4>1. d \in T2 /\ u[d].parent = i
        BY <3>3, <2>3, <2>5, <1>3 DEF Cuts
      <4> QED
        BY <3>1, <3>3, <4>1, <2>2, <2>5, <1>6 DEF SideHolds
    <3> QED
      BY <3>2, <3>3
  <2> QED
    BY <2>4, <2>5
<1>9. ASSUME NEW i \in T2
      PROVE  ParentHolds(u, newRoot, T2, i)
  <2>1. u[i].parent = (IF i = c THEN p ELSE t[i].parent) /\ newRoot = IF p = NIL THEN c ELSE root
    BY <1>3 DEF Cuts
  <2>2. CASE i = c
    <3>1. CASE p = NIL
      BY <2>1, <2>2, <3>1 DEF ParentHolds
    <3>2. CASE p # NIL
      <4>1. p \in T2 /\ cs \in Sides
        BY <3>2, <1>1 DEF CutAround
      <4>2. u[p].child[cs] = c
        BY <4>1, <1>3 DEF Cuts
      <4> QED
        BY <2>1, <2>2, <3>2, <4>1, <4>2 DEF ParentHolds
    <3> QED
      BY <3>1, <3>2
  <2>3. CASE i # c
    <3> DEFINE q == t[i].parent
    <3>1. u[i].parent = q /\ q # x
      BY <2>1, <2>3, <1>1 DEF CutAround
    <3>2. ParentHolds(t, root, T, i)
      BY DEF Tree
    <3>3. CASE q = NIL
      <4>1. i = root /\ root # x
        BY <3>2, <3>3 DEF ParentHolds
      <4>2. newRoot = root
        BY <4>1, <2>1, <1>1 DEF CutAround
      <4> QED
        BY <3>1, <3>3, <4>1, <4>2 DEF ParentHolds
    <3>4. CASE q # NIL
      <4>1. PICK s \in Sides : q \in T2 /\ t[q].child[s] = i
        BY <3>1, <3>2, <3>4 DEF ParentHolds
      <4>2. ~(q = p /\ s = cs)
        BY <4>1, <1>1, <3>4 DEF CutAround
      <4>3. u[q].child[s] = i
        BY <4>1, <4>2, <1>3 DEF Cuts
      <4> QED
        BY <3>1, <3>4, <4>1, <4>3 DEF ParentHolds
    <3> QED
      BY <3>3, <3>4
  <2> QED
    BY <2>2, <2>3
<1>10. IF newRoot = NIL THEN T2 = {}
       ELSE newRoot \in T2 /\ u[newRoot].parent = NIL /\ lo2[newRoot] = 0
            /\ hi2[newRoot] = HiInsertionKey + 1
  <2>1. /\ root # NIL /\ root \in T /\ t[root].parent = NIL /\ lo[root] = 0
        /\ hi[root] = HiInsertionKey + 1
    BY DEF Tree
  <2>2. newRoot = IF p = NIL THEN c ELSE root
    BY <1>3 DEF Cuts
  <2>3. CASE p = NIL
    <3>1. x = root
      BY <2>3, <1>1 DEF CutAround
    <3>2. CASE c = NIL
      <4>1. Gap(t, T2, 0, HiInsertionKey + 1)
        BY <3>1, <3>2, <2>1, <1>2 DEF CutBounds
      <4>2. ASSUME NEW j \in T2
            PROVE  FALSE
        <5>1. t[j].key \in Nat /\ lo[j] < t[j].key /\ lo[j] \in Nat /\ t[j].key < hi[j]
              /\ hi[j] \in Nat /\ hi[j] <= HiInsertionKey + 1 /\ HiInsertionKey \in Nat
          BY NodeBounds
        <5> QED
          BY <5>1, <4>1 DEF Gap
      <4> QED
        BY <4>2, <2>2, <2>3, <3>2
    <3>3. CASE c # NIL
      <4>1. c \in T2 /\ lo2[c] = 0 /\ hi2[c] = HiInsertionKey + 1
        BY <3>1, <3>3, <2>1, <1>1, <1>2 DEF CutBounds, CutAround
      <4>2. u[c].parent = NIL
        BY <4>1, <2>3, <1>3 DEF Cuts
      <4> QED
        BY <4>1, <4>2, <3>3, <2>2, <2>3
    <3> QED
      BY <3>2, <3>3
  <2>4. CASE p # NIL
    <3>1. root # x /\ root \in T2 /\ root # c
      BY <2>1, <2>4, <1>1, <1>4 DEF CutAround
    <3>2. lo2[root] = 0 /\ hi2[root] = HiInsertionKey + 1
      BY <3>1, <1>2 DEF CutBounds
    <3>3. u[root].parent = NIL
      BY <3>1, <2>1, <1>3 DEF Cuts
    <3> QED
      BY <3>1, <3>2, <3>3, <2>1, <2>2, <2>4
  <2> QED
    BY <2>3, <2>4
<1>11. \A i, j \in T2 : u[i].key = u[j].key => i = j
  BY <1>5 DEF Tree
<1>12. /\ lo2 \in [Nat -> Nat] /\ hi2 \in [Nat -> Nat]
       /\ \A i \in T2 : lo2[i] < u[i].key /\ u[i].key < hi2[i] /\ hi2[i] <= HiInsertionKey + 1
  BY <1>2, <1>5 DEF CutBounds
<1>13. u \in Seq(TreeNode) /\ T2 \subseteq DOMAIN u
  BY <1>3 DEF Cuts
<1>14. Tree(u, newRoot, T2, lo2, hi2)
  BY <1>8, <1>9, <1>10, <1>11, <1>12, <1>13 DEF Tree
<1> QED
  BY <1>14 DEF lo2, hi2

(* The parent of x is lower on that side.                                  *)
LowerAt(u, T, p, cs) ==
  /\ \A i \in T : BalancedAt(u, i)
  /\ HeightsBut(u, T, p, cs)
  /\ p # NIL => /\ p \in T /\ cs \in Sides
                /\ HeightBelow(u, u[p].child[cs]) = u[p].height[cs] + (-1)

(* After a node gave way, heights are right but for one side of its        *)
(* parent, which is lower by one.                                          *)
LEMMA CutHeights ==
  ASSUME NEW t, NEW root, NEW T, NEW lo, NEW hi, Searchable(t, root, T, lo, hi),
         NEW x \in T, NEW es \in Sides, t[x].child[es] = NIL,
         NEW u, NEW newRoot,
         Cuts(t, root, T, x, t[x].child[Other(es)], t[x].parent,
              ChildSide(t, t[x].parent, x), u, newRoot)
  PROVE  LowerAt(u, T \ {x}, t[x].parent, ChildSide(t, t[x].parent, x))
<1> DEFINE c == t[x].child[Other(es)]
           p == t[x].parent
           cs == ChildSide(t, p, x)
           T2 == T \ {x}
<1>0. Tree(t, root, T, lo, hi)
  BY DEF Searchable
<1>1. CutAround(t, root, T, x, es, c, p, cs)
  BY <1>0, CutAroundHolds
<1>2. Cuts(t, root, T, x, c, p, cs, u, newRoot)
  OBVIOUS
<1>3. /\ \A i \in T : i # NIL /\ t[i] \in TreeNode
      /\ Other(es) \in Sides
  BY <1>0, TreeTypes DEF Other, Sides
<1>4. Height(t[x]) = HeightBelow(t, c)
  <2>1. HeightHolds(t, x, es) /\ HeightHolds(t, x, Other(es))
    BY <1>3 DEF Searchable
  <2>2. t[x].height[es] = 0 /\ t[x].height[Other(es)] = HeightBelow(t, c)
    BY <2>1 DEF HeightHolds, HeightBelow
  <2>3. /\ Height(t[x]) = Larger(t[x].height[es], t[x].height[Other(es)])
        /\ t[x].height[Other(es)] \in Nat
    BY <1>3, HeightIs
  <2> QED
    BY <2>2, <2>3 DEF Larger
<1>5. p # NIL => t[p].height[cs] = Height(t[x]) + 1
  <2>1. SUFFICES ASSUME p # NIL
                 PROVE  t[p].height[cs] = Height(t[x]) + 1
    OBVIOUS
  <2>2. p \in T /\ cs \in Sides /\ t[p].child[cs] = x
    BY <2>1, <1>1 DEF CutAround
  <2>3. HeightHolds(t, p, cs)
    BY <2>2 DEF Searchable
  <2> QED
    BY <2>2, <2>3, <1>3 DEF HeightHolds, HeightBelow
<1> HIDE DEF c, p, cs
<1>6. \A i \in T2 : \A s \in Sides :
        /\ u[i].height[s] = t[i].height[s]
        /\ u[i].child[s] = IF i = p /\ s = cs THEN c ELSE t[i].child[s]
  BY <1>2 DEF Cuts
<1>7. \A i \in T2 : Height(u[i]) = Height(t[i])
  BY <1>6 DEF Height, Sides
<1>8. ASSUME NEW i \in T2
      PROVE  BalancedAt(u, i)
  <2>1. BalancedAt(t, i)
    BY DEF Searchable
  <2> QED
    BY <2>1, <1>6 DEF BalancedAt, Sides
<1>9. ASSUME NEW i \in T2, NEW s \in Sides, ~(i = p /\ s = cs)
      PROVE  HeightHolds(u, i, s)
  <2>1. HeightHolds(t, i, s)
    BY DEF Searchable
  <2>2. t[i].child[s] # NIL => t[i].child[s] \in T2
    BY <1>1, <1>9 DEF CutAround
  <2> QED
    BY <2>1, <2>2, <1>6, <1>7, <1>9 DEF HeightHolds, HeightBelow
<1>10. ASSUME p # NIL
       PROVE  /\ p \in T2 /\ cs \in Sides
              /\ HeightBelow(u, u[p].child[cs]) = u[p].height[cs] + (-1)
  <2>1. p \in T2 /\ cs \in Sides
    BY <1>1, <1>10 DEF CutAround
  <2>2. u[p].child[cs] = c /\ u[p].height[cs] = Height(t[x]) + 1
    BY <2>1, <1>5, <1>6, <1>10
  <2>3. c # NIL => c \in T2
    BY <1>1 DEF CutAround
  <2>4. HeightBelow(u, c) = HeightBelow(t, c)
    BY <2>3, <1>7 DEF HeightBelow
  <2>5. Height(t[x]) \in Nat
    BY <1>3, HeightType
  <2> QED
    BY <2>1, <2>2, <2>4, <2>5, <1>4
<1>11. LowerAt(u, T2, p, cs)
  BY <1>8, <1>9, <1>10 DEF LowerAt, HeightsBut
<1> QED
  BY <1>11 DEF p, cs

(* Where nothing is right of x, its key is in a gap that ends where x did. *)
LEMMA CutGap ==
  ASSUME NEW t, NEW root, NEW T, NEW lo, NEW hi, Tree(t, root, T, lo, hi),
         NEW x \in T, t[x].child["right"] = NIL,
         NEW u, NEW newRoot,
         Cuts(t, root, T, x, t[x].child["left"], t[x].parent,
              ChildSide(t, t[x].parent, x), u, newRoot),
         NEW i \in T \ {x}, NEW s \in Sides, u[i].child[s] = NIL,
         Low(u, CutLo(t, lo, x, "right"), i, s) < t[x].key,
         t[x].key < High(u, CutHi(t, hi, x, "right"), i, s)
  PROVE  High(u, CutHi(t, hi, x, "right"), i, s) = hi[x]
<1> DEFINE c == t[x].child["left"]
           p == t[x].parent
           cs == ChildSide(t, p, x)
           lo2 == CutLo(t, lo, x, "right")
           hi2 == CutHi(t, hi, x, "right")
<1>1. Other("right") = "left" /\ "right" \in Sides
  BY DEF Other, Sides
<1>2. CutAround(t, root, T, x, "right", c, p, cs)
  BY <1>1, CutAroundHolds
<1>3. CutBounds(t, root, T, lo, hi, x, "right", c, lo2, hi2)
  BY <1>1, CutBoundsHold
<1>4. Cuts(t, root, T, x, c, p, cs, u, newRoot)
  OBVIOUS
<1>5. /\ i \in Nat /\ lo[i] \in Nat /\ hi[i] \in Nat /\ t[i].key \in Nat
      /\ x \in Nat /\ t[x].key \in Nat /\ x # NIL
  BY NodeBounds
<1>6. /\ lo2[i] = lo[i]
      /\ hi2[i] = IF hi[i] = t[x].key THEN hi[x] ELSE hi[i]
  BY <1>5 DEF CutLo, CutHi
<1> HIDE DEF c, p, cs, lo2, hi2
<1>7. /\ u[i].key = t[i].key
      /\ u[i].child[s] = IF i = p /\ s = cs THEN c ELSE t[i].child[s]
  BY <1>4 DEF Cuts
<1>8. /\ Low(u, lo2, i, s) = Low(t, lo2, i, s) /\ High(u, hi2, i, s) = High(t, hi2, i, s)
  BY <1>7 DEF Low, High
<1>9. CASE t[i].child[s] = x
  <2>1. High(t, hi2, i, s) = hi[x]
    BY <1>3, <1>9 DEF CutBounds
  <2> QED
    BY <2>1, <1>8 DEF hi2
<1>10. CASE t[i].child[s] # x
  <2>1. t[i].child[s] = NIL
    <3>1. p # NIL => t[p].child[cs] = x
      BY <1>2 DEF CutAround
    <3>2. i # NIL
      BY NodeBounds
    <3> QED
      BY <1>7, <1>10, <3>1, <3>2
  <2>2. ~(Low(t, lo, i, s) < t[x].key /\ t[x].key < High(t, hi, i, s))
    BY <2>1 DEF Tree, SideHolds
  <2>3. Low(u, lo2, i, s) < t[x].key /\ t[x].key < High(u, hi2, i, s)
    BY DEF lo2, hi2
  <2>4. High(t, hi2, i, s) = hi[x]
    BY <2>2, <2>3, <1>5, <1>6, <1>8 DEF Low, High
  <2> QED
    BY <2>4, <1>8 DEF hi2
<1> QED
  BY <1>9, <1>10

-----------------------------------------------------------------------------
(* Another node y takes the place of x, with the key before that of x.     *)

Renamed(x, y, i) == IF i = x THEN y ELSE i
Rekeyed(old, new, key) == IF key = old THEN new ELSE key

ReplacedSet(T, x, y) == (T \ {x}) \cup {y}

Replaces(w, root, T, x, y, key, u, newRoot) ==
  /\ u \in Seq(TreeNode) /\ ReplacedSet(T, x, y) \subseteq DOMAIN u
  /\ newRoot = Renamed(x, y, root)
  /\ \A i \in T :
       LET n == u[Renamed(x, y, i)]
       IN /\ n.key = Rekeyed(w[x].key, key, w[i].key)
          /\ n.parent = Renamed(x, y, w[i].parent)
          /\ \A s \in Sides : /\ n.child[s] = Renamed(x, y, w[i].child[s])
                              /\ n.height[s] = w[i].height[s]

ReplacedBounds(w, x, y, key, bounds) ==
  [j \in Nat |-> Rekeyed(w[x].key, key, bounds[IF j = y THEN x ELSE j])]

(* No key is between the new one and that of x, and where the new one      *)
(* would be is where x begins.                                             *)
Precedes1(w, T, lo, hi, x, key) ==
  /\ key \in Nat /\ lo[x] < key /\ key < w[x].key
  /\ \A j \in T : ~(key <= w[j].key /\ w[j].key < w[x].key)
  /\ \A i \in T : \A s \in Sides :
       w[i].child[s] = NIL /\ Low(w, lo, i, s) < key /\ key < High(w, hi, i, s) =>
         High(w, hi, i, s) = w[x].key

(* A tree remains one when its node x gives its place to y, with the key   *)
(* of its predecessor.                                                     *)
LEMMA ReplacedTree ==
  ASSUME NEW w, NEW root, NEW T, NEW lo, NEW hi, Tree(w, root, T, lo, hi),
         NEW x \in T, NEW y \in Nat, y \notin T, y # NIL, NEW key,
         Precedes1(w, T, lo, hi, x, key),
         NEW u, NEW newRoot, Replaces(w, root, T, x, y, key, u, newRoot)
  PROVE  Tree(u, newRoot, ReplacedSet(T, x, y), ReplacedBounds(w, x, y, key, lo),
              ReplacedBounds(w, x, y, key, hi))
<1> DEFINE T2 == ReplacedSet(T, x, y)
           lo2 == ReplacedBounds(w, x, y, key, lo)
           hi2 == ReplacedBounds(w, x, y, key, hi)
           r(i) == Renamed(x, y, i)
           K == w[x].key
           f(v) == Rekeyed(K, key, v)
<1>1. \A i \in T : /\ i \in Nat /\ i # NIL /\ w[i].key \in Nat /\ lo[i] \in Nat /\ hi[i] \in Nat
                   /\ lo[i] < w[i].key /\ w[i].key < hi[i] /\ hi[i] <= HiInsertionKey + 1
                   /\ HiInsertionKey \in Nat
  BY NodeBounds
<1>2. key \in Nat /\ lo[x] < key /\ key < K /\ K \in Nat
  BY <1>1 DEF Precedes1
<1>3. \A i, j \in T : w[i].key = w[j].key => i = j
  BY DEF Tree
<1>4. \A j \in T : w[j].key < key \/ w[j].key >= K
  BY <1>1, <1>2 DEF Precedes1
<1>5. lo \in [Nat -> Nat] /\ hi \in [Nat -> Nat]
  BY DEF Tree
<1>6. lo2 \in [Nat -> Nat] /\ hi2 \in [Nat -> Nat]
  BY <1>1, <1>2, <1>5 DEF ReplacedBounds, Rekeyed
<1>7. \A i \in T : lo2[r(i)] = f(lo[i]) /\ hi2[r(i)] = f(hi[i])
  BY <1>1 DEF ReplacedBounds, Renamed
<1>8. \A i \in T : r(i) \in T2 /\ r(i) # NIL
  BY <1>1 DEF Renamed, ReplacedSet
<1>9. \A j \in T2 : \E i \in T : j = r(i)
  BY DEF Renamed, ReplacedSet
<1>10. \A i, j \in T : r(i) = r(j) => i = j
  BY DEF Renamed
<1> HIDE DEF T2, lo2, hi2
<1>11. \A i \in T : /\ u[r(i)].key = f(w[i].key) /\ u[r(i)].parent = r(w[i].parent)
                    /\ \A s \in Sides : u[r(i)].child[s] = r(w[i].child[s])
  BY DEF Replaces
<1>12. r(NIL) = NIL
  BY <1>1 DEF Renamed
<1>13. f(K) = key /\ \A v : v # K => f(v) = v
  BY DEF Rekeyed
<1>14. \A i \in T : i # x => w[i].key # K
  BY <1>3
<1>15. ASSUME NEW i \in T, NEW s \in Sides
       PROVE  /\ Low(u, lo2, r(i), s) = f(Low(w, lo, i, s))
              /\ High(u, hi2, r(i), s) = f(High(w, hi, i, s))
  BY <1>7, <1>11 DEF Low, High
<1> HIDE DEF f, r
<1>16. ASSUME NEW i \in T, NEW j \in T, NEW s \in Sides, w[i].child[s] = NIL,
              f(Low(w, lo, i, s)) < f(w[j].key), f(w[j].key) < f(High(w, hi, i, s))
       PROVE  FALSE
  <2> DEFINE a == Low(w, lo, i, s)
             b == High(w, hi, i, s)
             k == w[j].key
  <2>1. a \in Nat /\ b \in Nat /\ k \in Nat
    BY <1>1 DEF Low, High
  <2>2. ~(a < k /\ k < b)
    BY <1>16 DEF Tree, SideHolds
  <2>3. a < key /\ key < b => b = K
    BY <1>16 DEF Precedes1
  <2>4. k < key \/ k >= K
    BY <1>4
  <2>5. f(a) < f(k) /\ f(k) < f(b)
    BY <1>16
  <2> HIDE DEF a, b, k, K
  <2> QED
    BY <2>1, <2>2, <2>3, <2>4, <2>5, <1>2, <1>13
<1>17. ASSUME NEW i \in T
       PROVE  lo2[r(i)] < u[r(i)].key /\ u[r(i)].key < hi2[r(i)] /\ hi2[r(i)] <= HiInsertionKey + 1
  <2> DEFINE a == lo[i]
             b == hi[i]
             k == w[i].key
  <2>1. /\ a \in Nat /\ b \in Nat /\ k \in Nat /\ a < k /\ k < b /\ b <= HiInsertionKey + 1
        /\ HiInsertionKey \in Nat
    BY <1>1
  <2>2. k = K => a < key
    BY <1>2, <1>3
  <2>3. k < key \/ k >= K
    BY <1>4
  <2> HIDE DEF a, b, k, K
  <2>4. f(a) < f(k) /\ f(k) < f(b) /\ f(b) <= HiInsertionKey + 1
    BY <2>1, <2>2, <2>3, <1>2, <1>13
  <2> QED
    BY <2>4, <1>7, <1>11 DEF a, b, k
<1>18. ASSUME NEW i \in T, NEW s \in Sides
       PROVE  SideHolds(u, T2, lo2, hi2, r(i), s)
  <2> DEFINE d == w[i].child[s]
  <2>1. u[r(i)].child[s] = r(d)
    BY <1>11
  <2>2. CASE d = NIL
    <3>1. u[r(i)].child[s] = NIL
      BY <2>1, <2>2, <1>12
    <3>2. ASSUME NEW j2 \in T2, Low(u, lo2, r(i), s) < u[j2].key,
                 u[j2].key < High(u, hi2, r(i), s)
          PROVE  FALSE
      <4>1. PICK j \in T : j2 = r(j)
        BY <1>9
      <4>2. u[j2].key = f(w[j].key)
        BY <4>1, <1>11
      <4> QED
        BY <4>2, <3>2, <2>2, <1>15, <1>16
    <3> QED
      BY <3>1, <3>2 DEF SideHolds
  <2>3. CASE d # NIL
    <3>1. d \in T /\ w[d].parent = i /\ lo[d] = Low(w, lo, i, s) /\ hi[d] = High(w, hi, i, s)
      BY <2>3 DEF Tree, SideHolds
    <3>2. r(d) \in T2 /\ r(d) # NIL /\ u[r(d)].parent = r(i)
      BY <3>1, <1>8, <1>11
    <3>3. lo2[r(d)] = Low(u, lo2, r(i), s) /\ hi2[r(d)] = High(u, hi2, r(i), s)
      BY <3>1, <1>7, <1>15
    <3> QED
      BY <2>1, <3>2, <3>3 DEF SideHolds
  <2> QED
    BY <2>2, <2>3
<1>19. newRoot = r(root)
  BY DEF Replaces, r
<1>20. ASSUME NEW i \in T
       PROVE  ParentHolds(u, newRoot, T2, r(i))
  <2> DEFINE p == w[i].parent
  <2>1. u[r(i)].parent = r(p)
    BY <1>11
  <2>2. ParentHolds(w, root, T, i)
    BY DEF Tree
  <2>3. CASE p = NIL
    <3>1. i = root /\ r(p) = NIL
      BY <2>2, <2>3, <1>12 DEF ParentHolds
    <3> QED
      BY <2>1, <3>1, <1>19 DEF ParentHolds
  <2>4. CASE p # NIL
    <3>1. PICK s \in Sides : p \in T /\ w[p].child[s] = i
      BY <2>2, <2>4 DEF ParentHolds
    <3>2. r(p) \in T2 /\ r(p) # NIL /\ u[r(p)].child[s] = r(i)
      BY <3>1, <1>8, <1>11
    <3> QED
      BY <2>1, <3>2 DEF ParentHolds
  <2> QED
    BY <2>3, <2>4
<1>21. /\ root \in T /\ w[root].parent = NIL /\ lo[root] = 0 /\ hi[root] = HiInsertionKey + 1
  BY DEF Tree
<1>22. newRoot \in T2 /\ newRoot # NIL /\ u[newRoot].parent = NIL /\ lo2[newRoot] = 0
       /\ hi2[newRoot] = HiInsertionKey + 1
  <2>1. K # 0 /\ K # HiInsertionKey + 1
    BY <1>1, <1>2
  <2> QED
    BY <2>1, <1>7, <1>8, <1>11, <1>12, <1>13, <1>19, <1>21
<1>23. \A i, j \in T2 : u[i].key = u[j].key => i = j
  <2>1. ASSUME NEW i \in T, NEW j \in T, f(w[i].key) = f(w[j].key)
        PROVE  i = j
    <3> DEFINE k == w[i].key
               l == w[j].key
    <3>1. k \in Nat /\ l \in Nat /\ (k < key \/ k >= K) /\ (l < key \/ l >= K) /\ f(k) = f(l)
      BY <2>1, <1>1, <1>4
    <3> HIDE DEF k, l, K
    <3>2. k = l
      BY <3>1, <1>2, <1>13
    <3> QED
      BY <3>2, <1>3 DEF k, l
  <2>2. ASSUME NEW i2 \in T2, NEW j2 \in T2, u[i2].key = u[j2].key
        PROVE  i2 = j2
    <3>1. PICK i \in T : i2 = r(i)
      BY <1>9
    <3>2. PICK j \in T : j2 = r(j)
      BY <1>9
    <3>3. f(w[i].key) = f(w[j].key)
      BY <3>1, <3>2, <2>2, <1>11
    <3> QED
      BY <3>1, <3>2, <3>3, <2>1
  <2> QED
    BY <2>2
<1>24. /\ \A j \in T2 : lo2[j] < u[j].key /\ u[j].key < hi2[j] /\ hi2[j] <= HiInsertionKey + 1
       /\ \A j \in T2 : \A s \in Sides : SideHolds(u, T2, lo2, hi2, j, s)
       /\ \A j \in T2 : ParentHolds(u, newRoot, T2, j)
  BY <1>9, <1>17, <1>18, <1>20
<1>25. u \in Seq(TreeNode) /\ T2 \subseteq DOMAIN u
  BY DEF Replaces, T2
<1>26. Tree(u, newRoot, T2, lo2, hi2)
  BY <1>6, <1>22, <1>23, <1>24, <1>25 DEF Tree
<1> QED
  BY <1>26 DEF T2, lo2, hi2

(* The heights go with the place.                                          *)
LEMMA ReplacedHeights ==
  ASSUME NEW w, NEW root, NEW T, NEW lo, NEW hi, Tree(w, root, T, lo, hi),
         NEW x \in T, NEW y \in Nat, y \notin T, y # NIL, NEW key,
         NEW u, NEW newRoot, Replaces(w, root, T, x, y, key, u, newRoot),
         NEW p \in T, NEW cs, LowerAt(w, T, p, cs)
  PROVE  LowerAt(u, ReplacedSet(T, x, y), Renamed(x, y, p), cs)
<1> DEFINE T2 == ReplacedSet(T, x, y)
           r(i) == Renamed(x, y, i)
<1>1. \A i \in T : i # NIL
  BY NodeBounds
<1>2. \A j \in T2 : \E i \in T : j = r(i)
  BY DEF Renamed, ReplacedSet
<1>3. \A i \in T : r(i) \in T2 /\ r(i) # NIL
  BY <1>1 DEF Renamed, ReplacedSet
<1>4. \A i \in T : \A s \in Sides : /\ u[r(i)].child[s] = r(w[i].child[s])
                                    /\ u[r(i)].height[s] = w[i].height[s]
  BY DEF Replaces
<1>5. r(NIL) = NIL /\ \A i \in T : i = p <=> r(i) = r(p)
  BY <1>1 DEF Renamed
<1> HIDE DEF r, T2
<1>6. \A i \in T : Height(u[r(i)]) = Height(w[i])
  BY <1>4 DEF Height, Sides
<1>7. ASSUME NEW i \in T, NEW s \in Sides
      PROVE  HeightBelow(u, u[r(i)].child[s]) = HeightBelow(w, w[i].child[s])
  <2>1. w[i].child[s] # NIL => w[i].child[s] \in T
    BY DEF Tree, SideHolds
  <2>2. CASE w[i].child[s] = NIL
    BY <2>2, <1>4, <1>5 DEF HeightBelow
  <2>3. CASE w[i].child[s] # NIL
    BY <2>1, <2>3, <1>3, <1>4, <1>6 DEF HeightBelow
  <2> QED
    BY <2>2, <2>3
<1>8. ASSUME NEW j \in T2
      PROVE  BalancedAt(u, j)
  <2>1. PICK i \in T : j = r(i)
    BY <1>2
  <2>2. BalancedAt(w, i)
    BY DEF LowerAt
  <2> QED
    BY <2>1, <2>2, <1>4 DEF BalancedAt, Sides
<1>9. ASSUME NEW j \in T2, NEW s \in Sides, ~(j = r(p) /\ s = cs)
      PROVE  HeightHolds(u, j, s)
  <2>1. PICK i \in T : j = r(i)
    BY <1>2
  <2>2. HeightHolds(w, i, s)
    BY <2>1, <1>5, <1>9 DEF LowerAt, HeightsBut
  <2> QED
    BY <2>1, <2>2, <1>4, <1>7 DEF HeightHolds
<1>10. cs \in Sides /\ HeightBelow(w, w[p].child[cs]) = w[p].height[cs] + (-1)
  BY <1>1 DEF LowerAt
<1>11. HeightBelow(u, u[r(p)].child[cs]) = u[r(p)].height[cs] + (-1)
  BY <1>4, <1>7, <1>10
<1>12. LowerAt(u, T2, r(p), cs)
  BY <1>3, <1>8, <1>9, <1>10, <1>11 DEF LowerAt, HeightsBut
<1> QED
  BY <1>12 DEF r, T2

-----------------------------------------------------------------------------
(* Removal of a tree node.                                                 *)

(* The tree after x gave way to its child c.                               *)
CutAt(t, root, x, c) ==
  LET p == t[x].parent
  IN Attached(SetParent(t, c, p), root, p, ChildSide(t, p, x), c)

(* What the removal of a node with one child or none sets.                 *)
LEMMA CutIs ==
  ASSUME NEW t, NEW root, NEW T, NEW lo, NEW hi, Tree(t, root, T, lo, hi),
         NEW x \in T, NEW es \in Sides, t[x].child[es] = NIL
  PROVE  LET c == t[x].child[Other(es)]
             u == CutAt(t, root, x, c)
         IN /\ Cuts(t, root, T, x, c, t[x].parent, ChildSide(t, t[x].parent, x), u.trees, u.root)
            /\ Framed(t, u.trees, T)
<1> DEFINE c == t[x].child[Other(es)]
           p == t[x].parent
           cs == ChildSide(t, p, x)
           v == SetParent(t, c, p)
           u == CutAt(t, root, x, c)
<1>1. CutAround(t, root, T, x, es, c, p, cs)
  BY CutAroundHolds
<1>2. /\ t \in Seq(TreeNode) /\ T \subseteq DOMAIN t /\ \A i \in DOMAIN t : t[i] \in TreeNode
      /\ \A i \in T : i # NIL
      /\ p \in Nat /\ c \in Nat
  <2>1. Other(es) \in Sides
    BY DEF Other, Sides
  <2>2. t \in Seq(TreeNode) /\ T \subseteq DOMAIN t
    BY DEF Tree
  <2> QED
    BY <2>1, <2>2, TreeTypes
<1>3. c # NIL => c \in T /\ c # x
  BY <1>1 DEF CutAround
<1>4. p # NIL => p \in T /\ p # x /\ cs \in Sides /\ t[p].child[cs] = x
  BY <1>1 DEF CutAround
<1>5. c # NIL /\ p # NIL => c # p
  <2>1. SUFFICES ASSUME c # NIL, c = p
                 PROVE  FALSE
    OBVIOUS
  <2>2. hi[c] - lo[c] < hi[x] - lo[x]
    <3>1. Other(es) \in Sides
      BY DEF Other, Sides
    <3> QED
      BY <2>1, <3>1, ChildBelow
  <2>3. hi[x] - lo[x] < hi[p] - lo[p]
    BY <2>1, ParentAbove
  <2>4. hi[c] \in Nat /\ lo[c] \in Nat /\ hi[x] \in Nat /\ lo[x] \in Nat
    <3>1. c \in T
      BY <2>1, <1>3
    <3> QED
      BY <3>1, NodeBounds
  <2> QED
    BY <2>1, <2>2, <2>3, <2>4
<1>6. Parented(t, c, p, v)
  <2>1. c \in DOMAIN t \cup {NIL}
    BY <1>2, <1>3
  <2> QED
    BY <2>1, <1>2, SetParented
<1>7. u = IF p = NIL THEN [trees |-> v, root |-> c]
          ELSE [trees |-> [v EXCEPT ![p].child[cs] = c], root |-> root]
  BY DEF CutAt, Attached
<1> HIDE DEF c, p, cs, v, u
<1>8. /\ v \in Seq(TreeNode) /\ DOMAIN v = DOMAIN t /\ Len(v) = Len(t)
      /\ \A i \in DOMAIN t : i # c => v[i] = t[i]
      /\ c # NIL => NodeIs(v[c], t[c], p, t[c].child, t[c].height)
  BY <1>6 DEF Parented
<1>9. \A i \in DOMAIN t : /\ v[i] \in TreeNode /\ SameKept(v[i], t[i])
                          /\ \A s \in Sides : v[i].child[s] = t[i].child[s] /\ v[i].height[s] = t[i].height[s]
                          /\ v[i].parent = IF i = c THEN p ELSE t[i].parent
  <2>1. ASSUME NEW i \in DOMAIN t
        PROVE  /\ v[i] \in TreeNode /\ SameKept(v[i], t[i])
               /\ \A s \in Sides : v[i].child[s] = t[i].child[s] /\ v[i].height[s] = t[i].height[s]
               /\ v[i].parent = IF i = c THEN p ELSE t[i].parent
    <3>1. CASE i = c
      <4>1. c # NIL
        BY <3>1, TreeTypes
      <4> QED
        BY <3>1, <4>1, <1>8 DEF NodeIs
    <3>2. CASE i # c
      BY <3>2, <1>2, <1>8 DEF SameKept
    <3> QED
      BY <3>1, <3>2
  <2> QED
    BY <2>1
<1>10. CASE p = NIL
  <2>1. u.trees = v /\ u.root = c
    BY <1>7, <1>10
  <2>2. \A i \in T \ {x} : i # p
    BY <1>2, <1>10
  <2>3. Cuts(t, root, T, x, c, p, cs, u.trees, u.root)
    BY <2>1, <2>2, <1>2, <1>8, <1>9, <1>10 DEF Cuts, SameKept
  <2>4. Framed(t, u.trees, T)
    BY <2>1, <1>2, <1>3, <1>8, <1>9, TreeTypes DEF Framed
  <2> QED
    BY <2>3, <2>4 DEF c, p, cs, u
<1>11. CASE p # NIL
  <2> DEFINE n == [v[p] EXCEPT !.child[cs] = c]
  <2>1. u.trees = [v EXCEPT ![p] = n] /\ u.root = root
    BY <1>7, <1>11
  <2>2. p \in DOMAIN v /\ p # x /\ cs \in Sides /\ v[p] \in TreeNode /\ v[p] = t[p]
    BY <1>2, <1>4, <1>5, <1>8, <1>9, <1>11
  <2>3. NodeIs(n, v[p], v[p].parent, With(v[p].child, cs, c), v[p].height)
    BY <2>2, <1>2, NodeChild
  <2>4. ChildWith(n, v[p], cs, c)
    BY <2>2, <2>3, ChildIs
  <2>5. n \in TreeNode /\ SameKept(n, v[p]) /\ n.parent = v[p].parent
        /\ \A s \in Sides : n.height[s] = v[p].height[s]
    BY <2>3 DEF NodeIs
  <2> HIDE DEF n
  <2>6. /\ u.trees \in Seq(TreeNode) /\ DOMAIN u.trees = DOMAIN v /\ Len(u.trees) = Len(v)
        /\ u.trees[p] = n /\ \A i \in DOMAIN v : i # p => u.trees[i] = v[i]
    BY <2>1, <2>2, <2>5, <1>8, NodeSet
  <2>7. ASSUME NEW i \in T \ {x}
        PROVE  /\ u.trees[i].key = t[i].key
               /\ u.trees[i].parent = IF i = c THEN p ELSE t[i].parent
               /\ \A s \in Sides :
                    /\ u.trees[i].child[s] = IF i = p /\ s = cs THEN c ELSE t[i].child[s]
                    /\ u.trees[i].height[s] = t[i].height[s]
    <3>1. i \in DOMAIN t /\ SameKept(v[i], t[i])
      BY <1>2, <1>9
    <3>2. CASE i = p
      BY <3>1, <3>2, <2>2, <2>4, <2>5, <2>6, <1>9 DEF ChildWith, SameKept
    <3>3. CASE i # p
      BY <3>1, <3>3, <2>6, <1>8, <1>9 DEF SameKept
    <3> QED
      BY <3>2, <3>3
  <2>8. Cuts(t, root, T, x, c, p, cs, u.trees, u.root)
    BY <2>1, <2>6, <2>7, <1>2, <1>8, <1>11 DEF Cuts
  <2>9. \A i \in DOMAIN t : SameKept(u.trees[i], t[i])
    BY <2>2, <2>5, <2>6, <1>8, <1>9 DEF SameKept
  <2>10. \A i \in DOMAIN t \ T : u.trees[i] = t[i]
    <3>1. p \in T
      BY <1>4, <1>11
    <3>2. \A i \in DOMAIN t : i # NIL
      BY TreeTypes
    <3> QED
      BY <3>1, <3>2, <2>6, <1>3, <1>8
  <2>11. Framed(t, u.trees, T)
    BY <2>6, <2>9, <2>10, <1>8 DEF Framed
  <2> QED
    BY <2>8, <2>11 DEF c, p, cs, u
<1> QED
  BY <1>10, <1>11

(* The predecessor y of x is l, the left child, or right of its parent.    *)
Predecessor(t, T, lo, hi, x, y) ==
  LET l == t[x].child["left"]
      p == t[y].parent
  IN /\ y \in T /\ y # x /\ t[y].child["right"] = NIL
     /\ hi[y] = t[x].key /\ lo[x] < t[y].key /\ t[y].key < t[x].key
     /\ IF y = l THEN p = x ELSE p \in T /\ p # x /\ p # y /\ p # NIL /\ t[p].child["right"] = y

(* The predecessor of a node is the rightmost node of its left subtree.    *)
LEMMA PredecessorIs ==
  ASSUME NEW t, NEW root, NEW T, NEW lo, NEW hi, Tree(t, root, T, lo, hi), Idle(t, T),
         NEW x \in T, t[x].child["left"] # NIL
  PROVE  Predecessor(t, T, lo, hi, x, Down(t, t[x].child["left"], "right"))
<1> DEFINE l == t[x].child["left"]
           y == Down(t, l, "right")
           next == DownStep(t, "right")
           P == {j \in T : /\ hi[j] = t[x].key /\ lo[x] <= lo[j]
                           /\ IF j = l THEN t[j].parent = x
                              ELSE /\ t[j].parent \in T /\ t[j].parent # x
                                   /\ t[j].parent # j
                                   /\ t[t[j].parent].child["right"] = j}
<1>0. "left" \in Sides /\ "right" \in Sides
  BY DEF Sides
<1>1. Descending(next, Span(t, T, lo, hi))
  BY <1>0, DownDescending
<1>2. \A i \in T : /\ i \in DOMAIN t /\ i # NIL /\ lo[i] \in Nat /\ hi[i] \in Nat /\ t[i].key \in Nat
                   /\ lo[i] < t[i].key /\ t[i].key < hi[i]
  BY NodeBounds
<1>3. /\ l \in T /\ t[l].parent = x /\ lo[l] = lo[x] /\ hi[l] = t[x].key
  BY <1>0, ChildBelow DEF Low, High
<1>4. l \in P
  BY <1>2, <1>3
<1>5. ASSUME NEW j \in P, next[j] # NIL
      PROVE  next[j] \in P
  <2> DEFINE d == t[j].child["right"]
  <2>1. j \in T /\ hi[j] = t[x].key /\ lo[x] <= lo[j]
    OBVIOUS
  <2>2. next[j] = d
    BY <2>1, <1>2 DEF DownStep
  <2>3. d \in T /\ t[d].parent = j /\ lo[d] = t[j].key /\ hi[d] = hi[j]
        /\ hi[d] - lo[d] < hi[j] - lo[j]
    BY <2>1, <2>2, <1>0, <1>5, ChildBelow DEF Low, High
  <2>4. j # x /\ d # j
    BY <2>1, <2>3, <1>2
  <2>5. d # l
    BY <2>3, <2>4, <1>3
  <2> HIDE DEF d
  <2>6. lo[x] <= lo[d]
    BY <2>1, <2>3, <1>2
  <2>7. t[t[d].parent].child["right"] = d
    BY <2>3 DEF d
  <2> QED
    BY <2>1, <2>2, <2>3, <2>4, <2>5, <2>6, <2>7
<1>6. y \in P /\ next[y] = NIL
  <2>1. l \in DOMAIN next /\ l # NIL
    BY <1>2, <1>3 DEF DownStep
  <2> HIDE DEF l, next, P
  <2>2. PathEnd(next, l) \in P /\ next[PathEnd(next, l)] = NIL
    BY <2>1, <1>1, <1>4, <1>5, PathEndIn
  <2> QED
    BY <2>2 DEF Down, next
<1> HIDE DEF l, y
<1>7. y \in T /\ hi[y] = t[x].key /\ lo[x] <= lo[y]
      /\ IF y = l THEN t[y].parent = x
         ELSE t[y].parent \in T /\ t[y].parent # x /\ t[y].parent # y
              /\ t[t[y].parent].child["right"] = y
  BY <1>6
<1>8. t[y].child["right"] = NIL
  BY <1>2, <1>6, <1>7 DEF DownStep
<1>9. lo[x] < t[y].key /\ t[y].key < t[x].key /\ y # x
  BY <1>2, <1>7
<1>10. Predecessor(t, T, lo, hi, x, y)
  BY <1>2, <1>7, <1>8, <1>9 DEF Predecessor, l
<1> QED
  BY <1>10 DEF y, l

(* What taking the place of x does to the nodes, but for the parent of x.  *)
Moved(t, x, y, v) ==
  LET l == t[x].child["left"]
      r == t[x].child["right"]
      below == t[y].child["left"]
      p == t[y].parent
  IN /\ v \in Seq(TreeNode) /\ DOMAIN v = DOMAIN t /\ Len(v) = Len(t)
     /\ SameKept(v[y], t[y]) /\ v[y].parent = t[x].parent
     /\ v[y].child["left"] = IF y = l THEN below ELSE l
     /\ v[y].child["right"] = r
     /\ \A s \in Sides : v[y].height[s] = t[x].height[s]
     /\ \A i \in DOMAIN t : i # y =>
          /\ SameKept(v[i], t[i])
          /\ v[i].parent = IF i = r \/ i = l THEN y
                           ELSE IF i = below /\ y # l THEN p ELSE t[i].parent
          /\ \A s \in Sides : /\ v[i].height[s] = t[i].height[s]
                              /\ v[i].child[s] = IF i = p /\ s = "right" /\ y # l THEN below
                                                 ELSE t[i].child[s]
     /\ \A i \in DOMAIN t : i \notin {y, r, l, below, p} => v[i] = t[i]

(* A node in the place of x, with the child on the right of x.             *)
InPlace(n, h, p, r) == [n EXCEPT !.height = h, !.parent = p, !.child["right"] = r]
LeftOf(n, l) == [n EXCEPT !.child["left"] = l]

MovesIn(n, h, p, r, l, inPlace, moved) ==
  /\ inPlace \in TreeNode /\ SameKept(inPlace, n) /\ inPlace.parent = p
  /\ inPlace.child["right"] = r /\ inPlace.child["left"] = n.child["left"]
  /\ inPlace.height = h
  /\ moved \in TreeNode /\ SameKept(moved, n) /\ moved.parent = p
  /\ moved.child["right"] = r /\ moved.child["left"] = l
  /\ moved.height = h

(* A node moved to another place.                                          *)
LEMMA InPlaceIs ==
  ASSUME NEW n \in TreeNode, NEW h \in [Sides -> Nat], NEW p \in Nat, NEW r \in Nat, NEW l \in Nat
  PROVE  MovesIn(n, h, p, r, l, InPlace(n, h, p, r), LeftOf(InPlace(n, h, p, r), l))
BY DEF TreeNode, SameKept, Sides, InPlace, LeftOf, MovesIn

(* What the removal of a node with two children sets.                      *)
LEMMA MovedIs ==
  ASSUME NEW t, NEW root, NEW T, NEW lo, NEW hi, Tree(t, root, T, lo, hi),
         NEW x \in T, t[x].child["left"] # NIL, t[x].child["right"] # NIL,
         NEW y, y = Down(t, t[x].child["left"], "right"), Predecessor(t, T, lo, hi, x, y)
  PROVE  LET cut == RemoveTreeNodeWithChildren(t, x)
         IN /\ Moved(t, x, y, cut.trees) /\ cut.root = y
            /\ cut.from = (IF y = t[x].child["left"] THEN y ELSE t[y].parent)
            /\ cut.side = (IF y = t[x].child["left"] THEN "left" ELSE "right")
<1> DEFINE l == t[x].child["left"]
           r == t[x].child["right"]
           below == t[y].child["left"]
           p == t[y].parent
           inPlace == InPlace(t[y], t[x].height, t[x].parent, r)
           cut == RemoveTreeNodeWithChildren(t, x)
<1>0. "left" \in Sides /\ "right" \in Sides
  BY DEF Sides
<1>1. /\ y \in T /\ y # x /\ t[y].child["right"] = NIL
      /\ t[y].key < t[x].key
      /\ IF y = l THEN p = x ELSE p \in T /\ p # x /\ p # y /\ p # NIL /\ t[p].child["right"] = y
  BY DEF Predecessor
<1>2. /\ t \in Seq(TreeNode)
      /\ \A i \in T : i \in DOMAIN t /\ i # NIL
      /\ \A i \in DOMAIN t : i \in Nat /\ i # NIL /\ t[i] \in TreeNode
      /\ \A i \in DOMAIN t : t[i].parent \in Nat
      /\ \A i \in DOMAIN t : \A side \in Sides : t[i].child[side] \in Nat
  <2>1. t \in Seq(TreeNode)
    BY DEF Tree
  <2> QED
    BY <2>1, TreeTypes
<1>3. /\ l \in T /\ t[l].parent = x /\ r \in T /\ t[r].parent = x /\ t[r].key # t[y].key
      /\ below # NIL => below \in T /\ t[below].parent = y
  <2>1. l \in T /\ t[l].parent = x /\ r \in T /\ t[r].parent = x /\ lo[r] = t[x].key
    BY <1>0, ChildBelow DEF Low
  <2>2. below # NIL => below \in T /\ t[below].parent = y
    BY <1>0, <1>1, ChildBelow
  <2>3. /\ lo[r] < t[r].key /\ t[r].key \in Nat /\ lo[r] \in Nat
    BY <2>1, NodeBounds
  <2>4. t[y].key \in Nat /\ t[x].key \in Nat
    BY <1>1, NodeBounds
  <2> QED
    BY <2>1, <2>2, <2>3, <2>4, <1>1
<1>4. l # r
  BY <1>0, OneSide
<1>5. /\ y # r /\ below # l /\ below # r /\ below # y
  BY <1>1, <1>2, <1>3
<1>6. /\ inPlace \in TreeNode /\ SameKept(inPlace, t[y]) /\ inPlace.parent = t[x].parent
      /\ inPlace.child["right"] = r /\ inPlace.child["left"] = below
      /\ inPlace.height = t[x].height
      /\ LeftOf(inPlace, l) \in TreeNode
      /\ SameKept(LeftOf(inPlace, l), t[y])
      /\ LeftOf(inPlace, l).parent = t[x].parent
      /\ LeftOf(inPlace, l).child["right"] = r
      /\ LeftOf(inPlace, l).child["left"] = l
      /\ LeftOf(inPlace, l).height = t[x].height
  <2>1. t[y] \in TreeNode /\ t[x].height \in [Sides -> Nat] /\ t[x].parent \in Nat /\ r \in Nat /\ l \in Nat
    <3>1. x \in DOMAIN t /\ y \in DOMAIN t /\ t[x] \in TreeNode
      BY <1>1, <1>2
    <3>2. t[x].height \in [Sides -> Nat]
      BY <3>1 DEF TreeNode
    <3> QED
      BY <3>1, <3>2, <1>0, <1>2
  <2>2. MovesIn(t[y], t[x].height, t[x].parent, r, l, inPlace, LeftOf(inPlace, l))
    BY <2>1, InPlaceIs
  <2> QED
    BY <2>2 DEF MovesIn
<1>7. y \in DOMAIN t /\ r \in DOMAIN t /\ l \in DOMAIN t /\ y \in Nat /\ r # NIL /\ l # NIL /\ y # NIL
  BY <1>1, <1>2, <1>3
<1>8. CASE y = l
  <2> DEFINE v == SetParent(t, r, l)
  <2>1. /\ cut.trees = [v EXCEPT ![y] = inPlace] /\ cut.root = y /\ cut.from = y /\ cut.side = "left"
    BY <1>8, Zenon DEF RemoveTreeNodeWithChildren, InPlace
  <2>2. Parented(t, r, y, v)
    BY <1>2, <1>7, <1>8, SetParented
  <2> HIDE DEF v, cut, inPlace
  <2>3. /\ v \in Seq(TreeNode) /\ DOMAIN v = DOMAIN t /\ Len(v) = Len(t)
        /\ \A i \in DOMAIN t : i # r => v[i] = t[i]
        /\ NodeIs(v[r], t[r], y, t[r].child, t[r].height)
    BY <2>2, <1>7 DEF Parented
  <2>4. /\ cut.trees \in Seq(TreeNode) /\ DOMAIN cut.trees = DOMAIN t /\ Len(cut.trees) = Len(t)
        /\ cut.trees[y] = inPlace /\ \A i \in DOMAIN t : i # y => cut.trees[i] = v[i]
    BY <2>1, <2>3, <1>6, <1>7, NodeSet
  <2>5. ASSUME NEW i \in DOMAIN t, i # y
        PROVE  /\ SameKept(cut.trees[i], t[i])
               /\ cut.trees[i].parent = IF i = r \/ i = l THEN y ELSE t[i].parent
               /\ \A s \in Sides : /\ cut.trees[i].height[s] = t[i].height[s]
                                   /\ cut.trees[i].child[s] = t[i].child[s]
    <3>1. cut.trees[i] = v[i]
      BY <2>4, <2>5
    <3>2. CASE i = r
      BY <3>1, <3>2, <2>3 DEF NodeIs
    <3>3. CASE i # r
      BY <3>1, <3>3, <2>3, <2>5, <1>8 DEF SameKept
    <3> QED
      BY <3>2, <3>3
  <2>6. \A i \in DOMAIN t : i \notin {y, r} => cut.trees[i] = t[i]
    BY <2>3, <2>4
  <2>7. Moved(t, x, y, cut.trees)
    BY <2>4, <2>5, <2>6, <1>6, <1>8, Zenon DEF Moved
  <2> QED
    BY <2>1, <2>7, <1>8 DEF cut
<1>9. CASE y # l
  <2> DEFINE v1 == SetParent(t, below, p)
             v2 == SetParent(v1, r, y)
             v3 == SetParent(v2, l, y)
             n == LeftOf(inPlace, l)
             v4 == [v3 EXCEPT ![y] = n]
             m == [v4[p] EXCEPT !.child["right"] = below]
  <2>0. /\ p \in T /\ p # x /\ p # y /\ p \in DOMAIN t /\ p \in Nat /\ p # NIL
        /\ below \in Nat /\ below \in DOMAIN t \cup {NIL}
    BY <1>0, <1>1, <1>2, <1>3, <1>9
  <2>1. /\ cut.trees = [v4 EXCEPT ![p] = m] /\ cut.root = y /\ cut.from = p /\ cut.side = "right"
    BY <1>9 DEF RemoveTreeNodeWithChildren, InPlace, LeftOf
  <2>2. Parented(t, below, p, v1)
    BY <2>0, <1>2, SetParented
  <2> HIDE DEF v1, l, r, below, p
  <2>21. v1 \in Seq(TreeNode) /\ DOMAIN v1 = DOMAIN t
    BY <2>2 DEF Parented
  <2>3. Parented(v1, r, y, v2)
    BY <2>21, <1>7, SetParented
  <2> HIDE DEF v2
  <2>31. v2 \in Seq(TreeNode) /\ DOMAIN v2 = DOMAIN t
    BY <2>3, <2>21 DEF Parented
  <2>4. Parented(v2, l, y, v3)
    BY <2>31, <1>7, SetParented
  <2>5. n \in TreeNode /\ SameKept(n, t[y]) /\ n.parent = t[x].parent /\ n.child["right"] = r
        /\ n.child["left"] = l /\ n.height = t[x].height
    BY <1>6
  <2> HIDE DEF v1, v2, v3, n, cut, inPlace
  <2>6. /\ v3 \in Seq(TreeNode) /\ DOMAIN v3 = DOMAIN t /\ Len(v3) = Len(t)
        /\ \A i \in DOMAIN t \ {l, r, below} : v3[i] = t[i]
    BY <2>2, <2>3, <2>4 DEF Parented
  <2>7. /\ NodeIs(v3[l], t[l], y, t[l].child, t[l].height)
        /\ NodeIs(v3[r], t[r], y, t[r].child, t[r].height)
        /\ below # NIL => NodeIs(v3[below], t[below], p, t[below].child, t[below].height)
    <3>1. v2[l] = t[l] /\ v1[r] = t[r] /\ v3[r] = v2[r]
      BY <2>2, <2>3, <2>4, <1>4, <1>5, <1>7 DEF Parented
    <3>2. below # NIL => below \in DOMAIN t /\ v3[below] = v1[below]
      BY <2>0, <2>2, <2>3, <2>4, <1>5 DEF Parented
    <3> QED
      BY <3>1, <3>2, <2>2, <2>3, <2>4, <1>7 DEF Parented
  <2>8. ASSUME NEW i \in DOMAIN t
        PROVE  /\ v3[i] \in TreeNode /\ SameKept(v3[i], t[i])
               /\ v3[i].parent = IF i = r \/ i = l THEN y ELSE IF i = below THEN p ELSE t[i].parent
               /\ \A s \in Sides : /\ v3[i].height[s] = t[i].height[s]
                                   /\ v3[i].child[s] = t[i].child[s]
    <3>1. CASE i \in {l, r, below}
      <4>1. i # NIL
        BY <1>2
      <4> QED
        BY <3>1, <4>1, <2>7, <1>5 DEF NodeIs
    <3>2. CASE i \notin {l, r, below}
      BY <3>2, <2>6, <1>2 DEF SameKept
    <3> QED
      BY <3>1, <3>2
  <2>9. /\ v4 \in Seq(TreeNode) /\ DOMAIN v4 = DOMAIN t /\ Len(v4) = Len(t)
        /\ v4[y] = n /\ \A i \in DOMAIN t : i # y => v4[i] = v3[i]
    BY <2>5, <2>6, <1>7, NodeSet
  <2> HIDE DEF v4
  <2>10. v4[p] = v3[p] /\ v4[p] \in TreeNode
    BY <2>0, <2>8, <2>9
  <2>11. NodeIs(m, v4[p], v4[p].parent, With(v4[p].child, "right", below), v4[p].height)
    BY <2>0, <2>10, <1>0, NodeChild
  <2>12. ChildWith(m, v4[p], "right", below)
    BY <2>10, <2>11, <1>0, ChildIs
  <2>13. m \in TreeNode /\ SameKept(m, v4[p]) /\ m.parent = v4[p].parent
         /\ \A s \in Sides : m.height[s] = v4[p].height[s]
    BY <2>11 DEF NodeIs
  <2> HIDE DEF m
  <2>14. /\ cut.trees \in Seq(TreeNode) /\ DOMAIN cut.trees = DOMAIN t /\ Len(cut.trees) = Len(t)
         /\ cut.trees[p] = m /\ \A i \in DOMAIN t : i # p => cut.trees[i] = v4[i]
    BY <2>0, <2>1, <2>9, <2>13, NodeSet
  <2>15. ASSUME NEW i \in DOMAIN t, i # y
         PROVE  /\ SameKept(cut.trees[i], t[i])
                /\ cut.trees[i].parent = IF i = r \/ i = l THEN y ELSE IF i = below THEN p ELSE t[i].parent
                /\ \A s \in Sides : /\ cut.trees[i].height[s] = t[i].height[s]
                                    /\ cut.trees[i].child[s] = IF i = p /\ s = "right" THEN below
                                                               ELSE t[i].child[s]
    <3>1. CASE i = p
      BY <3>1, <2>8, <2>10, <2>12, <2>13, <2>14 DEF ChildWith, SameKept
    <3>2. CASE i # p
      BY <3>2, <2>8, <2>9, <2>14, <2>15
    <3> QED
      BY <3>1, <3>2
  <2>16. cut.trees[y] = n
    BY <2>0, <2>9, <2>14, <1>7
  <2>17. \A i \in DOMAIN t : i \notin {y, r, l, below, p} => cut.trees[i] = t[i]
    BY <2>6, <2>9, <2>14
  <2>18. Moved(t, x, y, cut.trees)
    BY <2>5, <2>14, <2>15, <2>16, <2>17, <1>9 DEF Moved, l, r, below, p
  <2> QED
    BY <2>1, <2>18, <1>9 DEF cut, l, p
<1> QED
  BY <1>8, <1>9

(* After y was cut, it replaces x.                                         *)
LEMMA MovedReplaces ==
  ASSUME NEW t, NEW root, NEW T, NEW lo, NEW hi, Tree(t, root, T, lo, hi),
         NEW x \in T, t[x].child["left"] # NIL, t[x].child["right"] # NIL,
         NEW y, Predecessor(t, T, lo, hi, x, y),
         NEW v, Moved(t, x, y, v),
         NEW w, NEW wroot,
         Cuts(t, root, T, y, t[y].child["left"], t[y].parent,
              ChildSide(t, t[y].parent, y), w, wroot)
  PROVE  LET u == Attached(v, root, t[x].parent, ChildSide(t, t[x].parent, x), y)
         IN /\ Replaces(w, root, T \ {y}, x, y, t[y].key, u.trees, u.root)
            /\ Framed(t, u.trees, T)
<1> DEFINE l == t[x].child["left"]
           r == t[x].child["right"]
           below == t[y].child["left"]
           p == t[y].parent
           csY == ChildSide(t, p, y)
           px == t[x].parent
           cs == ChildSide(t, px, x)
           u == Attached(v, root, px, cs, y)
           T2 == T \ {y}
<1>0. "left" \in Sides /\ "right" \in Sides /\ \A s \in Sides : s = "left" \/ s = "right"
  BY DEF Sides
<1>1. /\ y \in T /\ y # x /\ t[y].child["right"] = NIL
      /\ hi[y] = t[x].key /\ t[y].key < t[x].key
      /\ IF y = l THEN p = x ELSE p \in T /\ p # x /\ p # y /\ p # NIL /\ t[p].child["right"] = y
  BY DEF Predecessor
<1>2. /\ t \in Seq(TreeNode) /\ T \subseteq DOMAIN t
      /\ \A i \in T : i \in DOMAIN t /\ i # NIL /\ i \in Nat /\ t[i] \in TreeNode
      /\ \A i \in DOMAIN t : i # NIL /\ t[i] \in TreeNode
  <2>1. t \in Seq(TreeNode) /\ T \subseteq DOMAIN t
    BY DEF Tree
  <2> QED
    BY <2>1, TreeTypes
<1>3. \A i \in T : \A s \in Sides :
        t[i].child[s] # NIL => t[i].child[s] \in T /\ t[t[i].child[s]].parent = i
  BY DEF Tree, SideHolds
<1>4. /\ px # NIL => px \in T /\ px # x /\ px # y /\ cs \in Sides /\ t[px].child[cs] = x
      /\ px = NIL <=> x = root
  <2>1. px = NIL <=> x = root
    BY DEF Tree, ParentHolds
  <2>2. FamilyOf(t, T, lo, hi, x, "left")
    BY <1>0, Family
  <2>3. ASSUME px # NIL
        PROVE  px \in T /\ px # x /\ px # y /\ cs \in Sides /\ t[px].child[cs] = x
    <3>1. px \in T /\ hi[x] - lo[x] < hi[px] - lo[px] /\ cs \in Sides /\ t[px].child[cs] = x
      BY <2>2, <2>3 DEF FamilyOf
    <3>2. /\ lo[px] \in Nat /\ hi[px] \in Nat /\ t[px].key \in Nat /\ t[px].key < hi[px]
          /\ lo[x] \in Nat /\ hi[x] \in Nat /\ t[x].key \in Nat /\ t[x].key < hi[x]
      BY <3>1, NodeBounds
    <3>3. hi[x] = High(t, hi, px, cs)
      BY <3>1, <1>2, ChildBelow
    <3>4. hi[x] <= hi[px]
      BY <3>2, <3>3 DEF High
    <3> QED
      BY <3>1, <3>2, <3>4, <1>1
  <2> QED
    BY <2>1, <2>3
<1>5. /\ l \in T /\ t[l].parent = x /\ l # NIL /\ r \in T /\ t[r].parent = x /\ r # NIL
      /\ below # NIL => below \in T /\ t[below].parent = y
  BY <1>0, <1>1, <1>3
<1>6. /\ l # r /\ l # x /\ r # x /\ below # x
      /\ below # y /\ below # l /\ below # r /\ r # y
  <2>1. l # r
    BY <1>0, OneSide
  <2>2. l # x /\ r # x
    BY <1>2, <1>4, <1>5
  <2>3. below # x
    BY <1>1, <1>2, <1>4, <1>5
  <2>4. below # y /\ below # l /\ below # r
    BY <1>1, <1>2, <1>5
  <2>5. r # y
    BY <2>1, <1>0, <1>1, <1>5
  <2> QED
    BY <2>1, <2>2, <2>3, <2>4, <2>5
<1>7. csY = IF y = l THEN "left" ELSE "right"
  <2>1. CASE y = l
    BY <2>1, <1>1, <1>2, Zenon DEF ChildSide
  <2>2. CASE y # l
    <3>1. p \in T /\ p # NIL /\ t[p].child["right"] = y /\ y # NIL
      BY <2>2, <1>1, <1>2
    <3>2. t[p].child["left"] # y
      BY <3>1, <1>0, OneSide
    <3> QED
      BY <3>1, <3>2, <2>2 DEF ChildSide
  <2> QED
    BY <2>1, <2>2
<1>8. \A i \in T : \A s \in Sides : t[i].child[s] = x <=> (px # NIL /\ i = px /\ s = cs)
  <2>1. ASSUME NEW i \in T, NEW s \in Sides, t[i].child[s] = x
        PROVE  px # NIL /\ i = px /\ s = cs
    <3>1. i = px /\ px # NIL
      BY <2>1, <1>2, <1>3
    <3> QED
      BY <3>1, <2>1, <1>2, <1>4, OneSide
  <2> QED
    BY <2>1, <1>4
<1>9. \A i \in T : t[i].parent = x <=> (i = l \/ i = r)
  <2>1. ASSUME NEW i \in T, t[i].parent = x
        PROVE  i = l \/ i = r
    <3>1. ParentHolds(t, root, T, i)
      BY DEF Tree
    <3> QED
      BY <3>1, <2>1, <1>0, <1>2 DEF ParentHolds
  <2> QED
    BY <2>1, <1>5
<1>10. \A i \in T : t[i].key = t[x].key => i = x
  BY DEF Tree
<1>11. Cuts(t, root, T, y, below, p, csY, w, wroot)
  OBVIOUS
<1>12. u = IF px = NIL THEN [trees |-> v, root |-> y]
           ELSE [trees |-> [v EXCEPT ![px].child[cs] = y], root |-> root]
  BY DEF Attached
<1> HIDE DEF csY, px, cs, u
<1>13. /\ v \in Seq(TreeNode) /\ DOMAIN v = DOMAIN t /\ Len(v) = Len(t)
       /\ SameKept(v[y], t[y]) /\ v[y].parent = px
       /\ v[y].child["left"] = IF y = l THEN below ELSE l
       /\ v[y].child["right"] = r
       /\ \A s \in Sides : v[y].height[s] = t[x].height[s]
       /\ \A i \in DOMAIN t : i # y =>
            /\ SameKept(v[i], t[i])
            /\ v[i].parent = IF i = r \/ i = l THEN y
                             ELSE IF i = below /\ y # l THEN p ELSE t[i].parent
            /\ \A s \in Sides : /\ v[i].height[s] = t[i].height[s]
                                /\ v[i].child[s] = IF i = p /\ s = "right" /\ y # l THEN below
                                                   ELSE t[i].child[s]
       /\ \A i \in DOMAIN t : i \notin {y, r, l, below, p} => v[i] = t[i]
  BY DEF Moved, px
<1>14. \A i \in T2 :
         /\ w[i].key = t[i].key
         /\ w[i].parent = IF i = below THEN p ELSE t[i].parent
         /\ \A s \in Sides :
              /\ w[i].child[s] = IF i = p /\ s = csY THEN below ELSE t[i].child[s]
              /\ w[i].height[s] = t[i].height[s]
  BY <1>11 DEF Cuts
<1> HIDE DEF l, r, below, p
<1>15. /\ u.trees \in Seq(TreeNode) /\ DOMAIN u.trees = DOMAIN t /\ Len(u.trees) = Len(t)
       /\ u.root = IF px = NIL THEN y ELSE root
       /\ \A i \in DOMAIN t :
            /\ SameKept(u.trees[i], v[i]) /\ u.trees[i].parent = v[i].parent
            /\ \A s \in Sides :
                 /\ u.trees[i].height[s] = v[i].height[s]
                 /\ u.trees[i].child[s] = IF px # NIL /\ i = px /\ s = cs THEN y ELSE v[i].child[s]
            /\ i \notin T => u.trees[i] = v[i]
  <2>1. CASE px = NIL
    BY <2>1, <1>12, <1>13 DEF SameKept
  <2>2. CASE px # NIL
    <3> DEFINE n == [v[px] EXCEPT !.child[cs] = y]
    <3>1. u.trees = [v EXCEPT ![px] = n] /\ u.root = root
      BY <2>2, <1>12
    <3>2. px \in DOMAIN v /\ v[px] \in TreeNode /\ cs \in Sides /\ y \in Nat /\ px \in T
      <4>1. px \in DOMAIN v
        BY <2>2, <1>2, <1>4, <1>13
      <4> QED
        BY <4>1, <2>2, <1>1, <1>2, <1>4, <1>13, ElementOfSeq
    <3>3. NodeIs(n, v[px], v[px].parent, With(v[px].child, cs, y), v[px].height)
      BY <3>2, NodeChild
    <3>4. ChildWith(n, v[px], cs, y)
      BY <3>2, <3>3, ChildIs
    <3>5. n \in TreeNode /\ SameKept(n, v[px]) /\ n.parent = v[px].parent
          /\ \A s \in Sides : n.height[s] = v[px].height[s]
      BY <3>3 DEF NodeIs
    <3> HIDE DEF n
    <3>6. /\ u.trees \in Seq(TreeNode) /\ DOMAIN u.trees = DOMAIN v /\ Len(u.trees) = Len(v)
          /\ u.trees[px] = n /\ \A i \in DOMAIN v : i # px => u.trees[i] = v[i]
      BY <3>1, <3>2, <3>5, <1>13, NodeSet
    <3>7. ASSUME NEW i \in DOMAIN t
          PROVE  /\ SameKept(u.trees[i], v[i]) /\ u.trees[i].parent = v[i].parent
                 /\ \A s \in Sides :
                      /\ u.trees[i].height[s] = v[i].height[s]
                      /\ u.trees[i].child[s] = IF px # NIL /\ i = px /\ s = cs THEN y ELSE v[i].child[s]
                 /\ i \notin T => u.trees[i] = v[i]
      <4>1. CASE i = px
        BY <4>1, <2>2, <3>2, <3>4, <3>5, <3>6 DEF ChildWith
      <4>2. CASE i # px
        BY <4>2, <3>6, <1>13 DEF SameKept
      <4> QED
        BY <4>1, <4>2
    <3> QED
      BY <3>1, <3>6, <3>7, <2>2, <1>13
  <2> QED
    BY <2>1, <2>2
<1>16. Framed(t, u.trees, T)
  <2>1. \A i \in DOMAIN t : SameKept(v[i], t[i])
    BY <1>13
  <2>2. \A i \in DOMAIN t : SameKept(u.trees[i], t[i])
    BY <2>1, <1>15 DEF SameKept
  <2>3. {y, r, l} \subseteq T /\ (below # NIL => below \in T) /\ p \in T
    BY <1>1, <1>5
  <2>4. \A i \in DOMAIN t \ T : u.trees[i] = t[i]
    BY <2>3, <1>2, <1>13, <1>15
  <2> QED
    BY <2>2, <2>4, <1>15 DEF Framed
<1>17. \A d : d # x => Renamed(x, y, d) = d
  BY DEF Renamed
<1>18. Renamed(x, y, x) = y /\ NIL # x
  BY <1>2 DEF Renamed
<1>19. ASSUME NEW i \in T2
       PROVE  LET n == u.trees[Renamed(x, y, i)]
              IN /\ n.key = Rekeyed(w[x].key, t[y].key, w[i].key)
                 /\ n.parent = Renamed(x, y, w[i].parent)
                 /\ \A s \in Sides : /\ n.child[s] = Renamed(x, y, w[i].child[s])
                                     /\ n.height[s] = w[i].height[s]
  <2>1. CASE i = x
    <3>1. Renamed(x, y, i) = y /\ y \in DOMAIN t
      BY <2>1, <1>1, <1>2, <1>18
    <3>2. u.trees[y].key = t[y].key
      BY <3>1, <1>13, <1>15 DEF SameKept
    <3>3. Rekeyed(w[x].key, t[y].key, w[i].key) = t[y].key
      BY <2>1 DEF Rekeyed
    <3>4. w[x].parent = px /\ px # x
      BY <2>1, <1>2, <1>4, <1>6, <1>14 DEF px
    <3>5. u.trees[y].parent = px
      BY <3>1, <1>13, <1>15
    <3>6. u.trees[y].child["left"] = (IF y = l THEN below ELSE l) /\ u.trees[y].child["right"] = r
      BY <3>1, <1>0, <1>4, <1>13, <1>15
    <3>7. w[x].child["left"] = (IF y = l THEN below ELSE l) /\ w[x].child["right"] = r
      <4>1. w[x].child["left"] = (IF x = p /\ "left" = csY THEN below ELSE l)
            /\ w[x].child["right"] = (IF x = p /\ "right" = csY THEN below ELSE r)
        BY <2>1, <1>0, <1>14 DEF l, r
      <4> QED
        BY <4>1, <1>1, <1>7
    <3>8. \A s \in Sides : u.trees[y].child[s] = w[x].child[s] /\ w[x].child[s] # x
      BY <3>6, <3>7, <1>0, <1>6
    <3>9. \A s \in Sides : u.trees[y].height[s] = w[x].height[s]
      BY <3>1, <2>1, <1>13, <1>14, <1>15
    <3> QED
      BY <2>1, <3>1, <3>2, <3>3, <3>4, <3>5, <3>8, <3>9, <1>17
  <2>2. CASE i # x
    <3>1. Renamed(x, y, i) = i /\ i \in DOMAIN t /\ i # y /\ i \in T
      BY <2>2, <1>2, <1>17
    <3>2. u.trees[i].key = t[i].key
      BY <3>1, <1>13, <1>15 DEF SameKept
    <3>3. Rekeyed(w[x].key, t[y].key, w[i].key) = t[i].key
      BY <3>1, <2>2, <1>1, <1>10, <1>14 DEF Rekeyed
    <3>4. u.trees[i].parent = Renamed(x, y, w[i].parent)
      <4>1. /\ w[i].parent = IF i = below THEN p ELSE t[i].parent
            /\ u.trees[i].parent = IF i = r \/ i = l THEN y
                           ELSE IF i = below /\ y # l THEN p ELSE t[i].parent
        BY <3>1, <1>13, <1>14, <1>15
      <4>2. CASE i = r \/ i = l
        BY <4>1, <4>2, <3>1, <1>5, <1>6, <1>18
      <4>3. CASE i = below
        BY <4>1, <4>3, <3>1, <1>1, <1>2, <1>5, <1>6, <1>17, <1>18
      <4>4. CASE i # r /\ i # l /\ i # below
        BY <4>1, <4>4, <3>1, <1>9, <1>17
      <4> QED
        BY <4>2, <4>3, <4>4
    <3>5. ASSUME NEW s \in Sides
          PROVE  u.trees[i].child[s] = Renamed(x, y, w[i].child[s])
      <4>1. /\ w[i].child[s] = IF i = p /\ s = csY THEN below ELSE t[i].child[s]
            /\ u.trees[i].child[s] = IF px # NIL /\ i = px /\ s = cs THEN y
                  ELSE IF i = p /\ s = "right" /\ y # l THEN below ELSE t[i].child[s]
        BY <3>1, <1>13, <1>14, <1>15
      <4>2. CASE px # NIL /\ i = px /\ s = cs
        <5>1. t[i].child[s] = x
          BY <4>2, <3>1, <1>8
        <5>2. ~(i = p /\ s = csY)
          <6>1. p \in T /\ p # NIL /\ t[p].child[csY] = y
            BY <1>1, <1>2, <1>5, <1>7 DEF l
          <6> QED
            BY <5>1, <6>1, <1>1
        <5> QED
          BY <4>1, <4>2, <5>1, <5>2, <1>18
      <4>3. CASE ~(px # NIL /\ i = px /\ s = cs)
        <5>1. t[i].child[s] # x
          BY <4>3, <3>1, <1>8
        <5>2. i = p /\ s = csY <=> i = p /\ s = "right" /\ y # l
          BY <2>2, <1>1, <1>7
        <5> QED
          BY <4>1, <4>3, <5>1, <5>2, <1>6, <1>17
      <4> QED
        BY <4>2, <4>3
    <3>6. \A s \in Sides : u.trees[i].height[s] = w[i].height[s]
      BY <3>1, <1>13, <1>14, <1>15
    <3> QED
      BY <3>1, <3>2, <3>3, <3>4, <3>5, <3>6
  <2> QED
    BY <2>1, <2>2
<1>20. u.root = Renamed(x, y, root)
  <2>1. CASE px = NIL
    BY <2>1, <1>4, <1>15, <1>18
  <2>2. CASE px # NIL
    BY <2>2, <1>4, <1>15, <1>17
  <2> QED
    BY <2>1, <2>2
<1>21. ReplacedSet(T2, x, y) \subseteq DOMAIN u.trees
  BY <1>1, <1>2, <1>15 DEF ReplacedSet
<1>22. Replaces(w, root, T2, x, y, t[y].key, u.trees, u.root)
  BY <1>15, <1>19, <1>20, <1>21 DEF Replaces
<1> QED
  BY <1>16, <1>22 DEF u, px, cs

(* The nodes of a tree and their heights are all that makes it balanced.   *)
LEMMA SearchableAlike ==
  ASSUME NEW t, NEW root, NEW T, NEW lo, NEW hi, Searchable(t, root, T, lo, hi),
         NEW u \in Seq(TreeNode), T \subseteq DOMAIN u, \A i \in T : Alike(t, u, i)
  PROVE  Searchable(u, root, T, lo, hi)
<1>1. Tree(t, root, T, lo, hi)
  BY DEF Searchable
<1>2. \A i \in T : /\ u[i].key = t[i].key /\ u[i].parent = t[i].parent
                   /\ \A s \in Sides : u[i].child[s] = t[i].child[s] /\ u[i].height[s] = t[i].height[s]
  BY DEF Alike
<1>3. \A i \in T : \A s \in Sides :
        Low(u, lo, i, s) = Low(t, lo, i, s) /\ High(u, hi, i, s) = High(t, hi, i, s)
  BY <1>2 DEF Low, High
<1>4. ASSUME NEW i \in T, NEW s \in Sides
      PROVE  SideHolds(u, T, lo, hi, i, s)
  <2>1. SideHolds(t, T, lo, hi, i, s)
    BY <1>1 DEF Tree
  <2> QED
    BY <2>1, <1>2, <1>3 DEF SideHolds
<1>5. ASSUME NEW i \in T
      PROVE  ParentHolds(u, root, T, i)
  <2>1. ParentHolds(t, root, T, i)
    BY <1>1 DEF Tree
  <2> QED
    BY <2>1, <1>2 DEF ParentHolds
<1>6. Tree(u, root, T, lo, hi)
  <2>1. /\ lo \in [Nat -> Nat] /\ hi \in [Nat -> Nat]
        /\ \A i \in T : lo[i] < t[i].key /\ t[i].key < hi[i] /\ hi[i] <= HiInsertionKey + 1
        /\ IF root = NIL THEN T = {}
           ELSE root \in T /\ t[root].parent = NIL /\ lo[root] = 0 /\ hi[root] = HiInsertionKey + 1
        /\ \A i, j \in T : t[i].key = t[j].key => i = j
    BY <1>1 DEF Tree
  <2>2. \A i \in T : lo[i] < u[i].key /\ u[i].key < hi[i] /\ hi[i] <= HiInsertionKey + 1
    BY <2>1, <1>2
  <2>3. IF root = NIL THEN T = {}
        ELSE root \in T /\ u[root].parent = NIL /\ lo[root] = 0 /\ hi[root] = HiInsertionKey + 1
    BY <2>1, <1>2
  <2>4. \A i, j \in T : u[i].key = u[j].key => i = j
    BY <2>1, <1>2
  <2> QED
    BY <2>1, <2>2, <2>3, <2>4, <1>4, <1>5 DEF Tree
<1>7. \A i \in T : Height(u[i]) = Height(t[i])
  BY <1>2 DEF Height, Sides
<1>8. ASSUME NEW i \in T, NEW s \in Sides
      PROVE  HeightHolds(u, i, s)
  <2>1. HeightHolds(t, i, s)
    BY DEF Searchable
  <2>2. t[i].child[s] # NIL => t[i].child[s] \in T
    BY <1>1 DEF Tree, SideHolds
  <2> QED
    BY <2>1, <2>2, <1>2, <1>7 DEF HeightHolds, HeightBelow
<1>9. ASSUME NEW i \in T
      PROVE  BalancedAt(u, i)
  <2>1. BalancedAt(t, i)
    BY DEF Searchable
  <2> QED
    BY <2>1, <1>2 DEF BalancedAt, Sides
<1> QED
  BY <1>6, <1>8, <1>9 DEF Searchable

(* Removing a node keeps the balanced search tree of the others.           *)
LEMMA CutRetracing ==
  ASSUME NEW t, NEW root, NEW T, NEW lo, NEW hi, Searchable(t, root, T, lo, hi), Idle(t, T),
         NEW x \in T
  PROVE  LET cut == Cut(t, x)
             rest == Attached(cut.trees, root, t[x].parent, ChildSide(t, t[x].parent, x), cut.root)
         IN /\ Framed(t, rest.trees, T)
            /\ \E lo2, hi2 : Retracing(RetraceStart(rest.trees, rest.root, cut.from, cut.side, -1),
                                       T \ {x}, lo2, hi2)
<1> DEFINE cut == Cut(t, x)
           px == t[x].parent
           cs == ChildSide(t, px, x)
           rest == Attached(cut.trees, root, px, cs, cut.root)
           l == t[x].child["left"]
           r == t[x].child["right"]
<1>0. Tree(t, root, T, lo, hi)
  BY DEF Searchable
<1>1. "left" \in Sides /\ "right" \in Sides /\ Other("left") = "right" /\ Other("right") = "left"
  BY DEF Sides, Other
<1>2. l \in Nat /\ r \in Nat
  <2>1. x \in DOMAIN t
    BY <1>0, NodeBounds
  <2> QED
    BY <2>1, <1>0, <1>1, TreeTypes
<1>3. ASSUME NEW es \in Sides, t[x].child[es] = NIL
      PROVE  /\ Framed(t, rest.trees, T)
             /\ \E lo2, hi2 : Retracing(RetraceStart(rest.trees, rest.root, cut.from, cut.side, -1),
                                        T \ {x}, lo2, hi2)
  <2> DEFINE c == t[x].child[Other(es)]
             u == CutAt(t, root, x, c)
  <2>1. cut = [trees |-> SetParent(t, c, px), root |-> c, from |-> px, side |-> cs]
    <3>1. ~(l # NIL /\ r # NIL) /\ Larger(l, r) = c
      <4>1. CASE es = "left"
        BY <4>1, <1>1, <1>2, <1>3 DEF Larger, NIL
      <4>2. CASE es = "right"
        BY <4>2, <1>1, <1>2, <1>3 DEF Larger, NIL
      <4> QED
        BY <4>1, <4>2 DEF Sides
    <3> QED
      BY <3>1 DEF Cut
  <2>2. rest = u /\ cut.from = px /\ cut.side = cs
    BY <2>1 DEF CutAt
  <2>3. Cuts(t, root, T, x, c, px, cs, u.trees, u.root) /\ Framed(t, u.trees, T)
    BY <1>0, <1>3, CutIs
  <2>4. Tree(u.trees, u.root, T \ {x}, CutLo(t, lo, x, es), CutHi(t, hi, x, es))
    BY <2>3, <1>0, <1>3, CutTree
  <2>5. LowerAt(u.trees, T \ {x}, px, cs)
    BY <2>3, <1>3, CutHeights
  <2> HIDE DEF u, cut, rest, px, cs
  <2>6. Retracing(RetraceStart(u.trees, u.root, px, cs, -1), T \ {x},
                  CutLo(t, lo, x, es), CutHi(t, hi, x, es))
    BY <2>4, <2>5 DEF Retracing, RetraceStart, LowerAt
  <2> QED
    BY <2>2, <2>3, <2>6
<1>4. CASE l = NIL
  BY <1>1, <1>3, <1>4
<1>5. CASE r = NIL
  BY <1>1, <1>3, <1>5
<1>6. CASE l # NIL /\ r # NIL
  <2> DEFINE y == Down(t, l, "right")
             key == t[y].key
             p == t[y].parent
             csY == ChildSide(t, p, y)
             below == t[y].child["left"]
             w == CutAt(t, root, y, below)
             lo1 == CutLo(t, lo, y, "right")
             hi1 == CutHi(t, hi, y, "right")
             T1 == T \ {y}
  <2>1. Predecessor(t, T, lo, hi, x, y)
    BY <1>0, <1>6, PredecessorIs
  <2>2. cut = RemoveTreeNodeWithChildren(t, x)
    BY <1>6 DEF Cut
  <2>3. /\ Moved(t, x, y, cut.trees) /\ cut.root = y
        /\ cut.from = (IF y = l THEN y ELSE p)
        /\ cut.side = (IF y = l THEN "left" ELSE "right")
    BY <2>1, <2>2, <1>0, <1>6, MovedIs
  <2> HIDE DEF cut, y, w
  <2>4. /\ y \in T /\ y # x /\ t[y].child["right"] = NIL
        /\ hi[y] = t[x].key /\ lo[x] < key /\ key < t[x].key
        /\ IF y = l THEN p = x ELSE p \in T /\ p # x /\ p # y /\ p # NIL /\ t[p].child["right"] = y
    BY <2>1 DEF Predecessor
  <2>5. /\ y \in Nat /\ y # NIL /\ key \in Nat /\ x \in Nat /\ lo[x] \in Nat /\ t[x].key \in Nat
        /\ lo[x] < t[x].key /\ x # NIL
    BY <2>4, <1>0, NodeBounds
  <2>6. Cuts(t, root, T, y, below, p, csY, w.trees, w.root)
    BY <2>4, <1>0, <1>1, CutIs DEF w
  <2>7. Tree(w.trees, w.root, T1, lo1, hi1)
    BY <2>4, <2>6, <1>0, <1>1, CutTree
  <2>8. LowerAt(w.trees, T1, p, csY)
    BY <2>4, <2>6, <1>1, CutHeights
  <2>9. /\ Replaces(w.trees, root, T1, x, y, key, rest.trees, rest.root)
        /\ Framed(t, rest.trees, T)
    BY <2>1, <2>3, <2>6, <1>0, <1>6, MovedReplaces
  <2>10. p # NIL /\ p \in T1
    BY <2>4, <2>5
  <2>11. w.root = root
    BY <2>6, <2>10 DEF Cuts
  <2>12. x \in T1 /\ y \notin T1
    BY <2>4
  <2>13. w.trees[x].key = t[x].key /\ \A j \in T1 : w.trees[j].key = t[j].key
    BY <2>6, <2>12 DEF Cuts
  <2>14. Precedes1(w.trees, T1, lo1, hi1, x, key)
    <3>1. lo1[x] = lo[x]
      BY <2>5 DEF CutLo
    <3>2. ASSUME NEW j \in T1
          PROVE  ~(key <= w.trees[j].key /\ w.trees[j].key < w.trees[x].key)
      <4>1. ~(t[y].key < t[j].key /\ t[j].key < hi[y])
        <5>1. SideHolds(t, T, lo, hi, y, "right")
          BY <2>4, <1>0, <1>1 DEF Tree
        <5> QED
          BY <5>1, <2>4 DEF SideHolds, Low, High
      <4>2. t[j].key # t[y].key
        BY <2>4, <1>0 DEF Tree
      <4>3. t[j].key \in Nat
        BY <1>0, NodeBounds
      <4> QED
        BY <4>1, <4>2, <4>3, <2>4, <2>5, <2>13
    <3>3. ASSUME NEW i \in T1, NEW s \in Sides, w.trees[i].child[s] = NIL,
                 Low(w.trees, lo1, i, s) < key, key < High(w.trees, hi1, i, s)
          PROVE  High(w.trees, hi1, i, s) = w.trees[x].key
      <4>1. y \in T /\ t[y].child["right"] = NIL /\ i \in T \ {y}
        BY <2>4
      <4>2. /\ w.trees[i].child[s] = NIL /\ Low(w.trees, lo1, i, s) < t[y].key
            /\ t[y].key < High(w.trees, hi1, i, s)
        BY <3>3
      <4>3. High(w.trees, hi1, i, s) = hi[y]
        BY <4>1, <4>2, <2>6, <1>0, CutGap
      <4> QED
        BY <4>3, <2>4, <2>13
    <3> QED
      BY <3>1, <3>2, <3>3, <2>4, <2>5, <2>13 DEF Precedes1
  <2>15. Tree(rest.trees, rest.root, ReplacedSet(T1, x, y),
              ReplacedBounds(w.trees, x, y, key, lo1), ReplacedBounds(w.trees, x, y, key, hi1))
    BY <2>5, <2>7, <2>9, <2>11, <2>12, <2>14, ReplacedTree
  <2>16. LowerAt(rest.trees, ReplacedSet(T1, x, y), Renamed(x, y, p), csY)
    BY <2>5, <2>7, <2>8, <2>9, <2>10, <2>11, <2>12, ReplacedHeights
  <2>17. ReplacedSet(T1, x, y) = T \ {x}
    BY <2>4 DEF ReplacedSet
  <2>18. Renamed(x, y, p) = cut.from /\ csY = cut.side
    <3>1. CASE y = l
      BY <3>1, <2>3, <2>4, <2>5 DEF Renamed, ChildSide
    <3>2. CASE y # l
      <4>1. t[p].child["left"] # y
        BY <3>2, <2>4, <2>5, <1>0, <1>1, OneSide
      <4> QED
        BY <3>2, <4>1, <2>3, <2>4, <2>5 DEF Renamed, ChildSide
    <3> QED
      BY <3>1, <3>2
  <2> HIDE DEF rest
  <2>19. Retracing(RetraceStart(rest.trees, rest.root, cut.from, cut.side, -1), T \ {x},
                   ReplacedBounds(w.trees, x, y, key, lo1), ReplacedBounds(w.trees, x, y, key, hi1))
    BY <2>15, <2>16, <2>17, <2>18 DEF Retracing, RetraceStart, LowerAt
  <2> QED
    BY <2>9, <2>19 DEF rest, cut
<1> QED
  BY <1>4, <1>5, <1>6

=============================================================================
