---------------------------- MODULE MarketProofs ----------------------------
(***************************************************************************)
(* Safety of a market, for every choice of its constants: at every step of *)
(* every transaction variables have their types, the order book and the    *)
(* market accounts hold the same orders, books are sorted, and neither     *)
(* list nodes nor access keys are lost or used twice.                      *)
(*                                                                         *)
(* What it promises its takers and its makers: between transactions no bid *)
(* crosses an ask, a match trades within the limits of the taker and stops *)
(* only when nothing is left to fill, coins in flight suffice, the         *)
(* counters of every account match its orders, and no asset is created or  *)
(* lost.  And what becomes of orders, step by step: their IDs, which name  *)
(* one order for all time, and their place in the book, by price and time. *)
(***************************************************************************)
EXTENDS MarketSafety, MarketAccountProofs

-----------------------------------------------------------------------------
(* What insertion into a queue, removal and eviction preserve, for queues  *)
(* of every size and values of every type.                                 *)

(* Where a new entry goes: behind the entries with a key as good as its    *)
(* own or better, in front of all others.                                  *)
Place(q, key) == Cardinality(Ahead(q, key)) + 1

(* A new entry goes behind those with a better or the same key.            *)
LEMMA PlaceProperties ==
  ASSUME NEW V, NEW q \in Queues(V), SortedByKey(q), NEW key \in Nat
  PROVE  /\ Place(q, key) \in 1..Len(q.list) + 1
         /\ \A i \in DOMAIN q.list :
              i < Place(q, key) <=> ~Precedes(q, key, q.list[i].key)
<1> DEFINE n == Len(q.list)
           A == Ahead(q, key)
<1>1. /\ n \in Nat /\ DOMAIN q.list = 1..n
      /\ \A i \in 1..n : q.list[i].key \in Nat
      /\ q.ascending \in BOOLEAN
  <2>1. q.list \in Seq(Entries(V)) /\ q.ascending \in BOOLEAN
    BY DEF Queues
  <2>2. \A i \in 1..n : q.list[i] \in Entries(V)
    BY <2>1, ElementOfSeq
  <2>3. \A i \in 1..n : q.list[i].key \in Nat
    BY <2>2 DEF Entries
  <2> QED
    BY <2>1, <2>3, LenProperties
<1> HIDE DEF n
<1>2. A \in SUBSET (1..n)
  BY <1>1 DEF Ahead
<1>3. \A s \in A : \A r \in 1..s : r \in A
  <2> SUFFICES ASSUME NEW s \in A, NEW r \in 1..s, r # s PROVE r \in A
    OBVIOUS
  <2>1. s \in 1..n /\ r \in 1..n /\ r < s
    BY <1>1, <1>2
  <2>2. ~Precedes(q, q.list[s].key, q.list[r].key)
    BY <1>1, <2>1 DEF SortedByKey
  <2>3. ~Precedes(q, key, q.list[s].key)
    BY DEF Ahead
  <2>4. ~Precedes(q, key, q.list[r].key)
    BY <1>1, <2>1, <2>2, <2>3 DEF Precedes
  <2> QED
    BY <1>1, <2>1, <2>4 DEF Ahead
<1> DEFINE c == Cardinality(A)
<1>4. c \in 0..n /\ A = 1..c
  BY <1>1, <1>2, <1>3, Prefix
<1>5. \A i \in 1..n : i \in A <=> ~Precedes(q, key, q.list[i].key)
  BY <1>1 DEF Ahead
<1>6. Place(q, key) = c + 1
  BY DEF Place
<1> HIDE DEF A, c
<1> QED
  BY <1>1, <1>4, <1>5, <1>6 DEF n

(* The node of a new entry is not in use, and using it keeps nodes in      *)
(* use and nodes on the stack apart.                                       *)
LEMMA NextNodeProperties ==
  ASSUME NEW V, NEW q \in Queues(V), PartitionsNodes(q),
         q.inactive # << >> \/ q.nNodes < NNodesMax
  PROVE  /\ NextNode(q) \in Nat /\ NextNode(q) \notin Nodes(q)
         /\ TakeNode(q) \in Queues(V)
         /\ TakeNode(q).ascending = q.ascending
         /\ TakeNode(q).list = q.list
         /\ IsInjective(TakeNode(q).inactive)
         /\ (Nodes(q) \cup {NextNode(q)}) \cap ToSet(TakeNode(q).inactive) = {}
         /\ (Nodes(q) \cup {NextNode(q)}) \cup ToSet(TakeNode(q).inactive)
              = 1..TakeNode(q).nNodes
         /\ TakeNode(q).nNodes <= NNodesMax
<1> DEFINE N == Nodes(q)
           f == q.inactive
           n == q.nNodes
<1>1. /\ f \in Seq(Nat) /\ n \in Nat
      /\ Len(f) \in Nat /\ DOMAIN f = 1..Len(f)
      /\ \A i \in 1..Len(f) : f[i] \in Nat
  BY LenProperties, ElementOfSeq DEF Queues
<1>2. /\ \A i, j \in 1..Len(f) : f[i] = f[j] => i = j
      /\ N \cap ToSet(f) = {}
      /\ N \cup ToSet(f) = 1..n
      /\ n <= NNodesMax
  BY <1>1 DEF PartitionsNodes, IsInjective
<1>3. ToSet(f) = {f[i] : i \in 1..Len(f)}
  BY <1>1 DEF ToSet
<1>4. CASE f = << >>
  <2>1. ToSet(f) = {}
    BY <1>4, <1>3
  <2>2. NextNode(q) = n + 1
    BY <1>4 DEF NextNode
  <2>3. TakeNode(q) = [q EXCEPT !.nNodes = @ + 1]
    BY <1>4 DEF TakeNode
  <2>4. /\ TakeNode(q) \in Queues(V)
        /\ TakeNode(q).ascending = q.ascending
        /\ TakeNode(q).list = q.list
        /\ TakeNode(q).inactive = f
        /\ TakeNode(q).nNodes = n + 1
    <3>1. n + 1 \in Nat
      BY <1>1
    <3> DEFINE k == n + 1
    <3>2. TakeNode(q) = [q EXCEPT !.nNodes = k] /\ k \in Nat
      BY <2>3, <3>1
    <3> HIDE DEF k
    <3>3. TakeNode(q) \in Queues(V)
      BY <3>2, Zenon DEF Queues
    <3> QED
      BY <3>2, <3>3 DEF k, Queues
  <2>5. n < NNodesMax
    BY <1>4
  <2>6. N = 1..n
    BY <1>2, <2>1
  <2>7. IsInjective(f)
    BY DEF PartitionsNodes
  <2> HIDE DEF N, f, n
  <2>8. n + 1 \notin N /\ N \cup {n + 1} = 1..n + 1
    BY <2>6, <1>1
  <2>9. n + 1 <= NNodesMax
    BY <2>5, <1>1, NNodesMaxAssumption
  <2> QED
    BY <1>1, <2>1, <2>2, <2>4, <2>7, <2>8, <2>9 DEF N
<1>5. CASE f # << >>
  <2> DEFINE g == Front(f)
             m == Len(f)
  <2>1. /\ m \in Nat \ {0} /\ g \in Seq(Nat) /\ Len(g) = m - 1
        /\ \A i \in 1..m - 1 : g[i] = f[i]
        /\ Last(f) = f[m]
    BY <1>1, <1>5, FrontProperties, Zenon
  <2>2. NextNode(q) = f[m]
    BY <1>5, <2>1 DEF NextNode
  <2>3. TakeNode(q) = [q EXCEPT !.inactive = g]
    BY <1>5 DEF TakeNode
  <2>4. /\ TakeNode(q) \in Queues(V)
        /\ TakeNode(q).ascending = q.ascending
        /\ TakeNode(q).list = q.list
        /\ TakeNode(q).inactive = g
        /\ TakeNode(q).nNodes = n
    BY <2>1, <2>3, Zenon DEF Queues
  <2> HIDE DEF N, f, n, g, m
  <2>5. DOMAIN g = 1..m - 1
    BY <2>1, LenProperties
  <2>6. IsInjective(g)
    BY <1>2, <2>1, <2>5, SMTT(30) DEF IsInjective, m
  <2>7. ToSet(g) = {f[i] : i \in 1..m - 1}
    BY <2>1, <2>5, Zenon DEF ToSet
  <2>8. ToSet(f) = ToSet(g) \cup {f[m]}
    BY <1>3, <2>1, <2>7 DEF m
  <2>9. f[m] \notin ToSet(g)
    BY <1>2, <2>1, <2>7 DEF m
  <2>10. f[m] \in Nat /\ f[m] \notin N
    BY <1>1, <1>2, <2>1, <2>8 DEF m
  <2>11. (N \cup {f[m]}) \cap ToSet(g) = {}
    BY <1>2, <2>8, <2>9
  <2>12. (N \cup {f[m]}) \cup ToSet(g) = 1..n
    BY <1>2, <2>8
  <2> QED
    BY <1>2, <2>2, <2>4, <2>6, <2>10, <2>11, <2>12 DEF N
<1> QED
  BY <1>4, <1>5

(* The entries of a queue, by index.                                       *)
LEMMA ListProperties ==
  ASSUME NEW V, NEW q \in Queues(V)
  PROVE  /\ q.list \in Seq(Entries(V))
         /\ Len(q.list) \in Nat
         /\ DOMAIN q.list = 1..Len(q.list)
         /\ \A i \in 1..Len(q.list) :
              /\ q.list[i] \in Entries(V)
              /\ q.list[i].key \in Nat
              /\ q.list[i].node \in Nat
              /\ q.list[i].value \in V
         /\ q.ascending \in BOOLEAN
<1>1. q.list \in Seq(Entries(V)) /\ q.ascending \in BOOLEAN
  BY DEF Queues
<1>2. \A i \in 1..Len(q.list) : q.list[i] \in Entries(V)
  BY <1>1, ElementOfSeq
<1>3. \A i \in 1..Len(q.list) : /\ q.list[i].key \in Nat
                                /\ q.list[i].node \in Nat
                                /\ q.list[i].value \in V
  BY <1>2 DEF Entries
<1> QED
  BY <1>1, <1>2, <1>3, LenProperties

(* A queue in good order: typed, sorted, with its nodes accounted for.     *)
IsQueue(q, V) == q \in Queues(V) /\ SortedByKey(q) /\ PartitionsNodes(q)

NewEntry(q, key, value) ==
  [key |-> key, node |-> NextNode(q), value |-> value]

(* Insertion puts the new entry in its place, and the queue is still in    *)
(* good order.                                                             *)
LEMMA InsertProperties ==
  ASSUME NEW V, NEW q, IsQueue(q, V), NEW key \in Nat, NEW value \in V,
         q.inactive # << >> \/ q.nNodes < NNodesMax
  PROVE  LET r == Insert(q, key, value)
             p == Place(q, key)
         IN /\ IsQueue(r, V)
            /\ r.ascending = q.ascending
            /\ Len(r.list) = Len(q.list) + 1
            /\ \A j \in 1..Len(q.list) + 1 :
                 r.list[j] = IF j < p THEN q.list[j]
                             ELSE IF j = p THEN NewEntry(q, key, value)
                             ELSE q.list[j - 1]
<1> DEFINE r == Insert(q, key, value)
           p == Place(q, key)
           e == NewEntry(q, key, value)
           t == TakeNode(q)
           n == Len(q.list)
           s == InsertAt(q.list, p, e)
<1>1. /\ q \in Queues(V) /\ SortedByKey(q) /\ PartitionsNodes(q)
      /\ p \in 1..n + 1
      /\ \A i \in 1..n : i < p <=> ~Precedes(q, key, q.list[i].key)
  BY PlaceProperties, ListProperties, Zenon DEF IsQueue
<1>2. /\ n \in Nat /\ q.list \in Seq(Entries(V))
      /\ DOMAIN q.list = 1..n
      /\ \A i \in 1..n : /\ q.list[i].key \in Nat
                         /\ q.list[i].node \in Nat
      /\ q.ascending \in BOOLEAN
  BY <1>1, ListProperties
<1>3. /\ NextNode(q) \in Nat /\ NextNode(q) \notin Nodes(q)
      /\ t \in Queues(V) /\ t.ascending = q.ascending /\ t.list = q.list
      /\ IsInjective(t.inactive)
      /\ (Nodes(q) \cup {NextNode(q)}) \cap ToSet(t.inactive) = {}
      /\ (Nodes(q) \cup {NextNode(q)}) \cup ToSet(t.inactive) = 1..t.nNodes
      /\ t.nNodes <= NNodesMax
  BY <1>1, NextNodeProperties
<1>4. /\ e \in Entries(V) /\ e.key = key /\ e.node = NextNode(q)
  BY <1>3 DEF NewEntry, Entries
<1>5. r = [t EXCEPT !.list = s]
  BY <1>3 DEF Insert, NewEntry, Place
<1> HIDE DEF r, p, e, t, n
<1>6. /\ s \in Seq(Entries(V))
      /\ Len(s) = n + 1
      /\ \A j \in 1..n + 1 :
           s[j] = IF j < p THEN q.list[j] ELSE IF j = p THEN e ELSE q.list[j - 1]
  <2>1. /\ p \in 1..Len(q.list) + 1
        /\ q.list \in Seq(Entries(V))
        /\ e \in Entries(V)
    BY <1>1, <1>2, <1>4 DEF n
  <2> DEFINE l == q.list
             E == Entries(V)
  <2> HIDE DEF l, E, s
  <2>2. l \in Seq(E)
    BY <2>1 DEF l, E
  <2>3. \A i \in 1..Len(l) + 1, x \in E :
          /\ InsertAt(l, i, x) \in Seq(E)
          /\ Len(InsertAt(l, i, x)) = Len(l) + 1
          /\ \A j \in 1..Len(l) + 1 : InsertAt(l, i, x)[j] =
               IF j < i THEN l[j] ELSE IF j = i THEN x ELSE l[j - 1]
    BY <2>2, InsertAtProperties
  <2> QED
    BY <2>1, <2>3 DEF l, E, n, s
<1> HIDE DEF s
<1>7. /\ r \in Queues(V) /\ r.ascending = q.ascending /\ r.list = s
      /\ r.inactive = t.inactive /\ r.nNodes = t.nNodes
  BY <1>3, <1>5, <1>6, Zenon DEF Queues
<1>8. DOMAIN s = 1..n + 1
  BY <1>6, LenProperties
<1>9. SortedByKey(r)
  <2> SUFFICES ASSUME NEW i \in 1..n + 1, NEW j \in 1..n + 1, i < j
               PROVE  ~Precedes(q, s[j].key, s[i].key)
    BY <1>7, <1>8 DEF SortedByKey, Precedes
  <2>1. \A k, l \in 1..n : k < l => ~Precedes(q, q.list[l].key, q.list[k].key)
    BY <1>1, <1>2, Zenon DEF SortedByKey
  <2>2. CASE j < p
    BY <1>1, <1>2, <1>6, <2>1, <2>2
  <2>3. CASE j = p
    <3>1. s[j] = e /\ s[i] = q.list[i] /\ i \in 1..n
      BY <1>1, <1>2, <1>6, <2>3
    <3> QED
      BY <1>1, <1>4, <2>3, <3>1
  <2>4. CASE j > p
    <3>1. s[j] = q.list[j - 1] /\ j - 1 \in 1..n /\ j - 1 >= p
      BY <1>1, <1>2, <1>6, <2>4
    <3>2. Precedes(q, key, q.list[j - 1].key)
      BY <1>1, <1>2, <3>1
    <3>3. CASE i < p
      <4>1. s[i] = q.list[i] /\ i \in 1..n /\ i < j - 1
        BY <1>1, <1>2, <1>6, <3>3, <3>1, SMTT(30)
      <4> QED
        BY <2>1, <3>1, <4>1
    <3>4. CASE i = p
      <4>1. s[i] = e
        BY <1>6, <3>4
      <4> QED
        BY <1>2, <1>4, <3>1, <3>2, <4>1 DEF Precedes
    <3>5. CASE i > p
      <4>1. s[i] = q.list[i - 1] /\ i - 1 \in 1..n /\ i - 1 < j - 1
        BY <1>1, <1>2, <1>6, <3>5
      <4> QED
        BY <2>1, <3>1, <4>1
    <3> QED
      BY <3>3, <3>4, <3>5, <1>1
  <2> QED
    BY <2>2, <2>3, <2>4, <1>1
<1>10. PartitionsNodes(r)
  <2>1. Nodes(r) = {s[i].node : i \in 1..n + 1}
    BY <1>7, <1>8 DEF Nodes
  <2>2. Nodes(q) = {q.list[i].node : i \in 1..n}
    BY <1>2 DEF Nodes
  <2>3. Nodes(r) \subseteq Nodes(q) \cup {NextNode(q)}
    <3> SUFFICES ASSUME NEW j \in 1..n + 1
                 PROVE  s[j].node \in Nodes(q) \cup {NextNode(q)}
      BY <2>1
    <3>1. CASE j = p
      BY <1>4, <1>6, <3>1
    <3>2. CASE j < p
      <4>1. s[j] = q.list[j] /\ j \in 1..n
        BY <1>1, <1>2, <1>6, <3>2
      <4> QED
        BY <2>2, <4>1
    <3>3. CASE j > p
      <4>1. s[j] = q.list[j - 1] /\ j - 1 \in 1..n
        BY <1>1, <1>2, <1>6, <3>3
      <4> QED
        BY <2>2, <4>1
    <3> QED
      BY <3>1, <3>2, <3>3, <1>1
  <2>4. Nodes(q) \cup {NextNode(q)} \subseteq Nodes(r)
    <3>1. NextNode(q) \in Nodes(r)
      BY <1>1, <1>4, <1>6, <2>1
    <3>2. ASSUME NEW i \in 1..n PROVE q.list[i].node \in Nodes(r)
      <4>1. CASE i < p
        <5>1. i \in 1..n + 1 /\ s[i] = q.list[i]
          BY <1>1, <1>2, <1>6, <4>1
        <5> QED
          BY <2>1, <5>1
      <4>2. CASE i >= p
        <5>1. i + 1 \in 1..n + 1 /\ s[i + 1] = q.list[i]
          BY <1>1, <1>2, <1>6, <4>2
        <5> QED
          BY <2>1, <5>1
      <4> QED
        BY <4>1, <4>2, <1>1
    <3> QED
      BY <2>2, <3>1, <3>2
  <2>5. \A i \in 1..n : q.list[i].node # NextNode(q)
    BY <1>3, <2>2
  <2>6. \A i, j \in 1..n : q.list[i].node = q.list[j].node => i = j
    BY <1>1, <1>2, Zenon DEF PartitionsNodes, IsInjective
  <2>7. \A i, j \in 1..n + 1 : s[i].node = s[j].node => i = j
    <3> DEFINE back(j) == IF j < p THEN j ELSE j - 1
    <3> SUFFICES ASSUME NEW i \in 1..n + 1, NEW j \in 1..n + 1,
                        s[i].node = s[j].node
                 PROVE  i = j
      OBVIOUS
    <3>1. \A k \in 1..n + 1 : k # p =>
            back(k) \in 1..n /\ s[k] = q.list[back(k)]
      BY <1>1, <1>2, <1>6
    <3>2. CASE i = p /\ j # p
      BY <1>4, <1>6, <2>5, <3>1, <3>2
    <3>3. CASE i # p /\ j = p
      BY <1>4, <1>6, <2>5, <3>1, <3>3
    <3>4. CASE i # p /\ j # p
      <4>1. back(i) = back(j)
        BY <2>6, <3>1, <3>4
      <4> QED
        BY <1>1, <3>4, <4>1
    <3> QED
      BY <3>2, <3>3, <3>4
  <2>8. IsInjective([i \in DOMAIN r.list |-> r.list[i].node])
    BY <1>7, <1>8, <2>7 DEF IsInjective
  <2>9. Nodes(r) = Nodes(q) \cup {NextNode(q)}
    BY <2>3, <2>4
  <2> QED
    BY <1>3, <1>7, <2>8, <2>9 DEF PartitionsNodes
<1> QED
  BY <1>6, <1>7, <1>9, <1>10 DEF IsQueue, r, p, e, n

(* Removal leaves the other entries in their order, and puts the node on   *)
(* the stack.                                                              *)
LEMMA RemoveProperties ==
  ASSUME NEW V, NEW q, IsQueue(q, V), NEW i \in 1..Len(q.list)
  PROVE  LET r == RemoveEntry(q, i)
         IN /\ IsQueue(r, V)
            /\ r.ascending = q.ascending
            /\ r.nNodes = q.nNodes
            /\ r.inactive # << >>
            /\ Len(r.list) = Len(q.list) - 1
            /\ \A j \in 1..Len(q.list) - 1 :
                 r.list[j] = IF j < i THEN q.list[j] ELSE q.list[j + 1]
<1> DEFINE r == RemoveEntry(q, i)
           n == Len(q.list)
           s == RemoveAt(q.list, i)
           f == q.inactive
           x == q.list[i].node
           g == Append(f, x)
           m == Len(f)
<1>1. /\ q \in Queues(V) /\ SortedByKey(q) /\ PartitionsNodes(q)
  BY DEF IsQueue
<1>2. /\ n \in Nat /\ q.list \in Seq(Entries(V))
      /\ DOMAIN q.list = 1..n
      /\ \A k \in 1..n : /\ q.list[k].key \in Nat
                         /\ q.list[k].node \in Nat
      /\ q.ascending \in BOOLEAN
  BY <1>1, ListProperties
<1>3. /\ f \in Seq(Nat) /\ m \in Nat /\ DOMAIN f = 1..m
      /\ \A k \in 1..m : f[k] \in Nat
      /\ q.nNodes \in Nat
  <2>1. f \in Seq(Nat) /\ q.nNodes \in Nat
    BY <1>1 DEF Queues
  <2> HIDE DEF f
  <2> QED
    BY <2>1, LenProperties, ElementOfSeq
<1>4. i \in 1..n /\ x \in Nat
  BY <1>2
<1>5. /\ s \in Seq(Entries(V))
      /\ Len(s) = n - 1
      /\ \A j \in 1..n - 1 : s[j] = IF j < i THEN q.list[j] ELSE q.list[j + 1]
  <2> DEFINE l == q.list
             E == Entries(V)
  <2> HIDE DEF l, E, s
  <2>1. l \in Seq(E) /\ i \in 1..Len(l)
    BY <1>2 DEF l, E
  <2>2. /\ RemoveAt(l, i) \in Seq(E)
        /\ Len(RemoveAt(l, i)) = Len(l) - 1
        /\ \A j \in 1..Len(l) - 1 :
             RemoveAt(l, i)[j] = IF j < i THEN l[j] ELSE l[j + 1]
    BY <2>1, RemoveAtProperties, Zenon DEF l, E
  <2> QED
    BY <2>2, Zenon DEF l, E, s
<1>6. r = [q EXCEPT !.list = s, !.inactive = g]
  BY DEF RemoveEntry
<1> HIDE DEF r, n, s, f, x, g, m
<1>7. /\ g \in Seq(Nat) /\ g # << >> /\ Len(g) = m + 1
      /\ \A k \in 1..m : g[k] = f[k]
      /\ g[m + 1] = x
  BY <1>3, <1>4, AppendProperties DEF g, m
<1>8. /\ r \in Queues(V) /\ r.ascending = q.ascending /\ r.list = s
      /\ r.inactive = g /\ r.nNodes = q.nNodes
  BY <1>1, <1>5, <1>6, <1>7, Zenon DEF Queues
<1>9. DOMAIN s = 1..n - 1 /\ DOMAIN g = 1..m + 1
  BY <1>5, <1>7, LenProperties
<1> DEFINE back(j) == IF j < i THEN j ELSE j + 1
<1>10. \A j \in 1..n - 1 : back(j) \in 1..n /\ back(j) # i /\ s[j] = q.list[back(j)]
  BY <1>2, <1>4, <1>5
<1>11. SortedByKey(r)
  <2> SUFFICES ASSUME NEW j \in 1..n - 1, NEW k \in 1..n - 1, j < k
               PROVE  ~Precedes(q, s[k].key, s[j].key)
    BY <1>8, <1>9 DEF SortedByKey, Precedes
  <2>1. back(j) < back(k)
    BY <1>2, <1>4
  <2> HIDE DEF back
  <2> QED
    BY <1>1, <1>2, <1>10, <2>1, Zenon DEF SortedByKey
<1>12. PartitionsNodes(r)
  <2>1. Nodes(r) = {s[j].node : j \in 1..n - 1}
    BY <1>8, <1>9 DEF Nodes
  <2>2. Nodes(q) = {q.list[j].node : j \in 1..n}
    BY <1>2 DEF Nodes
  <2>3. \A j, k \in 1..n : q.list[j].node = q.list[k].node => j = k
    BY <1>1, <1>2, Zenon DEF PartitionsNodes, IsInjective
  <2>4. \A j, k \in 1..n - 1 : s[j].node = s[k].node => j = k
    <3> SUFFICES ASSUME NEW j \in 1..n - 1, NEW k \in 1..n - 1,
                        s[j].node = s[k].node
                 PROVE  j = k
      OBVIOUS
    <3>1. back(j) = back(k)
      <4> HIDE DEF back
      <4> QED
        BY <1>10, <2>3
    <3> QED
      BY <1>2, <1>4, <3>1
  <2>5. \A k \in 1..n : k # i => \E j \in 1..n - 1 : back(j) = k
    <3> SUFFICES ASSUME NEW k \in 1..n, k # i
                 PROVE  \E j \in 1..n - 1 : back(j) = k
      OBVIOUS
    <3>1. CASE k < i
      <4>1. k \in 1..n - 1 /\ back(k) = k
        BY <1>2, <1>4, <3>1
      <4> QED
        BY <4>1
    <3>2. CASE k > i
      <4>1. k - 1 \in 1..n - 1 /\ back(k - 1) = k
        BY <1>2, <1>4, <3>2
      <4> QED
        BY <4>1
    <3> QED
      BY <3>1, <3>2, <1>4
  <2> HIDE DEF back
  <2>6. Nodes(r) = Nodes(q) \ {x}
    <3>1. ASSUME NEW j \in 1..n - 1 PROVE s[j].node \in Nodes(q) \ {x}
      BY <1>4, <1>10, <2>2, <2>3 DEF x
    <3>2. ASSUME NEW k \in 1..n, q.list[k].node # x
          PROVE  q.list[k].node \in Nodes(r)
      <4>1. k # i
        BY <3>2 DEF x
      <4>2. PICK j \in 1..n - 1 : back(j) = k
        BY <2>5, <4>1
      <4> QED
        BY <1>10, <2>1, <4>2
    <3> QED
      BY <2>1, <2>2, <3>1, <3>2
  <2>7. /\ \A j, k \in 1..m : f[j] = f[k] => j = k
        /\ Nodes(q) \cap ToSet(f) = {}
        /\ Nodes(q) \cup ToSet(f) = 1..q.nNodes
        /\ q.nNodes <= NNodesMax
    BY <1>1, <1>3, Zenon DEF PartitionsNodes, IsInjective, f
  <2>8. ToSet(f) = {f[k] : k \in 1..m} /\ ToSet(g) = {g[k] : k \in 1..m + 1}
    BY <1>3, <1>9 DEF ToSet
  <2>9. ToSet(g) = ToSet(f) \cup {x}
    BY <1>3, <1>7, <2>8
  <2>10. x \in Nodes(q) /\ x \notin ToSet(f)
    BY <1>4, <2>2, <2>7 DEF x
  <2>11. IsInjective(g)
    <3> SUFFICES ASSUME NEW j \in 1..m + 1, NEW k \in 1..m + 1, g[j] = g[k]
                 PROVE  j = k
      BY <1>9 DEF IsInjective
    <3>1. \A l \in 1..m : g[l] # x
      BY <1>7, <2>8, <2>10
    <3> QED
      BY <1>3, <1>7, <2>7, <3>1
  <2>12. IsInjective([j \in DOMAIN r.list |-> r.list[j].node])
    BY <1>8, <1>9, <2>4 DEF IsInjective
  <2>13. Nodes(r) \cap ToSet(g) = {} /\ Nodes(r) \cup ToSet(g) = 1..q.nNodes
    BY <2>6, <2>7, <2>9, <2>10
  <2> QED
    BY <1>8, <2>7, <2>11, <2>12, <2>13 DEF PartitionsNodes
<1> QED
  BY <1>5, <1>7, <1>8, <1>11, <1>12 DEF IsQueue, r, n

(* Eviction takes the tail of a full queue, and leaves room for an entry.  *)
LEMMA EvictProperties ==
  ASSUME NEW V, NEW q, IsQueue(q, V)
  PROVE  /\ IsQueue(Evict(q), V)
         /\ Evict(q).ascending = q.ascending
         /\ Evict(q).inactive # << >> \/ Evict(q).nNodes < NNodesMax
         /\ IsFull(q) => /\ Len(q.list) \in DOMAIN q.list
                         /\ Last(q.list) = q.list[Len(q.list)]
                         /\ Evict(q) = RemoveEntry(q, Len(q.list))
                         /\ Len(Evict(q).list) = Len(q.list) - 1
                         /\ \A j \in 1..Len(q.list) - 1 :
                              Evict(q).list[j] = q.list[j]
         /\ ~IsFull(q) => Evict(q) = q
<1>1. q \in Queues(V) /\ PartitionsNodes(q)
  BY DEF IsQueue
<1>2. /\ q.list \in Seq(Entries(V)) /\ Len(q.list) \in Nat
      /\ DOMAIN q.list = 1..Len(q.list)
  BY <1>1, ListProperties
<1>3. q.nNodes \in Nat /\ q.nNodes <= NNodesMax
  BY <1>1 DEF PartitionsNodes, Queues
<1>4. CASE IsFull(q)
  <2>1. q.list # << >>
    BY <1>4 DEF IsFull, IsEmpty
  <2>2. Len(q.list) \in 1..Len(q.list)
    BY <1>2, <2>1, EmptySeq
  <2>3. Evict(q) = RemoveEntry(q, Len(q.list))
    BY <1>4 DEF Evict
  <2>4. Last(q.list) = q.list[Len(q.list)]
    BY DEF Last
  <2>5. /\ IsQueue(Evict(q), V)
        /\ Evict(q).ascending = q.ascending
        /\ Evict(q).inactive # << >>
        /\ Len(Evict(q).list) = Len(q.list) - 1
        /\ \A j \in 1..Len(q.list) - 1 :
             Evict(q).list[j] = IF j < Len(q.list) THEN q.list[j]
                                                   ELSE q.list[j + 1]
    BY <2>2, <2>3, RemoveProperties
  <2> QED
    BY <1>2, <1>4, <2>2, <2>3, <2>4, <2>5
<1>5. CASE ~IsFull(q)
  <2>1. Evict(q) = q
    BY <1>5 DEF Evict
  <2>2. q.inactive # << >> \/ q.nNodes < NNodesMax
    <3> SUFFICES ASSUME q.inactive = << >>, q.nNodes = NNodesMax PROVE FALSE
      BY <1>3, NNodesMaxAssumption
    <3>1. IsEmpty(q)
      BY <1>5 DEF IsFull
    <3>2. Nodes(q) = {} /\ ToSet(q.inactive) = {}
      BY <3>1 DEF IsEmpty, Nodes, ToSet
    <3>3. 1..q.nNodes = {}
      BY <1>1, <3>2, Zenon DEF PartitionsNodes
    <3>4. 1 \in 1..q.nNodes
      BY NNodesMaxAssumption
    <3> QED
      BY <3>3, <3>4
  <2> QED
    BY <1>5, <2>1, <2>2
<1> QED
  BY <1>4, <1>5

-----------------------------------------------------------------------------
(* How the order book and the market accounts stay in step: an order goes  *)
(* from one when it goes from the other.                                   *)

AccountsOK(accts) ==
  accts \in [Traders -> Accounts] /\ \A a \in Traders : IsAccount(accts[a])

EntriesOK(q) ==
  \A i \in DOMAIN q.list :
    q.list[i].key \in 1..HI_PRICE /\ q.list[i].value.size > 0

(* A queue of one side and the accounts agree, but for the keys in W, of   *)
(* orders that have left the queue and not yet their accounts.             *)
Linked(q, accts, side, c, W) ==
  /\ IsQueue(q, BookOrders)
  /\ EntriesOK(q)
  /\ OrdersInAccounts(q, accts, side, c)
  /\ KeysDistinct(q)
  /\ \A i \in DOMAIN q.list : KeyOf(q, i) \notin W
  /\ \A w \in W : w[1] \in Traders /\ w[2] \in ActiveKeys(accts[w[1]], side)
  /\ \A a \in Traders : \A k \in ActiveKeys(accts[a], side) :
       <<a, k>> \in W \/ \E i \in DOMAIN q.list : KeyOf(q, i) = <<a, k>>

(* The facts about an entry of the book.                                   *)
LEMMA EntryProperties ==
  ASSUME NEW q, IsQueue(q, BookOrders)
  PROVE  /\ Len(q.list) \in Nat
         /\ DOMAIN q.list = 1..Len(q.list)
         /\ \A i \in 1..Len(q.list) :
              /\ q.list[i] \in Entries(BookOrders)
              /\ q.list[i].key \in Nat /\ q.list[i].node \in Nat
              /\ q.list[i].value \in BookOrders
              /\ q.list[i].value.user \in Traders
              /\ q.list[i].value.size \in Nat
              /\ q.list[i].value.access \in Nat
<1>1. q \in Queues(BookOrders)
  BY DEF IsQueue
<1>2. \A v \in BookOrders : v.user \in Traders /\ v.size \in Nat /\ v.access \in Nat
  BY DEF BookOrders
<1> QED
  BY <1>1, <1>2, ListProperties

(* Nothing changes on a side on which no account order changes.            *)
LEMMA LinkedSame ==
  ASSUME NEW q, NEW accts, NEW side, NEW c \in Nat, Linked(q, accts, side, c, {}),
         NEW accts2, \A a \in Traders : accts2[a].orders[side] = accts[a].orders[side],
         NEW c2 \in Nat, c <= c2
  PROVE  Linked(q, accts2, side, c2, {})
<1>1. \A a \in Traders : ActiveKeys(accts2[a], side) = ActiveKeys(accts[a], side)
  BY DEF ActiveKeys
<1>2. \A i \in DOMAIN q.list : q.list[i].value.user \in Traders
  BY EntryProperties DEF Linked
<1>3. ASSUME NEW i \in DOMAIN q.list
      PROVE  OrderInAccount(q.list[i], accts2, side, c2)
  <2>1. OrderInAccount(q.list[i], accts, side, c)
    BY DEF Linked, OrdersInAccounts
  <2> DEFINE v == q.list[i].value.user
             l == q.list[i].value.access
  <2>2. /\ v \in Traders
        /\ ActiveKeys(accts2[v], side) = ActiveKeys(accts[v], side)
        /\ accts2[v].orders[side][l] = accts[v].orders[side][l]
    BY <1>1, <1>2, Zenon
  <2>3. \A x \in 1..c : x \in 1..c2
    OBVIOUS
  <2> QED
    BY <2>1, <2>2, <2>3, Zenon DEF OrderInAccount
<1>4. OrdersInAccounts(q, accts2, side, c2)
  BY <1>3 DEF OrdersInAccounts
<1> QED
  BY <1>1, <1>4 DEF Linked

(* An order leaves the book first ...                                      *)
LEMMA RemoveLinked ==
  ASSUME NEW q, NEW accts, NEW side, NEW c, Linked(q, accts, side, c, {}),
         NEW i \in 1..Len(q.list)
  PROVE  Linked(RemoveEntry(q, i), accts, side, c, {KeyOf(q, i)})
<1> DEFINE r == RemoveEntry(q, i)
           n == Len(q.list)
           back(j) == IF j < i THEN j ELSE j + 1
<1>1. /\ IsQueue(q, BookOrders) /\ EntriesOK(q) /\ KeysDistinct(q)
      /\ OrdersInAccounts(q, accts, side, c)
      /\ \A a \in Traders : \A k \in ActiveKeys(accts[a], side) :
           \E j \in DOMAIN q.list : KeyOf(q, j) = <<a, k>>
  BY Zenon DEF Linked
<1>2. /\ n \in Nat /\ DOMAIN q.list = 1..n /\ i \in 1..n
      /\ \A j \in 1..n : q.list[j].value.user \in Traders
  BY <1>1, EntryProperties
<1>3. /\ IsQueue(r, BookOrders) /\ Len(r.list) = n - 1
      /\ \A j \in 1..n - 1 : r.list[j] = IF j < i THEN q.list[j] ELSE q.list[j + 1]
  BY <1>1, RemoveProperties
<1>4. DOMAIN r.list = 1..n - 1
  BY <1>3, EntryProperties
<1> HIDE DEF r, n
<1>5. \A j \in 1..n - 1 :
        /\ back(j) \in 1..n /\ back(j) # i /\ r.list[j] = q.list[back(j)]
  BY <1>2, <1>3
<1>6. \A j, k \in 1..n - 1 : back(j) = back(k) => j = k
  BY <1>2
<1>7. \A k \in 1..n : k # i => \E j \in 1..n - 1 : back(j) = k
  <2> SUFFICES ASSUME NEW k \in 1..n, k # i
               PROVE  \E j \in 1..n - 1 : back(j) = k
    OBVIOUS
  <2>1. CASE k < i
    <3>1. k \in 1..n - 1 /\ back(k) = k
      BY <1>2, <2>1
    <3> QED
      BY <3>1
  <2>2. CASE k > i
    <3>1. k - 1 \in 1..n - 1 /\ back(k - 1) = k
      BY <1>2, <2>2
    <3> QED
      BY <3>1
  <2> QED
    BY <2>1, <2>2, <1>2
<1> HIDE DEF back
<1>8. \A j \in 1..n - 1 : KeyOf(r, j) = KeyOf(q, back(j))
  BY <1>5 DEF KeyOf
<1>9. EntriesOK(r)
  BY <1>1, <1>2, <1>4, <1>5, Zenon DEF EntriesOK
<1>10. OrdersInAccounts(r, accts, side, c)
  BY <1>1, <1>2, <1>4, <1>5 DEF OrdersInAccounts
<1>11. KeysDistinct(r)
  BY <1>1, <1>2, <1>4, <1>5, <1>6, <1>8 DEF KeysDistinct
<1>12. \A j \in DOMAIN r.list : KeyOf(r, j) \notin {KeyOf(q, i)}
  BY <1>1, <1>2, <1>4, <1>5, <1>8, Zenon DEF KeysDistinct
<1>13. \A w \in {KeyOf(q, i)} :
         w[1] \in Traders /\ w[2] \in ActiveKeys(accts[w[1]], side)
  <2>1. OrderInAccount(q.list[i], accts, side, c)
    BY <1>1, <1>2 DEF OrdersInAccounts
  <2>2. /\ KeyOf(q, i)[1] = q.list[i].value.user
        /\ KeyOf(q, i)[2] = q.list[i].value.access
    BY DEF KeyOf
  <2> QED
    BY <1>2, <2>1, <2>2, Zenon DEF OrderInAccount
<1>14. ASSUME NEW a \in Traders, NEW k \in ActiveKeys(accts[a], side)
       PROVE  <<a, k>> \in {KeyOf(q, i)}
                \/ \E j \in DOMAIN r.list : KeyOf(r, j) = <<a, k>>
  <2>1. PICK l \in 1..n : KeyOf(q, l) = <<a, k>>
    BY <1>1, <1>2, Zenon
  <2>2. CASE l = i
    BY <2>1, <2>2
  <2>3. CASE l # i
    <3>1. PICK j \in 1..n - 1 : back(j) = l
      BY <1>7, <2>3
    <3> QED
      BY <1>4, <1>8, <2>1, <3>1
  <2> QED
    BY <2>2, <2>3
<1> QED
  BY <1>3, <1>9, <1>10, <1>11, <1>12, <1>13, <1>14, Zenon DEF Linked, r

(* ... and its account thereupon.                                          *)
LEMMA CloseLinked ==
  ASSUME NEW q, NEW accts, AccountsOK(accts), NEW side, NEW c,
         NEW u \in Traders, NEW k, Linked(q, accts, side, c, {<<u, k>>}),
         NEW m, Closes(accts[u], m, side, k)
  PROVE  /\ AccountsOK([accts EXCEPT ![u] = m])
         /\ Linked(q, [accts EXCEPT ![u] = m], side, c, {})
<1> DEFINE accts2 == [accts EXCEPT ![u] = m]
<1>1. /\ accts2[u] = m /\ \A a \in Traders : a # u => accts2[a] = accts[a]
      /\ m \in Accounts /\ IsAccount(m)
  BY DEF AccountsOK, Closes, IsAccount
<1>2. AccountsOK(accts2)
  BY <1>1 DEF AccountsOK
<1> HIDE DEF accts2
<1>3. /\ IsQueue(q, BookOrders) /\ EntriesOK(q) /\ KeysDistinct(q)
      /\ OrdersInAccounts(q, accts, side, c)
      /\ \A i \in DOMAIN q.list : KeyOf(q, i) # <<u, k>>
      /\ \A a \in Traders : \A l \in ActiveKeys(accts[a], side) :
           <<a, l>> = <<u, k>> \/ \E i \in DOMAIN q.list : KeyOf(q, i) = <<a, l>>
  BY DEF Linked
<1>4. \A i \in DOMAIN q.list : q.list[i].value.user \in Traders
  BY <1>3, EntryProperties
<1>5. /\ ActiveKeys(m, side) = ActiveKeys(accts[u], side) \ {k}
      /\ \A l \in ActiveKeys(m, side) :
           m.orders[side][l] = accts[u].orders[side][l]
  BY DEF Closes
<1>6. OrdersInAccounts(q, accts2, side, c)
  <2> SUFFICES ASSUME NEW i \in DOMAIN q.list
               PROVE  OrderInAccount(q.list[i], accts2, side, c)
    BY DEF OrdersInAccounts
  <2> DEFINE v == q.list[i].value.user
             l == q.list[i].value.access
  <2>1. OrderInAccount(q.list[i], accts, side, c)
    BY <1>3 DEF OrdersInAccounts
  <2>2. v = u => l # k
    BY <1>3 DEF KeyOf
  <2>3. l \in ActiveKeys(accts[v], side)
    BY <2>1, Zenon DEF OrderInAccount
  <2>4. /\ l \in ActiveKeys(accts2[v], side)
        /\ accts2[v].orders[side][l] = accts[v].orders[side][l]
    BY <1>1, <1>4, <1>5, <2>2, <2>3, Zenon
  <2> QED
    BY <2>1, <2>4, Zenon DEF OrderInAccount
<1>7. ASSUME NEW a \in Traders, NEW l \in ActiveKeys(accts2[a], side)
      PROVE  \E i \in DOMAIN q.list : KeyOf(q, i) = <<a, l>>
  <2>1. l \in ActiveKeys(accts[a], side) /\ <<a, l>> # <<u, k>>
    BY <1>1, <1>5, <1>7
  <2> QED
    BY <1>3, <2>1
<1> QED
  BY <1>2, <1>3, <1>6, <1>7 DEF Linked, accts2

(* An order is placed in its account and in the book.                      *)
LEMMA OpenLinked ==
  ASSUME NEW q, NEW accts, AccountsOK(accts), NEW side, NEW c \in Nat,
         NEW c2 \in Nat, c <= c2, NEW W, Linked(q, accts, side, c, W),
         q.inactive # << >> \/ q.nNodes < NNodesMax,
         NEW a \in Traders, NEW key \in 1..HI_PRICE, NEW size \in Nat \ {0},
         NEW k, NEW id, id = MarketOrderId(id.counter, NextNode(q), key),
         id.counter \in 1..c2,
         NEW m, Opens(accts[a], m, side, k, [id |-> id, size |-> size])
  PROVE  LET accts2 == [accts EXCEPT ![a] = m]
             value == [user |-> a, size |-> size, access |-> k]
         IN AccountsOK(accts2) /\ Linked(Insert(q, key, value), accts2, side, c2, W)
<1> DEFINE accts2 == [accts EXCEPT ![a] = m]
           value == [user |-> a, size |-> size, access |-> k]
           r == Insert(q, key, value)
           p == Place(q, key)
           n == Len(q.list)
           e == NewEntry(q, key, value)
           order == [id |-> id, size |-> size]
           back(j) == IF j < p THEN j ELSE j - 1
<1>1. /\ accts2[a] = m /\ \A b \in Traders : b # a => accts2[b] = accts[b]
      /\ m \in Accounts /\ IsAccount(m)
  BY DEF AccountsOK, Opens, IsAccount
<1>2. AccountsOK(accts2)
  BY <1>1 DEF AccountsOK
<1>3. /\ IsQueue(q, BookOrders) /\ EntriesOK(q) /\ KeysDistinct(q)
      /\ OrdersInAccounts(q, accts, side, c)
      /\ \A i \in DOMAIN q.list : KeyOf(q, i) \notin W
      /\ \A w \in W : w[1] \in Traders /\ w[2] \in ActiveKeys(accts[w[1]], side)
      /\ \A b \in Traders : \A l \in ActiveKeys(accts[b], side) :
           <<b, l>> \in W \/ \E i \in DOMAIN q.list : KeyOf(q, i) = <<b, l>>
  BY DEF Linked
<1>4. /\ k \in Nat /\ k \notin ActiveKeys(accts[a], side)
      /\ ActiveKeys(m, side) = ActiveKeys(accts[a], side) \cup {k}
      /\ m.orders[side][k] = order
      /\ \A l \in ActiveKeys(accts[a], side) :
           m.orders[side][l] = accts[a].orders[side][l]
  BY DEF Opens
<1>5. order.id = id /\ order.size = size
  OBVIOUS
<1>6. /\ value \in BookOrders /\ value.user = a /\ value.size = size
      /\ value.access = k
  BY <1>4 DEF BookOrders
<1>7. e.key = key /\ e.node = NextNode(q) /\ e.value = value
  BY DEF NewEntry
<1>8. HI_PRICE \in Nat /\ key \in Nat
  BY UnitsAssumption
<1> HIDE DEF accts2, value, e, order
<1>9. /\ n \in Nat /\ DOMAIN q.list = 1..n
      /\ \A i \in 1..n : q.list[i].value.user \in Traders
  BY <1>3, EntryProperties
<1>10. p \in 1..n + 1
  BY <1>3, <1>8, PlaceProperties, Zenon DEF IsQueue
<1>11. /\ IsQueue(r, BookOrders) /\ Len(r.list) = n + 1
       /\ \A j \in 1..n + 1 :
            r.list[j] = IF j < p THEN q.list[j]
                        ELSE IF j = p THEN e ELSE q.list[j - 1]
  BY <1>3, <1>6, <1>8, InsertProperties DEF e
<1>12. DOMAIN r.list = 1..n + 1
  BY <1>11, EntryProperties
<1> HIDE DEF r, p, n
<1>13. /\ r.list[p] = e
       /\ \A j \in 1..n + 1 : j # p =>
            back(j) \in 1..n /\ r.list[j] = q.list[back(j)]
  BY <1>9, <1>10, <1>11
<1>14. \A i, j \in 1..n + 1 : i # p /\ j # p /\ back(i) = back(j) => i = j
  BY <1>9, <1>10
<1>15. \A i \in 1..n : \E j \in 1..n + 1 : j # p /\ back(j) = i
  <2> SUFFICES ASSUME NEW i \in 1..n
               PROVE  \E j \in 1..n + 1 : j # p /\ back(j) = i
    OBVIOUS
  <2>1. CASE i < p
    <3>1. i \in 1..n + 1 /\ i # p /\ back(i) = i
      BY <1>9, <1>10, <2>1
    <3> QED
      BY <3>1
  <2>2. CASE i >= p
    <3>1. i + 1 \in 1..n + 1 /\ i + 1 # p /\ back(i + 1) = i
      BY <1>9, <1>10, <2>2
    <3> QED
      BY <3>1
  <2> QED
    BY <2>1, <2>2, <1>10
<1> HIDE DEF back
<1>16. /\ KeyOf(r, p) = <<a, k>>
       /\ \A j \in 1..n + 1 : j # p => KeyOf(r, j) = KeyOf(q, back(j))
  BY <1>6, <1>7, <1>13 DEF KeyOf
<1>17. \A i \in 1..n : KeyOf(q, i) # <<a, k>>
  <2> SUFFICES ASSUME NEW i \in 1..n, KeyOf(q, i) = <<a, k>> PROVE FALSE
    OBVIOUS
  <2>1. OrderInAccount(q.list[i], accts, side, c)
    BY <1>3, <1>9 DEF OrdersInAccounts
  <2>2. q.list[i].value.user = a /\ q.list[i].value.access = k
    BY DEF KeyOf
  <2> QED
    BY <1>4, <2>1, <2>2 DEF OrderInAccount
<1>18. <<a, k>> \notin W
  <2> SUFFICES ASSUME NEW w \in W, w = <<a, k>> PROVE FALSE
    OBVIOUS
  <2>1. w[1] = a /\ w[2] = k
    OBVIOUS
  <2> QED
    BY <1>3, <1>4, <2>1
<1>19. EntriesOK(r)
  <2> SUFFICES ASSUME NEW j \in 1..n + 1
               PROVE  r.list[j].key \in 1..HI_PRICE /\ r.list[j].value.size > 0
    BY <1>12 DEF EntriesOK
  <2>1. CASE j = p
    BY <1>6, <1>7, <1>13, <2>1
  <2>2. CASE j # p
    BY <1>3, <1>9, <1>13, <2>2, Zenon DEF EntriesOK
  <2> QED
    BY <2>1, <2>2
<1>20. OrdersInAccounts(r, accts2, side, c2)
  <2> SUFFICES ASSUME NEW j \in 1..n + 1
               PROVE  OrderInAccount(r.list[j], accts2, side, c2)
    BY <1>12 DEF OrdersInAccounts
  <2>1. CASE j = p
    <3>1. /\ k \in ActiveKeys(accts2[a], side)
          /\ accts2[a].orders[side][k] = order
      BY <1>1, <1>4
    <3>2. OrderInAccount(e, accts2, side, c2)
      BY <1>5, <1>6, <1>7, <3>1, Zenon DEF OrderInAccount
    <3> QED
      BY <1>13, <2>1, <3>2
  <2>2. CASE j # p
    <3> DEFINE i == back(j)
               v == q.list[i].value.user
               l == q.list[i].value.access
    <3>1. i \in 1..n /\ r.list[j] = q.list[i] /\ v \in Traders
      BY <1>9, <1>13, <2>2
    <3>2. OrderInAccount(q.list[i], accts, side, c)
      BY <1>3, <1>9, <3>1 DEF OrdersInAccounts
    <3>3. l \in ActiveKeys(accts[v], side)
      BY <3>2, Zenon DEF OrderInAccount
    <3>4. /\ l \in ActiveKeys(accts2[v], side)
          /\ accts2[v].orders[side][l] = accts[v].orders[side][l]
      <4> HIDE DEF l
      <4>1. CASE v = a
        BY <1>1, <1>4, <3>3, <4>1
      <4>2. CASE v # a
        BY <1>1, <3>1, <3>3, <4>2
      <4> QED
        BY <4>1, <4>2
    <3>5. \A x \in 1..c : x \in 1..c2
      OBVIOUS
    <3>6. OrderInAccount(q.list[i], accts2, side, c2)
      BY <3>2, <3>4, <3>5, Zenon DEF OrderInAccount
    <3> QED
      BY <3>1, <3>6
  <2> QED
    BY <2>1, <2>2
<1>21. KeysDistinct(r)
  <2> SUFFICES ASSUME NEW i \in 1..n + 1, NEW j \in 1..n + 1, i # j
               PROVE  KeyOf(r, i) # KeyOf(r, j)
    BY <1>12 DEF KeysDistinct
  <2>1. \A g, h \in 1..n : g # h => KeyOf(q, g) # KeyOf(q, h)
    BY <1>3, <1>9, Zenon DEF KeysDistinct
  <2>2. CASE i = p
    BY <1>13, <1>16, <1>17, <2>2
  <2>3. CASE j = p
    BY <1>13, <1>16, <1>17, <2>3
  <2>4. CASE i # p /\ j # p
    BY <1>13, <1>14, <1>16, <2>1, <2>4
  <2> QED
    BY <2>2, <2>3, <2>4
<1>22. \A j \in DOMAIN r.list : KeyOf(r, j) \notin W
  BY <1>3, <1>9, <1>12, <1>13, <1>16, <1>18, Zenon
<1>23. \A w \in W : w[1] \in Traders /\ w[2] \in ActiveKeys(accts2[w[1]], side)
  BY <1>1, <1>3, <1>4
<1>24. ASSUME NEW b \in Traders, NEW l \in ActiveKeys(accts2[b], side)
       PROVE  <<b, l>> \in W \/ \E j \in DOMAIN r.list : KeyOf(r, j) = <<b, l>>
  <2>1. CASE b = a /\ l = k
    BY <1>10, <1>12, <1>16, <2>1
  <2>2. CASE ~(b = a /\ l = k)
    <3>1. l \in ActiveKeys(accts[b], side)
      BY <1>1, <1>4, <1>24, <2>2
    <3>2. CASE <<b, l>> \notin W
      <4>1. PICK i \in 1..n : KeyOf(q, i) = <<b, l>>
        BY <1>3, <1>9, <3>1, <3>2
      <4>2. PICK j \in 1..n + 1 : j # p /\ back(j) = i
        BY <1>15
      <4> QED
        BY <1>12, <1>16, <4>1, <4>2
    <3> QED
      BY <3>2
  <2> QED
    BY <2>1, <2>2
<1> QED
  BY <1>2, <1>11, <1>19, <1>20, <1>21, <1>22, <1>23, <1>24
     DEF Linked, accts2, value, r

(* An order changes its size where it stands.                              *)
ResizeAt(q, i, size) == [q EXCEPT !.list[i].value.size = size]

(* A size change leaves keys, nodes and access keys where they are.        *)
LEMMA ResizeAtProperties ==
  ASSUME NEW q, IsQueue(q, BookOrders), NEW i \in 1..Len(q.list),
         NEW size \in Nat
  PROVE  LET r == ResizeAt(q, i, size)
         IN /\ IsQueue(r, BookOrders)
            /\ DOMAIN r.list = DOMAIN q.list
            /\ \A j \in DOMAIN q.list :
                 /\ r.list[j].key = q.list[j].key
                 /\ r.list[j].node = q.list[j].node
                 /\ r.list[j].value.user = q.list[j].value.user
                 /\ r.list[j].value.access = q.list[j].value.access
                 /\ r.list[j].value.size =
                      IF j = i THEN size ELSE q.list[j].value.size
<1> DEFINE r == ResizeAt(q, i, size)
           old == q.list[i]
           new == [old EXCEPT !.value.size = size]
           s == [q.list EXCEPT ![i] = new]
<1>1. /\ q \in Queues(BookOrders) /\ SortedByKey(q) /\ PartitionsNodes(q)
  BY DEF IsQueue
<1>2. /\ q.list \in Seq(Entries(BookOrders)) /\ DOMAIN q.list = 1..Len(q.list)
      /\ Len(q.list) \in Nat
      /\ old \in Entries(BookOrders)
  BY <1>1, ListProperties
<1>3. /\ old.value \in BookOrders
      /\ new.key = old.key /\ new.node = old.node
      /\ new.value = [old.value EXCEPT !.size = size]
  BY <1>2, Zenon DEF Entries
<1>4. /\ new.value \in BookOrders /\ new.value.user = old.value.user
      /\ new.value.access = old.value.access /\ new.value.size = size
  BY <1>3 DEF BookOrders
<1>5. new \in Entries(BookOrders)
  BY <1>2, <1>4, Zenon DEF Entries
<1>6. r = [q EXCEPT !.list = s]
  BY <1>1 DEF ResizeAt, Queues
<1> HIDE DEF r, new
<1>7. /\ s \in Seq(Entries(BookOrders)) /\ Len(s) = Len(q.list)
      /\ DOMAIN s = DOMAIN q.list
      /\ \A j \in DOMAIN q.list : s[j] = IF j = i THEN new ELSE q.list[j]
  <2> DEFINE l == q.list
             E == Entries(BookOrders)
  <2>1. l \in Seq(E) /\ new \in E /\ i \in 1..Len(l) /\ DOMAIN l = 1..Len(l)
    BY <1>2, <1>5
  <2> HIDE DEF l, E
  <2>2. /\ [l EXCEPT ![i] = new] \in Seq(E)
        /\ Len([l EXCEPT ![i] = new]) = Len(l)
        /\ DOMAIN [l EXCEPT ![i] = new] = DOMAIN l
        /\ \A j \in DOMAIN l : [l EXCEPT ![i] = new][j] = IF j = i THEN new ELSE l[j]
    BY <2>1, ExceptSeq
  <2> QED
    BY <2>2 DEF l, E
<1> HIDE DEF s
<1>8. /\ r \in Queues(BookOrders) /\ r.list = s /\ r.ascending = q.ascending
      /\ r.inactive = q.inactive /\ r.nNodes = q.nNodes
  BY <1>1, <1>6, <1>7, Zenon DEF Queues
<1>9. \A j \in DOMAIN q.list :
        s[j].key = q.list[j].key /\ s[j].node = q.list[j].node
  BY <1>3, <1>7
<1>10. SortedByKey(r)
  BY <1>1, <1>7, <1>8, <1>9 DEF SortedByKey, Precedes
<1>11. PartitionsNodes(r)
  <2>1. Nodes(r) = Nodes(q)
    BY <1>7, <1>8, <1>9 DEF Nodes
  <2>2. [j \in DOMAIN r.list |-> r.list[j].node]
          = [j \in DOMAIN q.list |-> q.list[j].node]
    BY <1>7, <1>8, <1>9
  <2> QED
    BY <1>1, <1>8, <2>1, <2>2 DEF PartitionsNodes
<1>12. \A j \in DOMAIN q.list :
         /\ s[j].value.user = q.list[j].value.user
         /\ s[j].value.access = q.list[j].value.access
         /\ s[j].value.size = IF j = i THEN size ELSE q.list[j].value.size
  BY <1>4, <1>7
<1>13. IsQueue(r, BookOrders)
  BY <1>8, <1>10, <1>11 DEF IsQueue
<1>14. DOMAIN r.list = DOMAIN q.list
  BY <1>7, <1>8
<1> QED
  BY <1>8, <1>9, <1>12, <1>13, <1>14 DEF r

(* An order changes its size in the book and in its account.               *)
LEMMA ResizeLinked ==
  ASSUME NEW q, NEW accts, AccountsOK(accts), NEW side, NEW c,
         Linked(q, accts, side, c, {}), NEW i \in 1..Len(q.list),
         NEW size \in Nat \ {0},
         NEW m, Resizes(accts[q.list[i].value.user], m, side,
                        q.list[i].value.access, size)
  PROVE  LET accts2 == [accts EXCEPT ![q.list[i].value.user] = m]
         IN /\ AccountsOK(accts2)
            /\ Linked(ResizeAt(q, i, size), accts2, side, c, {})
<1> DEFINE r == ResizeAt(q, i, size)
           u == q.list[i].value.user
           k == q.list[i].value.access
           accts2 == [accts EXCEPT ![u] = m]
<1>1. /\ IsQueue(q, BookOrders) /\ EntriesOK(q) /\ KeysDistinct(q)
      /\ OrdersInAccounts(q, accts, side, c)
      /\ \A a \in Traders : \A l \in ActiveKeys(accts[a], side) :
           \E j \in DOMAIN q.list : KeyOf(q, j) = <<a, l>>
  BY Zenon DEF Linked
<1>2. /\ DOMAIN q.list = 1..Len(q.list)
      /\ \A j \in DOMAIN q.list : q.list[j].value.user \in Traders
  BY <1>1, EntryProperties
<1>3. /\ accts2[u] = m /\ \A a \in Traders : a # u => accts2[a] = accts[a]
      /\ m \in Accounts /\ IsAccount(m)
  BY <1>2, Zenon DEF AccountsOK, Resizes, IsAccount
<1>4. AccountsOK(accts2)
  BY <1>3, Zenon DEF AccountsOK
<1>5. /\ IsQueue(r, BookOrders)
      /\ DOMAIN r.list = DOMAIN q.list
      /\ \A j \in DOMAIN q.list :
           /\ r.list[j].key = q.list[j].key
           /\ r.list[j].node = q.list[j].node
           /\ r.list[j].value.user = q.list[j].value.user
           /\ r.list[j].value.access = q.list[j].value.access
           /\ r.list[j].value.size =
                IF j = i THEN size ELSE q.list[j].value.size
  BY <1>1, ResizeAtProperties
<1>6. /\ ActiveKeys(m, side) = ActiveKeys(accts[u], side)
      /\ m.orders[side][k].id = accts[u].orders[side][k].id
      /\ m.orders[side][k].size = size
      /\ \A l \in ActiveKeys(accts[u], side) :
           l # k => m.orders[side][l] = accts[u].orders[side][l]
  BY Zenon DEF Resizes
<1> HIDE DEF accts2, r
<1>7. \A j \in DOMAIN q.list : KeyOf(r, j) = KeyOf(q, j)
  BY <1>5 DEF KeyOf
<1>8. EntriesOK(r)
  BY <1>1, <1>5 DEF EntriesOK
<1>9. KeysDistinct(r)
  BY <1>1, <1>5, <1>7 DEF KeysDistinct
<1>10. \A a \in Traders : ActiveKeys(accts2[a], side) = ActiveKeys(accts[a], side)
  BY <1>3, <1>6, Zenon
<1>11. OrdersInAccounts(r, accts2, side, c)
  <2> SUFFICES ASSUME NEW j \in DOMAIN q.list
               PROVE  OrderInAccount(r.list[j], accts2, side, c)
    BY <1>5 DEF OrdersInAccounts
  <2> DEFINE v == q.list[j].value.user
             l == q.list[j].value.access
  <2>1. OrderInAccount(q.list[j], accts, side, c) /\ v \in Traders
    BY <1>1, <1>2 DEF OrdersInAccounts
  <2>2. l \in ActiveKeys(accts[v], side)
    BY <2>1, Zenon DEF OrderInAccount
  <2>3. CASE j = i
    <3>1. /\ accts2[v].orders[side][l].id = accts[v].orders[side][l].id
          /\ accts2[v].orders[side][l].size = size
      BY <1>3, <1>6, <2>3, Zenon
    <3> QED
      BY <1>5, <1>10, <2>1, <2>3, <3>1, Zenon DEF OrderInAccount
  <2>4. CASE j # i
    <3>1. v = u => l # k
      <4>1. KeyOf(q, j) # KeyOf(q, i)
        BY <1>1, <1>2, <2>4 DEF KeysDistinct
      <4> QED
        BY <4>1 DEF KeyOf
    <3>2. accts2[v].orders[side][l] = accts[v].orders[side][l]
      BY <1>3, <1>6, <2>1, <2>2, <3>1, Zenon
    <3> QED
      BY <1>5, <1>10, <2>1, <2>4, <3>2, Zenon DEF OrderInAccount
  <2> QED
    BY <2>3, <2>4
<1>12. \A a \in Traders : \A l \in ActiveKeys(accts2[a], side) :
         \E j \in DOMAIN r.list : KeyOf(r, j) = <<a, l>>
  BY <1>1, <1>5, <1>7, <1>10
<1> QED
  BY <1>4, <1>5, <1>8, <1>9, <1>11, <1>12 DEF Linked, accts2, r

-----------------------------------------------------------------------------
(* Both sides of the book, and all accounts.                               *)


Consistent(b, accts, c) ==
  /\ b \in Books /\ c \in Nat /\ AccountsOK(accts)
  /\ \A side \in Sides : Linked(b[side], accts, side, c, {})

-----------------------------------------------------------------------------
(* Changes of one side of the book and of the orders of accounts there.    *)

(* A queue and the accounts change on one side, and agree there.           *)
LEMMA OneSide ==
  ASSUME NEW b, NEW accts, NEW c, Consistent(b, accts, c), NEW side \in Sides,
         NEW q, NEW accts2, NEW c2 \in Nat, c <= c2, AccountsOK(accts2),
         Linked(q, accts2, side, c2, {}),
         \A a \in Traders : OtherSideKept(accts[a], accts2[a], side)
  PROVE  Consistent([b EXCEPT ![side] = q], accts2, c2)
<1> DEFINE b2 == [b EXCEPT ![side] = q]
<1>1. /\ b \in Books /\ c \in Nat
      /\ \A s \in Sides : Linked(b[s], accts, s, c, {})
  BY DEF Consistent
<1>2. q \in Queues(BookOrders)
  BY DEF Linked, IsQueue
<1>3. b2 \in Books /\ \A s \in Sides : b2[s] = IF s = side THEN q ELSE b[s]
  BY <1>1, <1>2 DEF Books
<1> HIDE DEF b2
<1>4. ASSUME NEW s \in Sides
      PROVE  Linked(b2[s], accts2, s, c2, {})
  <2>1. CASE s = side
    BY <1>3, <2>1
  <2>2. CASE s # side
    <3>1. \A a \in Traders : accts2[a].orders[s] = accts[a].orders[s]
      BY <2>2 DEF OtherSideKept
    <3>2. Linked(b[s], accts2, s, c2, {})
      BY <1>1, <3>1, LinkedSame
    <3> QED
      BY <1>3, <2>2, <3>2
  <2> QED
    BY <2>1, <2>2
<1> QED
  BY <1>3, <1>4 DEF Consistent, b2

(* Nothing but collateral changes, and maybe the counter.                  *)
LEMMA NoSide ==
  ASSUME NEW b, NEW accts, NEW c, Consistent(b, accts, c), NEW a \in Traders,
         NEW m, SameOrders(accts[a], m), NEW c2 \in Nat, c <= c2
  PROVE  Consistent(b, [accts EXCEPT ![a] = m], c2)
<1> DEFINE accts2 == [accts EXCEPT ![a] = m]
<1>1. /\ b \in Books /\ c \in Nat /\ AccountsOK(accts)
      /\ \A s \in Sides : Linked(b[s], accts, s, c, {})
  BY DEF Consistent
<1>2. m \in Accounts /\ IsAccount(m) /\ m.orders = accts[a].orders
  BY DEF SameOrders, IsAccount
<1>3. accts2[a] = m /\ \A v \in Traders : v # a => accts2[v] = accts[v]
  BY <1>1 DEF AccountsOK
<1>4. AccountsOK(accts2)
  BY <1>1, <1>2, <1>3 DEF AccountsOK
<1> HIDE DEF accts2
<1>5. ASSUME NEW s \in Sides
      PROVE  Linked(b[s], accts2, s, c2, {})
  <2>1. \A v \in Traders : accts2[v].orders[s] = accts[v].orders[s]
    BY <1>2, <1>3
  <2> QED
    BY <1>1, <2>1, LinkedSame
<1> QED
  BY <1>1, <1>4, <1>5, Zenon DEF Consistent, accts2

(* Nothing but the counter changes.                                        *)
LEMMA LaterCounter ==
  ASSUME NEW b, NEW accts, NEW c, Consistent(b, accts, c),
         NEW c2 \in Nat, c <= c2
  PROVE  Consistent(b, accts, c2)
<1>1. /\ b \in Books /\ c \in Nat /\ AccountsOK(accts)
      /\ \A s \in Sides : Linked(b[s], accts, s, c, {})
  BY DEF Consistent
<1>2. \A s \in Sides : Linked(b[s], accts, s, c2, {})
  BY <1>1, LinkedSame
<1> QED
  BY <1>1, <1>2 DEF Consistent

(* The account of one user changes.                                        *)
LEMMA KeptElsewhere ==
  ASSUME NEW accts, AccountsOK(accts), NEW side, NEW u, NEW m,
         OtherSideKept(accts[u], m, side)
  PROVE  \A a \in Traders :
           OtherSideKept(accts[a], [accts EXCEPT ![u] = m][a], side)
<1> SUFFICES ASSUME NEW a \in Traders
             PROVE  OtherSideKept(accts[a], [accts EXCEPT ![u] = m][a], side)
  OBVIOUS
<1>1. CASE a = u
  BY <1>1 DEF AccountsOK
<1>2. CASE a # u
  <2>1. [accts EXCEPT ![u] = m][a] = accts[a]
    BY <1>2 DEF AccountsOK
  <2> QED
    BY <2>1 DEF OtherSideKept
<1> QED
  BY <1>1, <1>2

(* An entry leaves the book and its order the account.                     *)
LEMMA CloseEntry ==
  ASSUME NEW b, NEW accts, NEW c, Consistent(b, accts, c), NEW side \in Sides,
         NEW i \in 1..Len(b[side].list), NEW u, NEW k,
         KeyOf(b[side], i) = <<u, k>>, NEW m, Closes(accts[u], m, side, k)
  PROVE  Consistent([b EXCEPT ![side] = RemoveEntry(b[side], i)],
                    [accts EXCEPT ![u] = m], c)
<1> DEFINE q == b[side]
           r == RemoveEntry(q, i)
           accts2 == [accts EXCEPT ![u] = m]
<1>1. /\ c \in Nat /\ AccountsOK(accts) /\ Linked(q, accts, side, c, {})
  BY DEF Consistent
<1>2. u \in Traders
  <2>1. q.list[i].value.user \in Traders
    BY <1>1, EntryProperties DEF Linked
  <2> QED
    BY <2>1 DEF KeyOf
<1> HIDE DEF q
<1>3. Linked(r, accts, side, c, {<<u, k>>})
  <2>1. Linked(r, accts, side, c, {KeyOf(q, i)})
    BY <1>1, RemoveLinked DEF q
  <2> QED
    BY <2>1 DEF q
<1> HIDE DEF r
<1>4. AccountsOK(accts2) /\ Linked(r, accts2, side, c, {})
  BY <1>1, <1>2, <1>3, CloseLinked, Zenon
<1>5. \A a \in Traders : OtherSideKept(accts[a], accts2[a], side)
  BY <1>1, KeptElsewhere, Zenon DEF Closes
<1> HIDE DEF accts2
<1>6. Consistent([b EXCEPT ![side] = r], accts2, c)
  BY <1>1, <1>4, <1>5, OneSide
<1> QED
  BY <1>6 DEF q, r, accts2

(* An entry changes its size where it stands.                              *)
LEMMA ResizeEntry ==
  ASSUME NEW b, NEW accts, NEW c, Consistent(b, accts, c), NEW side \in Sides,
         NEW i \in 1..Len(b[side].list), NEW u, NEW k,
         KeyOf(b[side], i) = <<u, k>>, NEW size \in Nat \ {0},
         NEW m, Resizes(accts[u], m, side, k, size)
  PROVE  Consistent([b EXCEPT ![side] = ResizeAt(b[side], i, size)],
                    [accts EXCEPT ![u] = m], c)
<1> DEFINE q == b[side]
           r == ResizeAt(q, i, size)
           accts2 == [accts EXCEPT ![u] = m]
<1>1. /\ c \in Nat /\ AccountsOK(accts) /\ Linked(q, accts, side, c, {})
  BY DEF Consistent
<1>2. q.list[i].value.user = u /\ q.list[i].value.access = k
  BY DEF KeyOf
<1> HIDE DEF q
<1>3. i \in 1..Len(q.list)
  BY DEF q
<1>4. /\ AccountsOK([accts EXCEPT ![q.list[i].value.user] = m])
      /\ Linked(r, [accts EXCEPT ![q.list[i].value.user] = m], side, c, {})
  <2>1. Resizes(accts[q.list[i].value.user], m, side, q.list[i].value.access, size)
    BY <1>2
  <2> QED
    BY <1>1, <1>3, <2>1, ResizeLinked, Zenon
<1>5. AccountsOK(accts2) /\ Linked(r, accts2, side, c, {})
  BY <1>2, <1>4
<1> HIDE DEF r
<1>6. \A a \in Traders : OtherSideKept(accts[a], accts2[a], side)
  BY <1>1, KeptElsewhere, Zenon DEF Resizes
<1> HIDE DEF accts2
<1>7. Consistent([b EXCEPT ![side] = r], accts2, c)
  BY <1>1, <1>5, <1>6, OneSide
<1> QED
  BY <1>7 DEF q, r, accts2

-----------------------------------------------------------------------------
(* A new order enters its account and the book, which may evict another.   *)

NewOrder(a, size, k) == [user |-> a, size |-> size, access |-> k]

(* A full queue evicts its tail, whose account order is still open.        *)
LEMMA PlaceInFull ==
  ASSUME NEW q, IsFull(q), IsQueue(q, BookOrders), NEW accts, NEW side, NEW c,
         Linked(q, accts, side, c, {})
  PROVE  /\ Linked(Evict(q), accts, side, c, {KeyOf(q, Len(q.list))})
         /\ Len(q.list) \in DOMAIN q.list
<1> DEFINE n == Len(q.list)
<1>1. /\ n \in DOMAIN q.list /\ Evict(q) = RemoveEntry(q, n)
      /\ DOMAIN q.list = 1..n
  BY EvictProperties, EntryProperties, Zenon
<1>2. Linked(RemoveEntry(q, n), accts, side, c, {KeyOf(q, n)})
  BY <1>1, RemoveLinked
<1> QED
  BY <1>1, <1>2

(* A new order is posted, and one that is evicted is closed.               *)
LEMMA PostEntry ==
  ASSUME NEW accts, NEW c, Consistent(book, accts, c), NEW side \in Sides,
         NEW c2 \in Nat \ {0}, c <= c2, NEW a \in Traders,
         NEW size \in Nat \ {0}, NEW price \in 1..HI_PRICE
  PROVE  Consistent(PostedBook(accts, a, side, size, price),
                    PostedAccounts(accts, c2, a, side, size, price), c2)
<1> DEFINE q == book[side]
           k == NextOrderAccessKey(accts[a], side)
           id == MarketOrderId(c2, NextNode(Evict(q)), price)
           order == [id |-> id, size |-> size]
           m == PlaceOrder(accts[a], side, size, price, id)
           placed == [accts EXCEPT ![a] = m]
           value == NewOrder(a, size, k)
           r == Insert(Evict(q), price, value)
           n == Len(q.list)
           W == IF IsFull(q) THEN {KeyOf(q, n)} ELSE {}
           u == q.list[n].value.user
           l == q.list[n].value.access
<1>1. /\ c \in Nat /\ AccountsOK(accts) /\ Linked(q, accts, side, c, {})
  BY DEF Consistent
<1>2. IsQueue(q, BookOrders) /\ IsAccount(accts[a])
  BY <1>1 DEF Linked, AccountsOK
<1> HIDE DEF q
<1>3. /\ IsQueue(Evict(q), BookOrders)
      /\ Evict(q).inactive # << >> \/ Evict(q).nNodes < NNodesMax
      /\ ~IsFull(q) => Evict(q) = q
  BY <1>2, EvictProperties
<1>4. NextNode(Evict(q)) \in Nat
  BY <1>3, NextNodeProperties, Zenon DEF IsQueue
<1>5. price \in Nat /\ price \in Int /\ size \in Int /\ c2 \in Nat
  BY UnitsAssumption
<1>6. /\ id \in MarketOrderIds /\ id # NilOrderId /\ id.counter = c2
      /\ id = MarketOrderId(id.counter, NextNode(Evict(q)), price)
  BY <1>4, <1>5 DEF MarketOrderIds, MarketOrderId, NilOrderId, NIL
<1> HIDE DEF id
<1>7. Opens(accts[a], m, side, k, order)
  BY <1>2, <1>5, <1>6, PlaceOrderProperties
<1>8. Linked(Evict(q), accts, side, c, W)
  BY <1>1, <1>2, <1>3, PlaceInFull
<1> HIDE DEF W, m, k
<1>9. AccountsOK(placed) /\ Linked(r, placed, side, c2, W)
  <2>1. id.counter \in 1..c2
    BY <1>6
  <2> QED
    BY <1>1, <1>3, <1>6, <1>7, <1>8, <2>1, OpenLinked, Zenon DEF NewOrder
<1>10. \A v \in Traders : OtherSideKept(accts[v], placed[v], side)
  BY <1>1, <1>7, KeptElsewhere DEF Opens
<1> HIDE DEF placed, r
<1>11. PostedBook(accts, a, side, size, price) = [book EXCEPT ![side] = r]
  BY DEF PostedBook, InsertCheckEviction, NewOrder, r, q, k
<1>12. CASE ~IsFull(q)
  <2>1. PostedAccounts(accts, c2, a, side, size, price) = placed
    BY <1>12, <1>1 DEF PostedAccounts, placed, m, id, q, AccountsOK
  <2>2. Linked(r, placed, side, c2, {})
    BY <1>9, <1>12 DEF W
  <2>3. Consistent([book EXCEPT ![side] = r], placed, c2)
    BY <1>5, <1>9, <1>10, <2>2, OneSide
  <2> QED
    BY <1>11, <2>1, <2>3
<1>13. CASE IsFull(q)
  <2> DEFINE closed == CancelOrder(placed[u], side, q.list[n].key, l)
             accts2 == [placed EXCEPT ![u] = closed]
  <2>1. W = {<<u, l>>}
    BY <1>13 DEF W, KeyOf
  <2>2. /\ n \in DOMAIN q.list /\ u \in Traders /\ q.list[n].key \in Int
        /\ Last(q.list) = q.list[n]
    <3>1. n \in DOMAIN q.list /\ Last(q.list) = q.list[n]
      BY <1>2, <1>13, EvictProperties, Zenon
    <3>2. /\ DOMAIN q.list = 1..n
          /\ \A i \in 1..n : q.list[i].value.user \in Traders /\ q.list[i].key \in Nat
      BY <1>2, EntryProperties
    <3> HIDE DEF n
    <3>3. u \in Traders /\ q.list[n].key \in Nat
      BY <3>1, <3>2
    <3> QED
      BY <3>1, <3>3
  <2>3. l \in ActiveKeys(placed[u], side)
    <3>1. /\ <<u, l>>[1] = u /\ <<u, l>>[2] = l
      OBVIOUS
    <3> QED
      BY <1>9, <2>1, <3>1 DEF Linked
  <2>4. IsAccount(placed[u])
    BY <1>9, <2>2 DEF AccountsOK
  <2>5. PostedAccounts(accts, c2, a, side, size, price) = accts2
    BY <1>13, <1>1, <2>2 DEF PostedAccounts, placed, m, id, q, AccountsOK
  <2> HIDE DEF u, l, n
  <2>6. Closes(placed[u], closed, side, l)
    BY <2>2, <2>3, <2>4, CancelOrderProperties
  <2> HIDE DEF closed
  <2>7. AccountsOK(accts2) /\ Linked(r, accts2, side, c2, {})
    BY <1>9, <2>1, <2>2, <2>6, CloseLinked, Zenon
  <2>8. \A v \in Traders : OtherSideKept(placed[v], accts2[v], side)
    BY <1>9, <2>6, KeptElsewhere DEF Closes
  <2>9. \A v \in Traders : OtherSideKept(accts[v], accts2[v], side)
    BY <1>10, <2>8 DEF OtherSideKept
  <2> HIDE DEF accts2
  <2>10. Consistent([book EXCEPT ![side] = r], accts2, c2)
    BY <1>5, <2>7, <2>9, OneSide
  <2> QED
    BY <1>11, <2>5, <2>10
<1> QED
  BY <1>12, <1>13

-----------------------------------------------------------------------------
(* Entries found by their node.                                            *)

(* A node in use finds its own entry.                                      *)
LEMMA NodeIndex ==
  ASSUME NEW q, IsQueue(q, BookOrders)
  PROVE  /\ \A i \in 1..Len(q.list) : IndexOf(q, q.list[i].node) = i
         /\ \A node : ContainsActiveListNode(q, node) =>
              /\ IndexOf(q, node) \in 1..Len(q.list)
              /\ q.list[IndexOf(q, node)].node = node
<1>1. DOMAIN q.list = 1..Len(q.list)
  BY EntryProperties
<1> DEFINE active == [i \in DOMAIN q.list |-> q.list[i].node]
<1>2. IsInjective(active)
  BY DEF IsQueue, PartitionsNodes
<1>3. \A i, j \in DOMAIN q.list : q.list[i].node = q.list[j].node => i = j
  BY <1>2, Zenon DEF IsInjective
<1>4. \A node : ContainsActiveListNode(q, node) =>
         \E i \in DOMAIN q.list : q.list[i].node = node
  BY DEF ContainsActiveListNode, Nodes
<1>5. \A node : (\E i \in DOMAIN q.list : q.list[i].node = node) =>
         /\ IndexOf(q, node) \in DOMAIN q.list
         /\ q.list[IndexOf(q, node)].node = node
  BY DEF IndexOf
<1>6. ASSUME NEW i \in 1..Len(q.list)
      PROVE  IndexOf(q, q.list[i].node) = i
  BY <1>1, <1>3, <1>5
<1> QED
  BY <1>1, <1>4, <1>5, <1>6

(* What an entry of a consistent book says of its account.                 *)
EntryFacts(q, i, accts, side, c) ==
  LET e == q.list[i]
      m == accts[e.value.user]
      k == e.value.access
      order == m.orders[side][k]
  IN /\ e.value.user \in Traders
     /\ e.value = NewOrder(e.value.user, e.value.size, k)
     /\ e.key \in 1..HI_PRICE /\ e.key \in Nat
     /\ e.value.size \in Nat \ {0}
     /\ KeyOf(q, i) = <<e.value.user, k>>
     /\ IsAccount(m) /\ m \in Accounts
     /\ k \in ActiveKeys(m, side)
     /\ order.size = e.value.size
     /\ order.id \in MarketOrderIds /\ order.id # NilOrderId
     /\ order.id.node = e.node /\ order.id.price = e.key
     /\ order.id.counter \in 1..c
     /\ order.id = MarketOrderId(order.id.counter, e.node, e.key)
     /\ IndexOf(q, e.node) = i
     /\ IndexOf(q, order.id.node) = i

(* The account of an entry holds its order.                                *)
LEMMA EntryInAccount ==
  ASSUME NEW b, NEW accts, NEW c, Consistent(b, accts, c), NEW side \in Sides,
         NEW i \in 1..Len(b[side].list)
  PROVE  EntryFacts(b[side], i, accts, side, c)
<1> DEFINE q == b[side]
           e == q.list[i]
           v == e.value.user
           m == accts[v]
           k == e.value.access
           order == m.orders[side][k]
<1>1. /\ AccountsOK(accts) /\ IsQueue(q, BookOrders) /\ EntriesOK(q)
      /\ OrdersInAccounts(q, accts, side, c)
  BY DEF Consistent, Linked
<1>2. /\ DOMAIN q.list = 1..Len(q.list)
      /\ e.value \in BookOrders /\ v \in Traders /\ e.key \in Nat
      /\ e.value.size \in Nat
  BY <1>1, EntryProperties
<1>3. e.key \in 1..HI_PRICE /\ e.value.size \in Nat \ {0}
  BY <1>1, <1>2 DEF EntriesOK
<1>4. OrderInAccount(e, accts, side, c)
  BY <1>1, <1>2 DEF OrdersInAccounts
<1>5. IsAccount(m) /\ m \in Accounts
  BY <1>1, <1>2 DEF AccountsOK, IsAccount
<1>6. IndexOf(q, e.node) = i
  BY <1>1, NodeIndex
<1>7. e.value = NewOrder(v, e.value.size, k)
  BY <1>2 DEF BookOrders, NewOrder
<1>8. KeyOf(q, i) = <<v, k>>
  BY DEF KeyOf
<1>9. /\ k \in ActiveKeys(m, side) /\ order.size = e.value.size
      /\ order.id = MarketOrderId(order.id.counter, e.node, e.key)
      /\ order.id.counter \in 1..c
  BY <1>4, Zenon DEF OrderInAccount
<1>10. order.id.node = e.node /\ order.id.price = e.key
  <2>1. PICK x : order.id = MarketOrderId(x, e.node, e.key)
    BY <1>9, Zenon
  <2> HIDE DEF order, e
  <2> QED
    BY <2>1 DEF MarketOrderId
<1>11. order.id \in MarketOrderIds /\ order.id # NilOrderId
  BY <1>5, <1>9, AccountParts, Zenon DEF ActiveKeys
<1> HIDE DEF q
<1> QED
  BY <1>2, <1>3, <1>5, <1>6, <1>7, <1>8, <1>9, <1>10, <1>11, Zenon DEF q,
     EntryFacts

(* An order that its owner names.                                          *)
LEMMA OwnedEntry ==
  ASSUME NEW c, Consistent(book, acct, c), NEW a, NEW side \in Sides, NEW id,
         ContainsActiveListNode(book[side], id.node),
         EntryOf(side, id).value.user = a
  PROVE  LET i == IndexOf(book[side], id.node)
         IN i \in 1..Len(book[side].list) /\ EntryOf(side, id) = book[side].list[i]
<1>1. IsQueue(book[side], BookOrders)
  BY DEF Consistent, Linked
<1> QED
  BY <1>1, NodeIndex DEF EntryOf

(* Cancelling keeps book and accounts in step.                             *)
LEMMA CancelConsistent ==
  ASSUME NEW c, Consistent(book, acct, c), NEW a, NEW side \in Sides, NEW id,
         Owns(a, side, id), CancelEffect(a, side, id)
  PROVE  Consistent(book', acct', c)
<1> DEFINE i == IndexOf(book[side], id.node)
           e == book[side].list[i]
           k == e.value.access
           m == CancelOrder(acct[a], side, e.key, k)
<1>1. i \in 1..Len(book[side].list) /\ EntryOf(side, id) = e /\ e.value.user = a
  BY OwnedEntry, Zenon DEF Owns
<1>2. /\ book \in Books /\ acct \in [Traders -> Accounts]
  BY DEF Consistent, AccountsOK
<1> HIDE DEF i
<1>3. /\ KeyOf(book[side], i) = <<a, k>> /\ IsAccount(acct[a])
      /\ k \in ActiveKeys(acct[a], side) /\ e.key \in Nat
  <2>1. /\ KeyOf(book[side], i) = <<e.value.user, k>>
        /\ IsAccount(acct[e.value.user])
        /\ k \in ActiveKeys(acct[e.value.user], side) /\ e.key \in Nat
    <3>1. EntryFacts(book[side], i, acct, side, c)
      BY <1>1, EntryInAccount
    <3> QED
      BY <3>1, Zenon DEF EntryFacts
  <2> HIDE DEF e
  <2> QED
    BY <1>1, <2>1
<1>4. Closes(acct[a], m, side, k)
  BY <1>3, CancelOrderProperties
<1>5. /\ book' = [book EXCEPT ![side] = RemoveEntry(book[side], i)]
      /\ acct' = [acct EXCEPT ![a] = m]
  BY <1>1, <1>2 DEF CancelEffect, RemoveFromBook, i
<1> HIDE DEF e, m
<1> QED
  BY <1>1, <1>3, <1>4, <1>5, CloseEntry, Zenon

-----------------------------------------------------------------------------
(* The inductive invariant.                                                *)

IsMatch(t) == t.status \in {"matching", "settling"}

(* The local variables of a transaction.                                   *)
TxOK(t, c) ==
  /\ t \in TxTypes
  /\ IsMatch(t) => /\ c > 0
                   /\ t.kind \in {"limit", "market", "swap"}
                   /\ t.kind # "swap" => t.taker \in Traders
  /\ t.status = "cancelling" => t.taker \in Traders

(* The state a transaction began in was consistent as well.                *)
SavedOK(t, s) ==
  IF t.status = "idle" THEN s = NoState
  ELSE s \in States /\ Consistent(s.book, s.acct, s.counter)

IInv ==
  /\ Consistent(book, acct, counter)
  /\ fees \in Int
  /\ net \in [Assets -> Int]
  /\ TxOK(tx, counter)
  /\ SavedOK(tx, saved)

(* Types of a consistent market.                                           *)
LEMMA ConsistentTypes ==
  ASSUME NEW b, NEW accts, NEW c, Consistent(b, accts, c)
  PROVE  b \in Books /\ accts \in [Traders -> Accounts] /\ c \in Nat
BY DEF Consistent, AccountsOK

(* The absence of a snapshot is no snapshot.                               *)
LEMMA NoStateIsNone ==
  NoState \notin States
<1> SUFFICES ASSUME NoState \in States PROVE FALSE
  OBVIOUS
<1>1. NoState.book \in Books
  BY DEF States
<1>2. DOMAIN NoState.book = Sides
  BY <1>1 DEF Books
<1>3. NoState.book = << >>
  BY DEF NoState
<1>4. "ask" \in Sides /\ DOMAIN << >> = {}
  BY EmptySeq DEF Sides
<1> QED
  BY <1>2, <1>3, <1>4

(* The inductive invariant types every variable.                           *)
LEMMA IInvTypes ==
  IInv => TypeOK
<1> SUFFICES ASSUME IInv PROVE TypeOK
  OBVIOUS
<1>1. /\ book \in Books /\ acct \in [Traders -> Accounts] /\ counter \in Nat
  BY ConsistentTypes DEF IInv
<1>2. saved \in States \cup {NoState} /\ (Idle <=> saved = NoState)
  BY NoStateIsNone DEF IInv, SavedOK, Idle
<1> QED
  BY <1>1, <1>2 DEF IInv, TxOK, TypeOK

(* What a consistent market has.                                           *)
LEMMA IInvSafety ==
  IInv => /\ BookMatchesAccounts /\ Sorted /\ NodesPartitioned
          /\ InactiveKeysChained /\ NoEmptyOrders
<1> SUFFICES ASSUME IInv
             PROVE  /\ BookMatchesAccounts /\ Sorted /\ NodesPartitioned
                    /\ InactiveKeysChained /\ NoEmptyOrders
  OBVIOUS
<1>1. /\ AccountsOK(acct)
      /\ \A side \in Sides : Linked(book[side], acct, side, counter, {})
  BY DEF IInv, Consistent
<1>2. BookMatchesAccounts
  BY <1>1 DEF BookMatchesAccounts, Linked, ActiveKeysInBook
<1>3. Sorted /\ NodesPartitioned
  BY <1>1 DEF Sorted, NodesPartitioned, Linked, IsQueue
<1>4. InactiveKeysChained
  BY <1>1 DEF InactiveKeysChained, AccountsOK, IsAccount
<1>5. NoEmptyOrders
  BY <1>1 DEF NoEmptyOrders, Linked, EntriesOK
<1> QED
  BY <1>2, <1>3, <1>4, <1>5

-----------------------------------------------------------------------------
(* The initial state.                                                      *)

(* A new queue is sorted and has no nodes.                                 *)
LEMMA EmptyQueue ==
  ASSUME NEW ascending \in BOOLEAN
  PROVE  IsQueue(New(ascending), BookOrders) /\ DOMAIN New(ascending).list = {}
<1> DEFINE q == New(ascending)
<1>1. /\ q.ascending = ascending /\ q.list = << >> /\ q.nNodes = 0
      /\ q.inactive = << >> /\ DOMAIN q.list = {}
  BY EmptySeq DEF New
<1>2. q \in Queues(BookOrders)
  <2>1. << >> \in Seq(Entries(BookOrders)) /\ << >> \in Seq(Nat)
    BY EmptySeq
  <2> QED
    BY <2>1 DEF New, Queues
<1> HIDE DEF q
<1>3. SortedByKey(q)
  BY <1>1 DEF SortedByKey
<1>4. PartitionsNodes(q)
  <2>1. Nodes(q) = {}
    BY <1>1 DEF Nodes
  <2>2. ToSet(q.inactive) = {}
    BY <1>1 DEF ToSet
  <2>3. 1..q.nNodes = {} /\ q.nNodes <= NNodesMax
    BY <1>1, NNodesMaxAssumption
  <2>4. IsInjective(q.inactive)
    BY <1>1 DEF IsInjective
  <2>5. IsInjective([i \in DOMAIN q.list |-> q.list[i].node])
    BY <1>1 DEF IsInjective
  <2> QED
    BY <2>1, <2>2, <2>3, <2>4, <2>5 DEF PartitionsNodes
<1> QED
  BY <1>1, <1>2, <1>3, <1>4 DEF IsQueue, q

(* The accounts that each trader first deposits to.                        *)
LEMMA InitialAccounts ==
  LET m == Deposit(Deposit(EmptyAccount, "base", Endowment["base"]),
                   "quote", Endowment["quote"])
  IN IsAccount(m) /\ \A side \in Sides : ActiveKeys(m, side) = {}
<1> DEFINE m1 == Deposit(EmptyAccount, "base", Endowment["base"])
           m2 == Deposit(m1, "quote", Endowment["quote"])
<1>1. /\ Endowment["base"] \in Int /\ Endowment["quote"] \in Int
      /\ "base" \in Assets /\ "quote" \in Assets
  BY MarketAssumption, UnitsAssumption DEF Assets
<1>2. SameOrders(EmptyAccount, m1)
  BY <1>1, EmptyAccountProperties, DepositProperties
<1> HIDE DEF m1
<1>3. SameOrders(m1, m2)
  BY <1>1, <1>2, DepositProperties DEF SameOrders
<1> HIDE DEF m2
<1>4. IsAccount(m2) /\ m2.orders = EmptyAccount.orders
  BY <1>2, <1>3 DEF SameOrders
<1>5. \A side \in Sides : ActiveKeys(m2, side) = {}
  BY <1>4, EmptyAccountProperties DEF ActiveKeys
<1> QED
  BY <1>4, <1>5 DEF m1, m2

(* No transaction is under way.                                            *)
LEMMA NoTxType ==
  NoTx \in TxTypes /\ NoTx.status = "idle"
<1>1. NoCoins \in [Assets -> Nat] /\ NoCoins \in [Assets -> Int]
  BY DEF NoCoins
<1>2. [min |-> NoCoins, max |-> NoCoins] \in Bounds
  BY <1>1 DEF Bounds
<1>3. /\ "ask" \in Sides /\ "none" \in AllRestrictions
      /\ "abort" \in AllBehaviors
  BY DEF Sides, AllRestrictions, AllBehaviors
<1> QED
  BY <1>1, <1>2, <1>3 DEF NoTx, TxTypes

(* The invariant holds of a new market.                                    *)
LEMMA InitIInv ==
  Init => IInv
<1> SUFFICES ASSUME Init PROVE IInv
  OBVIOUS
<1>1. /\ book = [side \in Sides |-> New(side = "ask")]
      /\ counter = 0 /\ fees = 0 /\ tx = NoTx /\ saved = NoState
      /\ net = [x \in Assets |-> Cardinality(Traders) * Endowment[x]]
  BY DEF Init
<1>2. net \in [Assets -> Int]
  <2>1. Cardinality(Traders) \in Int /\ \A x \in Assets : Endowment[x] \in Int
    BY MarketAssumption, UnitsAssumption, FS_CardinalityType
  <2>2. \A x \in Assets : Cardinality(Traders) * Endowment[x] \in Int
    BY <2>1
  <2> QED
    BY <1>1, <2>2
<1>3. \A a \in Traders : IsAccount(acct[a])
         /\ \A side \in Sides : ActiveKeys(acct[a], side) = {}
  BY InitialAccounts DEF Init
<1>4. AccountsOK(acct)
  <2>1. \A a \in Traders : acct[a] \in Accounts
    BY <1>3 DEF IsAccount
  <2>2. acct = [a \in Traders |-> acct[a]]
    BY DEF Init
  <2> QED
    BY <1>3, <2>1, <2>2 DEF AccountsOK
<1>5. \A side \in Sides :
        IsQueue(book[side], BookOrders) /\ DOMAIN book[side].list = {}
  BY <1>1, EmptyQueue, Zenon
<1>6. book \in Books
  BY <1>1, <1>5 DEF Books, IsQueue
<1>7. \A side \in Sides : Linked(book[side], acct, side, counter, {})
  BY <1>3, <1>5 DEF Linked, EntriesOK, OrdersInAccounts, KeysDistinct
<1>8. Consistent(book, acct, counter)
  BY <1>1, <1>4, <1>6, <1>7 DEF Consistent
<1>9. TxOK(tx, counter) /\ SavedOK(tx, saved)
  BY <1>1, NoTxType DEF TxOK, SavedOK, IsMatch
<1> QED
  BY <1>1, <1>2, <1>8, <1>9 DEF IInv

-----------------------------------------------------------------------------
(* Transactions of a single step.                                          *)

(* A transaction of one step has to keep the market consistent.            *)
LEMMA SingleStep ==
  ASSUME IInv, Idle, Consistent(book', acct', counter'), net' \in [Assets -> Int],
         fees' = fees, tx' = tx, saved' = saved
  PROVE  IInv'
<1>1. TxOK(tx', counter')
  BY DEF IInv, TxOK, Idle, IsMatch
<1>2. SavedOK(tx', saved')
  BY DEF IInv, SavedOK
<1> QED
  BY <1>1, <1>2 DEF IInv

(* A deposit.                                                              *)
LEMMA DepositAssetIInv ==
  ASSUME IInv, NEW a \in Traders, NEW x \in Assets, NEW amount \in Amounts,
         DepositAsset(a, x, amount)
  PROVE  IInv'
<1> DEFINE m == Deposit(acct[a], x, amount)
<1>1. /\ Consistent(book, acct, counter) /\ IsAccount(acct[a])
      /\ counter \in Nat /\ amount \in Int /\ acct \in [Traders -> Accounts]
  BY InputAssumption DEF IInv, Consistent, AccountsOK
<1>2. SameOrders(acct[a], m)
  BY <1>1, DepositProperties
<1>3. acct' = [acct EXCEPT ![a] = m] /\ book' = book /\ counter' = counter
  BY <1>1 DEF DepositAsset
<1> HIDE DEF m
<1>4. Consistent(book', acct', counter')
  <2>1. counter <= counter
    BY <1>1
  <2>2. Consistent(book, [acct EXCEPT ![a] = m], counter)
    BY <1>1, <1>2, <2>1, NoSide, Zenon
  <2> QED
    BY <1>3, <2>2
<1>5. net' \in [Assets -> Int]
  <2>1. net \in [Assets -> Int] /\ net[x] + amount \in Int
    BY <1>1 DEF IInv
  <2> QED
    BY <2>1 DEF DepositAsset
<1> QED
  BY <1>4, <1>5, SingleStep DEF DepositAsset

(* A withdrawal.                                                           *)
LEMMA WithdrawAssetIInv ==
  ASSUME IInv, NEW a \in Traders, NEW x \in Assets, NEW amount \in Amounts,
         WithdrawAsset(a, x, amount)
  PROVE  IInv'
<1> DEFINE m == Withdraw(acct[a], x, amount)
<1>1. /\ Consistent(book, acct, counter) /\ IsAccount(acct[a])
      /\ counter \in Nat /\ amount \in Int /\ acct \in [Traders -> Accounts]
  BY InputAssumption DEF IInv, Consistent, AccountsOK
<1>2. SameOrders(acct[a], m)
  BY <1>1, WithdrawProperties
<1>3. acct' = [acct EXCEPT ![a] = m] /\ book' = book /\ counter' = counter
  BY <1>1 DEF WithdrawAsset
<1> HIDE DEF m
<1>4. Consistent(book', acct', counter')
  <2>1. counter <= counter
    BY <1>1
  <2>2. Consistent(book, [acct EXCEPT ![a] = m], counter)
    BY <1>1, <1>2, <2>1, NoSide, Zenon
  <2> QED
    BY <1>3, <2>2
<1>5. net' \in [Assets -> Int]
  <2>1. net \in [Assets -> Int] /\ net[x] - amount \in Int
    BY <1>1 DEF IInv
  <2> QED
    BY <2>1 DEF WithdrawAsset
<1> QED
  BY <1>4, <1>5, SingleStep DEF WithdrawAsset

(* A limit order that does not cross the spread, posted or not.            *)
LEMMA InSpreadIInv ==
  ASSUME IInv, NEW a \in Traders, NEW side \in Sides, NEW size \in Nat,
         NEW price, NEW restriction,
         PlaceLimitOrderInSpread(a, side, size, price, restriction)
  PROVE  IInv'
<1>1. /\ Consistent(book, acct, counter) /\ counter \in Nat
      /\ counter' = counter + 1 /\ net' = net
      /\ Idle /\ fees' = fees /\ tx' = tx /\ saved' = saved
  BY ConsistentTypes DEF IInv, PlaceLimitOrderInSpread, NextCounter
<1>2. counter' \in Nat \ {0} /\ counter' \in Nat /\ counter <= counter'
  BY <1>1
<1>3. size \in Nat \ {0} /\ price \in 1..HI_PRICE
  BY MarketAssumption DEF PlaceLimitOrderInSpread, CheckLimitOrder
<1>4. CASE book' = book /\ acct' = acct
  <2>1. Consistent(book, acct, counter')
    BY <1>1, <1>2, LaterCounter
  <2> QED
    BY <1>1, <1>4, <2>1, SingleStep DEF IInv
<1>5. CASE /\ book' = PostedBook(acct, a, side, size, price)
           /\ acct' = PostedAccounts(acct, counter', a, side, size, price)
  <2> DEFINE c2 == counter'
  <2>1. Consistent(PostedBook(acct, a, side, size, price),
                   PostedAccounts(acct, c2, a, side, size, price), c2)
    <3> HIDE DEF c2
    <3> QED
      BY <1>1, <1>2, <1>3, PostEntry DEF c2
  <2>2. Consistent(book', acct', counter')
    BY <1>5, <2>1
  <2> QED
    BY <1>1, <2>2, SingleStep DEF IInv
<1> QED
  BY <1>4, <1>5 DEF PlaceLimitOrderInSpread

(* A cancel.                                                               *)
LEMMA ManualCancelIInv ==
  ASSUME IInv, NEW a, NEW side \in Sides, NEW id, ManualCancel(a, side, id)
  PROVE  IInv'
<1>1. Consistent(book, acct, counter) /\ counter' = counter
  BY DEF IInv, ManualCancel
<1>2. Consistent(book', acct', counter')
  BY <1>1, CancelConsistent DEF ManualCancel
<1> QED
  BY <1>2, SingleStep DEF ManualCancel, IInv

-----------------------------------------------------------------------------
(* Size changes.  An order that moves to the back of its price level finds *)
(* its list node and its access key on top of their stacks.                *)

(* The node of an entry just removed is the next to be used.               *)
LEMMA FreedNode ==
  ASSUME NEW q, IsQueue(q, BookOrders), NEW i \in 1..Len(q.list)
  PROVE  NextNode(RemoveEntry(q, i)) = q.list[i].node
<1> DEFINE s == q.inactive
           x == q.list[i].node
           t == Append(s, x)
<1>1. q.inactive \in Seq(Nat) /\ q \in Queues(BookOrders)
  BY DEF IsQueue, Queues
<1>2. x \in Nat
  BY EntryProperties
<1>3. RemoveEntry(q, i).inactive = t
  BY <1>1 DEF RemoveEntry, Queues
<1>4. s \in Seq(Nat)
  BY <1>1
<1> HIDE DEF s, x
<1>5. t # << >> /\ Len(t) = Len(s) + 1 /\ t[Len(s) + 1] = x
  BY <1>2, <1>4, AppendProperties
<1>6. Last(t) = x
  BY <1>5 DEF Last
<1> HIDE DEF t
<1>7. NextNode(RemoveEntry(q, i)) = x
  BY <1>3, <1>5, <1>6 DEF NextNode
<1> QED
  BY <1>7 DEF x

(* change_order_size_internal closes an order and opens it again.          *)
LEMMA ChangeOrderSizeProperties ==
  ASSUME NEW m, IsAccount(m), NEW side \in Sides, NEW key \in ActiveKeys(m, side),
         NEW newSize \in Nat, NEW price \in Nat, NEW id,
         m.orders[side][key].id = id
  PROVE  LET c == CancelOrder(m, side, price, key)
             r == ChangeOrderSize(m, side, newSize, price, key, id)
         IN /\ Closes(m, c, side, key)
            /\ Opens(c, r, side, key, [id |-> id, size |-> newSize])
            /\ Resizes(m, r, side, key, newSize)
<1> DEFINE c == CancelOrder(m, side, price, key)
           r == ChangeOrderSize(m, side, newSize, price, key, id)
           order == [id |-> id, size |-> newSize]
<1>1. id \in MarketOrderIds /\ id # NilOrderId
  BY AccountParts DEF IsAccount, ActiveKeys
<1>2. Closes(m, c, side, key)
  BY CancelOrderProperties
<1>3. NextOrderAccessKey(c, side) = key
  BY CancelOrderFreesKey
<1>4. r = PlaceOrder(c, side, newSize, price, id)
  BY DEF ChangeOrderSize
<1>5. IsAccount(c)
  BY <1>2 DEF Closes
<1> HIDE DEF c, r
<1>6. Opens(c, r, side, key, order)
  <2>1. Opens(c, PlaceOrder(c, side, newSize, price, id), side,
              NextOrderAccessKey(c, side), [id |-> id, size |-> newSize])
    BY <1>1, <1>5, PlaceOrderProperties
  <2> QED
    BY <1>3, <1>4, <2>1
<1>7. order.id = id /\ order.size = newSize
  OBVIOUS
<1> HIDE DEF order
<1>8. /\ ActiveKeys(c, side) = ActiveKeys(m, side) \ {key}
      /\ ActiveKeys(r, side) = ActiveKeys(c, side) \cup {key}
      /\ r.orders[side][key] = order
      /\ \A k \in ActiveKeys(c, side) : c.orders[side][k] = m.orders[side][k]
      /\ \A k \in ActiveKeys(c, side) : r.orders[side][k] = c.orders[side][k]
  BY <1>2, <1>6 DEF Closes, Opens
<1>9. IsAccount(r) /\ OtherSideKept(m, r, side)
  BY <1>2, <1>6 DEF Closes, Opens, OtherSideKept
<1>10. ActiveKeys(r, side) = ActiveKeys(m, side)
  BY <1>8
<1>11. Resizes(m, r, side, key, newSize)
  BY <1>7, <1>8, <1>9, <1>10 DEF Resizes
<1> QED
  BY <1>2, <1>6, <1>11 DEF c, r, order

(* The counter is a number.                                                *)
LEMMA ConsistentCounter ==
  ASSUME NEW b, NEW accts, NEW c, Consistent(b, accts, c)
  PROVE  c <= c
<1>1. c \in Nat
  BY DEF Consistent
<1> QED
  BY <1>1

(* An entry moves to the back of its price level, with another size.       *)
LEMMA MoveEntry ==
  ASSUME NEW b, NEW accts, NEW c, Consistent(b, accts, c), NEW side \in Sides,
         NEW i \in 1..Len(b[side].list), NEW a, a = b[side].list[i].value.user,
         NEW newSize \in Nat \ {0}, NEW m1, NEW m2,
         Closes(accts[a], m1, side, b[side].list[i].value.access),
         Opens(m1, m2, side, b[side].list[i].value.access,
               [id |-> accts[a].orders[side][b[side].list[i].value.access].id,
                size |-> newSize])
  PROVE  LET e == b[side].list[i]
             value == NewOrder(a, newSize, e.value.access)
         IN Consistent([b EXCEPT ![side] =
                          Insert(RemoveEntry(@, i), e.key, value)],
                       [accts EXCEPT ![a] = m2], c)
<1>0. /\ b \in Books /\ accts \in [Traders -> Accounts] /\ c \in Nat /\ c <= c
      /\ IsQueue(b[side], BookOrders)
  <2>1. b \in Books /\ accts \in [Traders -> Accounts] /\ c \in Nat
    BY ConsistentTypes, Zenon
  <2>2. IsQueue(b[side], BookOrders)
    BY Zenon DEF Consistent, Linked
  <2>4. c <= c
    BY ConsistentCounter, Zenon
  <2> QED
    BY <2>1, <2>2, <2>4, Zenon
<1> DEFINE q == b[side]
           e == q.list[i]
           k == e.value.access
           id == accts[a].orders[side][k].id
           value == NewOrder(a, newSize, k)
           q1 == RemoveEntry(q, i)
           b1 == [b EXCEPT ![side] = q1]
           accts1 == [accts EXCEPT ![a] = m1]
           q2 == Insert(q1, e.key, value)
           accts2 == [accts1 EXCEPT ![a] = m2]
<1>1. EntryFacts(q, i, accts, side, c)
  BY EntryInAccount, Zenon
<1>2. /\ a \in Traders /\ e.key \in 1..HI_PRICE /\ KeyOf(q, i) = <<a, k>>
      /\ id.node = e.node /\ id.price = e.key /\ id.counter \in 1..c
      /\ id = MarketOrderId(id.counter, e.node, e.key)
  BY <1>1, Zenon DEF EntryFacts
<1>3. /\ b \in Books /\ accts \in [Traders -> Accounts] /\ c \in Nat
      /\ IsQueue(q, BookOrders)
  BY <1>0, Zenon
<1>4. /\ IsQueue(q1, BookOrders) /\ q1.inactive # << >>
  BY <1>3, RemoveProperties, Zenon
<1>5. NextNode(q1) = e.node
  BY <1>3, FreedNode, Zenon
<1>6. Closes(accts[a], m1, side, k)
  BY Zenon
<1>7. Opens(m1, m2, side, k, [id |-> id, size |-> newSize])
  BY Zenon
<1>8. Consistent(b1, accts1, c)
  <2> HIDE DEF k
  <2>1. Consistent([b EXCEPT ![side] = RemoveEntry(b[side], i)],
                   [accts EXCEPT ![a] = m1], c)
    BY <1>2, <1>6, CloseEntry, Zenon
  <2> QED
    BY <2>1, Zenon
<1> HIDE DEF q1, id, k, e, q
<1>9. b1[side] = q1 /\ accts1[a] = m1
  BY <1>2, <1>3, Zenon DEF Books
<1> HIDE DEF b1, accts1
<1>10. AccountsOK(accts1) /\ Linked(q1, accts1, side, c, {})
  BY <1>8, <1>9, Zenon DEF Consistent
<1>11. AccountsOK(accts2) /\ Linked(q2, accts2, side, c, {})
  <2>1. id = MarketOrderId(id.counter, NextNode(q1), e.key)
    BY <1>2, <1>5, Zenon
  <2>2. Opens(accts1[a], m2, side, k, [id |-> id, size |-> newSize])
    BY <1>7, <1>9, Zenon
  <2>3. c <= c
    BY <1>0, Zenon
  <2> HIDE DEF q2, accts2, value
  <2>4. LET r == [accts1 EXCEPT ![a] = m2]
            v == [user |-> a, size |-> newSize, access |-> k]
        IN AccountsOK(r) /\ Linked(Insert(q1, e.key, v), r, side, c, {})
    BY <1>2, <1>3, <1>4, <1>10, <2>1, <2>2, <2>3, OpenLinked, Zenon
  <2> QED
    BY <2>4, Zenon DEF q2, accts2, value, NewOrder
<1>12. OtherSideKept(accts1[a], m2, side)
  BY <1>7, <1>9, Zenon DEF Opens
<1>13. \A v \in Traders : OtherSideKept(accts1[v], accts2[v], side)
  BY <1>10, <1>12, KeptElsewhere, Zenon
<1> HIDE DEF q2, accts2
<1>14. Consistent([b1 EXCEPT ![side] = q2], accts2, c)
  <2>1. c <= c
    BY <1>0, Zenon
  <2> QED
    BY <1>3, <1>8, <1>11, <1>13, <2>1, OneSide, Zenon
<1>15. [b1 EXCEPT ![side] = q2] = [b EXCEPT ![side] = q2]
  BY <1>3, Zenon DEF b1, Books
<1>16. accts2 = [accts EXCEPT ![a] = m2]
  BY <1>3, Zenon DEF accts1, accts2
<1>17. q2 = Insert(RemoveEntry(b[side], i), e.key, value)
  BY Zenon DEF q2, q1, q
<1> QED
  BY <1>14, <1>15, <1>16, <1>17, Zenon DEF e, k, q

(* A size change, in place or not.                                         *)
LEMMA ChangeSizeIInv ==
  ASSUME IInv, NEW a, NEW side \in Sides, NEW newSize \in NewSizes, NEW id,
         ChangeSize(a, side, id, newSize)
  PROVE  IInv'
<1> DEFINE q == book[side]
           i == IndexOf(q, id.node)
           e == q.list[i]
           k == e.value.access
           m1 == CancelOrder(acct[a], side, e.key, k)
           m2 == ChangeOrderSize(acct[a], side, newSize, e.key, k, id)
           value == NewOrder(a, newSize, k)
<1>1. Consistent(book, acct, counter) /\ counter' = counter
  BY DEF IInv, ChangeSize
<1>2. i \in 1..Len(q.list) /\ EntryOf(side, id) = e /\ e.value.user = a
  BY <1>1, OwnedEntry DEF ChangeSize
<1>3. newSize \in Nat \ {0}
  BY InputAssumption, MarketAssumption DEF ChangeSize
<1>4. acct[a].orders[side][k].id = id
  BY <1>2, Zenon DEF ChangeSize, CanChangeOrderSize, CanCancelOrder
<1> HIDE DEF i
<1>5. EntryFacts(q, i, acct, side, counter)
  BY <1>1, <1>2, EntryInAccount, SMTT(30)
<1>6. /\ KeyOf(q, i) = <<a, k>> /\ e.key \in Nat /\ IsAccount(acct[a])
      /\ k \in ActiveKeys(acct[a], side)
      /\ e.value = NewOrder(a, e.value.size, k) /\ id.price = e.key
  BY <1>2, <1>4, <1>5 DEF EntryFacts
<1>7. /\ Closes(acct[a], m1, side, k)
      /\ Opens(m1, m2, side, k, [id |-> id, size |-> newSize])
      /\ Resizes(acct[a], m2, side, k, newSize)
  BY <1>3, <1>4, <1>6, ChangeOrderSizeProperties
<1> HIDE DEF m1, m2, k
<1>8. book \in Books /\ acct \in [Traders -> Accounts]
  BY <1>1, ConsistentTypes
<1>9. /\ acct' = [acct EXCEPT ![a] = m2]
      /\ book' = [book EXCEPT ![side] = ResizedBook(q, id, newSize)]
  BY <1>2, <1>8 DEF ChangeSize, m2, k
<1>10. [e.value EXCEPT !.size = newSize] = value
  BY <1>6 DEF NewOrder
<1>11. CASE KeepsPlace(q, i, newSize)
  <2>1. ResizedBook(q, id, newSize) = ResizeAt(q, i, newSize)
    BY <1>11 DEF ResizedBook, ResizeAt, i
  <2>2. Consistent([book EXCEPT ![side] = ResizeAt(book[side], i, newSize)],
                   [acct EXCEPT ![a] = m2], counter)
    BY <1>1, <1>2, <1>3, <1>6, <1>7, ResizeEntry, Zenon
  <2>3. Consistent(book', acct', counter')
    BY <1>1, <1>9, <2>1, <2>2
  <2> QED
    BY <2>3, SingleStep DEF ChangeSize, IInv
<1>12. CASE ~KeepsPlace(q, i, newSize)
  <2>1. ResizedBook(q, id, newSize) = Insert(RemoveEntry(q, i), e.key, value)
    BY <1>6, <1>10, <1>12 DEF ResizedBook, i
  <2>2. Consistent([book EXCEPT ![side] = Insert(RemoveEntry(@, i), e.key, value)],
                   [acct EXCEPT ![a] = m2], counter)
    <3>1. Closes(acct[a], m1, side, book[side].list[i].value.access)
      BY <1>7, SMTT(30) DEF k
    <3>2. Opens(m1, m2, side, book[side].list[i].value.access,
                [id |-> acct[a].orders[side][book[side].list[i].value.access].id,
                 size |-> newSize])
      BY <1>4, <1>7 DEF k
    <3>3. a = book[side].list[i].value.user /\ i \in 1..Len(book[side].list)
      BY <1>2
    <3>4. LET f == book[side].list[i]
              v == NewOrder(a, newSize, f.value.access)
          IN Consistent([book EXCEPT ![side] =
                           Insert(RemoveEntry(@, i), f.key, v)],
                        [acct EXCEPT ![a] = m2], counter)
      BY <1>1, <1>3, <3>1, <3>2, <3>3, MoveEntry, Zenon
    <3> QED
      BY <3>4 DEF k
  <2>3. Consistent(book', acct', counter')
    BY <1>1, <1>9, <2>1, <2>2
  <2> QED
    BY <2>3, SingleStep DEF ChangeSize, IInv
<1> QED
  BY <1>11, <1>12

-----------------------------------------------------------------------------
(* The beginnings of transactions of several steps.                        *)

(* The first step of a transaction of several steps.                       *)
LEMMA BeginStep ==
  ASSUME IInv, Consistent(book', acct', counter'), net' \in [Assets -> Int],
         fees' = fees, TxOK(tx', counter'), tx'.status # "idle", saved' = State
  PROVE  IInv'
<1>1. State \in States
  BY ConsistentTypes DEF IInv, State, States
<1>2. Consistent(State.book, State.acct, State.counter)
  BY DEF IInv, State
<1>3. SavedOK(tx', saved')
  BY <1>1, <1>2 DEF SavedOK
<1> QED
  BY <1>3 DEF IInv

(* A cancel of all orders begins.                                          *)
LEMMA CancelAllOrdersIInv ==
  ASSUME IInv, NEW a \in Traders, NEW side \in Sides, CancelAllOrders(a, side)
  PROVE  IInv'
<1> DEFINE ids == ActiveMarketOrderIds(acct[a], side)
<1>1. Consistent(book, acct, counter) /\ acct \in [Traders -> Accounts]
  BY ConsistentTypes DEF IInv
<1>2. ids \in SUBSET (Nat \X MarketOrderIds)
  <2>1. acct[a] \in Accounts
    BY <1>1
  <2> QED
    BY <2>1, ActiveMarketOrderIdsType
<1> HIDE DEF ids
<1>3. tx' = [NoTx EXCEPT !.status = "cancelling", !.kind = "cancelAll",
                         !.taker = a, !.side = side, !.ids = ids]
  BY DEF CancelAllOrders, ids
<1>4. NoTx \in TxTypes
  BY NoTxType
<1>5. tx' \in TxTypes /\ tx'.status = "cancelling" /\ tx'.taker = a
  BY <1>2, <1>3, <1>4, Zenon DEF TxTypes
<1>6. TxOK(tx', counter')
  BY <1>5 DEF TxOK, IsMatch
<1>7. Consistent(book', acct', counter')
  BY <1>1 DEF CancelAllOrders
<1> QED
  BY <1>5, <1>6, <1>7, BeginStep DEF CancelAllOrders, IInv

(* Division of natural numbers.                                            *)
LEMMA DivNat ==
  ASSUME NEW n \in Nat, NEW d \in Nat \ {0}
  PROVE  n \div d \in Nat
OBVIOUS

(* Multiplication of natural numbers.                                      *)
LEMMA TimesNat ==
  ASSUME NEW m \in Nat, NEW n \in Nat
  PROVE  m * n \in Nat
OBVIOUS

(* The quote to match is a natural number.                                 *)
LEMMA MaxQuoteMatchType ==
  ASSUME NEW side, NEW quote \in Nat
  PROVE  MaxQuoteMatch(side, quote) \in Nat
<1> DEFINE d == IF side = "bid" THEN TakerFeeDivisor + 1 ELSE TakerFeeDivisor - 1
           n == TakerFeeDivisor * quote
<1>1. TakerFeeDivisor \in Nat \ {0, 1}
  BY MarketAssumption
<1>2. d \in Nat \ {0} /\ n \in Nat
  BY <1>1, TimesNat
<1> HIDE DEF d, n
<1>3. n \div d \in Nat
  BY <1>2, DivNat
<1>4. HI_64 \in Nat
  BY UnitsAssumption
<1> QED
  BY <1>3, <1>4 DEF MaxQuoteMatch, d, n

(* Bounds are natural numbers.                                             *)
LEMMA BoundsType ==
  ASSUME NEW b \in Bounds, NEW x \in Assets
  PROVE  b.max[x] \in Nat /\ b.min[x] \in Nat
BY DEF Bounds

(* The local variables with which a match begins.                          *)
LEMMA BeginMatchTx ==
  ASSUME NEW kind \in {"limit", "market", "swap"}, NEW a \in Traders \cup {NoTaker},
         kind # "swap" => a \in Traders, NEW side \in Sides, NEW size \in Nat,
         NEW price \in Nat, NEW restriction \in AllRestrictions,
         NEW behavior \in AllBehaviors, NEW b \in Bounds, counter \in Nat,
         BeginMatch(kind, a, side, size, price, restriction, behavior, b)
  PROVE  /\ TxOK(tx', counter') /\ tx'.status # "idle" /\ saved' = State
         /\ book' = book /\ fees' = fees /\ counter' \in Nat
         /\ counter <= counter'
<1> DEFINE lots == b.max["base"] \div LotSize
           ticks == MaxQuoteMatch(side, b.max["quote"]) \div TickSize
           coins == Supplied(side, b)
<1>1. /\ b.max["base"] \in Nat /\ b.max["quote"] \in Nat
      /\ \A x \in Assets : b.max[x] \in Nat
  BY BoundsType DEF Assets
<1>2. lots \in Nat /\ ticks \in Nat
  BY <1>1, MaxQuoteMatchType, DivNat, UnitsAssumption
<1>3. coins \in [Assets -> Int]
  BY <1>1 DEF Supplied
<1> HIDE DEF lots, ticks, coins
<1>4. tx' = [NoTx EXCEPT
               !.status = "matching", !.kind = kind, !.taker = a,
               !.side = side, !.size = size, !.price = price,
               !.restriction = restriction, !.behavior = behavior,
               !.bounds = b, !.coins = coins, !.lots = lots, !.ticks = ticks]
  BY DEF BeginMatch, lots, ticks, coins
<1>5. tx' = [status |-> "matching", kind |-> kind, taker |-> a, side |-> side,
             size |-> size, price |-> price, restriction |-> restriction,
             behavior |-> behavior, bounds |-> b, lots |-> lots,
             ticks |-> ticks, coins |-> coins, fees |-> 0,
             selfCancel |-> FALSE, ids |-> {}]
  BY <1>4, Zenon DEF NoTx
<1>6. tx' \in TxTypes
  BY <1>2, <1>3, <1>5 DEF TxTypes
<1>7. tx'.status = "matching" /\ tx'.kind = kind /\ tx'.taker = a
  BY <1>5
<1>8. /\ counter' = counter + 1 /\ saved' = State /\ book' = book
      /\ fees' = fees
  BY DEF BeginMatch, NextCounter
<1>9. counter' > 0 /\ counter' \in Nat /\ counter <= counter'
  BY <1>8
<1>10. TxOK(tx', counter')
  BY <1>6, <1>7, <1>9 DEF TxOK, IsMatch
<1> QED
  BY <1>7, <1>8, <1>9, <1>10

(* A match paid for by a market account begins.                            *)
LEMMA BeginFromAccountIInv ==
  ASSUME IInv, NEW kind \in {"limit", "market"}, NEW a \in Traders,
         NEW side \in Sides, NEW size \in Nat, NEW price \in Nat,
         NEW restriction \in AllRestrictions, NEW behavior \in AllBehaviors,
         NEW b \in Bounds,
         BeginFromAccount(kind, a, side, size, price, restriction, behavior, b)
  PROVE  IInv'
<1> DEFINE x == OutAsset(side)
           m == Withdraw(acct[a], x, b.max[x])
<1>1. /\ Consistent(book, acct, counter) /\ counter \in Nat
      /\ acct \in [Traders -> Accounts] /\ net \in [Assets -> Int]
  BY ConsistentTypes DEF IInv
<1>2. IsAccount(acct[a])
  BY <1>1 DEF Consistent, AccountsOK
<1>3. BeginMatch(kind, a, side, size, price, restriction, behavior, b)
  BY DEF BeginFromAccount
<1>4. /\ TxOK(tx', counter') /\ tx'.status # "idle" /\ saved' = State
      /\ book' = book /\ fees' = fees /\ counter' \in Nat
      /\ counter <= counter'
  BY <1>1, <1>3, BeginMatchTx
<1>5. acct' = [acct EXCEPT ![a] = m] /\ net' = net
  BY <1>1 DEF BeginFromAccount
<1>6. SameOrders(acct[a], m)
  <2>1. x \in Assets
    BY AssetsOfSides
  <2>2. b.max[x] \in Int
    BY <2>1, BoundsType
  <2> QED
    BY <1>2, <2>1, <2>2, WithdrawProperties
<1> HIDE DEF m
<1>7. Consistent(book', acct', counter')
  <2> DEFINE c2 == counter'
  <2>1. Consistent(book, [acct EXCEPT ![a] = m], c2)
    <3>1. c2 \in Nat /\ counter <= c2
      BY <1>4
    <3> HIDE DEF c2
    <3> QED
      BY <1>1, <1>6, <3>1, NoSide, Zenon
  <2> QED
    BY <1>4, <1>5, <2>1
<1> QED
  BY <1>1, <1>4, <1>5, <1>7, BeginStep

(* Bounds that were range checked are natural numbers.                     *)
LEMMA AccountBounds ==
  ASSUME NEW m \in Accounts, NEW side \in Sides, NEW base \in Nat,
         NEW minimum \in [Assets -> Nat], NEW b,
         b = [min |-> minimum, max |-> [x \in Assets |-> IF x = "base" THEN base
                                              ELSE MaxQuoteOf(m, side)]],
         RangeCheckTrade(m, side, b)
  PROVE  b \in Bounds
<1>1. MaxQuoteOf(m, side) \in Int
  <2>1. m.available["quote"] \in Int /\ m.ceiling["quote"] \in Int
    BY DEF Accounts, Assets
  <2> QED
    BY <2>1, UnitsAssumption DEF MaxQuoteOf
<1> DEFINE quote == MaxQuoteOf(m, side)
<1> HIDE DEF quote
<1>2. b.max["quote"] = quote
  BY DEF Assets, quote
<1>3. b.max["quote"] > 0
  BY DEF RangeCheckTrade, Assets
<1>4. quote \in Nat
  BY <1>1, <1>2, <1>3 DEF quote
<1>5. [x \in Assets |-> IF x = "base" THEN base ELSE quote] \in [Assets -> Nat]
  BY <1>4
<1> QED
  BY <1>5 DEF Bounds, quote

(* A taker with an account begins a match with bounds that its account     *)
(* allows.                                                                 *)
LEMMA AcrossSpreadBegins ==
  ASSUME IInv, NEW a \in Traders, NEW side \in Sides, NEW size \in Nat,
         NEW price \in Nat, NEW restriction \in AllRestrictions,
         NEW behavior \in AllBehaviors,
         PlaceLimitOrderAcrossSpread(a, side, size, price, restriction, behavior)
  PROVE  \E b \in Bounds :
           BeginFromAccount("limit", a, side, size, price, restriction, behavior, b)
<1> DEFINE base == Units("base", size, price)
           minimum == [NoCoins EXCEPT !["base"] =
                         IF restriction = "fillOrAbort" THEN base ELSE 0]
           b == [min |-> minimum,
                 max |-> [x \in Assets |-> IF x = "base" THEN base
                                           ELSE MaxQuoteOf(acct[a], side)]]
<1>1. acct[a] \in Accounts
  BY ConsistentTypes DEF IInv
<1>2. base \in Nat
  BY UnitsAssumption, TimesNat DEF Units
<1>3. minimum \in [Assets -> Nat]
  BY <1>2 DEF NoCoins, Assets
<1>4. BeginFromAccount("limit", a, side, size, price, restriction, behavior, b)
  BY DEF PlaceLimitOrderAcrossSpread
<1> HIDE DEF minimum, base
<1>5. RangeCheckTrade(acct[a], side, b)
  BY <1>4 DEF BeginFromAccount
<1>6. b \in Bounds
  BY <1>1, <1>2, <1>3, <1>5, AccountBounds
<1> HIDE DEF b
<1> QED
  BY <1>4, <1>6

(* A market order, which has no limit but the range of prices.             *)
LEMMA MarketOrderBegins ==
  ASSUME IInv, NEW a \in Traders, NEW side \in Sides, NEW size \in Nat,
         NEW behavior \in AllBehaviors, PlaceMarketOrder(a, side, size, behavior)
  PROVE  \E price \in Nat : \E b \in Bounds :
           BeginFromAccount("market", a, side, size, price, "none", behavior, b)
<1> DEFINE base == Units("base", size, 0)
           price == IF side = "ask" THEN 0 ELSE HI_PRICE
           b == [min |-> NoCoins,
                 max |-> [x \in Assets |-> IF x = "base" THEN base
                                           ELSE MaxQuoteOf(acct[a], side)]]
<1>1. acct[a] \in Accounts
  BY ConsistentTypes DEF IInv
<1>2. base \in Nat
  BY UnitsAssumption, TimesNat DEF Units
<1>3. NoCoins \in [Assets -> Nat]
  BY DEF NoCoins
<1>4. price \in Nat
  BY UnitsAssumption
<1>5. BeginFromAccount("market", a, side, size, price, "none", behavior, b)
  BY DEF PlaceMarketOrder
<1> HIDE DEF base, price
<1>6. RangeCheckTrade(acct[a], side, b)
  BY <1>5 DEF BeginFromAccount
<1>7. b \in Bounds
  BY <1>1, <1>2, <1>3, <1>6, AccountBounds
<1> HIDE DEF b
<1> QED
  BY <1>4, <1>5, <1>7

(* A limit order that crosses the spread.                                  *)
LEMMA AcrossSpreadIInv ==
  ASSUME IInv, NEW a \in Traders, NEW side \in Sides, NEW size \in Nat,
         NEW price \in Nat, NEW restriction \in AllRestrictions,
         NEW behavior \in AllBehaviors,
         PlaceLimitOrderAcrossSpread(a, side, size, price, restriction, behavior)
  PROVE  IInv'
<1>1. PICK b \in Bounds :
        BeginFromAccount("limit", a, side, size, price, restriction, behavior, b)
  BY AcrossSpreadBegins
<1> QED
  BY <1>1, BeginFromAccountIInv

(* A market order.                                                         *)
LEMMA MarketOrderIInv ==
  ASSUME IInv, NEW a \in Traders, NEW side \in Sides, NEW size \in Nat,
         NEW behavior \in AllBehaviors, PlaceMarketOrder(a, side, size, behavior)
  PROVE  IInv'
<1>1. PICK price \in Nat : \E b \in Bounds :
        BeginFromAccount("market", a, side, size, price, "none", behavior, b)
  BY MarketOrderBegins
<1>2. PICK b \in Bounds :
        BeginFromAccount("market", a, side, size, price, "none", behavior, b)
  BY <1>1
<1>3. "none" \in AllRestrictions
  BY DEF AllRestrictions
<1> QED
  BY <1>2, <1>3, BeginFromAccountIInv

(* A swap.                                                                 *)
LEMMA SwapIInv ==
  ASSUME IInv, NEW a \in Traders \cup {NoTaker}, NEW side \in Sides,
         NEW b \in Bounds, NEW limit \in Nat, Swap(a, side, b, limit)
  PROVE  IInv'
<1>1. /\ Consistent(book, acct, counter) /\ counter \in Nat
      /\ net \in [Assets -> Int]
  BY ConsistentTypes DEF IInv
<1>2. "none" \in AllRestrictions /\ "cancelTaker" \in AllBehaviors
  BY DEF AllRestrictions, AllBehaviors
<1>3. BeginMatch("swap", a, side, 0, limit, "none", "cancelTaker", b)
  BY DEF Swap
<1>4. /\ TxOK(tx', counter') /\ tx'.status # "idle" /\ saved' = State
      /\ book' = book /\ fees' = fees /\ counter' \in Nat
      /\ counter <= counter'
  BY <1>1, <1>2, <1>3, BeginMatchTx
<1>5. acct' = acct /\ net' \in [Assets -> Int]
  <2>1. \A x \in Assets : net[x] \in Int /\ Supplied(side, b)[x] \in Int
    BY <1>1, BoundsType DEF Supplied
  <2>2. \A x \in Assets : net[x] + Supplied(side, b)[x] \in Int
    BY <2>1
  <2> QED
    BY <2>2 DEF Swap
<1>6. Consistent(book', acct', counter')
  <2> DEFINE c2 == counter'
  <2>1. Consistent(book, acct, c2)
    <3>1. c2 \in Nat /\ counter <= c2
      BY <1>4
    <3> HIDE DEF c2
    <3> QED
      BY <1>1, <3>1, LaterCounter
  <2> QED
    BY <1>4, <1>5, <2>1
<1> QED
  BY <1>4, <1>5, <1>6, BeginStep

-----------------------------------------------------------------------------
(* The steps of a match.                                                   *)

(* The book and the accounts change, or the local variables alone.         *)
LEMMA WithinStep ==
  ASSUME IInv, ~Idle, Consistent(book', acct', counter'),
         counter' = counter, fees' = fees, net' = net, saved' = saved,
         TxOK(tx', counter), tx'.status # "idle"
  PROVE  IInv'
<1>1. SavedOK(tx', saved')
  BY DEF IInv, SavedOK, Idle
<1> QED
  BY <1>1 DEF IInv

(* The last step of a transaction of several steps.                        *)
LEMMA LastStep ==
  ASSUME IInv, Consistent(book', acct', counter'), fees' \in Int,
         net' \in [Assets -> Int], End
  PROVE  IInv'
<1>1. TxOK(tx', counter') /\ SavedOK(tx', saved')
  BY NoTxType DEF End, TxOK, SavedOK, IsMatch
<1> QED
  BY <1>1 DEF IInv

(* A step of a match leaves most of the local variables alone.             *)
LEMMA MatchTx ==
  ASSUME TxOK(tx, counter), Matching, NEW status \in {"matching", "settling"},
         NEW lots \in Nat, NEW ticks \in Nat, NEW coins \in [Assets -> Int],
         NEW paid \in Int, NEW selfCancel \in BOOLEAN, NEW t,
         t = [tx EXCEPT !.status = status, !.lots = lots, !.ticks = ticks,
                        !.coins = coins, !.fees = paid,
                        !.selfCancel = selfCancel]
  PROVE  TxOK(t, counter) /\ t.status # "idle"
<1>1. /\ tx \in TxTypes /\ IsMatch(tx) /\ counter > 0
      /\ tx.kind \in {"limit", "market", "swap"}
      /\ tx.kind # "swap" => tx.taker \in Traders
  BY DEF TxOK, Matching, IsMatch
<1>2. /\ t.kind = tx.kind /\ t.taker = tx.taker /\ t.status = status
      /\ t \in TxTypes
  BY <1>1, Zenon DEF TxTypes
<1> QED
  BY <1>1, <1>2 DEF TxOK, IsMatch

(* The loop of match ends without a fill.                                  *)
LEMMA MatchExitIInv ==
  ASSUME IInv, MatchExit
  PROVE  IInv'
<1>1. TxOK(tx, counter) /\ tx \in TxTypes
  BY DEF IInv, TxOK
<1>2. /\ tx.lots \in Nat /\ tx.ticks \in Nat /\ tx.coins \in [Assets -> Int]
      /\ tx.fees \in Int /\ tx.selfCancel \in BOOLEAN
  BY <1>1 DEF TxTypes
<1>3. tx' = [tx EXCEPT !.status = "settling", !.lots = tx.lots,
                       !.ticks = tx.ticks, !.coins = tx.coins,
                       !.fees = tx.fees, !.selfCancel = tx.selfCancel]
  BY <1>1, Zenon DEF MatchExit, TxTypes
<1>4. TxOK(tx', counter) /\ tx'.status # "idle"
  <2> DEFINE lots == tx.lots
             ticks == tx.ticks
             coins == tx.coins
             paid == tx.fees
             self == tx.selfCancel
             t == tx'
  <2>1. Matching /\ "settling" \in {"matching", "settling"}
    BY DEF MatchExit
  <2>2. t = [tx EXCEPT !.status = "settling", !.lots = lots, !.ticks = ticks,
                       !.coins = coins, !.fees = paid, !.selfCancel = self]
    BY <1>3
  <2> HIDE DEF lots, ticks, coins, paid, self, t
  <2>3. /\ lots \in Nat /\ ticks \in Nat /\ coins \in [Assets -> Int]
        /\ paid \in Int /\ self \in BOOLEAN
    BY <1>2 DEF lots, ticks, coins, paid, self
  <2>4. TxOK(t, counter) /\ t.status # "idle"
    BY <1>1, <2>1, <2>2, <2>3, MatchTx, Zenon
  <2> QED
    BY <2>4 DEF t
<1>5. Consistent(book', acct', counter')
  BY DEF MatchExit, IInv
<1> QED
  BY <1>4, <1>5, WithinStep DEF MatchExit, Matching, Idle

(* The order at the head, when there is one.                               *)
LEMMA HeadFacts ==
  ASSUME IInv, ~IsEmpty(book[Makers])
  PROVE  /\ Makers \in Sides /\ 1 \in 1..Len(book[Makers].list)
         /\ EntryFacts(book[Makers], 1, acct, Makers, counter)
         /\ RemoveFromBook(book[Makers], MakerOrderId)
              = RemoveEntry(book[Makers], 1)
<1> DEFINE q == book[Makers]
<1>1. Makers \in Sides
  BY DEF Makers, Opposite, Sides
<1>2. Consistent(book, acct, counter)
  BY DEF IInv
<1>3. IsQueue(q, BookOrders)
  BY <1>1, <1>2 DEF Consistent, Linked
<1>4. 1 \in 1..Len(q.list)
  <2>1. q.list \in Seq(Entries(BookOrders)) /\ q.list # << >>
    BY <1>3, ListProperties DEF IsQueue, IsEmpty
  <2> QED
    BY <2>1, EmptySeq
<1>5. EntryFacts(q, 1, acct, Makers, counter)
  BY <1>1, <1>2, <1>4, EntryInAccount
<1>6. IndexOf(q, MakerOrderId.node) = 1
  BY <1>5, Zenon DEF EntryFacts, MakerOrderId, HeadEntry
<1> QED
  BY <1>1, <1>4, <1>5, <1>6 DEF RemoveFromBook

(* A self match, in which the order at the head may be cancelled.          *)
LEMMA MatchSelfIInv ==
  ASSUME IInv, MatchSelf
  PROVE  IInv'
<1> DEFINE q == book[Makers]
           e == q.list[1]
           u == e.value.user
           k == e.value.access
           m == CancelOrder(acct[u], Makers, e.key, k)
<1>1. /\ Matching /\ ~IsEmpty(q) /\ ~Idle
      /\ counter' = counter /\ fees' = fees /\ net' = net /\ saved' = saved
  BY DEF MatchSelf, HasMatch, Matching, Idle
<1>2. /\ Consistent(book, acct, counter) /\ TxOK(tx, counter)
      /\ tx \in TxTypes
  BY DEF IInv, TxOK
<1>3. Consistent(book', acct', counter')
  <2>1. CASE ~CancelsMaker
    BY <1>1, <1>2, <2>1 DEF MatchSelf
  <2>2. CASE CancelsMaker
    <3>1. /\ Makers \in Sides /\ 1 \in 1..Len(q.list)
          /\ EntryFacts(q, 1, acct, Makers, counter)
          /\ RemoveFromBook(q, MakerOrderId) = RemoveEntry(q, 1)
      BY <1>1, HeadFacts
    <3>2. /\ IsAccount(acct[u]) /\ k \in ActiveKeys(acct[u], Makers)
          /\ e.key \in Nat /\ KeyOf(q, 1) = <<u, k>>
      <4> HIDE DEF q
      <4> QED
        BY <3>1, Zenon DEF EntryFacts
    <3>3. Closes(acct[u], m, Makers, k)
      BY <3>1, <3>2, CancelOrderProperties
    <3>4. /\ acct' = [acct EXCEPT ![u] = m]
          /\ book' = [book EXCEPT ![Makers] = RemoveEntry(book[Makers], 1)]
      BY <2>2, <3>1, <1>2, ConsistentTypes DEF MatchSelf, HeadEntry, Books
    <3> HIDE DEF m, u, k
    <3>5. Consistent([book EXCEPT ![Makers] = RemoveEntry(book[Makers], 1)],
                     [acct EXCEPT ![u] = m], counter)
      BY <1>2, <3>1, <3>2, <3>3, CloseEntry, Zenon
    <3> QED
      BY <1>1, <3>4, <3>5
  <2> QED
    BY <2>1, <2>2
<1>4. TxOK(tx', counter) /\ tx'.status # "idle"
  <2> DEFINE lots == tx.lots
             ticks == tx.ticks
             coins == tx.coins
             paid == tx.fees
             self == CancelsTaker
             status == IF CancelsTaker THEN "settling" ELSE "matching"
             t == tx'
  <2>1. status \in {"matching", "settling"} /\ self \in BOOLEAN
    BY DEF CancelsTaker
  <2>2. t = [tx EXCEPT !.status = status, !.lots = lots, !.ticks = ticks,
                       !.coins = coins, !.fees = paid, !.selfCancel = self]
    BY <1>1, <1>2, Zenon DEF MatchSelf, TxTypes, Matching
  <2>3. /\ lots \in Nat /\ ticks \in Nat /\ coins \in [Assets -> Int]
        /\ paid \in Int
    BY <1>2 DEF TxTypes
  <2> HIDE DEF lots, ticks, coins, paid, self, status, t
  <2>4. TxOK(t, counter) /\ t.status # "idle"
    BY <1>1, <1>2, <2>1, <2>2, <2>3, MatchTx, Zenon
  <2> QED
    BY <2>4 DEF t
<1> QED
  BY <1>1, <1>3, <1>4, WithinStep

(* A fill stays within the lots and the ticks that are left.               *)
LEMMA FillBound ==
  ASSUME NEW t \in Nat, NEW k \in Nat \ {0}, NEW s \in Nat, s <= t \div k
  PROVE  t - s * k \in Nat
<1>1. (t \div k) * k <= t /\ t \div k \in Nat
  OBVIOUS
<1>2. s * k <= (t \div k) * k /\ s * k \in Nat
  BY <1>1
<1> QED
  BY <1>1, <1>2

(* A fill, in full or in part.                                             *)
LEMMA MatchFillIInv ==
  ASSUME IInv, MatchFill
  PROVE  IInv'
<1> DEFINE q == book[Makers]
           e == q.list[1]
           u == e.value.user
           k == e.value.access
           price == e.key
           complete == CompletesFill
           size == IF complete THEN e.value.size ELSE MaxFillSize
           m == FillOrder(acct[u], Makers, k, size, complete, price)
<1>1. /\ Matching /\ ~IsEmpty(q) /\ ~Idle
      /\ counter' = counter /\ fees' = fees /\ net' = net /\ saved' = saved
  BY DEF MatchFill, HasMatch, Matching, Idle
<1>2. /\ Consistent(book, acct, counter) /\ TxOK(tx, counter)
      /\ tx \in TxTypes /\ book \in Books /\ acct \in [Traders -> Accounts]
  BY ConsistentTypes DEF IInv, TxOK
<1>3. /\ Makers \in Sides /\ 1 \in 1..Len(q.list)
      /\ EntryFacts(q, 1, acct, Makers, counter)
      /\ RemoveFromBook(q, MakerOrderId) = RemoveEntry(q, 1)
  BY <1>1, HeadFacts
<1>4. /\ IsAccount(acct[u]) /\ k \in ActiveKeys(acct[u], Makers)
      /\ price \in Nat \ {0} /\ e.value.size \in Nat \ {0} /\ KeyOf(q, 1) = <<u, k>>
      /\ acct[u].orders[Makers][k].size = e.value.size
  <2> HIDE DEF q
  <2>1. /\ IsAccount(acct[u]) /\ k \in ActiveKeys(acct[u], Makers)
        /\ price \in Nat /\ e.value.size \in Nat \ {0} /\ KeyOf(q, 1) = <<u, k>>
        /\ acct[u].orders[Makers][k].size = e.value.size
    BY <1>3, Zenon DEF EntryFacts
  <2>2. price \in 1..HI_PRICE
    BY <1>3, Zenon DEF EntryFacts
  <2> HIDE DEF price
  <2>3. price # 0
    BY <2>2, UnitsAssumption
  <2> QED
    BY <2>1, <2>3
<1>5. tx.lots \in Nat /\ tx.ticks \in Nat
  BY <1>2 DEF TxTypes
<1>6. /\ MaxFillSize \in Nat /\ MaxFillSize <= tx.lots
      /\ MaxFillSize <= tx.ticks \div price
  <2>1. tx.ticks \div price \in Nat
    BY <1>4, <1>5, DivNat, Zenon
  <2> QED
    BY <1>5, <2>1 DEF MaxFillSize, MinOf, HeadEntry
<1>7. /\ MaxFillSize > 0
      /\ complete <=> MaxFillSize >= e.value.size
  BY Zenon DEF MatchFill, HasMatch, CompletesFill, HeadEntry
<1>8. size \in Nat /\ size <= tx.lots /\ size <= tx.ticks \div price
  <2>1. tx.ticks \div price \in Nat
    BY <1>4, <1>5, DivNat, Zenon
  <2>2. CASE complete
    <3>1. size = e.value.size
      BY <2>2
    <3> HIDE DEF price, e, size, complete
    <3> QED
      BY <1>4, <1>5, <1>6, <1>7, <2>1, <2>2, <3>1
  <2>3. CASE ~complete
    BY <1>6, <2>3
  <2> QED
    BY <2>2, <2>3
<1>int. price \in Int /\ size \in Int
  <2> HIDE DEF price, size
  <2>1. price \in Nat \ {0} /\ size \in Nat
    BY <1>4, <1>8, Zenon
  <2> QED
    BY <2>1
<1>9. /\ acct' = [acct EXCEPT ![u] = m]
      /\ book' = [book EXCEPT ![Makers] =
                     IF complete THEN RemoveFromBook(@, MakerOrderId)
                     ELSE FillHead(@, size)]
  BY <1>2 DEF MatchFill, HeadEntry
<1>10. Consistent(book', acct', counter')
  <2>1. CASE complete
    <3>1. Closes(acct[u], m, Makers, k)
      <4>1. m = FillOrder(acct[u], Makers, k, size, TRUE, price)
        BY <2>1
      <4>3. price \in Int /\ size \in Int
        BY <1>int
      <4> HIDE DEF m, size, price, u, k
      <4>2. Closes(acct[u], FillOrder(acct[u], Makers, k, size, TRUE, price),
                   Makers, k)
        BY <1>3, <1>4, <4>3, FillOrderProperties, Zenon
      <4> QED
        BY <4>1, <4>2, Zenon
    <3>2. book' = [book EXCEPT ![Makers] = RemoveEntry(book[Makers], 1)]
      BY <1>2, <1>3, <1>9, <2>1 DEF Books
    <3> HIDE DEF m, u, k
    <3>3. Consistent([book EXCEPT ![Makers] = RemoveEntry(book[Makers], 1)],
                     [acct EXCEPT ![u] = m], counter)
      BY <1>2, <1>3, <1>4, <3>1, CloseEntry, Zenon
    <3> QED
      BY <1>1, <1>9, <3>2, <3>3, Zenon
  <2>2. CASE ~complete
    <3> DEFINE left == e.value.size - size
    <3>1. left \in Nat \ {0}
      <4>1. size = MaxFillSize
        BY <2>2
      <4> HIDE DEF size, e, complete
      <4> QED
        BY <1>4, <1>6, <1>7, <2>2, <4>1
    <3>2. Resizes(acct[u], m, Makers, k, left)
      <4>1. m = FillOrder(acct[u], Makers, k, size, FALSE, price)
        <5>1. complete = FALSE
          BY <2>2 DEF CompletesFill
        <5> HIDE DEF complete
        <5> QED
          BY <5>1, Zenon
      <4>3. price \in Int /\ size \in Int
        BY <1>int
      <4> HIDE DEF m, size, price, u, k
      <4>2. Resizes(acct[u], FillOrder(acct[u], Makers, k, size, FALSE, price),
                    Makers, k, acct[u].orders[Makers][k].size - size)
        BY <1>3, <1>4, <4>3, FillOrderProperties, Zenon
      <4> QED
        BY <1>4, <4>1, <4>2, Zenon
    <3>3. book' = [book EXCEPT ![Makers] = ResizeAt(book[Makers], 1, left)]
      <4>1. book' = [book EXCEPT ![Makers] =
                       FillHead(book[Makers], size)]
        BY <1>2, <1>9, <2>2 DEF Books
      <4> HIDE DEF size
      <4> QED
        BY <4>1 DEF FillHead, ResizeAt
    <3> HIDE DEF m, u, k, left
    <3>4. Consistent([book EXCEPT ![Makers] = ResizeAt(book[Makers], 1, left)],
                     [acct EXCEPT ![u] = m], counter)
      BY <1>2, <1>3, <1>4, <3>1, <3>2, ResizeEntry, Zenon
    <3> QED
      BY <1>1, <1>9, <3>3, <3>4, Zenon
  <2> QED
    BY <2>1, <2>2
<1>11. TxOK(tx', counter) /\ tx'.status # "idle"
  <2> DEFINE in == InAsset(tx.side)
             out == OutAsset(tx.side)
             lots == tx.lots - size
             ticks == tx.ticks - size * price
             received == Units(in, size, price)
             given == Units(out, size, price)
             coins == [tx.coins EXCEPT ![in] = @ + received, ![out] = @ - given]
             value == Units("quote", size, price)
             paid == tx.fees + value \div TakerFeeDivisor
             self == tx.selfCancel
             status == IF ~complete \/ lots = 0 \/ ticks = 0
                       THEN "settling" ELSE "matching"
             t == tx'
  <2>1. status \in {"matching", "settling"}
    OBVIOUS
  <2>2. /\ in \in Assets /\ out \in Assets
        /\ tx.coins \in [Assets -> Int] /\ tx.fees \in Int
        /\ self \in BOOLEAN
    BY <1>2, AssetsOfSides DEF TxTypes
  <2>3. t = [tx EXCEPT !.status = status, !.lots = lots, !.ticks = ticks,
                       !.coins = coins, !.fees = paid, !.selfCancel = self]
    BY <1>1, <1>2, ZenonT(60) DEF MatchFill, TxTypes, Matching, HeadEntry
  <2> HIDE DEF size, price
  <2>4. lots \in Nat /\ ticks \in Nat
    <3>1. lots \in Nat
      BY <1>5, <1>8
    <3>2. ticks \in Nat
      BY <1>4, <1>5, <1>8, FillBound, Zenon
    <3> QED
      BY <3>1, <3>2
  <2>5. received \in Int /\ given \in Int /\ value \in Int
    BY <1>int, UnitsType
  <2> HIDE DEF received, given, value, in, out, lots, ticks, self, status, t
  <2>6. coins \in [Assets -> Int]
    <3>1. tx.coins[in] + received \in Int /\ tx.coins[out] - given \in Int
      BY <2>2, <2>5
    <3> QED
      BY <2>2, <3>1
  <2>7. paid \in Int
    <3>1. TakerFeeDivisor \in Nat \ {0}
      BY MarketAssumption
    <3>2. value \div TakerFeeDivisor \in Int
      BY <2>5, <3>1
    <3> QED
      BY <2>2, <3>2
  <2> HIDE DEF coins, paid
  <2>8. TxOK(t, counter) /\ t.status # "idle"
    BY <1>1, <1>2, <2>1, <2>2, <2>3, <2>4, <2>6, <2>7, MatchTx, Zenon
  <2> QED
    BY <2>8 DEF t
<1> QED
  BY <1>1, <1>10, <1>11, WithinStep

-----------------------------------------------------------------------------
(* The end of a match, and the steps of a cancel of all orders.            *)

(* Multiplication of integers.                                             *)
LEMMA TimesInt ==
  ASSUME NEW m \in Int, NEW n \in Int
  PROVE  m * n \in Int
OBVIOUS

(* What was traded and what returns are integers.                          *)
LEMMA TradedType ==
  ASSUME tx \in TxTypes, NEW x \in Assets
  PROVE  Traded(tx, x) \in Int /\ Returned(tx, x) \in Int
<1>1. /\ tx.lots \in Nat /\ tx.ticks \in Nat /\ tx.fees \in Int
      /\ tx.coins[x] \in Int /\ tx.bounds \in Bounds
  BY DEF TxTypes
<1>2. /\ tx.bounds.max["base"] \in Nat /\ tx.bounds.max["quote"] \in Nat
      /\ tx.bounds.max[x] \in Nat
  BY <1>1, BoundsType DEF Assets
<1>3. LotSize \in Nat \ {0} /\ TickSize \in Nat \ {0}
  BY UnitsAssumption
<1>4. MaxLots(tx) \in Nat
  BY <1>2, <1>3, DivNat DEF MaxLots
<1>5. MaxTicks(tx) \in Nat
  <2>1. MaxQuoteMatch(tx.side, tx.bounds.max["quote"]) \in Nat
    BY <1>2, MaxQuoteMatchType
  <2> QED
    BY <1>3, <2>1, DivNat DEF MaxTicks
<1>6. Filled(tx, x) \in Int
  <2>1. MaxLots(tx) - tx.lots \in Int /\ MaxTicks(tx) - tx.ticks \in Int
    BY <1>1, <1>4, <1>5
  <2>2. LotSize \in Int /\ TickSize \in Int
    BY <1>3
  <2> QED
    BY <2>1, <2>2, TimesInt DEF Filled
<1>7. Traded(tx, x) \in Int
  BY <1>1, <1>6 DEF Traded
<1>8. Returned(tx, x) \in Int
  BY <1>1, <1>2, <1>7 DEF Returned
<1> QED
  BY <1>7, <1>8

(* The deposits after a match touch no orders.                             *)
LEMMA SettledConsistent ==
  ASSUME IInv, Settling
  PROVE  /\ Consistent(book, SettledAccounts, counter)
         /\ \A a \in Traders : SettledAccounts[a].orders = acct[a].orders
<1>1. Consistent(book, acct, counter) /\ tx \in TxTypes /\ counter \in Nat
  BY ConsistentTypes DEF IInv, TxOK
<1>2. CASE tx.kind = "swap"
  BY <1>1, <1>2 DEF SettledAccounts
<1>3. CASE tx.kind # "swap"
  <2> DEFINE a == tx.taker
             base == Returned(tx, "base")
             quote == Returned(tx, "quote")
             m1 == Deposit(acct[a], "base", base)
             m2 == Deposit(m1, "quote", quote)
  <2>1. a \in Traders
    BY <1>3 DEF IInv, TxOK, IsMatch, Settling
  <2>2. IsAccount(acct[a]) /\ acct \in [Traders -> Accounts]
    BY <1>1, <2>1 DEF Consistent, AccountsOK
  <2>3. /\ base \in Int /\ quote \in Int /\ "base" \in Assets
        /\ "quote" \in Assets
    BY <1>1, TradedType DEF Assets
  <2>4. SettledAccounts = [acct EXCEPT ![a] = m2]
    BY <1>3, <2>1, <2>2 DEF SettledAccounts, Redeposited
  <2> HIDE DEF base, quote
  <2>5. SameOrders(acct[a], m1)
    BY <2>2, <2>3, DepositProperties
  <2> HIDE DEF m1
  <2>6. SameOrders(m1, m2)
    BY <2>3, <2>5, DepositProperties DEF SameOrders
  <2> HIDE DEF m2
  <2>7. SameOrders(acct[a], m2)
    BY <2>5, <2>6 DEF SameOrders
  <2> HIDE DEF a
  <2>8. Consistent(book, [acct EXCEPT ![a] = m2], counter)
    <3>1. counter <= counter
      BY <1>1
    <3> QED
      BY <1>1, <2>1, <2>7, <3>1, NoSide
  <2>9. \A t \in Traders : [acct EXCEPT ![a] = m2][t].orders = acct[t].orders
    BY <2>1, <2>2, <2>7 DEF SameOrders
  <2> QED
    BY <2>4, <2>8, <2>9
<1> QED
  BY <1>2, <1>3

(* A match takes effect, and a limit order may rest.                       *)
LEMMA SettleIInv ==
  ASSUME IInv, Settle
  PROVE  IInv'
<1>1. /\ Settling /\ Consistent(book, SettledAccounts, counter)
      /\ tx \in TxTypes /\ counter \in Nat /\ counter' = counter /\ End
  BY SettledConsistent, ConsistentTypes DEF Settle, IInv, TxOK
<1>2. Consistent(book', acct', counter')
  <2>1. CASE ~Rests
    BY <1>1, <2>1 DEF Settle
  <2>2. CASE Rests
    <3> DEFINE a == tx.taker
               side == tx.side
               size == Remaining
               price == tx.price
               accts == SettledAccounts
    <3>1. /\ book' = PostedBook(accts, a, side, size, price)
          /\ acct' = PostedAccounts(accts, counter, a, side, size, price)
      BY <2>2 DEF Settle
    <3>2. a \in Traders /\ side \in Sides /\ counter > 0
      BY <1>1, <2>2 DEF IInv, TxOK, IsMatch, Settling, Rests, TxTypes
    <3>3. size \in Nat \ {0}
      <4>1. Traded(tx, "base") \in Int /\ tx.size \in Nat
        BY <1>1, TradedType DEF TxTypes, Assets
      <4>2. Traded(tx, "base") \div LotSize \in Int
        BY <4>1, UnitsAssumption
      <4>3. Remaining \in Int
        BY <4>1, <4>2 DEF Remaining
      <4> QED
        BY <2>2, <4>3 DEF Rests
    <3>4. price \in 1..HI_PRICE
      BY <2>2 DEF Settle, CanSettle, CanPost, CanPlaceOrder
    <3>5. counter \in Nat \ {0} /\ counter <= counter
      BY <1>1, <3>2
    <3>6. Consistent(book, accts, counter)
      BY <1>1
    <3> HIDE DEF a, side, size, price, accts
    <3>7. Consistent(PostedBook(accts, a, side, size, price),
                     PostedAccounts(accts, counter, a, side, size, price),
                     counter)
      BY <3>2, <3>3, <3>4, <3>5, <3>6, PostEntry
    <3> QED
      BY <1>1, <3>1, <3>7
  <2> QED
    BY <2>1, <2>2
<1>3. fees' \in Int
  BY <1>1 DEF Settle, IInv, TxTypes
<1>4. net' \in [Assets -> Int]
  <2>1. \A x \in Assets : net[x] \in Int /\ Returned(tx, x) \in Int
    BY <1>1, TradedType DEF IInv
  <2>2. \A x \in Assets : net[x] - Returned(tx, x) \in Int
    BY <2>1
  <2>3. net \in [Assets -> Int]
    BY DEF IInv
  <2> QED
    BY <2>2, <2>3 DEF Settle
<1> QED
  BY <1>1, <1>2, <1>3, <1>4, LastStep

(* One of the orders is cancelled.                                         *)
LEMMA CancelNextIInv ==
  ASSUME IInv, CancelNext
  PROVE  IInv'
<1> DEFINE ids == tx.ids \ {NextToCancel}
<1>1. /\ Consistent(book, acct, counter) /\ tx \in TxTypes /\ TxOK(tx, counter)
      /\ Cancelling /\ counter' = counter
  BY DEF IInv, TxOK, CancelNext
<1>2. Consistent(book', acct', counter)
  <2>1. tx.side \in Sides
    BY <1>1 DEF TxTypes
  <2> QED
    BY <1>1, <2>1, CancelConsistent DEF CancelNext
<1>3. ids \in SUBSET (Nat \X MarketOrderIds)
  BY <1>1 DEF TxTypes
<1>4. tx' = [tx EXCEPT !.ids = ids]
  BY <1>1 DEF CancelNext, TxTypes
<1> HIDE DEF ids
<1>5. /\ tx' \in TxTypes /\ tx'.status = tx.status /\ tx'.taker = tx.taker
  BY <1>1, <1>3, <1>4 DEF TxTypes
<1>6. TxOK(tx', counter)
  BY <1>1, <1>5 DEF TxOK, IsMatch, Cancelling
<1> QED
  BY <1>1, <1>2, <1>5, <1>6, WithinStep DEF CancelNext, Cancelling, Idle

(* No order is left to cancel.                                             *)
LEMMA CancelDoneIInv ==
  ASSUME IInv, CancelDone
  PROVE  IInv'
BY LastStep DEF IInv, CancelDone

(* An assertion fails, and the snapshot is restored.                       *)
LEMMA RollbackIInv ==
  ASSUME IInv, Rollback
  PROVE  IInv'
<1>1. tx.status # "idle"
  BY DEF Rollback, Aborts, Matching, Settling, Cancelling
<1>2. saved \in States /\ Consistent(saved.book, saved.acct, saved.counter)
  BY <1>1 DEF IInv, SavedOK
<1>3. saved.fees \in Int /\ saved.net \in [Assets -> Int]
  BY <1>2 DEF States
<1> QED
  BY <1>2, <1>3, LastStep DEF Rollback

-----------------------------------------------------------------------------
(* The invariant is inductive.                                             *)
LEMMA NextIInv ==
  IInv /\ [Next]_vars => IInv'
<1> SUFFICES ASSUME IInv, [Next]_vars PROVE IInv'
  OBVIOUS
<1>1. CASE Collateral
  BY <1>1, DepositAssetIInv, WithdrawAssetIInv DEF Collateral
<1>2. CASE LimitOrder
  <2>1. PICK a \in Traders, side \in Sides, size \in Sizes, price \in Prices,
             restriction \in Restrictions :
          \/ PlaceLimitOrderInSpread(a, side, size, price, restriction)
          \/ \E behavior \in Behaviors :
               PlaceLimitOrderAcrossSpread(a, side, size, price, restriction,
                                           behavior)
    BY <1>2 DEF LimitOrder
  <2>2. size \in Nat /\ price \in Nat /\ restriction \in AllRestrictions
    BY InputAssumption
  <2>3. CASE PlaceLimitOrderInSpread(a, side, size, price, restriction)
    BY <2>2, <2>3, InSpreadIInv
  <2>4. CASE \E behavior \in Behaviors :
               PlaceLimitOrderAcrossSpread(a, side, size, price, restriction,
                                           behavior)
    <3>1. PICK behavior \in AllBehaviors :
            PlaceLimitOrderAcrossSpread(a, side, size, price, restriction,
                                        behavior)
      BY <2>4, InputAssumption
    <3> QED
      BY <2>2, <3>1, AcrossSpreadIInv
  <2> QED
    BY <2>1, <2>3, <2>4
<1>3. CASE MarketOrder
  <2>1. PICK a \in Traders, side \in Sides, size \in Nat,
             behavior \in AllBehaviors : PlaceMarketOrder(a, side, size, behavior)
    BY <1>3, InputAssumption DEF MarketOrder
  <2> QED
    BY <2>1, MarketOrderIInv
<1>4. CASE SwapOrder
  <2>1. PICK a \in Traders \cup {NoTaker}, side \in Sides, b \in Bounds,
             limit \in Nat : Swap(a, side, b, limit)
    BY <1>4, InputAssumption DEF SwapOrder
  <2> QED
    BY <2>1, SwapIInv
<1>5. CASE PassiveAdvance
  <2>1. PICK a \in Traders, side \in Sides, size \in Nat, target \in AdvanceTargets :
          PlaceLimitOrderPassiveAdvance(a, side, size, target[1], target[2])
    BY <1>5, InputAssumption DEF PassiveAdvance
  <2> DEFINE price == AdvancePrice(side, target[1], target[2])
  <2>2. PlaceLimitOrderInSpread(a, side, size, price, "postOrAbort")
    BY <2>1 DEF PlaceLimitOrderPassiveAdvance
  <2> HIDE DEF price
  <2> QED
    BY <2>2, InSpreadIInv
<1>6. CASE Cancel
  BY <1>6, InputAssumption, ManualCancelIInv DEF Cancel
<1>7. CASE CancelAll
  BY <1>7, InputAssumption, CancelAllOrdersIInv DEF CancelAll
<1>8. CASE Resize
  BY <1>8, ChangeSizeIInv DEF Resize
<1>9. CASE Proceed
  BY <1>9, MatchExitIInv, MatchSelfIInv, MatchFillIInv, SettleIInv,
     CancelNextIInv, CancelDoneIInv, RollbackIInv DEF Proceed
<1>10. CASE UNCHANGED vars
  BY <1>10 DEF vars, IInv
<1> QED
  BY <1>1, <1>2, <1>3, <1>4, <1>5, <1>6, <1>7, <1>8, <1>9, <1>10
     DEF Next, Begin

(* The invariant holds at every step of every transaction.                 *)
THEOREM Invariance == Spec => []IInv
BY InitIInv, NextIInv, PTL DEF Spec

(* Every variable, coins in flight and the snapshot included, has its type.*)
THEOREM TypeCorrect == Spec => []TypeOK
BY Invariance, IInvTypes, PTL

(* The order book (market.move) and the market accounts (user.move) hold   *)
(* the same orders, each linked to the other by its keys: what the start   *)
(* size, order ID, access key and insertion key assertions of both check.  *)
THEOREM BookAndAccountsAgree == Spec => []BookMatchesAccounts
<1>1. IInv => BookMatchesAccounts
  BY IInvSafety
<1> QED
  BY <1>1, Invariance, PTL

(* Asks and bids stay sorted (avl_queue.move): the best is always first.   *)
THEOREM BooksSorted == Spec => []Sorted
<1>1. IInv => Sorted
  BY IInvSafety
<1> QED
  BY <1>1, Invariance, PTL

(* List nodes are neither lost nor shared, and at most NNodesMax exist:    *)
(* the stack of inactive list nodes of avl_queue.move is exact.            *)
THEOREM NodesKept == Spec => []NodesPartitioned
<1>1. IInv => NodesPartitioned
  BY IInvSafety
<1> QED
  BY <1>1, Invariance, PTL

(* Access keys are neither lost nor on their stack twice: the inactive     *)
(* stacks of user.move, threaded through the size of inactive orders.      *)
THEOREM AccessKeysKept == Spec => []InactiveKeysChained
<1>1. IInv => InactiveKeysChained
  BY IInvSafety
<1> QED
  BY <1>1, Invariance, PTL

(* No order rests without lots: the branch of match that evicts an empty   *)
(* order at the head is never taken, whatever the fills and size changes.  *)
THEOREM NoneEmpty == Spec => []NoEmptyOrders
<1>1. IInv => NoEmptyOrders
  BY IInvSafety
<1> QED
  BY <1>1, Invariance, PTL

-----------------------------------------------------------------------------
(* The steps of the market, case by case, for the proofs about them.       *)

(* Every step of the market, its inputs typed.                             *)
LEMMA StepCases ==
  ASSUME [Next]_vars
  PROVE  \/ \E a \in Traders, x \in Assets, amount \in Nat :
              DepositAsset(a, x, amount) \/ WithdrawAsset(a, x, amount)
         \/ \E a \in Traders, side \in Sides, size \in Nat, price \in Nat,
               restriction \in AllRestrictions :
              PlaceLimitOrderInSpread(a, side, size, price, restriction)
         \/ \E a \in Traders, side \in Sides, size \in Nat, price \in Nat,
               restriction \in AllRestrictions, behavior \in AllBehaviors :
              PlaceLimitOrderAcrossSpread(a, side, size, price, restriction,
                                          behavior)
         \/ \E a \in Traders, side \in Sides, size \in Nat,
               behavior \in AllBehaviors :
              PlaceMarketOrder(a, side, size, behavior)
         \/ \E a \in Traders \cup {NoTaker}, side \in Sides, b \in Bounds,
               limit \in Nat : Swap(a, side, b, limit)
         \/ \E a \in Traders, side \in CancelSides : \E id \in IssuedIds(side) :
              ManualCancel(a, side, id)
         \/ \E a \in Traders, side \in Sides : CancelAllOrders(a, side)
         \/ \E a \in Traders, side \in Sides, newSize \in NewSizes :
              \E id \in IssuedIds(side) : ChangeSize(a, side, id, newSize)
         \/ MatchExit \/ MatchSelf \/ MatchFill
         \/ Settle \/ CancelNext \/ CancelDone \/ Rollback
         \/ UNCHANGED vars
<1>1. CASE Collateral
  BY <1>1, InputAssumption DEF Collateral
<1>2. CASE LimitOrder
  <2>1. PICK a \in Traders, side \in Sides, size \in Nat, price \in Nat,
             restriction \in AllRestrictions :
          \/ PlaceLimitOrderInSpread(a, side, size, price, restriction)
          \/ \E behavior \in AllBehaviors :
               PlaceLimitOrderAcrossSpread(a, side, size, price, restriction,
                                           behavior)
    BY <1>2, InputAssumption DEF LimitOrder
  <2> QED
    BY <2>1
<1>3. CASE MarketOrder
  BY <1>3, InputAssumption DEF MarketOrder
<1>4. CASE SwapOrder
  BY <1>4, InputAssumption DEF SwapOrder
<1>5. CASE PassiveAdvance
  <2>1. PICK a \in Traders, side \in Sides, size \in Nat, target \in AdvanceTargets :
          PlaceLimitOrderPassiveAdvance(a, side, size, target[1], target[2])
    BY <1>5, InputAssumption DEF PassiveAdvance
  <2> DEFINE price == AdvancePrice(side, target[1], target[2])
  <2>2. PlaceLimitOrderInSpread(a, side, size, price, "postOrAbort")
    BY <2>1 DEF PlaceLimitOrderPassiveAdvance
  <2>3. "postOrAbort" \in AllRestrictions
    BY DEF AllRestrictions
  <2> HIDE DEF price
  <2>4. price \in Nat
    BY <2>2, UnitsAssumption DEF PlaceLimitOrderInSpread, CheckLimitOrder
  <2> QED
    BY <2>2, <2>3, <2>4
<1>6. CASE Cancel
  BY <1>6 DEF Cancel
<1>7. CASE CancelAll
  BY <1>7, InputAssumption DEF CancelAll
<1>8. CASE Resize
  BY <1>8 DEF Resize
<1>9. CASE Proceed
  BY <1>9 DEF Proceed
<1>10. CASE UNCHANGED vars
  BY <1>10
<1> QED
  BY <1>1, <1>2, <1>3, <1>4, <1>5, <1>6, <1>7, <1>8, <1>9, <1>10
     DEF Next, Begin

(* A transaction keeps the snapshot it began with.                         *)
LEMMA SavedStep ==
  ASSUME IInv, [Next]_vars
  PROVE  /\ Idle /\ ~Idle' => saved' = State
         /\ ~Idle /\ ~Idle' => saved' = saved
<1>1. tx \in TxTypes
  BY DEF IInv, TxOK
<1>2. CASE \E a \in Traders, x \in Assets, amount \in Nat :
             DepositAsset(a, x, amount) \/ WithdrawAsset(a, x, amount)
  BY <1>2 DEF DepositAsset, WithdrawAsset, Idle
<1>3. CASE \E a \in Traders, side \in Sides, size \in Nat, price \in Nat,
               restriction \in AllRestrictions :
              PlaceLimitOrderInSpread(a, side, size, price, restriction)
  BY <1>3 DEF PlaceLimitOrderInSpread, Idle
<1>4. CASE \E kind, a, side, size, price, restriction, behavior, b :
             BeginMatch(kind, a, side, size, price, restriction, behavior, b)
  BY <1>4 DEF BeginMatch, Idle
<1>5. CASE \E a \in Traders, side \in Sides, size \in Nat, price \in Nat,
               restriction \in AllRestrictions, behavior \in AllBehaviors :
              PlaceLimitOrderAcrossSpread(a, side, size, price, restriction,
                                          behavior)
  BY <1>4, <1>5 DEF PlaceLimitOrderAcrossSpread, BeginFromAccount
<1>6. CASE \E a \in Traders, side \in Sides, size \in Nat,
               behavior \in AllBehaviors :
              PlaceMarketOrder(a, side, size, behavior)
  BY <1>4, <1>6 DEF PlaceMarketOrder, BeginFromAccount
<1>7. CASE \E a \in Traders \cup {NoTaker}, side \in Sides, b \in Bounds,
               limit \in Nat : Swap(a, side, b, limit)
  BY <1>4, <1>7 DEF Swap
<1>8. CASE \E a \in Traders, side \in CancelSides : \E id \in IssuedIds(side) :
             ManualCancel(a, side, id)
  BY <1>8 DEF ManualCancel, Idle
<1>9. CASE \E a \in Traders, side \in Sides : CancelAllOrders(a, side)
  BY <1>9 DEF CancelAllOrders, Idle
<1>10. CASE \E a \in Traders, side \in Sides, newSize \in NewSizes :
              \E id \in IssuedIds(side) : ChangeSize(a, side, id, newSize)
  BY <1>10 DEF ChangeSize, Idle
<1>11. CASE MatchExit \/ MatchSelf \/ MatchFill \/ CancelNext
  BY <1>11 DEF MatchExit, MatchSelf, MatchFill, CancelNext, Idle, Matching,
               Cancelling
<1>12. CASE Settle \/ CancelDone \/ Rollback
  BY <1>12, NoTxType DEF Settle, CancelDone, Rollback, End, Idle
<1>13. CASE UNCHANGED vars
  BY <1>13 DEF vars, Idle
<1> QED
  BY <1>2, <1>3, <1>5, <1>6, <1>7, <1>8, <1>9, <1>10, <1>11, <1>12, <1>13,
     StepCases

-----------------------------------------------------------------------------
(* What a step of a match fills.                                           *)

(* What is left of a division.                                             *)
LEMMA DivLess ==
  ASSUME NEW n \in Nat, NEW d \in Nat \ {0}
  PROVE  /\ n \div d \in Nat
         /\ (n \div d) * d <= n
         /\ n < (n \div d) * d + d
OBVIOUS

(* The lots that remain of a limit order that rests.                       *)
LEMMA RemainingType ==
  ASSUME IInv, Rests
  PROVE  Remaining \in Nat \ {0}
<1>1. Traded(tx, "base") \in Int /\ tx.size \in Nat
  BY TradedType DEF IInv, TxOK, TxTypes, Assets
<1>2. Traded(tx, "base") \div LotSize \in Int
  BY <1>1, UnitsAssumption
<1>3. Remaining \in Int
  BY <1>1, <1>2 DEF Remaining
<1> QED
  BY <1>3 DEF Rests

(* How many lots a step of a match fills.                                  *)
FillSize == IF CompletesFill THEN HeadEntry.value.size ELSE MaxFillSize

(* The order at the head and what is filled of it.                         *)
LEMMA FillFacts ==
  ASSUME IInv, MatchFill
  PROVE  /\ HeadEntry.key \in Nat \ {0}
         /\ HeadEntry.value.size \in Nat \ {0}
         /\ HeadEntry.value.user \in Traders
         /\ HeadEntry.value.access
              \in ActiveKeys(acct[HeadEntry.value.user], Makers)
         /\ tx.lots \in Nat /\ tx.ticks \in Nat
         /\ FillSize \in Nat \ {0}
         /\ tx.lots - FillSize \in Nat
         /\ tx.ticks - FillSize * HeadEntry.key \in Nat
         /\ ~CompletesFill => /\ HeadEntry.value.size - MaxFillSize \in Nat \ {0}
                              /\ \/ tx.lots - FillSize = 0
                                 \/ tx.ticks - FillSize * HeadEntry.key
                                      < HeadEntry.key
<1> DEFINE price == HeadEntry.key
           left == HeadEntry.value.size
           most == MaxFillSize
           size == FillSize
<1>1. EntryFacts(book[Makers], 1, acct, Makers, counter)
  BY HeadFacts DEF MatchFill, HasMatch
<1>2. /\ price \in 1..HI_PRICE /\ price \in Nat /\ left \in Nat \ {0}
      /\ HeadEntry.value.user \in Traders
      /\ HeadEntry.value.access \in ActiveKeys(acct[HeadEntry.value.user], Makers)
  BY <1>1, Zenon DEF EntryFacts, HeadEntry
<1>3. tx.lots \in Nat /\ tx.ticks \in Nat
  BY DEF IInv, TxOK, TxTypes
<1>4. most > 0 /\ most = MinOf(tx.ticks \div price, tx.lots)
  BY DEF MatchFill, HasMatch, MaxFillSize
<1>5. /\ CompletesFill => size = left
      /\ ~CompletesFill => size = most
      /\ CompletesFill <=> most >= left
  BY DEF FillSize, CompletesFill
<1> HIDE DEF price, left, most, size
<1>6. price \in Nat \ {0}
  BY <1>2, UnitsAssumption
<1>7. tx.ticks \div price \in Nat
  BY <1>3, <1>6, DivNat
<1>8. most \in Nat /\ most <= tx.lots /\ most <= tx.ticks \div price
  BY <1>3, <1>4, <1>7 DEF MinOf
<1>9. size \in Nat \ {0} /\ size <= most
  BY <1>2, <1>4, <1>5, <1>8
<1>10. size <= tx.ticks \div price /\ size <= tx.lots
  BY <1>3, <1>7, <1>8, <1>9
<1>11. tx.lots - size \in Nat
  BY <1>3, <1>9, <1>10
<1>12. tx.ticks - size * price \in Nat
  BY <1>3, <1>6, <1>9, <1>10, FillBound
<1>13. ~CompletesFill => left - most \in Nat \ {0}
  BY <1>2, <1>5, <1>8
<1>14. ASSUME ~CompletesFill
       PROVE  tx.lots - size = 0 \/ tx.ticks - size * price < price
  <2>1. size = most
    BY <1>5, <1>14
  <2>2. CASE most = tx.lots
    BY <1>3, <2>1, <2>2
  <2>3. CASE most # tx.lots
    <3> DEFINE quotient == tx.ticks \div price
    <3>1. size = quotient
      BY <1>4, <2>1, <2>3 DEF MinOf
    <3>2. tx.ticks < quotient * price + price
      BY <1>3, <1>6, DivLess, Zenon
    <3>3. quotient * price \in Nat
      BY <1>6, <1>7, TimesNat
    <3> HIDE DEF quotient
    <3>4. size * price = quotient * price
      BY <3>1
    <3>5. tx.ticks - quotient * price < price
      BY <1>3, <1>6, <3>2, <3>3
    <3> QED
      BY <3>4, <3>5
  <2> QED
    BY <2>2, <2>3
<1> QED
  BY <1>2, <1>3, <1>6, <1>9, <1>11, <1>12, <1>13, <1>14
     DEF price, left, most, size

-----------------------------------------------------------------------------
(* The keys of a queue, and how its operations change them.                *)

KeysOf(q) == {q.list[i].key : i \in DOMAIN q.list}

(* A removal adds no key.                                                  *)
LEMMA RemoveKeys ==
  ASSUME NEW q, IsQueue(q, BookOrders), NEW i \in 1..Len(q.list)
  PROVE  LET r == RemoveEntry(q, i)
         IN /\ IsQueue(r, BookOrders) /\ r.ascending = q.ascending
            /\ KeysOf(r) \subseteq KeysOf(q)
<1> DEFINE r == RemoveEntry(q, i)
           n == Len(q.list)
<1>1. n \in Nat /\ DOMAIN q.list = 1..n
  BY EntryProperties
<1>2. /\ IsQueue(r, BookOrders) /\ r.ascending = q.ascending
      /\ Len(r.list) = n - 1
      /\ \A j \in 1..n - 1 : r.list[j] = IF j < i THEN q.list[j] ELSE q.list[j + 1]
  BY RemoveProperties
<1> HIDE DEF r, n
<1>3. DOMAIN r.list = 1..n - 1
  BY <1>2, EntryProperties
<1>4. \A j \in 1..n - 1 : j \in 1..n /\ j + 1 \in 1..n
  BY <1>1
<1>5. KeysOf(r) \subseteq KeysOf(q)
  BY <1>1, <1>2, <1>3, <1>4, Zenon DEF KeysOf
<1> QED
  BY <1>2, <1>5 DEF r

(* An insertion adds no key but the new one.                               *)
LEMMA InsertKeys ==
  ASSUME NEW q, IsQueue(q, BookOrders), NEW key \in Nat, NEW value \in BookOrders,
         q.inactive # << >> \/ q.nNodes < NNodesMax
  PROVE  LET r == Insert(q, key, value)
         IN r.ascending = q.ascending /\ KeysOf(r) \subseteq KeysOf(q) \cup {key}
<1> DEFINE r == Insert(q, key, value)
           n == Len(q.list)
           p == Place(q, key)
<1>1. n \in Nat /\ DOMAIN q.list = 1..n
  BY EntryProperties
<1>2. p \in 1..n + 1
  BY PlaceProperties DEF IsQueue
<1>3. /\ IsQueue(r, BookOrders) /\ r.ascending = q.ascending
      /\ Len(r.list) = n + 1
      /\ \A j \in 1..n + 1 : r.list[j] = IF j < p THEN q.list[j]
                                         ELSE IF j = p THEN NewEntry(q, key, value)
                                         ELSE q.list[j - 1]
  BY InsertProperties
<1>4. NewEntry(q, key, value).key = key
  BY DEF NewEntry
<1> HIDE DEF r, n, p
<1>5. DOMAIN r.list = 1..n + 1
  BY <1>3, EntryProperties
<1>6. ASSUME NEW j \in 1..n + 1
      PROVE  r.list[j].key \in KeysOf(q) \cup {key}
  <2>1. CASE j < p
    <3>1. j \in 1..n /\ r.list[j] = q.list[j]
      BY <1>1, <1>2, <1>3, <2>1
    <3> QED
      BY <1>1, <3>1 DEF KeysOf
  <2>2. CASE j = p
    BY <1>3, <1>4, <2>2
  <2>3. CASE j > p
    <3>1. j - 1 \in 1..n /\ r.list[j] = q.list[j - 1]
      BY <1>1, <1>2, <1>3, <2>3
    <3> QED
      BY <1>1, <3>1 DEF KeysOf
  <2> QED
    BY <1>2, <2>1, <2>2, <2>3
<1>7. KeysOf(r) \subseteq KeysOf(q) \cup {key}
  BY <1>5, <1>6 DEF KeysOf
<1> QED
  BY <1>3, <1>7 DEF r

(* An insertion with eviction adds no key but the new one.                 *)
LEMMA InsertCheckEvictionKeys ==
  ASSUME NEW q, IsQueue(q, BookOrders), NEW key \in Nat, NEW value \in BookOrders
  PROVE  LET r == InsertCheckEviction(q, key, value)
         IN r.ascending = q.ascending /\ KeysOf(r) \subseteq KeysOf(q) \cup {key}
<1> DEFINE s == Evict(q)
<1>1. /\ IsQueue(s, BookOrders) /\ s.ascending = q.ascending
      /\ s.inactive # << >> \/ s.nNodes < NNodesMax
  BY EvictProperties
<1>2. KeysOf(s) \subseteq KeysOf(q)
  <2>1. CASE IsFull(q)
    <3>1. Len(q.list) \in 1..Len(q.list) /\ s = RemoveEntry(q, Len(q.list))
      BY <2>1, EvictProperties, EntryProperties, Zenon
    <3> QED
      BY <3>1, RemoveKeys
  <2>2. CASE ~IsFull(q)
    BY <2>2, EvictProperties, Zenon
  <2> QED
    BY <2>1, <2>2
<1> HIDE DEF s
<1>3. LET r == Insert(s, key, value)
      IN r.ascending = s.ascending /\ KeysOf(r) \subseteq KeysOf(s) \cup {key}
  BY <1>1, InsertKeys
<1> QED
  BY <1>1, <1>2, <1>3 DEF InsertCheckEviction, s

(* A change of size adds no key.                                           *)
LEMMA ResizeKeys ==
  ASSUME NEW q, IsQueue(q, BookOrders), NEW i \in 1..Len(q.list), NEW size \in Nat
  PROVE  LET r == ResizeAt(q, i, size)
         IN r.ascending = q.ascending /\ KeysOf(r) \subseteq KeysOf(q)
<1> DEFINE r == ResizeAt(q, i, size)
<1>1. /\ DOMAIN r.list = DOMAIN q.list
      /\ \A j \in DOMAIN q.list : r.list[j].key = q.list[j].key
  BY ResizeAtProperties
<1>2. r.ascending = q.ascending
  BY DEF ResizeAt, IsQueue, Queues
<1> HIDE DEF r
<1>3. KeysOf(r) \subseteq KeysOf(q)
  BY <1>1 DEF KeysOf
<1> QED
  BY <1>2, <1>3 DEF r

-----------------------------------------------------------------------------
(* No step but a rollback adds an order that crosses the spread.           *)

(* The sides of a book keep their direction, and get no key that they had  *)
(* not, but those of P on one side.                                        *)
Gains(b, b2, side, P) ==
  \A s \in Sides :
    /\ b2[s].ascending = b[s].ascending
    /\ KeysOf(b2[s]) \subseteq KeysOf(b[s]) \cup (IF s = side THEN P ELSE {})

(* One side of a book changes.                                             *)
LEMMA SideGains ==
  ASSUME NEW b \in Books, NEW side \in Sides, NEW q, NEW P,
         q.ascending = b[side].ascending, KeysOf(q) \subseteq KeysOf(b[side]) \cup P
  PROVE  Gains(b, [b EXCEPT ![side] = q], side, P)
<1>1. \A s \in Sides : [b EXCEPT ![side] = q][s] = IF s = side THEN q ELSE b[s]
  BY DEF Books
<1> QED
  BY <1>1 DEF Gains

(* The book does not change.                                               *)
LEMMA NothingGained ==
  ASSUME NEW b, NEW side
  PROVE  Gains(b, b, side, {})
BY DEF Gains

(* An access key is a number.                                              *)
LEMMA NextKeyType ==
  ASSUME NEW m, IsAccount(m), NEW side \in Sides
  PROVE  NextOrderAccessKey(m, side) \in Nat
<1>1. Len(m.orders[side]) \in Nat /\ m.top[side] \in Nat
  BY AccountParts DEF IsAccount
<1> QED
  BY <1>1 DEF NextOrderAccessKey

(* An order is posted, and maybe another evicted.                          *)
LEMMA PostGains ==
  ASSUME NEW c, NEW accts, Consistent(book, accts, c), NEW a \in Traders,
         NEW side \in Sides, NEW size \in Nat, NEW price \in Nat
  PROVE  Gains(book, PostedBook(accts, a, side, size, price), side, {price})
<1> DEFINE value == [user |-> a, size |-> size,
                     access |-> NextOrderAccessKey(accts[a], side)]
<1>1. book \in Books /\ IsQueue(book[side], BookOrders) /\ IsAccount(accts[a])
  BY DEF Consistent, Linked, AccountsOK
<1>2. value \in BookOrders
  BY <1>1, NextKeyType DEF BookOrders
<1> HIDE DEF value
<1> DEFINE r == InsertCheckEviction(book[side], price, value)
<1>3. /\ r.ascending = book[side].ascending
      /\ KeysOf(r) \subseteq KeysOf(book[side]) \cup {price}
  BY <1>1, <1>2, InsertCheckEvictionKeys
<1>4. PostedBook(accts, a, side, size, price) = [book EXCEPT ![side] = r]
  BY <1>1 DEF PostedBook, Books, value
<1> HIDE DEF r
<1>5. Gains(book, [book EXCEPT ![side] = r], side, {price})
  BY <1>1, <1>3, SideGains
<1> QED
  BY <1>4, <1>5

(* An order is cancelled.                                                  *)
LEMMA CancelGains ==
  ASSUME NEW c, Consistent(book, acct, c), NEW a, NEW side \in Sides, NEW id,
         Owns(a, side, id), CancelEffect(a, side, id)
  PROVE  Gains(book, book', side, {})
<1> DEFINE i == IndexOf(book[side], id.node)
<1>1. book \in Books /\ IsQueue(book[side], BookOrders)
  BY DEF Consistent, Linked
<1>2. i \in 1..Len(book[side].list)
  BY OwnedEntry, Zenon DEF Owns
<1>3. book' = [book EXCEPT ![side] = RemoveEntry(book[side], i)]
  BY <1>1 DEF CancelEffect, RemoveFromBook, Books
<1> HIDE DEF i
<1> QED
  BY <1>1, <1>2, <1>3, RemoveKeys, SideGains, Zenon

(* An order changes its size, at the price it has.                         *)
LEMMA ChangeSizeGains ==
  ASSUME IInv, NEW a, NEW side \in Sides, NEW newSize \in NewSizes, NEW id,
         ChangeSize(a, side, id, newSize)
  PROVE  Gains(book, book', side, {})
<1> DEFINE q == book[side]
           i == IndexOf(q, id.node)
           e == q.list[i]
           value == [e.value EXCEPT !.size = newSize]
<1>1. /\ Consistent(book, acct, counter) /\ book \in Books
      /\ IsQueue(q, BookOrders) /\ newSize \in Nat
  BY InputAssumption DEF IInv, Consistent, Linked
<1>2. i \in 1..Len(q.list) /\ EntryOf(side, id) = e
  BY <1>1, OwnedEntry, Zenon DEF ChangeSize
<1>3. id.price = e.key /\ e.key \in Nat /\ e.value \in BookOrders
  <2>1. EntryFacts(q, i, acct, side, counter)
    BY <1>1, <1>2, EntryInAccount
  <2>2. acct[e.value.user].orders[side][e.value.access].id = id
    BY <1>2, Zenon DEF ChangeSize, CanChangeOrderSize, CanCancelOrder
  <2> HIDE DEF i, q
  <2> QED
    BY <1>1, <1>2, <2>1, <2>2, EntryProperties, Zenon DEF EntryFacts
<1>4. value \in BookOrders
  BY <1>1, <1>3 DEF BookOrders
<1>5. book' = [book EXCEPT ![side] = ResizedBook(q, id, newSize)]
  BY <1>1 DEF ChangeSize, Books
<1>6. LET r == ResizedBook(q, id, newSize)
      IN r.ascending = q.ascending /\ KeysOf(r) \subseteq KeysOf(q)
  <2>1. CASE KeepsPlace(q, i, newSize)
    <3>1. ResizedBook(q, id, newSize) = ResizeAt(q, i, newSize)
      BY <2>1 DEF ResizedBook, ResizeAt
    <3> HIDE DEF i, q
    <3> QED
      BY <1>1, <1>2, <3>1, ResizeKeys
  <2>2. CASE ~KeepsPlace(q, i, newSize)
    <3>1. ResizedBook(q, id, newSize) = Insert(RemoveEntry(q, i), e.key, value)
      BY <1>3, <2>2 DEF ResizedBook
    <3>2. e.key \in KeysOf(q)
      BY <1>1, <1>2, EntryProperties DEF KeysOf
    <3> HIDE DEF i, q, e, value
    <3> DEFINE r == RemoveEntry(q, i)
    <3>3. /\ IsQueue(r, BookOrders) /\ r.ascending = q.ascending
          /\ KeysOf(r) \subseteq KeysOf(q) /\ r.inactive # << >>
      BY <1>1, <1>2, RemoveKeys, RemoveProperties
    <3> HIDE DEF r
    <3>4. LET s == Insert(r, e.key, value)
          IN s.ascending = r.ascending /\ KeysOf(s) \subseteq KeysOf(r) \cup {e.key}
      BY <1>3, <1>4, <3>3, InsertKeys
    <3> QED
      BY <3>1, <3>2, <3>3, <3>4 DEF r
  <2> QED
    BY <2>1, <2>2
<1> HIDE DEF q
<1> QED
  BY <1>1, <1>5, <1>6, SideGains, Zenon DEF q

(* A self match takes away the order at the head, or nothing.              *)
LEMMA MatchSelfGains ==
  ASSUME IInv, MatchSelf
  PROVE  Gains(book, book', Makers, {})
<1>1. /\ ~IsEmpty(book[Makers]) /\ book \in Books
      /\ IsQueue(book[Makers], BookOrders) /\ Makers \in Sides
  BY HeadFacts DEF MatchSelf, HasMatch, IInv, Consistent, Linked
<1>2. CASE CancelsMaker
  <2>1. book' = [book EXCEPT ![Makers] = RemoveEntry(book[Makers], 1)]
    BY <1>1, <1>2, HeadFacts DEF MatchSelf, Books
  <2> QED
    BY <1>1, <2>1, HeadFacts, RemoveKeys, SideGains, Zenon
<1>3. CASE ~CancelsMaker
  BY <1>3, NothingGained DEF MatchSelf
<1> QED
  BY <1>2, <1>3

(* A fill makes the order at the head smaller, or takes it away.           *)
LEMMA MatchFillGains ==
  ASSUME IInv, MatchFill
  PROVE  Gains(book, book', Makers, {})
<1> DEFINE q == book[Makers]
           left == q.list[1].value.size - MaxFillSize
<1>1. /\ ~IsEmpty(q) /\ book \in Books
      /\ IsQueue(q, BookOrders) /\ Makers \in Sides /\ 1 \in 1..Len(q.list)
  BY HeadFacts DEF MatchFill, HasMatch, IInv, Consistent, Linked
<1>2. CASE CompletesFill
  <2>1. book' = [book EXCEPT ![Makers] = RemoveEntry(q, 1)]
    BY <1>1, <1>2, HeadFacts DEF MatchFill, Books
  <2> QED
    BY <1>1, <2>1, RemoveKeys, SideGains, Zenon
<1>3. CASE ~CompletesFill
  <2>1. book' = [book EXCEPT ![Makers] = FillHead(q, MaxFillSize)]
    BY <1>1, <1>3 DEF MatchFill, Books
  <2> DEFINE r == ResizeAt(q, 1, left)
  <2>2. FillHead(q, MaxFillSize) = r
    BY DEF FillHead, ResizeAt
  <2>3. left \in Nat
    BY <1>3, FillFacts DEF HeadEntry
  <2> HIDE DEF left, q
  <2>4. r.ascending = q.ascending /\ KeysOf(r) \subseteq KeysOf(q)
    BY <1>1, <2>3, ResizeKeys
  <2> HIDE DEF r
  <2> QED
    BY <1>1, <2>1, <2>2, <2>4, SideGains, Zenon DEF q
<1> QED
  BY <1>2, <1>3

(* A price that does not cross the spread.                                 *)
Fits(side, P) == \A p \in P : p \in Nat /\ ~CrossesSpread(side, p)

(* The end of a match may post what remains of a limit order.              *)
LEMMA SettleGains ==
  ASSUME IInv, Settle
  PROVE  \E P : Fits(tx.side, P) /\ Gains(book, book', tx.side, P)
<1>1. tx.side \in Sides /\ tx.price \in Nat
  BY DEF IInv, TxOK, TxTypes
<1>2. CASE Rests
  <2>1. /\ Consistent(book, SettledAccounts, counter) /\ tx.taker \in Traders
        /\ Remaining \in Nat
    BY <1>2, SettledConsistent, RemainingType
       DEF Settle, Rests, IInv, TxOK, IsMatch, Settling
  <2>2. Gains(book, book', tx.side, {tx.price})
    BY <1>1, <1>2, <2>1, PostGains DEF Settle
  <2>3. Fits(tx.side, {tx.price})
    BY <1>1, <1>2 DEF Fits, Rests
  <2> QED
    BY <2>2, <2>3
<1>3. CASE ~Rests
  <2>1. book' = book
    BY <1>3 DEF Settle
  <2>2. Fits(tx.side, {})
    BY DEF Fits
  <2> QED
    BY <2>1, <2>2, NothingGained
<1> QED
  BY <1>2, <1>3

(* Every step but a rollback.                                              *)
LEMMA StepGains ==
  ASSUME IInv, [Next]_vars, ~Rollback
  PROVE  \E side \in Sides : \E P :
           Fits(side, P) /\ Gains(book, book', side, P)
<1>1. /\ Consistent(book, acct, counter) /\ "ask" \in Sides
      /\ \A side : Fits(side, {})
  BY DEF IInv, Sides, Fits
<1>2. CASE book' = book
  BY <1>1, <1>2, NothingGained
<1>3. CASE \E a \in Traders, side \in Sides, size \in Nat, price \in Nat,
               restriction \in AllRestrictions :
              PlaceLimitOrderInSpread(a, side, size, price, restriction)
  <2>1. PICK a \in Traders, side \in Sides, size \in Nat, price \in Nat,
             restriction \in AllRestrictions :
          PlaceLimitOrderInSpread(a, side, size, price, restriction)
    BY <1>3
  <2>2. CASE book' = PostedBook(acct, a, side, size, price)
    <3>1. Gains(book, book', side, {price})
      BY <1>1, <2>2, PostGains
    <3>2. Fits(side, {price})
      BY <2>1 DEF PlaceLimitOrderInSpread, Fits
    <3> QED
      BY <3>1, <3>2
  <2> QED
    BY <1>2, <2>1, <2>2 DEF PlaceLimitOrderInSpread
<1>4. CASE \E a \in Traders, side \in CancelSides : \E id \in IssuedIds(side) :
             ManualCancel(a, side, id)
  <2>1. PICK a \in Traders, side \in CancelSides :
          \E id \in IssuedIds(side) : ManualCancel(a, side, id)
    BY <1>4
  <2>2. PICK id \in IssuedIds(side) : ManualCancel(a, side, id)
    BY <2>1
  <2>3. side \in Sides
    BY InputAssumption
  <2> QED
    BY <1>1, <2>2, <2>3, CancelGains DEF ManualCancel
<1>5. CASE \E a \in Traders, side \in Sides, newSize \in NewSizes :
              \E id \in IssuedIds(side) : ChangeSize(a, side, id, newSize)
  <2>1. PICK a \in Traders, side \in Sides, newSize \in NewSizes :
          \E id \in IssuedIds(side) : ChangeSize(a, side, id, newSize)
    BY <1>5
  <2>2. PICK id \in IssuedIds(side) : ChangeSize(a, side, id, newSize)
    BY <2>1
  <2> QED
    BY <1>1, <2>2, ChangeSizeGains
<1>6. CASE MatchSelf \/ MatchFill
  <2>1. Makers \in Sides
    BY DEF Makers, Opposite, Sides
  <2> QED
    BY <1>1, <1>6, <2>1, MatchSelfGains, MatchFillGains
<1>7. CASE Settle
  <2>1. tx.side \in Sides
    BY DEF IInv, TxOK, TxTypes
  <2> QED
    BY <1>7, <2>1, SettleGains
<1>8. CASE CancelNext
  <2>1. tx.side \in Sides
    BY DEF IInv, TxOK, TxTypes
  <2> QED
    BY <1>1, <1>8, <2>1, CancelGains DEF CancelNext
<1>9. CASE \E a, x, amount : DepositAsset(a, x, amount) \/ WithdrawAsset(a, x, amount)
  BY <1>2, <1>9 DEF DepositAsset, WithdrawAsset
<1>10. CASE \E kind, a, side, size, price, restriction, behavior, b :
              BeginMatch(kind, a, side, size, price, restriction, behavior, b)
  BY <1>2, <1>10 DEF BeginMatch
<1>11. CASE \E a, side, size, price, restriction, behavior :
              \/ PlaceLimitOrderAcrossSpread(a, side, size, price, restriction,
                                             behavior)
              \/ PlaceMarketOrder(a, side, size, behavior)
  BY <1>10, <1>11
     DEF PlaceLimitOrderAcrossSpread, PlaceMarketOrder, BeginFromAccount
<1>12. CASE \E a, side, b, limit : Swap(a, side, b, limit)
  BY <1>10, <1>12 DEF Swap
<1>13. CASE MatchExit \/ CancelDone \/ UNCHANGED vars
          \/ \E a, side : CancelAllOrders(a, side)
  BY <1>2, <1>13, Zenon DEF MatchExit, CancelDone, CancelAllOrders, vars
<1> QED
  BY <1>3, <1>4, <1>5, <1>6, <1>7, <1>8, <1>9, <1>11, <1>12, <1>13, StepCases

-----------------------------------------------------------------------------
(* Bids and asks do not cross.                                             *)

Uncrossed(b) ==
  /\ b["ask"].ascending = TRUE /\ b["bid"].ascending = FALSE
  /\ \A k \in KeysOf(b["bid"]), l \in KeysOf(b["ask"]) : k < l

(* Nor did they when the transaction under way began.  A match takes from  *)
(* one side only, so that the book is uncrossed in the middle as well.     *)
UncrossedInv == Uncrossed(book) /\ (~Idle => Uncrossed(saved.book))

(* A price that would become the best of a side is better than all there.  *)
LEMMA BeyondHead ==
  ASSUME NEW q, IsQueue(q, BookOrders), NEW p \in Nat, WouldUpdateHead(q, p),
         NEW k \in KeysOf(q)
  PROVE  k \in Nat /\ IF q.ascending THEN p < k ELSE p > k
<1> DEFINE n == Len(q.list)
<1>1. /\ n \in Nat /\ DOMAIN q.list = 1..n
      /\ \A i \in 1..n : q.list[i].key \in Nat
  BY EntryProperties
<1>2. PICK i \in 1..n : k = q.list[i].key
  BY <1>1 DEF KeysOf
<1>3. 1 \in 1..n /\ ~IsEmpty(q)
  <2>1. q.list # << >>
    BY <1>1, <1>2, EmptySeq
  <2> HIDE DEF n
  <2> QED
    BY <1>1, <1>2, <2>1 DEF IsEmpty
<1> HIDE DEF n
<1>4. Precedes(q, p, q.list[1].key)
  BY <1>3 DEF WouldUpdateHead, HeadKey
<1>5. i = 1 \/ ~Precedes(q, q.list[i].key, q.list[1].key)
  BY <1>1, <1>2, <1>3 DEF IsQueue, SortedByKey
<1> QED
  BY <1>1, <1>2, <1>3, <1>4, <1>5 DEF Precedes

(* An order that does not cross the spread leaves the book uncrossed.      *)
LEMMA GainsUncrossed ==
  ASSUME NEW c, Consistent(book, acct, c), Uncrossed(book), NEW side \in Sides,
         NEW P, Fits(side, P), NEW b2, Gains(book, b2, side, P)
  PROVE  Uncrossed(b2)
<1>1. /\ IsQueue(book["ask"], BookOrders) /\ IsQueue(book["bid"], BookOrders)
      /\ "ask" \in Sides /\ "bid" \in Sides
  BY DEF Consistent, Linked, Sides
<1>2. \A k \in KeysOf(book["bid"]), l \in KeysOf(book["ask"]) : k < l
  BY DEF Uncrossed
<1>3. ASSUME NEW p \in P
      PROVE  /\ p \in Nat
             /\ side = "ask" => \A k \in KeysOf(book["bid"]) : k < p
             /\ side = "bid" => \A l \in KeysOf(book["ask"]) : p < l
  <2>1. p \in Nat /\ WouldUpdateHead(book[Opposite(side)], p)
    BY <1>3 DEF Fits, CrossesSpread
  <2>2. CASE side = "ask"
    <3>1. WouldUpdateHead(book["bid"], p)
      BY <2>1, <2>2 DEF Opposite
    <3>2. \A k \in KeysOf(book["bid"]) : k \in Nat /\ p > k
      BY <1>1, <2>1, <3>1, BeyondHead DEF Uncrossed
    <3> QED
      BY <2>1, <2>2, <3>2
  <2>3. CASE side = "bid"
    <3>1. WouldUpdateHead(book["ask"], p)
      BY <2>1, <2>3 DEF Opposite
    <3>2. \A k \in KeysOf(book["ask"]) : k \in Nat /\ p < k
      BY <1>1, <2>1, <3>1, BeyondHead DEF Uncrossed
    <3> QED
      BY <2>1, <2>3, <3>2
  <2> QED
    BY <2>2, <2>3 DEF Sides
<1>4. ASSUME NEW k \in KeysOf(b2["bid"]), NEW l \in KeysOf(b2["ask"])
      PROVE  k < l
  <2>1. /\ k \in KeysOf(book["bid"]) \/ (side = "bid" /\ k \in P)
        /\ l \in KeysOf(book["ask"]) \/ (side = "ask" /\ l \in P)
    BY <1>1 DEF Gains
  <2> QED
    BY <1>2, <1>3, <2>1
<1>5. b2["ask"].ascending = TRUE /\ b2["bid"].ascending = FALSE
  BY <1>1 DEF Gains, Uncrossed
<1> QED
  BY <1>4, <1>5 DEF Uncrossed

(* A new book is empty.                                                    *)
LEMMA InitUncrossed ==
  Init => UncrossedInv
<1> SUFFICES ASSUME Init PROVE UncrossedInv
  OBVIOUS
<1>1. /\ book["ask"] = New(TRUE) /\ book["bid"] = New(FALSE)
  BY Zenon DEF Init, Sides
<1>2. /\ New(TRUE).ascending = TRUE /\ New(FALSE).ascending = FALSE
      /\ KeysOf(New(TRUE)) = {}
  BY EmptyQueue DEF New, KeysOf
<1>3. Idle
  BY DEF Init, Idle, NoTx
<1> QED
  BY <1>1, <1>2, <1>3, Zenon DEF UncrossedInv, Uncrossed

(* No step crosses the book.                                               *)
LEMMA NextUncrossed ==
  IInv /\ UncrossedInv /\ [Next]_vars => UncrossedInv'
<1> SUFFICES ASSUME IInv, UncrossedInv, [Next]_vars PROVE UncrossedInv'
  OBVIOUS
<1>1. Uncrossed(book')
  <2>1. CASE Rollback
    <3>1. ~Idle /\ book' = saved.book
      BY <2>1 DEF Rollback, Aborts, Matching, Settling, Cancelling, Idle
    <3> QED
      BY <3>1 DEF UncrossedInv
  <2>2. CASE ~Rollback
    <3>1. PICK side \in Sides : \E P : Fits(side, P) /\ Gains(book, book', side, P)
      BY <2>2, StepGains
    <3>2. PICK P : Fits(side, P) /\ Gains(book, book', side, P)
      BY <3>1
    <3> QED
      BY <3>2, GainsUncrossed DEF IInv, UncrossedInv
  <2> QED
    BY <2>1, <2>2
<1>2. ~Idle' => Uncrossed(saved'.book)
  <2>1. ~Idle' => saved' = State \/ (~Idle /\ saved' = saved)
    BY SavedStep
  <2>2. State.book = book
    BY DEF State
  <2> QED
    BY <2>1, <2>2 DEF UncrossedInv
<1> QED
  BY <1>1, <1>2 DEF UncrossedInv

(* Between transactions every bid is below every ask, whatever evictions,  *)
(* size changes, partial matches and rollbacks came before: market.move    *)
(* posts an order only at a price that does not cross the spread.          *)
THEOREM BookStaysUncrossed == Spec => []BookNotCrossed
<1>1. UncrossedInv => BookNotCrossed
  BY DEF UncrossedInv, Uncrossed, KeysOf, BookNotCrossed
<1> QED
  BY <1>1, InitUncrossed, NextUncrossed, Invariance, PTL DEF Spec

-----------------------------------------------------------------------------
(* A match ends only when nothing is left to fill.                         *)

(* Steps that begin a match, those that begin to cancel all orders, those  *)
(* of a transaction under way, and transactions of a single step.          *)
LEMMA QuietStep ==
  ASSUME [Next]_vars
  PROVE  \/ \E kind, a, side, size, price, restriction, behavior, b :
              BeginMatch(kind, a, side, size, price, restriction, behavior, b)
         \/ \E a, side : CancelAllOrders(a, side)
         \/ MatchExit \/ MatchSelf \/ MatchFill
         \/ Settle \/ CancelNext \/ CancelDone \/ Rollback
         \/ Idle /\ tx' = tx
         \/ UNCHANGED vars
<1>1. CASE \E a, x, amount : DepositAsset(a, x, amount) \/ WithdrawAsset(a, x, amount)
  BY <1>1 DEF DepositAsset, WithdrawAsset
<1>2. CASE \E a, side, size, price, restriction :
             PlaceLimitOrderInSpread(a, side, size, price, restriction)
  BY <1>2 DEF PlaceLimitOrderInSpread
<1>3. CASE \E a, side, size, price, restriction, behavior :
              \/ PlaceLimitOrderAcrossSpread(a, side, size, price, restriction,
                                             behavior)
              \/ PlaceMarketOrder(a, side, size, behavior)
  BY <1>3
     DEF PlaceLimitOrderAcrossSpread, PlaceMarketOrder, BeginFromAccount
<1>4. CASE \E a, side, b, limit : Swap(a, side, b, limit)
  BY <1>4 DEF Swap
<1>5. CASE \E a, side, id : ManualCancel(a, side, id)
  BY <1>5 DEF ManualCancel
<1>6. CASE \E a, side, id, newSize : ChangeSize(a, side, id, newSize)
  BY <1>6 DEF ChangeSize
<1> QED
  BY <1>1, <1>2, <1>3, <1>4, <1>5, <1>6, StepCases

(* The best price of a side.                                               *)
LEMMA FirstKey ==
  ASSUME NEW q, IsQueue(q, BookOrders), EntriesOK(q), ~IsEmpty(q)
  PROVE  HeadKey(q) \in 1..HI_PRICE
<1>1. Len(q.list) \in Nat /\ DOMAIN q.list = 1..Len(q.list) /\ q.list # << >>
  BY EntryProperties DEF IsEmpty
<1>2. 1 \in DOMAIN q.list
  BY <1>1, EmptySeq, ListProperties DEF IsQueue
<1> QED
  BY <1>2 DEF HeadKey, EntriesOK

(* An order filled in part stays at the head.                              *)
LEMMA HeadStays ==
  ASSUME IInv, MatchFill, ~CompletesFill
  PROVE  HeadKey(book'[Makers]) = HeadEntry.key
<1> DEFINE q == book[Makers]
           left == HeadEntry.value.size - MaxFillSize
<1>1. /\ book \in Books /\ Makers \in Sides /\ 1 \in 1..Len(q.list)
      /\ IsQueue(q, BookOrders)
  BY HeadFacts DEF MatchFill, HasMatch, IInv, Consistent, Linked
<1>2. book'[Makers] = FillHead(q, MaxFillSize)
  BY <1>1 DEF MatchFill, Books
<1>3. left \in Nat
  BY FillFacts
<1>4. FillHead(q, MaxFillSize) = ResizeAt(q, 1, left)
  BY DEF FillHead, ResizeAt, HeadEntry
<1> HIDE DEF q, left
<1>5. ResizeAt(q, 1, left).list[1].key = q.list[1].key
  BY <1>1, <1>3, ResizeAtProperties, EntryProperties
<1> QED
  BY <1>2, <1>4, <1>5 DEF HeadKey, HeadEntry, q

(* The end of the loop of match.                                           *)
LEMMA NextExhaustive ==
  IInv /\ MatchIsExhaustive /\ [Next]_vars => MatchIsExhaustive'
<1> SUFFICES ASSUME IInv, MatchIsExhaustive, [Next]_vars,
                    Settling', ~tx'.selfCancel, ~IsEmpty(book'[Makers'])
             PROVE  LET price == HeadKey(book'[Makers'])
                    IN \/ tx'.lots = 0
                       \/ tx'.ticks < price
                       \/ IF tx'.side = "bid" THEN price > tx'.price
                                              ELSE price < tx'.price
  BY DEF MatchIsExhaustive
<1>0. tx \in TxTypes /\ book \in Books
  BY ConsistentTypes DEF IInv, TxOK
<1>1. CASE MatchExit
  <2>1. /\ tx'.lots = tx.lots /\ tx'.ticks = tx.ticks /\ tx'.side = tx.side
        /\ tx'.price = tx.price /\ book' = book /\ Makers' = Makers
    BY <1>0, <1>1 DEF MatchExit, TxTypes, Makers
  <2>2. \/ ViolatesLimit(tx.side, tx.price, HeadEntry.key)
        \/ ~(MaxFillSize > 0)
    BY <1>1, <2>1 DEF MatchExit, HasMatch
  <2> DEFINE price == HeadEntry.key
  <2>3. price = HeadKey(book[Makers])
    BY DEF HeadEntry, HeadKey
  <2>4. CASE ViolatesLimit(tx.side, tx.price, price)
    BY <2>1, <2>3, <2>4 DEF ViolatesLimit
  <2>5. CASE ~(MaxFillSize > 0)
    <3>1. price \in 1..HI_PRICE
      BY <2>1, HeadFacts, Zenon DEF EntryFacts, HeadEntry
    <3>2. tx.lots \in Nat /\ tx.ticks \in Nat
      BY <1>0 DEF TxTypes
    <3>3. ~(MinOf(tx.ticks \div price, tx.lots) > 0)
      BY <2>5 DEF MaxFillSize
    <3> HIDE DEF price
    <3>4. price \in Nat \ {0}
      BY <3>1, UnitsAssumption
    <3>5. tx.ticks \div price \in Nat
      BY <3>2, <3>4, DivNat
    <3>6. tx.lots = 0 \/ tx.ticks \div price = 0
      BY <3>2, <3>3, <3>5 DEF MinOf
    <3>7. tx.ticks \div price = 0 => tx.ticks < price
      BY <3>2, <3>4, DivLess
    <3> QED
      BY <2>1, <2>3, <3>6, <3>7
  <2> QED
    BY <2>2, <2>4, <2>5
<1>2. CASE MatchSelf
  <2>1. /\ tx'.selfCancel = CancelsTaker
        /\ tx'.status = IF CancelsTaker THEN "settling" ELSE tx.status
    BY <1>0, <1>2 DEF MatchSelf, TxTypes
  <2> QED
    BY <1>2, <2>1 DEF MatchSelf, Matching, Settling
<1>3. CASE MatchFill
  <2> DEFINE price == HeadEntry.key
             lots == tx.lots - FillSize
             ticks == tx.ticks - FillSize * price
  <2>1. /\ tx'.lots = lots /\ tx'.ticks = ticks /\ tx'.side = tx.side
        /\ Makers' = Makers
        /\ tx'.status = IF ~CompletesFill \/ lots = 0 \/ ticks = 0
                        THEN "settling" ELSE tx.status
    BY <1>0, <1>3 DEF MatchFill, TxTypes, Makers, FillSize
  <2>2. ~CompletesFill \/ lots = 0 \/ ticks = 0
    BY <1>3, <2>1 DEF MatchFill, Matching, Settling
  <2>3. CASE lots = 0
    BY <2>1, <2>3
  <2>4. CASE ticks = 0
    <3>1. Consistent(book', acct', counter') /\ Makers' \in Sides
      BY NextIInv DEF IInv, Makers, Opposite, Sides
    <3>2. IsQueue(book'[Makers'], BookOrders) /\ EntriesOK(book'[Makers'])
      BY <3>1 DEF Consistent, Linked
    <3>3. HeadKey(book'[Makers']) \in 1..HI_PRICE
      BY <3>2, FirstKey
    <3>4. 0 < HeadKey(book'[Makers'])
      BY <3>3, UnitsAssumption
    <3> QED
      BY <2>1, <2>4, <3>4
  <2>5. CASE ~CompletesFill /\ lots # 0
    <3>1. ticks < price
      BY <1>3, <2>5, FillFacts
    <3>2. HeadKey(book'[Makers]) = price
      BY <1>3, <2>5, HeadStays
    <3> QED
      BY <2>1, <3>1, <3>2
  <2> QED
    BY <2>2, <2>3, <2>4, <2>5
<1>4. CASE CancelNext
  BY <1>0, <1>4 DEF CancelNext, Cancelling, Settling, TxTypes
<1>5. CASE Settle \/ CancelDone \/ Rollback
  BY <1>5, NoTxType DEF Settle, CancelDone, Rollback, End, Settling
<1>6. CASE \E kind, a, side, size, price, restriction, behavior, b :
             BeginMatch(kind, a, side, size, price, restriction, behavior, b)
  BY <1>6 DEF BeginMatch, Settling, NoTx
<1>7. CASE \E a, side : CancelAllOrders(a, side)
  BY <1>7 DEF CancelAllOrders, Settling, NoTx
<1>8. CASE Idle /\ tx' = tx
  BY <1>8 DEF Idle, Settling
<1>9. CASE UNCHANGED vars
  <2>1. book' = book /\ tx' = tx /\ Makers' = Makers
    BY <1>9 DEF vars, Makers
  <2> QED
    BY <2>1 DEF MatchIsExhaustive, Settling
<1> QED
  BY <1>1, <1>2, <1>3, <1>4, <1>5, <1>6, <1>7, <1>8, <1>9, QuietStep

(* A new market settles nothing.                                           *)
LEMMA InitExhaustive ==
  Init => MatchIsExhaustive
BY NoTxType DEF Init, MatchIsExhaustive, Settling

(* Unless a self match stopped it, the loop of match (market.move) leaves  *)
(* no order at the head of the book that the taker could still fill.       *)
THEOREM MatchesAreExhaustive == Spec => []MatchIsExhaustive
BY InitExhaustive, NextExhaustive, Invariance, PTL DEF Spec

-----------------------------------------------------------------------------
(* What a match has traded so far, and the coins in flight.                *)

LotsTraded(t)  == MaxLots(t) - t.lots
TicksTraded(t) == MaxTicks(t) - t.ticks

(* The fees are no more than a fraction of the quote filled, no price is   *)
(* worse than the limit, and the coins are what was supplied and what was  *)
(* filled since.                                                           *)
Reckoned(t) ==
  /\ LotsTraded(t) >= 0 /\ TicksTraded(t) >= 0 /\ t.fees >= 0
  /\ t.fees * TakerFeeDivisor <= TicksTraded(t) * TickSize
  /\ IF t.side = "bid" THEN TicksTraded(t) <= t.price * LotsTraded(t)
                       ELSE TicksTraded(t) >= t.price * LotsTraded(t)
  /\ \A x \in Assets :
       t.coins[x] = IF x = InAsset(t.side) THEN Filled(t, x)
                                           ELSE t.bounds.max[x] - Filled(t, x)

(* The local variables of a match are numbers.                             *)
LEMMA MatchNumbers ==
  ASSUME NEW t \in TxTypes
  PROVE  /\ MaxLots(t) \in Nat /\ MaxTicks(t) \in Nat
         /\ t.lots \in Nat /\ t.ticks \in Nat /\ t.fees \in Int /\ t.price \in Nat
         /\ LotsTraded(t) \in Int /\ TicksTraded(t) \in Int
         /\ \A x \in Assets : /\ t.bounds.max[x] \in Nat /\ t.coins[x] \in Int
                              /\ Filled(t, x) \in Int
<1>1. /\ t.lots \in Nat /\ t.ticks \in Nat /\ t.fees \in Int /\ t.price \in Nat
      /\ t.bounds \in Bounds /\ t.coins \in [Assets -> Int]
  BY DEF TxTypes
<1>2. \A x \in Assets : t.bounds.max[x] \in Nat /\ t.coins[x] \in Int
  BY <1>1, BoundsType
<1>3. MaxLots(t) \in Nat
  BY <1>2, DivNat, UnitsAssumption DEF MaxLots, Assets
<1>4. MaxTicks(t) \in Nat
  <2>1. MaxQuoteMatch(t.side, t.bounds.max["quote"]) \in Nat
    BY <1>2, MaxQuoteMatchType DEF Assets
  <2> QED
    BY <2>1, DivNat, UnitsAssumption DEF MaxTicks
<1>5. LotsTraded(t) \in Int /\ TicksTraded(t) \in Int
  BY <1>1, <1>3, <1>4 DEF LotsTraded, TicksTraded
<1>6. LotSize \in Int /\ TickSize \in Int
  BY UnitsAssumption
<1>7. \A x \in Assets : Filled(t, x) \in Int
  BY <1>5, <1>6, TimesInt DEF Filled, LotsTraded, TicksTraded
<1> QED
  BY <1>1, <1>2, <1>3, <1>4, <1>5, <1>7

(* Before the first fill nothing has been traded.                          *)
LEMMA BeginReckoned ==
  ASSUME NEW kind, NEW a, NEW side \in Sides, NEW size, NEW price \in Nat,
         NEW restriction, NEW behavior, NEW b \in Bounds,
         BeginMatch(kind, a, side, size, price, restriction, behavior, b)
  PROVE  Reckoned(tx')
<1>1. /\ tx'.side = side /\ tx'.price = price /\ tx'.bounds = b /\ tx'.fees = 0
      /\ tx'.coins = Supplied(side, b)
      /\ tx'.lots = b.max["base"] \div LotSize
      /\ tx'.ticks = MaxQuoteMatch(side, b.max["quote"]) \div TickSize
  BY DEF BeginMatch, NoTx
<1>2. MaxLots(tx') = tx'.lots /\ MaxTicks(tx') = tx'.ticks
  BY <1>1 DEF MaxLots, MaxTicks
<1>3. tx'.lots \in Nat /\ tx'.ticks \in Nat
  <2>1. /\ b.max["base"] \in Nat /\ b.max["quote"] \in Nat
        /\ MaxQuoteMatch(side, b.max["quote"]) \in Nat
    BY BoundsType, MaxQuoteMatchType DEF Assets
  <2> QED
    BY <1>1, <2>1, DivNat, UnitsAssumption
<1>4. LotsTraded(tx') = 0 /\ TicksTraded(tx') = 0
  BY <1>2, <1>3 DEF LotsTraded, TicksTraded
<1>5. \A x \in Assets : Filled(tx', x) = 0
  BY <1>4, UnitsAssumption DEF Filled, LotsTraded, TicksTraded
<1>6. \A x \in Assets :
        tx'.coins[x] = IF x = InAsset(side) THEN Filled(tx', x)
                                            ELSE b.max[x] - Filled(tx', x)
  <2>1. \A x \in Assets : b.max[x] \in Nat /\ b.max[x] - 0 = b.max[x]
    BY BoundsType
  <2>2. \A x \in Assets : x = OutAsset(side) <=> x # InAsset(side)
    BY SidesApart
  <2> QED
    BY <1>1, <1>5, <2>1, <2>2 DEF Supplied
<1>7. 0 * TakerFeeDivisor = 0 /\ 0 * TickSize = 0 /\ price * 0 = 0
  BY UnitsAssumption, MarketAssumption
<1> QED
  BY <1>1, <1>4, <1>6, <1>7 DEF Reckoned

(* Products of integers.                                                   *)
LEMMA Distribute ==
  ASSUME NEW m \in Int, NEW n \in Int, NEW k \in Int
  PROVE  /\ (m + n) * k = m * k + n * k
         /\ k * (m + n) = k * m + k * n
OBVIOUS

(* ... and by a larger number.                                             *)
LEMMA TimesMono ==
  ASSUME NEW m \in Int, NEW n \in Int, m <= n, NEW k \in Nat
  PROVE  k * m <= n * k /\ m * k <= k * n
OBVIOUS

(* What a fill does to the local variables.                                *)
FillQuote == Units("quote", FillSize, HeadEntry.key)

LEMMA FillTx ==
  ASSUME IInv, MatchFill
  PROVE  /\ tx'.side = tx.side /\ tx'.price = tx.price /\ tx'.bounds = tx.bounds
         /\ tx'.kind = tx.kind /\ tx'.taker = tx.taker
         /\ tx'.status \in {"matching", "settling"}
         /\ tx'.lots = tx.lots - FillSize
         /\ tx'.ticks = tx.ticks - FillSize * HeadEntry.key
         /\ tx'.fees = tx.fees + FillQuote \div TakerFeeDivisor
         /\ LET in == InAsset(tx.side)
                out == OutAsset(tx.side)
            IN \A x \in Assets :
                 tx'.coins[x] =
                   IF x = in THEN tx.coins[in] + Units(in, FillSize, HeadEntry.key)
                   ELSE tx.coins[out] - Units(out, FillSize, HeadEntry.key)
<1> DEFINE in == InAsset(tx.side)
           out == OutAsset(tx.side)
           size == IF CompletesFill THEN HeadEntry.value.size ELSE MaxFillSize
           price == HeadEntry.key
           gain == Units(in, size, price)
           loss == Units(out, size, price)
           lots == tx.lots - size
           ticks == tx.ticks - size * price
           paid == tx.fees + Units("quote", size, price) \div TakerFeeDivisor
           coins == [tx.coins EXCEPT ![in] = @ + gain, ![out] = @ - loss]
           status == IF ~CompletesFill \/ lots = 0 \/ ticks = 0
                     THEN "settling" ELSE "matching"
<1>1. tx \in TxTypes /\ Matching /\ tx.side \in Sides
  BY DEF IInv, TxOK, MatchFill, TxTypes
<1>2. tx.coins \in [Assets -> Int]
  BY <1>1 DEF TxTypes
<1>3. tx' = [tx EXCEPT !.lots = lots, !.ticks = ticks,
                       !.coins[in] = @ + gain, !.coins[out] = @ - loss,
                       !.fees = paid,
                       !.status = IF ~CompletesFill \/ lots = 0 \/ ticks = 0
                                  THEN "settling" ELSE @]
  BY DEF MatchFill
<1>size. size = FillSize
  BY DEF FillSize
<1> HIDE DEF in, out, gain, loss, lots, ticks, paid
<1>4. /\ tx'.side = tx.side /\ tx'.price = tx.price /\ tx'.bounds = tx.bounds
      /\ tx'.kind = tx.kind /\ tx'.taker = tx.taker /\ tx'.status = status
      /\ tx'.lots = lots /\ tx'.ticks = ticks /\ tx'.fees = paid
      /\ tx'.coins = coins
  BY <1>1, <1>3 DEF TxTypes, Matching
<1> HIDE DEF coins
<1>5. status \in {"matching", "settling"}
  BY DEF status
<1>6. /\ in \in Assets /\ out \in Assets /\ in # out
      /\ \A x \in Assets : x = in \/ x = out
  BY <1>1, SidesApart DEF in, out
<1>7. \A x \in Assets :
        coins[x] = IF x = in THEN tx.coins[in] + gain ELSE tx.coins[out] - loss
  BY <1>2, <1>6 DEF coins
<1> HIDE DEF size, price
<1> QED
  BY <1>4, <1>5, <1>7, <1>size DEF in, out, gain, loss, lots, ticks, paid, price,
     FillQuote

(* Each fill adds to what was traded, at a price within the limit, and     *)
(* moves coins accordingly.                                                *)
LEMMA FillReckoned ==
  ASSUME IInv, MatchFill, Reckoned(tx)
  PROVE  Reckoned(tx')
<1> DEFINE s == FillSize
           k == HeadEntry.key
           L == LotsTraded(tx)
           T == TicksTraded(tx)
           fee == FillQuote \div TakerFeeDivisor
<1>1. /\ tx \in TxTypes /\ tx.side \in Sides
      /\ L \in Int /\ T \in Int /\ tx.fees \in Int /\ tx.price \in Nat
      /\ \A x \in Assets : /\ tx.bounds.max[x] \in Nat /\ tx.coins[x] \in Int
                           /\ Filled(tx, x) \in Int
  BY MatchNumbers DEF IInv, TxOK, TxTypes
<1>2. s \in Nat \ {0} /\ k \in Nat \ {0} /\ s \in Int /\ k \in Int
  <2>1. s \in Nat \ {0} /\ k \in Nat \ {0}
    BY FillFacts
  <2> HIDE DEF s, k
  <2> QED
    BY <2>1
<1>3. /\ LotSize \in Nat /\ TickSize \in Nat /\ LotSize \in Int /\ TickSize \in Int
      /\ TakerFeeDivisor \in Nat \ {0}
  BY UnitsAssumption, MarketAssumption
<1>4. s * k \in Nat /\ s * k \in Int
  <2> HIDE DEF s, k
  <2>1. s * k \in Nat
    BY <1>2, TimesNat
  <2> QED
    BY <2>1
<1>5. /\ FillQuote = (s * k) * TickSize /\ FillQuote \in Nat
      /\ \A x \in Assets :
           Units(x, s, k) = IF x = "base" THEN s * LotSize ELSE (s * k) * TickSize
  <2>1. FillQuote = (s * k) * TickSize
    BY DEF FillQuote, Units
  <2>2. \A x : Units(x, s, k) = IF x = "base" THEN s * LotSize ELSE (s * k) * TickSize
    BY DEF Units
  <2> HIDE DEF s, k
  <2>3. (s * k) * TickSize \in Nat
    BY <1>3, <1>4, TimesNat
  <2> QED
    BY <2>1, <2>2, <2>3
<1>6. fee \in Nat /\ fee * TakerFeeDivisor <= FillQuote
  BY <1>3, <1>5, DivLess
<1>7. IF tx.side = "bid" THEN k <= tx.price ELSE k >= tx.price
  <2>1. ~ViolatesLimit(tx.side, tx.price, HeadEntry.key)
    BY DEF MatchFill, HasMatch
  <2> HIDE DEF k
  <2>2. HeadEntry.key \in Int /\ tx.price \in Int
    BY <1>1, <1>2 DEF k
  <2> QED
    BY <2>1, <2>2 DEF ViolatesLimit, k
<1>8. /\ LotsTraded(tx') = L + s /\ TicksTraded(tx') = T + s * k
      /\ tx'.fees = tx.fees + fee
  <2>1. /\ tx'.side = tx.side /\ tx'.bounds = tx.bounds
        /\ tx'.lots = tx.lots - s /\ tx'.ticks = tx.ticks - s * k
        /\ tx'.fees = tx.fees + fee
    BY FillTx
  <2>2. /\ MaxLots(tx) \in Nat /\ MaxTicks(tx) \in Nat
        /\ tx.lots \in Nat /\ tx.ticks \in Nat
    BY <1>1, MatchNumbers
  <2>3. MaxLots(tx') = MaxLots(tx) /\ MaxTicks(tx') = MaxTicks(tx)
    BY <2>1 DEF MaxLots, MaxTicks
  <2> HIDE DEF s, k, fee
  <2>4. MaxLots(tx) - (tx.lots - s) = (MaxLots(tx) - tx.lots) + s
    BY <1>2, <2>2
  <2> DEFINE sk == s * k
  <2>5. sk \in Int
    BY <1>4
  <2> HIDE DEF sk
  <2>6. MaxTicks(tx) - (tx.ticks - sk) = (MaxTicks(tx) - tx.ticks) + sk
    BY <2>2, <2>5
  <2> QED
    BY <2>1, <2>3, <2>4, <2>6 DEF LotsTraded, TicksTraded, sk
<1>9. tx'.side = tx.side /\ tx'.price = tx.price /\ tx'.bounds = tx.bounds
  BY FillTx
<1> HIDE DEF s, k, L, T, fee
<1>10. L >= 0 /\ T >= 0 /\ tx.fees >= 0 /\ tx.fees * TakerFeeDivisor <= T * TickSize
  BY DEF Reckoned, L, T
<1>11. L + s >= 0 /\ T + s * k >= 0 /\ tx.fees + fee >= 0
  <2> DEFINE sk == s * k
  <2>1. sk \in Nat
    BY <1>4
  <2> HIDE DEF sk
  <2>2. L + s >= 0 /\ T + sk >= 0 /\ tx.fees + fee >= 0
    BY <1>1, <1>2, <1>6, <1>10, <2>1
  <2> QED
    BY <2>2 DEF sk
<1>12. (tx.fees + fee) * TakerFeeDivisor <= (T + s * k) * TickSize
  <2> DEFINE a == tx.fees * TakerFeeDivisor
             b == fee * TakerFeeDivisor
             c == T * TickSize
             d == (s * k) * TickSize
  <2>1. TakerFeeDivisor \in Int /\ fee \in Int
    BY <1>3, <1>6
  <2>2. (tx.fees + fee) * TakerFeeDivisor = a + b
    BY <1>1, <2>1, Distribute
  <2>3. (T + s * k) * TickSize = c + d
    BY <1>1, <1>3, <1>4, Distribute
  <2>4. a <= c /\ b <= d
    BY <1>5, <1>6, <1>10
  <2>5. a \in Int /\ b \in Int /\ c \in Int /\ d \in Int
    BY <1>1, <1>3, <1>4, <2>1, TimesInt
  <2> HIDE DEF a, b, c, d
  <2> QED
    BY <2>2, <2>3, <2>4, <2>5
<1>13. IF tx.side = "bid" THEN T + s * k <= tx.price * (L + s)
                          ELSE T + s * k >= tx.price * (L + s)
  <2> DEFINE p == tx.price
             sk == s * k
             pL == p * L
             ps == p * s
  <2>1. p \in Nat /\ p \in Int
    BY <1>1
  <2>2. p * (L + s) = pL + ps
    BY <1>1, <1>2, <2>1, Distribute
  <2>3. IF tx.side = "bid" THEN sk <= ps ELSE sk >= ps
    BY <1>1, <1>2, <1>7, <2>1, TimesMono
  <2>4. IF tx.side = "bid" THEN T <= pL ELSE T >= pL
    BY DEF Reckoned, L, T
  <2>5. sk \in Int /\ pL \in Int /\ ps \in Int
    BY <1>1, <1>2, <1>4, <2>1, TimesInt
  <2> HIDE DEF sk, pL, ps, p
  <2>6. IF tx.side = "bid" THEN T + sk <= pL + ps ELSE T + sk >= pL + ps
    BY <1>1, <2>3, <2>4, <2>5
  <2> QED
    BY <2>2, <2>6 DEF p, sk
<1>14. \A x \in Assets :
         tx'.coins[x] = IF x = InAsset(tx.side) THEN Filled(tx', x)
                        ELSE tx.bounds.max[x] - Filled(tx', x)
  <2> SUFFICES ASSUME NEW x \in Assets
               PROVE  tx'.coins[x] = IF x = InAsset(tx.side) THEN Filled(tx', x)
                                     ELSE tx.bounds.max[x] - Filled(tx', x)
    OBVIOUS
  <2> DEFINE u == Units(x, s, k)
             f == Filled(tx, x)
  <2>1. Filled(tx', x) = f + u
    <3>1. CASE x = "base"
      <4>1. Filled(tx', x) = (L + s) * LotSize /\ f = L * LotSize /\ u = s * LotSize
        BY <1>5, <1>8, <3>1 DEF Filled, LotsTraded, L
      <4> QED
        BY <1>1, <1>2, <1>3, <4>1, Distribute
    <3>2. CASE x # "base"
      <4>1. /\ Filled(tx', x) = (T + s * k) * TickSize /\ f = T * TickSize
            /\ u = (s * k) * TickSize
        BY <1>5, <1>8, <3>2 DEF Filled, TicksTraded, T
      <4> QED
        BY <1>1, <1>3, <1>4, <4>1, Distribute
    <3> QED
      BY <3>1, <3>2
  <2>2. tx'.coins[x] = IF x = InAsset(tx.side) THEN tx.coins[x] + u
                                               ELSE tx.coins[x] - u
    <3>1. x # InAsset(tx.side) => x = OutAsset(tx.side)
      BY <1>1, SidesApart
    <3> QED
      BY <3>1, FillTx DEF s, k
  <2>3. tx.coins[x] = IF x = InAsset(tx.side) THEN f ELSE tx.bounds.max[x] - f
    BY DEF Reckoned
  <2>4. u \in Int /\ f \in Int /\ tx.bounds.max[x] \in Int
    BY <1>1, <1>2, UnitsType
  <2> HIDE DEF u, f
  <2> QED
    BY <2>1, <2>2, <2>3, <2>4
<1> QED
  BY <1>8, <1>9, <1>11, <1>12, <1>13, <1>14 DEF Reckoned

(* Products of numbers in order are in order, and only those.              *)
LEMMA TimesOrder ==
  ASSUME NEW m \in Int, NEW n \in Int, NEW k \in Nat
  PROVE  /\ m <= n => m * k <= n * k
         /\ k > 0 /\ m * k <= n * k => m <= n
         /\ m >= 0 => m * k >= 0
         /\ m >= 0 /\ k > 0 => m <= m * k
OBVIOUS

(* Quote matched up to MaxQuoteMatch, and a fee on it rounded down, do not *)
(* exceed the maximum of a buyer.                                          *)
LEMMA QuoteWithFee ==
  ASSUME NEW maximum \in Nat, NEW f \in Int, NEW fee \in Int,
         f <= MaxQuoteMatch("bid", maximum), fee * TakerFeeDivisor <= f
  PROVE  f + fee <= maximum
<1> DEFINE d == TakerFeeDivisor
           n == d * maximum
           r == n \div (d + 1)
<1>1. d \in Nat \ {0, 1} /\ d \in Nat /\ d \in Int /\ d > 0 /\ d + 1 \in Nat \ {0}
  BY MarketAssumption
<1> HIDE DEF d
<1>2. n \in Nat /\ n \in Int
  <2>1. n \in Nat
    BY <1>1, TimesNat
  <2> HIDE DEF n
  <2> QED
    BY <2>1
<1>3. n = maximum * d
  BY <1>1
<1> HIDE DEF n
<1>4. r \in Nat /\ r * (d + 1) <= n
  BY <1>1, <1>2, DivLess, Zenon
<1>5. f <= r
  <2>1. MaxQuoteMatch("bid", maximum) = IF r > HI_64 THEN HI_64 ELSE r
    BY DEF MaxQuoteMatch, r, n, d
  <2> HIDE DEF r
  <2>2. HI_64 \in Nat
    BY UnitsAssumption
  <2> QED
    BY <1>4, <2>1, <2>2
<1> HIDE DEF r
<1>6. f * (d + 1) <= r * (d + 1)
  <2>1. r \in Int /\ d + 1 \in Nat
    BY <1>1, <1>4
  <2> QED
    BY <1>5, <2>1, TimesOrder
<1>7. f * (d + 1) = f * d + f
  BY <1>1
<1>8. (f + fee) * d = f * d + fee * d
  BY <1>1, Distribute
<1>9. (f + fee) * d <= maximum * d
  <2> DEFINE fd == f * d
             feed == fee * d
             rd == r * (d + 1)
             fd1 == f * (d + 1)
  <2>1. fd \in Int /\ feed \in Int /\ rd \in Int /\ fd1 \in Int
    <3>1. r \in Int /\ d + 1 \in Int
      BY <1>1, <1>4
    <3> QED
      BY <1>1, <3>1, TimesInt
  <2>2. feed <= f
    BY DEF d
  <2> HIDE DEF fd, feed, rd, fd1
  <2>3. fd + feed <= n
    BY <1>2, <1>4, <1>6, <1>7, <2>1, <2>2 DEF fd, feed, rd, fd1
  <2> QED
    BY <1>3, <1>8, <2>3 DEF fd, feed
<1>10. f + fee \in Int /\ maximum \in Int
  OBVIOUS
<1> QED
  BY <1>1, <1>9, <1>10, TimesOrder

(* What has been filled is within the maximum.                             *)
LEMMA FilledBounds ==
  ASSUME NEW t \in TxTypes, Reckoned(t)
  PROVE  /\ \A x \in Assets : Filled(t, x) \in Int /\ Filled(t, x) >= 0
         /\ Filled(t, "base") <= t.bounds.max["base"]
         /\ t.fees <= Filled(t, "quote")
         /\ t.side = "bid" => Filled(t, "quote") + t.fees <= t.bounds.max["quote"]
<1> DEFINE L == LotsTraded(t)
           T == TicksTraded(t)
           b == t.bounds.max["base"]
           q == t.bounds.max["quote"]
<1>1. /\ MaxLots(t) \in Nat /\ MaxTicks(t) \in Nat /\ t.lots \in Nat /\ t.ticks \in Nat
      /\ t.fees \in Int /\ L \in Int /\ T \in Int /\ b \in Nat /\ q \in Nat
      /\ \A x \in Assets : Filled(t, x) \in Int
  BY MatchNumbers DEF Assets
<1>2. /\ LotSize \in Nat \ {0} /\ TickSize \in Nat \ {0} /\ TakerFeeDivisor \in Nat
      /\ LotSize \in Nat /\ TickSize \in Nat /\ TakerFeeDivisor > 0
  BY UnitsAssumption, MarketAssumption
<1>3. Filled(t, "base") = L * LotSize /\ Filled(t, "quote") = T * TickSize
  BY DEF Filled, LotsTraded, TicksTraded
<1>4. L <= MaxLots(t) /\ T <= MaxTicks(t)
  BY <1>1 DEF LotsTraded, TicksTraded
<1>5. /\ L >= 0 /\ T >= 0 /\ t.fees >= 0 /\ t.fees * TakerFeeDivisor <= T * TickSize
  BY DEF Reckoned
<1> HIDE DEF L, T
<1>6. L * LotSize >= 0 /\ T * TickSize >= 0
  BY <1>1, <1>2, <1>5, TimesOrder
<1>7. Filled(t, "base") <= b
  <2>1. MaxLots(t) * LotSize <= b
    BY <1>1, <1>2, DivLess, Zenon DEF MaxLots
  <2>2. MaxLots(t) \in Int
    BY <1>1
  <2>3. L * LotSize <= MaxLots(t) * LotSize
    BY <1>1, <1>2, <1>4, <2>2, TimesOrder
  <2>4. L * LotSize \in Int /\ MaxLots(t) * LotSize \in Int /\ LotSize \in Int
    <3>1. LotSize \in Int
      BY <1>2
    <3> QED
      BY <1>1, <2>2, <3>1, TimesInt
  <2> DEFINE l == L * LotSize
             ml == MaxLots(t) * LotSize
  <2> HIDE DEF l, ml, b
  <2>5. l <= b
    BY <1>1, <2>1, <2>3, <2>4 DEF l, ml
  <2> QED
    BY <1>3, <2>5 DEF l
<1>8. t.fees <= Filled(t, "quote")
  <2>1. t.fees <= t.fees * TakerFeeDivisor
    BY <1>1, <1>2, <1>5, TimesOrder
  <2>2. t.fees * TakerFeeDivisor \in Int /\ T * TickSize \in Int
    <3>1. TakerFeeDivisor \in Int /\ TickSize \in Int
      BY <1>2
    <3> QED
      BY <1>1, <3>1, TimesInt
  <2> DEFINE p == t.fees * TakerFeeDivisor
             r == T * TickSize
  <2> HIDE DEF p, r
  <2>3. t.fees <= r
    BY <1>1, <1>5, <2>1, <2>2 DEF p, r
  <2> QED
    BY <1>3, <2>3 DEF r
<1>9. ASSUME t.side = "bid" PROVE Filled(t, "quote") + t.fees <= q
  <2> DEFINE m == MaxQuoteMatch("bid", q)
  <2>1. m \in Nat
    BY <1>1, MaxQuoteMatchType
  <2>2. MaxTicks(t) * TickSize <= m
    BY <1>2, <1>9, <2>1, DivLess DEF MaxTicks
  <2>3. MaxTicks(t) \in Int /\ TickSize \in Int
    BY <1>1, <1>2
  <2>4. T * TickSize <= MaxTicks(t) * TickSize
    BY <1>1, <1>2, <1>4, <2>3, TimesOrder
  <2>5. T * TickSize \in Int /\ MaxTicks(t) * TickSize \in Int
    BY <1>1, <2>3, TimesInt
  <2> DEFINE f == T * TickSize
             mt == MaxTicks(t) * TickSize
  <2> HIDE DEF f, mt, m
  <2>6. f <= m /\ f \in Int
    BY <2>1, <2>2, <2>4, <2>5 DEF f, mt
  <2>7. t.fees * TakerFeeDivisor <= f
    BY <1>5 DEF f
  <2> HIDE DEF q
  <2>8. f + t.fees <= q
    BY <1>1, <2>6, <2>7, QuoteWithFee DEF m
  <2> QED
    BY <1>3, <2>8 DEF f
<1>10. \A x \in Assets : Filled(t, x) >= 0
  BY <1>3, <1>6 DEF Assets
<1> QED
  BY <1>1, <1>7, <1>8, <1>9, <1>10

-----------------------------------------------------------------------------
(* The counters of every account match its orders.                         *)

Ledgers(accts) == \A a \in Traders : LedgerOK(accts[a])

(* One account changes.                                                    *)
LEMMA LedgersExcept ==
  ASSUME NEW accts, AccountsOK(accts), Ledgers(accts), NEW u, NEW m, LedgerOK(m)
  PROVE  Ledgers([accts EXCEPT ![u] = m])
<1>1. DOMAIN accts = Traders
  BY DEF AccountsOK
<1>2. \A a \in Traders :
        [accts EXCEPT ![u] = m][a] = IF a = u THEN m ELSE accts[a]
  BY <1>1
<1> QED
  BY <1>2 DEF Ledgers

(* An order is posted, and one that is evicted is cancelled.               *)
LEMMA PostLedgers ==
  ASSUME NEW accts, NEW c, Consistent(book, accts, c), Ledgers(accts),
         NEW side \in Sides, NEW c2 \in Nat \ {0}, NEW a \in Traders,
         NEW size \in Nat \ {0}, NEW price \in 1..HI_PRICE,
         CanPlaceOrder(accts[a], side, size, price)
  PROVE  Ledgers(PostedAccounts(accts, c2, a, side, size, price))
<1> DEFINE q == book[side]
           k == NextOrderAccessKey(accts[a], side)
           id == MarketOrderId(c2, NextNode(Evict(q)), price)
           order == [id |-> id, size |-> size]
           m == PlaceOrder(accts[a], side, size, price, id)
           placed == [accts EXCEPT ![a] = m]
           n == Len(q.list)
           u == q.list[n].value.user
           l == q.list[n].value.access
           key == q.list[n].key
<1>1. /\ c \in Nat /\ AccountsOK(accts) /\ Linked(q, accts, side, c, {})
      /\ IsQueue(q, BookOrders) /\ IsAccount(accts[a]) /\ LedgerOK(accts[a])
  BY DEF Consistent, Linked, AccountsOK, Ledgers
<1> HIDE DEF q
<1>2. NextNode(Evict(q)) \in Nat
  <2>1. /\ IsQueue(Evict(q), BookOrders)
        /\ Evict(q).inactive # << >> \/ Evict(q).nNodes < NNodesMax
    BY <1>1, EvictProperties
  <2> QED
    BY <2>1, NextNodeProperties, Zenon DEF IsQueue
<1>3. price \in Nat /\ price \in Int /\ size \in Int
  BY UnitsAssumption
<1>4. id \in MarketOrderIds /\ id # NilOrderId /\ id.price = price
  BY <1>2, <1>3 DEF MarketOrderIds, MarketOrderId, NilOrderId, NIL
<1> HIDE DEF id
<1>5. Opens(accts[a], m, side, k, order) /\ LedgerOK(m)
  BY <1>1, <1>3, <1>4, PlaceOrderProperties, PlaceOrderLedger
<1> HIDE DEF m, k, order
<1>6. AccountsOK(placed) /\ Ledgers(placed)
  <2>1. IsAccount(m) /\ m \in Accounts
    BY <1>5 DEF Opens, IsAccount
  <2> QED
    BY <1>1, <1>5, <2>1, LedgersExcept, Zenon DEF AccountsOK
<1>7. CASE ~IsFull(q)
  <2>1. PostedAccounts(accts, c2, a, side, size, price) = placed
    BY <1>7, <1>1 DEF PostedAccounts, placed, m, id, q, AccountsOK
  <2> QED
    BY <1>6, <2>1
<1>8. CASE IsFull(q)
  <2> DEFINE closed == CancelOrder(placed[u], side, key, l)
  <2>1. n \in 1..Len(q.list) /\ Last(q.list) = q.list[n]
    BY <1>1, <1>8, EvictProperties, EntryProperties, Zenon
  <2>2. EntryFacts(q, n, accts, side, c)
    <3> HIDE DEF n
    <3> QED
      BY <2>1, EntryInAccount DEF q
  <2> HIDE DEF n
  <2>3. /\ u \in Traders /\ l \in ActiveKeys(accts[u], side) /\ key \in Nat
        /\ accts[u].orders[side][l].id.price = key
        /\ accts[u].orders[side][l].size \in Nat
    <3>1. /\ u \in Traders /\ l \in ActiveKeys(accts[u], side) /\ key \in Nat
          /\ accts[u].orders[side][l].id.price = key
          /\ accts[u].orders[side][l].size = q.list[n].value.size
      BY <2>2, Zenon DEF EntryFacts
    <3>2. q.list[n].value.size \in Nat \ {0}
      BY <2>2, Zenon DEF EntryFacts
    <3> HIDE DEF u, l, key
    <3> QED
      BY <3>1, <3>2
  <2>4. PostedAccounts(accts, c2, a, side, size, price)
          = [placed EXCEPT ![u] = closed]
    BY <1>8, <1>1, <2>1 DEF PostedAccounts, placed, m, id, q, AccountsOK
  <2> HIDE DEF u, l, key
  <2>5. /\ l \in ActiveKeys(placed[u], side)
        /\ placed[u].orders[side][l] = accts[u].orders[side][l]
    <3>1. placed[u] = IF u = a THEN m ELSE accts[u]
      BY <1>1, <2>3 DEF AccountsOK
    <3>2. CASE u = a
      BY <1>5, <2>3, <3>1, <3>2 DEF Opens
    <3>3. CASE u # a
      BY <2>3, <3>1, <3>3
    <3> QED
      BY <3>2, <3>3
  <2> HIDE DEF placed
  <2>6. LedgerOK(closed)
    BY <1>6, <2>3, <2>5, CancelOrderLedger, Zenon DEF AccountsOK, Ledgers
  <2> HIDE DEF closed
  <2>7. Ledgers([placed EXCEPT ![u] = closed])
    BY <1>6, <2>6, LedgersExcept
  <2> QED
    BY <2>4, <2>7
<1> QED
  BY <1>7, <1>8

(* An order is cancelled, by its owner ...                                 *)
LEMMA CancelLedgers ==
  ASSUME NEW c, Consistent(book, acct, c), Ledgers(acct), NEW a,
         NEW side \in Sides, NEW id, Owns(a, side, id), CancelEffect(a, side, id)
  PROVE  Ledgers(acct')
<1> DEFINE i == IndexOf(book[side], id.node)
           e == book[side].list[i]
           k == e.value.access
           m == CancelOrder(acct[a], side, e.key, k)
<1>1. i \in 1..Len(book[side].list) /\ EntryOf(side, id) = e /\ e.value.user = a
  BY OwnedEntry, Zenon DEF Owns
<1>2. AccountsOK(acct)
  BY DEF Consistent
<1> HIDE DEF i
<1>3. /\ a \in Traders /\ IsAccount(acct[a])
      /\ k \in ActiveKeys(acct[a], side) /\ e.key \in Nat
      /\ acct[a].orders[side][k].id.price = e.key
      /\ acct[a].orders[side][k].size \in Nat
  <2> DEFINE u == e.value.user
  <2>1. EntryFacts(book[side], i, acct, side, c)
    BY <1>1, EntryInAccount
  <2>2. /\ u \in Traders /\ IsAccount(acct[u])
        /\ k \in ActiveKeys(acct[u], side) /\ e.key \in Nat
        /\ acct[u].orders[side][k].id.price = e.key
        /\ acct[u].orders[side][k].size = e.value.size
    BY <2>1, Zenon DEF EntryFacts
  <2>3. e.value.size \in Nat \ {0}
    BY <2>1, Zenon DEF EntryFacts
  <2>4. u = a
    BY <1>1
  <2> HIDE DEF u, k, e
  <2> QED
    BY <2>2, <2>3, <2>4
<1>4. acct' = [acct EXCEPT ![a] = m]
  BY <1>1, <1>2 DEF CancelEffect, AccountsOK
<1> HIDE DEF e, k
<1>5. LedgerOK(m)
  BY <1>3, CancelOrderLedger DEF Ledgers
<1> HIDE DEF m
<1> QED
  BY <1>2, <1>4, <1>5, LedgersExcept, Zenon

(* ... and one changes its size.                                           *)
LEMMA ChangeSizeLedgers ==
  ASSUME IInv, Ledgers(acct), NEW a, NEW side \in Sides,
         NEW newSize \in NewSizes, NEW id, ChangeSize(a, side, id, newSize)
  PROVE  /\ Ledgers(acct')
         /\ \A t \in Traders : acct'[t].total = acct[t].total
<1> DEFINE q == book[side]
           i == IndexOf(q, id.node)
           e == q.list[i]
           u == e.value.user
           k == e.value.access
           m1 == CancelOrder(acct[a], side, e.key, k)
           m2 == PlaceOrder(m1, side, newSize, e.key, id)
<1>1. Consistent(book, acct, counter) /\ AccountsOK(acct)
  BY DEF IInv, Consistent
<1>2. i \in 1..Len(q.list) /\ EntryOf(side, id) = e /\ u = a
  BY <1>1, OwnedEntry, Zenon DEF ChangeSize
<1>3. newSize \in Int
  <2>1. newSize \in Nat
    BY InputAssumption
  <2> QED
    BY <2>1
<1>4. /\ acct[a].orders[side][k].id = id
      /\ CanPlaceOrder(m1, side, newSize, e.key)
  BY <1>2, Zenon DEF ChangeSize, CanChangeOrderSize, CanCancelOrder
<1>5. acct' = [acct EXCEPT ![a] = m2]
  BY <1>1, <1>2 DEF ChangeSize, ChangeOrderSize, AccountsOK
<1> HIDE DEF i
<1>6. /\ a \in Traders /\ IsAccount(acct[a]) /\ e.key \in Nat /\ e.key \in Int
      /\ k \in ActiveKeys(acct[a], side)
      /\ acct[a].orders[side][k].size \in Nat
      /\ id \in MarketOrderIds /\ id # NilOrderId /\ id.price = e.key
  <2>1. EntryFacts(q, i, acct, side, counter)
    BY <1>1, <1>2, EntryInAccount
  <2>2. /\ u \in Traders /\ IsAccount(acct[u]) /\ e.key \in Nat
        /\ k \in ActiveKeys(acct[u], side)
        /\ acct[u].orders[side][k].size = e.value.size
        /\ acct[u].orders[side][k].id \in MarketOrderIds
        /\ acct[u].orders[side][k].id # NilOrderId
        /\ acct[u].orders[side][k].id.price = e.key
    BY <2>1, Zenon DEF EntryFacts
  <2>3. e.value.size \in Nat \ {0}
    BY <2>1, Zenon DEF EntryFacts
  <2>4. u = a
    BY <1>2
  <2> HIDE DEF u, k, e
  <2> QED
    BY <1>4, <2>2, <2>3, <2>4
<1> HIDE DEF e, k
<1>7. LedgerOK(m1) /\ IsAccount(m1)
  <2>1. LedgerOK(m1)
    BY <1>4, <1>6, CancelOrderLedger DEF Ledgers
  <2>2. Closes(acct[a], m1, side, k)
    BY <1>6, CancelOrderProperties
  <2> QED
    BY <2>1, <2>2 DEF Closes
<1>total. m1.total = acct[a].total
  BY <1>6, CancelOrderAmounts DEF Amounts3, IsAccount
<1> HIDE DEF m1
<1>total2. m2.total = m1.total
  BY <1>7, PlaceOrderAmounts DEF Amounts3, IsAccount
<1>8. LedgerOK(m2)
  BY <1>3, <1>4, <1>6, <1>7, PlaceOrderLedger
<1> HIDE DEF m2
<1>9. Ledgers([acct EXCEPT ![a] = m2])
  BY <1>1, <1>8, LedgersExcept
<1>10. \A t \in Traders : acct'[t].total = acct[t].total
  BY <1>1, <1>5, <1>total, <1>total2 DEF AccountsOK
<1> QED
  BY <1>5, <1>9, <1>10

(* The account of the maker at the head of the book.                       *)
LEMMA HeadAccount ==
  ASSUME IInv, ~IsEmpty(book[Makers])
  PROVE  LET u == HeadEntry.value.user
             k == HeadEntry.value.access
         IN /\ u \in Traders /\ IsAccount(acct[u]) /\ Makers \in Sides
            /\ HeadEntry.key \in Nat /\ HeadEntry.value.size \in Nat
            /\ k \in ActiveKeys(acct[u], Makers)
            /\ acct[u].orders[Makers][k].id.price = HeadEntry.key
            /\ acct[u].orders[Makers][k].size = HeadEntry.value.size
<1> DEFINE e == HeadEntry
           u == e.value.user
           k == e.value.access
<1>1. EntryFacts(book[Makers], 1, acct, Makers, counter) /\ Makers \in Sides
  BY HeadFacts
<1>2. /\ u \in Traders /\ IsAccount(acct[u]) /\ e.key \in Nat
      /\ k \in ActiveKeys(acct[u], Makers)
      /\ acct[u].orders[Makers][k].id.price = e.key
      /\ acct[u].orders[Makers][k].size = e.value.size
  BY <1>1, Zenon DEF EntryFacts, HeadEntry
<1>3. e.value.size \in Nat \ {0}
  BY <1>1, Zenon DEF EntryFacts, HeadEntry
<1>4. e.value.size \in Nat
  <2> HIDE DEF e
  <2> QED
    BY <1>3
<1> QED
  BY <1>1, <1>2, <1>4

(* A self match cancels an order of the taker, which lowers its ceilings.  *)
LEMMA MatchSelfLedgers ==
  ASSUME IInv, MatchSelf, Ledgers(acct)
  PROVE  /\ Ledgers(acct')
         /\ \A x \in Assets : acct'[tx.taker].ceiling[x] <= acct[tx.taker].ceiling[x]
<1> DEFINE u == HeadEntry.value.user
           k == HeadEntry.value.access
           price == HeadEntry.key
           m == CancelOrder(acct[u], Makers, price, k)
<1>1. /\ u \in Traders /\ IsAccount(acct[u]) /\ Makers \in Sides
      /\ price \in Nat /\ acct[u].orders[Makers][k].size \in Nat
      /\ k \in ActiveKeys(acct[u], Makers)
      /\ acct[u].orders[Makers][k].id.price = price
  BY HeadAccount, SMTT(30) DEF MatchSelf, HasMatch
<1>2. u = tx.taker
  BY DEF MatchSelf, IsSelfMatch
<1>3. AccountsOK(acct)
  BY DEF IInv, Consistent
<1>4. acct[u] \in Accounts /\ \A x \in Assets : acct[u].ceiling[x] \in Int
  BY <1>1, AmountsType DEF IsAccount
<1>5. CASE ~CancelsMaker
  BY <1>2, <1>4, <1>5 DEF MatchSelf
<1>6. CASE CancelsMaker
  <2>1. acct' = [acct EXCEPT ![u] = m]
    BY <1>6, SMTT(30) DEF MatchSelf
  <2> DEFINE in == InAsset(Makers)
             size == acct[u].orders[Makers][k].size
             units == Units(in, size, price)
  <2>2. m.ceiling = Minus(acct[u].ceiling, in, units)
    BY <1>1, <1>4, CancelOrderAmounts DEF Amounts3
  <2> HIDE DEF u, k, price
  <2>3. LedgerOK(m)
    BY <1>1, CancelOrderLedger DEF Ledgers
  <2>4. units \in Nat /\ units \in Int
    <3>1. units \in Nat
      BY <1>1, UnitsNat
    <3> HIDE DEF units
    <3> QED
      BY <3>1
  <2> HIDE DEF m, units
  <2>5. Ledgers([acct EXCEPT ![u] = m])
    BY <1>3, <2>3, LedgersExcept
  <2>6. acct'[u] = m
    BY <1>1, <1>3, <2>1 DEF AccountsOK
  <2>7. acct[u].ceiling \in Balances /\ in \in Assets
    BY <1>1, <1>4, AmountsType, SidesApart
  <2> HIDE DEF in
  <2>8. \A x \in Assets : m.ceiling[x] <= acct[u].ceiling[x]
    <3> SUFFICES ASSUME NEW x \in Assets
                 PROVE  m.ceiling[x] <= acct[u].ceiling[x]
      OBVIOUS
    <3>1. m.ceiling[x] = IF x = in THEN acct[u].ceiling[x] - units
                                   ELSE acct[u].ceiling[x]
      BY <2>2, <2>4, <2>7, BalanceAt
    <3> DEFINE ceiling == acct[u].ceiling[x]
    <3>2. ceiling \in Int
      BY <1>4
    <3> HIDE DEF ceiling
    <3>3. ceiling - units <= ceiling /\ ceiling <= ceiling
      BY <2>4, <3>2
    <3> QED
      BY <3>1, <3>3 DEF ceiling
  <2> QED
    BY <1>2, <2>1, <2>5, <2>6, <2>8
<1> QED
  BY <1>5, <1>6, SMTT(30)

(* A fill is entered in the account of the maker, which is another one.    *)
LEMMA MatchFillLedgers ==
  ASSUME IInv, MatchFill, Ledgers(acct)
  PROVE  Ledgers(acct') /\ acct'[tx.taker] = acct[tx.taker]
<1> DEFINE u == HeadEntry.value.user
           k == HeadEntry.value.access
           price == HeadEntry.key
           m == FillOrder(acct[u], Makers, k, FillSize, CompletesFill, price)
<1>1. /\ u \in Traders /\ IsAccount(acct[u]) /\ Makers \in Sides
      /\ price \in Nat
      /\ k \in ActiveKeys(acct[u], Makers)
      /\ acct[u].orders[Makers][k].id.price = price
      /\ acct[u].orders[Makers][k].size = HeadEntry.value.size
  BY HeadAccount DEF MatchFill, HasMatch
<1>2. u # tx.taker
  BY DEF MatchFill, IsSelfMatch
<1>3. AccountsOK(acct)
  BY DEF IInv, Consistent
<1>4. acct' = [acct EXCEPT ![u] = m]
  BY DEF MatchFill, FillSize
<1>5. FillSize \in Nat
  BY FillFacts
<1>6. CompletesFill \in BOOLEAN /\ (CompletesFill => FillSize = HeadEntry.value.size)
  BY DEF CompletesFill, FillSize
<1> HIDE DEF u, k, price
<1>7. LedgerOK(m)
  <2>1. LedgerOK(acct[u])
    BY <1>1 DEF Ledgers
  <2>2. CompletesFill => FillSize = acct[u].orders[Makers][k].size
    BY <1>1, <1>6
  <2> QED
    BY <1>1, <1>5, <1>6, <2>1, <2>2, FillOrderLedger
<1> HIDE DEF m
<1>8. Ledgers([acct EXCEPT ![u] = m])
  BY <1>3, <1>7, LedgersExcept
<1> QED
  BY <1>2, <1>4, <1>8, SMTT(30)

(* What returns to the taker, which fits below its ceilings.               *)
LEMMA ReturnedFacts ==
  ASSUME IInv, Settling, Reckoned(tx)
  PROVE  /\ \A x \in Assets : Returned(tx, x) \in Nat /\ tx.coins[x] >= 0
         /\ tx.coins["base"] = Returned(tx, "base")
         /\ \A x \in Assets : ~(x = "quote" /\ tx.side = "ask") =>
              Returned(tx, x) <= tx.bounds.max[x]
<1> DEFINE Fb == Filled(tx, "base")
           Fq == Filled(tx, "quote")
           Mb == tx.bounds.max["base"]
           Mq == tx.bounds.max["quote"]
<1>1. tx \in TxTypes /\ tx.side \in Sides
  BY DEF IInv, TxOK, TxTypes
<1>2. /\ Fb \in Int /\ Fq \in Int /\ Fb >= 0 /\ Fq >= 0 /\ Fb <= Mb
      /\ tx.fees <= Fq /\ tx.fees \in Int /\ Mb \in Nat /\ Mq \in Nat
      /\ tx.side = "bid" => Fq + tx.fees <= Mq
  BY <1>1, FilledBounds, MatchNumbers DEF Assets
<1>3. tx.fees >= 0
  BY DEF Reckoned
<1>4. /\ tx.coins["base"] = IF tx.side = "bid" THEN Fb ELSE Mb - Fb
      /\ tx.coins["quote"] = IF tx.side = "bid" THEN Mq - Fq ELSE Fq
  <2>1. \A x \in Assets :
          tx.coins[x] = IF x = InAsset(tx.side) THEN Filled(tx, x)
                        ELSE tx.bounds.max[x] - Filled(tx, x)
    BY DEF Reckoned
  <2> QED
    BY <1>1, <2>1 DEF Assets, Sides, InAsset
<1>5. /\ Returned(tx, "base") = IF tx.side = "bid" THEN Fb ELSE Mb - Fb
      /\ Returned(tx, "quote") = IF tx.side = "bid" THEN Mq - Fq - tx.fees
                                                    ELSE Fq - tx.fees
  <2>1. Traded(tx, "base") = Fb
    BY DEF Traded
  <2> QED
    BY <1>4, <2>1 DEF Returned
<1> HIDE DEF Fb, Fq, Mb, Mq
<1>6. /\ Returned(tx, "base") \in Nat /\ Returned(tx, "quote") \in Nat
      /\ tx.coins["base"] >= 0 /\ tx.coins["quote"] >= 0
      /\ tx.coins["base"] = Returned(tx, "base")
      /\ Returned(tx, "base") <= Mb
      /\ tx.side # "ask" => Returned(tx, "quote") <= Mq
  BY <1>1, <1>2, <1>3, <1>4, <1>5 DEF Sides
<1> QED
  BY <1>6 DEF Assets, Mb, Mq

(* What remains of the coins is deposited in the account of the taker.     *)
LEMMA SettledLedgers ==
  ASSUME IInv, Settling, CanSettle, Ledgers(acct), Reckoned(tx)
  PROVE  Ledgers(SettledAccounts)
<1>1. CASE tx.kind = "swap"
  BY <1>1 DEF SettledAccounts
<1>2. CASE tx.kind # "swap"
  <2> DEFINE a == tx.taker
             base == Returned(tx, "base")
             quote == Returned(tx, "quote")
             m1 == Deposit(acct[a], "base", base)
             m2 == Deposit(m1, "quote", quote)
  <2>1. a \in Traders /\ AccountsOK(acct)
    BY <1>2 DEF IInv, TxOK, IsMatch, Settling, Consistent
  <2>2. IsAccount(acct[a]) /\ LedgerOK(acct[a]) /\ acct[a] \in Accounts
    BY <2>1 DEF AccountsOK, Ledgers, IsAccount
  <2>3. base \in Nat /\ quote \in Nat /\ "base" \in Assets /\ "quote" \in Assets
    BY ReturnedFacts DEF Assets
  <2>4. CanDeposit(acct[a], "base", base) /\ CanDeposit(acct[a], "quote", quote)
    BY <1>2 DEF CanSettle, Assets
  <2>5. SettledAccounts = [acct EXCEPT ![a] = m2]
    BY <1>2, <2>1 DEF SettledAccounts, Redeposited, AccountsOK
  <2> HIDE DEF base, quote, a
  <2>int. base \in Int
    BY <2>3
  <2>6. LedgerOK(m1) /\ IsAccount(m1)
    BY <2>2, <2>3, <2>4, <2>int, DepositLedger, DepositProperties DEF SameOrders
  <2>7. m1.ceiling = Plus(acct[a].ceiling, "base", base)
    BY <2>2, <2>3, <2>int, DepositAmounts DEF Amounts3
  <2> HIDE DEF m1
  <2>8. CanDeposit(m1, "quote", quote)
    <3>1. acct[a].ceiling \in Balances
      BY <2>2, AmountsType
    <3>2. m1.ceiling["quote"] = acct[a].ceiling["quote"]
      BY <2>3, <2>7, <2>int, <3>1, BalanceAt
    <3> QED
      BY <2>4, <3>2 DEF CanDeposit
  <2>9. LedgerOK(m2)
    BY <2>3, <2>6, <2>8, DepositLedger
  <2> HIDE DEF m2
  <2>10. Ledgers([acct EXCEPT ![a] = m2])
    BY <2>1, <2>9, LedgersExcept
  <2> QED
    BY <2>5, <2>10
<1> QED
  BY <1>1, <1>2

-----------------------------------------------------------------------------
(* The coins of a match and the counters of accounts, step by step.        *)

(* The account of the taker has room for all that may come back.           *)
Reserved(t, accts) ==
  \A x \in Assets : accts[t.taker].ceiling[x] + t.bounds.max[x] <= HI_64

FlightOK(t, accts) ==
  IF IsMatch(t) THEN /\ Reckoned(t)
                     /\ t.kind # "swap" => Reserved(t, accts)
                ELSE t.coins = NoCoins

LedgerInv ==
  /\ Ledgers(acct)
  /\ ~Idle => Ledgers(saved.acct)
  /\ FlightOK(tx, acct)

(* Between transactions there are no coins in flight.                      *)
LEMMA NoTxFlight ==
  ASSUME NEW accts
  PROVE  FlightOK(NoTx, accts)
BY DEF FlightOK, IsMatch, NoTx

(* A deposit and a withdrawal.                                             *)
LEMMA CollateralLedgers ==
  ASSUME IInv, Ledgers(acct), NEW a \in Traders, NEW x \in Assets,
         NEW amount \in Nat,
         DepositAsset(a, x, amount) \/ WithdrawAsset(a, x, amount)
  PROVE  Ledgers(acct')
<1>1. AccountsOK(acct) /\ IsAccount(acct[a]) /\ LedgerOK(acct[a])
  BY DEF IInv, Consistent, AccountsOK, Ledgers
<1>2. CASE DepositAsset(a, x, amount)
  <2> DEFINE m == Deposit(acct[a], x, amount)
  <2>1. LedgerOK(m)
    BY <1>1, <1>2, DepositLedger DEF DepositAsset
  <2>2. acct' = [acct EXCEPT ![a] = m]
    BY <1>2 DEF DepositAsset
  <2> HIDE DEF m
  <2>3. Ledgers([acct EXCEPT ![a] = m])
    BY <1>1, <2>1, LedgersExcept
  <2> QED
    BY <2>2, <2>3
<1>3. CASE WithdrawAsset(a, x, amount)
  <2> DEFINE m == Withdraw(acct[a], x, amount)
  <2>1. LedgerOK(m)
    BY <1>1, <1>3, WithdrawLedger DEF WithdrawAsset
  <2>2. acct' = [acct EXCEPT ![a] = m]
    BY <1>3 DEF WithdrawAsset
  <2> HIDE DEF m
  <2>3. Ledgers([acct EXCEPT ![a] = m])
    BY <1>1, <2>1, LedgersExcept
  <2> QED
    BY <2>2, <2>3
<1> QED
  BY <1>2, <1>3

(* A limit order that does not cross the spread.                           *)
LEMMA InSpreadLedgers ==
  ASSUME IInv, Ledgers(acct), NEW a \in Traders, NEW side \in Sides,
         NEW size \in Nat, NEW price, NEW restriction,
         PlaceLimitOrderInSpread(a, side, size, price, restriction)
  PROVE  Ledgers(acct')
<1>1. CASE acct' = acct
  BY <1>1
<1>2. CASE /\ CanPost(acct, a, side, size, price)
           /\ acct' = PostedAccounts(acct, counter', a, side, size, price)
  <2> DEFINE c2 == counter'
  <2>1. Consistent(book, acct, counter) /\ counter \in Nat
    BY ConsistentTypes DEF IInv
  <2>2. c2 \in Nat \ {0}
    BY <2>1 DEF PlaceLimitOrderInSpread, NextCounter
  <2>3. size \in Nat \ {0} /\ price \in 1..HI_PRICE
    BY MarketAssumption DEF PlaceLimitOrderInSpread, CheckLimitOrder
  <2>4. CanPlaceOrder(acct[a], side, size, price)
    BY <1>2 DEF CanPost
  <2>5. acct' = PostedAccounts(acct, c2, a, side, size, price)
    BY <1>2
  <2> HIDE DEF c2
  <2> QED
    BY <2>1, <2>2, <2>3, <2>4, <2>5, PostLedgers
<1> QED
  BY <1>1, <1>2 DEF PlaceLimitOrderInSpread

(* What the taker supplies leaves its account, which keeps room for it.    *)
LEMMA BeginLedgers ==
  ASSUME IInv, Ledgers(acct), NEW kind, NEW a \in Traders, NEW side \in Sides,
         NEW size, NEW price \in Nat, NEW restriction, NEW behavior,
         NEW b \in Bounds,
         BeginFromAccount(kind, a, side, size, price, restriction, behavior, b)
  PROVE  Ledgers(acct') /\ FlightOK(tx', acct')
<1> DEFINE out == OutAsset(side)
           amount == b.max[out]
           m == Withdraw(acct[a], out, amount)
<1>1. /\ AccountsOK(acct) /\ IsAccount(acct[a]) /\ LedgerOK(acct[a])
      /\ acct[a] \in Accounts
  BY DEF IInv, Consistent, AccountsOK, Ledgers, IsAccount
<1>2. out \in Assets /\ \A x \in Assets : x # out => x = InAsset(side)
  BY SidesApart
<1>3. \A x \in Assets : b.max[x] \in Nat
  BY BoundsType
<1>4. amount \in Nat /\ amount \in Int
  <2>1. amount \in Nat
    BY <1>2, <1>3
  <2> HIDE DEF amount
  <2> QED
    BY <2>1
<1>5. /\ acct' = [acct EXCEPT ![a] = m]
      /\ CanWithdraw(acct[a], out, amount)
      /\ CanDeposit(acct[a], InAsset(side), b.max[InAsset(side)])
      /\ BeginMatch(kind, a, side, size, price, restriction, behavior, b)
  BY DEF BeginFromAccount, RangeCheckTrade
<1>6. tx'.status = "matching" /\ tx'.taker = a /\ tx'.bounds = b
  BY <1>5 DEF BeginMatch, NoTx
<1>7. Reckoned(tx')
  BY <1>5, BeginReckoned
<1>8. LedgerOK(m)
  <2> HIDE DEF out, amount
  <2> QED
    BY <1>1, <1>2, <1>4, <1>5, WithdrawLedger
<1>9. m.ceiling = Minus(acct[a].ceiling, out, amount)
  <2> HIDE DEF out, amount
  <2> QED
    BY <1>1, <1>2, <1>4, WithdrawAmounts DEF Amounts3
<1> HIDE DEF m
<1>10. \A x \in Assets : m.ceiling[x] + b.max[x] <= HI_64
  <2> SUFFICES ASSUME NEW x \in Assets PROVE m.ceiling[x] + b.max[x] <= HI_64
    OBVIOUS
  <2> DEFINE c == acct[a].ceiling[x]
             w == b.max[x]
  <2>1. acct[a].ceiling \in Balances /\ c \in Int /\ w \in Nat
    BY <1>1, <1>3, AmountsType
  <2>2. HI_64 \in Nat
    BY UnitsAssumption
  <2>3. CASE x = out
    <3>1. c <= HI_64
      BY <1>1, LedgerCeilings
    <3>2. m.ceiling[x] = c - w
      <4> HIDE DEF out
      <4>1. amount = w
        BY <2>3
      <4> HIDE DEF amount
      <4> QED
        BY <1>2, <1>4, <1>9, <2>1, <2>3, <4>1, BalanceAt
    <3> HIDE DEF c, w
    <3> QED
      BY <2>1, <2>2, <3>1, <3>2 DEF w
  <2>4. CASE x # out
    <3>1. c + w <= HI_64
      BY <1>2, <1>5, <2>4 DEF CanDeposit
    <3>2. m.ceiling[x] = c
      <4> HIDE DEF out, amount
      <4> QED
        BY <1>2, <1>4, <1>9, <2>1, <2>4, BalanceAt
    <3> QED
      BY <3>1, <3>2
  <2> QED
    BY <2>3, <2>4
<1>11. acct'[a] = m
  BY <1>1, <1>5 DEF AccountsOK
<1>12. Ledgers([acct EXCEPT ![a] = m])
  BY <1>1, <1>8, LedgersExcept
<1>13. Ledgers(acct')
  BY <1>5, <1>12
<1>14. Reserved(tx', acct')
  BY <1>6, <1>10, <1>11 DEF Reserved
<1> QED
  BY <1>6, <1>7, <1>13, <1>14 DEF FlightOK, IsMatch

(* The end of a match.                                                     *)
LEMMA SettleLedgers ==
  ASSUME IInv, Settle, Ledgers(acct), Reckoned(tx)
  PROVE  Ledgers(acct')
<1> DEFINE a == tx.taker
           side == tx.side
           size == Remaining
           price == tx.price
           accts == SettledAccounts
<1>1. Ledgers(accts) /\ Consistent(book, accts, counter)
  BY SettledLedgers, SettledConsistent DEF Settle
<1>2. CASE ~Rests
  BY <1>1, <1>2 DEF Settle
<1>3. CASE Rests
  <2>1. acct' = PostedAccounts(accts, counter, a, side, size, price)
    BY <1>3 DEF Settle
  <2>2. /\ a \in Traders /\ side \in Sides /\ counter > 0 /\ counter \in Nat
    BY <1>3, ConsistentTypes DEF Settle, IInv, TxOK, IsMatch, Settling, Rests, TxTypes
  <2>3. size \in Nat \ {0}
    BY <1>3, RemainingType
  <2>4. price \in 1..HI_PRICE /\ CanPlaceOrder(accts[a], side, size, price)
    BY <1>3 DEF Settle, CanSettle, CanPost, CanPlaceOrder
  <2>5. counter \in Nat \ {0}
    BY <2>2
  <2> HIDE DEF a, side, size, price, accts
  <2>6. Ledgers(PostedAccounts(accts, counter, a, side, size, price))
    BY <1>1, <2>2, <2>3, <2>4, <2>5, PostLedgers
  <2> QED
    BY <2>1, <2>6
<1> QED
  BY <1>2, <1>3

(* The local variables of a match that changes only its status.            *)
LEMMA SameFlight ==
  ASSUME IsMatch(tx), FlightOK(tx, acct), tx \in TxTypes,
         NEW status \in {"matching", "settling"}, NEW selfCancel,
         tx' = [tx EXCEPT !.status = status, !.selfCancel = selfCancel],
         NEW accts,
         tx.kind # "swap" =>
           \A x \in Assets :
             /\ accts[tx.taker].ceiling[x] \in Int
             /\ acct[tx.taker].ceiling[x] \in Int
             /\ accts[tx.taker].ceiling[x] <= acct[tx.taker].ceiling[x]
  PROVE  FlightOK(tx', accts)
<1>1. /\ tx'.side = tx.side /\ tx'.price = tx.price /\ tx'.bounds = tx.bounds
      /\ tx'.kind = tx.kind /\ tx'.taker = tx.taker /\ tx'.lots = tx.lots
      /\ tx'.ticks = tx.ticks /\ tx'.fees = tx.fees /\ tx'.coins = tx.coins
      /\ tx'.status = status
  BY DEF TxTypes
<1>2. MaxLots(tx') = MaxLots(tx) /\ MaxTicks(tx') = MaxTicks(tx)
  BY <1>1 DEF MaxLots, MaxTicks
<1>3. LotsTraded(tx') = LotsTraded(tx) /\ TicksTraded(tx') = TicksTraded(tx)
  BY <1>1, <1>2 DEF LotsTraded, TicksTraded
<1>4. \A x \in Assets : Filled(tx', x) = Filled(tx, x)
  BY <1>1, <1>2 DEF Filled
<1>5. Reckoned(tx')
  BY <1>1, <1>3, <1>4 DEF FlightOK, Reckoned
<1>6. tx'.kind # "swap" => Reserved(tx', accts)
  <2> SUFFICES ASSUME tx.kind # "swap", NEW x \in Assets
               PROVE  accts[tx.taker].ceiling[x] + tx.bounds.max[x] <= HI_64
    BY <1>1 DEF Reserved
  <2> DEFINE c == acct[tx.taker].ceiling[x]
             d == accts[tx.taker].ceiling[x]
             w == tx.bounds.max[x]
  <2>1. c \in Int /\ d \in Int /\ d <= c /\ HI_64 \in Int
    BY UnitsAssumption
  <2>2. w \in Nat
    BY MatchNumbers
  <2>3. c + w <= HI_64
    BY DEF FlightOK, Reserved
  <2> HIDE DEF c, d, w
  <2>4. d + w <= HI_64
    BY <2>1, <2>2, <2>3
  <2> QED
    BY <2>4 DEF d, w
<1> QED
  BY <1>1, <1>5, <1>6 DEF FlightOK, IsMatch

(* A step that ends a transaction leaves no coins in flight.               *)
LEMMA EndFlight ==
  ASSUME End
  PROVE  FlightOK(tx', acct')
<1>1. tx' = NoTx
  BY DEF End
<1> QED
  BY <1>1 DEF FlightOK, IsMatch, NoTx

(* A step outside of a match keeps the local variables, or begins or ends  *)
(* a cancel of all orders.                                                 *)
LEMMA QuietFlight ==
  ASSUME FlightOK(tx, acct), ~IsMatch(tx), ~IsMatch(tx'), tx'.coins = tx.coins
  PROVE  FlightOK(tx', acct')
BY DEF FlightOK

(* No step takes an account out of step with its orders, or leaves coins   *)
(* in flight that were not reckoned.                                       *)
LEMMA StepLedgers ==
  ASSUME IInv, LedgerInv, [Next]_vars
  PROVE  Ledgers(acct') /\ FlightOK(tx', acct')
<1>1. /\ Ledgers(acct) /\ FlightOK(tx, acct) /\ tx \in TxTypes
      /\ Consistent(book, acct, counter) /\ AccountsOK(acct)
  BY DEF LedgerInv, IInv, TxOK, Consistent
<1>2. Idle => ~IsMatch(tx) /\ tx.status = "idle"
  BY DEF Idle, IsMatch
<1>3. ASSUME Idle, tx' = tx, Ledgers(acct') PROVE Ledgers(acct') /\ FlightOK(tx', acct')
  BY <1>1, <1>2, <1>3, QuietFlight
<1>4. CASE \E a \in Traders, x \in Assets, amount \in Nat :
             DepositAsset(a, x, amount) \/ WithdrawAsset(a, x, amount)
  <2>1. Ledgers(acct')
    BY <1>1, <1>4, CollateralLedgers
  <2> QED
    BY <1>3, <1>4, <2>1 DEF DepositAsset, WithdrawAsset
<1>5. CASE \E a \in Traders, side \in Sides, size \in Nat, price \in Nat,
               restriction \in AllRestrictions :
              PlaceLimitOrderInSpread(a, side, size, price, restriction)
  <2>1. Ledgers(acct')
    BY <1>1, <1>5, InSpreadLedgers
  <2> QED
    BY <1>3, <1>5, <2>1 DEF PlaceLimitOrderInSpread
<1>6. CASE \E a \in Traders, side \in Sides, size \in Nat, price \in Nat,
               restriction \in AllRestrictions, behavior \in AllBehaviors :
              PlaceLimitOrderAcrossSpread(a, side, size, price, restriction,
                                          behavior)
  <2>1. PICK a \in Traders, side \in Sides, size \in Nat, price \in Nat,
             restriction \in AllRestrictions, behavior \in AllBehaviors :
          PlaceLimitOrderAcrossSpread(a, side, size, price, restriction, behavior)
    BY <1>6
  <2>2. PICK b \in Bounds :
          BeginFromAccount("limit", a, side, size, price, restriction, behavior, b)
    BY <2>1, AcrossSpreadBegins
  <2> QED
    BY <1>1, <2>2, BeginLedgers
<1>7. CASE \E a \in Traders, side \in Sides, size \in Nat,
               behavior \in AllBehaviors :
              PlaceMarketOrder(a, side, size, behavior)
  <2>1. PICK a \in Traders, side \in Sides, size \in Nat,
             behavior \in AllBehaviors : PlaceMarketOrder(a, side, size, behavior)
    BY <1>7
  <2>2. PICK price \in Nat : \E b \in Bounds :
          BeginFromAccount("market", a, side, size, price, "none", behavior, b)
    BY <2>1, MarketOrderBegins
  <2>3. PICK b \in Bounds :
          BeginFromAccount("market", a, side, size, price, "none", behavior, b)
    BY <2>2
  <2> QED
    BY <1>1, <2>3, BeginLedgers
<1>8. CASE \E a \in Traders \cup {NoTaker}, side \in Sides, b \in Bounds,
               limit \in Nat : Swap(a, side, b, limit)
  <2>1. PICK a \in Traders \cup {NoTaker}, side \in Sides, b \in Bounds,
             limit \in Nat : Swap(a, side, b, limit)
    BY <1>8
  <2>2. BeginMatch("swap", a, side, 0, limit, "none", "cancelTaker", b)
    BY <2>1 DEF Swap
  <2>3. Reckoned(tx')
    BY <2>2, BeginReckoned
  <2>4. tx'.kind = "swap" /\ tx'.status = "matching"
    BY <2>2 DEF BeginMatch, NoTx
  <2>5. Ledgers(acct')
    BY <1>1, <2>1 DEF Swap
  <2> QED
    BY <2>3, <2>4, <2>5 DEF FlightOK, IsMatch
<1>9. CASE \E a \in Traders, side \in CancelSides : \E id \in IssuedIds(side) :
             ManualCancel(a, side, id)
  <2>1. PICK a \in Traders, side \in CancelSides :
          \E id \in IssuedIds(side) : ManualCancel(a, side, id)
    BY <1>9
  <2>2. PICK id \in IssuedIds(side) : ManualCancel(a, side, id)
    BY <2>1
  <2>3. side \in Sides
    BY InputAssumption
  <2>4. Ledgers(acct')
    BY <1>1, <2>2, <2>3, CancelLedgers DEF ManualCancel
  <2> QED
    BY <1>3, <2>2, <2>4 DEF ManualCancel
<1>10. CASE \E a \in Traders, side \in Sides : CancelAllOrders(a, side)
  <2>1. Ledgers(acct') /\ Idle /\ tx'.coins = NoCoins /\ tx'.status = "cancelling"
    BY <1>1, <1>10 DEF CancelAllOrders, NoTx
  <2> QED
    BY <2>1 DEF FlightOK, IsMatch
<1>11. CASE \E a \in Traders, side \in Sides, newSize \in NewSizes :
              \E id \in IssuedIds(side) : ChangeSize(a, side, id, newSize)
  <2>1. PICK a \in Traders, side \in Sides, newSize \in NewSizes :
          \E id \in IssuedIds(side) : ChangeSize(a, side, id, newSize)
    BY <1>11
  <2>2. PICK id \in IssuedIds(side) : ChangeSize(a, side, id, newSize)
    BY <2>1
  <2>3. Ledgers(acct')
    BY <1>1, <2>2, ChangeSizeLedgers
  <2> QED
    BY <1>3, <2>2, <2>3 DEF ChangeSize
<1>types. ASSUME IsMatch(tx), tx.kind # "swap"
          PROVE  \A x \in Assets : acct[tx.taker].ceiling[x] \in Int
  <2>1. acct[tx.taker] \in Accounts
    BY <1>1, <1>types DEF IInv, TxOK, AccountsOK
  <2> QED
    BY <2>1, AmountsType
<1>12. CASE MatchExit
  <2>1. IsMatch(tx) /\ acct' = acct
    BY <1>12 DEF MatchExit, Matching, IsMatch
  <2>2. tx' = [tx EXCEPT !.status = "settling", !.selfCancel = tx.selfCancel]
    BY <1>1, <1>12, Zenon DEF MatchExit, TxTypes
  <2>3. tx.kind # "swap" =>
          \A x \in Assets :
            /\ acct[tx.taker].ceiling[x] \in Int
            /\ acct[tx.taker].ceiling[x] <= acct[tx.taker].ceiling[x]
    BY <1>types, <2>1
  <2>4. FlightOK(tx', acct)
    BY <1>1, <2>1, <2>2, <2>3, SameFlight, Zenon
  <2> QED
    BY <1>1, <2>1, <2>4
<1>13. CASE MatchSelf
  <2> DEFINE status == IF CancelsTaker THEN "settling" ELSE "matching"
             accts == acct'
  <2>1. IsMatch(tx)
    BY <1>13 DEF MatchSelf, Matching, IsMatch
  <2>2. tx' = [tx EXCEPT !.status = status, !.selfCancel = CancelsTaker]
    BY <1>1, <1>13, Zenon DEF MatchSelf, Matching, TxTypes
  <2>3. /\ Ledgers(accts)
        /\ \A x \in Assets : accts[tx.taker].ceiling[x] <= acct[tx.taker].ceiling[x]
    BY <1>1, <1>13, MatchSelfLedgers
  <2>4. tx.kind # "swap" => \A x \in Assets : /\ accts[tx.taker].ceiling[x] \in Int
                                              /\ acct[tx.taker].ceiling[x] \in Int
    <3>1. accts \in [Traders -> Accounts]
      BY <1>13, NextIInv, ConsistentTypes DEF IInv
    <3>2. tx.kind # "swap" => tx.taker \in Traders
      BY <2>1 DEF IInv, TxOK
    <3> QED
      BY <1>types, <2>1, <3>1, <3>2, AmountsType
  <2>5. status \in {"matching", "settling"}
    OBVIOUS
  <2> HIDE DEF status, accts
  <2>6. FlightOK(tx', accts)
    BY <1>1, <2>1, <2>2, <2>3, <2>4, <2>5, SameFlight, Zenon
  <2> QED
    BY <2>3, <2>6 DEF accts
<1>14. CASE MatchFill
  <2>1. IsMatch(tx)
    BY <1>14 DEF MatchFill, Matching, IsMatch
  <2>2. Ledgers(acct') /\ acct'[tx.taker] = acct[tx.taker]
    BY <1>1, <1>14, MatchFillLedgers
  <2>3. Reckoned(tx')
    BY <1>1, <1>14, <2>1, FillReckoned DEF FlightOK
  <2>4. /\ tx'.bounds = tx.bounds /\ tx'.kind = tx.kind /\ tx'.taker = tx.taker
        /\ tx'.status \in {"matching", "settling"}
    BY <1>14, FillTx
  <2> QED
    BY <1>1, <2>1, <2>2, <2>3, <2>4 DEF FlightOK, IsMatch, Reserved
<1>15. CASE Settle
  <2>1. Reckoned(tx)
    BY <1>1, <1>15 DEF FlightOK, IsMatch, Settle, Settling
  <2> QED
    BY <1>1, <1>15, <2>1, SettleLedgers, EndFlight DEF Settle
<1>16. CASE CancelNext
  <2>1. /\ tx.side \in Sides /\ tx.status = "cancelling"
        /\ Owns(tx.taker, tx.side, NextIdToCancel)
        /\ CancelEffect(tx.taker, tx.side, NextIdToCancel)
    BY <1>1, <1>16 DEF CancelNext, Cancelling, TxTypes
  <2>2. Ledgers(acct')
    BY <1>1, <2>1, CancelLedgers
  <2>3. tx'.status = tx.status /\ tx'.coins = tx.coins
    BY <1>1, <1>16 DEF CancelNext, TxTypes
  <2> QED
    BY <1>1, <2>1, <2>2, <2>3, QuietFlight DEF IsMatch
<1>17. CASE CancelDone
  BY <1>1, <1>17, EndFlight DEF CancelDone
<1>18. CASE Rollback
  <2>1. ~Idle /\ acct' = saved.acct
    BY <1>18 DEF Rollback, Aborts, Matching, Settling, Cancelling, Idle
  <2> QED
    BY <1>18, <2>1, EndFlight DEF Rollback, LedgerInv
<1>19. CASE UNCHANGED vars
  BY <1>1, <1>19 DEF vars
<1> QED
  BY <1>4, <1>5, <1>6, <1>7, <1>8, <1>9, <1>10, <1>11, <1>12, <1>13, <1>14,
     <1>15, <1>16, <1>17, <1>18, <1>19, StepCases

(* The invariant is inductive, given that of module MarketProofs.          *)
LEMMA NextLedgerInv ==
  IInv /\ LedgerInv /\ [Next]_vars => LedgerInv'
<1> SUFFICES ASSUME IInv, LedgerInv, [Next]_vars PROVE LedgerInv'
  OBVIOUS
<1>1. Ledgers(acct') /\ FlightOK(tx', acct')
  BY StepLedgers
<1>2. ~Idle' => Ledgers(saved'.acct)
  <2>1. ~Idle' => saved' = State \/ (~Idle /\ saved' = saved)
    BY SavedStep
  <2>2. State.acct = acct
    BY DEF State
  <2> QED
    BY <2>1, <2>2 DEF LedgerInv
<1> QED
  BY <1>1, <1>2 DEF LedgerInv

(* What each trader first deposits matches the orders it has not.          *)
LEMMA InitLedgerInv ==
  Init => LedgerInv
<1> SUFFICES ASSUME Init PROVE LedgerInv
  OBVIOUS
<1> DEFINE base == Endowment["base"]
           quote == Endowment["quote"]
           m1 == Deposit(EmptyAccount, "base", base)
           m2 == Deposit(m1, "quote", quote)
<1>1. /\ "base" \in Assets /\ "quote" \in Assets
      /\ base \in Nat /\ quote \in Nat /\ base <= HI_64 /\ quote <= HI_64
      /\ base \in Int
  <2>1. base \in 0..HI_64 /\ quote \in 0..HI_64
    BY MarketAssumption DEF Assets
  <2> HIDE DEF base, quote
  <2> QED
    BY <2>1, UnitsAssumption DEF Assets
<1>2. LedgerOK(EmptyAccount) /\ IsAccount(EmptyAccount) /\ EmptyAccount \in Accounts
  BY EmptyAccountLedger, EmptyAccountProperties DEF IsAccount
<1>3. \A x \in Assets : EmptyAccount.ceiling[x] = 0
  BY DEF EmptyAccount
<1> HIDE DEF base, quote
<1>4. CanDeposit(EmptyAccount, "base", base)
  BY <1>1, <1>3 DEF CanDeposit
<1>5. LedgerOK(m1) /\ IsAccount(m1)
  BY <1>1, <1>2, <1>4, DepositLedger, DepositProperties DEF SameOrders
<1>6. CanDeposit(m1, "quote", quote)
  <2>1. m1.ceiling = Plus(EmptyAccount.ceiling, "base", base)
    BY <1>1, <1>2, DepositAmounts DEF Amounts3
  <2>2. EmptyAccount.ceiling \in Balances
    BY <1>2, AmountsType
  <2>3. m1.ceiling["quote"] = EmptyAccount.ceiling["quote"]
    BY <1>1, <2>1, <2>2, BalanceAt
  <2> HIDE DEF m1
  <2> QED
    BY <1>1, <1>3, <2>3 DEF CanDeposit
<1> HIDE DEF m1
<1>7. LedgerOK(m2)
  BY <1>1, <1>5, <1>6, DepositLedger
<1>8. acct = [a \in Traders |-> m2]
  BY DEF Init, m1, m2, base, quote
<1> HIDE DEF m2
<1>9. Ledgers(acct)
  BY <1>7, <1>8 DEF Ledgers
<1>10. tx = NoTx /\ Idle
  BY NoTxType DEF Init, Idle
<1> QED
  BY <1>9, <1>10, NoTxFlight DEF LedgerInv

(* Coins never run out in the middle of a match, suffice for the fees, and *)
(* are what match reckons: deposit_asset in user.move, which asserts that  *)
(* the amounts agree, cannot abort a match that has filled orders.         *)
THEOREM CoinsSuffice == Spec => []CoinsInFlightSuffice
<1>1. IInv /\ LedgerInv => CoinsInFlightSuffice
  <2> SUFFICES ASSUME IInv, LedgerInv PROVE CoinsInFlightSuffice
    OBVIOUS
  <2>1. tx \in TxTypes /\ FlightOK(tx, acct)
    BY DEF IInv, TxOK, LedgerInv
  <2>2. \A x \in Assets : tx.coins[x] >= 0
    <3>1. CASE ~IsMatch(tx)
      BY <2>1, <3>1 DEF FlightOK, NoCoins
    <3>2. CASE IsMatch(tx)
      <4>1. /\ \A x \in Assets : Filled(tx, x) \in Int /\ Filled(tx, x) >= 0
            /\ Filled(tx, "base") <= tx.bounds.max["base"]
            /\ tx.fees <= Filled(tx, "quote")
            /\ tx.side = "bid" =>
                 Filled(tx, "quote") + tx.fees <= tx.bounds.max["quote"]
        BY <2>1, <3>2, FilledBounds DEF FlightOK
      <4>2. /\ \A x \in Assets : tx.bounds.max[x] \in Nat
            /\ tx.fees \in Int /\ tx.fees >= 0 /\ tx.side \in Sides
            /\ \A x \in Assets :
                 tx.coins[x] = IF x = InAsset(tx.side) THEN Filled(tx, x)
                               ELSE tx.bounds.max[x] - Filled(tx, x)
        BY <2>1, <3>2, MatchNumbers DEF FlightOK, Reckoned, TxTypes
      <4> DEFINE Fb == Filled(tx, "base")
                 Fq == Filled(tx, "quote")
                 Mb == tx.bounds.max["base"]
                 Mq == tx.bounds.max["quote"]
      <4>3. /\ Fb \in Int /\ Fb >= 0 /\ Fb <= Mb /\ Mb \in Nat
            /\ Fq \in Int /\ Fq >= 0 /\ Mq \in Nat
            /\ tx.side = "bid" => Fq + tx.fees <= Mq
            /\ tx.coins["base"] = IF tx.side = "bid" THEN Fb ELSE Mb - Fb
            /\ tx.coins["quote"] = IF tx.side = "bid" THEN Mq - Fq ELSE Fq
        BY <4>1, <4>2 DEF Assets, Sides, InAsset
      <4> HIDE DEF Fb, Fq, Mb, Mq
      <4>4. tx.coins["base"] >= 0 /\ tx.coins["quote"] >= 0
        BY <4>2, <4>3
      <4> QED
        BY <4>4 DEF Assets
    <3> QED
      BY <3>1, <3>2
  <2>3. Settling => /\ tx.coins["base"] = Returned(tx, "base")
                    /\ \A x \in Assets : Returned(tx, x) \in Nat
                    /\ \A x \in Assets : ~(x = "quote" /\ tx.side = "ask") =>
                         Returned(tx, x) <= tx.bounds.max[x]
    BY <2>1, ReturnedFacts DEF FlightOK, IsMatch, Settling
  <2>4. Settling => Returned(tx, "quote") >= 0
    BY <2>3 DEF Assets
  <2>5. ASSUME Settling, tx.kind # "swap", NEW x \in Assets,
               ~(x = "quote" /\ tx.side = "ask")
        PROVE  CanDeposit(acct[tx.taker], x, Returned(tx, x))
    <3> DEFINE c == acct[tx.taker].ceiling[x]
               r == Returned(tx, x)
               w == tx.bounds.max[x]
    <3>1. r \in Nat /\ r <= w
      BY <2>3, <2>5
    <3>2. c + w <= HI_64
      BY <2>1, <2>5 DEF FlightOK, Reserved, IsMatch, Settling
    <3>3. c \in Int
      <4>1. acct[tx.taker] \in Accounts
        BY <2>5 DEF IInv, TxOK, IsMatch, Settling, Consistent, AccountsOK
      <4> QED
        BY <4>1, AmountsType
    <3>4. w \in Nat /\ HI_64 \in Nat
      BY <2>1, MatchNumbers, UnitsAssumption
    <3> HIDE DEF c, r, w
    <3>5. c + r <= HI_64
      BY <3>1, <3>2, <3>3, <3>4
    <3> QED
      BY <3>5 DEF CanDeposit, c, r
  <2> QED
    BY <2>2, <2>3, <2>4, <2>5 DEF CoinsInFlightSuffice
<1> QED
  BY <1>1, InitLedgerInv, NextLedgerInv, Invariance, PTL DEF Spec

(* A taker trades no more base than asked, a buyer spends no more quote,   *)
(* fees included, than the maximum, and nobody trades at an average price  *)
(* worse than the limit, whatever orders the loop of match (market.move)   *)
(* met, and however max_quote_match rounds.                                *)
THEOREM LimitsKept == Spec => []TakerWithinLimits
<1>1. IInv /\ LedgerInv => TakerWithinLimits
  <2> SUFFICES ASSUME IInv, LedgerInv, Settling PROVE TakerWithinLimits
    BY DEF TakerWithinLimits
  <2>1. tx \in TxTypes /\ Reckoned(tx)
    BY DEF IInv, TxOK, LedgerInv, FlightOK, IsMatch, Settling
  <2>2. /\ Filled(tx, "base") <= tx.bounds.max["base"]
        /\ tx.side = "bid" =>
             Filled(tx, "quote") + tx.fees <= tx.bounds.max["quote"]
    BY <2>1, FilledBounds
  <2>3. /\ Traded(tx, "base") = Filled(tx, "base")
        /\ tx.side = "bid" => Traded(tx, "quote") = Filled(tx, "quote") + tx.fees
    BY DEF Traded
  <2> QED
    BY <2>1, <2>2, <2>3 DEF TakerWithinLimits, Reckoned, LotsTraded, TicksTraded
<1> QED
  BY <1>1, InitLedgerInv, NextLedgerInv, Invariance, PTL DEF Spec

(* The two ways to add up what orders are worth agree.                     *)
LEMMA OrdersWorthIsWorth ==
  ASSUME NEW a \in Traders, acct[a] \in Accounts, NEW side \in Sides, NEW x
  PROVE  OrdersWorth(a, side, x) = Worth(acct[a], side, x)
<1> DEFINE S == ActiveKeys(acct[a], side)
           f == Worths(acct[a], side, x)
           V(k) == Units(x, acct[a].orders[side][k].size,
                         acct[a].orders[side][k].id.price)
           Q(h) == h = [s \in SUBSET S |->
                          IF s = {} THEN 0
                          ELSE V(CHOOSE y \in s : TRUE)
                                 + h[s \ {CHOOSE y \in s : TRUE}]]
           h == CHOOSE i : Q(i)
<1>1. IsFiniteSet(S) /\ \A k \in S : f[k] = V(k)
  BY WorthType DEF OrderWorth
<1>2. PICK g : IsSum(g, f, S) /\ Total(f, S) = g[S]
  BY <1>1, TotalIsSum
<1> HIDE DEF f, S
<1>3. Q(g)
  <2>1. \A s \in SUBSET S : s # {} => (CHOOSE y \in s : TRUE) \in S
    OBVIOUS
  <2> QED
    BY <1>1, <1>2, <2>1 DEF IsSum, SumTerm, Pick
<1> HIDE DEF Q
<1>4. Q(h)
  BY <1>3
<1>5. IsSum(h, f, S)
  <2> HIDE DEF h
  <2>1. \A s \in SUBSET S : s # {} => (CHOOSE y \in s : TRUE) \in S
    OBVIOUS
  <2> QED
    BY <1>1, <1>4, <2>1 DEF Q, IsSum, SumTerm, Pick
<1>6. OrdersWorth(a, side, x) = h[S]
  BY DEF OrdersWorth, SumOver, MapThenSumSet, MapThenFoldSet, Q, h, V, S
<1>7. h[S] = g[S]
  <2> HIDE DEF h
  <2> QED
    BY <1>1, <1>2, <1>5, SumAgrees
<1> QED
  BY <1>2, <1>6, <1>7 DEF Worth, f, S

(* What an account has available, and the ceiling of what it may come to   *)
(* hold, always match its orders, and no ceiling exceeds a u64: user.move  *)
(* updates both by increments, with every order placed, filled, resized,   *)
(* cancelled and evicted.                                                  *)
THEOREM CountersKept == Spec => []CountersMatchOrders
<1>1. IInv /\ LedgerInv => CountersMatchOrders
  <2> SUFFICES ASSUME IInv, LedgerInv, NEW a \in Traders, NEW side \in Sides
               PROVE  LET m == acct[a]
                          in == InAsset(side)
                          out == OutAsset(side)
                      IN /\ m.available[out] = m.total[out] - OrdersWorth(a, side, out)
                         /\ m.ceiling[in] = m.total[in] + OrdersWorth(a, side, in)
                         /\ m.available[out] >= 0
                         /\ m.ceiling[in] <= HI_64
    BY DEF CountersMatchOrders
  <2>1. LedgerSide(acct[a], side) /\ acct[a] \in Accounts
    BY DEF LedgerInv, Ledgers, LedgerOK, IInv, Consistent, AccountsOK
  <2>2. \A x : OrdersWorth(a, side, x) = Worth(acct[a], side, x)
    BY <2>1, OrdersWorthIsWorth
  <2> QED
    BY <2>1, <2>2 DEF LedgerSide
<1> QED
  BY <1>1, InitLedgerInv, NextLedgerInv, Invariance, PTL DEF Spec

-----------------------------------------------------------------------------
(* No asset is created or lost.                                            *)

Held(accts, x) == Total([a \in Traders |-> accts[a].total[x]], Traders)

(* What accounts hold is a number, ...                                     *)
LEMMA HeldType ==
  ASSUME NEW accts, AccountsOK(accts), NEW x \in Assets
  PROVE  /\ Held(accts, x) \in Int
         /\ \A a \in Traders : accts[a].total[x] \in Int
<1>1. \A a \in Traders : accts[a] \in Accounts
  BY DEF AccountsOK
<1>2. \A a \in Traders : accts[a].total[x] \in Int
  BY <1>1, AmountsType
<1> DEFINE f == [a \in Traders |-> accts[a].total[x]]
<1>3. \A a \in Traders : f[a] \in Int
  BY <1>2
<1> HIDE DEF f
<1>4. Total(f, Traders) \in Int
  BY <1>3, MarketAssumption, TotalType
<1> QED
  BY <1>2, <1>4 DEF Held, f

(* ... the same if no total changes ...                                    *)
SameTotals(accts, accts2) ==
  \A a \in Traders : accts2[a].total = accts[a].total

LEMMA HeldSame ==
  ASSUME NEW accts, NEW accts2, SameTotals(accts, accts2), NEW x
  PROVE  Held(accts2, x) = Held(accts, x)
<1>1. [a \in Traders |-> accts2[a].total[x]] = [a \in Traders |-> accts[a].total[x]]
  BY DEF SameTotals
<1> QED
  BY <1>1 DEF Held

(* ... and changes with the total of one account.                          *)
LEMMA HeldChange ==
  ASSUME NEW accts, AccountsOK(accts), NEW u \in Traders, NEW m \in Accounts,
         NEW x \in Assets
  PROVE  Held([accts EXCEPT ![u] = m], x)
           = Held(accts, x) + (m.total[x] - accts[u].total[x])
<1> DEFINE accts2 == [accts EXCEPT ![u] = m]
           f1 == [a \in Traders |-> accts[a].total[x]]
           f2 == [a \in Traders |-> accts2[a].total[x]]
<1>1. DOMAIN accts = Traders
  BY DEF AccountsOK
<1>2. \A a \in Traders : accts2[a] = IF a = u THEN m ELSE accts[a]
  BY <1>1
<1>3. \A a \in Traders : accts[a].total[x] \in Int
  BY HeldType
<1>4. m.total[x] \in Int
  BY AmountsType
<1> HIDE DEF accts2
<1>5. /\ \A a \in Traders : f1[a] \in Int /\ f2[a] \in Int
      /\ \A a \in Traders \ {u} : f2[a] = f1[a]
      /\ f1[u] = accts[u].total[x] /\ f2[u] = m.total[x]
  BY <1>2, <1>3, <1>4
<1> HIDE DEF f1, f2
<1>6. Total(f2, Traders) = Total(f1, Traders) + (f2[u] - f1[u])
  BY <1>5, MarketAssumption, TotalChange
<1> QED
  BY <1>5, <1>6 DEF Held, f1, f2, accts2

(* One account changes, and not its totals.                                *)
LEMMA SameTotalsExcept ==
  ASSUME NEW accts, AccountsOK(accts), NEW u \in Traders, NEW m,
         m.total = accts[u].total
  PROVE  SameTotals(accts, [accts EXCEPT ![u] = m])
<1>1. DOMAIN accts = Traders
  BY DEF AccountsOK
<1> QED
  BY <1>1 DEF SameTotals

(* Posting an order, which may cancel another, changes no total, ...       *)
LEMMA PostTotals ==
  ASSUME NEW accts, NEW c, Consistent(book, accts, c), NEW side \in Sides,
         NEW c2, NEW a \in Traders, NEW size \in Nat \ {0},
         NEW price \in 1..HI_PRICE, c2 \in Nat \ {0}
  PROVE  SameTotals(accts, PostedAccounts(accts, c2, a, side, size, price))
<1> DEFINE q == book[side]
           n == Len(q.list)
           u == q.list[n].value.user
           l == q.list[n].value.access
           id == MarketOrderId(c2, NextNode(Evict(q)), price)
           m == PlaceOrder(accts[a], side, size, price, id)
           placed == [accts EXCEPT ![a] = m]
           closed == CancelOrder(placed[u], side, q.list[n].key, l)
<1>1. /\ AccountsOK(accts) /\ IsQueue(q, BookOrders) /\ IsAccount(accts[a])
      /\ accts[a] \in Accounts
  BY DEF Consistent, Linked, AccountsOK
<1> HIDE DEF q
<1>2. NextNode(Evict(q)) \in Nat
  <2>1. /\ IsQueue(Evict(q), BookOrders)
        /\ Evict(q).inactive # << >> \/ Evict(q).nNodes < NNodesMax
    BY <1>1, EvictProperties, Zenon
  <2> QED
    BY <2>1, NextNodeProperties, Zenon DEF IsQueue
<1>3. price \in Nat /\ price \in Int /\ size \in Int
  BY UnitsAssumption
<1>4. id \in MarketOrderIds /\ id # NilOrderId
  BY <1>2, <1>3 DEF MarketOrderIds, MarketOrderId, NilOrderId, NIL
<1> HIDE DEF id
<1>5. m \in Accounts
  <2>1. Opens(accts[a], m, side, NextOrderAccessKey(accts[a], side),
              [id |-> id, size |-> size])
    BY <1>1, <1>3, <1>4, PlaceOrderProperties
  <2> QED
    BY <2>1 DEF Opens, IsAccount
<1>6. m.total = accts[a].total
  BY <1>1, PlaceOrderAmounts DEF Amounts3
<1>7. /\ PostedAccounts(accts, c2, a, side, size, price)
           = IF IsFull(q)
             THEN [placed EXCEPT ![Last(q.list).value.user] =
                     CancelOrder(@, side, Last(q.list).key, Last(q.list).value.access)]
             ELSE placed
  BY DEF PostedAccounts, q, m, placed, id
<1> HIDE DEF m
<1>8. SameTotals(accts, placed)
  BY <1>1, <1>6, SameTotalsExcept
<1>9. placed \in [Traders -> Accounts]
  BY <1>1, <1>5 DEF AccountsOK
<1>10. CASE ~IsFull(q)
  BY <1>7, <1>8, <1>10
<1>11. CASE IsFull(q)
  <2>1. n \in 1..Len(q.list) /\ Last(q.list) = q.list[n]
    BY <1>1, <1>11, EvictProperties, EntryProperties, Zenon
  <2> HIDE DEF n
  <2>2. u \in Traders
    BY <1>1, <2>1, EntryProperties
  <2> HIDE DEF placed
  <2>3. PostedAccounts(accts, c2, a, side, size, price)
          = [placed EXCEPT ![u] = closed]
    BY <1>7, <1>9, <1>11, <2>1, <2>2
  <2>4. placed[u] \in Accounts
    BY <1>9, <2>2
  <2> HIDE DEF u, l
  <2>5. closed.total = placed[u].total
    BY <2>4, CancelOrderAmounts DEF Amounts3
  <2> HIDE DEF closed
  <2>6. SameTotals(placed, [placed EXCEPT ![u] = closed])
    BY <1>9, <2>2, <2>5 DEF SameTotals
  <2> QED
    BY <1>8, <2>3, <2>6 DEF SameTotals
<1> QED
  BY <1>10, <1>11

(* ... as does closing one, in a cancel of any kind, ...                   *)
LEMMA CancelTotals ==
  ASSUME NEW accts, AccountsOK(accts), NEW u \in Traders, NEW side \in Sides,
         NEW price, NEW key
  PROVE  SameTotals(accts, [accts EXCEPT ![u] =
                              CancelOrder(@, side, price, key)])
<1> DEFINE m == CancelOrder(accts[u], side, price, key)
<1>1. accts[u] \in Accounts
  BY DEF AccountsOK
<1>2. m.total = accts[u].total
  BY <1>1, CancelOrderAmounts DEF Amounts3
<1>3. [accts EXCEPT ![u] = CancelOrder(@, side, price, key)]
        = [accts EXCEPT ![u] = m]
  BY DEF AccountsOK
<1> HIDE DEF m
<1> QED
  BY <1>2, <1>3, SameTotalsExcept

(* The balance of each asset, coins in flight and fees included.           *)
Balanced(n, accts, c, f) ==
  \A x \in Assets :
    n[x] = Held(accts, x) + c[x] + (IF x = "quote" THEN f ELSE 0)

(* A step that moves nothing between accounts.                             *)
LEMMA SameBalance ==
  ASSUME NEW n, NEW c, NEW f, NEW accts, NEW accts2,
         Balanced(n, accts, c, f), SameTotals(accts, accts2)
  PROVE  Balanced(n, accts2, c, f)
BY HeldSame DEF Balanced

(* What came into the market goes to an account, coins or fees.            *)
Fees(x, f) == IF x = "quote" THEN f ELSE 0
Moves(n, t, c, f, n2, t2, c2, f2) ==
  \A x \in Assets :
    /\ n[x] \in Int /\ n2[x] \in Int /\ c[x] \in Int /\ c2[x] \in Int
    /\ t2[x] + c2[x] + Fees(x, f2) - n2[x] = t[x] + c[x] + Fees(x, f) - n[x]

(* A step that moves something between one account and the rest.           *)
LEMMA MovedBalance ==
  ASSUME NEW accts, AccountsOK(accts), NEW u \in Traders, NEW m \in Accounts,
         NEW n, NEW c, NEW f \in Int, NEW n2, NEW c2, NEW f2 \in Int,
         Balanced(n, accts, c, f),
         Moves(n, accts[u].total, c, f, n2, m.total, c2, f2)
  PROVE  Balanced(n2, [accts EXCEPT ![u] = m], c2, f2)
<1> SUFFICES ASSUME NEW x \in Assets
             PROVE  n2[x] = Held([accts EXCEPT ![u] = m], x) + c2[x] + Fees(x, f2)
  BY Zenon DEF Balanced, Fees
<1> DEFINE h == Held(accts, x)
           h2 == Held([accts EXCEPT ![u] = m], x)
           t == accts[u].total[x]
           t2 == m.total[x]
           g == Fees(x, f)
           g2 == Fees(x, f2)
           nx == n[x]
           cx == c[x]
           n2x == n2[x]
           c2x == c2[x]
<1>1. h \in Int /\ t \in Int /\ t2 \in Int
  BY HeldType, AmountsType
<1>2. h2 = h + (t2 - t)
  BY HeldChange
<1>3. g \in Int /\ g2 \in Int
  BY DEF Fees
<1>4. nx = h + cx + g
  BY DEF Balanced, Fees
<1>5. /\ nx \in Int /\ n2x \in Int /\ cx \in Int /\ c2x \in Int
      /\ t2 + c2x + g2 - n2x = t + cx + g - nx
  BY DEF Moves
<1> HIDE DEF h, h2, t, t2, g, g2, nx, cx, n2x, c2x
<1>6. n2x = h2 + c2x + g2
  BY <1>1, <1>2, <1>3, <1>4, <1>5
<1> QED
  BY <1>6 DEF h2, g2, n2x, c2x

(* A deposit and a withdrawal are what is brought in and taken out.        *)
LEMMA CollateralBalance ==
  ASSUME IInv, Balanced(net, acct, tx.coins, fees),
         NEW a \in Traders, NEW x \in Assets, NEW amount \in Nat,
         DepositAsset(a, x, amount) \/ WithdrawAsset(a, x, amount)
  PROVE  Balanced(net', acct', tx'.coins, fees')
<1>1. /\ AccountsOK(acct) /\ acct[a] \in Accounts /\ IsAccount(acct[a])
      /\ net \in [Assets -> Int] /\ fees \in Int /\ amount \in Int
      /\ \A y \in Assets : tx.coins[y] \in Int /\ net[y] \in Int
  BY ConsistentTypes DEF IInv, TxOK, TxTypes, Consistent, AccountsOK
<1>2. tx' = tx /\ fees' = fees
  BY DEF DepositAsset, WithdrawAsset
<1>3. acct[a].total \in Balances
  BY <1>1, AmountsType
<1>4. CASE DepositAsset(a, x, amount)
  <2> DEFINE m == Deposit(acct[a], x, amount)
  <2>1. acct' = [acct EXCEPT ![a] = m] /\ net' = Plus(net, x, amount)
    BY <1>1, <1>4 DEF DepositAsset, AccountsOK, Plus
  <2>2. m \in Accounts
    BY <1>1, DepositProperties DEF SameOrders, IsAccount
  <2>3. m.total = Plus(acct[a].total, x, amount)
    BY <1>1, DepositAmounts DEF Amounts3
  <2> HIDE DEF m
  <2>4. \A y \in Assets :
          net'[y] = IF y = x THEN net[y] + amount ELSE net[y]
    BY <1>1, <2>1, BalanceAt DEF Balances
  <2>6. \A y \in Assets :
          /\ m.total[y] = IF y = x THEN acct[a].total[y] + amount
                                   ELSE acct[a].total[y]
          /\ acct[a].total[y] \in Int
    BY <1>1, <1>3, <2>3, BalanceAt
  <2>5. Balanced(net', [acct EXCEPT ![a] = m], tx.coins, fees)
    <3> DEFINE coins == tx.coins
    <3>1. Moves(net, acct[a].total, coins, fees, net', m.total, coins, fees)
      BY <1>1, <2>4, <2>6 DEF Moves, Fees
    <3>2. Balanced(net, acct, coins, fees)
      OBVIOUS
    <3> HIDE DEF coins
    <3>3. Balanced(net', [acct EXCEPT ![a] = m], coins, fees)
      BY <1>1, <2>2, <3>1, <3>2, MovedBalance
    <3> QED
      BY <3>3 DEF coins
  <2> QED
    BY <1>2, <2>1, <2>5
<1>5. CASE WithdrawAsset(a, x, amount)
  <2> DEFINE m == Withdraw(acct[a], x, amount)
  <2>1. acct' = [acct EXCEPT ![a] = m] /\ net' = Minus(net, x, amount)
    BY <1>1, <1>5 DEF WithdrawAsset, AccountsOK, Minus
  <2>2. m \in Accounts
    BY <1>1, WithdrawProperties DEF SameOrders, IsAccount
  <2>3. m.total = Minus(acct[a].total, x, amount)
    BY <1>1, WithdrawAmounts DEF Amounts3
  <2> HIDE DEF m
  <2>4. \A y \in Assets :
          net'[y] = IF y = x THEN net[y] - amount ELSE net[y]
    BY <1>1, <2>1, BalanceAt DEF Balances
  <2>6. \A y \in Assets :
          /\ m.total[y] = IF y = x THEN acct[a].total[y] - amount
                                   ELSE acct[a].total[y]
          /\ acct[a].total[y] \in Int
    BY <1>1, <1>3, <2>3, BalanceAt
  <2>5. Balanced(net', [acct EXCEPT ![a] = m], tx.coins, fees)
    <3> DEFINE coins == tx.coins
    <3>1. Moves(net, acct[a].total, coins, fees, net', m.total, coins, fees)
      BY <1>1, <2>4, <2>6 DEF Moves, Fees
    <3>2. Balanced(net, acct, coins, fees)
      OBVIOUS
    <3> HIDE DEF coins
    <3>3. Balanced(net', [acct EXCEPT ![a] = m], coins, fees)
      BY <1>1, <2>2, <3>1, <3>2, MovedBalance
    <3> QED
      BY <3>3 DEF coins
  <2> QED
    BY <1>2, <2>1, <2>5
<1> QED
  BY <1>4, <1>5

(* What a taker hands over leaves its account, and is in flight.           *)
LEMMA BeginBalance ==
  ASSUME IInv, tx.coins = NoCoins, Balanced(net, acct, tx.coins, fees),
         NEW kind, NEW a \in Traders, NEW side \in Sides, NEW size, NEW price,
         NEW restriction, NEW behavior, NEW b \in Bounds,
         BeginFromAccount(kind, a, side, size, price, restriction, behavior, b)
  PROVE  Balanced(net', acct', tx'.coins, fees')
<1> DEFINE out == OutAsset(side)
           amount == b.max[out]
           m == Withdraw(acct[a], out, amount)
           coins == Supplied(side, b)
<1>1. /\ AccountsOK(acct) /\ acct[a] \in Accounts /\ IsAccount(acct[a])
      /\ fees \in Int /\ \A y \in Assets : net[y] \in Int
  BY DEF IInv, Consistent, AccountsOK
<1>2. out \in Assets /\ \A x \in Assets : b.max[x] \in Nat
  BY SidesApart, BoundsType
<1>3. amount \in Int
  <2>1. amount \in Nat
    BY <1>2
  <2> HIDE DEF amount
  <2> QED
    BY <2>1
<1>4. /\ acct' = [acct EXCEPT ![a] = m] /\ net' = net /\ fees' = fees
      /\ tx'.coins = coins
  BY <1>1 DEF BeginFromAccount, BeginMatch, NoTx, AccountsOK
<1>5. \A x \in Assets : coins[x] = IF x = out THEN amount ELSE 0
  BY DEF Supplied
<1>6. acct[a].total \in Balances
  BY <1>1, AmountsType
<1> HIDE DEF out, amount, coins
<1>7. m \in Accounts
  BY <1>1, <1>2, <1>3, WithdrawProperties DEF SameOrders, IsAccount
<1>8. m.total = Minus(acct[a].total, out, amount)
  BY <1>1, <1>2, <1>3, WithdrawAmounts DEF Amounts3
<1> HIDE DEF m
<1>9. \A x \in Assets :
        /\ m.total[x] = IF x = out THEN acct[a].total[x] - amount
                                   ELSE acct[a].total[x]
        /\ acct[a].total[x] \in Int
  BY <1>2, <1>3, <1>6, <1>8, BalanceAt
<1>10. \A x \in Assets : NoCoins[x] = 0
  BY DEF NoCoins
<1>11. Moves(net, acct[a].total, NoCoins, fees, net, m.total, coins, fees)
  BY <1>1, <1>3, <1>5, <1>9, <1>10 DEF Moves, Fees
<1>12. Balanced(net, [acct EXCEPT ![a] = m], coins, fees)
  BY <1>1, <1>7, <1>11, MovedBalance
<1> QED
  BY <1>4, <1>12

(* What a swap is paid for is brought into the market.                     *)
LEMMA SwapBalance ==
  ASSUME IInv, tx.coins = NoCoins, Balanced(net, acct, tx.coins, fees),
         NEW a, NEW side \in Sides, NEW b \in Bounds, NEW limit,
         Swap(a, side, b, limit)
  PROVE  Balanced(net', acct', tx'.coins, fees')
<1> SUFFICES ASSUME NEW x \in Assets
             PROVE  net'[x] = Held(acct', x) + tx'.coins[x] + Fees(x, fees')
  BY DEF Balanced, Fees
<1> DEFINE c == Supplied(side, b)[x]
           h == Held(acct, x)
           g == Fees(x, fees)
           n == net[x]
<1>1. /\ acct' = acct /\ fees' = fees /\ tx'.coins = Supplied(side, b)
      /\ net'[x] = n + c
  BY DEF Swap, BeginMatch, NoTx
<1>2. h \in Int /\ g \in Int /\ n \in Int
  BY HeldType DEF IInv, Consistent, Fees
<1>3. c \in Int
  <2>1. b.max[x] \in Int
    BY BoundsType
  <2> QED
    BY <2>1 DEF Supplied
<1>4. n = h + 0 + g
  BY DEF Balanced, Fees, NoCoins
<1> HIDE DEF c, h, g, n
<1>5. n + c = h + c + g
  BY <1>2, <1>3, <1>4
<1> QED
  BY <1>1, <1>5 DEF c, h, g

(* A maker receives what the taker's coins lose, and the reverse.          *)
LEMMA FillBalance ==
  ASSUME IInv, Balanced(net, acct, tx.coins, fees), MatchFill
  PROVE  Balanced(net', acct', tx'.coins, fees')
<1> DEFINE u == HeadEntry.value.user
           k == HeadEntry.value.access
           price == HeadEntry.key
           m == FillOrder(acct[u], Makers, k, FillSize, CompletesFill, price)
           in == InAsset(tx.side)
           out == OutAsset(tx.side)
           gain == Units(in, FillSize, price)
           loss == Units(out, FillSize, price)
           c == tx.coins
           c2 == tx'.coins
<1>1. /\ u \in Traders /\ IsAccount(acct[u]) /\ acct[u] \in Accounts
      /\ Makers \in Sides /\ price \in Nat /\ k \in ActiveKeys(acct[u], Makers)
  BY HeadAccount DEF MatchFill, HasMatch, IsAccount
<1>2. /\ AccountsOK(acct) /\ fees \in Int /\ tx.side \in Sides
      /\ \A x \in Assets : net[x] \in Int /\ c[x] \in Int
  BY DEF IInv, Consistent, TxOK, TxTypes
<1>3. acct' = [acct EXCEPT ![u] = m] /\ net' = net /\ fees' = fees
  BY <1>1, <1>2 DEF MatchFill, FillSize, AccountsOK
<1>4. FillSize \in Int /\ CompletesFill \in BOOLEAN
  <2>1. FillSize \in Nat
    BY FillFacts
  <2> QED
    BY <2>1 DEF CompletesFill
<1>5. /\ in \in Assets /\ out \in Assets /\ in # out
      /\ InAsset(Makers) = out /\ OutAsset(Makers) = in
      /\ \A x \in Assets : x = in \/ x = out
  BY <1>1, <1>2, SidesApart DEF Makers, Opposite, Sides, InAsset, OutAsset
<1>6. \A x \in Assets : c2[x] = IF x = in THEN c[in] + gain ELSE c[out] - loss
  BY FillTx
<1>7. acct[u].total \in Balances
  BY <1>1, AmountsType
<1> HIDE DEF u, k, price, in, out, c, c2
<1>price. price \in Int
  BY <1>1
<1>8. gain \in Int /\ loss \in Int
  BY <1>4, <1>price, UnitsType
<1>9. m \in Accounts
  BY <1>1, <1>4, <1>price, FillOrderProperties, Zenon DEF Closes, Resizes,
     IsAccount
<1>10. m.total = Minus(Plus(acct[u].total, out, loss), in, gain)
  BY <1>1, <1>4, <1>5, <1>price, FillOrderAmounts DEF Amounts3
<1> HIDE DEF m, gain, loss
<1>11. \A x \in Assets :
         /\ m.total[x] = IF x = in THEN acct[u].total[x] - gain
                                   ELSE acct[u].total[x] + loss
         /\ acct[u].total[x] \in Int
  BY <1>5, <1>7, <1>8, <1>10 DEF Plus, Minus, Balances
<1>12. Moves(net, acct[u].total, c, fees, net, m.total, c2, fees)
  BY <1>2, <1>5, <1>6, <1>8, <1>11 DEF Moves, Fees
<1>13. Balanced(net, acct, c, fees)
  BY DEF c
<1>14. Balanced(net, [acct EXCEPT ![u] = m], c2, fees)
  BY <1>1, <1>2, <1>9, <1>12, <1>13, MovedBalance
<1> QED
  BY <1>3, <1>14 DEF c2

(* The coins that are left go back to the taker, less the fees, ...        *)
SettledNet ==
  IF tx.kind = "swap" THEN [x \in Assets |-> net[x] - Returned(tx, x)] ELSE net

LEMMA SettledBalance ==
  ASSUME IInv, Settling, Reckoned(tx), Balanced(net, acct, tx.coins, fees)
  PROVE  Balanced(SettledNet, SettledAccounts, NoCoins, fees + tx.fees)
<1> DEFINE r == [x \in Assets |-> Returned(tx, x)]
           c == tx.coins
           fees2 == fees + tx.fees
<1>1. /\ tx \in TxTypes /\ tx.fees \in Int /\ fees \in Int /\ fees2 \in Int
      /\ \A x \in Assets : c[x] \in Int /\ net[x] \in Int
      /\ AccountsOK(acct)
  BY DEF IInv, TxOK, TxTypes, Consistent
<1>2. \A x \in Assets : r[x] \in Int /\ r[x] \in Nat
  <2>1. \A x \in Assets : r[x] \in Nat
    BY ReturnedFacts
  <2> HIDE DEF r
  <2> QED
    BY <2>1
<1>3. \A x \in Assets : r[x] + Fees(x, fees2) = c[x] + Fees(x, fees)
  <2>1. r["base"] = c["base"] /\ r["quote"] = c["quote"] - tx.fees
    BY ReturnedFacts DEF Returned, Assets
  <2> HIDE DEF r, c
  <2> QED
    BY <1>1, <1>2, <2>1 DEF Assets, Fees
<1>4. \A x \in Assets : NoCoins[x] = 0
  BY DEF NoCoins
<1>5. Balanced(net, acct, c, fees)
  OBVIOUS
<1>6. CASE tx.kind = "swap"
  <2> SUFFICES ASSUME NEW x \in Assets
               PROVE  net[x] - r[x] = Held(acct, x) + 0 + Fees(x, fees2)
    BY <1>4, <1>6 DEF Balanced, Fees, SettledNet, SettledAccounts
  <2> DEFINE h == Held(acct, x)
             n == net[x]
             cx == c[x]
             rx == r[x]
             g == Fees(x, fees)
             g2 == Fees(x, fees2)
  <2>1. h \in Int /\ n \in Int /\ cx \in Int /\ rx \in Int /\ g \in Int /\ g2 \in Int
    BY <1>1, <1>2, HeldType DEF Fees
  <2>2. n = h + cx + g /\ rx + g2 = cx + g
    BY <1>3, <1>5 DEF Balanced, Fees
  <2> HIDE DEF h, n, cx, rx, g, g2
  <2>3. n - rx = h + 0 + g2
    BY <2>1, <2>2
  <2> QED
    BY <2>3 DEF h, n, rx, g2
<1>7. CASE tx.kind # "swap"
  <2> DEFINE a == tx.taker
             base == r["base"]
             quote == r["quote"]
             m1 == Deposit(acct[a], "base", base)
             m2 == Deposit(m1, "quote", quote)
  <2>1. /\ a \in Traders /\ IsAccount(acct[a]) /\ acct[a] \in Accounts
        /\ "base" \in Assets /\ "quote" \in Assets
    BY <1>7 DEF IInv, TxOK, IsMatch, Settling, Consistent, AccountsOK, IsAccount, Assets
  <2>2. SettledAccounts = [acct EXCEPT ![a] = m2] /\ SettledNet = net
    BY <1>1, <1>7, <2>1 DEF SettledAccounts, Redeposited, AccountsOK, SettledNet
  <2>3. base \in Int /\ quote \in Int
    BY <1>2, <2>1
  <2>4. acct[a].total \in Balances
    BY <2>1, AmountsType
  <2> HIDE DEF a, base, quote
  <2>5. m1 \in Accounts /\ IsAccount(m1)
    BY <2>1, <2>3, DepositProperties DEF SameOrders, IsAccount
  <2>6. m1.total = Plus(acct[a].total, "base", base)
    BY <2>1, <2>3, DepositAmounts DEF Amounts3
  <2> HIDE DEF m1
  <2>7. m2 \in Accounts
    BY <2>1, <2>3, <2>5, DepositProperties DEF SameOrders, IsAccount
  <2>8. m2.total = Plus(m1.total, "quote", quote)
    BY <2>1, <2>3, <2>5, DepositAmounts DEF Amounts3
  <2> HIDE DEF m2
  <2>9. \A x \in Assets : m2.total[x] = acct[a].total[x] + r[x]
                            /\ acct[a].total[x] \in Int
    <3> HIDE DEF r
    <3> QED
      BY <2>3, <2>4, <2>6, <2>8 DEF Plus, Balances, Assets, base, quote
  <2> HIDE DEF r, c, fees2
  <2>10. Moves(net, acct[a].total, c, fees, net, m2.total, NoCoins, fees2)
    <3> SUFFICES ASSUME NEW x \in Assets
                 PROVE  m2.total[x] + 0 + Fees(x, fees2) - net[x]
                          = acct[a].total[x] + c[x] + Fees(x, fees) - net[x]
      BY <1>1, <1>4 DEF Moves
    <3> DEFINE t == acct[a].total[x]
               t2 == m2.total[x]
               n == net[x]
               cx == c[x]
               rx == r[x]
               g == Fees(x, fees)
               g2 == Fees(x, fees2)
    <3>1. t \in Int /\ n \in Int /\ cx \in Int /\ rx \in Int /\ g \in Int /\ g2 \in Int
      BY <1>1, <1>2, <2>9 DEF Fees
    <3>2. t2 = t + rx /\ rx + g2 = cx + g
      BY <1>3, <2>9
    <3> HIDE DEF t, t2, n, cx, rx, g, g2
    <3>3. t2 + 0 + g2 - n = t + cx + g - n
      BY <3>1, <3>2
    <3> QED
      BY <3>3 DEF t, t2, n, cx, g, g2
  <2>11. Balanced(net, [acct EXCEPT ![a] = m2], NoCoins, fees2)
    BY <1>1, <1>5, <2>1, <2>7, <2>10, MovedBalance
  <2> QED
    BY <2>2, <2>11 DEF fees2
<1> QED
  BY <1>6, <1>7

(* ... and an order that rests moves nothing more.                         *)
LEMMA SettleBalance ==
  ASSUME IInv, Settle, Reckoned(tx), Balanced(net, acct, tx.coins, fees)
  PROVE  Balanced(net', acct', tx'.coins, fees')
<1> DEFINE a == tx.taker
           side == tx.side
           size == Remaining
           price == tx.price
           accts == SettledAccounts
<1>1. /\ Balanced(SettledNet, accts, NoCoins, fees + tx.fees)
      /\ Consistent(book, accts, counter)
  BY SettledBalance, SettledConsistent DEF Settle
<1>2. /\ net' = SettledNet /\ fees' = fees + tx.fees
      /\ tx'.coins = NoCoins
  BY DEF Settle, SettledNet, End, NoTx
<1>3. SameTotals(accts, acct')
  <2>1. CASE ~Rests
    BY <2>1 DEF Settle, SameTotals
  <2>2. CASE Rests
    <3>1. acct' = PostedAccounts(accts, counter, a, side, size, price)
      BY <2>2 DEF Settle
    <3>2. /\ a \in Traders /\ side \in Sides /\ counter > 0 /\ counter \in Nat
      BY <2>2, ConsistentTypes DEF Settle, IInv, TxOK, IsMatch, Settling, Rests, TxTypes
    <3>3. size \in Nat \ {0}
      BY <2>2, RemainingType
    <3>4. price \in 1..HI_PRICE
      BY <2>2 DEF Settle, CanSettle, CanPost, CanPlaceOrder
    <3>5. counter \in Nat \ {0}
      BY <3>2
    <3> HIDE DEF a, side, size, price, accts
    <3> QED
      BY <1>1, <3>1, <3>2, <3>3, <3>4, <3>5, PostTotals, Zenon
  <2> QED
    BY <2>1, <2>2
<1> HIDE DEF accts
<1>4. Balanced(SettledNet, acct', NoCoins, fees + tx.fees)
  BY <1>1, <1>3, SameBalance
<1> QED
  BY <1>2, <1>4

(* The market is balanced now, and to the state it may be rolled back to.  *)
ConservedInv ==
  /\ Balanced(net, acct, tx.coins, fees)
  /\ ~Idle => Balanced(saved.net, saved.acct, NoCoins, saved.fees)

(* No step creates or loses an asset.                                      *)
LEMMA StepBalanced ==
  ASSUME IInv, LedgerInv, ConservedInv, [Next]_vars
  PROVE  Balanced(net', acct', tx'.coins, fees')
<1>1. /\ Balanced(net, acct, tx.coins, fees) /\ FlightOK(tx, acct)
      /\ tx \in TxTypes /\ Consistent(book, acct, counter) /\ AccountsOK(acct)
  BY DEF ConservedInv, LedgerInv, IInv, TxOK, Consistent
<1>2. ~IsMatch(tx) => tx.coins = NoCoins
  BY <1>1 DEF FlightOK
<1>3. Idle => tx.coins = NoCoins
  BY <1>2 DEF Idle, IsMatch
<1>4. ASSUME SameTotals(acct, acct'), UNCHANGED <<fees, net>>, tx'.coins = tx.coins
      PROVE  Balanced(net', acct', tx'.coins, fees')
  BY <1>1, <1>4, SameBalance
<1>5. ASSUME acct' = acct PROVE SameTotals(acct, acct')
  BY <1>5 DEF SameTotals
<1>6. CASE \E a \in Traders, x \in Assets, amount \in Nat :
             DepositAsset(a, x, amount) \/ WithdrawAsset(a, x, amount)
  BY <1>1, <1>6, CollateralBalance
<1>7. CASE \E a \in Traders, side \in Sides, size \in Nat, price \in Nat,
               restriction \in AllRestrictions :
              PlaceLimitOrderInSpread(a, side, size, price, restriction)
  <2>1. PICK a \in Traders, side \in Sides, size \in Nat, price \in Nat,
             restriction \in AllRestrictions :
          PlaceLimitOrderInSpread(a, side, size, price, restriction)
    BY <1>7
  <2>2. SameTotals(acct, acct')
    <3>1. CASE acct' = acct
      BY <1>5, <3>1
    <3>2. CASE acct' = PostedAccounts(acct, counter', a, side, size, price)
      <4>1. size \in Nat \ {0} /\ price \in 1..HI_PRICE /\ counter' \in Nat \ {0}
        BY <1>1, <2>1, ConsistentTypes, MarketAssumption
           DEF PlaceLimitOrderInSpread, CheckLimitOrder, NextCounter
      <4> QED
        BY <1>1, <3>2, <4>1, PostTotals
    <3> QED
      BY <2>1, <3>1, <3>2 DEF PlaceLimitOrderInSpread
  <2> QED
    BY <1>4, <2>1, <2>2 DEF PlaceLimitOrderInSpread
<1>8. CASE \E a \in Traders, side \in Sides, size \in Nat, price \in Nat,
               restriction \in AllRestrictions, behavior \in AllBehaviors :
              PlaceLimitOrderAcrossSpread(a, side, size, price, restriction,
                                          behavior)
  <2>1. PICK a \in Traders, side \in Sides, size \in Nat, price \in Nat,
             restriction \in AllRestrictions, behavior \in AllBehaviors :
          PlaceLimitOrderAcrossSpread(a, side, size, price, restriction, behavior)
    BY <1>8
  <2>2. PICK b \in Bounds :
          BeginFromAccount("limit", a, side, size, price, restriction, behavior, b)
    BY <2>1, AcrossSpreadBegins
  <2>3. Idle
    BY <2>1 DEF PlaceLimitOrderAcrossSpread
  <2> QED
    BY <1>1, <1>3, <2>2, <2>3, BeginBalance
<1>9. CASE \E a \in Traders, side \in Sides, size \in Nat,
               behavior \in AllBehaviors :
              PlaceMarketOrder(a, side, size, behavior)
  <2>1. PICK a \in Traders, side \in Sides, size \in Nat,
             behavior \in AllBehaviors : PlaceMarketOrder(a, side, size, behavior)
    BY <1>9
  <2>2. PICK price \in Nat : \E b \in Bounds :
          BeginFromAccount("market", a, side, size, price, "none", behavior, b)
    BY <2>1, MarketOrderBegins
  <2>3. PICK b \in Bounds :
          BeginFromAccount("market", a, side, size, price, "none", behavior, b)
    BY <2>2
  <2>4. Idle
    BY <2>1 DEF PlaceMarketOrder
  <2> QED
    BY <1>1, <1>3, <2>3, <2>4, BeginBalance
<1>10. CASE \E a \in Traders \cup {NoTaker}, side \in Sides, b \in Bounds,
               limit \in Nat : Swap(a, side, b, limit)
  <2>1. PICK a \in Traders \cup {NoTaker}, side \in Sides, b \in Bounds,
             limit \in Nat : Swap(a, side, b, limit)
    BY <1>10
  <2>2. Idle
    BY <2>1 DEF Swap, BeginMatch
  <2> QED
    BY <1>1, <1>3, <2>1, <2>2, SwapBalance
<1>11. CASE \E a \in Traders, side \in CancelSides : \E id \in IssuedIds(side) :
             ManualCancel(a, side, id)
  <2>1. PICK a \in Traders, side \in CancelSides :
          \E id \in IssuedIds(side) : ManualCancel(a, side, id)
    BY <1>11
  <2>2. PICK id \in IssuedIds(side) : ManualCancel(a, side, id)
    BY <2>1
  <2>3. side \in Sides
    BY InputAssumption
  <2>4. SameTotals(acct, acct')
    BY <1>1, <2>2, <2>3, CancelTotals, Zenon DEF ManualCancel, CancelEffect
  <2> QED
    BY <1>4, <2>2, <2>4 DEF ManualCancel
<1>12. CASE \E a \in Traders, side \in Sides : CancelAllOrders(a, side)
  <2>1. /\ Idle /\ tx'.coins = NoCoins /\ acct' = acct
        /\ UNCHANGED <<fees, net>>
    BY <1>12 DEF CancelAllOrders, NoTx
  <2> QED
    BY <1>3, <1>4, <1>5, <2>1
<1>13. CASE \E a \in Traders, side \in Sides, newSize \in NewSizes :
              \E id \in IssuedIds(side) : ChangeSize(a, side, id, newSize)
  <2>1. PICK a \in Traders, side \in Sides, newSize \in NewSizes :
          \E id \in IssuedIds(side) : ChangeSize(a, side, id, newSize)
    BY <1>13
  <2>2. PICK id \in IssuedIds(side) : ChangeSize(a, side, id, newSize)
    BY <2>1
  <2>3. SameTotals(acct, acct')
    BY <2>2, ChangeSizeLedgers DEF SameTotals, LedgerInv
  <2> QED
    BY <1>4, <2>2, <2>3 DEF ChangeSize
<1>14. CASE MatchExit
  <2>1. tx'.coins = tx.coins
    BY <1>1, <1>14 DEF MatchExit, TxTypes
  <2> QED
    BY <1>4, <1>5, <1>14, <2>1 DEF MatchExit
<1>15. CASE MatchSelf
  <2>1. tx'.coins = tx.coins
    BY <1>1, <1>15 DEF MatchSelf, TxTypes
  <2>2. SameTotals(acct, acct')
    <3>1. HeadEntry.value.user \in Traders /\ Makers \in Sides
      BY <1>15, HeadAccount DEF MatchSelf, HasMatch
    <3>2. CASE CancelsMaker
      <4> DEFINE u == HeadEntry.value.user
                 k == HeadEntry.value.access
                 price == HeadEntry.key
      <4>1. acct' = [acct EXCEPT ![u] = CancelOrder(@, Makers, price, k)]
        BY <1>15, <3>2 DEF MatchSelf
      <4>2. u \in Traders
        BY <3>1
      <4> HIDE DEF u, k, price
      <4>3. SameTotals(acct, [acct EXCEPT ![u] = CancelOrder(@, Makers, price, k)])
        BY <1>1, <3>1, <4>2, CancelTotals
      <4> QED
        BY <4>1, <4>3
    <3>3. CASE ~CancelsMaker
      BY <1>5, <1>15, <3>3 DEF MatchSelf
    <3> QED
      BY <3>2, <3>3
  <2> QED
    BY <1>4, <1>15, <2>1, <2>2 DEF MatchSelf
<1>16. CASE MatchFill
  BY <1>1, <1>16, FillBalance
<1>17. CASE Settle
  <2>1. Reckoned(tx)
    BY <1>1, <1>17 DEF FlightOK, IsMatch, Settle, Settling
  <2> QED
    BY <1>1, <1>17, <2>1, SettleBalance
<1>18. CASE CancelNext
  <2>1. /\ tx.side \in Sides /\ tx.taker \in Traders
        /\ CancelEffect(tx.taker, tx.side, NextIdToCancel)
        /\ UNCHANGED <<fees, net>>
    BY <1>1, <1>18 DEF CancelNext, Cancelling, TxTypes, IInv, TxOK
  <2>2. SameTotals(acct, acct')
    BY <1>1, <2>1, CancelTotals, Zenon DEF CancelEffect
  <2>3. tx'.coins = tx.coins
    BY <1>1, <1>18 DEF CancelNext, TxTypes
  <2> QED
    BY <1>4, <2>1, <2>2, <2>3
<1>19. CASE CancelDone
  <2>1. ~IsMatch(tx) /\ tx'.coins = NoCoins /\ acct' = acct /\ UNCHANGED <<fees, net>>
    BY <1>19 DEF CancelDone, Cancelling, IsMatch, End, NoTx
  <2> QED
    BY <1>2, <1>4, <1>5, <2>1
<1>20. CASE Rollback
  <2>1. /\ ~Idle /\ tx'.coins = NoCoins
        /\ acct' = saved.acct /\ net' = saved.net /\ fees' = saved.fees
    BY <1>20 DEF Rollback, Aborts, Matching, Settling, Cancelling, Idle, End, NoTx
  <2> QED
    BY <2>1 DEF ConservedInv
<1>21. CASE UNCHANGED vars
  BY <1>4, <1>5, <1>21 DEF vars
<1> QED
  BY <1>6, <1>7, <1>8, <1>9, <1>10, <1>11, <1>12, <1>13, <1>14, <1>15, <1>16,
     <1>17, <1>18, <1>19, <1>20, <1>21, StepCases

(* A balanced market stays so.                                             *)
LEMMA NextConservedInv ==
  IInv /\ LedgerInv /\ ConservedInv /\ [Next]_vars => ConservedInv'
<1> SUFFICES ASSUME IInv, LedgerInv, ConservedInv, [Next]_vars PROVE ConservedInv'
  OBVIOUS
<1>1. Balanced(net', acct', tx'.coins, fees')
  BY StepBalanced
<1>2. ~Idle' => Balanced(saved'.net, saved'.acct, NoCoins, saved'.fees)
  <2>1. CASE Idle /\ ~Idle'
    <3>1. saved' = State /\ tx.coins = NoCoins
      BY <2>1, SavedStep DEF LedgerInv, FlightOK, IsMatch, Idle
    <3>2. saved'.net = net /\ saved'.acct = acct /\ saved'.fees = fees
      BY <3>1 DEF State
    <3> QED
      BY <3>1, <3>2 DEF ConservedInv
  <2>2. CASE ~Idle /\ ~Idle'
    BY <2>2, SavedStep DEF ConservedInv
  <2> QED
    BY <2>1, <2>2
<1> QED
  BY <1>1, <1>2 DEF ConservedInv

(* What the market begins with is what each account first deposits.        *)
LEMMA InitConservedInv ==
  Init => ConservedInv
<1> SUFFICES ASSUME Init PROVE ConservedInv
  OBVIOUS
<1> DEFINE base == Endowment["base"]
           quote == Endowment["quote"]
           m1 == Deposit(EmptyAccount, "base", base)
           m2 == Deposit(m1, "quote", quote)
<1>1. /\ "base" \in Assets /\ "quote" \in Assets
      /\ base \in Int /\ quote \in Int
  BY MarketAssumption, UnitsAssumption DEF Assets
<1>2. IsAccount(EmptyAccount) /\ EmptyAccount \in Accounts
  BY EmptyAccountProperties DEF IsAccount
<1>3. EmptyAccount.total \in Balances /\ \A x \in Assets : EmptyAccount.total[x] = 0
  BY <1>2, AmountsType DEF EmptyAccount
<1>4. /\ acct = [a \in Traders |-> m2] /\ fees = 0 /\ tx = NoTx
      /\ net = [x \in Assets |-> Cardinality(Traders) * Endowment[x]]
  BY DEF Init
<1> HIDE DEF base, quote
<1>5. m1 \in Accounts
  BY <1>1, <1>2, DepositProperties DEF SameOrders, IsAccount
<1>6. m1.total = Plus(EmptyAccount.total, "base", base)
  BY <1>1, <1>2, DepositAmounts DEF Amounts3
<1> HIDE DEF m1
<1>7. m2.total = Plus(m1.total, "quote", quote)
  BY <1>1, <1>5, DepositAmounts DEF Amounts3
<1> HIDE DEF m2
<1>8. \A x \in Assets : m2.total[x] = Endowment[x]
  BY <1>1, <1>3, <1>6, <1>7 DEF Plus, Balances, Assets, base, quote
<1>9. Balanced(net, acct, NoCoins, 0)
  <2> SUFFICES ASSUME NEW x \in Assets
               PROVE  net[x] = Held(acct, x) + 0 + 0
    BY DEF Balanced, NoCoins
  <2> DEFINE c == Endowment[x]
             f == [a \in Traders |-> acct[a].total[x]]
             k == Cardinality(Traders)
  <2>1. c \in Int /\ \A a \in Traders : f[a] = c
    <3>1. c \in Int
      BY MarketAssumption, UnitsAssumption
    <3> QED
      BY <1>4, <1>8, <3>1
  <2>2. net[x] = k * c
    BY <1>4
  <2>3. k \in Nat
    BY MarketAssumption, FS_CardinalityType
  <2>4. Held(acct, x) = Total(f, Traders)
    BY DEF Held
  <2> HIDE DEF c, f
  <2>5. Total(f, Traders) = k * c
    BY <2>1, MarketAssumption, TotalConstant
  <2> HIDE DEF k
  <2>6. k * c \in Int
    BY <2>1, <2>3
  <2> QED
    BY <2>2, <2>4, <2>5, <2>6
<1>10. Idle /\ tx.coins = NoCoins
  BY <1>4 DEF Idle, NoTx
<1> QED
  BY <1>4, <1>9, <1>10 DEF ConservedInv

(* The two ways to add up what accounts hold agree.                        *)
LEMMA HeldIsSum ==
  ASSUME AccountsOK(acct), NEW x \in Assets
  PROVE  SumOver(Traders, LAMBDA a : acct[a].total[x]) = Held(acct, x)
<1> DEFINE f == [a \in Traders |-> acct[a].total[x]]
           V(a) == acct[a].total[x]
           Q(h) == h = [s \in SUBSET Traders |->
                          IF s = {} THEN 0
                          ELSE V(CHOOSE y \in s : TRUE)
                                 + h[s \ {CHOOSE y \in s : TRUE}]]
           h == CHOOSE i : Q(i)
<1>1. IsFiniteSet(Traders) /\ \A a \in Traders : f[a] = V(a)
  BY MarketAssumption
<1>2. PICK g : IsSum(g, f, Traders) /\ Total(f, Traders) = g[Traders]
  BY <1>1, TotalIsSum
<1> HIDE DEF f
<1>3. Q(g)
  <2>1. \A s \in SUBSET Traders : s # {} => (CHOOSE y \in s : TRUE) \in Traders
    OBVIOUS
  <2> QED
    BY <1>1, <1>2, <2>1 DEF IsSum, SumTerm, Pick
<1> HIDE DEF Q
<1>4. Q(h)
  BY <1>3
<1>5. IsSum(h, f, Traders)
  <2> HIDE DEF h
  <2>1. \A s \in SUBSET Traders : s # {} => (CHOOSE y \in s : TRUE) \in Traders
    OBVIOUS
  <2> QED
    BY <1>1, <1>4, <2>1 DEF Q, IsSum, SumTerm, Pick
<1>6. SumOver(Traders, LAMBDA a : acct[a].total[x]) = h[Traders]
  BY DEF SumOver, MapThenSumSet, MapThenFoldSet, Q, h, V
<1>7. h[Traders] = g[Traders]
  <2> HIDE DEF h
  <2> QED
    BY <1>1, <1>2, <1>5, SumAgrees
<1> QED
  BY <1>2, <1>6, <1>7 DEF Held, f

(* No asset is created or lost: accounts, fees and coins in flight add up  *)
(* to what was brought in from outside, at every step of a match, and      *)
(* whatever is cancelled, evicted or rolled back (match in market.move     *)
(* moves coins of one asset against the other with every fill, and takes   *)
(* the fees from what is left).                                            *)
THEOREM AssetsKept == Spec => []AssetsConserved
<1>1. IInv /\ ConservedInv => AssetsConserved
  BY HeldIsSum, Zenon DEF IInv, Consistent, ConservedInv, Balanced,
     AssetsConserved
<1> QED
  BY <1>1, InitLedgerInv, NextLedgerInv, InitConservedInv, NextConservedInv,
     Invariance, PTL DEF Spec

-----------------------------------------------------------------------------
(* What a step that is not a rollback does to the book and to the orders   *)
(* of accounts: nothing, or one thing on one side.                         *)

Still ==
  book' = book /\ \A a \in Traders : acct'[a].orders = acct[a].orders

(* The order of entry i is cancelled, or filled to its last lot.           *)
Dropped(side, i) ==
  LET e == book[side].list[i]
  IN \E m : /\ Closes(acct[e.value.user], m, side, e.value.access)
            /\ book' = [book EXCEPT ![side] = RemoveEntry(book[side], i)]
            /\ acct' = [acct EXCEPT ![e.value.user] = m]

(* It is filled in part, or its size is changed where it stands, ...       *)
ResizedInPlace(side, i, size) ==
  LET e == book[side].list[i]
  IN \E m : /\ Resizes(acct[e.value.user], m, side, e.value.access, size)
            /\ book' = [book EXCEPT ![side] = ResizeAt(book[side], i, size)]
            /\ acct' = [acct EXCEPT ![e.value.user] = m]

(* ... or it grows, and goes to the back of its price level.               *)
MovedBack(side, i, size) ==
  LET e == book[side].list[i]
      order == NewOrder(e.value.user, size, e.value.access)
  IN \E m : /\ Resizes(acct[e.value.user], m, side, e.value.access, size)
            /\ book' = [book EXCEPT ![side] =
                          Insert(RemoveEntry(book[side], i), e.key, order)]
            /\ acct' = [acct EXCEPT ![e.value.user] = m]

(* An order is posted, after deposits that change no orders.               *)
Posted(accts, a, side, size, price) ==
  /\ Consistent(book, accts, counter)
  /\ \A t \in Traders : accts[t].orders = acct[t].orders
  /\ Admits(book[side], price)
  /\ book' = PostedBook(accts, a, side, size, price)
  /\ acct' = PostedAccounts(accts, counter', a, side, size, price)
  /\ Idle'
  /\ IF Idle THEN counter' = NextCounter ELSE IsMatch(tx) /\ counter' = counter

(* The cases, with what is known of sizes.                                 *)
BookStep ==
  \/ Still
  \/ \E side \in Sides : \E i \in 1..Len(book[side].list) : Dropped(side, i)
  \/ \E side \in Sides : \E i \in 1..Len(book[side].list), size \in Nat \ {0} :
       /\ ResizedInPlace(side, i, size)
       /\ size <= book[side].list[i].value.size \/ IsLocalTail(book[side], i)
  \/ \E side \in Sides : \E i \in 1..Len(book[side].list), size \in Nat \ {0} :
       /\ MovedBack(side, i, size)
       /\ Idle /\ Idle' /\ size > book[side].list[i].value.size
  \/ \E a \in Traders, side \in Sides, size \in Nat \ {0}, price \in 1..HI_PRICE :
       \E accts : Posted(accts, a, side, size, price)

(* A deposit and a withdrawal change no orders.                            *)
LEMMA CollateralStill ==
  ASSUME IInv, NEW a \in Traders, NEW x \in Assets, NEW amount \in Nat,
         DepositAsset(a, x, amount) \/ WithdrawAsset(a, x, amount)
  PROVE  Still
<1>1. IsAccount(acct[a]) /\ AccountsOK(acct) /\ amount \in Int
  BY DEF IInv, Consistent, AccountsOK
<1>2. CASE DepositAsset(a, x, amount)
  <2> DEFINE m == Deposit(acct[a], x, amount)
  <2>1. m.orders = acct[a].orders
    BY <1>1, DepositProperties DEF SameOrders
  <2>2. acct' = [acct EXCEPT ![a] = m] /\ book' = book
    BY <1>1, <1>2 DEF DepositAsset, AccountsOK
  <2> HIDE DEF m
  <2> QED
    BY <1>1, <2>1, <2>2 DEF Still, AccountsOK
<1>3. CASE WithdrawAsset(a, x, amount)
  <2> DEFINE m == Withdraw(acct[a], x, amount)
  <2>1. m.orders = acct[a].orders
    BY <1>1, WithdrawProperties DEF SameOrders
  <2>2. acct' = [acct EXCEPT ![a] = m] /\ book' = book
    BY <1>1, <1>3 DEF WithdrawAsset, AccountsOK
  <2> HIDE DEF m
  <2> QED
    BY <1>1, <2>1, <2>2 DEF Still, AccountsOK
<1> QED
  BY <1>2, <1>3

(* The beginning of a match withdraws from the account of the taker.       *)
LEMMA BeginStill ==
  ASSUME IInv, NEW kind, NEW a \in Traders, NEW side \in Sides, NEW size,
         NEW price, NEW restriction, NEW behavior, NEW b \in Bounds,
         BeginFromAccount(kind, a, side, size, price, restriction, behavior, b)
  PROVE  Still
<1> DEFINE out == OutAsset(side)
           amount == b.max[out]
           m == Withdraw(acct[a], out, amount)
<1>1. IsAccount(acct[a]) /\ AccountsOK(acct)
  BY DEF IInv, Consistent, AccountsOK
<1>2. out \in Assets
  BY SidesApart
<1>3. amount \in Int
  <2>1. amount \in Nat
    BY <1>2, BoundsType
  <2> HIDE DEF amount
  <2> QED
    BY <2>1
<1>4. acct' = [acct EXCEPT ![a] = m] /\ book' = book
  BY <1>1 DEF BeginFromAccount, BeginMatch, AccountsOK
<1> HIDE DEF out, amount
<1>5. m.orders = acct[a].orders
  BY <1>1, <1>2, <1>3, WithdrawProperties, SMTT(30) DEF SameOrders
<1> HIDE DEF m
<1> QED
  BY <1>1, <1>4, <1>5 DEF Still, AccountsOK

(* An order that its owner cancels, under the ID it has in the account.    *)
Bears(side, i, a, id) ==
  /\ a = book[side].list[i].value.user
  /\ acct[a].orders[side][book[side].list[i].value.access].id = id

LEMMA CancelDrops ==
  ASSUME IInv, NEW a, NEW side \in Sides, NEW id,
         Owns(a, side, id), CancelEffect(a, side, id)
  PROVE  \E i \in 1..Len(book[side].list) :
           Dropped(side, i) /\ Bears(side, i, a, id)
<1> DEFINE i == IndexOf(book[side], id.node)
           e == book[side].list[i]
           k == e.value.access
           m == CancelOrder(acct[a], side, e.key, k)
<1>1. Consistent(book, acct, counter)
  BY DEF IInv
<1>2. i \in 1..Len(book[side].list) /\ EntryOf(side, id) = e /\ e.value.user = a
  BY <1>1, OwnedEntry, Zenon DEF Owns
<1>3. book \in Books /\ acct \in [Traders -> Accounts]
  BY <1>1, ConsistentTypes
<1>4. acct[a].orders[side][k].id = id
  BY <1>2, Zenon DEF Owns, CanCancelOrder
<1>5. /\ book' = [book EXCEPT ![side] = RemoveEntry(book[side], i)]
      /\ acct' = [acct EXCEPT ![a] = m]
  BY <1>2, <1>3 DEF CancelEffect, RemoveFromBook
<1> HIDE DEF i
<1>6. IsAccount(acct[a]) /\ k \in ActiveKeys(acct[a], side) /\ e.key \in Nat
  <2>1. EntryFacts(book[side], i, acct, side, counter)
    BY <1>1, <1>2, EntryInAccount
  <2>2. /\ IsAccount(acct[e.value.user]) /\ e.key \in Nat
        /\ k \in ActiveKeys(acct[e.value.user], side)
    BY <2>1, Zenon DEF EntryFacts
  <2> QED
    BY <1>2, <2>2
<1>7. Closes(acct[a], m, side, k)
  <2>1. e.key \in Int
    BY <1>6
  <2> HIDE DEF e, k
  <2> QED
    BY <1>6, <2>1, CancelOrderProperties
<1> HIDE DEF m
<1>8. Dropped(side, i)
  BY <1>2, <1>5, <1>7, Zenon DEF Dropped
<1> QED
  BY <1>2, <1>4, <1>8 DEF Bears

(* A size change, in place or to the back of the price level.              *)
LEMMA ChangeSizeStep ==
  ASSUME IInv, NEW a, NEW side \in Sides, NEW newSize \in NewSizes, NEW id,
         ChangeSize(a, side, id, newSize)
  PROVE  BookStep
<1> DEFINE q == book[side]
           i == IndexOf(q, id.node)
           e == q.list[i]
           k == e.value.access
           m == ChangeOrderSize(acct[a], side, newSize, e.key, k, id)
           value == NewOrder(a, newSize, k)
<1>1. Consistent(book, acct, counter)
  BY DEF IInv
<1>2. i \in 1..Len(q.list) /\ EntryOf(side, id) = e /\ e.value.user = a
  BY <1>1, OwnedEntry DEF ChangeSize
<1>3. newSize \in Nat \ {0}
  BY InputAssumption, MarketAssumption DEF ChangeSize
<1>4. /\ acct[a].orders[side][k].id = id
      /\ acct[a].orders[side][k].size # newSize
  BY <1>2, Zenon DEF ChangeSize, CanChangeOrderSize, CanCancelOrder
<1> HIDE DEF i
<1>5. EntryFacts(q, i, acct, side, counter)
  BY <1>1, <1>2, EntryInAccount
<1>6. /\ e.key \in Nat /\ IsAccount(acct[a]) /\ k \in ActiveKeys(acct[a], side)
      /\ e.value = NewOrder(a, e.value.size, k) /\ id.price = e.key
      /\ e.value.size \in Nat \ {0} /\ e.value.size # newSize
  <2> HIDE DEF q
  <2> QED
    BY <1>2, <1>4, <1>5 DEF EntryFacts
<1>7. Resizes(acct[a], m, side, k, newSize)
  BY <1>3, <1>4, <1>6, ChangeOrderSizeProperties, Zenon
<1> HIDE DEF m, k
<1>8. book \in Books /\ acct \in [Traders -> Accounts]
  BY <1>1, ConsistentTypes
<1>9. /\ acct' = [acct EXCEPT ![a] = m]
      /\ book' = [book EXCEPT ![side] = ResizedBook(q, id, newSize)]
  BY <1>2, <1>8 DEF ChangeSize, m, k
<1>10. [e.value EXCEPT !.size = newSize] = value
  BY <1>6 DEF NewOrder
<1>11. CASE KeepsPlace(q, i, newSize)
  <2>1. ResizedBook(q, id, newSize) = ResizeAt(q, i, newSize)
    BY <1>11 DEF ResizedBook, ResizeAt, i
  <2>2. ResizedInPlace(side, i, newSize)
    BY <1>2, <1>7, <1>9, <2>1, Zenon DEF ResizedInPlace, k
  <2>3. newSize <= e.value.size \/ IsLocalTail(q, i)
    <3> HIDE DEF e
    <3>1. newSize < e.value.size => newSize <= e.value.size
      BY <1>3, <1>6
    <3> QED
      BY <1>11, <3>1 DEF KeepsPlace, e
  <2> QED
    BY <1>2, <1>3, <2>2, <2>3 DEF BookStep
<1>12. CASE ~KeepsPlace(q, i, newSize)
  <2>1. ResizedBook(q, id, newSize) = Insert(RemoveEntry(q, i), e.key, value)
    BY <1>6, <1>10, <1>12 DEF ResizedBook, i
  <2>2. MovedBack(side, i, newSize)
    BY <1>2, <1>7, <1>9, <2>1, Zenon DEF MovedBack, k
  <2>3. newSize > e.value.size
    <3>1. ~(newSize < e.value.size)
      BY <1>12 DEF KeepsPlace
    <3> HIDE DEF e
    <3> QED
      BY <1>3, <1>6, <3>1
  <2>4. Idle /\ Idle'
    BY DEF ChangeSize, Idle
  <2> QED
    BY <1>2, <1>3, <2>2, <2>3, <2>4 DEF BookStep
<1> QED
  BY <1>11, <1>12

(* A self match, which may cancel the order at the head.                   *)
LEMMA MatchSelfStep ==
  ASSUME IInv, MatchSelf
  PROVE  BookStep
<1> DEFINE q == book[Makers]
           e == q.list[1]
           u == e.value.user
           k == e.value.access
           m == CancelOrder(acct[u], Makers, e.key, k)
<1>1. ~IsEmpty(q)
  BY DEF MatchSelf, HasMatch
<1>2. book \in Books /\ acct \in [Traders -> Accounts]
  BY ConsistentTypes DEF IInv
<1>3. CASE ~CancelsMaker
  BY <1>3 DEF MatchSelf, Still, BookStep
<1>4. CASE CancelsMaker
  <2>1. /\ Makers \in Sides /\ 1 \in 1..Len(q.list)
        /\ RemoveFromBook(q, MakerOrderId) = RemoveEntry(q, 1)
    BY <1>1, HeadFacts
  <2>2. /\ IsAccount(acct[u]) /\ k \in ActiveKeys(acct[u], Makers) /\ e.key \in Nat
    BY <1>1, HeadAccount, Zenon DEF HeadEntry
  <2>3. Closes(acct[u], m, Makers, k)
    <3>1. e.key \in Int
      BY <2>2
    <3> HIDE DEF e
    <3> QED
      BY <2>1, <2>2, <3>1, CancelOrderProperties
  <2>4. /\ acct' = [acct EXCEPT ![u] = m]
        /\ book' = [book EXCEPT ![Makers] = RemoveEntry(book[Makers], 1)]
    BY <1>2, <1>4, <2>1 DEF MatchSelf, HeadEntry, Books
  <2> HIDE DEF m
  <2>5. Dropped(Makers, 1)
    BY <2>3, <2>4, Zenon DEF Dropped
  <2> QED
    BY <2>1, <2>5 DEF BookStep
<1> QED
  BY <1>3, <1>4

(* A fill of the order at the head, in full or in part.                    *)
LEMMA MatchFillStep ==
  ASSUME IInv, MatchFill
  PROVE  BookStep
<1> DEFINE q == book[Makers]
           e == q.list[1]
           u == e.value.user
           k == e.value.access
           m == FillOrder(acct[u], Makers, k, FillSize, CompletesFill, e.key)
           left == e.value.size - FillSize
<1>1. ~IsEmpty(q)
  BY DEF MatchFill, HasMatch
<1>2. book \in Books /\ acct \in [Traders -> Accounts]
  BY ConsistentTypes DEF IInv
<1>3. /\ Makers \in Sides /\ 1 \in 1..Len(q.list)
      /\ RemoveFromBook(q, MakerOrderId) = RemoveEntry(q, 1)
  BY <1>1, HeadFacts
<1>4. /\ IsAccount(acct[u]) /\ k \in ActiveKeys(acct[u], Makers) /\ e.key \in Nat
      /\ acct[u].orders[Makers][k].size = e.value.size
  BY <1>1, HeadAccount, Zenon DEF HeadEntry
<1>5. /\ acct' = [acct EXCEPT ![u] = m]
      /\ book' = [book EXCEPT ![Makers] =
                     IF CompletesFill THEN RemoveFromBook(q, MakerOrderId)
                     ELSE FillHead(q, FillSize)]
  BY <1>2, <1>3 DEF MatchFill, HeadEntry, FillSize, Books
<1>6. FillSize \in Int /\ e.key \in Int
  <2>1. FillSize \in Nat \ {0}
    BY FillFacts
  <2> HIDE DEF e
  <2> QED
    BY <1>4, <2>1
<1>7. /\ CompletesFill => Closes(acct[u], m, Makers, k)
      /\ ~CompletesFill => Resizes(acct[u], m, Makers, k, left)
  <2> DEFINE price == e.key
             complete == CompletesFill
  <2>1. complete = TRUE \/ complete = FALSE
    BY DEF CompletesFill
  <2>2. /\ Closes(acct[u], FillOrder(acct[u], Makers, k, FillSize, TRUE, price),
                  Makers, k)
        /\ Resizes(acct[u], FillOrder(acct[u], Makers, k, FillSize, FALSE, price),
                   Makers, k, acct[u].orders[Makers][k].size - FillSize)
    <3>1. price \in Int
      BY <1>6
    <3> HIDE DEF u, k, price
    <3> QED
      BY <1>3, <1>4, <1>6, <3>1, FillOrderProperties, Zenon
  <2>3. m = FillOrder(acct[u], Makers, k, FillSize, complete, price)
    OBVIOUS
  <2> HIDE DEF m, u, k, price, complete
  <2>4. complete => Closes(acct[u], m, Makers, k)
    BY <2>1, <2>2, <2>3, Zenon
  <2>5. ~complete => Resizes(acct[u], m, Makers, k, left)
    BY <1>4, <2>1, <2>2, <2>3, Zenon
  <2> QED
    BY <2>4, <2>5 DEF complete
<1> HIDE DEF m
<1>8. CASE CompletesFill
  <2>1. Dropped(Makers, 1)
    BY <1>3, <1>5, <1>7, <1>8, Zenon DEF Dropped
  <2> QED
    BY <1>3, <2>1 DEF BookStep
<1>9. CASE ~CompletesFill
  <2>1. left \in Nat \ {0} /\ left <= e.value.size
    <3>1. /\ e.value.size \in Nat \ {0} /\ FillSize \in Nat \ {0}
          /\ e.value.size - FillSize \in Nat \ {0}
      BY <1>9, FillFacts DEF HeadEntry, FillSize
    <3> HIDE DEF e
    <3> QED
      BY <3>1
  <2>2. FillHead(q, FillSize) = ResizeAt(q, 1, left)
    BY DEF FillHead, ResizeAt
  <2> HIDE DEF left
  <2>3. ResizedInPlace(Makers, 1, left)
    BY <1>5, <1>7, <1>9, <2>2, Zenon DEF ResizedInPlace
  <2> QED
    BY <1>3, <2>1, <2>3 DEF BookStep
<1> QED
  BY <1>8, <1>9

(* A limit order that does not cross the spread, posted or not.            *)
LEMMA InSpreadStep ==
  ASSUME IInv, NEW a \in Traders, NEW side \in Sides, NEW size \in Nat,
         NEW price, NEW restriction,
         PlaceLimitOrderInSpread(a, side, size, price, restriction)
  PROVE  BookStep
<1>1. /\ Consistent(book, acct, counter) /\ Idle /\ Idle'
      /\ counter' = NextCounter
  BY DEF IInv, PlaceLimitOrderInSpread, Idle
<1>2. size \in Nat \ {0} /\ price \in 1..HI_PRICE
  BY MarketAssumption DEF PlaceLimitOrderInSpread, CheckLimitOrder
<1>3. CASE book' = book /\ acct' = acct
  BY <1>3 DEF Still, BookStep
<1>4. CASE /\ CanPost(acct, a, side, size, price)
           /\ book' = PostedBook(acct, a, side, size, price)
           /\ acct' = PostedAccounts(acct, counter', a, side, size, price)
  <2>1. Posted(acct, a, side, size, price)
    BY <1>1, <1>4 DEF Posted, CanPost
  <2> QED
    BY <1>2, <2>1 DEF BookStep
<1> QED
  BY <1>3, <1>4 DEF PlaceLimitOrderInSpread

(* The end of a match, at which a limit order may rest.                    *)
LEMMA SettleStep ==
  ASSUME IInv, Settle
  PROVE  BookStep
<1>1. /\ Settling /\ counter' = counter /\ IsMatch(tx) /\ ~Idle /\ tx \in TxTypes
      /\ Consistent(book, SettledAccounts, counter)
      /\ \A t \in Traders : SettledAccounts[t].orders = acct[t].orders
  BY SettledConsistent DEF Settle, IInv, TxOK, Settling, IsMatch, Idle
<1>2. CASE ~Rests
  BY <1>1, <1>2 DEF Settle, Still, BookStep
<1>3. CASE Rests
  <2>1. tx.taker \in Traders /\ tx.side \in Sides /\ Idle'
    BY <1>1, <1>3, NoTxType DEF IInv, TxOK, Rests, TxTypes, Settle, End, Idle
  <2>2. Remaining \in Nat \ {0}
    BY <1>3, RemainingType
  <2>3. tx.price \in 1..HI_PRICE /\ Admits(book[tx.side], tx.price)
    BY <1>3 DEF Settle, CanSettle, CanPost, CanPlaceOrder
  <2>4. Posted(SettledAccounts, tx.taker, tx.side, Remaining, tx.price)
    BY <1>1, <1>3, <2>1, <2>3 DEF Settle, Posted
  <2> QED
    BY <2>1, <2>2, <2>3, <2>4 DEF BookStep
<1> QED
  BY <1>2, <1>3

(* Every step but a rollback is one of these.                              *)
LEMMA BookSteps ==
  ASSUME IInv, [Next]_vars, ~Rollback
  PROVE  BookStep
<1>1. CASE \E a \in Traders, x \in Assets, amount \in Nat :
              DepositAsset(a, x, amount) \/ WithdrawAsset(a, x, amount)
  BY <1>1, CollateralStill DEF BookStep
<1>2. CASE \E a \in Traders, side \in Sides, size \in Nat, price \in Nat,
               restriction \in AllRestrictions :
              PlaceLimitOrderInSpread(a, side, size, price, restriction)
  BY <1>2, InSpreadStep
<1>3. CASE \E a \in Traders, side \in Sides, size \in Nat, price \in Nat,
               restriction \in AllRestrictions, behavior \in AllBehaviors :
              PlaceLimitOrderAcrossSpread(a, side, size, price, restriction,
                                          behavior)
  <2>1. PICK a \in Traders, side \in Sides, size \in Nat, price \in Nat,
             restriction \in AllRestrictions, behavior \in AllBehaviors :
          PlaceLimitOrderAcrossSpread(a, side, size, price, restriction, behavior)
    BY <1>3
  <2> QED
    BY <2>1, AcrossSpreadBegins, BeginStill DEF BookStep
<1>4. CASE \E a \in Traders, side \in Sides, size \in Nat,
               behavior \in AllBehaviors :
              PlaceMarketOrder(a, side, size, behavior)
  <2>1. PICK a \in Traders, side \in Sides, size \in Nat,
             behavior \in AllBehaviors : PlaceMarketOrder(a, side, size, behavior)
    BY <1>4
  <2> QED
    BY <2>1, MarketOrderBegins, BeginStill DEF BookStep
<1>5. CASE \E a, side, b, limit : Swap(a, side, b, limit)
  BY <1>5 DEF Swap, BeginMatch, Still, BookStep
<1>6. CASE \E a \in Traders, side \in CancelSides : \E id \in IssuedIds(side) :
              ManualCancel(a, side, id)
  <2>1. PICK a \in Traders, side \in CancelSides :
          \E id \in IssuedIds(side) : ManualCancel(a, side, id)
    BY <1>6
  <2>2. side \in Sides
    BY InputAssumption
  <2> QED
    BY <2>1, <2>2, CancelDrops DEF ManualCancel, BookStep
<1>7. CASE \E a \in Traders, side \in Sides, newSize \in NewSizes :
              \E id \in IssuedIds(side) : ChangeSize(a, side, id, newSize)
  BY <1>7, ChangeSizeStep
<1>8. CASE MatchSelf \/ MatchFill \/ Settle
  BY <1>8, MatchSelfStep, MatchFillStep, SettleStep
<1>9. CASE CancelNext
  <2>1. tx.side \in Sides
    BY DEF IInv, TxOK, TxTypes
  <2>2. \E a, side, id : /\ side \in Sides
                         /\ Owns(a, side, id) /\ CancelEffect(a, side, id)
    BY <1>9, <2>1, Zenon DEF CancelNext, Owns, CancelEffect
  <2>3. PICK a, side, id : /\ side \in Sides
                           /\ Owns(a, side, id) /\ CancelEffect(a, side, id)
    BY <2>2
  <2>4. side \in Sides
    BY <2>3
  <2>5. \E i \in 1..Len(book[side].list) : Dropped(side, i)
    BY <2>3, <2>4, CancelDrops
  <2> QED
    BY <2>4, <2>5 DEF BookStep
<1>10. CASE MatchExit \/ CancelDone \/ UNCHANGED vars
          \/ \E a, side : CancelAllOrders(a, side)
  BY <1>10, Zenon DEF MatchExit, CancelDone, CancelAllOrders, vars, Still,
     BookStep
<1> QED
  BY <1>1, <1>2, <1>3, <1>4, <1>5, <1>6, <1>7, <1>8, <1>9, <1>10, StepCases

(* The counter only grows: a match begins with a number of its own.        *)
LEMMA CounterStep ==
  ASSUME IInv, [Next]_vars, ~Rollback
  PROVE  /\ counter \in Nat /\ counter' \in Nat /\ counter <= counter'
         /\ ~Idle => counter' = counter
         /\ IsMatch(tx') /\ Idle => counter < counter'
         /\ IsMatch(tx') /\ ~Idle => IsMatch(tx)
<1>1. counter \in Nat
  BY ConsistentTypes DEF IInv
<1>2. CASE \E kind, a, side, size, price, restriction, behavior, b :
              BeginMatch(kind, a, side, size, price, restriction, behavior, b)
  BY <1>1, <1>2 DEF BeginMatch, NextCounter, Idle
<1>3. CASE \E a, side : CancelAllOrders(a, side)
  BY <1>1, <1>3 DEF CancelAllOrders, IsMatch, NoTx
<1>4. CASE MatchExit \/ MatchSelf \/ MatchFill
  BY <1>1, <1>4 DEF MatchExit, MatchSelf, MatchFill, IsMatch, Matching, Idle
<1>5. CASE Settle \/ CancelDone
  BY <1>1, <1>5, NoTxType DEF Settle, CancelDone, End, IsMatch, Settling, Idle, Cancelling
<1>6. CASE CancelNext
  <2>1. tx'.status = "cancelling"
    BY <1>6 DEF CancelNext, IInv, TxOK, TxTypes, Cancelling
  <2> QED
    BY <1>1, <1>6, <2>1 DEF CancelNext, IsMatch, Idle, Cancelling
<1>7. CASE UNCHANGED vars
  BY <1>1, <1>7 DEF vars, IsMatch, Idle
<1>8. CASE Idle /\ tx' = tx
  <2>1. ~IsMatch(tx')
    BY <1>8 DEF IsMatch, Idle
  <2>2. counter' = counter \/ counter' = NextCounter
    <3>1. CASE \E a, x, amount : DepositAsset(a, x, amount) \/ WithdrawAsset(a, x, amount)
      BY <3>1 DEF DepositAsset, WithdrawAsset
    <3>2. CASE \E a, side, size, price, restriction :
                 PlaceLimitOrderInSpread(a, side, size, price, restriction)
      BY <3>2 DEF PlaceLimitOrderInSpread
    <3>3. CASE \E a, side, size, price, restriction, behavior :
                 \/ PlaceLimitOrderAcrossSpread(a, side, size, price, restriction,
                                                behavior)
                 \/ PlaceMarketOrder(a, side, size, behavior)
      BY <3>3 DEF PlaceLimitOrderAcrossSpread, PlaceMarketOrder, BeginFromAccount,
                  BeginMatch
    <3>4. CASE \E a, side, b, limit : Swap(a, side, b, limit)
      BY <3>4 DEF Swap, BeginMatch
    <3>5. CASE \/ \E a, side, id : ManualCancel(a, side, id)
               \/ \E a, side, id, newSize : ChangeSize(a, side, id, newSize)
               \/ \E a, side : CancelAllOrders(a, side)
      BY <3>5, Zenon DEF ManualCancel, ChangeSize, CancelAllOrders
    <3>6. CASE \/ MatchExit \/ MatchSelf \/ MatchFill \/ Settle
               \/ CancelNext \/ CancelDone \/ UNCHANGED vars
      BY <3>6 DEF MatchExit, MatchSelf, MatchFill, Settle, CancelNext, CancelDone,
                  vars
    <3> QED
      BY <3>1, <3>2, <3>3, <3>4, <3>5, <3>6, StepCases
  <2> QED
    BY <1>1, <1>8, <2>1, <2>2 DEF NextCounter
<1> QED
  BY <1>2, <1>3, <1>4, <1>5, <1>6, <1>7, <1>8, QuietStep

-----------------------------------------------------------------------------
(* How the orders of one side of the book, a queue and the accounts, come  *)
(* from those of another.                                                  *)

(* Entry j of r is the order that was entry i of q.                        *)
SameOrder(q, accts, r, accts2, side, i, j) ==
  /\ IdIn(accts2, side, r.list[j]) = IdIn(accts, side, q.list[i])
  /\ r.list[j].value.user = q.list[i].value.user
  /\ r.list[j].key = q.list[i].key

(* The entries P of r are orders of q, in their order; f says which.       *)
Follows(q, accts, r, accts2, side, f, P) ==
  /\ P \subseteq DOMAIN r.list
  /\ f \in [P -> DOMAIN q.list]
  /\ \A j \in P : SameOrder(q, accts, r, accts2, side, f[j], j)
  /\ \A j, k \in P : j < k => f[j] < f[k]

AtBack(q, i) == \A k \in DOMAIN q.list : i < k => q.list[k].key # q.list[i].key

(* None of them has grown, unless it was the last of its price level.      *)
NoneOvertakes(q, r, f, P) ==
  \A j \in P :
    r.list[j].value.size <= q.list[f[j]].value.size \/ AtBack(q, f[j])

(* All orders are old ones.                                                *)
Kept(q, accts, r, accts2, side) ==
  \E f : /\ Follows(q, accts, r, accts2, side, f, DOMAIN r.list)
         /\ NoneOvertakes(q, r, f, DOMAIN r.list)

(* All but one are, whose ID has the number c.  It is the last of its      *)
(* price level, and its price is better than that of an order evicted.     *)
Newcomer(q, accts, r, accts2, side, c, p, f) ==
  /\ Follows(q, accts, r, accts2, side, f, DOMAIN r.list \ {p})
  /\ NoneOvertakes(q, r, f, DOMAIN r.list \ {p})
  /\ p \in DOMAIN r.list
  /\ IdIn(accts2, side, r.list[p]).counter = c
  /\ AtBack(r, p)
  /\ \A i \in DOMAIN q.list :
       (\A j \in DOMAIN r.list \ {p} : f[j] # i) =>
          Precedes(q, r.list[p].key, q.list[i].key)
Joined(q, accts, r, accts2, side, c) ==
  \E p, f : Newcomer(q, accts, r, accts2, side, c, p, f)

(* All are old ones, of which one has grown and lost its place.            *)
Latecomer(q, accts, r, accts2, side, i, p, f) ==
  /\ f \in [DOMAIN r.list -> DOMAIN q.list]
  /\ \A j \in DOMAIN r.list : SameOrder(q, accts, r, accts2, side, f[j], j)
  /\ i \in DOMAIN q.list /\ p \in DOMAIN r.list
  /\ f[p] = i /\ r.list[p].value.size > q.list[i].value.size
  /\ \A j, k \in DOMAIN r.list \ {p} : j < k => f[j] < f[k]
  /\ \A j \in DOMAIN r.list \ {p} :
       /\ r.list[j].value.size = q.list[f[j]].value.size
       /\ f[j] < i => j < p
       /\ i < f[j] => (j < p <=> q.list[f[j]].key = q.list[i].key)
Moved(q, accts, r, accts2, side) ==
  \E i, p, f : Latecomer(q, accts, r, accts2, side, i, p, f)

(* The orders of a queue that agrees with the accounts have IDs that tell  *)
(* them apart, and numbers that have been given out.                       *)
LEMMA OrderIds ==
  ASSUME NEW b, NEW accts, NEW c, Consistent(b, accts, c), NEW side \in Sides
  PROVE  LET q == b[side]
         IN /\ IsQueue(q, BookOrders) /\ c \in Nat
            /\ \A i \in DOMAIN q.list :
                 /\ q.list[i].key \in Nat /\ q.list[i].value.size \in Nat
                 /\ q.list[i].value.user \in Traders
                 /\ q.list[i].value.access
                      \in ActiveKeys(accts[q.list[i].value.user], side)
                 /\ IdIn(accts, side, q.list[i]).counter \in 1..c
                 /\ IdIn(accts, side, q.list[i]).price = q.list[i].key
            /\ \A i, j \in DOMAIN q.list :
                 IdIn(accts, side, q.list[i]) = IdIn(accts, side, q.list[j]) => i = j
<1> DEFINE q == b[side]
<1>1. IsQueue(q, BookOrders) /\ c \in Nat
  BY DEF Consistent, Linked
<1>2. /\ DOMAIN q.list = 1..Len(q.list)
      /\ \A i \in 1..Len(q.list) :
           /\ q.list[i].key \in Nat /\ q.list[i].value.size \in Nat
           /\ q.list[i].value.user \in Traders
  BY <1>1, EntryProperties
<1>3. \A i \in 1..Len(q.list) : EntryFacts(q, i, accts, side, c)
  BY EntryInAccount
<1> HIDE DEF q
<1>4. \A i \in 1..Len(q.list) :
        /\ IdIn(accts, side, q.list[i]).counter \in 1..c
        /\ IdIn(accts, side, q.list[i]).price = q.list[i].key
        /\ IndexOf(q, IdIn(accts, side, q.list[i]).node) = i
        /\ q.list[i].value.access
             \in ActiveKeys(accts[q.list[i].value.user], side)
  BY <1>3, Zenon DEF EntryFacts, IdIn
<1>5. \A i, j \in DOMAIN q.list :
        IdIn(accts, side, q.list[i]) = IdIn(accts, side, q.list[j]) => i = j
  BY <1>2, <1>4
<1> QED
  BY <1>1, <1>2, <1>4, <1>5, Zenon DEF q

(* Whether an order is closed, opened or resized, the IDs of others stay.  *)
OrderStays(accts, accts2, side, v, l) ==
  /\ l \in ActiveKeys(accts2[v], side)
  /\ accts2[v].orders[side][l].id = accts[v].orders[side][l].id

LEMMA ClosesOthers ==
  ASSUME NEW accts, AccountsOK(accts), NEW side, NEW u \in Traders, NEW k,
         NEW m, Closes(accts[u], m, side, k),
         NEW v \in Traders, NEW l \in ActiveKeys(accts[v], side), v # u \/ l # k
  PROVE  OrderStays(accts, [accts EXCEPT ![u] = m], side, v, l)
<1>1. [accts EXCEPT ![u] = m][v] = IF v = u THEN m ELSE accts[v]
  BY DEF AccountsOK
<1>2. v = u => /\ l \in ActiveKeys(m, side)
               /\ m.orders[side][l] = accts[v].orders[side][l]
  BY DEF Closes
<1> QED
  BY <1>1, <1>2 DEF OrderStays

(* Opened, ...                                                             *)
LEMMA OpensOthers ==
  ASSUME NEW accts, AccountsOK(accts), NEW side, NEW u \in Traders, NEW k,
         NEW m, NEW order, Opens(accts[u], m, side, k, order),
         NEW v \in Traders, NEW l \in ActiveKeys(accts[v], side)
  PROVE  OrderStays(accts, [accts EXCEPT ![u] = m], side, v, l)
<1>1. [accts EXCEPT ![u] = m][v] = IF v = u THEN m ELSE accts[v]
  BY DEF AccountsOK
<1>2. v = u => /\ l \in ActiveKeys(m, side)
               /\ m.orders[side][l] = accts[v].orders[side][l]
  BY DEF Opens
<1> QED
  BY <1>1, <1>2 DEF OrderStays

(* ... or resized, which keeps the ID of the order itself as well.         *)
LEMMA ResizesOthers ==
  ASSUME NEW accts, AccountsOK(accts), NEW side, NEW u \in Traders, NEW k,
         NEW m, NEW size, Resizes(accts[u], m, side, k, size),
         NEW v \in Traders, NEW l \in ActiveKeys(accts[v], side)
  PROVE  OrderStays(accts, [accts EXCEPT ![u] = m], side, v, l)
<1>1. [accts EXCEPT ![u] = m][v] = IF v = u THEN m ELSE accts[v]
  BY DEF AccountsOK
<1>2. v = u => /\ l \in ActiveKeys(m, side)
               /\ m.orders[side][l].id = accts[v].orders[side][l].id
  BY DEF Resizes
<1> QED
  BY <1>1, <1>2 DEF OrderStays

(* Nothing changes on a side.                                              *)
LEMMA StillKept ==
  ASSUME NEW q, IsQueue(q, BookOrders), NEW accts, NEW accts2, NEW side,
         \A a \in Traders : accts2[a].orders[side] = accts[a].orders[side]
  PROVE  Kept(q, accts, q, accts2, side)
<1> DEFINE D == DOMAIN q.list
           f == [j \in D |-> j]
<1>1. /\ D = 1..Len(q.list) /\ Len(q.list) \in Nat
      /\ \A i \in D : /\ q.list[i].value.size \in Nat
                      /\ q.list[i].value.user \in Traders
  BY EntryProperties
<1>2. \A j \in D : SameOrder(q, accts, q, accts2, side, f[j], j)
  BY <1>1, Zenon DEF SameOrder, IdIn
<1>3. f \in [D -> D] /\ \A j, k \in D : j < k => f[j] < f[k]
  OBVIOUS
<1>4. NoneOvertakes(q, q, f, D)
  BY <1>1 DEF NoneOvertakes
<1> HIDE DEF f
<1> QED
  BY <1>2, <1>3, <1>4 DEF Kept, Follows

(* An order leaves a side.                                                 *)
LEMMA DroppedKept ==
  ASSUME NEW q, IsQueue(q, BookOrders), NEW accts, AccountsOK(accts),
         NEW side, NEW i \in 1..Len(q.list), NEW m, KeysDistinct(q),
         \A j \in DOMAIN q.list :
           q.list[j].value.access \in ActiveKeys(accts[q.list[j].value.user], side),
         Closes(accts[q.list[i].value.user], m, side, q.list[i].value.access)
  PROVE  Kept(q, accts, RemoveEntry(q, i),
              [accts EXCEPT ![q.list[i].value.user] = m], side)
<1> DEFINE u == q.list[i].value.user
           k == q.list[i].value.access
           r == RemoveEntry(q, i)
           accts2 == [accts EXCEPT ![u] = m]
           f == [j \in DOMAIN r.list |-> IF j < i THEN j ELSE j + 1]
<1>1. /\ DOMAIN q.list = 1..Len(q.list) /\ Len(q.list) \in Nat
      /\ \A j \in 1..Len(q.list) : /\ q.list[j].value.size \in Nat
                                   /\ q.list[j].value.user \in Traders
  BY EntryProperties
<1>2. /\ IsQueue(r, BookOrders)
      /\ Len(r.list) = Len(q.list) - 1
      /\ \A j \in 1..Len(q.list) - 1 :
           r.list[j] = IF j < i THEN q.list[j] ELSE q.list[j + 1]
  BY RemoveProperties
<1>3. DOMAIN r.list = 1..Len(q.list) - 1
  BY <1>2, EntryProperties
<1>4. \A j \in 1..Len(q.list) : j # i =>
        IdIn(accts2, side, q.list[j]) = IdIn(accts, side, q.list[j])
  <2> TAKE j \in 1..Len(q.list)
  <2> HAVE j # i
  <2> DEFINE v == q.list[j].value.user
             l == q.list[j].value.access
  <2>1. v \in Traders /\ l \in ActiveKeys(accts[v], side) /\ u \in Traders
    BY <1>1
  <2>2. v # u \/ l # k
    BY <1>1, Zenon DEF KeysDistinct, KeyOf
  <2> HIDE DEF u, k, v, l
  <2>3. OrderStays(accts, accts2, side, v, l)
    BY <2>1, <2>2, ClosesOthers, Zenon DEF u, k
  <2> QED
    BY <2>3, Zenon DEF OrderStays, IdIn, v, l
<1> HIDE DEF accts2, r
<1>5. \A j \in DOMAIN r.list :
        f[j] \in 1..Len(q.list) /\ f[j] # i /\ r.list[j] = q.list[f[j]]
  BY <1>1, <1>2, <1>3
<1>6. \A j, l \in DOMAIN r.list : j < l => f[j] < f[l]
  BY <1>1, <1>3
<1>7. f \in [DOMAIN r.list -> DOMAIN q.list]
  BY <1>1, <1>5, Zenon
<1> HIDE DEF f
<1>8. \A j \in DOMAIN r.list : SameOrder(q, accts, r, accts2, side, f[j], j)
  BY <1>4, <1>5 DEF SameOrder
<1>9. NoneOvertakes(q, r, f, DOMAIN r.list)
  <2>1. \A j \in DOMAIN r.list :
          /\ r.list[j].value.size = q.list[f[j]].value.size
          /\ q.list[f[j]].value.size \in Nat
    BY <1>1, <1>5
  <2> QED
    BY <2>1 DEF NoneOvertakes
<1> QED
  BY <1>6, <1>7, <1>8, <1>9, Zenon DEF Kept, Follows, r, accts2

(* An order changes its size where it stands.                              *)
LEMMA ResizedKept ==
  ASSUME NEW q, IsQueue(q, BookOrders), NEW accts, AccountsOK(accts),
         NEW side, NEW i \in 1..Len(q.list), NEW m, NEW size \in Nat,
         size <= q.list[i].value.size \/ IsLocalTail(q, i),
         \A j \in DOMAIN q.list :
           q.list[j].value.access \in ActiveKeys(accts[q.list[j].value.user], side),
         Resizes(accts[q.list[i].value.user], m, side, q.list[i].value.access, size)
  PROVE  Kept(q, accts, ResizeAt(q, i, size),
              [accts EXCEPT ![q.list[i].value.user] = m], side)
<1> DEFINE u == q.list[i].value.user
           k == q.list[i].value.access
           r == ResizeAt(q, i, size)
           accts2 == [accts EXCEPT ![u] = m]
           D == DOMAIN q.list
           f == [j \in D |-> j]
<1>1. /\ DOMAIN q.list = 1..Len(q.list) /\ Len(q.list) \in Nat
      /\ \A j \in 1..Len(q.list) : /\ q.list[j].value.size \in Nat
                                   /\ q.list[j].value.user \in Traders
                                   /\ q.list[j].key \in Nat
  BY EntryProperties
<1>2. /\ DOMAIN r.list = D
      /\ \A j \in D :
           /\ r.list[j].key = q.list[j].key
           /\ r.list[j].value.user = q.list[j].value.user
           /\ r.list[j].value.access = q.list[j].value.access
           /\ r.list[j].value.size = IF j = i THEN size ELSE q.list[j].value.size
  BY ResizeAtProperties
<1> HIDE DEF r
<1>3. \A j \in D : IdIn(accts2, side, r.list[j]) = IdIn(accts, side, q.list[j])
  <2> TAKE j \in D
  <2> DEFINE v == q.list[j].value.user
             l == q.list[j].value.access
  <2>1. v \in Traders /\ l \in ActiveKeys(accts[v], side) /\ u \in Traders
    BY <1>1
  <2> HIDE DEF v, l, u, k
  <2>2. OrderStays(accts, accts2, side, v, l)
    BY <2>1, ResizesOthers, Zenon DEF u, k
  <2> HIDE DEF accts2
  <2> QED
    BY <1>2, <2>2, Zenon DEF OrderStays, IdIn, v, l
<1> HIDE DEF accts2
<1>4. \A j \in D : SameOrder(q, accts, r, accts2, side, f[j], j)
  BY <1>2, <1>3 DEF SameOrder
<1>5. f \in [D -> D] /\ \A j, l \in D : j < l => f[j] < f[l]
  OBVIOUS
<1>6. NoneOvertakes(q, r, f, D)
  <2> SUFFICES ASSUME NEW j \in D
               PROVE  r.list[j].value.size <= q.list[j].value.size \/ AtBack(q, j)
    BY DEF NoneOvertakes
  <2>1. CASE j # i \/ size <= q.list[i].value.size
    BY <1>1, <1>2, <2>1
  <2>2. CASE j = i /\ IsLocalTail(q, i)
    <3> SUFFICES ASSUME NEW l \in D, i < l, q.list[l].key = q.list[i].key
                 PROVE  FALSE
      BY <2>2 DEF AtBack
    <3>1. i + 1 \in D /\ i + 1 <= l /\ i # Len(q.list) /\ i < i + 1
      BY <1>1
    <3>2. q.list[i + 1].key # q.list[i].key
      BY <2>2, <3>1 DEF IsLocalTail
    <3>3. /\ ~Precedes(q, q.list[i + 1].key, q.list[i].key)
          /\ ~Precedes(q, q.list[l].key, q.list[i + 1].key)
      <4>1. SortedByKey(q) /\ i \in D
        BY <1>1 DEF IsQueue
      <4>2. ~Precedes(q, q.list[i + 1].key, q.list[i].key)
        BY <3>1, <4>1 DEF SortedByKey
      <4>3. CASE l = i + 1
        BY <3>2, <4>3
      <4>4. CASE i + 1 < l
        BY <3>1, <4>1, <4>4 DEF SortedByKey
      <4> QED
        BY <1>1, <3>1, <4>2, <4>3, <4>4
    <3>4. q.list[i].key \in Nat /\ q.list[l].key \in Nat /\ q.list[i + 1].key \in Nat
      BY <1>1, <3>1
    <3> QED
      BY <3>2, <3>3, <3>4 DEF Precedes
  <2> QED
    BY <2>1, <2>2
<1> HIDE DEF f
<1> QED
  BY <1>2, <1>4, <1>5, <1>6, Zenon DEF Kept, Follows, r, accts2

(* An order grows, and goes behind those at its price.                     *)
LEMMA MovedMoved ==
  ASSUME NEW q, IsQueue(q, BookOrders), NEW accts, AccountsOK(accts),
         NEW side, NEW i \in 1..Len(q.list), NEW m, NEW size \in Nat,
         size > q.list[i].value.size,
         \A j \in DOMAIN q.list :
           q.list[j].value.access \in ActiveKeys(accts[q.list[j].value.user], side),
         Resizes(accts[q.list[i].value.user], m, side, q.list[i].value.access, size)
  PROVE  LET e == q.list[i]
             order == NewOrder(e.value.user, size, e.value.access)
         IN Moved(q, accts, Insert(RemoveEntry(q, i), e.key, order),
                  [accts EXCEPT ![e.value.user] = m], side)
<1> DEFINE n == Len(q.list)
           u == q.list[i].value.user
           k == q.list[i].value.access
           key == q.list[i].key
           order == NewOrder(u, size, k)
           s == RemoveEntry(q, i)
           p == Place(s, key)
           r == Insert(s, key, order)
           accts2 == [accts EXCEPT ![u] = m]
           g == [j \in 1..n - 1 |-> IF j < i THEN j ELSE j + 1]
           f == [j \in DOMAIN r.list |->
                   IF j < p THEN g[j] ELSE IF j = p THEN i ELSE g[j - 1]]
<1>1. /\ DOMAIN q.list = 1..n /\ n \in Nat
      /\ \A j \in 1..n : /\ q.list[j].value.size \in Nat
                         /\ q.list[j].value.user \in Traders
                         /\ q.list[j].value.access \in Nat
                         /\ q.list[j].key \in Nat
  BY EntryProperties
<1>2. /\ IsQueue(s, BookOrders) /\ s.ascending = q.ascending /\ s.inactive # << >>
      /\ Len(s.list) = n - 1
      /\ \A j \in 1..n - 1 :
           s.list[j] = IF j < i THEN q.list[j] ELSE q.list[j + 1]
  BY RemoveProperties
<1>3. DOMAIN s.list = 1..n - 1
  BY <1>2, EntryProperties
<1> HIDE DEF n, s
<1>4. \A j \in 1..n - 1 : /\ g[j] \in 1..n /\ g[j] # i /\ s.list[j] = q.list[g[j]]
                          /\ (g[j] < i <=> j < i) /\ (i < g[j] <=> ~(j < i))
  BY <1>1, <1>2 DEF n
<1>5. \A j, l \in 1..n - 1 : j < l => g[j] < g[l]
  BY <1>1
<1> HIDE DEF g
<1>6. i \in 1..n /\ u \in Traders /\ k \in Nat /\ key \in Nat
  BY <1>1 DEF n
<1>7. order \in BookOrders /\ order.size = size /\ order.user = u /\ order.access = k
  BY <1>6 DEF BookOrders, NewOrder
<1> HIDE DEF key, order, u, k
<1>8. /\ IsQueue(r, BookOrders)
      /\ Len(r.list) = n
      /\ \A j \in 1..n :
           r.list[j] = IF j < p THEN s.list[j]
                       ELSE IF j = p THEN NewEntry(s, key, order) ELSE s.list[j - 1]
  <2>1. /\ IsQueue(r, BookOrders)
        /\ Len(r.list) = Len(s.list) + 1
        /\ \A j \in 1..Len(s.list) + 1 :
             r.list[j] = IF j < p THEN s.list[j]
                         ELSE IF j = p THEN NewEntry(s, key, order)
                         ELSE s.list[j - 1]
    BY <1>2, <1>6, <1>7, InsertProperties
  <2>2. Len(s.list) + 1 = n
    BY <1>1, <1>2
  <2> HIDE DEF r, p
  <2> QED
    BY <2>1, <2>2
<1>9. /\ p \in 1..n
      /\ \A j \in 1..n - 1 : j < p <=> ~Precedes(s, key, s.list[j].key)
  <2>1. /\ p \in 1..Len(s.list) + 1
        /\ \A j \in DOMAIN s.list : j < p <=> ~Precedes(s, key, s.list[j].key)
    BY <1>2, <1>6, PlaceProperties, Zenon DEF IsQueue
  <2>2. Len(s.list) + 1 = n
    BY <1>1, <1>2
  <2> HIDE DEF p
  <2> QED
    BY <1>3, <2>1, <2>2, Zenon
<1>10. DOMAIN r.list = 1..n
  BY <1>8, EntryProperties
<1> HIDE DEF r, p
<1>11. \A j \in 1..n : j # p => f[j] \in 1..n /\ f[j] # i /\ r.list[j] = q.list[f[j]]
  BY <1>1, <1>4, <1>8, <1>9, <1>10
<1>12. f[p] = i /\ r.list[p] = NewEntry(s, key, order)
  BY <1>8, <1>9, <1>10
<1>13. \A j, l \in 1..n : j # p /\ l # p /\ j < l => f[j] < f[l]
  <2> SUFFICES ASSUME NEW j \in 1..n, NEW l \in 1..n, j # p, l # p, j < l
               PROVE  f[j] < f[l]
    OBVIOUS
  <2>1. /\ f[j] = IF j < p THEN g[j] ELSE g[j - 1]
        /\ f[l] = IF l < p THEN g[l] ELSE g[l - 1]
    BY <1>10
  <2> HIDE DEF f
  <2>2. CASE l < p
    <3>1. j \in 1..n - 1 /\ l \in 1..n - 1 /\ j < p
      BY <1>1, <1>9, <2>2
    <3> QED
      BY <1>5, <2>1, <2>2, <3>1
  <2>3. CASE j < p /\ ~(l < p)
    <3>1. j \in 1..n - 1 /\ l - 1 \in 1..n - 1 /\ j < l - 1
      BY <1>1, <1>9, <2>3
    <3> QED
      BY <1>5, <2>1, <2>3, <3>1
  <2>4. CASE ~(j < p)
    <3>1. j - 1 \in 1..n - 1 /\ l - 1 \in 1..n - 1 /\ j - 1 < l - 1 /\ ~(l < p)
      BY <1>1, <1>9, <2>4
    <3> QED
      BY <1>5, <2>1, <2>4, <3>1
  <2> QED
    BY <2>2, <2>3, <2>4
<1>14. f \in [DOMAIN r.list -> DOMAIN q.list]
  BY <1>1, <1>6, <1>10, <1>11, <1>12
<1>15. \A j \in 1..n : IdIn(accts2, side, q.list[j]) = IdIn(accts, side, q.list[j])
  <2> TAKE j \in 1..n
  <2> DEFINE v == q.list[j].value.user
             l == q.list[j].value.access
  <2>1. v \in Traders /\ l \in ActiveKeys(accts[v], side)
    BY <1>1, Zenon
  <2> HIDE DEF v, l
  <2>2. OrderStays(accts, accts2, side, v, l)
    BY <1>6, <2>1, ResizesOthers, Zenon DEF u, k
  <2> HIDE DEF accts2
  <2> QED
    BY <2>2, Zenon DEF OrderStays, IdIn, v, l
<1> HIDE DEF accts2
<1>16. \A j \in 1..n : SameOrder(q, accts, r, accts2, side, f[j], j)
  <2>1. \A j \in 1..n : j # p => SameOrder(q, accts, r, accts2, side, f[j], j)
    BY <1>11, <1>15, Zenon DEF SameOrder
  <2>2. /\ r.list[p].value.user = q.list[i].value.user
        /\ r.list[p].value.access = q.list[i].value.access
        /\ r.list[p].key = q.list[i].key
    BY <1>7, <1>12 DEF NewEntry, u, k, key
  <2> HIDE DEF f
  <2>3. SameOrder(q, accts, r, accts2, side, i, p)
    BY <1>6, <1>15, <2>2, Zenon DEF SameOrder, IdIn
  <2> QED
    BY <1>12, <2>1, <2>3
<1> HIDE DEF f
<1>17. r.list[p].value.size > q.list[i].value.size
  BY <1>7, <1>12 DEF NewEntry
<1>18. \A j \in 1..n : j # p =>
         /\ f[j] < i => j < p
         /\ i < f[j] => (j < p <=> q.list[f[j]].key = q.list[i].key)
  <2> SUFFICES ASSUME NEW j \in 1..n, j # p
               PROVE  /\ f[j] < i => j < p
                      /\ i < f[j] => (j < p <=> q.list[f[j]].key = q.list[i].key)
    OBVIOUS
  <2> DEFINE h == q.list[f[j]].key
  <2>1. j < p <=> ~Precedes(q, key, h)
    <3>1. Precedes(s, key, h) <=> Precedes(q, key, h)
      BY <1>2 DEF Precedes
    <3>2. CASE j < p
      <4>1. j \in 1..n - 1 /\ s.list[j] = r.list[j]
        BY <1>1, <1>8, <1>9, <3>2
      <4> QED
        BY <1>9, <1>11, <3>1, <3>2, <4>1
    <3>3. CASE ~(j < p)
      <4>1. j - 1 \in 1..n - 1 /\ s.list[j - 1] = r.list[j] /\ ~(j - 1 < p)
        BY <1>1, <1>8, <1>9, <3>3
      <4> QED
        BY <1>9, <1>11, <3>1, <3>3, <4>1
    <3> QED
      BY <3>2, <3>3
  <2>2. f[j] \in 1..n /\ h \in Nat /\ key = q.list[i].key
    BY <1>1, <1>11 DEF key
  <2>3. /\ f[j] < i => ~Precedes(q, key, h)
        /\ i < f[j] => ~Precedes(q, h, key)
    BY <1>1, <1>6, <2>2, Zenon DEF IsQueue, SortedByKey
  <2> HIDE DEF h
  <2>4. CASE f[j] < i
    BY <1>6, <2>1, <2>2, <2>3, <2>4
  <2>5. CASE i < f[j]
    <3>1. ~Precedes(q, key, h) <=> h = key
      BY <1>6, <2>2, <2>3, <2>5 DEF Precedes
    <3>2. j < p <=> q.list[f[j]].key = q.list[i].key
      BY <2>1, <2>2, <3>1 DEF h
    <3>3. ~(f[j] < i)
      BY <1>6, <2>2, <2>5
    <3> QED
      BY <3>2, <3>3
  <2> QED
    BY <2>4, <2>5
<1>19. Latecomer(q, accts, r, accts2, side, i, p, f)
  BY <1>1, <1>6, <1>9, <1>10, <1>11, <1>12, <1>13, <1>14, <1>16, <1>17, <1>18,
     Zenon
     DEF Latecomer
<1> QED
  BY <1>19 DEF Moved, r, accts2, s, key, order, u, k

(* What posting an order does to accounts: it gets an ID with the number   *)
(* c2, and all other orders keep theirs, but for the one evicted.          *)
LEMMA PostedIds ==
  ASSUME NEW accts, NEW c, Consistent(book, accts, c), NEW side \in Sides,
         NEW c2 \in Nat \ {0}, NEW a \in Traders, NEW size \in Nat \ {0},
         NEW price \in 1..HI_PRICE
  PROVE  LET q == book[side]
             accts2 == PostedAccounts(accts, c2, a, side, size, price)
             k == NextOrderAccessKey(accts[a], side)
         IN /\ k \in Nat
            /\ accts2[a].orders[side][k].id.counter = c2
            /\ \A v \in Traders : OtherSideKept(accts[v], accts2[v], side)
            /\ \A j \in 1..Len(Evict(q).list) :
                 IdIn(accts2, side, q.list[j]) = IdIn(accts, side, q.list[j])
<1> DEFINE q == book[side]
           k == NextOrderAccessKey(accts[a], side)
           id == MarketOrderId(c2, NextNode(Evict(q)), price)
           order == [id |-> id, size |-> size]
           m == PlaceOrder(accts[a], side, size, price, id)
           placed == [accts EXCEPT ![a] = m]
           n == Len(q.list)
           u == q.list[n].value.user
           l == q.list[n].value.access
           posted == PostedAccounts(accts, c2, a, side, size, price)
<1>1. /\ AccountsOK(accts) /\ Linked(q, accts, side, c, {})
      /\ IsQueue(q, BookOrders) /\ IsAccount(accts[a])
      /\ \A j \in DOMAIN q.list :
           /\ q.list[j].value.user \in Traders
           /\ q.list[j].value.access
                \in ActiveKeys(accts[q.list[j].value.user], side)
      /\ DOMAIN q.list = 1..Len(q.list) /\ Len(q.list) \in Nat
  <2>1. AccountsOK(accts) /\ Linked(q, accts, side, c, {})
    BY DEF Consistent
  <2>2. IsQueue(q, BookOrders) /\ IsAccount(accts[a])
    BY <2>1 DEF Linked, AccountsOK
  <2>3. \A j \in DOMAIN q.list :
          /\ q.list[j].value.user \in Traders
          /\ q.list[j].value.access
               \in ActiveKeys(accts[q.list[j].value.user], side)
    BY OrderIds
  <2> QED
    BY <2>1, <2>2, <2>3, EntryProperties
<1> HIDE DEF q
<1>2. NextNode(Evict(q)) \in Nat
  <2>1. /\ IsQueue(Evict(q), BookOrders)
        /\ Evict(q).inactive # << >> \/ Evict(q).nNodes < NNodesMax
    BY <1>1, EvictProperties
  <2> QED
    BY <2>1, NextNodeProperties, Zenon DEF IsQueue
<1>3. price \in Nat /\ price \in Int /\ size \in Int
  BY UnitsAssumption
<1>4. id \in MarketOrderIds /\ id # NilOrderId /\ id.counter = c2
  BY <1>2, <1>3 DEF MarketOrderIds, MarketOrderId, NilOrderId, NIL
<1> HIDE DEF id
<1>5. Opens(accts[a], m, side, k, order) /\ order.id = id
  BY <1>1, <1>3, <1>4, PlaceOrderProperties
<1> HIDE DEF m, k, order
<1>6. /\ placed[a] = m /\ AccountsOK(placed)
      /\ \A v \in Traders : OtherSideKept(accts[v], placed[v], side)
      /\ OtherSideKept(accts[a], m, side) /\ IsAccount(m) /\ k \in Nat
      /\ k \in ActiveKeys(m, side) /\ m.orders[side][k].id.counter = c2
  <2>1. /\ OtherSideKept(accts[a], m, side) /\ IsAccount(m) /\ k \in Nat
        /\ k \in ActiveKeys(m, side) /\ m.orders[side][k].id.counter = c2
    BY <1>4, <1>5 DEF Opens
  <2>2. \A v \in Traders : OtherSideKept(accts[v], placed[v], side)
    BY <1>1, <2>1, KeptElsewhere, Zenon
  <2>3. placed[a] = m /\ AccountsOK(placed)
    BY <1>1, <2>1 DEF AccountsOK, IsAccount
  <2> QED
    BY <2>1, <2>2, <2>3
<1>7. \A j \in DOMAIN q.list :
        OrderStays(accts, placed, side, q.list[j].value.user, q.list[j].value.access)
  <2> TAKE j \in DOMAIN q.list
  <2> DEFINE v == q.list[j].value.user
             h == q.list[j].value.access
  <2>1. v \in Traders /\ h \in ActiveKeys(accts[v], side)
    BY <1>1
  <2> HIDE DEF v, h, placed
  <2>2. OrderStays(accts, placed, side, v, h)
    BY <1>1, <1>5, <2>1, OpensOthers, Zenon DEF placed
  <2> QED
    BY <2>2 DEF v, h
<1>8. CASE ~IsFull(q)
  <2>1. posted = placed
    BY <1>8, <1>1 DEF PostedAccounts, placed, m, id, q, AccountsOK
  <2>2. Evict(q) = q
    BY <1>8 DEF Evict
  <2> HIDE DEF placed, posted
  <2>3. \A j \in 1..Len(Evict(q).list) :
          IdIn(posted, side, q.list[j]) = IdIn(accts, side, q.list[j])
    BY <1>1, <1>7, <2>1, <2>2, Zenon DEF IdIn, OrderStays
  <2> QED
    BY <1>6, <2>1, <2>3 DEF q, k, posted
<1>9. CASE IsFull(q)
  <2> DEFINE closed == CancelOrder(placed[u], side, q.list[n].key, l)
  <2>1. /\ n \in DOMAIN q.list /\ Last(q.list) = q.list[n]
        /\ Len(Evict(q).list) = n - 1
    BY <1>1, <1>9, EvictProperties, Zenon
  <2>2. q.list[n].key \in Int
    <3>1. \A j \in 1..Len(q.list) : q.list[j].key \in Nat
      BY <1>1, EntryProperties
    <3> HIDE DEF n
    <3>2. q.list[n].key \in Nat
      BY <1>1, <2>1, <3>1
    <3> QED
      BY <3>2
  <2>3. posted = [placed EXCEPT ![u] = closed]
    BY <1>9, <1>1, <2>1 DEF PostedAccounts, placed, m, id, q, AccountsOK
  <2> HIDE DEF n, posted
  <2>4. /\ u \in Traders /\ l \in ActiveKeys(placed[u], side) /\ IsAccount(placed[u])
    BY <1>1, <1>6, <1>7, <2>1, Zenon DEF OrderStays, AccountsOK
  <2>5. \A j \in DOMAIN q.list : j # n =>
          q.list[j].value.user # u \/ q.list[j].value.access # l
    BY <1>1, <2>1 DEF Linked, KeysDistinct, KeyOf
  <2>6. a # u \/ k # l
    <3>1. l \in ActiveKeys(accts[u], side)
      BY <1>1, <2>1
    <3> QED
      BY <1>5, <3>1 DEF Opens
  <2> HIDE DEF u, l, placed
  <2>7. Closes(placed[u], closed, side, l)
    BY <2>2, <2>4, CancelOrderProperties
  <2> HIDE DEF closed
  <2>8. \A v \in Traders : OtherSideKept(accts[v], posted[v], side)
    <3>1. \A v \in Traders : OtherSideKept(placed[v], posted[v], side)
      BY <1>6, <2>3, <2>7, KeptElsewhere DEF Closes
    <3> QED
      BY <1>6, <3>1 DEF OtherSideKept
  <2>9. posted[a].orders[side][k].id.counter = c2
    <3>1. k \in ActiveKeys(placed[a], side)
      BY <1>6
    <3>2. OrderStays(placed, posted, side, a, k)
      BY <1>6, <2>3, <2>4, <2>6, <2>7, <3>1, ClosesOthers, Zenon
    <3> QED
      BY <1>6, <3>2 DEF OrderStays
  <2>10. \A j \in 1..Len(Evict(q).list) :
           IdIn(posted, side, q.list[j]) = IdIn(accts, side, q.list[j])
    <3> TAKE j \in 1..Len(Evict(q).list)
    <3> DEFINE v == q.list[j].value.user
               h == q.list[j].value.access
    <3>1. j \in DOMAIN q.list /\ j # n
      BY <1>1, <2>1
    <3>2. OrderStays(accts, placed, side, v, h)
      BY <1>1, <1>7, <3>1
    <3>3. v \in Traders /\ (v # u \/ h # l) /\ h \in ActiveKeys(placed[v], side)
      BY <1>1, <2>5, <3>1, <3>2, Zenon DEF OrderStays
    <3> HIDE DEF v, h
    <3>4. OrderStays(placed, posted, side, v, h)
      BY <1>6, <2>3, <2>4, <2>7, <3>3, ClosesOthers, Zenon
    <3> QED
      BY <3>2, <3>4, Zenon DEF OrderStays, IdIn, v, h
  <2> QED
    BY <1>6, <2>8, <2>9, <2>10 DEF q, k, posted
<1> QED
  BY <1>8, <1>9

(* An order is posted, at the back of its price level; if another has to   *)
(* make room for it, it is the last of the queue.                          *)
LEMMA PostedJoined ==
  ASSUME NEW accts, NEW c, Consistent(book, accts, c), NEW side \in Sides,
         \A t \in Traders : accts[t].orders = acct[t].orders,
         NEW c2 \in Nat \ {0}, NEW a \in Traders, NEW size \in Nat \ {0},
         NEW price \in 1..HI_PRICE, Admits(book[side], price)
  PROVE  LET b2 == PostedBook(accts, a, side, size, price)
             accts2 == PostedAccounts(accts, c2, a, side, size, price)
         IN /\ Joined(book[side], acct, b2[side], accts2, side, c2)
            /\ \A s \in Sides : s # side => b2[s] = book[s]
<1> DEFINE q == book[side]
           b2 == PostedBook(accts, a, side, size, price)
           accts2 == PostedAccounts(accts, c2, a, side, size, price)
           k == NextOrderAccessKey(accts[a], side)
           order == NewOrder(a, size, k)
           s == Evict(q)
           n == Len(s.list)
           p == Place(s, price)
           r == Insert(s, price, order)
           P == DOMAIN r.list \ {p}
           f == [j \in P |-> IF j < p THEN j ELSE j - 1]
<1>1. IsQueue(q, BookOrders) /\ book \in Books /\ price \in Nat
  BY UnitsAssumption DEF Consistent, Linked
<1>2. /\ k \in Nat
      /\ accts2[a].orders[side][k].id.counter = c2
      /\ \A j \in 1..n : IdIn(accts2, side, q.list[j]) = IdIn(accts, side, q.list[j])
  BY PostedIds
<1>3. b2 = [book EXCEPT ![side] = r]
  BY DEF PostedBook, InsertCheckEviction, NewOrder
<1>4. b2[side] = r /\ \A t \in Sides : t # side => b2[t] = book[t]
  BY <1>1, <1>3 DEF Books
<1> HIDE DEF q, accts2, b2, k
<1>5. order \in BookOrders /\ order.user = a /\ order.size = size /\ order.access = k
  BY <1>2 DEF BookOrders, NewOrder
<1> HIDE DEF order
<1>6. /\ IsQueue(s, BookOrders) /\ s.ascending = q.ascending
      /\ s.inactive # << >> \/ s.nNodes < NNodesMax
      /\ IsFull(q) => /\ n = Len(q.list) - 1
                      /\ \A j \in 1..Len(q.list) - 1 : s.list[j] = q.list[j]
      /\ ~IsFull(q) => s = q
  BY <1>1, EvictProperties, Zenon
<1>7. /\ DOMAIN q.list = 1..Len(q.list) /\ Len(q.list) \in Nat
      /\ \A j \in 1..Len(q.list) : /\ q.list[j].value.size \in Nat
                                   /\ q.list[j].value.user \in Traders
                                   /\ q.list[j].key \in Nat
  BY <1>1, EntryProperties
<1>8. n \in Nat /\ DOMAIN s.list = 1..n
  BY <1>6, EntryProperties
<1> HIDE DEF s
<1>9. /\ n <= Len(q.list) /\ \A j \in 1..n : s.list[j] = q.list[j]
      /\ \A j \in 1..n : j \in DOMAIN q.list
      /\ \A i \in DOMAIN q.list : ~(i \in 1..n) => IsFull(q) /\ i = Len(q.list)
  <2>1. CASE IsFull(q)
    <3> HIDE DEF n
    <3> QED
      BY <1>6, <1>7, <1>8, <2>1
  <2>2. CASE ~IsFull(q)
    BY <1>6, <1>7, <2>2
  <2> QED
    BY <2>1, <2>2
<1>10. /\ p \in 1..n + 1
       /\ \A i \in 1..n : i < p <=> ~Precedes(s, price, s.list[i].key)
  BY <1>1, <1>6, <1>8, PlaceProperties, Zenon DEF IsQueue
<1>11. /\ IsQueue(r, BookOrders)
       /\ Len(r.list) = n + 1
       /\ \A j \in 1..n + 1 :
            r.list[j] = IF j < p THEN s.list[j]
                        ELSE IF j = p THEN NewEntry(s, price, order)
                        ELSE s.list[j - 1]
  BY <1>1, <1>5, <1>6, InsertProperties
<1>12. DOMAIN r.list = 1..n + 1
  BY <1>11, EntryProperties
<1> HIDE DEF n, p, r
<1>13. \A j \in P : /\ f[j] \in 1..n /\ r.list[j] = q.list[f[j]]
                    /\ j < p <=> f[j] < p
  BY <1>8, <1>9, <1>10, <1>11, <1>12, SMTT(30)
<1>14. \A j, l \in P : j < l => f[j] < f[l]
  <2> SUFFICES ASSUME NEW j \in P, NEW l \in P, j < l PROVE f[j] < f[l]
    BY Zenon
  <2>1. /\ f[j] = IF j < p THEN j ELSE j - 1
        /\ f[l] = IF l < p THEN l ELSE l - 1
    OBVIOUS
  <2>2. j \in 1..n + 1 /\ l \in 1..n + 1 /\ j # p /\ l # p
    BY <1>12
  <2> HIDE DEF f, P
  <2> QED
    BY <1>8, <1>10, <2>1, <2>2
<1>15. f \in [P -> DOMAIN q.list]
  BY <1>9, <1>13, Zenon
<1>16. \A i \in DOMAIN q.list : (\A j \in P : f[j] # i) => i \notin 1..n
  <2> SUFFICES ASSUME NEW i \in 1..n PROVE \E j \in P : f[j] = i
    BY Zenon
  <2>1. CASE i < p
    <3>1. i \in P
      BY <1>8, <1>10, <1>12, <2>1
    <3>2. f[i] = i
      BY <2>1, <3>1
    <3> QED
      BY <3>1, <3>2
  <2>2. CASE ~(i < p)
    <3>1. i + 1 \in P /\ ~(i + 1 < p) /\ i + 1 - 1 = i
      BY <1>8, <1>10, <1>12, <2>2
    <3>2. f[i + 1] = i
      BY <3>1
    <3> QED
      BY <3>1, <3>2
  <2> QED
    BY <2>1, <2>2, Zenon
<1> HIDE DEF f
<1>17. \A j \in P : SameOrder(q, acct, r, accts2, side, f[j], j)
  <2>1. \A j \in 1..n : IdIn(accts, side, q.list[j]) = IdIn(acct, side, q.list[j])
    BY <1>7, <1>9, Zenon DEF IdIn
  <2> QED
    BY <1>2, <1>13, <2>1 DEF SameOrder
<1>18. NoneOvertakes(q, r, f, P)
  <2>1. \A j \in P : /\ r.list[j].value.size = q.list[f[j]].value.size
                     /\ q.list[f[j]].value.size \in Nat
    BY <1>7, <1>9, <1>13
  <2> QED
    BY <2>1 DEF NoneOvertakes
<1>19. p \in DOMAIN r.list /\ r.list[p] = NewEntry(s, price, order)
  BY <1>8, <1>10, <1>11, <1>12
<1>20. IdIn(accts2, side, r.list[p]).counter = c2 /\ r.list[p].key = price
  <2>1. r.list[p].key = price /\ r.list[p].value = order
    BY <1>19 DEF NewEntry
  <2>2. /\ r.list[p].value.user = a /\ r.list[p].value.access = k
    BY <1>5, <2>1
  <2>3. IdIn(accts2, side, r.list[p]) = accts2[a].orders[side][k].id
    BY <2>2, Zenon DEF IdIn
  <2> QED
    BY <1>2, <2>1, <2>3
<1>21. AtBack(r, p)
  <2> SUFFICES ASSUME NEW l \in DOMAIN r.list, p < l
               PROVE  r.list[l].key # price
    BY <1>20 DEF AtBack
  <2>1. l - 1 \in 1..n /\ r.list[l] = s.list[l - 1] /\ ~(l - 1 < p)
    BY <1>8, <1>10, <1>11, <1>12
  <2>2. Precedes(s, price, r.list[l].key)
    BY <1>10, <2>1
  <2>3. r.list[l].key \in Nat
    BY <1>7, <1>9, <2>1
  <2> QED
    BY <1>1, <2>2, <2>3 DEF Precedes
<1>22. \A i \in DOMAIN q.list :
         (\A j \in P : f[j] # i) => Precedes(q, r.list[p].key, q.list[i].key)
  <2> SUFFICES ASSUME NEW i \in DOMAIN q.list, \A j \in P : f[j] # i
               PROVE  Precedes(q, price, q.list[i].key)
    BY <1>20
  <2>1. IsFull(q) /\ i = Len(q.list)
    BY <1>9, <1>16
  <2> QED
    BY <2>1 DEF Admits, WouldUpdateTail, TailKey, q
<1>23. Newcomer(q, acct, r, accts2, side, c2, p, f)
  BY <1>14, <1>15, <1>17, <1>18, <1>19, <1>20, <1>21, <1>22 DEF Newcomer, Follows
<1>24. Joined(q, acct, r, accts2, side, c2)
  BY <1>23 DEF Joined
<1> QED
  BY <1>4, <1>24 DEF q, accts2, b2

-----------------------------------------------------------------------------
(* A step keeps all orders, lets one join, or moves one back.              *)

KeptOn(side) == Kept(book[side], acct, book'[side], acct', side)
JoinedOn(side) == Joined(book[side], acct, book'[side], acct', side, counter')
MovedOn(side) == Moved(book[side], acct, book'[side], acct', side)

(* What these lemmas need to know of the market before the step.           *)
LEMMA BookFacts ==
  ASSUME IInv
  PROVE  /\ book \in Books /\ AccountsOK(acct)
         /\ \A side \in Sides :
              /\ IsQueue(book[side], BookOrders) /\ KeysDistinct(book[side])
              /\ \A j \in DOMAIN book[side].list :
                   /\ book[side].list[j].value.user \in Traders
                   /\ book[side].list[j].value.access
                        \in ActiveKeys(acct[book[side].list[j].value.user], side)
<1>1. Consistent(book, acct, counter)
  BY DEF IInv
<1> QED
  BY <1>1, OrderIds, SMTT(30) DEF Consistent, Linked

(* A side on which nothing changes.                                        *)
LEMMA StillOn ==
  ASSUME IInv, NEW s \in Sides, book'[s] = book[s],
         \A a \in Traders : acct'[a].orders[s] = acct[a].orders[s]
  PROVE  KeptOn(s)
<1>1. Kept(book[s], acct, book[s], acct', s)
  BY BookFacts, StillKept
<1> QED
  BY <1>1 DEF KeptOn

(* One account changes, and the queue of one side.                         *)
LEMMA OthersStill ==
  ASSUME IInv, NEW side \in Sides, NEW q, book' = [book EXCEPT ![side] = q],
         NEW u, NEW m, OtherSideKept(acct[u], m, side),
         acct' = [acct EXCEPT ![u] = m]
  PROVE  \A s \in Sides : s # side => KeptOn(s)
<1>1. AccountsOK(acct) /\ book \in Books
  BY BookFacts
<1>2. \A a \in Traders : OtherSideKept(acct[a], acct'[a], side)
  BY <1>1, KeptElsewhere
<1>3. \A s \in Sides : s # side =>
        /\ book'[s] = book[s]
        /\ \A a \in Traders : acct'[a].orders[s] = acct[a].orders[s]
  BY <1>1, <1>2 DEF OtherSideKept, Books
<1> QED
  BY <1>3, StillOn

(* An order leaves the book.                                               *)
LEMMA DroppedStep ==
  ASSUME IInv, NEW side \in Sides, NEW i \in 1..Len(book[side].list),
         Dropped(side, i)
  PROVE  \A s \in Sides : KeptOn(s)
<1> DEFINE q == book[side]
           e == q.list[i]
           u == e.value.user
<1>1. PICK m : /\ Closes(acct[u], m, side, e.value.access)
               /\ book' = [book EXCEPT ![side] = RemoveEntry(q, i)]
               /\ acct' = [acct EXCEPT ![u] = m]
  BY Zenon DEF Dropped
<1>2. \A s \in Sides : s # side => KeptOn(s)
  <2> HIDE DEF u, q
  <2> QED
    BY <1>1, OthersStill, Zenon DEF Closes
<1>3. Kept(q, acct, RemoveEntry(q, i), [acct EXCEPT ![u] = m], side)
  BY <1>1, BookFacts, DroppedKept, Zenon
<1>4. book'[side] = RemoveEntry(q, i)
  BY <1>1, BookFacts DEF Books
<1>5. KeptOn(side)
  BY <1>1, <1>3, <1>4 DEF KeptOn
<1> QED
  BY <1>2, <1>5

(* An order changes its size where it stands.                              *)
LEMMA ResizedStep ==
  ASSUME IInv, NEW side \in Sides, NEW i \in 1..Len(book[side].list),
         NEW size \in Nat \ {0}, ResizedInPlace(side, i, size),
         size <= book[side].list[i].value.size \/ IsLocalTail(book[side], i)
  PROVE  \A s \in Sides : KeptOn(s)
<1> DEFINE q == book[side]
           e == q.list[i]
           u == e.value.user
<1>1. PICK m : /\ Resizes(acct[u], m, side, e.value.access, size)
               /\ book' = [book EXCEPT ![side] = ResizeAt(q, i, size)]
               /\ acct' = [acct EXCEPT ![u] = m]
  BY Zenon DEF ResizedInPlace
<1>2. \A s \in Sides : s # side => KeptOn(s)
  <2> HIDE DEF u, q
  <2> QED
    BY <1>1, OthersStill, Zenon DEF Resizes
<1>3. Kept(q, acct, ResizeAt(q, i, size), [acct EXCEPT ![u] = m], side)
  BY <1>1, BookFacts, ResizedKept, Zenon
<1>4. book'[side] = ResizeAt(q, i, size)
  BY <1>1, BookFacts DEF Books
<1>5. KeptOn(side)
  BY <1>1, <1>3, <1>4 DEF KeptOn
<1> QED
  BY <1>2, <1>5

(* An order goes to the back of its price level.                           *)
LEMMA MovedStep ==
  ASSUME IInv, NEW side \in Sides, NEW i \in 1..Len(book[side].list),
         NEW size \in Nat \ {0}, MovedBack(side, i, size),
         size > book[side].list[i].value.size
  PROVE  /\ MovedOn(side)
         /\ \A s \in Sides : s # side => KeptOn(s)
<1> DEFINE q == book[side]
           e == q.list[i]
           u == e.value.user
           order == NewOrder(u, size, e.value.access)
           r == Insert(RemoveEntry(q, i), e.key, order)
<1>1. PICK m : /\ Resizes(acct[u], m, side, e.value.access, size)
               /\ book' = [book EXCEPT ![side] = r]
               /\ acct' = [acct EXCEPT ![u] = m]
  BY Zenon DEF MovedBack
<1>2. \A s \in Sides : s # side => KeptOn(s)
  <2> HIDE DEF u, r
  <2> QED
    BY <1>1, OthersStill, Zenon DEF Resizes
<1>3. Moved(q, acct, r, [acct EXCEPT ![u] = m], side)
  BY <1>1, BookFacts, MovedMoved, Zenon
<1>4. book'[side] = r
  <2> HIDE DEF r
  <2> QED
    BY <1>1, BookFacts DEF Books
<1> HIDE DEF r
<1>5. MovedOn(side)
  BY <1>1, <1>3, <1>4 DEF MovedOn
<1> QED
  BY <1>2, <1>5

(* An order is posted.                                                     *)
LEMMA PostedStep ==
  ASSUME IInv, NEW accts, NEW a \in Traders, NEW side \in Sides,
         NEW size \in Nat \ {0}, NEW price \in 1..HI_PRICE,
         Posted(accts, a, side, size, price)
  PROVE  /\ JoinedOn(side)
         /\ \A s \in Sides : s # side => KeptOn(s)
<1> DEFINE c2 == counter'
           accts2 == PostedAccounts(accts, c2, a, side, size, price)
           b2 == PostedBook(accts, a, side, size, price)
<1>1. counter' \in Nat \ {0}
  <2>1. counter \in Nat
    BY ConsistentTypes DEF IInv
  <2> QED
    BY <2>1 DEF Posted, IInv, TxOK, NextCounter
<1>2. /\ Consistent(book, accts, counter)
      /\ \A t \in Traders : accts[t].orders = acct[t].orders
      /\ Admits(book[side], price) /\ book' = b2 /\ acct' = accts2
  BY DEF Posted
<1> HIDE DEF c2
<1>3. /\ Joined(book[side], acct, b2[side], accts2, side, c2)
      /\ \A s \in Sides : s # side => b2[s] = book[s]
  BY <1>1, <1>2, PostedJoined DEF c2
<1>4. \A v \in Traders : OtherSideKept(accts[v], accts2[v], side)
  BY <1>1, <1>2, PostedIds DEF c2
<1> HIDE DEF b2, accts2
<1>5. JoinedOn(side)
  BY <1>2, <1>3 DEF JoinedOn, c2
<1>6. \A s \in Sides : s # side =>
        /\ book'[s] = book[s]
        /\ \A v \in Traders : acct'[v].orders[s] = acct[v].orders[s]
  BY <1>2, <1>3, <1>4 DEF OtherSideKept
<1> QED
  BY <1>5, <1>6, StillOn

(* Every step but a rollback.                                              *)
LEMMA StepKinds ==
  ASSUME IInv, [Next]_vars, ~Rollback
  PROVE  \/ \A s \in Sides : KeptOn(s)
         \/ \E side \in Sides :
              /\ MovedOn(side) /\ Idle /\ Idle'
              /\ \A s \in Sides : s # side => KeptOn(s)
         \/ \E side \in Sides :
              /\ JoinedOn(side) /\ Idle'
              /\ IF Idle THEN counter' = NextCounter
                         ELSE IsMatch(tx) /\ counter' = counter
              /\ \A s \in Sides : s # side => KeptOn(s)
<1>1. BookStep
  BY BookSteps
<1>2. CASE Still
  BY <1>2, StillOn DEF Still
<1>3. CASE \E side \in Sides : \E i \in 1..Len(book[side].list) : Dropped(side, i)
  BY <1>3, DroppedStep
<1>4. CASE \E side \in Sides :
             \E i \in 1..Len(book[side].list), size \in Nat \ {0} :
               /\ ResizedInPlace(side, i, size)
               /\ size <= book[side].list[i].value.size \/ IsLocalTail(book[side], i)
  BY <1>4, ResizedStep
<1>5. CASE \E side \in Sides :
             \E i \in 1..Len(book[side].list), size \in Nat \ {0} :
               /\ MovedBack(side, i, size)
               /\ Idle /\ Idle' /\ size > book[side].list[i].value.size
  BY <1>5, MovedStep
<1>6. CASE \E a \in Traders, side \in Sides, size \in Nat \ {0}, price \in 1..HI_PRICE :
             \E accts : Posted(accts, a, side, size, price)
  <2>1. PICK a \in Traders, side \in Sides, size \in Nat \ {0}, price \in 1..HI_PRICE :
          \E accts : Posted(accts, a, side, size, price)
    BY <1>6
  <2>2. PICK accts : Posted(accts, a, side, size, price)
    BY <2>1
  <2>3. /\ JoinedOn(side)
        /\ \A s \in Sides : s # side => KeptOn(s)
    BY <2>2, PostedStep
  <2> QED
    BY <2>2, <2>3 DEF Posted
<1> QED
  BY <1>1, <1>2, <1>3, <1>4, <1>5, <1>6 DEF BookStep

-----------------------------------------------------------------------------
(* The order of orders is kept.                                            *)

Distinct(q, accts, side) ==
  \A i, j \in DOMAIN q.list :
    IdIn(accts, side, q.list[i]) = IdIn(accts, side, q.list[j]) => i = j

Indexed(q) ==
  \A i \in DOMAIN q.list : i \in Nat /\ q.list[i].key \in Nat
                                     /\ q.list[i].value.size \in Nat

(* PriorityStep and EvictionStep (module MarketSafety), for one side.      *)
RanksKept(q, accts, r, accts2, side, idle) ==
  \A i1, j1 \in DOMAIN q.list : \A i2, j2 \in DOMAIN r.list :
    /\ i1 < j1
    /\ IdIn(accts, side, q.list[i1]) = IdIn(accts2, side, r.list[i2])
    /\ IdIn(accts, side, q.list[j1]) = IdIn(accts2, side, r.list[j2])
    => LET yields == /\ r.list[i2].value.size > q.list[i1].value.size
                     /\ q.list[i1].key = q.list[j1].key
       IN /\ j2 < i2 => yields
          /\ yields /\ idle => j2 < i2

QueuesBehind(r, accts2, side, c) ==
  \A i, j \in DOMAIN r.list :
    IdIn(accts2, side, r.list[j]).counter > c /\ r.list[i].key = r.list[j].key
      => i <= j

EvictsWorse(q, accts, r, accts2, side, c) ==
  \A i \in DOMAIN q.list, j \in DOMAIN r.list :
    /\ IdIn(accts2, side, r.list[j]).counter > c
    /\ \A k \in DOMAIN r.list :
         IdIn(accts, side, q.list[i]) # IdIn(accts2, side, r.list[k])
    => Precedes(q, r.list[j].key, q.list[i].key)

Fair(q, accts, r, accts2, side, idle, c) ==
  /\ RanksKept(q, accts, r, accts2, side, idle)
  /\ QueuesBehind(r, accts2, side, c)
  /\ EvictsWorse(q, accts, r, accts2, side, c)

(* Orders that come from others in their order have not overtaken them.    *)
LEMMA FollowsRanks ==
  ASSUME NEW q, NEW accts, NEW r, NEW accts2, NEW side, NEW f, NEW P, NEW idle,
         Follows(q, accts, r, accts2, side, f, P), Indexed(q), Indexed(r),
         Distinct(q, accts, side),
         \A j \in DOMAIN r.list \ P : \A i \in DOMAIN q.list :
           IdIn(accts2, side, r.list[j]) # IdIn(accts, side, q.list[i]),
         idle => NoneOvertakes(q, r, f, P)
  PROVE  RanksKept(q, accts, r, accts2, side, idle)
<1> SUFFICES ASSUME NEW i1 \in DOMAIN q.list, NEW j1 \in DOMAIN q.list,
                    NEW i2 \in DOMAIN r.list, NEW j2 \in DOMAIN r.list,
                    i1 < j1,
                    IdIn(accts, side, q.list[i1]) = IdIn(accts2, side, r.list[i2]),
                    IdIn(accts, side, q.list[j1]) = IdIn(accts2, side, r.list[j2])
             PROVE  /\ ~(j2 < i2)
                    /\ r.list[i2].value.size > q.list[i1].value.size /\ idle =>
                         q.list[i1].key # q.list[j1].key
  BY DEF RanksKept
<1>1. i2 \in P /\ j2 \in P
  OBVIOUS
<1>2. f[i2] = i1 /\ f[j2] = j1
  BY <1>1 DEF Follows, SameOrder, Distinct
<1>3. i1 \in Nat /\ j1 \in Nat
  BY DEF Indexed
<1>4. ~(j2 < i2)
  BY <1>1, <1>2, <1>3 DEF Follows
<1>5. ASSUME r.list[i2].value.size > q.list[i1].value.size, idle
      PROVE  q.list[i1].key # q.list[j1].key
  <2>1. r.list[i2].value.size \in Nat /\ q.list[i1].value.size \in Nat
    BY DEF Indexed
  <2>2. AtBack(q, i1)
    BY <1>1, <1>2, <1>5, <2>1 DEF NoneOvertakes
  <2> QED
    BY <2>2 DEF AtBack
<1> QED
  BY <1>4, <1>5

(* Nor has one that grew and went to the back been overtaken by others.    *)
LEMMA MovedRanks ==
  ASSUME NEW q, NEW accts, NEW r, NEW accts2, NEW side, NEW idle,
         Moved(q, accts, r, accts2, side), Indexed(q), Indexed(r),
         Distinct(q, accts, side), Distinct(r, accts2, side)
  PROVE  RanksKept(q, accts, r, accts2, side, idle)
<1> SUFFICES ASSUME NEW i1 \in DOMAIN q.list, NEW j1 \in DOMAIN q.list,
                    NEW i2 \in DOMAIN r.list, NEW j2 \in DOMAIN r.list,
                    i1 < j1,
                    IdIn(accts, side, q.list[i1]) = IdIn(accts2, side, r.list[i2]),
                    IdIn(accts, side, q.list[j1]) = IdIn(accts2, side, r.list[j2])
             PROVE  j2 < i2 <=> /\ r.list[i2].value.size > q.list[i1].value.size
                                /\ q.list[i1].key = q.list[j1].key
  BY DEF RanksKept
<1>1. PICK i, p, f : Latecomer(q, accts, r, accts2, side, i, p, f)
  BY DEF Moved
<1>2. /\ f \in [DOMAIN r.list -> DOMAIN q.list]
      /\ i \in DOMAIN q.list /\ p \in DOMAIN r.list
      /\ f[p] = i /\ r.list[p].value.size > q.list[i].value.size
      /\ \A j, k \in DOMAIN r.list \ {p} : j < k => f[j] < f[k]
      /\ \A j \in DOMAIN r.list \ {p} :
           /\ r.list[j].value.size = q.list[f[j]].value.size
           /\ f[j] < i => j < p
           /\ i < f[j] => (j < p <=> q.list[f[j]].key = q.list[i].key)
  BY <1>1 DEF Latecomer
<1>3. f[i2] = i1 /\ f[j2] = j1 /\ i2 # j2
  <2>1. f[i2] = i1
    BY <1>1, <1>2 DEF Latecomer, SameOrder, Distinct
  <2>2. f[j2] = j1
    BY <1>1, <1>2 DEF Latecomer, SameOrder, Distinct
  <2>3. i1 # j1
    BY DEF Indexed
  <2> QED
    BY <2>1, <2>2, <2>3
<1>4. /\ i1 \in Nat /\ j1 \in Nat /\ i2 \in Nat /\ j2 \in Nat /\ i \in Nat /\ p \in Nat
      /\ r.list[i2].value.size \in Nat /\ q.list[i1].value.size \in Nat
  BY <1>2 DEF Indexed
<1>5. CASE i2 = p
  <2>1. i1 = i /\ j2 # p
    BY <1>2, <1>3, <1>5
  <2> QED
    BY <1>2, <1>3, <1>5, <2>1
<1>6. CASE i2 # p
  <2>1. r.list[i2].value.size = q.list[i1].value.size
    BY <1>2, <1>3, <1>6
  <2>2. ~(j2 < i2)
    <3>1. CASE j2 = p
      BY <1>2, <1>3, <1>4, <1>6, <3>1
    <3>2. CASE j2 # p
      BY <1>2, <1>3, <1>4, <1>6, <3>2
    <3> QED
      BY <3>1, <3>2
  <2> QED
    BY <1>4, <2>1, <2>2
<1> QED
  BY <1>5, <1>6

(* What is undone is in the order it was in before.                        *)
LEMMA UndoneRanks ==
  ASSUME NEW q, NEW accts, NEW r, NEW accts2, NEW side, NEW f,
         Follows(q, accts, r, accts2, side, f, DOMAIN r.list),
         Distinct(q, accts, side), Indexed(q)
  PROVE  RanksKept(r, accts2, q, accts, side, FALSE)
<1> SUFFICES ASSUME NEW i1 \in DOMAIN r.list, NEW j1 \in DOMAIN r.list,
                    NEW i2 \in DOMAIN q.list, NEW j2 \in DOMAIN q.list,
                    i1 < j1,
                    IdIn(accts2, side, r.list[i1]) = IdIn(accts, side, q.list[i2]),
                    IdIn(accts2, side, r.list[j1]) = IdIn(accts, side, q.list[j2])
             PROVE  ~(j2 < i2)
  BY DEF RanksKept
<1>1. f[i1] = i2 /\ f[j1] = j2
  BY DEF Follows, SameOrder, Distinct
<1>2. i2 < j2 /\ i2 \in Nat /\ j2 \in Nat
  BY <1>1 DEF Follows, Indexed
<1> QED
  BY <1>2

(* Where no order is new, none jumps the queue or evicts another.          *)
LEMMA NoNewcomers ==
  ASSUME NEW q, NEW accts, NEW r, NEW accts2, NEW side, NEW c,
         \A j \in DOMAIN r.list : ~(IdIn(accts2, side, r.list[j]).counter > c)
  PROVE  QueuesBehind(r, accts2, side, c) /\ EvictsWorse(q, accts, r, accts2, side, c)
BY DEF QueuesBehind, EvictsWorse

(* All orders are old ones.                                                *)
LEMMA KeptFair ==
  ASSUME NEW q, NEW accts, NEW r, NEW accts2, NEW side, NEW idle, NEW c,
         Kept(q, accts, r, accts2, side), Indexed(q), Indexed(r),
         Distinct(q, accts, side),
         \A i \in DOMAIN q.list : ~(IdIn(accts, side, q.list[i]).counter > c)
  PROVE  Fair(q, accts, r, accts2, side, idle, c)
<1>1. PICK f : /\ Follows(q, accts, r, accts2, side, f, DOMAIN r.list)
               /\ NoneOvertakes(q, r, f, DOMAIN r.list)
  BY DEF Kept
<1>2. RanksKept(q, accts, r, accts2, side, idle)
  BY <1>1, FollowsRanks
<1>3. \A j \in DOMAIN r.list : ~(IdIn(accts2, side, r.list[j]).counter > c)
  BY <1>1 DEF Follows, SameOrder
<1> QED
  BY <1>2, <1>3, NoNewcomers DEF Fair

(* One is at the back of its price level.                                  *)
LEMMA MovedFair ==
  ASSUME NEW q, NEW accts, NEW r, NEW accts2, NEW side, NEW idle, NEW c,
         Moved(q, accts, r, accts2, side), Indexed(q), Indexed(r),
         Distinct(q, accts, side), Distinct(r, accts2, side),
         \A i \in DOMAIN q.list : ~(IdIn(accts, side, q.list[i]).counter > c)
  PROVE  Fair(q, accts, r, accts2, side, idle, c)
<1>1. PICK i, p, f : Latecomer(q, accts, r, accts2, side, i, p, f)
  BY DEF Moved
<1>2. RanksKept(q, accts, r, accts2, side, idle)
  BY MovedRanks
<1>3. \A j \in DOMAIN r.list : ~(IdIn(accts2, side, r.list[j]).counter > c)
  BY <1>1 DEF Latecomer, SameOrder
<1> QED
  BY <1>2, <1>3, NoNewcomers DEF Fair

(* One is new.                                                             *)
LEMMA JoinedFair ==
  ASSUME NEW q, NEW accts, NEW r, NEW accts2, NEW side, NEW idle, NEW c, NEW c2,
         Joined(q, accts, r, accts2, side, c2), Indexed(q), Indexed(r),
         Distinct(q, accts, side), c2 > c,
         \A i \in DOMAIN q.list : ~(IdIn(accts, side, q.list[i]).counter > c)
  PROVE  Fair(q, accts, r, accts2, side, idle, c)
<1>1. PICK p, f : Newcomer(q, accts, r, accts2, side, c2, p, f)
  BY DEF Joined
<1> DEFINE P == DOMAIN r.list \ {p}
<1>2. /\ Follows(q, accts, r, accts2, side, f, P)
      /\ NoneOvertakes(q, r, f, P)
      /\ p \in DOMAIN r.list
      /\ IdIn(accts2, side, r.list[p]).counter = c2
      /\ AtBack(r, p)
      /\ \A i \in DOMAIN q.list :
           (\A j \in P : f[j] # i) => Precedes(q, r.list[p].key, q.list[i].key)
  BY <1>1 DEF Newcomer
<1>3. \A j \in P : /\ f[j] \in DOMAIN q.list
                   /\ IdIn(accts2, side, r.list[j]) = IdIn(accts, side, q.list[f[j]])
                   /\ ~(IdIn(accts2, side, r.list[j]).counter > c)
  BY <1>2 DEF Follows, SameOrder
<1>4. RanksKept(q, accts, r, accts2, side, idle)
  <2>1. \A j \in DOMAIN r.list \ P : j = p
    OBVIOUS
  <2>2. \A i \in DOMAIN q.list :
          IdIn(accts2, side, r.list[p]) # IdIn(accts, side, q.list[i])
    BY <1>2
  <2> HIDE DEF P
  <2> QED
    BY <1>2, <2>1, <2>2, FollowsRanks
<1>5. QueuesBehind(r, accts2, side, c)
  <2> SUFFICES ASSUME NEW i \in DOMAIN r.list, NEW j \in DOMAIN r.list,
                      IdIn(accts2, side, r.list[j]).counter > c,
                      r.list[i].key = r.list[j].key
               PROVE  i <= j
    BY DEF QueuesBehind
  <2>1. j = p
    BY <1>3
  <2>2. ~(p < i) /\ i \in Nat /\ p \in Nat
    BY <1>2, <2>1 DEF AtBack, Indexed
  <2> QED
    BY <2>1, <2>2
<1>6. EvictsWorse(q, accts, r, accts2, side, c)
  <2> SUFFICES ASSUME NEW i \in DOMAIN q.list, NEW j \in DOMAIN r.list,
                      IdIn(accts2, side, r.list[j]).counter > c,
                      \A k \in DOMAIN r.list :
                        IdIn(accts, side, q.list[i]) # IdIn(accts2, side, r.list[k])
               PROVE  Precedes(q, r.list[j].key, q.list[i].key)
    BY DEF EvictsWorse
  <2>1. j = p
    BY <1>3
  <2>2. \A k \in P : f[k] # i
    BY <1>3
  <2> QED
    BY <1>2, <2>1, <2>2
<1> QED
  BY <1>4, <1>5, <1>6 DEF Fair

-----------------------------------------------------------------------------
(* Within a transaction, orders only leave the book or shrink: those that  *)
(* rest are orders of the book the transaction began with, in its order.   *)

From(q, accts, r, accts2, side) ==
  \E f : Follows(q, accts, r, accts2, side, f, DOMAIN r.list)

RanksInv ==
  ~Idle => /\ \A side \in Sides :
                From(saved.book[side], saved.acct, book[side], acct, side)
           /\ saved.counter \in Nat /\ saved.counter <= counter
           /\ IsMatch(tx) => saved.counter < counter

(* Two steps in a row.                                                     *)
LEMMA FromTwice ==
  ASSUME NEW q, NEW accts, NEW r, NEW accts2, NEW t, NEW accts3, NEW side,
         From(q, accts, r, accts2, side), From(r, accts2, t, accts3, side)
  PROVE  From(q, accts, t, accts3, side)
<1>1. PICK f : Follows(q, accts, r, accts2, side, f, DOMAIN r.list)
  BY DEF From
<1>2. PICK g : Follows(r, accts2, t, accts3, side, g, DOMAIN t.list)
  BY DEF From
<1> DEFINE h == [j \in DOMAIN t.list |-> f[g[j]]]
<1>3. h \in [DOMAIN t.list -> DOMAIN q.list]
  BY <1>1, <1>2 DEF Follows
<1>4. \A j \in DOMAIN t.list : h[j] = f[g[j]] /\ g[j] \in DOMAIN r.list
  BY <1>2 DEF Follows
<1> HIDE DEF h
<1>5. \A j \in DOMAIN t.list : SameOrder(q, accts, t, accts3, side, h[j], j)
  BY <1>1, <1>2, <1>4 DEF Follows, SameOrder
<1>6. \A j, k \in DOMAIN t.list : j < k => h[j] < h[k]
  BY <1>1, <1>2, <1>4 DEF Follows
<1> QED
  BY <1>3, <1>5, <1>6 DEF From, Follows

LEMMA KeptFrom ==
  ASSUME NEW q, NEW accts, NEW r, NEW accts2, NEW side,
         Kept(q, accts, r, accts2, side)
  PROVE  From(q, accts, r, accts2, side)
BY DEF Kept, From

(* A rollback and the end of a transaction leave none under way.           *)
LEMMA EndIdle ==
  ASSUME End
  PROVE  Idle'
BY NoTxType DEF End, Idle

LEMMA NextRanks ==
  ASSUME IInv, RanksInv, [Next]_vars
  PROVE  RanksInv'
<1> SUFFICES ASSUME ~Idle' PROVE RanksInv'
  BY DEF RanksInv
<1>1. ~Rollback
  BY EndIdle DEF Rollback
<1>2. /\ counter \in Nat /\ counter' \in Nat /\ counter <= counter'
      /\ ~Idle => counter' = counter
      /\ IsMatch(tx') /\ Idle => counter < counter'
      /\ IsMatch(tx') /\ ~Idle => IsMatch(tx)
  BY <1>1, CounterStep
<1>3. \A side \in Sides : From(book[side], acct, book'[side], acct', side)
  BY <1>1, StepKinds, KeptFrom DEF KeptOn
<1>4. CASE Idle
  <2>1. saved' = State
    BY <1>4, SavedStep
  <2>2. saved'.book = book /\ saved'.acct = acct /\ saved'.counter = counter
    BY <2>1 DEF State
  <2>3. \A side \in Sides :
          From(saved'.book[side], saved'.acct, book'[side], acct', side)
    BY <1>3, <2>2
  <2> QED
    BY <1>2, <1>4, <2>2, <2>3 DEF RanksInv
<1>5. CASE ~Idle
  <2>1. saved' = saved
    BY <1>5, SavedStep
  <2>2. \A side \in Sides :
          From(saved.book[side], saved.acct, book'[side], acct', side)
    BY <1>3, <1>5, FromTwice DEF RanksInv
  <2>3. \A side \in Sides :
          From(saved'.book[side], saved'.acct, book'[side], acct', side)
    BY <2>1, <2>2
  <2> QED
    BY <1>2, <1>5, <2>1, <2>3 DEF RanksInv
<1> QED
  BY <1>4, <1>5

LEMMA InitRanks ==
  Init => RanksInv
BY NoTxType DEF Init, RanksInv, Idle

(* The numbers of the orders that rest were given out before the           *)
(* transaction; it gives out at most one, to an order that rests at its    *)
(* end.                                                                    *)
LEMMA CommittedIds ==
  ASSUME IInv, RanksInv
  PROVE  /\ Committed.counter \in Nat
         /\ \A side \in Sides : \A i \in DOMAIN book[side].list :
              ~(IdIn(acct, side, book[side].list[i]).counter > Committed.counter)
<1>1. CASE Idle
  <2>1. Committed.counter = counter
    BY <1>1 DEF Committed, State
  <2>2. Consistent(book, acct, counter)
    BY DEF IInv
  <2>3. counter \in Nat
    BY <2>2 DEF Consistent
  <2>4. \A side \in Sides : \A i \in DOMAIN book[side].list :
          IdIn(acct, side, book[side].list[i]).counter \in 1..counter
    BY <2>2, OrderIds
  <2> QED
    BY <2>1, <2>3, <2>4
<1>2. CASE ~Idle
  <2>1. Committed = saved
    BY <1>2 DEF Committed
  <2>2. Consistent(saved.book, saved.acct, saved.counter)
    BY <1>2 DEF IInv, SavedOK, Idle
  <2>3. saved.counter \in Nat
    BY <1>2 DEF RanksInv
  <2>4. ASSUME NEW side \in Sides, NEW i \in DOMAIN book[side].list
        PROVE  IdIn(acct, side, book[side].list[i]).counter \in 1..saved.counter
    <3>1. PICK f : Follows(saved.book[side], saved.acct, book[side], acct, side,
                           f, DOMAIN book[side].list)
      BY <1>2 DEF RanksInv, From
    <3>2. /\ f[i] \in DOMAIN saved.book[side].list
          /\ IdIn(acct, side, book[side].list[i])
               = IdIn(saved.acct, side, saved.book[side].list[f[i]])
      BY <3>1 DEF Follows, SameOrder
    <3>3. IdIn(saved.acct, side, saved.book[side].list[f[i]]).counter
            \in 1..saved.counter
      BY <2>2, <3>2, OrderIds
    <3> QED
      BY <3>2, <3>3
  <2> QED
    BY <2>1, <2>3, <2>4
<1> QED
  BY <1>1, <1>2

LEMMA JoinedCounter ==
  ASSUME IInv, RanksInv,
         IF Idle THEN counter' = NextCounter
                 ELSE IsMatch(tx) /\ counter' = counter
  PROVE  counter' > Committed.counter
<1>1. counter \in Nat
  BY DEF IInv, Consistent
<1>2. CASE Idle
  BY <1>1, <1>2 DEF Committed, State, NextCounter
<1>3. CASE ~Idle
  BY <1>1, <1>3 DEF Committed, RanksInv
<1> QED
  BY <1>2, <1>3

(* What is needed of the sides of a consistent market.                     *)
LEMMA SideFacts ==
  ASSUME NEW b, NEW accts, NEW c, Consistent(b, accts, c), NEW side \in Sides
  PROVE  Indexed(b[side]) /\ Distinct(b[side], accts, side)
<1>1. Distinct(b[side], accts, side)
  BY OrderIds DEF Distinct
<1>2. IsQueue(b[side], BookOrders)
  BY OrderIds
<1>3. DOMAIN b[side].list \subseteq Nat
  BY <1>2, EntryProperties
<1>4. Indexed(b[side])
  BY <1>3, OrderIds DEF Indexed
<1> QED
  BY <1>1, <1>4

(* Every step is fair on both sides.                                       *)
LEMMA NextFair ==
  ASSUME IInv, RanksInv, [Next]_vars, NEW side \in Sides
  PROVE  Fair(book[side], acct, book'[side], acct', side, Idle, Committed.counter)
<1> DEFINE c == Committed.counter
<1>1. Consistent(book, acct, counter) /\ Consistent(book', acct', counter')
  BY NextIInv DEF IInv
<1>2. /\ Indexed(book[side]) /\ Distinct(book[side], acct, side)
      /\ Indexed(book'[side]) /\ Distinct(book'[side], acct', side)
  BY <1>1, SideFacts
<1>3. \A i \in DOMAIN book[side].list :
        ~(IdIn(acct, side, book[side].list[i]).counter > c)
  BY CommittedIds
<1>4. CASE Rollback
  <2>1. ~Idle
    BY <1>4 DEF Rollback, Aborts, Matching, Settling, Cancelling, Idle
  <2>2. /\ book'[side] = saved.book[side] /\ acct' = saved.acct
        /\ c = saved.counter
    BY <1>4, <2>1 DEF Rollback, Committed
  <2> HIDE DEF c
  <2>3. PICK f : Follows(saved.book[side], saved.acct, book[side], acct, side,
                         f, DOMAIN book[side].list)
    BY <2>1 DEF RanksInv, From
  <2>4. Consistent(saved.book, saved.acct, saved.counter)
    BY <2>1 DEF IInv, SavedOK, Idle
  <2>5. Indexed(saved.book[side]) /\ Distinct(saved.book[side], saved.acct, side)
    BY <2>4, SideFacts
  <2>6. RanksKept(book[side], acct, saved.book[side], saved.acct, side, FALSE)
    BY <2>3, <2>5, UndoneRanks, Zenon
  <2>7. RanksKept(book[side], acct, saved.book[side], saved.acct, side, Idle)
    BY <2>1, <2>6 DEF RanksKept
  <2>8. \A j \in DOMAIN saved.book[side].list :
          ~(IdIn(saved.acct, side, saved.book[side].list[j]).counter > c)
    BY <2>2, <2>4, OrderIds
  <2>9. /\ QueuesBehind(saved.book[side], saved.acct, side, c)
        /\ EvictsWorse(book[side], acct, saved.book[side], saved.acct, side, c)
    BY <2>8, NoNewcomers
  <2>10. Fair(book[side], acct, saved.book[side], saved.acct, side, Idle, c)
    BY <2>7, <2>9 DEF Fair
  <2>11. Fair(book[side], acct, book'[side], acct', side, Idle, c)
    BY <2>2, <2>10
  <2> QED
    BY <2>11 DEF c
<1>5. CASE ~Rollback
  <2>1. ASSUME KeptOn(side)
        PROVE  Fair(book[side], acct, book'[side], acct', side, Idle, c)
    <3> HIDE DEF c
    <3> QED
      BY <1>2, <1>3, <2>1, KeptFair DEF KeptOn
  <2>2. ASSUME MovedOn(side)
        PROVE  Fair(book[side], acct, book'[side], acct', side, Idle, c)
    <3> HIDE DEF c
    <3> QED
      BY <1>2, <1>3, <2>2, MovedFair DEF MovedOn
  <2>3. ASSUME JoinedOn(side),
               IF Idle THEN counter' = NextCounter
                       ELSE IsMatch(tx) /\ counter' = counter
        PROVE  Fair(book[side], acct, book'[side], acct', side, Idle, c)
    <3> DEFINE c2 == counter'
    <3>1. c2 > c
      BY <2>3, JoinedCounter
    <3>2. Joined(book[side], acct, book'[side], acct', side, c2)
      BY <2>3 DEF JoinedOn
    <3> HIDE DEF c, c2
    <3> QED
      BY <1>2, <1>3, <3>1, <3>2, JoinedFair
  <2> QED
    BY <1>5, <2>1, <2>2, <2>3, StepKinds
<1> QED
  BY <1>4, <1>5

(* Every fair step is in the order of price and time.                      *)
LEMMA FairPriority ==
  ASSUME \A side \in Sides :
           Fair(book[side], acct, book'[side], acct', side, Idle,
                Committed.counter)
  PROVE  PriorityStep /\ EvictionStep
<1>1. PriorityStep
  BY DEF PriorityStep, Fair, RanksKept, QueuesBehind, IsNewcomer
<1>2. EvictionStep
  BY DEF EvictionStep, Fair, EvictsWorse, IsNewcomer
<1> QED
  BY <1>1, <1>2

(* No step, filling, resizing, cancelling, evicting or undoing, lets an    *)
(* order overtake another at its price or better, but for one that grows,  *)
(* which goes to the back; an order is evicted only for a strictly better  *)
(* price (market.move, avl_queue.move).                                    *)
THEOREM PriorityKept == Spec => PriceTimePriority
<1>1. IInv /\ RanksInv /\ [Next]_vars => [PriorityStep /\ EvictionStep]_vars
  BY NextFair, FairPriority
<1> QED
  BY <1>1, InitRanks, NextRanks, Invariance, PTL DEF Spec, PriceTimePriority

-----------------------------------------------------------------------------
(* Order IDs.                                                              *)

OpenOrder(accts, a, side, k) == <<a, side, accts[a].orders[side][k].id>>

LEMMA OpenOrdersIn ==
  ASSUME NEW accts, NEW o
  PROVE  o \in OpenOrders(accts) <=>
           \E a \in Traders, side \in Sides : \E k \in ActiveKeys(accts[a], side) :
             o = OpenOrder(accts, a, side, k)
<1> DEFINE Of(a, side) == {OpenOrder(accts, a, side, k) :
                             k \in ActiveKeys(accts[a], side)}
<1>1. OpenOrders(accts) = UNION {Of(a, side) : a \in Traders, side \in Sides}
  BY DEF OpenOrders, OpenOrder
<1>2. ASSUME NEW a, NEW side
      PROVE  o \in Of(a, side) <=>
               \E k \in ActiveKeys(accts[a], side) : o = OpenOrder(accts, a, side, k)
  OBVIOUS
<1> HIDE DEF Of
<1>3. o \in OpenOrders(accts) <=> \E a \in Traders, side \in Sides : o \in Of(a, side)
  BY <1>1
<1> QED
  BY <1>2, <1>3

(* An open order is that of an entry of the book, ...                      *)
LEMMA OpenEntry ==
  ASSUME NEW b, NEW accts, NEW c, Consistent(b, accts, c),
         NEW a \in Traders, NEW side \in Sides, NEW k \in ActiveKeys(accts[a], side)
  PROVE  \E i \in DOMAIN b[side].list :
           /\ b[side].list[i].value.user = a
           /\ b[side].list[i].value.access = k
           /\ IdIn(accts, side, b[side].list[i]) = accts[a].orders[side][k].id
<1>1. PICK i \in DOMAIN b[side].list : KeyOf(b[side], i) = <<a, k>>
  BY DEF Consistent, Linked
<1>2. b[side].list[i].value.user = a /\ b[side].list[i].value.access = k
  BY <1>1 DEF KeyOf
<1> QED
  BY <1>2, Zenon DEF IdIn

(* ... and that of an entry is an open order.                              *)
LEMMA EntryOpen ==
  ASSUME NEW b, NEW accts, NEW c, Consistent(b, accts, c), NEW side \in Sides,
         NEW i \in DOMAIN b[side].list
  PROVE  <<b[side].list[i].value.user, side, IdIn(accts, side, b[side].list[i])>>
           \in OpenOrders(accts)
<1> DEFINE e == b[side].list[i]
<1>1. e.value.user \in Traders /\ e.value.access \in ActiveKeys(accts[e.value.user], side)
  BY OrderIds
<1> HIDE DEF e
<1>2. <<e.value.user, side, IdIn(accts, side, e)>>
        = OpenOrder(accts, e.value.user, side, e.value.access)
  BY DEF OpenOrder, IdIn
<1>3. <<e.value.user, side, IdIn(accts, side, e)>> \in OpenOrders(accts)
  BY <1>1, <1>2, OpenOrdersIn
<1> QED
  BY <1>3 DEF e

(* IDs tell open orders apart.                                             *)
LEMMA OpenIdsDiffer ==
  ASSUME NEW b, NEW accts, NEW c, Consistent(b, accts, c), NEW side \in Sides,
         NEW a \in Traders, NEW k \in ActiveKeys(accts[a], side),
         NEW v \in Traders, NEW l \in ActiveKeys(accts[v], side),
         accts[a].orders[side][k].id = accts[v].orders[side][l].id
  PROVE  a = v /\ k = l
<1>1. PICK i \in DOMAIN b[side].list :
        /\ b[side].list[i].value.user = a /\ b[side].list[i].value.access = k
        /\ IdIn(accts, side, b[side].list[i]) = accts[a].orders[side][k].id
  BY OpenEntry
<1>2. PICK j \in DOMAIN b[side].list :
        /\ b[side].list[j].value.user = v /\ b[side].list[j].value.access = l
        /\ IdIn(accts, side, b[side].list[j]) = accts[v].orders[side][l].id
  BY OpenEntry
<1>3. i = j
  BY <1>1, <1>2, OrderIds
<1> QED
  BY <1>1, <1>2, <1>3

(* Where orders come from: those of a side, but for entries with a number  *)
(* greater than c, of which there is at most one.                          *)
TracedTo(q, accts, r, accts2, side, P) ==
  \A j \in P : \E i \in DOMAIN q.list : SameOrder(q, accts, r, accts2, side, i, j)

LEMMA FromTraced ==
  ASSUME NEW q, NEW accts, NEW r, NEW accts2, NEW side,
         From(q, accts, r, accts2, side)
  PROVE  TracedTo(q, accts, r, accts2, side, DOMAIN r.list)
BY DEF From, Follows, TracedTo

LEMMA MovedTraced ==
  ASSUME NEW q, NEW accts, NEW r, NEW accts2, NEW side,
         Moved(q, accts, r, accts2, side)
  PROVE  TracedTo(q, accts, r, accts2, side, DOMAIN r.list)
BY DEF Moved, Latecomer, TracedTo

LEMMA JoinedTraced ==
  ASSUME NEW q, NEW accts, NEW r, NEW accts2, NEW side, NEW c,
         Joined(q, accts, r, accts2, side, c)
  PROVE  \E p \in DOMAIN r.list :
           /\ TracedTo(q, accts, r, accts2, side, DOMAIN r.list \ {p})
           /\ IdIn(accts2, side, r.list[p]).counter = c
BY DEF Joined, Newcomer, Follows, TracedTo

(* The open order of a traced entry was open.                              *)
LEMMA TracedOpen ==
  ASSUME NEW b, NEW accts, NEW c, Consistent(b, accts, c), NEW side \in Sides,
         NEW r, NEW accts2, NEW P, TracedTo(b[side], accts, r, accts2, side, P),
         NEW j \in P
  PROVE  <<r.list[j].value.user, side, IdIn(accts2, side, r.list[j])>>
           \in OpenOrders(accts)
<1>1. PICK i \in DOMAIN b[side].list :
        SameOrder(b[side], accts, r, accts2, side, i, j)
  BY DEF TracedTo
<1>2. <<b[side].list[i].value.user, side, IdIn(accts, side, b[side].list[i])>>
        \in OpenOrders(accts)
  BY EntryOpen
<1> QED
  BY <1>1, <1>2 DEF SameOrder

(* Where both sides are traced, no order was opened.                       *)
LEMMA AllTraced ==
  ASSUME NEW b, NEW accts, NEW c, Consistent(b, accts, c),
         NEW b2, NEW accts2, NEW c2, Consistent(b2, accts2, c2),
         \A side \in Sides :
           TracedTo(b[side], accts, b2[side], accts2, side, DOMAIN b2[side].list)
  PROVE  OpenOrders(accts2) \subseteq OpenOrders(accts)
<1> SUFFICES ASSUME NEW o \in OpenOrders(accts2) PROVE o \in OpenOrders(accts)
  OBVIOUS
<1>1. PICK a \in Traders, side \in Sides :
        \E k \in ActiveKeys(accts2[a], side) : o = OpenOrder(accts2, a, side, k)
  BY OpenOrdersIn
<1>2. PICK k \in ActiveKeys(accts2[a], side) : o = OpenOrder(accts2, a, side, k)
  BY <1>1
<1>3. PICK j \in DOMAIN b2[side].list :
        /\ b2[side].list[j].value.user = a
        /\ IdIn(accts2, side, b2[side].list[j]) = accts2[a].orders[side][k].id
  BY OpenEntry
<1>4. <<b2[side].list[j].value.user, side, IdIn(accts2, side, b2[side].list[j])>>
        \in OpenOrders(accts)
  BY TracedOpen, Zenon
<1> QED
  BY <1>2, <1>3, <1>4 DEF OpenOrder

(* Where all but one entry are, at most one was.                           *)
LEMMA OneNotTraced ==
  ASSUME NEW b, NEW accts, NEW c, Consistent(b, accts, c),
         NEW b2, NEW accts2, NEW c2, Consistent(b2, accts2, c2),
         NEW s \in Sides, NEW p \in DOMAIN b2[s].list,
         TracedTo(b[s], accts, b2[s], accts2, s, DOMAIN b2[s].list \ {p}),
         \A side \in Sides : side # s =>
           TracedTo(b[side], accts, b2[side], accts2, side, DOMAIN b2[side].list)
  PROVE  OpenOrders(accts2) \subseteq OpenOrders(accts) \cup
           {<<b2[s].list[p].value.user, s, IdIn(accts2, s, b2[s].list[p])>>}
<1> SUFFICES ASSUME NEW o \in OpenOrders(accts2),
                    o # <<b2[s].list[p].value.user, s,
                          IdIn(accts2, s, b2[s].list[p])>>
             PROVE  o \in OpenOrders(accts)
  OBVIOUS
<1>1. PICK a \in Traders, side \in Sides :
        \E k \in ActiveKeys(accts2[a], side) : o = OpenOrder(accts2, a, side, k)
  BY OpenOrdersIn
<1>2. PICK k \in ActiveKeys(accts2[a], side) : o = OpenOrder(accts2, a, side, k)
  BY <1>1
<1>3. PICK j \in DOMAIN b2[side].list :
        /\ b2[side].list[j].value.user = a
        /\ IdIn(accts2, side, b2[side].list[j]) = accts2[a].orders[side][k].id
  BY OpenEntry
<1>4. o = <<b2[side].list[j].value.user, side, IdIn(accts2, side, b2[side].list[j])>>
  BY <1>2, <1>3 DEF OpenOrder
<1>5. CASE side = s
  <2>1. j \in DOMAIN b2[s].list \ {p}
    BY <1>4, <1>5
  <2> QED
    BY <1>4, <1>5, <2>1, TracedOpen, Zenon
<1>6. CASE side # s
  BY <1>4, <1>6, TracedOpen, Zenon
<1> QED
  BY <1>5, <1>6

(* An order is closed: its ID is not that of an open order any more.       *)
LEMMA ClosesOpen ==
  ASSUME NEW b, NEW accts, NEW c, Consistent(b, accts, c), NEW side \in Sides,
         NEW u \in Traders, NEW k \in ActiveKeys(accts[u], side),
         NEW m, Closes(accts[u], m, side, k)
  PROVE  OpenOrders([accts EXCEPT ![u] = m])
           = OpenOrders(accts) \ {OpenOrder(accts, u, side, k)}
<1> DEFINE accts2 == [accts EXCEPT ![u] = m]
<1>1. AccountsOK(accts)
  BY DEF Consistent
<1>2. accts2[u] = m /\ \A v \in Traders : v # u => accts2[v] = accts[v]
  BY <1>1 DEF AccountsOK
<1> HIDE DEF accts2
<1>3. /\ ActiveKeys(m, side) = ActiveKeys(accts[u], side) \ {k}
      /\ \A l \in ActiveKeys(m, side) : m.orders[side][l] = accts[u].orders[side][l]
      /\ \A s \in Sides : s # side => m.orders[s] = accts[u].orders[s]
  BY DEF Closes, OtherSideKept
<1>4. \A s \in Sides : s # side => ActiveKeys(m, s) = ActiveKeys(accts[u], s)
  BY <1>3 DEF ActiveKeys
<1>5. ASSUME NEW v \in Traders, NEW s \in Sides
      PROVE  /\ ActiveKeys(accts2[v], s) =
                  IF v = u /\ s = side THEN ActiveKeys(accts[v], s) \ {k}
                                       ELSE ActiveKeys(accts[v], s)
             /\ \A l \in ActiveKeys(accts2[v], s) :
                  OpenOrder(accts2, v, s, l) = OpenOrder(accts, v, s, l)
  <2>1. CASE v = u /\ s = side
    BY <1>2, <1>3, <2>1 DEF OpenOrder
  <2>2. CASE v = u /\ s # side
    BY <1>2, <1>3, <1>4, <2>2 DEF OpenOrder
  <2>3. CASE v # u
    BY <1>2, <2>3 DEF OpenOrder
  <2> QED
    BY <2>1, <2>2, <2>3
<1>6. ASSUME NEW v \in Traders, NEW s \in Sides, NEW l \in ActiveKeys(accts[v], s),
             OpenOrder(accts, v, s, l) = OpenOrder(accts, u, side, k)
      PROVE  v = u /\ s = side /\ l = k
  <2>1. /\ v = u /\ s = side
        /\ accts[v].orders[s][l].id = accts[u].orders[side][k].id
    BY <1>6 DEF OpenOrder
  <2>2. l \in ActiveKeys(accts[v], side)
    BY <2>1
  <2>3. l = k
    BY <2>1, <2>2, OpenIdsDiffer
  <2> QED
    BY <2>1, <2>3
<1>7. ASSUME NEW o \in OpenOrders(accts2)
      PROVE  o \in OpenOrders(accts) /\ o # OpenOrder(accts, u, side, k)
  <2>1. PICK v \in Traders, s \in Sides :
          \E l \in ActiveKeys(accts2[v], s) : o = OpenOrder(accts2, v, s, l)
    BY OpenOrdersIn
  <2>2. PICK l \in ActiveKeys(accts2[v], s) : o = OpenOrder(accts2, v, s, l)
    BY <2>1
  <2>3. /\ l \in ActiveKeys(accts[v], s) /\ o = OpenOrder(accts, v, s, l)
        /\ ~(v = u /\ s = side /\ l = k)
    BY <1>5, <2>2, Zenon
  <2> QED
    BY <1>6, <2>3, OpenOrdersIn
<1>8. ASSUME NEW o \in OpenOrders(accts), o # OpenOrder(accts, u, side, k)
      PROVE  o \in OpenOrders(accts2)
  <2>1. PICK v \in Traders, s \in Sides :
          \E l \in ActiveKeys(accts[v], s) : o = OpenOrder(accts, v, s, l)
    BY OpenOrdersIn
  <2>2. PICK l \in ActiveKeys(accts[v], s) : o = OpenOrder(accts, v, s, l)
    BY <2>1
  <2>3. ~(v = u /\ s = side /\ l = k)
    BY <1>8, <2>2
  <2>4. l \in ActiveKeys(accts2[v], s)
    BY <1>5, <2>3, Zenon
  <2>5. o = OpenOrder(accts2, v, s, l)
    BY <1>5, <2>2, <2>4, Zenon
  <2> QED
    BY <2>4, <2>5, OpenOrdersIn
<1>9. OpenOrders(accts2) = OpenOrders(accts) \ {OpenOrder(accts, u, side, k)}
  BY <1>7, <1>8
<1> QED
  BY <1>9, Zenon DEF accts2

LEMMA CancelsNamed ==
  ASSUME IInv
  PROVE  CancelsNamedOrder
<1> SUFFICES ASSUME NEW a \in Traders, NEW side \in CancelSides,
                    NEW id \in IssuedIds(side), ManualCancel(a, side, id)
             PROVE  /\ <<a, side, id>> \in OpenOrders(acct)
                    /\ OpenOrders(acct') = OpenOrders(acct) \ {<<a, side, id>>}
  BY DEF CancelsNamedOrder
<1>1. side \in Sides
  BY InputAssumption
<1>a. PICK i \in 1..Len(book[side].list) :
        Dropped(side, i) /\ Bears(side, i, a, id)
  BY <1>1, CancelDrops DEF ManualCancel
<1> DEFINE k == book[side].list[i].value.access
<1>2. /\ i \in 1..Len(book[side].list) /\ Dropped(side, i)
      /\ a = book[side].list[i].value.user
      /\ acct[a].orders[side][k].id = id
  BY <1>a, Zenon DEF Bears
<1>3. Consistent(book, acct, counter)
  BY DEF IInv
<1>4. IsQueue(book[side], BookOrders)
  BY <1>1, <1>3, OrderIds
<1>5. i \in DOMAIN book[side].list
  BY <1>2, <1>4, EntryProperties, Zenon
<1>6. k \in ActiveKeys(acct[a], side)
  BY <1>1, <1>2, <1>3, <1>5, OrderIds, Zenon
<1> HIDE DEF k
<1>7. OpenOrder(acct, a, side, k) = <<a, side, id>>
  BY <1>2 DEF OpenOrder
<1>8. <<a, side, id>> \in OpenOrders(acct)
  BY <1>1, <1>6, <1>7, OpenOrdersIn
<1>9. PICK m : Closes(acct[a], m, side, k) /\ acct' = [acct EXCEPT ![a] = m]
  BY <1>2, Zenon DEF Dropped, k
<1>10. OpenOrders([acct EXCEPT ![a] = m])
         = OpenOrders(acct) \ {OpenOrder(acct, a, side, k)}
  <2>1. Closes(acct[a], m, side, k)
    BY <1>9
  <2> QED
    BY <1>1, <1>3, <1>6, <2>1, ClosesOpen
<1>11. OpenOrders(acct') = OpenOrders([acct EXCEPT ![a] = m])
  BY <1>9
<1> QED
  BY <1>7, <1>8, <1>10, <1>11, Zenon

(* At most one element more.                                               *)
LEMMA OneMore ==
  ASSUME NEW S, NEW T, NEW o, S \subseteq T \cup {o}
  PROVE  Cardinality(S \ T) <= 1
<1>1. CASE S \ T = {}
  BY <1>1, FS_EmptySet
<1>2. CASE S \ T = {o}
  <2>1. Cardinality({o}) = 1
    BY FS_Singleton
  <2> QED
    BY <1>2, <2>1
<1> QED
  BY <1>1, <1>2

(* What the market looked like when the transaction began.                 *)
LEMMA CommittedMarket ==
  ASSUME IInv, RanksInv
  PROVE  /\ Consistent(Committed.book, Committed.acct, Committed.counter)
         /\ Committed.counter \in Nat /\ Committed.counter <= counter
         /\ OpenOrders(acct) \subseteq OpenOrders(Committed.acct)
<1>1. Consistent(book, acct, counter) /\ counter \in Nat
  BY DEF IInv, Consistent
<1>2. CASE Idle
  <2>1. /\ Committed.book = book /\ Committed.acct = acct
        /\ Committed.counter = counter
    BY <1>2 DEF Committed, State
  <2> QED
    BY <1>1, <2>1
<1>3. CASE ~Idle
  <2>1. Committed = saved
    BY <1>3 DEF Committed
  <2>2. Consistent(saved.book, saved.acct, saved.counter)
    BY <1>3 DEF IInv, SavedOK, Idle
  <2>3. saved.counter \in Nat /\ saved.counter <= counter
    BY <1>3 DEF RanksInv
  <2>4. \A side \in Sides :
          TracedTo(saved.book[side], saved.acct, book[side], acct, side,
                   DOMAIN book[side].list)
    BY <1>3, FromTraced DEF RanksInv
  <2>5. OpenOrders(acct) \subseteq OpenOrders(saved.acct)
    BY <1>1, <2>2, <2>4, AllTraced
  <2> QED
    BY <2>1, <2>2, <2>3, <2>5
<1> QED
  BY <1>2, <1>3

(* A transaction that has not ended has not taken effect, and many others  *)
(* open no order.                                                          *)
LEMMA NoneIssued ==
  ASSUME NEW accts, NEW c \in Nat, NEW accts2, NEW c2 \in Nat,
         Committed.acct = accts, Committed.counter = c,
         Committed'.acct = accts2, Committed'.counter = c2, c <= c2,
         OpenOrders(accts2) \subseteq OpenOrders(accts)
  PROVE  IssuesFreshId
<1> DEFINE before == OpenOrders(Committed.acct)
           after  == OpenOrders(Committed'.acct)
<1>1. after \subseteq before
  OBVIOUS
<1> HIDE DEF before, after
<1>2. after \ before = {}
  BY <1>1
<1>3. Cardinality(after \ before) <= 1
  BY <1>2, FS_EmptySet
<1>4. Committed'.counter >= Committed.counter
  OBVIOUS
<1> QED
  BY <1>2, <1>3, <1>4 DEF IssuesFreshId, before, after

(* What one that has ended must do to issue no ID twice.                   *)
LEMMA OneIssued ==
  ASSUME NEW accts, NEW c \in Nat, NEW accts2, NEW c2 \in Nat, NEW o,
         Committed.acct = accts, Committed.counter = c,
         Committed'.acct = accts2, Committed'.counter = c2, c <= c2,
         OpenOrders(accts2) \subseteq OpenOrders(accts) \cup {o},
         o \in OpenOrders(accts) \/ o[3].counter > c
  PROVE  IssuesFreshId
<1> DEFINE before == OpenOrders(Committed.acct)
           after  == OpenOrders(Committed'.acct)
<1>1. before = OpenOrders(accts) /\ after = OpenOrders(accts2)
  OBVIOUS
<1>2. after \subseteq before \cup {o} /\ (o \in before \/ o[3].counter > c)
  BY <1>1
<1> HIDE DEF before, after
<1>3. Cardinality(after \ before) <= 1
  BY <1>2, OneMore, Zenon
<1>4. \A x \in after \ before : x[3].counter > Committed.counter
  BY <1>2
<1>5. Committed'.counter >= Committed.counter
  OBVIOUS
<1> QED
  BY <1>3, <1>4, <1>5 DEF IssuesFreshId, before, after

LEMMA NextIssues ==
  ASSUME IInv, RanksInv, [Next]_vars
  PROVE  IssuesFreshId
<1> DEFINE accts == Committed.acct
           c == Committed.counter
<1>1. /\ Consistent(book, acct, counter) /\ Consistent(book', acct', counter')
      /\ counter \in Nat /\ counter' \in Nat
  BY NextIInv DEF IInv, Consistent
<1>2. /\ c \in Nat /\ c <= counter /\ OpenOrders(acct) \subseteq OpenOrders(accts)
  BY CommittedMarket
<1>3. CASE ~Idle'
  <2>1. Committed' = saved'
    BY <1>3 DEF Committed
  <2>2. CASE Idle
    <3>1. Committed = State /\ saved' = State
      BY <1>3, <2>2, SavedStep DEF Committed
    <3>2. Committed'.acct = accts /\ Committed'.counter = c
      BY <2>1, <3>1
    <3> QED
      BY <1>2, <3>2, NoneIssued
  <2>3. CASE ~Idle
    <3>1. Committed = saved /\ saved' = saved
      BY <1>3, <2>3, SavedStep DEF Committed
    <3>2. Committed'.acct = accts /\ Committed'.counter = c
      BY <2>1, <3>1
    <3> QED
      BY <1>2, <3>2, NoneIssued
  <2> QED
    BY <2>2, <2>3
<1>4. CASE Rollback
  <2>1. ~Idle /\ Idle'
    BY <1>4, EndIdle DEF Rollback, Aborts, Matching, Settling, Cancelling, Idle
  <2>2. Committed'.acct = acct' /\ Committed'.counter = counter'
    BY <2>1 DEF Committed, State
  <2>3. accts = saved.acct /\ c = saved.counter
    BY <2>1 DEF Committed
  <2>4. Committed'.acct = accts /\ Committed'.counter = c
    BY <1>4, <2>2, <2>3 DEF Rollback
  <2> QED
    BY <1>2, <2>4, NoneIssued
<1>5. CASE ~Rollback /\ Idle'
  <2>1. Committed'.acct = acct' /\ Committed'.counter = counter'
    BY <1>5 DEF Committed, State
  <2>2. counter <= counter'
    BY <1>5, CounterStep
  <2> DEFINE b2 == book'
             a2 == acct'
             c2 == counter'
  <2>3. /\ Committed'.acct = a2 /\ Committed'.counter = c2 /\ c <= c2
        /\ c2 \in Nat /\ Consistent(b2, a2, c2)
    BY <1>1, <1>2, <2>1, <2>2
  <2>4. ASSUME \A side \in Sides :
                 TracedTo(book[side], acct, b2[side], a2, side, DOMAIN b2[side].list)
        PROVE  IssuesFreshId
    <3> HIDE DEF b2, a2, c2
    <3>1. OpenOrders(a2) \subseteq OpenOrders(acct)
      BY <1>1, <2>3, <2>4, AllTraced
    <3>2. OpenOrders(a2) \subseteq OpenOrders(accts)
      BY <1>2, <3>1
    <3> QED
      BY <1>2, <2>3, <3>2, NoneIssued
  <2>5. CASE \A s \in Sides : KeptOn(s)
    <3>1. \A side \in Sides :
            TracedTo(book[side], acct, b2[side], a2, side, DOMAIN b2[side].list)
      BY <2>5, KeptFrom, FromTraced DEF KeptOn
    <3> QED
      BY <2>4, <3>1
  <2>6. CASE \E side \in Sides : /\ MovedOn(side)
                                 /\ \A s \in Sides : s # side => KeptOn(s)
    <3>1. \A side \in Sides :
            TracedTo(book[side], acct, b2[side], a2, side, DOMAIN b2[side].list)
      BY <2>6, KeptFrom, FromTraced, MovedTraced DEF KeptOn, MovedOn
    <3> QED
      BY <2>4, <3>1
  <2>7. ASSUME NEW side \in Sides, JoinedOn(side),
               IF Idle THEN counter' = NextCounter
                       ELSE IsMatch(tx) /\ counter' = counter,
               \A s \in Sides : s # side => KeptOn(s)
        PROVE  IssuesFreshId
    <3>1. c2 > c
      BY <2>7, JoinedCounter
    <3>2. Joined(book[side], acct, b2[side], a2, side, c2)
      BY <2>7 DEF JoinedOn
    <3>3. \A s \in Sides : s # side =>
            TracedTo(book[s], acct, b2[s], a2, s, DOMAIN b2[s].list)
      BY <2>7, KeptFrom, FromTraced DEF KeptOn
    <3> HIDE DEF b2, a2, c2
    <3>4. PICK p \in DOMAIN b2[side].list :
            /\ TracedTo(book[side], acct, b2[side], a2, side,
                        DOMAIN b2[side].list \ {p})
            /\ IdIn(a2, side, b2[side].list[p]).counter = c2
      BY <3>2, JoinedTraced
    <3> DEFINE o == <<b2[side].list[p].value.user, side,
                      IdIn(a2, side, b2[side].list[p])>>
    <3>5. OpenOrders(a2) \subseteq OpenOrders(acct) \cup {o}
      BY <1>1, <2>3, <3>3, <3>4, OneNotTraced, Zenon
    <3>6. o[3].counter > c
      BY <3>1, <3>4
    <3> HIDE DEF o
    <3>7. OpenOrders(a2) \subseteq OpenOrders(accts) \cup {o}
      BY <1>2, <3>5
    <3> QED
      BY <1>2, <2>3, <3>6, <3>7, OneIssued
  <2> QED
    BY <1>5, <2>5, <2>6, <2>7, StepKinds
<1> QED
  BY <1>3, <1>4, <1>5

(* An ID is issued once, under a number that was never given out, and a    *)
(* cancel takes away the order that bears the ID and no other, whatever    *)
(* list nodes and access keys have been used again (order IDs, market.move *)
(* and user.move).                                                         *)
THEOREM OrderIdsKept == Spec => StaleIdsHitNothing
<1>1. IInv /\ RanksInv /\ [Next]_vars => [IssuesFreshId /\ CancelsNamedOrder]_vars
  BY NextIssues, CancelsNamed
<1> QED
  BY <1>1, InitRanks, NextRanks, Invariance, PTL DEF Spec, StaleIdsHitNothing
=============================================================================
