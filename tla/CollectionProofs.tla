-------------------------- MODULE CollectionProofs --------------------------
(***************************************************************************)
(* Sums over finite sets: the sum of the empty set, of a set with one more *)
(* element, and of a function that changes at one point.  MapThenSumSet is *)
(* a recursive function on subsets.  And sequences: those that list a set  *)
(* in an order, which is all that there is to know of them, one after      *)
(* another and with one element more or less.  The lemmas go by a smallest *)
(* counterexample, as natural numbers are well founded.                    *)
(***************************************************************************)
EXTENDS Integers, SequencesExt, FiniteSetTheorems, SequenceTheorems,
        WellFoundedInduction, TLAPS

(* The element of a set that the recursion takes away first.               *)
Pick(s) == CHOOSE x \in s : TRUE

(* One step of the recursion, and functions that follow it.                *)
SumTerm(f, g, s) == IF s = {} THEN 0 ELSE f[Pick(s)] + g[s \ {Pick(s)}]
IsSum(g, f, S)   == g = [s \in SUBSET S |-> SumTerm(f, g, s)]

(* The sum of the values of a function on a set.                           *)
Total(f, S) == MapThenSumSet(LAMBDA x : f[x], S)

(* The element picked is one of the set.                                   *)
LEMMA PickIn ==
  ASSUME NEW s, s # {}
  PROVE  Pick(s) \in s
BY DEF Pick

(* A non-empty set of natural numbers has a least element.                 *)
LEMMA Least ==
  ASSUME NEW N \in SUBSET Nat, N # {}
  PROVE  \E n \in N : \A m \in N : n <= m
<1>1. \E n \in N : \A m \in N : ~(<<m, n>> \in OpToRel(<, Nat))
  BY NatLessThanWellFounded, WFMin, Zenon
<1>2. PICK n \in N : \A m \in N : ~(<<m, n>> \in OpToRel(<, Nat))
  BY <1>1, Zenon
<1>3. ASSUME NEW m \in N
      PROVE  n <= m
  <2>1. m \in Nat /\ n \in Nat
    OBVIOUS
  <2>2. <<m, n>> \in OpToRel(<, Nat) <=> m < n
    BY <2>1 DEF OpToRel
  <2>3. ~(m < n)
    BY <1>2, <2>2, Zenon
  <2> QED
    BY <2>1, <2>3
<1> QED
  BY <1>3

(* Of the sets in B one has no strict subset in B.                         *)
LEMMA Smallest ==
  ASSUME NEW S, IsFiniteSet(S), NEW B \in SUBSET SUBSET S, B # {}
  PROVE  \E s \in B : \A t \in B : t \subseteq s => t = s
<1> DEFINE N == {Cardinality(s) : s \in B}
<1>1. \A s \in B : IsFiniteSet(s) /\ Cardinality(s) \in Nat
  BY FS_Subset, FS_CardinalityType
<1>2. PICK n \in N : \A m \in N : n <= m
  <2>1. N \in SUBSET Nat /\ N # {}
    BY <1>1
  <2> HIDE DEF N
  <2> QED
    BY <2>1, Least
<1>3. PICK s \in B : Cardinality(s) = n
  OBVIOUS
<1>4. ASSUME NEW t \in B, t \subseteq s
      PROVE  t = s
  <2>1. IsFiniteSet(s) /\ t \in SUBSET s /\ Cardinality(s) \in Nat /\ Cardinality(t) \in Nat
    BY <1>1, <1>4
  <2>2. /\ Cardinality(t) <= Cardinality(s)
        /\ Cardinality(s) = Cardinality(t) => s = t
    BY <2>1, FS_Subset
  <2>3. Cardinality(s) <= Cardinality(t)
    BY <1>2, <1>3
  <2> QED
    BY <2>1, <2>2, <2>3
<1> QED
  BY <1>4

(* The recursion has a solution on the subsets of up to n elements, ...    *)
UpTo(S, n) == {s \in SUBSET S : Cardinality(s) <= n}
HasSum(f, S, n) == \E g : g = [s \in UpTo(S, n) |-> SumTerm(f, g, s)]

(* A finite set has a sum, by its size.                                    *)
LEMMA SumUpTo ==
  ASSUME NEW S, IsFiniteSet(S), NEW f, NEW n \in Nat
  PROVE  HasSum(f, S, n)
<1> DEFINE N == {m \in Nat : ~HasSum(f, S, m)}
<1> SUFFICES ASSUME N # {} PROVE FALSE
  OBVIOUS
<1>1. PICK k \in N : \A m \in N : k <= m
  BY Least, Zenon
<1>2. \A s \in SUBSET S : IsFiniteSet(s) /\ Cardinality(s) \in Nat
  BY FS_Subset, FS_CardinalityType
<1>3. k # 0
  <2> DEFINE g == [s \in UpTo(S, 0) |-> 0]
  <2>1. \A s \in UpTo(S, 0) : s = {}
    BY <1>2, FS_EmptySet DEF UpTo
  <2>2. g = [s \in UpTo(S, 0) |-> SumTerm(f, g, s)]
    BY <2>1 DEF SumTerm
  <2>3. HasSum(f, S, 0)
    BY <2>2 DEF HasSum
  <2> QED
    BY <2>3
<1> DEFINE j == k - 1
<1>4. j \in Nat /\ k = j + 1 /\ ~(k <= j)
  BY <1>3
<1>5. HasSum(f, S, j)
  BY <1>1, <1>4
<1> HIDE DEF j
<1>6. PICK g : g = [s \in UpTo(S, j) |-> SumTerm(f, g, s)]
  BY <1>5 DEF HasSum
<1> DEFINE h == [s \in UpTo(S, k) |-> SumTerm(f, g, s)]
<1>7. \A s \in UpTo(S, j) : s \in UpTo(S, k)
  BY <1>2, <1>4 DEF UpTo
<1>8. \A s \in UpTo(S, j) : h[s] = g[s]
  BY <1>6, <1>7
<1>9. ASSUME NEW s \in UpTo(S, k), s # {}
      PROVE  s \ {Pick(s)} \in UpTo(S, j)
  <2>1. Pick(s) \in s
    BY <1>9, PickIn
  <2>2. IsFiniteSet(s) /\ Cardinality(s) \in Nat /\ Cardinality(s) <= k
    BY <1>2 DEF UpTo
  <2> DEFINE t == s \ {Pick(s)}
  <2>3. Cardinality(t) = Cardinality(s) - 1
    BY <2>1, <2>2, FS_RemoveElement, Zenon
  <2>4. Cardinality(t) <= j
    BY <1>4, <2>2, <2>3
  <2>5. t \in SUBSET S
    BY DEF UpTo
  <2> QED
    BY <2>4, <2>5 DEF UpTo
<1>10. \A s \in UpTo(S, k) : SumTerm(f, h, s) = SumTerm(f, g, s)
  <2> SUFFICES ASSUME NEW s \in UpTo(S, k) PROVE SumTerm(f, h, s) = SumTerm(f, g, s)
    OBVIOUS
  <2>1. s # {} => h[s \ {Pick(s)}] = g[s \ {Pick(s)}]
    BY <1>8, <1>9
  <2> HIDE DEF h
  <2> QED
    BY <2>1 DEF SumTerm
<1>11. h = [s \in UpTo(S, k) |-> SumTerm(f, h, s)]
  BY <1>10
<1>12. HasSum(f, S, k)
  BY <1>11, Zenon DEF HasSum
<1> QED
  BY <1>12

(* ... and so on all subsets.                                              *)
LEMMA SumExists ==
  ASSUME NEW S, IsFiniteSet(S), NEW f
  PROVE  \E g : IsSum(g, f, S)
<1>1. Cardinality(S) \in Nat
  BY FS_CardinalityType
<1>2. UpTo(S, Cardinality(S)) = SUBSET S
  BY FS_Subset DEF UpTo
<1>3. HasSum(f, S, Cardinality(S))
  BY <1>1, SumUpTo
<1> QED
  BY <1>2, <1>3 DEF HasSum, IsSum

(* The sum of a set, as a solution of the recursion.                       *)
LEMMA TotalIsSum ==
  ASSUME NEW S, IsFiniteSet(S), NEW f
  PROVE  \E g : IsSum(g, f, S) /\ Total(f, S) = g[S]
<1> DEFINE h == CHOOSE g : IsSum(g, f, S)
<1>1. IsSum(h, f, S)
  BY SumExists
<1>2. Total(f, S) = h[S]
  BY DEF Total, MapThenSumSet, MapThenFoldSet, IsSum, SumTerm, Pick
<1> QED
  BY <1>1, <1>2, Zenon

(* Solutions agree where the functions that are summed do.                 *)
LEMMA SumAgrees ==
  ASSUME NEW S, IsFiniteSet(S), NEW S1, NEW S2, S \subseteq S1, S \subseteq S2,
         NEW f1, NEW f2, \A x \in S : f1[x] = f2[x],
         NEW g1, NEW g2, IsSum(g1, f1, S1), IsSum(g2, f2, S2)
  PROVE  g1[S] = g2[S]
<1> DEFINE B == {s \in SUBSET S : g1[s] # g2[s]}
<1> SUFFICES ASSUME B # {} PROVE FALSE
  OBVIOUS
<1>1. PICK s \in B : \A t \in B : t \subseteq s => t = s
  <2>1. B \in SUBSET SUBSET S
    OBVIOUS
  <2> HIDE DEF B
  <2> QED
    BY <2>1, Smallest
<1>2. s \in SUBSET S /\ s \in SUBSET S1 /\ s \in SUBSET S2
  OBVIOUS
<1>3. g1[s] = SumTerm(f1, g1, s) /\ g2[s] = SumTerm(f2, g2, s)
  BY <1>2 DEF IsSum
<1>4. CASE s = {}
  BY <1>3, <1>4 DEF SumTerm
<1>5. CASE s # {}
  <2> DEFINE t == s \ {Pick(s)}
  <2>1. Pick(s) \in s
    BY <1>5, PickIn
  <2>2. t \subseteq s /\ t # s /\ t \in SUBSET S
    BY <1>2, <2>1
  <2>3. g1[t] = g2[t]
    BY <1>1, <2>2
  <2>4. f1[Pick(s)] = f2[Pick(s)]
    BY <1>2, <2>1
  <2> QED
    BY <1>3, <1>5, <2>3, <2>4 DEF SumTerm
<1> QED
  BY <1>4, <1>5

(* A solution is a number, and grows with one more element by its value.   *)
LEMMA SumType ==
  ASSUME NEW S, IsFiniteSet(S), NEW f, \A x \in S : f[x] \in Int,
         NEW g, IsSum(g, f, S), NEW T \in SUBSET S
  PROVE  g[T] \in Int
<1> DEFINE B == {s \in SUBSET S : g[s] \notin Int}
<1> SUFFICES ASSUME B # {} PROVE FALSE
  OBVIOUS
<1>1. PICK s \in B : \A t \in B : t \subseteq s => t = s
  <2>1. B \in SUBSET SUBSET S
    OBVIOUS
  <2> HIDE DEF B
  <2> QED
    BY <2>1, Smallest
<1>2. s \in SUBSET S /\ g[s] = SumTerm(f, g, s) /\ g[s] \notin Int
  BY DEF IsSum
<1>3. CASE s = {}
  BY <1>2, <1>3 DEF SumTerm
<1>4. CASE s # {}
  <2> DEFINE t == s \ {Pick(s)}
  <2>1. Pick(s) \in s /\ f[Pick(s)] \in Int
    BY <1>2, <1>4, PickIn
  <2>2. g[t] \in Int
    BY <1>1, <1>2, <2>1
  <2> HIDE DEF t
  <2>3. g[s] = f[Pick(s)] + g[t]
    BY <1>2, <1>4 DEF SumTerm, t
  <2> QED
    BY <1>2, <2>1, <2>2, <2>3
<1> QED
  BY <1>3, <1>4

(* A sum grows by the value of an element that is added.                   *)
LEMMA SumGrows ==
  ASSUME NEW S, IsFiniteSet(S), NEW f, \A x \in S : f[x] \in Int,
         NEW g, IsSum(g, f, S), NEW T \in SUBSET S, NEW x \in S \ T
  PROVE  g[T \cup {x}] = g[T] + f[x]
<1> DEFINE Grows(s, y) == g[s \cup {y}] = g[s] + f[y]
           B == {s \in SUBSET S : \E y \in S \ s : ~Grows(s, y)}
<1> SUFFICES ASSUME B # {} PROVE FALSE
  <2>1. T \in SUBSET S /\ x \in S \ T
    OBVIOUS
  <2>2. T \in B \/ Grows(T, x)
    BY <2>1, Zenon
  <2> QED
    BY <2>2
<1>0. \A s \in SUBSET S : g[s] \in Int /\ g[s] = SumTerm(f, g, s)
  BY SumType DEF IsSum
<1>1. PICK s \in B : \A t \in B : t \subseteq s => t = s
  <2>1. B \in SUBSET SUBSET S
    OBVIOUS
  <2> HIDE DEF B
  <2> QED
    BY <2>1, Smallest
<1>2. PICK y \in S \ s : ~Grows(s, y)
  OBVIOUS
<1> DEFINE u == s \cup {y}
           p == Pick(u)
           t == s \ {p}
<1>3. s \in SUBSET S /\ y \notin s /\ y \in S /\ u \in SUBSET S /\ t \in SUBSET S
  OBVIOUS
<1>4. p \in u
  BY PickIn, Zenon
<1>5. g[u] = f[p] + g[u \ {p}]
  <2>1. g[u] = SumTerm(f, g, u) /\ u # {}
    BY <1>0, <1>3
  <2> HIDE DEF u
  <2> QED
    BY <2>1 DEF SumTerm
<1>6. f[y] \in Int /\ f[p] \in Int /\ g[s] \in Int /\ g[t] \in Int
  BY <1>0, <1>3, <1>4, Zenon
<1>7. CASE p = y
  <2>1. u \ {p} = s
    BY <1>3, <1>7, Zenon
  <2>2. g[u] = f[y] + g[s]
    BY <1>5, <1>7, <2>1, Zenon
  <2>3. g[u] = g[s] + f[y]
    BY <1>6, <2>2
  <2> QED
    BY <1>2, <2>3
<1>8. CASE p # y
  <2>1. /\ p \in s /\ t \subseteq s /\ t # s /\ p \in S \ t /\ y \in S \ t
        /\ u \ {p} = t \cup {y} /\ s = t \cup {p}
    BY <1>3, <1>4, <1>8, Zenon
  <2>2. Grows(t, y) /\ Grows(t, p)
    <3>1. t \notin B
      BY <1>1, <2>1, Zenon
    <3> QED
      BY <1>3, <2>1, <3>1, Zenon
  <2>3. g[u] = f[p] + (g[t] + f[y]) /\ g[s] = g[t] + f[p]
    BY <1>5, <2>1, <2>2, Zenon
  <2>4. g[u] = g[s] + f[y]
    <3> DEFINE a == g[t]
               b == g[s]
               c == g[u]
               d == f[p]
               e == f[y]
    <3>1. a \in Int /\ d \in Int /\ e \in Int /\ c = d + (a + e) /\ b = a + d
      BY <1>6, <2>3
    <3> HIDE DEF a, b, c, d, e
    <3>2. c = b + e
      BY <3>1
    <3> QED
      BY <3>2 DEF b, c, e
  <2> QED
    BY <1>2, <2>4
<1> QED
  BY <1>7, <1>8

-----------------------------------------------------------------------------
(* What proofs about sums cite.                                            *)

(* Nothing adds up to zero.                                                *)
LEMMA TotalEmpty ==
  ASSUME NEW f
  PROVE  Total(f, {}) = 0
<1>1. IsFiniteSet({})
  BY FS_EmptySet
<1>2. PICK g : IsSum(g, f, {}) /\ Total(f, {}) = g[{}]
  BY <1>1, TotalIsSum
<1>3. g[{}] = SumTerm(f, g, {})
  BY <1>2 DEF IsSum
<1> QED
  BY <1>2, <1>3 DEF SumTerm

(* A sum of integers is one.                                               *)
LEMMA TotalType ==
  ASSUME NEW S, IsFiniteSet(S), NEW f, \A x \in S : f[x] \in Int
  PROVE  Total(f, S) \in Int
<1>1. PICK g : IsSum(g, f, S) /\ Total(f, S) = g[S]
  BY TotalIsSum
<1> QED
  BY <1>1, SumType

(* Equal values have the same sum.                                         *)
LEMMA TotalSame ==
  ASSUME NEW S, IsFiniteSet(S), NEW f1, NEW f2, \A x \in S : f1[x] = f2[x]
  PROVE  Total(f1, S) = Total(f2, S)
<1>1. PICK g1 : IsSum(g1, f1, S) /\ Total(f1, S) = g1[S]
  BY TotalIsSum
<1>2. PICK g2 : IsSum(g2, f2, S) /\ Total(f2, S) = g2[S]
  BY TotalIsSum
<1>3. g1[S] = g2[S]
  BY <1>1, <1>2, SumAgrees
<1> QED
  BY <1>1, <1>2, <1>3

(* One more element.                                                       *)
LEMMA TotalAdd ==
  ASSUME NEW S, IsFiniteSet(S), NEW x, x \notin S, NEW f,
         \A y \in S \cup {x} : f[y] \in Int
  PROVE  Total(f, S \cup {x}) = Total(f, S) + f[x]
<1> DEFINE R == S \cup {x}
<1>1. IsFiniteSet(R) /\ S \in SUBSET R /\ x \in R \ S
  BY FS_AddElement
<1> HIDE DEF R
<1>2. PICK g : IsSum(g, f, R) /\ Total(f, R) = g[R]
  BY <1>1, TotalIsSum
<1>3. PICK h : IsSum(h, f, S) /\ Total(f, S) = h[S]
  BY TotalIsSum
<1>4. h[S] = g[S]
  BY <1>1, <1>2, <1>3, SumAgrees
<1>5. g[S \cup {x}] = g[S] + f[x]
  BY <1>1, <1>2, SumGrows DEF R
<1> QED
  BY <1>2, <1>3, <1>4, <1>5 DEF R

(* One element less.                                                       *)
LEMMA TotalRemove ==
  ASSUME NEW S, IsFiniteSet(S), NEW x \in S, NEW f, \A y \in S : f[y] \in Int
  PROVE  Total(f, S) = Total(f, S \ {x}) + f[x]
<1> DEFINE T == S \ {x}
<1>1. IsFiniteSet(T) /\ x \notin T /\ T \cup {x} = S
  BY FS_RemoveElement
<1> HIDE DEF T
<1>2. \A y \in T \cup {x} : f[y] \in Int
  BY <1>1
<1>3. Total(f, T \cup {x}) = Total(f, T) + f[x]
  BY <1>1, <1>2, TotalAdd, Zenon
<1> QED
  BY <1>1, <1>3 DEF T

(* One value changes.                                                      *)
LEMMA TotalChange ==
  ASSUME NEW S, IsFiniteSet(S), NEW x \in S, NEW f1, NEW f2,
         \A y \in S : f1[y] \in Int /\ f2[y] \in Int,
         \A y \in S \ {x} : f2[y] = f1[y]
  PROVE  Total(f2, S) = Total(f1, S) + (f2[x] - f1[x])
<1> DEFINE T == S \ {x}
           a == Total(f1, S)
           b == Total(f2, S)
           c == Total(f1, T)
           d == Total(f2, T)
           e1 == f1[x]
           e2 == f2[x]
<1>1. IsFiniteSet(T)
  BY FS_RemoveElement
<1>2. a = c + e1 /\ b = d + e2
  BY TotalRemove
<1>3. d = c
  BY <1>1, TotalSame
<1>4. c \in Int /\ e1 \in Int /\ e2 \in Int
  BY <1>1, TotalType
<1> HIDE DEF a, b, c, d, e1, e2
<1>5. b = a + (e2 - e1)
  BY <1>2, <1>3, <1>4
<1> QED
  BY <1>5 DEF a, b, e1, e2

(* Equal values add up to their product with the number of elements.       *)
LEMMA TotalConstant ==
  ASSUME NEW S, IsFiniteSet(S), NEW c \in Int, NEW f, \A x \in S : f[x] = c
  PROVE  Total(f, S) = Cardinality(S) * c
<1> DEFINE B == {T \in SUBSET S : Total(f, T) # Cardinality(T) * c}
<1>1. ASSUME B # {} PROVE FALSE
  <2>1. B \in SUBSET SUBSET S
    OBVIOUS
  <2> HIDE DEF B
  <2>2. PICK T \in B : \A t \in B : t \subseteq T => t = T
    BY <1>1, <2>1, Smallest
  <2>3. /\ T \subseteq S /\ IsFiniteSet(T) /\ Total(f, T) # Cardinality(T) * c
        /\ Cardinality(T) \in Nat
    BY <2>1, FS_Subset, FS_CardinalityType DEF B
  <2>4. CASE T = {}
    <3>1. Total(f, T) = 0 /\ Cardinality(T) = 0
      BY <2>4, TotalEmpty, FS_EmptySet
    <3>2. 0 * c = 0
      OBVIOUS
    <3> QED
      BY <2>3, <3>1, <3>2
  <2>5. CASE T # {}
    <3>1. PICK x \in T : TRUE
      BY <2>5
    <3> DEFINE R == T \ {x}
               n == Cardinality(R)
    <3>2. /\ IsFiniteSet(R) /\ n = Cardinality(T) - 1 /\ n \in Nat
      BY <2>3, <3>1, FS_RemoveElement, FS_CardinalityType
    <3>3. R \notin B /\ R \in SUBSET S
      BY <2>2, <2>3, <3>1
    <3>4. Total(f, R) = n * c
      BY <3>3 DEF B
    <3>5. \A y \in T : f[y] \in Int
      BY <2>3
    <3>6. Total(f, T) = Total(f, R) + f[x]
      BY <2>3, <3>1, <3>5, TotalRemove
    <3>7. f[x] = c
      BY <2>3, <3>1
    <3> HIDE DEF n, R
    <3>8. Cardinality(T) = n + 1
      BY <2>3, <3>2
    <3>9. (n + 1) * c = n * c + c
      BY <3>2
    <3> QED
      BY <2>3, <3>4, <3>6, <3>7, <3>8, <3>9
  <2> QED
    BY <2>4, <2>5
<1> QED
  BY <1>1

-----------------------------------------------------------------------------
(* Sequences in an order.                                                  *)

(* s lists the elements of S, each before those it is related to.          *)
Ranked(R, s, S) ==
  /\ s \in Seq(S)
  /\ \A i, j \in 1..Len(s) : i < j => <<s[i], s[j]>> \in R
  /\ \A x \in S : \E i \in 1..Len(s) : s[i] = x

OneWay(R, S) == \A x, y \in S : <<x, y>> \in R => <<y, x>> \notin R

(* Each element is in it once.                                             *)
LEMMA RankedOnce ==
  ASSUME NEW R, NEW S, OneWay(R, S), NEW s, Ranked(R, s, S)
  PROVE  \A i, j \in 1..Len(s) : s[i] = s[j] => i = j
<1> SUFFICES ASSUME NEW i \in 1..Len(s), NEW j \in 1..Len(s), s[i] = s[j], i # j
             PROVE  FALSE
  OBVIOUS
<1>1. s[i] \in S /\ s[j] \in S /\ Len(s) \in Nat
  BY ElementOfSeq, LenProperties DEF Ranked
<1>2. <<s[i], s[j]>> \in R \/ <<s[j], s[i]>> \in R
  BY <1>1 DEF Ranked
<1> QED
  BY <1>1, <1>2 DEF OneWay

(* Where two such sequences agree up to an index, they agree at the index. *)
LEMMA RankedNext ==
  ASSUME NEW R, NEW S, OneWay(R, S), NEW s, Ranked(R, s, S), NEW t, Ranked(R, t, S),
         NEW k \in Nat, k \in 1..Len(s), \A i \in 1..k - 1 : i <= Len(t) /\ t[i] = s[i]
  PROVE  k <= Len(t) /\ t[k] = s[k]
<1>1. /\ s \in Seq(S) /\ t \in Seq(S) /\ Len(s) \in Nat /\ Len(t) \in Nat
      /\ \A i \in 1..Len(s) : s[i] \in S
      /\ \A i \in 1..Len(t) : t[i] \in S
  BY ElementOfSeq, LenProperties DEF Ranked
<1>2. PICK m \in 1..Len(t) : t[m] = s[k]
  BY <1>1 DEF Ranked
<1>3. ~(m < k)
  <2> SUFFICES ASSUME m < k PROVE FALSE
    OBVIOUS
  <2>1. m \in 1..k - 1 /\ m \in 1..Len(s)
    BY <1>1
  <2>2. s[m] = s[k]
    BY <1>2, <2>1
  <2> QED
    BY <2>1, <2>2, RankedOnce
<1>4. k \in 1..Len(t)
  BY <1>1, <1>3
<1>5. ~(k < m)
  <2> SUFFICES ASSUME k < m PROVE FALSE
    OBVIOUS
  <2>1. <<t[k], t[m]>> \in R
    BY <1>4 DEF Ranked
  <2>2. t[k] \in S
    BY <1>1, <1>4
  <2>3. PICK n \in 1..Len(s) : s[n] = t[k]
    BY <2>2 DEF Ranked
  <2>4. ~(n < k)
    <3> SUFFICES ASSUME n < k PROVE FALSE
      OBVIOUS
    <3>1. n \in 1..k - 1 /\ n \in 1..Len(t)
      BY <1>1, <1>4
    <3>2. t[n] = t[k]
      BY <2>3, <3>1
    <3> QED
      BY <1>4, <3>1, <3>2, RankedOnce
  <2>5. n # k
    BY <1>1, <1>2, <1>4, <2>1, <2>3 DEF OneWay
  <2>6. <<s[k], s[n]>> \in R
    <3>1. k < n
      BY <1>1, <2>4, <2>5
    <3> QED
      BY <3>1 DEF Ranked
  <2> QED
    BY <1>1, <1>2, <2>1, <2>2, <2>3, <2>6 DEF OneWay
<1> QED
  BY <1>1, <1>2, <1>3, <1>4, <1>5

(* They agree wherever the first has an element.                           *)
LEMMA RankedAgree ==
  ASSUME NEW R, NEW S, OneWay(R, S), NEW s, Ranked(R, s, S), NEW t, Ranked(R, t, S)
  PROVE  \A i \in 1..Len(s) : i <= Len(t) /\ t[i] = s[i]
<1> DEFINE N == {i \in 1..Len(s) : ~(i <= Len(t) /\ t[i] = s[i])}
<1>1. N \in SUBSET Nat
  OBVIOUS
<1>2. N = {}
  <2> SUFFICES ASSUME N # {} PROVE FALSE
    OBVIOUS
  <2>1. PICK k \in N : \A i \in N : k <= i
    <3> HIDE DEF N
    <3> QED
      BY <1>1, Least
  <2>2. Len(s) \in Nat
    BY LenProperties DEF Ranked
  <2>3. \A i \in 1..k - 1 : i <= Len(t) /\ t[i] = s[i]
    BY <2>1, <2>2
  <2> QED
    BY <2>1, <2>3, RankedNext
<1> QED
  BY <1>2

(* There is one such sequence at most.                                     *)
LEMMA RankedUnique ==
  ASSUME NEW R, NEW S, OneWay(R, S), NEW s, Ranked(R, s, S), NEW t, Ranked(R, t, S)
  PROVE  s = t
<1>1. s \in Seq(S) /\ t \in Seq(S) /\ Len(s) \in Nat /\ Len(t) \in Nat
  BY LenProperties DEF Ranked
<1>2. \A i \in 1..Len(s) : i <= Len(t) /\ t[i] = s[i]
  BY RankedAgree
<1>3. \A i \in 1..Len(t) : i <= Len(s) /\ s[i] = t[i]
  BY RankedAgree
<1>4. Len(s) = Len(t)
  BY ONLY <1>1, <1>2, <1>3
<1> QED
  BY <1>1, <1>2, <1>4, SeqEqual

(* No element, and one.                                                    *)
LEMMA RankedFew ==
  ASSUME NEW R
  PROVE  Ranked(R, << >>, {}) /\ \A x : Ranked(R, <<x>>, {x})
<1> QED
  BY DEF Ranked

(* One such sequence after another.                                        *)
LEMMA RankedConcat ==
  ASSUME NEW R, NEW S1, NEW s1, Ranked(R, s1, S1), NEW S2, NEW s2, Ranked(R, s2, S2),
         \A x \in S1, y \in S2 : <<x, y>> \in R
  PROVE  Ranked(R, s1 \o s2, S1 \cup S2)
<1> DEFINE S == S1 \cup S2
           s == s1 \o s2
           m == Len(s1)
           n == Len(s2)
<1>1. /\ s1 \in Seq(S1) /\ s2 \in Seq(S2) /\ m \in Nat /\ n \in Nat
      /\ \A i \in 1..m : s1[i] \in S1
      /\ \A i \in 1..n : s2[i] \in S2
  BY ElementOfSeq, LenProperties DEF Ranked
<1>2. s1 \in Seq(S) /\ s2 \in Seq(S)
  BY <1>1, SeqMonotonic
<1>3. /\ s \in Seq(S) /\ Len(s) = m + n
      /\ \A i \in 1..m + n : s[i] = IF i <= m THEN s1[i] ELSE s2[i - m]
  BY <1>2, ConcatProperties
<1> HIDE DEF S, s, m, n
<1>4. ASSUME NEW i \in 1..m + n, NEW j \in 1..m + n, i < j
      PROVE  <<s[i], s[j]>> \in R
  <2>1. CASE j <= m
    <3>1. i \in 1..m /\ j \in 1..m
      BY <1>1, <1>4, <2>1
    <3>2. s[i] = s1[i] /\ s[j] = s1[j]
      BY <1>1, <1>3, <3>1
    <3> QED
      BY <1>4, <3>1, <3>2 DEF Ranked, m
  <2>2. CASE i <= m /\ ~(j <= m)
    <3>1. i \in 1..m /\ j - m \in 1..n
      BY <1>1, <2>2
    <3>2. s[i] = s1[i] /\ s[j] = s2[j - m]
      BY <1>3, <2>2
    <3> QED
      BY <1>1, <3>1, <3>2
  <2>3. CASE ~(i <= m)
    <3>1. i - m \in 1..n /\ j - m \in 1..n /\ i - m < j - m /\ ~(j <= m)
      BY <1>1, <1>4, <2>3
    <3>2. s[i] = s2[i - m] /\ s[j] = s2[j - m]
      BY <1>3, <2>3, <3>1
    <3> QED
      BY <3>1, <3>2 DEF Ranked, n
  <2> QED
    BY <1>1, <2>1, <2>2, <2>3
<1>5. ASSUME NEW x \in S
      PROVE  \E i \in 1..m + n : s[i] = x
  <2>1. CASE x \in S1
    <3>1. PICK i \in 1..m : s1[i] = x
      BY <2>1 DEF Ranked, m
    <3>2. i \in 1..m + n /\ s[i] = x
      BY <1>1, <1>3, <3>1
    <3> QED
      BY <3>2
  <2>2. CASE x \in S2
    <3>1. PICK i \in 1..n : s2[i] = x
      BY <2>2 DEF Ranked, n
    <3>2. m + i \in 1..m + n /\ ~(m + i <= m) /\ (m + i) - m = i
      BY <1>1
    <3>3. s[m + i] = x
      BY <1>3, <3>1, <3>2
    <3> QED
      BY <3>2, <3>3
  <2> QED
    BY <2>1, <2>2 DEF S
<1>6. Ranked(R, s, S)
  BY <1>3, <1>4, <1>5 DEF Ranked
<1> QED
  BY <1>6 DEF s, S

(* In the reverse order.                                                   *)
Inverted(R, S) == {p \in S \X S : <<p[2], p[1]>> \in R}

(* A reversed sequence is ranked the other way.                            *)
LEMMA RankedReverse ==
  ASSUME NEW R, NEW S, NEW s, Ranked(R, s, S)
  PROVE  Ranked(Inverted(R, S), Reverse(s), S)
<1> DEFINE n == Len(s)
           r == Reverse(s)
<1>1. /\ s \in Seq(S) /\ n \in Nat /\ \A i \in 1..n : s[i] \in S
  BY ElementOfSeq, LenProperties DEF Ranked
<1>2. \A i \in 1..n : (n - i) + 1 \in 1..n
  BY <1>1
<1>3. r = [i \in 1..n |-> s[(n - i) + 1]]
  BY DEF Reverse
<1>4. r \in Seq(S) /\ Len(r) = n /\ \A i \in 1..n : r[i] = s[(n - i) + 1]
  <2> HIDE DEF r, n
  <2> QED
    BY <1>1, <1>2, <1>3
<1> HIDE DEF r, n
<1>5. ASSUME NEW i \in 1..n, NEW j \in 1..n, i < j
      PROVE  <<r[i], r[j]>> \in Inverted(R, S)
  <2>1. (n - j) + 1 < (n - i) + 1
    BY <1>1, <1>5
  <2>2. <<s[(n - j) + 1], s[(n - i) + 1]>> \in R
    BY <1>2, <2>1 DEF Ranked, n
  <2>3. r[i] \in S /\ r[j] \in S /\ <<r[j], r[i]>> \in R
    BY <1>1, <1>2, <1>4, <2>2
  <2> QED
    BY <2>3 DEF Inverted
<1>6. ASSUME NEW x \in S
      PROVE  \E i \in 1..n : r[i] = x
  <2>1. PICK i \in 1..n : s[i] = x
    BY DEF Ranked, n
  <2>2. (n - ((n - i) + 1)) + 1 = i
    BY <1>1
  <2>3. r[(n - i) + 1] = x
    BY <1>2, <1>4, <2>1, <2>2
  <2> QED
    BY <1>2, <2>3
<1>7. Ranked(Inverted(R, S), r, S)
  BY <1>4, <1>5, <1>6 DEF Ranked
<1> QED
  BY <1>7 DEF r

(* A sequence has the elements that it lists.                              *)
LEMMA RankedSet ==
  ASSUME NEW R, NEW S, NEW s, Ranked(R, s, S)
  PROVE  ToSet(s) = S /\ DOMAIN s = 1..Len(s) /\ Len(s) \in Nat /\ s \in Seq(S)
<1>1. DOMAIN s = 1..Len(s) /\ Len(s) \in Nat /\ \A i \in 1..Len(s) : s[i] \in S
  BY ElementOfSeq, LenProperties DEF Ranked
<1> QED
  BY <1>1 DEF ToSet, Ranked

(* In another order that has its pairs.                                    *)
LEMMA RankedAlike ==
  ASSUME NEW R, NEW S, NEW s, Ranked(R, s, S), NEW R2,
         \A x, y \in S : <<x, y>> \in R => <<x, y>> \in R2
  PROVE  Ranked(R2, s, S)
<1>1. \A i \in 1..Len(s) : s[i] \in S
  BY ElementOfSeq, LenProperties DEF Ranked
<1> QED
  BY <1>1 DEF Ranked

(* The first element is the one that none is before, and the last one      *)
(* that which is before none.                                              *)
LEMMA RankedEnds ==
  ASSUME NEW R, NEW S, NEW s, Ranked(R, s, S), NEW x \in S
  PROVE  /\ Len(s) \in Nat \ {0} /\ s # << >> /\ 1 \in 1..Len(s) /\ Len(s) \in 1..Len(s)
         /\ (\A y \in S : <<y, x>> \notin R) => s[1] = x
         /\ (\A y \in S : <<x, y>> \notin R) => s[Len(s)] = x
<1>1. Len(s) \in Nat /\ \A i \in 1..Len(s) : s[i] \in S
  BY ElementOfSeq, LenProperties DEF Ranked
<1>2. PICK k \in 1..Len(s) : s[k] = x
  BY DEF Ranked
<1>3. Len(s) \in Nat \ {0} /\ 1 \in 1..Len(s) /\ Len(s) \in 1..Len(s)
  BY <1>1
<1>4. k = 1 \/ 1 < k
  BY <1>1
<1>5. k = Len(s) \/ k < Len(s)
  BY <1>1
<1>6. 1 < k => <<s[1], x>> \in R /\ s[1] \in S
  BY <1>1, <1>2, <1>3 DEF Ranked
<1>7. k < Len(s) => <<x, s[Len(s)]>> \in R /\ s[Len(s)] \in S
  BY <1>1, <1>2, <1>3 DEF Ranked
<1>8. s # << >>
  BY <1>3
<1> QED
  BY <1>2, <1>3, <1>4, <1>5, <1>6, <1>7, <1>8

-----------------------------------------------------------------------------
(* Sequences one after another.                                            *)

(* The function by which FlattenSeq is defined.                            *)
FlattenFcn(ss, f) ==
  f = [i \in 1..Len(ss) |-> IF i = 1 THEN ss[i] ELSE f[i - 1] \o ss[i]]

FirstOf(E, i) == UNION {E[j] : j \in 1..i}

(* Each lists a set, and these sets are in the order.                      *)
InTurns(R, ss, E) ==
  /\ Len(ss) \in Nat
  /\ \A i \in 1..Len(ss) : Ranked(R, ss[i], E[i])
  /\ \A i, j \in 1..Len(ss) : i < j => \A x \in E[i], y \in E[j] : <<x, y>> \in R

(* One more part, appended to those before it, is ranked.                  *)
LEMMA FirstNext ==
  ASSUME NEW R, NEW ss, NEW E, InTurns(R, ss, E), NEW i \in 1..Len(ss),
         NEW s, i # 1 => Ranked(R, s, FirstOf(E, i - 1))
  PROVE  Ranked(R, IF i = 1 THEN ss[i] ELSE s \o ss[i], FirstOf(E, i))
<1>1. Len(ss) \in Nat /\ Ranked(R, ss[i], E[i])
  BY DEF InTurns
<1>2. CASE i = 1
  <2>1. 1..1 = {1}
    OBVIOUS
  <2>2. FirstOf(E, 1) = E[1]
    BY <2>1 DEF FirstOf
  <2> QED
    BY <1>1, <1>2, <2>2
<1>3. CASE i # 1
  <2>1. \A j \in 1..i - 1 : j \in 1..Len(ss) /\ j < i
    BY <1>1
  <2>2. 1..i = (1..i - 1) \cup {i}
    BY <1>1
  <2>3. FirstOf(E, i) = FirstOf(E, i - 1) \cup E[i]
    BY <2>2 DEF FirstOf
  <2>4. \A x \in FirstOf(E, i - 1), y \in E[i] : <<x, y>> \in R
    BY <2>1, Zenon DEF FirstOf, InTurns
  <2>5. Ranked(R, s \o ss[i], FirstOf(E, i - 1) \cup E[i])
    BY <1>1, <1>3, <2>4, RankedConcat
  <2> QED
    BY <1>3, <2>3, <2>5
<1> QED
  BY <1>2, <1>3

(* Each part can be listed.                                                *)
LEMMA FirstRanked ==
  ASSUME NEW R, NEW ss, NEW E, InTurns(R, ss, E)
  PROVE  \A i \in 1..Len(ss) : \E s : Ranked(R, s, FirstOf(E, i))
<1> DEFINE n == Len(ss)
           N == {i \in 1..n : ~\E s : Ranked(R, s, FirstOf(E, i))}
<1>1. n \in Nat
  BY DEF InTurns
<1>2. N \in SUBSET Nat
  BY <1>1
<1> HIDE DEF n
<1>3. N = {}
  <2> SUFFICES ASSUME N # {} PROVE FALSE
    OBVIOUS
  <2>1. PICK i \in N : \A m \in N : i <= m
    <3> HIDE DEF N
    <3> QED
      BY <1>2, Least
  <2>2. i \in 1..n /\ i \in Nat
    BY <1>2, <2>1
  <2>3. i # 1 => i - 1 \in 1..n /\ ~(i <= i - 1)
    BY <1>1, <2>2
  <2>4. i # 1 => \E s : Ranked(R, s, FirstOf(E, i - 1))
    <3>1. i # 1 => i - 1 \notin N
      <4> HIDE DEF N
      <4> QED
        BY <2>1, <2>3
    <3> QED
      BY <2>3, <3>1
  <2>5. PICK s : i # 1 => Ranked(R, s, FirstOf(E, i - 1))
    BY <2>4
  <2>6. \E u : Ranked(R, u, FirstOf(E, i))
    BY <2>2, <2>5, FirstNext DEF n
  <2> QED
    BY <2>1, <2>6
<1> QED
  BY <1>3 DEF n

(* The function exists.                                                    *)
LEMMA FlattenFcnExists ==
  ASSUME NEW R, NEW ss, NEW E, InTurns(R, ss, E), OneWay(R, FirstOf(E, Len(ss)))
  PROVE  \E f : FlattenFcn(ss, f)
<1> DEFINE n == Len(ss)
           g(i) == CHOOSE s : Ranked(R, s, FirstOf(E, i))
           f == [i \in 1..n |-> g(i)]
<1>1. n \in Nat
  BY DEF InTurns
<1>2. \A i \in 1..n : Ranked(R, g(i), FirstOf(E, i))
  BY FirstRanked
<1> HIDE DEF g
<1>3. ASSUME NEW i \in 1..n
      PROVE  f[i] = IF i = 1 THEN ss[i] ELSE f[i - 1] \o ss[i]
  <2>1. i # 1 => i - 1 \in 1..n
    BY <1>1
  <2>2. f[i] = g(i) /\ (i # 1 => f[i - 1] = g(i - 1))
    BY <2>1
  <2>3. i # 1 => Ranked(R, g(i - 1), FirstOf(E, i - 1))
    BY <1>2, <2>1
  <2>4. Ranked(R, IF i = 1 THEN ss[i] ELSE g(i - 1) \o ss[i], FirstOf(E, i))
    BY <2>3, FirstNext DEF n
  <2>5. Ranked(R, g(i), FirstOf(E, i))
    BY <1>2
  <2>6. OneWay(R, FirstOf(E, i))
    <3>1. \A j \in 1..i : j \in 1..n
      BY <1>1
    <3>2. FirstOf(E, i) \subseteq FirstOf(E, n)
      BY <3>1 DEF FirstOf
    <3> QED
      BY <3>2 DEF OneWay, n
  <2>7. g(i) = IF i = 1 THEN ss[i] ELSE g(i - 1) \o ss[i]
    BY <2>4, <2>5, <2>6, RankedUnique
  <2> HIDE DEF f
  <2> QED
    BY <2>2, <2>7
<1>4. f = [i \in 1..n |-> f[i]]
  OBVIOUS
<1> HIDE DEF f
<1>5. FlattenFcn(ss, f)
  BY <1>3, <1>4 DEF FlattenFcn, n
<1> QED
  BY <1>5

(* FlattenSeq lists them all.                                              *)
LEMMA FlattenRanked ==
  ASSUME NEW R, NEW ss, NEW E, InTurns(R, ss, E), OneWay(R, FirstOf(E, Len(ss))),
         Len(ss) = 0 => ss = << >>
  PROVE  Ranked(R, FlattenSeq(ss), FirstOf(E, Len(ss)))
<1> DEFINE n == Len(ss)
           f == CHOOSE g : FlattenFcn(ss, g)
           N == {i \in 1..n : ~Ranked(R, f[i], FirstOf(E, i))}
<1>1. n \in Nat
  BY DEF InTurns
<1>2. FlattenFcn(ss, f)
  BY FlattenFcnExists
<1>3. FlattenSeq(ss) = IF n = 0 THEN ss ELSE f[n]
  BY DEF FlattenSeq, FlattenFcn
<1> HIDE DEF f
<1>4. \A i \in 1..n : f[i] = IF i = 1 THEN ss[i] ELSE f[i - 1] \o ss[i]
  BY <1>2 DEF FlattenFcn
<1>5. N \in SUBSET Nat
  BY <1>1
<1> HIDE DEF n
<1>6. N = {}
  <2> SUFFICES ASSUME N # {} PROVE FALSE
    OBVIOUS
  <2>1. PICK i \in N : \A m \in N : i <= m
    <3> HIDE DEF N
    <3> QED
      BY <1>5, Least
  <2>2. i \in 1..n /\ i \in Nat
    BY <1>5, <2>1
  <2>3. i # 1 => i - 1 \in 1..n /\ ~(i <= i - 1)
    BY <1>1, <2>2
  <2>4. i # 1 => i - 1 \notin N
    <3> HIDE DEF N
    <3> QED
      BY <2>1, <2>3
  <2>5. i # 1 => Ranked(R, f[i - 1], FirstOf(E, i - 1))
    BY <2>3, <2>4
  <2>6. Ranked(R, IF i = 1 THEN ss[i] ELSE f[i - 1] \o ss[i], FirstOf(E, i))
    BY <2>2, <2>5, FirstNext DEF n
  <2>7. Ranked(R, f[i], FirstOf(E, i))
    BY <1>4, <2>2, <2>6
  <2> QED
    BY <2>1, <2>7
<1>7. CASE n = 0
  <2>1. 1..0 = {}
    OBVIOUS
  <2>2. FirstOf(E, n) = {}
    BY <1>7, <2>1 DEF FirstOf
  <2> QED
    BY <1>3, <1>7, <2>2, RankedFew DEF n
<1>8. CASE n # 0
  <2>1. n \in 1..n /\ n \notin N
    BY <1>1, <1>6, <1>8
  <2> QED
    BY <1>3, <1>8, <2>1 DEF n
<1> QED
  BY <1>7, <1>8

-----------------------------------------------------------------------------
(* Steps from one element to the next.                                     *)

(* Induction over the numbers from 1 on.                                   *)
LEMMA StepByStep ==
  ASSUME NEW n \in Nat, NEW P, n # 0 => 1 \in P, \A k \in 1..n - 1 : k \in P => k + 1 \in P
  PROVE  \A k \in 1..n : k \in P
<1> DEFINE N == {k \in 1..n : k \notin P}
<1>1. N \in SUBSET Nat
  OBVIOUS
<1>2. N = {}
  <2> SUFFICES ASSUME N # {} PROVE FALSE
    OBVIOUS
  <2>1. PICK k \in N : \A m \in N : k <= m
    <3> HIDE DEF N
    <3> QED
      BY <1>1, Least
  <2>2. k \in 1..n /\ k \notin P /\ k # 1
    BY <2>1
  <2>3. k - 1 \in 1..n - 1 /\ k - 1 \in 1..n /\ (k - 1) + 1 = k /\ ~(k <= k - 1)
    BY <2>2
  <2>4. k - 1 \in P
    BY <2>1, <2>3
  <2> QED
    BY <2>2, <2>3, <2>4
<1> QED
  BY <1>2

(* A step leads from each element to the next one in the order, if any.    *)
StepsIn(R, S, next) ==
  \A x \in S :
    IF next[x] = 0 THEN \A y \in S : <<x, y>> \notin R
    ELSE /\ next[x] \in S /\ <<x, next[x]>> \in R
         /\ \A y \in S : ~(<<x, y>> \in R /\ <<y, next[x]>> \in R)

(* A step to the next element of a set is a step along the sequence that   *)
(* ranks it.                                                               *)
LEMMA RankedSteps ==
  ASSUME NEW R, NEW S, OneWay(R, S), NEW s, Ranked(R, s, S), NEW next, StepsIn(R, S, next)
  PROVE  \A k \in 1..Len(s) : next[s[k]] = IF k = Len(s) THEN 0 ELSE s[k + 1]
<1> DEFINE n == Len(s)
<1>1. n \in Nat /\ \A i \in 1..n : s[i] \in S
  BY ElementOfSeq, LenProperties DEF Ranked
<1>2. /\ \A i, j \in 1..n : i < j => <<s[i], s[j]>> \in R
      /\ \A x \in S : \E i \in 1..n : s[i] = x
  BY DEF Ranked
<1> HIDE DEF n
<1> SUFFICES ASSUME NEW k \in 1..n
             PROVE  next[s[k]] = IF k = n THEN 0 ELSE s[k + 1]
  BY DEF n
<1> DEFINE x == s[k]
           y == next[x]
<1>3. ASSUME y # 0
      PROVE  \E m \in 1..n : s[m] = y /\ k < m
  <2>1. y \in S /\ <<x, y>> \in R
    BY <1>1, <1>3 DEF StepsIn
  <2>2. PICK m \in 1..n : s[m] = y
    BY <1>2, <2>1
  <2>3. m # k
    BY <1>1, <2>1, <2>2 DEF OneWay
  <2>4. ~(m < k)
    BY <1>1, <1>2, <2>1, <2>2 DEF OneWay
  <2>5. k < m
    BY <1>1, <2>3, <2>4
  <2> QED
    BY <2>2, <2>5
<1>4. CASE k = n
  <2>1. y = 0
    BY <1>1, <1>3, <1>4
  <2> QED
    BY <1>4, <2>1
<1>5. CASE k # n
  <2>1. k + 1 \in 1..n /\ k < k + 1
    BY <1>1, <1>5
  <2>2. <<x, s[k + 1]>> \in R /\ s[k + 1] \in S
    BY <1>1, <1>2, <2>1
  <2>3. y # 0
    BY <1>1, <2>2 DEF StepsIn
  <2>4. PICK m \in 1..n : s[m] = y /\ k < m
    BY <1>3, <2>3
  <2>5. ~(k + 1 < m)
    <3>1. <<s[k + 1], y>> \notin R
      BY <1>1, <2>2, <2>3 DEF StepsIn
    <3> QED
      BY <1>2, <2>1, <2>4, <3>1
  <2>6. m = k + 1
    BY <1>1, <2>4, <2>5
  <2> QED
    BY <1>5, <2>4, <2>6
<1> QED
  BY <1>4, <1>5

-----------------------------------------------------------------------------
(* Sequences with one element more, or one less.                           *)

(* Inserting an element moves those from its index on back by one.         *)
LEMMA InsertAtProperties ==
  ASSUME NEW S, NEW s \in Seq(S), NEW i \in 1..Len(s) + 1, NEW e \in S
  PROVE  /\ InsertAt(s, i, e) \in Seq(S)
         /\ Len(InsertAt(s, i, e)) = Len(s) + 1
         /\ \A j \in 1..Len(s) + 1 :
              InsertAt(s, i, e)[j] =
                IF j < i THEN s[j] ELSE IF j = i THEN e ELSE s[j - 1]
<1> DEFINE a == SubSeq(s, 1, i - 1)
           b == SubSeq(s, i, Len(s))
<1>0. Len(s) \in Nat /\ i \in Int /\ i - 1 \in Int
  BY LenProperties
<1>1. /\ a \in Seq(S)
      /\ Len(a) = i - 1
      /\ \A j \in 1..i - 1 : a[j] = s[j]
  <2>1. \A j \in 1..i - 1 : s[j] \in S
    BY <1>0, ElementOfSeq
  <2> HIDE DEF a
  <2>2. /\ a \in Seq(S)
        /\ Len(a) = IF 1 <= i - 1 THEN (i - 1) - 1 + 1 ELSE 0
        /\ \A j \in 1..(i - 1) - 1 + 1 : a[j] = s[1 + j - 1]
    BY <2>1, <1>0, SubSeqProperties DEF a
  <2> QED
    BY <2>2, <1>0
<1>2. /\ b \in Seq(S)
      /\ Len(b) = Len(s) - i + 1
      /\ \A j \in 1..Len(s) - i + 1 : b[j] = s[i + j - 1]
  <2>1. \A j \in i..Len(s) : s[j] \in S
    BY <1>0, ElementOfSeq
  <2> HIDE DEF b
  <2>2. /\ b \in Seq(S)
        /\ Len(b) = IF i <= Len(s) THEN Len(s) - i + 1 ELSE 0
        /\ \A j \in 1..Len(s) - i + 1 : b[j] = s[i + j - 1]
    BY <2>1, <1>0, SubSeqProperties DEF b
  <2> QED
    BY <2>2, <1>0
<1>3. <<e>> \in Seq(S) /\ Len(<<e>>) = 1 /\ <<e>>[1] = e
  OBVIOUS
<1> HIDE DEF a, b
<1>4. /\ a \o <<e>> \in Seq(S)
      /\ Len(a \o <<e>>) = i
      /\ \A j \in 1..i : (a \o <<e>>)[j] = IF j < i THEN a[j] ELSE e
  <2>1. /\ a \o <<e>> \in Seq(S)
        /\ Len(a \o <<e>>) = Len(a) + Len(<<e>>)
        /\ \A j \in 1..Len(a) + Len(<<e>>) : (a \o <<e>>)[j] =
             IF j <= Len(a) THEN a[j] ELSE <<e>>[j - Len(a)]
    BY <1>1, <1>3, ConcatProperties
  <2> QED
    BY <2>1, <1>0, <1>1, <1>3
<1> DEFINE c == a \o <<e>>
<1> HIDE DEF c
<1>5. /\ c \o b \in Seq(S)
      /\ Len(c \o b) = Len(c) + Len(b)
      /\ \A j \in 1..Len(c) + Len(b) :
           (c \o b)[j] = IF j <= Len(c) THEN c[j] ELSE b[j - Len(c)]
  <2>1. c \in Seq(S)
    BY <1>4 DEF c
  <2> QED
    BY <1>2, <2>1, ConcatProperties, Zenon
<1>6. InsertAt(s, i, e) = c \o b
  BY DEF InsertAt, a, b, c
<1>7. /\ Len(c) = i
      /\ \A j \in 1..i : c[j] = IF j < i THEN s[j] ELSE e
  BY <1>0, <1>1, <1>4 DEF c
<1>8. \A j \in 1..Len(s) + 1 :
        (c \o b)[j] = IF j < i THEN s[j] ELSE IF j = i THEN e ELSE s[j - 1]
  <2> SUFFICES ASSUME NEW j \in 1..Len(s) + 1
               PROVE  (c \o b)[j] = IF j < i THEN s[j]
                                    ELSE IF j = i THEN e ELSE s[j - 1]
    BY Zenon
  <2>1. (c \o b)[j] = IF j <= i THEN c[j] ELSE b[j - i]
    BY <1>0, <1>2, <1>5, <1>7
  <2>2. j > i => b[j - i] = s[j - 1]
    BY <1>0, <1>2
  <2> QED
    BY <1>0, <1>7, <2>1, <2>2
<1> QED
  BY <1>0, <1>2, <1>5, <1>6, <1>7, <1>8

(* Removing an element moves those behind it forward by one.               *)
LEMMA RemoveAtProperties ==
  ASSUME NEW S, NEW s \in Seq(S), NEW i \in 1..Len(s)
  PROVE  /\ RemoveAt(s, i) \in Seq(S)
         /\ Len(RemoveAt(s, i)) = Len(s) - 1
         /\ \A j \in 1..Len(s) - 1 :
              RemoveAt(s, i)[j] = IF j < i THEN s[j] ELSE s[j + 1]
<1> DEFINE a == SubSeq(s, 1, i - 1)
           b == SubSeq(s, i + 1, Len(s))
<1>0. Len(s) \in Nat /\ i \in Int /\ i - 1 \in Int /\ i + 1 \in Int
  BY LenProperties
<1>1. /\ a \in Seq(S)
      /\ Len(a) = i - 1
      /\ \A j \in 1..i - 1 : a[j] = s[j]
  <2>1. \A j \in 1..i - 1 : s[j] \in S
    BY <1>0, ElementOfSeq
  <2> HIDE DEF a
  <2>2. /\ a \in Seq(S)
        /\ Len(a) = IF 1 <= i - 1 THEN (i - 1) - 1 + 1 ELSE 0
        /\ \A j \in 1..(i - 1) - 1 + 1 : a[j] = s[1 + j - 1]
    BY <2>1, <1>0, SubSeqProperties DEF a
  <2> QED
    BY <2>2, <1>0
<1>2. /\ b \in Seq(S)
      /\ Len(b) = Len(s) - i
      /\ \A j \in 1..Len(s) - i : b[j] = s[i + j]
  <2>1. \A j \in i + 1..Len(s) : s[j] \in S
    BY <1>0, ElementOfSeq
  <2> HIDE DEF b
  <2>2. /\ b \in Seq(S)
        /\ Len(b) = IF i + 1 <= Len(s) THEN Len(s) - (i + 1) + 1 ELSE 0
        /\ \A j \in 1..Len(s) - (i + 1) + 1 : b[j] = s[i + 1 + j - 1]
    BY <2>1, <1>0, SubSeqProperties DEF b
  <2> QED
    BY <2>2, <1>0
<1> HIDE DEF a, b
<1> DEFINE c == a \o b
<1>3. /\ c \in Seq(S)
      /\ Len(c) = Len(a) + Len(b)
      /\ \A j \in 1..Len(a) + Len(b) :
           c[j] = IF j <= Len(a) THEN a[j] ELSE b[j - Len(a)]
  BY <1>1, <1>2, ConcatProperties, Zenon
<1>4. RemoveAt(s, i) = c
  BY DEF RemoveAt, a, b
<1> HIDE DEF c
<1>5. \A j \in 1..Len(s) - 1 : c[j] = IF j < i THEN s[j] ELSE s[j + 1]
  <2> SUFFICES ASSUME NEW j \in 1..Len(s) - 1
               PROVE  c[j] = IF j < i THEN s[j] ELSE s[j + 1]
    OBVIOUS
  <2>1. c[j] = IF j <= i - 1 THEN a[j] ELSE b[j - (i - 1)]
    BY <1>0, <1>1, <1>2, <1>3
  <2>2. j >= i => b[j - (i - 1)] = s[j + 1]
    BY <1>0, <1>2
  <2> QED
    BY <1>0, <1>1, <2>1, <2>2
<1> QED
  BY <1>0, <1>1, <1>2, <1>3, <1>4, <1>5

(* A set of numbers from 1 on without gaps is the interval of its size.    *)
LEMMA Prefix ==
  ASSUME NEW n \in Nat, NEW S \in SUBSET (1..n),
         \A s \in S : \A r \in 1..s : r \in S
  PROVE  /\ Cardinality(S) \in 0..n
         /\ S = 1..Cardinality(S)
<1> DEFINE c == Cardinality(S)
<1>1. IsFiniteSet(1..n) /\ Cardinality(1..n) = n
  BY FS_Interval
<1>2. IsFiniteSet(S) /\ c <= n
  BY <1>1, FS_Subset, Zenon
<1>3. c \in Nat
  BY <1>2, FS_CardinalityType
<1> HIDE DEF c
<1>4. IsFiniteSet(1..c) /\ Cardinality(1..c) = c
  BY <1>3, FS_Interval
<1>5. \A s \in S : s <= c
  <2> SUFFICES ASSUME NEW s \in S PROVE s <= c
    OBVIOUS
  <2>1. s \in Nat /\ s >= 1 /\ 1..s \in SUBSET S
    OBVIOUS
  <2>2. Cardinality(1..s) = s
    BY <2>1, FS_Interval
  <2>3. Cardinality(1..s) <= Cardinality(S)
    BY <2>1, <1>2, FS_Subset
  <2> QED
    BY <2>2, <2>3 DEF c
<1>6. S \in SUBSET (1..c)
  BY <1>5, <1>3
<1>7. S = 1..c
  BY <1>6, <1>4, FS_Subset, Zenon DEF c
<1> QED
  BY <1>2, <1>3, <1>7 DEF c

(* What is left of a sequence without its last element.                    *)
LEMMA FrontProperties ==
  ASSUME NEW S, NEW s \in Seq(S), s # << >>
  PROVE  /\ Len(s) \in Nat \ {0}
         /\ Front(s) \in Seq(S)
         /\ Len(Front(s)) = Len(s) - 1
         /\ \A i \in 1..Len(s) - 1 : Front(s)[i] = s[i]
         /\ Last(s) = s[Len(s)]
<1>1. Len(s) \in Nat \ {0}
  BY EmptySeq
<1>2. \A i \in 1..Len(s) - 1 : s[i] \in S
  BY <1>1, ElementOfSeq
<1> DEFINE f == SubSeq(s, 1, Len(s) - 1)
<1>3. /\ f \in Seq(S)
      /\ Len(f) = IF 1 <= Len(s) - 1 THEN (Len(s) - 1) - 1 + 1 ELSE 0
      /\ \A i \in 1..(Len(s) - 1) - 1 + 1 : f[i] = s[1 + i - 1]
  <2> HIDE DEF f
  <2> QED
    BY <1>1, <1>2, SubSeqProperties DEF f
<1>4. Front(s) = f /\ Last(s) = s[Len(s)]
  BY DEF Front, Last
<1> HIDE DEF f
<1> QED
  BY <1>1, <1>3, <1>4

(* An element takes its place in the order.                                *)
LEMMA RankedInsert ==
  ASSUME NEW R, NEW S, NEW s, Ranked(R, s, S), NEW x, NEW k \in 1..Len(s) + 1,
         \A i \in 1..Len(s) : IF i < k THEN <<s[i], x>> \in R ELSE <<x, s[i]>> \in R
  PROVE  Ranked(R, InsertAt(s, k, x), S \cup {x})
<1> DEFINE n == Len(s)
           S2 == S \cup {x}
           u == InsertAt(s, k, x)
<1>1. n \in Nat /\ s \in Seq(S) /\ \A i, j \in 1..n : i < j => <<s[i], s[j]>> \in R
  BY RankedSet DEF Ranked
<1>2. s \in Seq(S2) /\ x \in S2
  BY <1>1, SeqMonotonic
<1>3. /\ u \in Seq(S2) /\ Len(u) = n + 1
      /\ \A j \in 1..n + 1 : u[j] = IF j < k THEN s[j] ELSE IF j = k THEN x ELSE s[j - 1]
  BY <1>2, InsertAtProperties
<1>4. k \in 1..n + 1 /\ \A i \in 1..n : IF i < k THEN <<s[i], x>> \in R ELSE <<x, s[i]>> \in R
  OBVIOUS
<1> HIDE DEF n, u
<1>5. ASSUME NEW i \in 1..n + 1, NEW j \in 1..n + 1, i < j
      PROVE  <<u[i], u[j]>> \in R
  <2>1. i \in Nat /\ j \in Nat /\ k \in Nat
    BY <1>1
  <2>2. CASE j < k
    <3>1. u[i] = s[i] /\ u[j] = s[j] /\ i \in 1..n /\ j \in 1..n
      BY <1>1, <1>3, <1>4, <1>5, <2>1, <2>2
    <3> QED
      BY <1>1, <1>5, <3>1
  <2>3. CASE j = k
    <3>1. u[i] = s[i] /\ u[j] = x /\ i \in 1..n /\ i < k
      BY <1>1, <1>3, <1>4, <1>5, <2>1, <2>3
    <3> QED
      BY <1>4, <3>1
  <2>4. CASE j > k /\ i < k
    <3>1. u[i] = s[i] /\ u[j] = s[j - 1] /\ i \in 1..n /\ j - 1 \in 1..n /\ i < j - 1
      BY <1>1, <1>3, <1>4, <2>1, <2>4
    <3> QED
      BY <1>1, <3>1
  <2>5. CASE i = k
    <3>1. u[i] = x /\ u[j] = s[j - 1] /\ j - 1 \in 1..n /\ ~(j - 1 < k)
      BY <1>1, <1>3, <1>4, <1>5, <2>1, <2>5
    <3> QED
      BY <1>4, <3>1
  <2>6. CASE i > k
    <3>1. u[i] = s[i - 1] /\ u[j] = s[j - 1] /\ i - 1 \in 1..n /\ j - 1 \in 1..n /\ i - 1 < j - 1
      BY <1>1, <1>3, <1>4, <1>5, <2>1, <2>6
    <3> QED
      BY <1>1, <3>1
  <2> QED
    BY <1>5, <2>1, <2>2, <2>3, <2>4, <2>5, <2>6
<1>6. ASSUME NEW y \in S2
      PROVE  \E i \in 1..n + 1 : u[i] = y
  <2>1. CASE y = x
    <3>1. u[k] = x
      BY <1>1, <1>3, <1>4
    <3> QED
      BY <1>4, <2>1, <3>1
  <2>2. CASE y # x
    <3>1. PICK i \in 1..n : s[i] = y
      BY <2>2 DEF Ranked, n
    <3>2. CASE i < k
      <4>1. i \in 1..n + 1 /\ u[i] = y
        BY <1>1, <1>3, <3>1, <3>2
      <4> QED
        BY <4>1
    <3>3. CASE ~(i < k)
      <4>1. i + 1 \in 1..n + 1 /\ ~(i + 1 < k) /\ i + 1 # k /\ (i + 1) - 1 = i
        BY <1>1, <1>4, <3>3
      <4>2. u[i + 1] = y
        BY <1>3, <3>1, <4>1
      <4> QED
        BY <4>1, <4>2
    <3> QED
      BY <3>2, <3>3
  <2> QED
    BY <2>1, <2>2
<1> HIDE DEF S2
<1>7. Ranked(R, u, S2)
  BY <1>3, <1>5, <1>6 DEF Ranked
<1> QED
  BY <1>7 DEF u, S2

(* Without an element, the others keep their order.                        *)
LEMMA RankedRemove ==
  ASSUME NEW R, NEW S, OneWay(R, S), NEW s, Ranked(R, s, S), NEW k \in 1..Len(s)
  PROVE  Ranked(R, RemoveAt(s, k), S \ {s[k]})
<1> DEFINE n == Len(s)
           S2 == S \ {s[k]}
           u == RemoveAt(s, k)
<1>1. /\ n \in Nat /\ s \in Seq(S) /\ \A i, j \in 1..n : i < j => <<s[i], s[j]>> \in R
      /\ \A i \in 1..n : s[i] \in S
  BY RankedSet, ElementOfSeq DEF Ranked
<1>2. \A i, j \in 1..n : s[i] = s[j] => i = j
  BY RankedOnce
<1>3. /\ u \in Seq(S) /\ Len(u) = n - 1
      /\ \A j \in 1..n - 1 : u[j] = IF j < k THEN s[j] ELSE s[j + 1]
  BY <1>1, RemoveAtProperties
<1>4. k \in 1..n /\ n - 1 \in Nat
  BY <1>1
<1> HIDE DEF n, u
<1> DEFINE at(j) == IF j < k THEN j ELSE j + 1
<1>5. /\ \A j \in 1..n - 1 : at(j) \in 1..n /\ at(j) # k
      /\ \A i, j \in 1..n - 1 : i < j => at(i) < at(j)
      /\ \A i \in 1..n : i # k => \E j \in 1..n - 1 : at(j) = i
  <2>1. \A j \in 1..n - 1 : at(j) \in 1..n /\ at(j) # k
    BY <1>1, <1>4
  <2>2. \A i, j \in 1..n - 1 : i < j => at(i) < at(j)
    BY <1>1, <1>4
  <2>3. ASSUME NEW i \in 1..n, i # k
        PROVE  \E j \in 1..n - 1 : at(j) = i
    <3>1. CASE i < k
      <4>1. i \in 1..n - 1 /\ at(i) = i
        BY <1>1, <1>4, <3>1
      <4> QED
        BY <4>1
    <3>2. CASE ~(i < k)
      <4>1. i - 1 \in 1..n - 1 /\ at(i - 1) = i
        BY <1>1, <1>4, <2>3, <3>2
      <4> QED
        BY <4>1
    <3> QED
      BY <3>1, <3>2
  <2> QED
    BY <2>1, <2>2, <2>3
<1>6. \A j \in 1..n - 1 : u[j] = s[at(j)]
  BY <1>3
<1> HIDE DEF at
<1>7. \A j \in 1..n - 1 : u[j] \in S2
  BY <1>1, <1>2, <1>4, <1>5, <1>6
<1>8. u \in Seq(S2)
  <2>1. u = [j \in 1..n - 1 |-> u[j]]
    BY <1>3, <1>4, LenProperties
  <2> HIDE DEF S2
  <2> QED
    BY <1>4, <1>7, <2>1
<1>9. \A i, j \in 1..n - 1 : i < j => <<u[i], u[j]>> \in R
  BY <1>1, <1>5, <1>6
<1>10. ASSUME NEW y \in S2
       PROVE  \E j \in 1..n - 1 : u[j] = y
  <2>1. PICK i \in 1..n : s[i] = y
    BY DEF Ranked, n
  <2>2. i # k
    BY <2>1
  <2> QED
    BY <1>5, <1>6, <2>1, <2>2
<1> HIDE DEF S2
<1>11. Ranked(R, u, S2)
  BY <1>3, <1>8, <1>9, <1>10 DEF Ranked
<1> QED
  BY <1>11 DEF u, S2
=============================================================================
