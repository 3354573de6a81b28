-------------------------- MODULE ServicesProofs ----------------------------
(***************************************************************************)
(* Of the services around the contract.  The MQTT publisher, for any       *)
(* accounts, orders, levels and number of faults: what it publishes is     *)
(* true, and the market's event log that it rests on is in order.  The     *)
(* aggregator, for any pipelines, arguments, coins and number of faults:   *)
(* tasks give up after as many failures as intended, and no coin is asked  *)
(* for that the table has.  The SDK, for any tasks that share a client and *)
(* any number of calls, faults and deployments: results are true, and      *)
(* effects come in the order of the calls.                                 *)
(***************************************************************************)
EXTENDS MqttPublisher, Pipelines, CollectionProofs

-----------------------------------------------------------------------------
(* Subsequences.                                                           *)

Ascending == {p \in Nat \X Nat : p[1] < p[2]}

Part(I, n) == I \cap 1..n

(* The indices of I up to n, and the elements at indices.                  *)
Indices(I, n) == CHOOSE g : Ranked(Ascending, g, Part(I, n))
At(s, g)      == [k \in 1..Len(g) |-> s[g[k]]]

(* The function by which Select is defined.                                *)
SelectFcn(s, I, f) ==
  f = [n \in 0..Len(s) |->
        IF n = 0 THEN << >> ELSE IF n \in I THEN Append(f[n - 1], s[n]) ELSE f[n - 1]]

(* Numbers are in one order only.                                          *)
LEMMA AscendingOneWay ==
  ASSUME NEW I, NEW n
  PROVE  OneWay(Ascending, Part(I, n))
BY DEF OneWay, Ascending

(* The next index is appended.                                             *)
LEMMA NextIndex ==
  ASSUME NEW I, NEW n \in Nat \ {0}, NEW g, Ranked(Ascending, g, Part(I, n - 1))
  PROVE  Ranked(Ascending, IF n \in I THEN Append(g, n) ELSE g, Part(I, n))
<1> DEFINE P == Part(I, n - 1)
<1>1. CASE n \in I
  <2>1. Ranked(Ascending, <<n>>, {n})
    BY RankedFew
  <2>2. \A x \in P, y \in {n} : <<x, y>> \in Ascending
    BY DEF Part, Ascending
  <2>3. Ranked(Ascending, g \o <<n>>, P \cup {n})
    BY <2>1, <2>2, RankedConcat
  <2>4. P \cup {n} = Part(I, n)
    BY <1>1 DEF Part
  <2>5. g \in Seq(P)
    BY DEF Ranked
  <2>6. g \o <<n>> = Append(g, n)
    BY <2>5
  <2> QED
    BY <1>1, <2>3, <2>4, <2>6
<1>2. CASE n \notin I
  <2>1. P = Part(I, n)
    BY <1>2 DEF Part
  <2> QED
    BY <1>2, <2>1
<1> QED
  BY <1>1, <1>2

(* There are no indices up to 0.                                           *)
LEMMA NoIndices ==
  ASSUME NEW I
  PROVE  Ranked(Ascending, << >>, Part(I, 0))
<1>1. Part(I, 0) = {}
  BY DEF Part
<1> QED
  BY <1>1, RankedFew

(* Every set of indices can be listed in order.                            *)
LEMMA IndicesExist ==
  ASSUME NEW I, NEW n \in Nat
  PROVE  Ranked(Ascending, Indices(I, n), Part(I, n))
<1> DEFINE N == {m \in Nat : ~\E g : Ranked(Ascending, g, Part(I, m))}
<1>1. N = {}
  <2> SUFFICES ASSUME N # {} PROVE FALSE
    OBVIOUS
  <2>1. N \in SUBSET Nat
    OBVIOUS
  <2>2. PICK m \in N : \A k \in N : m <= k
    <3> HIDE DEF N
    <3> QED
      BY <2>1, Least
  <2>3. m \in Nat /\ ~\E g : Ranked(Ascending, g, Part(I, m))
    BY <2>2
  <2>4. m # 0
    BY <2>3, NoIndices
  <2>5. m - 1 \in Nat /\ ~(m <= m - 1)
    BY <2>3, <2>4
  <2>6. m - 1 \notin N
    <3> HIDE DEF N
    <3> QED
      BY <2>2, <2>5
  <2>7. PICK g : Ranked(Ascending, g, Part(I, m - 1))
    BY <2>5, <2>6
  <2> QED
    BY <2>3, <2>4, <2>7, NextIndex
<1>2. \E g : Ranked(Ascending, g, Part(I, n))
  BY <1>1
<1> QED
  BY <1>2 DEF Indices

(* The elements at the indices up to n, step by step.                      *)
LEMMA AtNext ==
  ASSUME NEW S, NEW s \in Seq(S), NEW I, NEW n \in Nat \ {0}
  PROVE  At(s, Indices(I, n)) =
           IF n \in I THEN Append(At(s, Indices(I, n - 1)), s[n])
                      ELSE At(s, Indices(I, n - 1))
<1> DEFINE g == Indices(I, n - 1)
<1>1. n - 1 \in Nat /\ n \in Nat
  OBVIOUS
<1>2. Ranked(Ascending, g, Part(I, n - 1))
  BY <1>1, IndicesExist
<1>3. Ranked(Ascending, Indices(I, n), Part(I, n))
  BY <1>1, IndicesExist
<1>4. g \in Seq(Nat)
  <2>1. g \in Seq(Part(I, n - 1)) /\ Part(I, n - 1) \subseteq Nat
    BY <1>2 DEF Ranked, Part
  <2> HIDE DEF g
  <2> QED
    BY <2>1
<1> HIDE DEF g
<1>5. Indices(I, n) = IF n \in I THEN Append(g, n) ELSE g
  <2> DEFINE h == IF n \in I THEN Append(g, n) ELSE g
  <2>1. Ranked(Ascending, h, Part(I, n))
    BY <1>2, NextIndex
  <2> HIDE DEF h
  <2>2. Indices(I, n) = h
    BY <1>3, <2>1, AscendingOneWay, RankedUnique
  <2> QED
    BY <2>2 DEF h
<1>6. At(s, Append(g, n)) = Append(At(s, g), s[n])
  <2> DEFINE m == Len(g)
             a == Append(g, n)
             b == At(s, g)
  <2>1. m \in Nat /\ Len(a) = m + 1 /\ a[m + 1] = n /\ \A k \in 1..m : a[k] = g[k]
    BY <1>4
  <2> HIDE DEF a
  <2>2. At(s, a) = [k \in 1..m + 1 |-> s[a[k]]]
    BY <2>1 DEF At
  <2>3. b = [k \in 1..m |-> s[g[k]]]
    BY DEF At
  <2> HIDE DEF b, m
  <2>4. b \in Seq({s[g[k]] : k \in 1..m}) /\ Len(b) = m
    BY <2>1, <2>3
  <2>5. Append(b, s[n]) = [k \in 1..m + 1 |-> IF k = m + 1 THEN s[n] ELSE b[k]]
    BY <2>1, <2>4
  <2>6. \A k \in 1..m + 1 : s[a[k]] = IF k = m + 1 THEN s[n] ELSE b[k]
    <3> SUFFICES ASSUME NEW k \in 1..m + 1, k # m + 1 PROVE s[a[k]] = b[k]
      BY <2>1
    <3>1. k \in 1..m
      BY <2>1
    <3> QED
      BY <2>1, <2>3, <3>1
  <2>7. At(s, a) = Append(b, s[n])
    BY <2>2, <2>5, <2>6
  <2> QED
    BY <2>7 DEF a, b
<1> QED
  BY <1>5, <1>6 DEF g

(* The recursion by which Select is defined has a solution.                *)
LEMMA SelectFcnExists ==
  ASSUME NEW S, NEW s \in Seq(S), NEW I
  PROVE  \E f : SelectFcn(s, I, f)
<1> DEFINE f == [n \in 0..Len(s) |-> At(s, Indices(I, n))]
<1>1. Len(s) \in Nat
  OBVIOUS
<1>2. At(s, Indices(I, 0)) = << >>
  <2>1. Indices(I, 0) = << >>
    BY NoIndices, IndicesExist, AscendingOneWay, RankedUnique
  <2> QED
    BY <2>1 DEF At
<1>3. ASSUME NEW n \in 0..Len(s)
      PROVE  f[n] = IF n = 0 THEN << >>
                    ELSE IF n \in I THEN Append(f[n - 1], s[n]) ELSE f[n - 1]
  <2>1. CASE n = 0
    BY <1>2, <2>1
  <2>2. CASE n # 0
    <3>1. n \in Nat \ {0} /\ n - 1 \in 0..Len(s)
      BY <1>1, <2>2
    <3>2. f[n] = At(s, Indices(I, n)) /\ f[n - 1] = At(s, Indices(I, n - 1))
      BY <3>1
    <3> HIDE DEF f
    <3>3. At(s, Indices(I, n)) = IF n \in I THEN Append(At(s, Indices(I, n - 1)), s[n])
                                             ELSE At(s, Indices(I, n - 1))
      BY <3>1, AtNext
    <3> QED
      BY <2>2, <3>2, <3>3
  <2> QED
    BY <2>1, <2>2
<1> HIDE DEF f
<1>4. f = [n \in 0..Len(s) |-> f[n]]
  BY DEF f
<1>5. SelectFcn(s, I, f)
  BY <1>3, <1>4 DEF SelectFcn
<1> QED
  BY <1>5

(* Select gives the elements at the indices, in order.                     *)
LEMMA SelectGives ==
  ASSUME NEW S, NEW s \in Seq(S), NEW I
  PROVE  Select(s, I) = At(s, Indices(I, Len(s)))
<1> DEFINE f == CHOOSE g : SelectFcn(s, I, g)
           N == {n \in 0..Len(s) : f[n] # At(s, Indices(I, n))}
<1>1. Len(s) \in Nat
  OBVIOUS
<1>2. SelectFcn(s, I, f)
  BY SelectFcnExists
<1>3. Select(s, I) = f[Len(s)]
  BY DEF Select, SelectFcn
<1> HIDE DEF f
<1>4. N = {}
  <2> SUFFICES ASSUME N # {} PROVE FALSE
    OBVIOUS
  <2>1. N \in SUBSET Nat
    BY <1>1
  <2>2. PICK n \in N : \A k \in N : n <= k
    <3> HIDE DEF N
    <3> QED
      BY <2>1, Least
  <2>3. n \in 0..Len(s) /\ f[n] # At(s, Indices(I, n))
    BY <2>2
  <2>4. f[n] = IF n = 0 THEN << >> ELSE IF n \in I THEN Append(f[n - 1], s[n]) ELSE f[n - 1]
    BY <1>2, <2>3 DEF SelectFcn
  <2>5. n # 0
    <3>1. Indices(I, 0) = << >>
      BY NoIndices, IndicesExist, AscendingOneWay, RankedUnique
    <3>2. At(s, Indices(I, 0)) = << >>
      BY <3>1 DEF At
    <3> QED
      BY <2>3, <2>4, <3>2
  <2>6. n \in Nat \ {0} /\ n - 1 \in 0..Len(s) /\ ~(n <= n - 1)
    BY <1>1, <2>3, <2>5
  <2>7. n - 1 \notin N
    <3> HIDE DEF N
    <3> QED
      BY <2>2, <2>6
  <2>8. f[n - 1] = At(s, Indices(I, n - 1))
    BY <2>6, <2>7
  <2> QED
    BY <2>3, <2>4, <2>5, <2>6, <2>8, AtNext
<1> QED
  BY <1>1, <1>3, <1>4

(* The places in s, which are in I, of the elements of r.                  *)
Places(g, s, I, r) ==
  /\ \A k \in 1..Len(r) : g[k] \in 1..Len(s) /\ g[k] \in I /\ r[k] = s[g[k]]
  /\ \A j, k \in 1..Len(r) : j < k => g[j] < g[k]
  /\ \A i \in 1..Len(s) : i \in I => \E k \in 1..Len(r) : g[k] = i

(* What is selected, and from where.                                       *)
LEMMA SelectMaps ==
  ASSUME NEW S, NEW s \in Seq(S), NEW I
  PROVE  /\ Select(s, I) \in Seq(S)
         /\ \E g : Places(g, s, I, Select(s, I))
<1> DEFINE g == Indices(I, Len(s))
           r == Select(s, I)
<1>1. Len(s) \in Nat
  OBVIOUS
<1>2. Ranked(Ascending, g, Part(I, Len(s)))
  BY <1>1, IndicesExist
<1>3. r = At(s, g)
  BY SelectGives
<1> HIDE DEF g, r
<1>4. Len(g) \in Nat /\ \A k \in 1..Len(g) : g[k] \in Part(I, Len(s))
  <2>1. g \in Seq(Part(I, Len(s)))
    BY <1>2 DEF Ranked
  <2> QED
    BY <2>1, ElementOfSeq
<1>5. Len(r) = Len(g) /\ \A k \in 1..Len(g) : r[k] = s[g[k]]
  BY <1>3, <1>4 DEF At
<1>6. r \in Seq(S)
  <2>1. \A k \in 1..Len(g) : s[g[k]] \in S
    BY <1>4, ElementOfSeq DEF Part
  <2> QED
    BY <1>3, <1>4, <2>1 DEF At
<1>7. \A k \in 1..Len(r) : g[k] \in 1..Len(s) /\ g[k] \in I /\ r[k] = s[g[k]]
  BY <1>4, <1>5 DEF Part
<1>8. \A j, k \in 1..Len(r) : j < k => g[j] < g[k]
  <2>1. \A j, k \in 1..Len(g) : j < k => <<g[j], g[k]>> \in Ascending
    BY <1>2 DEF Ranked
  <2> QED
    BY <1>5, <2>1 DEF Ascending
<1>9. \A i \in 1..Len(s) : i \in I => \E k \in 1..Len(r) : g[k] = i
  <2>1. \A i \in Part(I, Len(s)) : \E k \in 1..Len(g) : g[k] = i
    BY <1>2 DEF Ranked
  <2> QED
    BY <1>5, <2>1 DEF Part
<1>10. Places(g, s, I, r)
  BY <1>7, <1>8, <1>9 DEF Places
<1> QED
  BY <1>6, <1>10 DEF r

-----------------------------------------------------------------------------
(* Sequences of anything.                                                  *)

IsSeq(s) == s \in Seq(ToSet(s))

LEMMA SeqIsSeq ==
  ASSUME NEW S, NEW s \in Seq(S)
  PROVE  IsSeq(s) /\ Len(s) \in Nat /\ DOMAIN s = 1..Len(s)
<1>1. /\ Len(s) \in Nat /\ DOMAIN s = 1..Len(s) /\ s \in [1..Len(s) -> S]
  BY LenProperties
<1>2. \A i \in 1..Len(s) : s[i] \in ToSet(s)
  BY <1>1 DEF ToSet
<1>3. s = [i \in 1..Len(s) |-> s[i]]
  BY <1>1
<1>4. [i \in 1..Len(s) |-> s[i]] \in Seq(ToSet(s))
  BY <1>1, <1>2
<1> QED
  BY <1>1, <1>3, <1>4 DEF IsSeq

LEMMA IsSeqLen ==
  ASSUME NEW s, IsSeq(s)
  PROVE  Len(s) \in Nat /\ DOMAIN s = 1..Len(s)
BY SeqIsSeq DEF IsSeq

(* One after another.                                                      *)
LEMMA ConcatIsSeq ==
  ASSUME NEW s, IsSeq(s), NEW t, IsSeq(t)
  PROVE  /\ IsSeq(s \o t)
         /\ Len(s \o t) = Len(s) + Len(t) /\ Len(s) \in Nat /\ Len(t) \in Nat
         /\ \A i \in 1..Len(s) : (s \o t)[i] = s[i]
         /\ \A i \in 1..Len(t) : (s \o t)[Len(s) + i] = t[i]
         /\ \A i \in Len(s) + 1..Len(s) + Len(t) :
              i - Len(s) \in 1..Len(t) /\ (s \o t)[i] = t[i - Len(s)]
<1> DEFINE S == ToSet(s) \cup ToSet(t)
<1>1. s \in Seq(S) /\ t \in Seq(S)
  BY SeqMonotonic DEF IsSeq
<1> HIDE DEF S
<1>2. /\ s \o t \in Seq(S) /\ Len(s \o t) = Len(s) + Len(t)
      /\ \A i \in 1..Len(s) + Len(t) : (s \o t)[i] = IF i <= Len(s) THEN s[i] ELSE t[i - Len(s)]
  BY <1>1, ConcatProperties
<1>3. Len(s) \in Nat /\ Len(t) \in Nat
  BY <1>1
<1>4. IsSeq(s \o t)
  BY <1>2, SeqIsSeq
<1>5. \A i \in 1..Len(s) : (s \o t)[i] = s[i]
  BY <1>2, <1>3
<1>6. \A i \in 1..Len(t) : (s \o t)[Len(s) + i] = t[i]
  BY <1>2, <1>3
<1>7. \A i \in Len(s) + 1..Len(s) + Len(t) :
        i - Len(s) \in 1..Len(t) /\ (s \o t)[i] = t[i - Len(s)]
  BY <1>2, <1>3
<1> QED
  BY <1>2, <1>3, <1>4, <1>5, <1>6, <1>7

LEMMA AppendIsSeq ==
  ASSUME NEW s, IsSeq(s), NEW x
  PROVE  /\ IsSeq(Append(s, x)) /\ Len(s) \in Nat /\ Len(Append(s, x)) = Len(s) + 1
         /\ \A i \in 1..Len(s) : Append(s, x)[i] = s[i]
         /\ Append(s, x)[Len(s) + 1] = x
<1> DEFINE S == ToSet(s) \cup {x}
<1>1. s \in Seq(S) /\ x \in S
  BY SeqMonotonic DEF IsSeq
<1> HIDE DEF S
<1>2. Append(s, x) \in Seq(S)
  BY <1>1
<1>3. IsSeq(Append(s, x))
  BY <1>2, SeqIsSeq
<1>4. /\ Len(s) \in Nat /\ Len(Append(s, x)) = Len(s) + 1
      /\ \A i \in 1..Len(s) : Append(s, x)[i] = s[i]
      /\ Append(s, x)[Len(s) + 1] = x
  BY <1>1
<1> QED
  BY <1>3, <1>4

LEMMA TailIsSeq ==
  ASSUME NEW s, IsSeq(s), s # << >>
  PROVE  /\ IsSeq(Tail(s)) /\ Len(Tail(s)) = Len(s) - 1 /\ Len(s) \in Nat \ {0}
         /\ Head(s) = s[1]
         /\ \A i \in 1..Len(Tail(s)) : Tail(s)[i] = s[i + 1]
<1> DEFINE S == ToSet(s)
<1>1. s \in Seq(S)
  BY DEF IsSeq
<1> HIDE DEF S
<1>2. /\ Tail(s) \in Seq(S) /\ Len(Tail(s)) = Len(s) - 1
      /\ \A i \in 1..Len(Tail(s)) : Tail(s)[i] = s[i + 1]
  BY <1>1, HeadTailProperties
<1>3. IsSeq(Tail(s))
  BY <1>2, SeqIsSeq
<1>4. Len(s) \in Nat \ {0}
  BY <1>1, EmptySeq
<1>5. Head(s) = s[1]
  BY <1>1, <1>4
<1> QED
  BY <1>2, <1>3, <1>4, <1>5

(* A function on the numbers up to n.                                      *)
LEMMA FcnIsSeq ==
  ASSUME NEW n \in Nat, NEW f, f = [i \in 1..n |-> f[i]]
  PROVE  IsSeq(f) /\ Len(f) = n
<1>1. f \in [1..n -> {f[i] : i \in 1..n}]
  <2> DEFINE g == [i \in 1..n |-> f[i]]
  <2>1. g \in [1..n -> {f[i] : i \in 1..n}]
    OBVIOUS
  <2> QED
    BY <2>1
<1>2. f \in Seq({f[i] : i \in 1..n}) /\ Len(f) = n
  BY <1>1
<1> QED
  BY <1>2, SeqIsSeq

(* The elements of a sequence at indices.                                  *)
LEMMA SelectIsSeq ==
  ASSUME NEW s, IsSeq(s), NEW I
  PROVE  /\ IsSeq(Select(s, I))
         /\ \E g : Places(g, s, I, Select(s, I))
<1>1. s \in Seq(ToSet(s))
  BY DEF IsSeq
<1>2. Select(s, I) \in Seq(ToSet(s))
  BY <1>1, SelectMaps
<1> QED
  BY <1>1, <1>2, SelectMaps, SeqIsSeq

(* So are its elements in an order, if they were.                          *)
LEMMA SelectRanked ==
  ASSUME NEW s, IsSeq(s), NEW I, NEW R, \A i, j \in 1..Len(s) : i < j => <<s[i], s[j]>> \in R
  PROVE  Ranked(R, Select(s, I), {s[i] : i \in Part(I, Len(s))})
<1> DEFINE r == Select(s, I)
           S == {s[i] : i \in Part(I, Len(s))}
<1>1. PICK g : Places(g, s, I, r)
  BY SelectIsSeq
<1>2. IsSeq(r)
  BY SelectIsSeq
<1> HIDE DEF r
<1>3. \A x \in ToSet(r) : x \in S
  <2> SUFFICES ASSUME NEW k \in 1..Len(r) PROVE r[k] \in S
    BY <1>2, IsSeqLen DEF ToSet
  <2> QED
    BY <1>1 DEF Part, Places
<1>4. r \in Seq(S)
  <2> HIDE DEF S
  <2> QED
    BY <1>2, <1>3, SeqMonotonic DEF IsSeq
<1>5. \A j, k \in 1..Len(r) : j < k => <<r[j], r[k]>> \in R
  BY <1>1 DEF Places
<1>6. \A x \in S : \E k \in 1..Len(r) : r[k] = x
  BY <1>1 DEF Part, Places
<1> QED
  BY <1>4, <1>5, <1>6 DEF Ranked, r

-----------------------------------------------------------------------------
(* The events of a market.                                                 *)

Stamps == {"txn", "idx", "time"}

(* An event as a call emits it.                                            *)
FreshEvent(e) ==
  /\ DOMAIN e \cap Stamps = {}
  /\ "kind" \in DOMAIN e /\ e.kind \in Tables
  /\ e.kind = "place" => "type" \in DOMAIN e /\ e.type \in AllTypes
  /\ e.kind = "fill" => {"order", "taker"} \subseteq DOMAIN e

(* What a logged event has kept of it.                                     *)
SameEvent(x, e) ==
  /\ x.kind = e.kind
  /\ e.kind = "place" => x.type = e.type
  /\ e.kind = "fill" => x.order = e.order /\ x.taker = e.taker

LEMMA Extended ==
  ASSUME NEW e, FreshEvent(e), NEW t, NEW i, NEW c, NEW x,
         x = Extend(e, [txn |-> t, idx |-> i, time |-> c])
  PROVE  x.txn = t /\ x.idx = i /\ SameEvent(x, e)
<1> DEFINE more == [txn |-> t, idx |-> i, time |-> c]
<1>1. DOMAIN more = Stamps /\ more["txn"] = t /\ more["idx"] = i
  BY DEF Stamps
<1>2. x = [f \in DOMAIN e \cup DOMAIN more |-> IF f \in DOMAIN e THEN e[f] ELSE more[f]]
  BY DEF Extend
<1> HIDE DEF more
<1>3. x["txn"] = t /\ x["idx"] = i
  <2>1. "txn" \in Stamps /\ "idx" \in Stamps /\ "txn" \notin DOMAIN e /\ "idx" \notin DOMAIN e
    BY DEF FreshEvent, Stamps
  <2> QED
    BY <1>1, <1>2, <2>1
<1>4. \A f \in DOMAIN e : x[f] = e[f]
  BY <1>2
<1>5. x["kind"] = e["kind"]
  BY <1>4 DEF FreshEvent
<1>6. e["kind"] = "place" => x["type"] = e["type"]
  BY <1>4 DEF FreshEvent
<1>7. e["kind"] = "fill" => x["order"] = e["order"] /\ x["taker"] = e["taker"]
  BY <1>4 DEF FreshEvent
<1> QED
  BY <1>3, <1>5, <1>6, <1>7 DEF SameEvent

(* Two fills of one trade.                                                 *)
SameTrade(e, f) == e.kind = "fill" /\ f.kind = "fill" /\ Trade(e) = Trade(f)

AtMostTwo(s) ==
  \A i, j, k \in 1..Len(s) : i < j /\ j < k /\ SameTrade(s[i], s[j]) => ~SameTrade(s[j], s[k])

Paired(s, i) == \E j \in 1..Len(s) : j # i /\ SameTrade(s[i], s[j])

(* Whether both sides of a fill have handles.                              *)
BothHear(orders, t) ==
  /\ orders[t[1]].type # "coins"
  /\ orders[t[1]].account \notin Legacy /\ orders[t[2]].account \notin Legacy

-----------------------------------------------------------------------------
(* The invariant of the market.                                            *)

OrdersTyped(orders) ==
  /\ IsSeq(orders)
  /\ \A id \in 1..Len(orders) :
       /\ {"account", "type"} \subseteq DOMAIN orders[id]
       /\ orders[id].account \in Accounts /\ orders[id].type \in AllTypes

(* Accounts and types of orders stay.                                      *)
Keeps(old, new) ==
  /\ Len(old) <= Len(new)
  /\ \A id \in 1..Len(old) :
       new[id].account = old[id].account /\ new[id].type = old[id].type

(* A side of the book lists orders, of n, once each.                       *)
BookSide(q, n) ==
  /\ IsSeq(q)
  /\ \A i \in 1..Len(q) : "id" \in DOMAIN q[i] /\ q[i].id \in 1..n
  /\ \A i, j \in 1..Len(q) : q[i].id = q[j].id => i = j

(* A fill is between orders of two accounts.                               *)
FillOf(orders, e) ==
  /\ e.order \in 1..Len(orders) /\ e.taker \in 1..Len(orders)
  /\ orders[e.order].account # orders[e.taker].account

Logged(e, orders) ==
  /\ e.kind \in Tables /\ e.idx \in Nat /\ e.txn \in Nat \ {0}
  /\ e.kind = "place" => e.type \in AllTypes
  /\ e.kind = "fill" => FillOf(orders, e)

VersionsTyped ==
  /\ version \in Nat /\ indexed \in Nat /\ indexed <= version
  /\ DOMAIN ledger = 0..version
  /\ \A v \in 0..version, side \in Sides : IsSeq(ledger[v].book[side])

BookTyped ==
  /\ DOMAIN book = Sides
  /\ \A side \in Sides : BookSide(book[side], Len(Orders))

LogTyped ==
  /\ IsSeq(log)
  /\ \A i \in 1..Len(log) : Logged(log[i], Orders) /\ log[i].txn <= version

(* Trades are those of one transaction, notified twice at most, and twice  *)
(* if both sides hear of it.                                               *)
LogOrdered ==
  /\ \A i, j \in 1..Len(log) : i < j => Before(log[i], log[j])
  /\ \A i, j \in 1..Len(log) : SameTrade(log[i], log[j]) => log[i].txn = log[j].txn
  /\ AtMostTwo(log)
  /\ \A i \in 1..Len(log) :
       log[i].kind = "fill" /\ BothHear(Orders, Trade(log[i])) => Paired(log, i)

ChainInv ==
  /\ VersionsTyped /\ OrdersTyped(Orders) /\ BookTyped /\ LogTyped /\ LogOrdered
  /\ Accounts \ Legacy \subseteq handles

(* What a step of the market leaves as it was.                             *)
ChainGrows ==
  /\ indexed <= indexed' /\ indexed' <= version'
  /\ Len(log) <= Len(log') /\ \A i \in 1..Len(log) : log'[i] = log[i]
  /\ indexed' # indexed => log' = log
  /\ Keeps(Orders, Orders')
  /\ \A v \in 0..indexed : ledger'[v] = ledger[v]

(* Events that a call may emit as it leaves these orders.                  *)
GoodEvents(events, orders) ==
  /\ IsSeq(events)
  /\ \A k \in 1..Len(events) : FreshEvent(events[k])
  /\ \A k \in 1..Len(events) :
       events[k].kind = "fill" =>
         FillOf(orders, events[k]) /\ events[k].taker \notin 1..Len(Orders)
  /\ AtMostTwo(events)
  /\ \A k \in 1..Len(events) :
       events[k].kind = "fill" /\ BothHear(orders, Trade(events[k])) => Paired(events, k)

-----------------------------------------------------------------------------
(* Events are appended, later than those before.                           *)
LEMMA Emitted ==
  ASSUME VersionsTyped, LogTyped, LogOrdered,
         NEW fresh \in BOOLEAN, NEW events, IsSeq(events),
         \A k \in 1..Len(events) : FreshEvent(events[k]),
         Emit(fresh, events)
  PROVE  /\ version' \in Nat /\ version <= version' /\ indexed < version'
         /\ IsSeq(log') /\ Len(log') = Len(log) + Len(events)
         /\ \A i \in 1..Len(log) : log'[i] = log[i]
         /\ \E tail \in Nat :
              /\ \A i \in 1..Len(log) :
                   log[i].txn < version' \/ (log[i].txn = version' /\ log[i].idx <= tail)
              /\ \A k \in 1..Len(events) :
                   /\ log'[Len(log) + k].txn = version' /\ log'[Len(log) + k].idx = tail + k
                   /\ SameEvent(log'[Len(log) + k], events[k])
<1> DEFINE n == Len(log)
           tail == IF fresh THEN 0 ELSE log[n].idx
           time == IF fresh THEN clock ELSE log[n].time
           more(i) == [txn |-> version', idx |-> tail + i, time |-> time]
           new == [i \in DOMAIN events |-> Extend(events[i], more(i))]
<1>1. n \in Nat /\ Len(events) \in Nat /\ DOMAIN events = 1..Len(events)
  BY IsSeqLen DEF LogTyped
<1>2. /\ fresh \/ CanContinue
      /\ version' = IF fresh THEN version + 1 ELSE version
      /\ log' = log \o new
  BY DEF Emit
<1>3. version' \in Nat /\ version <= version' /\ indexed < version'
  BY <1>2 DEF VersionsTyped, CanContinue
<1>4. ~fresh => n \in 1..n /\ log[n].txn = version' /\ log[n].idx \in Nat
  <2> SUFFICES ASSUME ~fresh PROVE n \in 1..n /\ log[n].txn = version' /\ log[n].idx \in Nat
    OBVIOUS
  <2>1. log # << >> /\ log[n].txn = version
    BY <1>2 DEF CanContinue
  <2>2. n \in Nat \ {0}
    BY <2>1, EmptySeq DEF LogTyped, IsSeq
  <2> QED
    BY <1>2, <2>1, <2>2 DEF LogTyped, Logged
<1>5. tail \in Nat
  BY <1>4
<1>6. \A i \in 1..n : log[i].txn < version' \/ (log[i].txn = version' /\ log[i].idx <= tail)
  <2> SUFFICES ASSUME NEW i \in 1..n
               PROVE  log[i].txn < version' \/ (log[i].txn = version' /\ log[i].idx <= tail)
    OBVIOUS
  <2>1. log[i].txn \in Nat /\ log[i].txn <= version /\ log[i].idx \in Nat
    BY DEF LogTyped, Logged
  <2>2. CASE fresh
    BY <1>2, <2>1, <2>2 DEF VersionsTyped
  <2>3. CASE ~fresh
    <3>1. i = n \/ Before(log[i], log[n])
      BY <1>1, <1>4, <2>3 DEF LogOrdered
    <3>2. tail = log[n].idx
      BY <2>3
    <3> QED
      BY <1>4, <2>1, <2>3, <3>1, <3>2 DEF Before
  <2> QED
    BY <2>2, <2>3
<1> HIDE DEF tail, time, n
<1>7. IsSeq(new) /\ Len(new) = Len(events)
  <2>1. new = [i \in 1..Len(events) |-> new[i]]
    BY <1>1
  <2> HIDE DEF new
  <2> QED
    BY <1>1, <2>1, FcnIsSeq
<1>8. \A k \in 1..Len(events) :
        new[k].txn = version' /\ new[k].idx = tail + k /\ SameEvent(new[k], events[k])
  <2> SUFFICES ASSUME NEW k \in 1..Len(events)
               PROVE  new[k].txn = version' /\ new[k].idx = tail + k /\ SameEvent(new[k], events[k])
    OBVIOUS
  <2> DEFINE x == new[k]
             e == events[k]
  <2>1. x = Extend(e, [txn |-> version', idx |-> tail + k, time |-> time])
    BY <1>1
  <2> HIDE DEF x, e, new
  <2>2. FreshEvent(e)
    BY DEF e
  <2>3. x.txn = version' /\ x.idx = tail + k /\ SameEvent(x, e)
    BY <2>1, <2>2, Extended
  <2> QED
    BY <2>3 DEF x, e
<1> HIDE DEF new
<1>9. /\ IsSeq(log') /\ Len(log') = n + Len(events)
      /\ \A i \in 1..n : log'[i] = log[i]
      /\ \A k \in 1..Len(events) : log'[n + k] = new[k]
  <2>1. IsSeq(log)
    BY DEF LogTyped
  <2>2. IsSeq(log \o new) /\ Len(log \o new) = Len(log) + Len(new)
    BY <1>7, <2>1, ConcatIsSeq
  <2>3. \A i \in 1..Len(log) : (log \o new)[i] = log[i]
    BY <1>7, <2>1, ConcatIsSeq
  <2>4. \A k \in 1..Len(new) : (log \o new)[Len(log) + k] = new[k]
    <3> SUFFICES ASSUME NEW k \in 1..Len(new) PROVE (log \o new)[Len(log) + k] = new[k]
      OBVIOUS
    <3>1. IsSeq(new)
      BY <1>7
    <3> QED
      BY <2>1, <3>1, ConcatIsSeq
  <2> QED
    BY <1>2, <1>7, <2>2, <2>3, <2>4 DEF n
<1> QED
  BY <1>3, <1>5, <1>6, <1>8, <1>9 DEF n

-----------------------------------------------------------------------------
(* Fills of orders that stay as they are.                                  *)
LEMMA LoggedKept ==
  ASSUME NEW old, NEW new, Keeps(old, new), Len(old) \in Nat, Len(new) \in Nat,
         NEW e, Logged(e, old)
  PROVE  Logged(e, new)
BY DEF Logged, FillOf, Keeps

(* The trades of l, followed by other ones in events, are those of s.      *)
TradesOf(s, l, m, events, n) ==
  /\ \A i, j \in 1..m + n : SameTrade(s[i], s[j]) => (i <= m <=> j <= m)
  /\ \A i, j \in 1..m : SameTrade(s[i], s[j]) <=> SameTrade(l[i], l[j])
  /\ \A i, j \in 1..n : SameTrade(s[m + i], s[m + j]) <=> SameTrade(events[i], events[j])

(* Events of fresh trades after those of others.                           *)
LEMMA TradesAppended ==
  ASSUME NEW m \in Nat, NEW l, NEW n \in Nat, NEW s, NEW old, IsSeq(s), Len(s) = m + n,
         IsSeq(l), Len(l) = m, \A i \in 1..m : s[i] = l[i],
         \A i \in 1..m : l[i].kind = "fill" => l[i].taker \in old,
         NEW events, IsSeq(events), Len(events) = n,
         \A k \in 1..n : SameEvent(s[m + k], events[k]),
         \A k \in 1..n : events[k].kind = "fill" => events[k].taker \notin old
  PROVE  TradesOf(s, l, m, events, n)
<1>1. \A i \in 1..m : s[i].kind = "fill" => s[i].taker \in old
  OBVIOUS
<1>2. \A i \in m + 1..m + n : s[i].kind = "fill" => s[i].taker \notin old
  <2> SUFFICES ASSUME NEW i \in m + 1..m + n, s[i].kind = "fill" PROVE s[i].taker \notin old
    OBVIOUS
  <2>1. i - m \in 1..n /\ m + (i - m) = i
    OBVIOUS
  <2>2. SameEvent(s[i], events[i - m])
    BY <2>1
  <2> QED
    BY <2>1, <2>2 DEF SameEvent
<1>3. \A i, j \in 1..m + n : SameTrade(s[i], s[j]) => (i <= m <=> j <= m)
  <2> SUFFICES ASSUME NEW i \in 1..m + n, NEW j \in 1..m + n, SameTrade(s[i], s[j]), i <= m, ~(j <= m)
               PROVE  FALSE
    BY DEF SameTrade
  <2>1. i \in 1..m /\ j \in m + 1..m + n
    OBVIOUS
  <2>2. s[i].kind = "fill" /\ s[j].kind = "fill" /\ s[i].taker = s[j].taker
    BY DEF SameTrade, Trade
  <2> QED
    BY <1>1, <1>2, <2>1, <2>2
<1>4. \A i, j \in 1..m : SameTrade(s[i], s[j]) <=> SameTrade(l[i], l[j])
  OBVIOUS
<1>5. \A i, j \in 1..n : SameTrade(s[m + i], s[m + j]) <=> SameTrade(events[i], events[j])
  <2> SUFFICES ASSUME NEW i \in 1..n, NEW j \in 1..n
               PROVE  SameTrade(s[m + i], s[m + j]) <=> SameTrade(events[i], events[j])
    OBVIOUS
  <2>1. SameEvent(s[m + i], events[i]) /\ SameEvent(s[m + j], events[j])
    OBVIOUS
  <2> QED
    BY <2>1 DEF SameEvent, SameTrade, Trade
<1> QED
  BY <1>3, <1>4, <1>5 DEF TradesOf

(* At most two of each, before and after.                                  *)
LEMMA TwoAppended ==
  ASSUME NEW m \in Nat, NEW l, NEW n \in Nat, NEW s, NEW events,
         Len(l) = m, Len(events) = n, Len(s) = m + n, TradesOf(s, l, m, events, n)
  PROVE  /\ AtMostTwo(l) /\ AtMostTwo(events) => AtMostTwo(s)
         /\ \A i \in 1..m : Paired(l, i) => Paired(s, i)
         /\ \A k \in 1..n : Paired(events, k) => Paired(s, m + k)
<1>0. /\ \A i, j \in 1..m + n : SameTrade(s[i], s[j]) => (i <= m <=> j <= m)
      /\ \A i, j \in 1..m : SameTrade(s[i], s[j]) <=> SameTrade(l[i], l[j])
      /\ \A i, j \in 1..n : SameTrade(s[m + i], s[m + j]) <=> SameTrade(events[i], events[j])
  BY DEF TradesOf
<1>1. ASSUME AtMostTwo(l), AtMostTwo(events) PROVE AtMostTwo(s)
  <2> SUFFICES ASSUME NEW i \in 1..m + n, NEW j \in 1..m + n, NEW k \in 1..m + n,
                      i < j, j < k, SameTrade(s[i], s[j]), SameTrade(s[j], s[k])
               PROVE  FALSE
    BY DEF AtMostTwo
  <2>1. CASE j <= m
    <3>1. i \in 1..m /\ j \in 1..m /\ k \in 1..m
      BY <1>0, <2>1
    <3> QED
      BY <1>0, <1>1, <3>1 DEF AtMostTwo
  <2>2. CASE ~(j <= m)
    <3> DEFINE a == i - m
               b == j - m
               c == k - m
    <3>1. /\ a \in 1..n /\ b \in 1..n /\ c \in 1..n /\ a < b /\ b < c
          /\ m + a = i /\ m + b = j /\ m + c = k
      BY <1>0, <2>2
    <3> HIDE DEF a, b, c
    <3>2. SameTrade(events[a], events[b]) /\ SameTrade(events[b], events[c])
      BY <1>0, <3>1
    <3> QED
      BY <1>1, <3>1, <3>2 DEF AtMostTwo
  <2> QED
    BY <2>1, <2>2
<1>2. ASSUME NEW i \in 1..m, Paired(l, i) PROVE Paired(s, i)
  <2>1. PICK j \in 1..m : j # i /\ SameTrade(l[i], l[j])
    BY <1>2 DEF Paired
  <2>2. j \in 1..m + n
    OBVIOUS
  <2> QED
    BY <1>0, <2>1, <2>2 DEF Paired
<1>3. ASSUME NEW k \in 1..n, Paired(events, k) PROVE Paired(s, m + k)
  <2>1. PICK j \in 1..n : j # k /\ SameTrade(events[k], events[j])
    BY <1>3 DEF Paired
  <2>2. m + j \in 1..m + n /\ m + j # m + k /\ SameTrade(s[m + k], s[m + j])
    BY <1>0, <2>1
  <2> QED
    BY <2>2 DEF Paired
<1> QED
  BY <1>1, <1>2, <1>3

(* A call that emits good events keeps the invariant.                      *)
LEMMA CallKeeps ==
  ASSUME ChainInv,
         NEW fresh \in BOOLEAN, NEW events, NEW orders, Emit(fresh, events), Record(orders),
         UNCHANGED <<clock, indexed, handles>>,
         GoodEvents(events, orders), OrdersTyped(orders), Keeps(Orders, orders),
         DOMAIN book' = Sides, \A side \in Sides : BookSide(book'[side], Len(orders))
  PROVE  ChainInv' /\ ChainGrows
<1> DEFINE m == Len(log)
           n == Len(events)
<1>1. /\ version \in Nat /\ indexed \in Nat /\ indexed <= version
      /\ IsSeq(log) /\ IsSeq(events) /\ IsSeq(Orders) /\ IsSeq(orders)
  BY DEF ChainInv, VersionsTyped, LogTyped, GoodEvents, OrdersTyped
<1>2. m \in Nat /\ n \in Nat /\ Len(Orders) \in Nat /\ Len(orders) \in Nat
  BY <1>1, IsSeqLen
<1>3. PICK tail \in Nat :
      /\ version' \in Nat /\ version <= version' /\ indexed < version'
      /\ IsSeq(log') /\ Len(log') = m + n
      /\ \A i \in 1..m : log'[i] = log[i]
      /\ \A i \in 1..m : log[i].txn < version' \/ (log[i].txn = version' /\ log[i].idx <= tail)
      /\ \A k \in 1..n :
           /\ log'[m + k].txn = version' /\ log'[m + k].idx = tail + k
           /\ SameEvent(log'[m + k], events[k])
  BY Emitted DEF ChainInv, GoodEvents
<1>4. /\ DOMAIN ledger' = 0..version'
      /\ ledger'[version'].orders = orders /\ ledger'[version'].book = book'
      /\ \A v \in 0..version' : v # version' => ledger'[v] = ledger[v]
  BY <1>3 DEF Record
<1>5. Orders' = orders
  BY <1>4 DEF Orders
<1>6. ChainGrows
  <2>1. \A v \in 0..indexed : ledger'[v] = ledger[v]
    BY <1>1, <1>3, <1>4
  <2> QED
    BY <1>1, <1>2, <1>3, <1>5, <2>1 DEF ChainGrows
<1>7. VersionsTyped'
  <2>1. ASSUME NEW v \in 0..version', NEW side \in Sides
        PROVE  IsSeq(ledger'[v].book[side])
    <3>1. CASE v = version'
      BY <1>4, <3>1 DEF BookSide
    <3>2. CASE v # version'
      <4>1. v \in 0..version /\ ledger'[v] = ledger[v]
        <5>1. version' <= version + 1
          BY <1>1 DEF Emit
        <5> QED
          BY <1>1, <1>3, <1>4, <3>2, <5>1
      <4> QED
        BY <4>1 DEF ChainInv, VersionsTyped
    <3> QED
      BY <3>1, <3>2
  <2> QED
    BY <1>1, <1>3, <1>4, <2>1 DEF VersionsTyped
<1>8. OrdersTyped(Orders)' /\ BookTyped' /\ Accounts \ Legacy \subseteq handles'
  BY <1>5 DEF ChainInv, BookTyped, OrdersTyped
<1>9. \A i \in 1..m : log[i].txn \in Nat /\ log[i].txn <= version /\ log[i].idx \in Nat
  BY DEF ChainInv, LogTyped, Logged
<1>10. ASSUME NEW i \in 1..m + n
       PROVE  Logged(log'[i], orders) /\ log'[i].txn <= version'
  <2>1. CASE i \in 1..m
    <3>1. log'[i] = log[i] /\ Logged(log[i], Orders) /\ log[i].txn <= version
      BY <1>3, <2>1 DEF ChainInv, LogTyped
    <3>2. Logged(log[i], orders)
      BY <1>2, <3>1, LoggedKept
    <3> QED
      BY <1>1, <1>3, <1>9, <2>1, <3>1, <3>2
  <2>2. CASE i \notin 1..m
    <3> DEFINE k == i - m
    <3>1. k \in 1..n /\ i = m + k /\ k \in Nat
      BY <1>2, <2>2
    <3> HIDE DEF k
    <3>2. /\ log'[i].txn = version' /\ log'[i].idx = tail + k
          /\ SameEvent(log'[i], events[k])
      BY <1>3, <3>1
    <3>3. FreshEvent(events[k])
          /\ (events[k].kind = "fill" => FillOf(orders, events[k]))
      BY <3>1 DEF GoodEvents
    <3>4. version' \in Nat \ {0} /\ tail + k \in Nat
      BY <1>1, <1>3, <3>1
    <3> QED
      BY <3>2, <3>3, <3>4 DEF Logged, SameEvent, FreshEvent, FillOf
  <2> QED
    BY <2>1, <2>2
<1>11. LogTyped'
  BY <1>3, <1>5, <1>10 DEF LogTyped
<1>12. \A i, j \in 1..m + n : i < j => Before(log'[i], log'[j])
  <2> SUFFICES ASSUME NEW i \in 1..m + n, NEW j \in 1..m + n, i < j
               PROVE  Before(log'[i], log'[j])
    OBVIOUS
  <2>1. CASE j \in 1..m
    <3>1. i \in 1..m
      BY <1>2, <2>1
    <3> QED
      BY <1>3, <2>1, <3>1 DEF ChainInv, LogOrdered
  <2>2. CASE j \notin 1..m
    <3> DEFINE k == j - m
    <3>1. k \in 1..n /\ j = m + k /\ k \in Nat \ {0}
      BY <1>2, <2>2
    <3> HIDE DEF k
    <3>2. log'[j].txn = version' /\ log'[j].idx = tail + k
      BY <1>3, <3>1
    <3>3. CASE i \in 1..m
      <4>1. log'[i] = log[i]
        BY <1>3, <3>3
      <4> QED
        BY <1>3, <1>9, <3>1, <3>2, <3>3, <4>1 DEF Before
    <3>4. CASE i \notin 1..m
      <4> DEFINE h == i - m
      <4>1. h \in 1..n /\ i = m + h /\ h < k
        BY <1>2, <3>1, <3>4
      <4> HIDE DEF h
      <4>2. log'[i].txn = version' /\ log'[i].idx = tail + h
        BY <1>3, <4>1
      <4> QED
        BY <1>3, <3>1, <3>2, <4>1, <4>2 DEF Before
    <3> QED
      BY <3>3, <3>4
  <2> QED
    BY <2>1, <2>2
<1>13. TradesOf(log', log, m, events, n)
  <2>1. \A i \in 1..m : log[i].kind = "fill" => log[i].taker \in 1..Len(Orders)
    BY DEF ChainInv, LogTyped, Logged, FillOf
  <2>2. \A k \in 1..n : events[k].kind = "fill" => events[k].taker \notin 1..Len(Orders)
    BY DEF GoodEvents
  <2> DEFINE s == log'
             old == 1..Len(Orders)
  <2>3. /\ IsSeq(s) /\ Len(s) = m + n /\ \A i \in 1..m : s[i] = log[i]
        /\ \A k \in 1..n : SameEvent(s[m + k], events[k])
        /\ \A i \in 1..m : log[i].kind = "fill" => log[i].taker \in old
        /\ \A k \in 1..n : events[k].kind = "fill" => events[k].taker \notin old
    BY <1>3, <2>1, <2>2
  <2> HIDE DEF s, old, m, n
  <2>4. TradesOf(s, log, m, events, n)
    BY <1>1, <1>2, <2>3, TradesAppended DEF m, n
  <2> QED
    BY <2>4 DEF s
<1>14. /\ AtMostTwo(log) /\ AtMostTwo(events) => AtMostTwo(log')
       /\ \A i \in 1..m : Paired(log, i) => Paired(log', i)
       /\ \A k \in 1..n : Paired(events, k) => Paired(log', m + k)
  <2> DEFINE s == log'
  <2>1. Len(s) = m + n
    BY <1>3
  <2> HIDE DEF s
  <2>2. TradesOf(s, log, m, events, n)
    BY <1>13 DEF s
  <2> HIDE DEF m, n
  <2>3. /\ AtMostTwo(log) /\ AtMostTwo(events) => AtMostTwo(s)
        /\ \A i \in 1..m : Paired(log, i) => Paired(s, i)
        /\ \A k \in 1..n : Paired(events, k) => Paired(s, m + k)
    BY <1>2, <2>1, <2>2, TwoAppended DEF m, n
  <2> QED
    BY <2>3 DEF s
<1>15. ASSUME NEW i \in 1..m + n, NEW j \in 1..m + n, SameTrade(log'[i], log'[j])
       PROVE  log'[i].txn = log'[j].txn
  <2>1. CASE i \in 1..m
    <3>1. j \in 1..m
      BY <1>2, <1>13, <1>15, <2>1 DEF TradesOf
    <3>2. SameTrade(log[i], log[j])
      BY <1>13, <1>15, <2>1, <3>1 DEF TradesOf
    <3>3. log[i].txn = log[j].txn
      BY <2>1, <3>1, <3>2 DEF ChainInv, LogOrdered
    <3> QED
      BY <1>3, <2>1, <3>1, <3>3
  <2>2. CASE i \notin 1..m
    <3>1. j \notin 1..m
      BY <1>2, <1>13, <1>15, <2>2 DEF TradesOf
    <3>2. i - m \in 1..n /\ i = m + (i - m) /\ j - m \in 1..n /\ j = m + (j - m)
      BY <1>2, <2>2, <3>1
    <3> QED
      BY <1>3, <3>2
  <2> QED
    BY <2>1, <2>2
<1>16. ASSUME NEW i \in 1..m + n, log'[i].kind = "fill", BothHear(orders, Trade(log'[i]))
       PROVE  Paired(log', i)
  <2>1. CASE i \in 1..m
    <3>1. log'[i] = log[i] /\ FillOf(Orders, log[i])
      BY <1>3, <1>16, <2>1 DEF ChainInv, LogTyped, Logged
    <3>2. BothHear(Orders, Trade(log[i]))
      BY <1>16, <3>1 DEF BothHear, Trade, FillOf, Keeps
    <3>3. Paired(log, i)
      BY <1>16, <2>1, <3>1, <3>2 DEF ChainInv, LogOrdered
    <3> QED
      BY <1>14, <2>1, <3>3
  <2>2. CASE i \notin 1..m
    <3> DEFINE k == i - m
    <3>1. k \in 1..n /\ i = m + k
      BY <1>2, <2>2
    <3> HIDE DEF k
    <3>2. SameEvent(log'[i], events[k])
      BY <1>3, <3>1
    <3>3. events[k].kind = "fill" /\ Trade(events[k]) = Trade(log'[i])
      BY <1>16, <3>2 DEF SameEvent, Trade
    <3>4. Paired(events, k)
      BY <1>16, <3>1, <3>3 DEF GoodEvents
    <3> QED
      BY <1>14, <3>1, <3>4
  <2> QED
    BY <2>1, <2>2
<1>17. LogOrdered'
  <2>1. AtMostTwo(log')
    BY <1>14 DEF ChainInv, LogOrdered, GoodEvents
  <2> QED
    BY <1>3, <1>5, <1>12, <1>15, <1>16, <2>1 DEF LogOrdered
<1> QED
  BY <1>6, <1>7, <1>8, <1>11, <1>17 DEF ChainInv

-----------------------------------------------------------------------------
(* Sides of the book.                                                      *)

(* r has elements of q at indices in I.                                    *)
From(r, q, I) ==
  \A k \in 1..Len(r) : \E i \in 1..Len(q) : i \in I /\ r[k] = q[i]

(* Orders of a side at indices.                                            *)
LEMMA SideSelect ==
  ASSUME NEW n, NEW q, BookSide(q, n), NEW I
  PROVE  BookSide(Select(q, I), n) /\ From(Select(q, I), q, I)
<1> DEFINE r == Select(q, I)
<1>1. IsSeq(q)
  BY DEF BookSide
<1>2. IsSeq(r)
  BY <1>1, SelectIsSeq
<1>3. PICK g : Places(g, q, I, r)
  BY <1>1, SelectIsSeq
<1> HIDE DEF r
<1>4. Len(r) \in Nat /\ Len(q) \in Nat
  BY <1>1, <1>2, IsSeqLen
<1>5. \A k \in 1..Len(r) : g[k] \in 1..Len(q) /\ g[k] \in I /\ r[k] = q[g[k]]
  BY <1>3 DEF Places
<1>6. ASSUME NEW j \in 1..Len(r), NEW k \in 1..Len(r), r[j].id = r[k].id
      PROVE  j = k
  <2>1. g[j] = g[k] /\ g[j] \in 1..Len(q)
    BY <1>5, <1>6 DEF BookSide
  <2>2. ~(j < k) /\ ~(k < j)
    BY <1>3, <1>4, <2>1 DEF Places
  <2> QED
    BY <1>4, <2>2
<1>7. BookSide(r, n)
  BY <1>2, <1>5, <1>6 DEF BookSide
<1>8. From(r, q, I)
  BY <1>5 DEF From
<1> QED
  BY <1>7, <1>8 DEF r

(* Parts of a side at different indices.                                   *)
LEMMA SideParts ==
  ASSUME NEW n, NEW q, BookSide(q, n), NEW I, NEW J, I \cap J = {}
  PROVE  \A j \in 1..Len(Select(q, I)), k \in 1..Len(Select(q, J)) :
           Select(q, I)[j].id # Select(q, J)[k].id
<1> SUFFICES ASSUME NEW j \in 1..Len(Select(q, I)), NEW k \in 1..Len(Select(q, J))
             PROVE  Select(q, I)[j].id # Select(q, J)[k].id
  OBVIOUS
<1>0. From(Select(q, I), q, I) /\ From(Select(q, J), q, J)
  BY SideSelect
<1>1. PICK i1 \in 1..Len(q) : i1 \in I /\ Select(q, I)[j] = q[i1]
  BY <1>0 DEF From
<1>2. PICK i2 \in 1..Len(q) : i2 \in J /\ Select(q, J)[k] = q[i2]
  BY <1>0 DEF From
<1> QED
  BY <1>1, <1>2 DEF BookSide

(* The elements of s are those of q and r.                                 *)
Either(s, q, r) ==
  \A k \in 1..Len(s) : \/ \E i \in 1..Len(q) : s[k] = q[i]
                       \/ \E j \in 1..Len(r) : s[k] = r[j]

LEMMA SideConcat ==
  ASSUME NEW n, NEW q, BookSide(q, n), NEW r, BookSide(r, n),
         \A i \in 1..Len(q), j \in 1..Len(r) : q[i].id # r[j].id
  PROVE  BookSide(q \o r, n) /\ Either(q \o r, q, r)
<1> DEFINE s == q \o r
           m == Len(q)
<1>1. IsSeq(q) /\ IsSeq(r)
  BY DEF BookSide
<1>2. IsSeq(s) /\ Len(s) = m + Len(r) /\ m \in Nat /\ Len(r) \in Nat
  BY <1>1, ConcatIsSeq
<1>3. \A i \in 1..m : s[i] = q[i]
  BY <1>1, ConcatIsSeq
<1>4. \A i \in m + 1..m + Len(r) : i - m \in 1..Len(r) /\ s[i] = r[i - m]
  BY <1>1, ConcatIsSeq
<1> HIDE DEF s, m
<1>5. \A k \in 1..Len(s) : k \in 1..m \/ k \in m + 1..m + Len(r)
  BY <1>2
<1>6. \A i, j \in 1..Len(s) : s[i].id = s[j].id => i = j
  <2> SUFFICES ASSUME NEW i \in 1..Len(s), NEW j \in 1..Len(s), s[i].id = s[j].id
               PROVE  i = j
    OBVIOUS
  <2>1. CASE i \in 1..m /\ j \in 1..m
    BY <1>3, <2>1 DEF BookSide, m
  <2>2. CASE i \in 1..m /\ j \in m + 1..m + Len(r)
    BY <1>3, <1>4, <2>2 DEF m
  <2>3. CASE i \in m + 1..m + Len(r) /\ j \in 1..m
    BY <1>3, <1>4, <2>3 DEF m
  <2>4. CASE i \in m + 1..m + Len(r) /\ j \in m + 1..m + Len(r)
    <3>1. i - m = j - m
      BY <1>4, <2>4 DEF BookSide
    <3> QED
      BY <1>2, <2>4, <3>1
  <2> QED
    BY <1>5, <2>1, <2>2, <2>3, <2>4
<1>7. \A k \in 1..Len(s) : "id" \in DOMAIN s[k] /\ s[k].id \in 1..n
  BY <1>3, <1>4, <1>5 DEF BookSide, m
<1>8. \A k \in 1..Len(s) : \/ \E i \in 1..m : s[k] = q[i]
                           \/ \E j \in 1..Len(r) : s[k] = r[j]
  BY <1>3, <1>4, <1>5
<1>9. BookSide(s, n)
  BY <1>2, <1>6, <1>7 DEF BookSide
<1> QED
  BY <1>8, <1>9 DEF s, m, Either

LEMMA SideMore ==
  ASSUME NEW n \in Nat, NEW m \in Nat, n <= m, NEW q, BookSide(q, n)
  PROVE  BookSide(q, m)
BY DEF BookSide

LEMMA SideOne ==
  ASSUME NEW n, NEW e, "id" \in DOMAIN e, e.id \in 1..n
  PROVE  BookSide(<<e>>, n)
<1>1. <<e>> \in Seq({e}) /\ Len(<<e>>) = 1 /\ <<e>>[1] = e
  OBVIOUS
<1>2. IsSeq(<<e>>)
  BY <1>1, SeqIsSeq
<1> QED
  BY <1>1, <1>2 DEF BookSide

(* An order that is not in a side can be enqueued.                         *)
LEMMA SideEnqueue ==
  ASSUME NEW n, NEW q, BookSide(q, n), NEW side, NEW e, "id" \in DOMAIN e, e.id \in 1..n,
         \A i \in 1..Len(q) : q[i].id # e.id
  PROVE  BookSide(Enqueue(q, side, e), n)
<1> DEFINE better == {i \in DOMAIN q : IF side = "ask" THEN q[i].price <= e.price
                                       ELSE q[i].price >= e.price}
           a == Select(q, better)
           b == Select(q, DOMAIN q \ better)
<1>1. Enqueue(q, side, e) = a \o <<e>> \o b
  BY DEF Enqueue
<1>2. better \cap (DOMAIN q \ better) = {}
  OBVIOUS
<1> HIDE DEF better
<1>3. BookSide(a, n) /\ From(a, q, better)
  BY SideSelect
<1>4. BookSide(b, n) /\ From(b, q, DOMAIN q \ better)
  BY SideSelect
<1>5. \A j \in 1..Len(a), k \in 1..Len(b) : a[j].id # b[k].id
  BY <1>2, SideParts
<1> HIDE DEF a, b
<1>6. BookSide(<<e>>, n) /\ Len(<<e>>) = 1 /\ <<e>>[1] = e
  BY SideOne
<1>7. \A i \in 1..Len(a), j \in 1..Len(<<e>>) : a[i].id # <<e>>[j].id
  BY <1>3, <1>6 DEF From
<1>8. BookSide(a \o <<e>>, n) /\ Either(a \o <<e>>, a, <<e>>)
  <2> DEFINE one == <<e>>
  <2>1. BookSide(one, n) /\ \A i \in 1..Len(a), j \in 1..Len(one) : a[i].id # one[j].id
    BY <1>6, <1>7
  <2> HIDE DEF one
  <2>2. BookSide(a \o one, n) /\ Either(a \o one, a, one)
    BY <1>3, <2>1, SideConcat
  <2> QED
    BY <2>2 DEF one
<1> DEFINE c == a \o <<e>>
<1> HIDE DEF c
<1>9. \A k \in 1..Len(c), j \in 1..Len(b) : c[k].id # b[j].id
  BY <1>4, <1>5, <1>6, <1>8 DEF c, From, Either
<1>10. BookSide(c \o b, n)
  BY <1>4, <1>8, <1>9, SideConcat DEF c
<1> QED
  BY <1>1, <1>10 DEF c

(* The orders of r are among those of q.                                   *)
IdsFrom(r, q) == \A k \in 1..Len(r) : \E i \in 1..Len(q) : r[k].id = q[i].id

(* Orders that a taker has reduced are those that were there.              *)
LEMMA SideReduced ==
  ASSUME NEW n, NEW q, BookSide(q, n), NEW size
  PROVE  BookSide(Reduced(q, size), n) /\ IdsFrom(Reduced(q, size), q)
<1> DEFINE lots == Lots(q, size)
           left == [i \in DOMAIN q |-> [q[i] EXCEPT !.size = @ - lots[i]]]
           I == {i \in DOMAIN left : left[i].size > 0}
<1>1. Reduced(q, size) = Select(left, I)
  BY DEF Reduced
<1>2. IsSeq(q) /\ DOMAIN q = 1..Len(q) /\ Len(q) \in Nat
  BY IsSeqLen DEF BookSide
<1> HIDE DEF lots
<1>3. IsSeq(left) /\ Len(left) = Len(q)
  <2>1. left = [i \in 1..Len(q) |-> left[i]]
    BY <1>2
  <2> HIDE DEF left
  <2> QED
    BY <1>2, <2>1, FcnIsSeq
<1>4. \A i \in 1..Len(q) : "id" \in DOMAIN left[i] /\ left[i].id = q[i].id
  BY <1>2 DEF BookSide
<1> HIDE DEF left, I
<1>5. BookSide(left, n)
  BY <1>3, <1>4 DEF BookSide
<1>6. BookSide(Select(left, I), n) /\ From(Select(left, I), left, I)
  BY <1>5, SideSelect
<1> QED
  BY <1>1, <1>3, <1>4, <1>6 DEF From, IdsFrom

-----------------------------------------------------------------------------
(* The events of a call.                                                   *)

Has(s, t) == \E k \in 1..Len(s) : s[k].kind = "fill" /\ Trade(s[k]) = t

AtMostOne(s) == \A i, j \in 1..Len(s) : SameTrade(s[i], s[j]) => i = j

(* Events, with fills of the orders O by the taker id, one each at most;   *)
(* one of each order in H.                                                 *)
Fills(s, id, O, H) ==
  /\ IsSeq(s)
  /\ \A k \in 1..Len(s) :
       FreshEvent(s[k]) /\ (s[k].kind = "fill" => s[k].taker = id /\ s[k].order \in O)
  /\ AtMostOne(s)
  /\ \A o \in H : Has(s, <<id, o>>)

NoFills(s) ==
  IsSeq(s) /\ \A k \in 1..Len(s) : FreshEvent(s[k]) /\ s[k].kind # "fill"

LEMMA HasConcat ==
  ASSUME NEW a, IsSeq(a), NEW b, IsSeq(b), NEW t
  PROVE  Has(a \o b, t) <=> Has(a, t) \/ Has(b, t)
<1> DEFINE s == a \o b
<1>1. /\ Len(s) = Len(a) + Len(b) /\ Len(a) \in Nat /\ Len(b) \in Nat
      /\ \A i \in 1..Len(a) : s[i] = a[i]
  BY ConcatIsSeq
<1>2. \A i \in 1..Len(b) : s[Len(a) + i] = b[i]
  BY ConcatIsSeq
<1>3. \A i \in Len(a) + 1..Len(a) + Len(b) : i - Len(a) \in 1..Len(b) /\ s[i] = b[i - Len(a)]
  BY ConcatIsSeq
<1> HIDE DEF s
<1>4. ASSUME Has(a, t) PROVE Has(s, t)
  <2>1. PICK k \in 1..Len(a) : a[k].kind = "fill" /\ Trade(a[k]) = t
    BY <1>4 DEF Has
  <2>2. k \in 1..Len(s) /\ s[k] = a[k]
    BY <1>1
  <2> QED
    BY <2>1, <2>2 DEF Has
<1>5. ASSUME Has(b, t) PROVE Has(s, t)
  <2>1. PICK k \in 1..Len(b) : b[k].kind = "fill" /\ Trade(b[k]) = t
    BY <1>5 DEF Has
  <2>2. Len(a) + k \in 1..Len(s) /\ s[Len(a) + k] = b[k]
    BY <1>1, <1>2
  <2> QED
    BY <2>1, <2>2 DEF Has
<1>6. ASSUME Has(s, t) PROVE Has(a, t) \/ Has(b, t)
  <2>1. PICK k \in 1..Len(s) : s[k].kind = "fill" /\ Trade(s[k]) = t
    BY <1>6 DEF Has
  <2>2. CASE k \in 1..Len(a)
    BY <1>1, <2>1, <2>2 DEF Has
  <2>3. CASE k \notin 1..Len(a)
    <3>1. k \in Len(a) + 1..Len(a) + Len(b)
      BY <1>1, <2>3
    <3>2. k - Len(a) \in 1..Len(b) /\ s[k] = b[k - Len(a)]
      BY <1>3, <3>1
    <3> QED
      BY <2>1, <3>2 DEF Has
  <2> QED
    BY <2>2, <2>3
<1> QED
  BY <1>4, <1>5, <1>6 DEF s

(* Events that are no fills, after others or before.                       *)
LEMMA FillsConcat ==
  ASSUME NEW id, NEW O, NEW H, NEW a, NEW b,
         \/ Fills(a, id, O, H) /\ NoFills(b)
         \/ NoFills(a) /\ Fills(b, id, O, H)
  PROVE  Fills(a \o b, id, O, H)
<1> DEFINE s == a \o b
<1>0. IsSeq(a) /\ IsSeq(b)
  BY DEF Fills, NoFills
<1>1. /\ Len(s) = Len(a) + Len(b) /\ Len(a) \in Nat /\ Len(b) \in Nat /\ IsSeq(s)
      /\ \A i \in 1..Len(a) : s[i] = a[i]
  BY <1>0, ConcatIsSeq
<1>3. \A i \in Len(a) + 1..Len(a) + Len(b) : i - Len(a) \in 1..Len(b) /\ s[i] = b[i - Len(a)]
  BY <1>0, ConcatIsSeq
<1>2. \A o \in H : Has(s, <<id, o>>)
  <2> SUFFICES ASSUME NEW o \in H PROVE Has(s, <<id, o>>)
    OBVIOUS
  <2>1. Has(a, <<id, o>>) \/ Has(b, <<id, o>>)
    BY DEF Fills
  <2> QED
    BY <1>0, <2>1, HasConcat
<1> HIDE DEF s
<1>4. \A k \in 1..Len(s) : k \in 1..Len(a) \/ k \in Len(a) + 1..Len(a) + Len(b)
  BY <1>1
<1>5. \A k \in 1..Len(s) :
        FreshEvent(s[k]) /\ (s[k].kind = "fill" => s[k].taker = id /\ s[k].order \in O)
  BY <1>1, <1>3, <1>4 DEF Fills, NoFills
<1>6. ASSUME NEW i \in 1..Len(s), NEW j \in 1..Len(s), SameTrade(s[i], s[j])
      PROVE  i = j
  <2>0. s[i].kind = "fill" /\ s[j].kind = "fill"
    BY <1>6 DEF SameTrade
  <2>1. CASE Fills(a, id, O, H) /\ NoFills(b)
    <3>1. i \in 1..Len(a) /\ j \in 1..Len(a)
      BY <1>3, <1>4, <2>0, <2>1 DEF NoFills
    <3> QED
      BY <1>1, <1>6, <2>1, <3>1 DEF Fills, AtMostOne
  <2>2. CASE NoFills(a) /\ Fills(b, id, O, H)
    <3>1. i \in Len(a) + 1..Len(a) + Len(b) /\ j \in Len(a) + 1..Len(a) + Len(b)
      BY <1>1, <1>4, <2>0, <2>2 DEF NoFills
    <3>2. /\ i - Len(a) \in 1..Len(b) /\ s[i] = b[i - Len(a)]
          /\ j - Len(a) \in 1..Len(b) /\ s[j] = b[j - Len(a)]
      BY <1>3, <3>1
    <3>3. i - Len(a) = j - Len(a)
      BY <1>6, <2>2, <3>2 DEF Fills, AtMostOne
    <3> QED
      BY <1>1, <3>1, <3>3
  <2> QED
    BY <2>1, <2>2
<1> QED
  BY <1>1, <1>2, <1>5, <1>6 DEF Fills, AtMostOne, s

(* The fills of both sides.                                                *)
LEMMA BothSides ==
  ASSUME NEW id, NEW O, NEW G, NEW H, NEW a, NEW b, Fills(a, id, O, G), Fills(b, id, O, H)
  PROVE  /\ IsSeq(a \o b) /\ AtMostTwo(a \o b)
         /\ \A k \in 1..Len(a \o b) :
              /\ FreshEvent((a \o b)[k])
              /\ (a \o b)[k].kind = "fill" =>
                   /\ (a \o b)[k].taker = id /\ (a \o b)[k].order \in O
                   /\ (a \o b)[k].order \in G \cap H => Paired(a \o b, k)
<1> DEFINE s == a \o b
           m == Len(a)
<1>0. IsSeq(a) /\ IsSeq(b)
  BY DEF Fills
<1>1. /\ Len(s) = m + Len(b) /\ m \in Nat /\ Len(b) \in Nat /\ IsSeq(s)
      /\ \A i \in 1..m : s[i] = a[i]
  BY <1>0, ConcatIsSeq
<1>2. \A i \in 1..Len(b) : s[m + i] = b[i]
  <2> SUFFICES ASSUME NEW i \in 1..Len(b) PROVE s[m + i] = b[i]
    OBVIOUS
  <2>1. (a \o b)[Len(a) + i] = b[i]
    BY <1>0, ConcatIsSeq
  <2> QED
    BY <2>1
<1>3. \A i \in m + 1..m + Len(b) : i - m \in 1..Len(b) /\ s[i] = b[i - m]
  BY <1>0, ConcatIsSeq
<1> HIDE DEF s, m
<1>4. \A k \in 1..Len(s) : k \in 1..m \/ k \in m + 1..m + Len(b)
  BY <1>1
<1>5. \A k \in 1..Len(s) :
        FreshEvent(s[k]) /\ (s[k].kind = "fill" => s[k].taker = id /\ s[k].order \in O)
  BY <1>1, <1>3, <1>4 DEF Fills, m
<1>6. \A i, j \in 1..m : SameTrade(s[i], s[j]) => i = j
  BY <1>1 DEF Fills, AtMostOne, m
<1>7. \A i, j \in m + 1..m + Len(b) : SameTrade(s[i], s[j]) => i = j
  <2> SUFFICES ASSUME NEW i \in m + 1..m + Len(b), NEW j \in m + 1..m + Len(b),
                      SameTrade(s[i], s[j])
               PROVE  i = j
    OBVIOUS
  <2>1. /\ i - m \in 1..Len(b) /\ s[i] = b[i - m]
        /\ j - m \in 1..Len(b) /\ s[j] = b[j - m]
    BY <1>3
  <2>2. i - m = j - m
    BY <2>1 DEF Fills, AtMostOne
  <2> QED
    BY <1>1, <2>2
<1>8. AtMostTwo(s)
  <2> SUFFICES ASSUME NEW i \in 1..Len(s), NEW j \in 1..Len(s), NEW k \in 1..Len(s),
                      i < j, j < k, SameTrade(s[i], s[j]), SameTrade(s[j], s[k])
               PROVE  FALSE
    BY DEF AtMostTwo
  <2>1. CASE j \in 1..m
    <3>1. i \in 1..m /\ i # j
      BY <1>1, <2>1
    <3> QED
      BY <1>6, <2>1, <3>1
  <2>2. CASE j \notin 1..m
    <3>1. j \in m + 1..m + Len(b) /\ k \in m + 1..m + Len(b) /\ j # k
      BY <1>1, <2>2
    <3> QED
      BY <1>7, <3>1
  <2> QED
    BY <2>1, <2>2
<1>9. ASSUME NEW k \in 1..Len(s), s[k].kind = "fill", s[k].order \in G \cap H
      PROVE  Paired(s, k)
  <2> DEFINE t == <<id, s[k].order>>
  <2>1. Trade(s[k]) = t
    BY <1>5, <1>9 DEF Trade
  <2>2. Has(a, t) /\ Has(b, t)
    BY <1>9 DEF Fills
  <2> HIDE DEF t
  <2>3. PICK i \in 1..m : a[i].kind = "fill" /\ Trade(a[i]) = t
    BY <2>2 DEF Has, m
  <2>4. PICK j \in 1..Len(b) : b[j].kind = "fill" /\ Trade(b[j]) = t
    BY <2>2 DEF Has
  <2>5. i \in 1..Len(s) /\ SameTrade(s[k], s[i])
    BY <1>1, <1>9, <2>1, <2>3 DEF SameTrade
  <2>6. m + j \in 1..Len(s) /\ SameTrade(s[k], s[m + j])
    BY <1>1, <1>2, <1>9, <2>1, <2>4 DEF SameTrade
  <2>7. i # m + j
    BY <1>1
  <2> QED
    BY <2>5, <2>6, <2>7 DEF Paired
<1> QED
  BY <1>1, <1>5, <1>8, <1>9 DEF s

(* The orders of q that give lots.                                         *)
Giving(q, lots) == {q[i].id : i \in {j \in 1..Len(q) : lots[j] > 0}}

(* Those that hear of it.                                                  *)
Hearing(q, lots) == {o \in Giving(q, lots) : Orders[o].account \in handles}

LEMMA FillsOfOrders ==
  ASSUME NEW n, NEW q, BookSide(q, n), NEW taker, NEW id, NEW lots, NEW toMaker \in BOOLEAN
  PROVE  Fills(FillEvents(taker, id, q, lots, toMaker), id, Giving(q, lots),
               IF toMaker THEN Hearing(q, lots) ELSE Giving(q, lots))
<1> DEFINE heard(i) == toMaker => Orders[q[i].id].account \in handles
           maker(i) == UserOf(Orders[q[i].id].account)
           fill(i) == [kind |-> "fill", order |-> q[i].id, taker |-> id,
                       size |-> lots[i], price |-> q[i].price, maker |-> maker(i),
                       emit |-> IF toMaker THEN maker(i) ELSE UserOf(taker)]
           all == [i \in DOMAIN q |-> fill(i)]
           I == {i \in DOMAIN q : lots[i] > 0 /\ heard(i)}
           s == Select(all, I)
           H == IF toMaker THEN Hearing(q, lots) ELSE Giving(q, lots)
<1>1. FillEvents(taker, id, q, lots, toMaker) = s
  BY DEF FillEvents
<1>2. IsSeq(q) /\ DOMAIN q = 1..Len(q) /\ Len(q) \in Nat
  BY IsSeqLen DEF BookSide
<1>3. IsSeq(all) /\ Len(all) = Len(q)
  <2>1. all = [i \in 1..Len(q) |-> all[i]]
    BY <1>2
  <2> HIDE DEF all
  <2> QED
    BY <1>2, <2>1, FcnIsSeq
<1>4. ASSUME NEW i \in 1..Len(q)
      PROVE  /\ FreshEvent(all[i]) /\ all[i].kind = "fill"
             /\ all[i].taker = id /\ all[i].order = q[i].id
  <2> DEFINE e == fill(i)
  <2>1. all[i] = e
    BY <1>2
  <2>2. DOMAIN e = {"kind", "order", "taker", "size", "price", "maker", "emit"}
    OBVIOUS
  <2>3. e.kind = "fill" /\ e.taker = id /\ e.order = q[i].id
    OBVIOUS
  <2> HIDE DEF e, all
  <2>4. FreshEvent(e)
    BY <2>2, <2>3 DEF FreshEvent, Stamps, Tables
  <2> QED
    BY <2>1, <2>3, <2>4
<1>5. IsSeq(s)
  <2> HIDE DEF all, I
  <2> QED
    BY <1>3, SelectIsSeq
<1>6. PICK g : Places(g, all, I, s)
  <2> HIDE DEF all, I
  <2> QED
    BY <1>3, SelectIsSeq
<1>7. \A i \in I : i \in 1..Len(q) /\ lots[i] > 0 /\ (toMaker => Orders[q[i].id].account \in handles)
  BY <1>2
<1>8. \A i \in 1..Len(q) : lots[i] > 0 /\ (toMaker => Orders[q[i].id].account \in handles) => i \in I
  BY <1>2
<1> HIDE DEF all, I, s
<1>9. Len(s) \in Nat
  BY <1>5, IsSeqLen
<1>10. \A k \in 1..Len(s) : g[k] \in I /\ g[k] \in 1..Len(q) /\ s[k] = all[g[k]]
  BY <1>3, <1>6 DEF Places
<1>11. \A k \in 1..Len(s) :
         FreshEvent(s[k]) /\ s[k].kind = "fill" /\ s[k].taker = id /\ s[k].order = q[g[k]].id
  BY <1>4, <1>10
<1>12. \A k \in 1..Len(s) : s[k].order \in Giving(q, lots)
  BY <1>7, <1>10, <1>11 DEF Giving
<1>13. ASSUME NEW j \in 1..Len(s), NEW k \in 1..Len(s), SameTrade(s[j], s[k])
       PROVE  j = k
  <2>1. q[g[j]].id = q[g[k]].id
    BY <1>11, <1>13 DEF SameTrade, Trade
  <2>2. g[j] = g[k]
    BY <1>10, <2>1 DEF BookSide
  <2>3. ~(j < k) /\ ~(k < j)
    BY <1>6, <1>9, <1>10, <2>2, <1>2 DEF Places
  <2> QED
    BY <1>9, <2>3
<1>14. ASSUME NEW o \in H PROVE Has(s, <<id, o>>)
  <2>1. o \in Giving(q, lots) /\ (toMaker => Orders[o].account \in handles)
    BY <1>14 DEF Hearing
  <2>2. PICK i \in 1..Len(q) : lots[i] > 0 /\ o = q[i].id
    BY <2>1 DEF Giving
  <2>3. i \in I
    BY <1>8, <2>1, <2>2
  <2>4. PICK k \in 1..Len(s) : g[k] = i
    BY <1>3, <1>6, <2>3 DEF Places, Part
  <2>5. s[k].kind = "fill" /\ Trade(s[k]) = <<id, o>>
    BY <1>11, <2>2, <2>4 DEF Trade
  <2> QED
    BY <2>5 DEF Has
<1> HIDE DEF H
<1>15. Fills(s, id, Giving(q, lots), H)
  BY <1>5, <1>11, <1>12, <1>13, <1>14 DEF Fills, AtMostOne
<1> QED
  BY <1>1, <1>15 DEF H

-----------------------------------------------------------------------------
(* Calls.                                                                  *)

LEMMA NoFillsAreFills ==
  ASSUME NEW s, NoFills(s), NEW id, NEW O
  PROVE  Fills(s, id, O, {})
BY DEF NoFills, Fills, AtMostOne, SameTrade

LEMMA OneEvent ==
  ASSUME NEW e, FreshEvent(e), e.kind # "fill"
  PROVE  NoFills(<<e>>)
<1>1. <<e>> \in Seq({e}) /\ Len(<<e>>) = 1 /\ <<e>>[1] = e
  OBVIOUS
<1>2. IsSeq(<<e>>)
  BY <1>1, SeqIsSeq
<1> QED
  BY <1>1, <1>2 DEF NoFills

LEMMA NoEvent == NoFills(<< >>)
<1>1. << >> \in Seq({}) /\ Len(<< >>) = 0
  OBVIOUS
<1>2. IsSeq(<< >>)
  BY <1>1, SeqIsSeq
<1> QED
  BY <1>1, <1>2 DEF NoFills

LEMMA NoFillsGood ==
  ASSUME NEW s, NoFills(s), NEW orders
  PROVE  GoodEvents(s, orders)
BY DEF NoFills, GoodEvents, AtMostTwo, SameTrade

(* The events of an order that is placed.                                  *)
LEMMA OwnEvents ==
  ASSUME EventsAssumption, NEW p \in Placements, NEW n, NEW q, BookSide(q, n),
         NEW lots, NEW cancelled \in BOOLEAN
  PROVE  Fills(<<PlaceEvent(p)>>
               \o (IF p.type = "coins" THEN << >>
                   ELSE FillEvents(p.account, NewId, q, lots, FALSE))
               \o (IF cancelled THEN <<CancelEvent(NewId)>> ELSE << >>),
               NewId, Giving(q, lots), IF p.type = "coins" THEN {} ELSE Giving(q, lots))
<1> DEFINE O == Giving(q, lots)
           G == IF p.type = "coins" THEN {} ELSE O
           place == PlaceEvent(p)
           cancel == CancelEvent(NewId)
           a == <<place>>
           b == IF p.type = "coins" THEN << >>
                ELSE FillEvents(p.account, NewId, q, lots, FALSE)
           c == IF cancelled THEN <<cancel>> ELSE << >>
<1>1. NoFills(a)
  <2>1. /\ DOMAIN place = {"kind", "order", "account", "type", "side", "price", "size"}
        /\ place.kind = "place" /\ place.type = p.type
    BY DEF PlaceEvent
  <2>2. p.type \in AllTypes
    BY DEF EventsAssumption, Placeable
  <2> HIDE DEF place
  <2>3. FreshEvent(place)
    BY <2>1, <2>2 DEF FreshEvent, Stamps, Tables
  <2> QED
    BY <2>1, <2>3, OneEvent
<1>2. Fills(b, NewId, O, G)
  <2>1. CASE p.type = "coins"
    <3>1. b = << >> /\ G = {}
      BY <2>1
    <3> HIDE DEF b, G, O
    <3> QED
      BY <3>1, NoEvent, NoFillsAreFills
  <2>2. CASE p.type # "coins"
    <3>1. b = FillEvents(p.account, NewId, q, lots, FALSE) /\ G = O
      BY <2>2
    <3>2. Fills(FillEvents(p.account, NewId, q, lots, FALSE), NewId, Giving(q, lots),
                IF FALSE THEN Hearing(q, lots) ELSE Giving(q, lots))
      BY FillsOfOrders
    <3> QED
      BY <3>1, <3>2
  <2> QED
    BY <2>1, <2>2
<1>3. NoFills(c)
  <2>1. DOMAIN cancel = {"kind", "order"} /\ cancel.kind = "cancel"
    BY DEF CancelEvent
  <2> HIDE DEF cancel
  <2>2. FreshEvent(cancel)
    BY <2>1 DEF FreshEvent, Stamps, Tables
  <2>3. NoFills(<<cancel>>)
    BY <2>1, <2>2, OneEvent
  <2> QED
    BY <2>3, NoEvent
<1> HIDE DEF a, b, c, O, G
<1>4. Fills(a \o b, NewId, O, G)
  BY <1>1, <1>2, FillsConcat
<1>5. Fills((a \o b) \o c, NewId, O, G)
  BY <1>3, <1>4, FillsConcat
<1> QED
  BY <1>5 DEF a, b, c, O, G

LEMMA PlaceGood ==
  ASSUME EventsAssumption, ChainInv, NEW p \in Placements, NEW q, BookSide(q, Len(Orders)),
         NEW cancelled \in BOOLEAN, NEW orders, Keeps(Orders, orders),
         Len(orders) = NewId, orders[NewId].account = p.account, orders[NewId].type = p.type,
         \A i \in DOMAIN q : Lots(q, p.size)[i] > 0 => Orders[q[i].id].account # p.account
  PROVE  GoodEvents(PlaceEvents(p, q, cancelled), orders)
<1> DEFINE lots == Lots(q, p.size)
           O == Giving(q, lots)
           E == <<PlaceEvent(p)>>
                \o (IF p.type = "coins" THEN << >>
                    ELSE FillEvents(p.account, NewId, q, lots, FALSE))
                \o (IF cancelled THEN <<CancelEvent(NewId)>> ELSE << >>)
           own == Heard(p.account, p.type, E)
           others == FillEvents(p.account, NewId, q, lots, TRUE)
           tells == p.type \in {"swap", "coins"} \/ p.account \in handles
           G == IF tells /\ p.type # "coins" THEN O ELSE {}
           H == Hearing(q, lots)
           s == IF p.type = "swap" THEN others \o own ELSE own \o others
<1>1. PlaceEvents(p, q, cancelled) = s
  BY DEF PlaceEvents
<1>2. Len(Orders) \in Nat /\ NewId = Len(Orders) + 1
  BY IsSeqLen DEF ChainInv, OrdersTyped, NewId
<1>3. DOMAIN q = 1..Len(q)
  BY IsSeqLen DEF BookSide
<1>4. p.account \in Accounts
  BY DEF EventsAssumption, Placeable
<1>5. Accounts \ Legacy \subseteq handles /\ \A o \in 1..Len(Orders) : Orders[o].account \in Accounts
  BY DEF ChainInv, OrdersTyped
<1>6. \A o \in O : o \in 1..Len(Orders) /\ Orders[o].account # p.account
  BY <1>3 DEF Giving, BookSide
<1>7. Fills(others, NewId, O, H)
  <2>1. Fills(others, NewId, Giving(q, lots), IF TRUE THEN Hearing(q, lots) ELSE Giving(q, lots))
    BY FillsOfOrders
  <2> QED
    BY <2>1
<1>8. Fills(own, NewId, O, G)
  <2>1. Fills(E, NewId, O, IF p.type = "coins" THEN {} ELSE O)
    BY OwnEvents
  <2> HIDE DEF E, O
  <2>2. CASE tells
    <3>1. own = E /\ G = IF p.type = "coins" THEN {} ELSE O
      BY <2>2 DEF Heard
    <3> QED
      BY <2>1, <3>1
  <2>3. CASE ~tells
    <3>1. own = << >> /\ G = {}
      BY <2>3 DEF Heard
    <3> HIDE DEF own, G
    <3> QED
      BY <3>1, NoEvent, NoFillsAreFills
  <2> QED
    BY <2>2, <2>3
<1> HIDE DEF own, others, O, E, lots
<1>9. /\ IsSeq(s) /\ AtMostTwo(s)
      /\ \A k \in 1..Len(s) :
           /\ FreshEvent(s[k])
           /\ s[k].kind = "fill" =>
                /\ s[k].taker = NewId /\ s[k].order \in O
                /\ s[k].order \in G \cap H => Paired(s, k)
  <2> HIDE DEF G, H
  <2>1. CASE p.type = "swap"
    <3> DEFINE r == others \o own
    <3>1. /\ IsSeq(r) /\ AtMostTwo(r)
          /\ \A k \in 1..Len(r) :
               /\ FreshEvent(r[k])
               /\ r[k].kind = "fill" =>
                    /\ r[k].taker = NewId /\ r[k].order \in O
                    /\ r[k].order \in H \cap G => Paired(r, k)
      BY <1>7, <1>8, BothSides
    <3>2. s = r
      BY <2>1
    <3> HIDE DEF r, s
    <3> QED
      BY <3>1, <3>2
  <2>2. CASE p.type # "swap"
    <3> DEFINE r == own \o others
    <3>1. /\ IsSeq(r) /\ AtMostTwo(r)
          /\ \A k \in 1..Len(r) :
               /\ FreshEvent(r[k])
               /\ r[k].kind = "fill" =>
                    /\ r[k].taker = NewId /\ r[k].order \in O
                    /\ r[k].order \in G \cap H => Paired(r, k)
      BY <1>7, <1>8, BothSides
    <3>2. s = r
      BY <2>2
    <3> HIDE DEF r, s
    <3> QED
      BY <3>1, <3>2
  <2> QED
    BY <2>1, <2>2
<1> HIDE DEF s
<1>10. ASSUME NEW k \in 1..Len(s), s[k].kind = "fill"
       PROVE  FillOf(orders, s[k]) /\ s[k].taker \notin 1..Len(Orders)
  <2>1. s[k].taker = NewId /\ s[k].order \in O
    BY <1>9, <1>10
  <2>2. /\ s[k].order \in 1..Len(Orders) /\ s[k].order \in 1..Len(orders)
        /\ Orders[s[k].order].account # p.account
    BY <1>2, <1>6, <2>1
  <2>3. orders[s[k].order].account = Orders[s[k].order].account
    BY <2>2 DEF Keeps
  <2>4. NewId \in 1..Len(orders) /\ NewId \notin 1..Len(Orders)
    BY <1>2
  <2> QED
    BY <2>1, <2>2, <2>3, <2>4 DEF FillOf
<1>11. ASSUME NEW k \in 1..Len(s), s[k].kind = "fill", BothHear(orders, Trade(s[k]))
       PROVE  Paired(s, k)
  <2> DEFINE o == s[k].order
  <2>1. s[k].taker = NewId /\ o \in O
    BY <1>9, <1>11
  <2>2. o \in 1..Len(Orders) /\ orders[o].account = Orders[o].account
    BY <1>6, <2>1 DEF Keeps
  <2>3. p.type # "coins" /\ p.account \notin Legacy /\ Orders[o].account \notin Legacy
    BY <1>11, <2>1, <2>2 DEF BothHear, Trade
  <2>4. o \in G
    BY <1>4, <1>5, <2>1, <2>3
  <2>5. o \in H
    BY <1>5, <2>1, <2>2, <2>3 DEF Hearing, O
  <2> QED
    BY <1>9, <1>11, <2>4, <2>5
<1> QED
  BY <1>1, <1>9, <1>10, <1>11 DEF GoodEvents

(* Matching leaves accounts and types as they are.                         *)
LEMMA MatchedKeeps ==
  ASSUME OrdersTyped(Orders), NEW q, NEW size
  PROVE  /\ OrdersTyped(Matched(q, size)) /\ Len(Matched(q, size)) = Len(Orders)
         /\ Keeps(Orders, Matched(q, size))
<1> DEFINE m == Matched(q, size)
<1>1. IsSeq(Orders) /\ DOMAIN Orders = 1..Len(Orders) /\ Len(Orders) \in Nat
  BY IsSeqLen DEF OrdersTyped
<1>2. m = [id \in 1..Len(Orders) |-> m[id]]
  BY <1>1 DEF Matched
<1>3. ASSUME NEW id \in 1..Len(Orders)
      PROVE  /\ {"account", "type"} \subseteq DOMAIN m[id]
             /\ m[id].account = Orders[id].account /\ m[id].type = Orders[id].type
  <2>1. {"account", "type"} \subseteq DOMAIN Orders[id]
    BY DEF OrdersTyped
  <2>2. PICK x, y, z : m[id] = [Orders[id] EXCEPT !.filled = x, !.remaining = y, !.status = z]
    BY <1>1 DEF Matched
  <2> QED
    BY <2>1, <2>2
<1> HIDE DEF m
<1>4. IsSeq(m) /\ Len(m) = Len(Orders)
  BY <1>1, <1>2, FcnIsSeq
<1>5. OrdersTyped(m)
  BY <1>3, <1>4 DEF OrdersTyped
<1>6. Keeps(Orders, m)
  BY <1>1, <1>3, <1>4 DEF Keeps
<1> QED
  BY <1>4, <1>5, <1>6 DEF m

-----------------------------------------------------------------------------
(* Every call keeps the invariant.                                         *)

LEMMA SideAppended ==
  ASSUME NEW orders, OrdersTyped(orders), NEW e, {"account", "type"} \subseteq DOMAIN e,
         e.account \in Accounts, e.type \in AllTypes
  PROVE  /\ OrdersTyped(Append(orders, e)) /\ Len(Append(orders, e)) = Len(orders) + 1
         /\ Keeps(orders, Append(orders, e)) /\ Append(orders, e)[Len(orders) + 1] = e
<1> DEFINE r == Append(orders, e)
           n == Len(orders)
<1>1. /\ IsSeq(r) /\ n \in Nat /\ Len(r) = n + 1
      /\ \A i \in 1..n : r[i] = orders[i]
      /\ r[n + 1] = e
  BY AppendIsSeq DEF OrdersTyped
<1> HIDE DEF r
<1>2. \A id \in 1..n + 1 : id \in 1..n \/ id = n + 1
  BY <1>1
<1>3. OrdersTyped(r)
  BY <1>1, <1>2 DEF OrdersTyped
<1>4. Keeps(orders, r)
  BY <1>1 DEF Keeps
<1> QED
  BY <1>1, <1>3, <1>4 DEF r

LEMMA PlaceKeeps ==
  ASSUME EventsAssumption, ChainInv, NEW p \in Placements, NEW fresh \in BOOLEAN,
         Place(p, fresh)
  PROVE  ChainInv' /\ ChainGrows
<1> DEFINE n == Len(Orders)
           opp == Opposite(p.side)
           C == CrossedBy(book[opp], p.side, p.price)
           q == Crossing(p.side, p.price)
           rest == Untouched(book[opp], p.side, p.price)
           remaining == p.size - Filled(q, p.size)
           posts == p.rests /\ remaining > 0
           cancelled == ~posts /\ remaining > 0
           status == Status(cancelled, remaining)
           order == [account |-> p.account, type |-> p.type, side |-> p.side,
                     price |-> p.price, filled |-> p.size - remaining,
                     remaining |-> remaining, status |-> status]
           e == [id |-> NewId, price |-> p.price, size |-> remaining]
           old == Matched(q, p.size)
           orders == Append(old, order)
           front == Reduced(q, p.size)
           own == book[p.side]
<1>0. p \in Placeable /\ p.side \in Sides /\ opp \in Sides /\ opp # p.side
      /\ \A side \in Sides : side = opp \/ side = p.side
  BY DEF EventsAssumption, Placeable, Sides, Opposite
<1>1. /\ Emit(fresh, PlaceEvents(p, q, cancelled))
      /\ book' = [book EXCEPT ![opp] = front \o Untouched(@, p.side, p.price),
                              ![p.side] = IF posts THEN Enqueue(@, p.side, e) ELSE @]
      /\ Record(orders)
      /\ UNCHANGED <<clock, indexed, handles>>
      /\ \A i \in DOMAIN q : Lots(q, p.size)[i] > 0 => Orders[q[i].id].account # p.account
  BY DEF Place
<1>2. /\ OrdersTyped(Orders) /\ n \in Nat /\ NewId = n + 1
      /\ DOMAIN book = Sides /\ \A side \in Sides : BookSide(book[side], n)
  BY IsSeqLen DEF ChainInv, BookTyped, OrdersTyped, NewId
<1>3. /\ DOMAIN book' = Sides
      /\ book'[opp] = front \o rest
      /\ book'[p.side] = IF posts THEN Enqueue(own, p.side, e) ELSE own
  <2> HIDE DEF opp, front, e, posts, C
  <2> QED
    BY <1>0, <1>1, <1>2
<1>4. q = Select(book[opp], C) /\ rest = Select(book[opp], DOMAIN book[opp] \ C)
  BY DEF Crossing, Untouched
<1> HIDE DEF C, q, rest, front, opp
<1>5. BookSide(q, n) /\ BookSide(rest, n)
  BY <1>0, <1>2, <1>4, SideSelect
<1>6. \A i \in 1..Len(q), j \in 1..Len(rest) : q[i].id # rest[j].id
  <2> DEFINE b == book[opp]
             D == DOMAIN b \ C
  <2>1. BookSide(b, n) /\ C \cap D = {} /\ q = Select(b, C) /\ rest = Select(b, D)
    BY <1>0, <1>2, <1>4
  <2> HIDE DEF b, D
  <2>2. \A i \in 1..Len(Select(b, C)), j \in 1..Len(Select(b, D)) :
          Select(b, C)[i].id # Select(b, D)[j].id
    BY <2>1, SideParts
  <2> QED
    BY <2>1, <2>2
<1>7. BookSide(front, n) /\ IdsFrom(front, q)
  BY <1>5, SideReduced DEF front
<1>8. \A i \in 1..Len(front), j \in 1..Len(rest) : front[i].id # rest[j].id
  BY <1>6, <1>7 DEF IdsFrom
<1>9. BookSide(front \o rest, n)
  BY <1>5, <1>7, <1>8, SideConcat
<1>10. BookSide(book'[opp], n + 1)
  BY <1>2, <1>3, <1>9, SideMore
<1>11. BookSide(own, n + 1)
  BY <1>0, <1>2, SideMore
<1>12. BookSide(book'[p.side], n + 1)
  <2>1. CASE posts
    <3>1. "id" \in DOMAIN e /\ e.id = n + 1 /\ e.id \in 1..n + 1
      BY <1>2
    <3>2. \A i \in 1..Len(own) : own[i].id # e.id
      BY <1>0, <1>2, <3>1 DEF BookSide
    <3> HIDE DEF e, own
    <3>3. BookSide(Enqueue(own, p.side, e), n + 1)
      BY <1>11, <3>1, <3>2, SideEnqueue
    <3> QED
      BY <1>3, <2>1, <3>3
  <2>2. CASE ~posts
    BY <1>3, <1>11, <2>2
  <2> QED
    BY <2>1, <2>2
<1>13. OrdersTyped(old) /\ Len(old) = n /\ Keeps(Orders, old)
  BY <1>2, MatchedKeeps
<1>14. {"account", "type"} \subseteq DOMAIN order /\ order.account = p.account /\ order.type = p.type
  BY Zenon
<1>15. p.account \in Accounts /\ p.type \in AllTypes
  BY <1>0 DEF Placeable
<1>16. cancelled \in BOOLEAN
  BY Zenon
<1> HIDE DEF order, old, cancelled, status
<1>17. /\ OrdersTyped(orders) /\ Len(orders) = n + 1 /\ Keeps(old, orders)
       /\ orders[n + 1] = order
  BY <1>13, <1>14, <1>15, SideAppended
<1> HIDE DEF orders
<1>18. Keeps(Orders, orders)
  BY <1>2, <1>13, <1>17 DEF Keeps
<1> DEFINE events == PlaceEvents(p, q, cancelled)
<1>19. GoodEvents(events, orders)
  BY <1>1, <1>2, <1>5, <1>14, <1>16, <1>17, <1>18, PlaceGood
<1> HIDE DEF events, n
<1>20. \A side \in Sides : BookSide(book'[side], Len(orders))
  BY <1>0, <1>10, <1>12, <1>17
<1>21. Emit(fresh, events)
  BY <1>1 DEF events
<1> QED
  BY <1>1, <1>3, <1>17, <1>18, <1>19, <1>20, <1>21, CallKeeps

(* Orders of which one has other fields than before.                       *)
LEMMA OrderChanged ==
  ASSUME NEW orders, OrdersTyped(orders), NEW new, DOMAIN new = DOMAIN orders,
         new = [id \in 1..Len(orders) |-> new[id]],
         \A id \in 1..Len(orders) :
           /\ {"account", "type"} \subseteq DOMAIN new[id]
           /\ new[id].account = orders[id].account /\ new[id].type = orders[id].type
  PROVE  OrdersTyped(new) /\ Len(new) = Len(orders) /\ Keeps(orders, new)
<1>1. Len(orders) \in Nat
  BY IsSeqLen DEF OrdersTyped
<1>2. IsSeq(new) /\ Len(new) = Len(orders)
  BY <1>1, FcnIsSeq
<1> QED
  BY <1>1, <1>2 DEF OrdersTyped, Keeps

LEMMA HeardOne ==
  ASSUME NEW account, NEW e, FreshEvent(e), e.kind # "fill", NEW orders
  PROVE  GoodEvents(Heard(account, "limit", <<e>>), orders)
<1>1. \/ Heard(account, "limit", <<e>>) = <<e>>
      \/ Heard(account, "limit", <<e>>) = << >>
  BY Zenon DEF Heard
<1>2. NoFills(<<e>>) /\ NoFills(<< >>)
  BY OneEvent, NoEvent
<1>3. GoodEvents(<<e>>, orders) /\ GoodEvents(<< >>, orders)
  BY <1>2, NoFillsGood
<1> QED
  BY <1>1, <1>3

LEMMA CancelKeeps ==
  ASSUME ChainInv, NEW id \in DOMAIN Orders, NEW fresh \in BOOLEAN, CancelOrder(id, fresh)
  PROVE  ChainInv' /\ ChainGrows
<1> DEFINE n == Len(Orders)
           side == Orders[id].side
           e == CancelEvent(id)
           events == Heard(Orders[id].account, "limit", <<e>>)
           orders == [Orders EXCEPT ![id].status = "cancelled"]
<1>1. /\ Emit(fresh, events)
      /\ book' = [book EXCEPT ![side] = Without(@, id)]
      /\ Record(orders)
      /\ UNCHANGED <<clock, indexed, handles>>
  BY DEF CancelOrder
<1>2. /\ OrdersTyped(Orders) /\ n \in Nat /\ DOMAIN Orders = 1..n
      /\ DOMAIN book = Sides /\ \A s \in Sides : BookSide(book[s], n)
  BY IsSeqLen DEF ChainInv, BookTyped, OrdersTyped
<1>3. ASSUME NEW s \in Sides PROVE BookSide(book'[s], n)
  <2>1. book'[s] = Without(book[s], id) \/ book'[s] = book[s]
    BY <1>1, <1>2
  <2>2. BookSide(Without(book[s], id), n)
    BY <1>2, SideSelect DEF Without
  <2> QED
    BY <1>2, <2>1, <2>2
<1>4. GoodEvents(events, orders)
  <2>1. DOMAIN e = {"kind", "order"} /\ e.kind = "cancel"
    BY DEF CancelEvent
  <2> HIDE DEF e
  <2>2. FreshEvent(e)
    BY <2>1 DEF FreshEvent, Stamps, Tables
  <2> HIDE DEF orders
  <2> QED
    BY <2>1, <2>2, HeardOne
<1>5. OrdersTyped(orders) /\ Len(orders) = n /\ Keeps(Orders, orders)
  <2>1. DOMAIN orders = DOMAIN Orders /\ orders = [i \in 1..n |-> orders[i]]
    BY <1>2
  <2>2. \A i \in 1..n :
           /\ {"account", "type"} \subseteq DOMAIN orders[i]
           /\ orders[i].account = Orders[i].account /\ orders[i].type = Orders[i].type
    BY <1>2 DEF OrdersTyped
  <2> HIDE DEF orders
  <2> QED
    BY <1>2, <2>1, <2>2, OrderChanged
<1>6. DOMAIN book' = Sides
  BY <1>1, <1>2
<1> HIDE DEF events, orders
<1> QED
  BY <1>1, <1>3, <1>4, <1>5, <1>6, CallKeeps

LEMMA ChangeKeeps ==
  ASSUME ChainInv, NEW id \in DOMAIN Orders, NEW size, NEW fresh \in BOOLEAN,
         ChangeOrderSize(id, size, fresh)
  PROVE  ChainInv' /\ ChainGrows
<1> DEFINE n == Len(Orders)
           order == Orders[id]
           resized == [id |-> id, price |-> order.price, size |-> size]
           inPlace(q) == [i \in DOMAIN q |-> IF q[i].id = id THEN resized ELSE q[i]]
           e == [kind |-> "change", order |-> id, size |-> size]
           events == Heard(order.account, "limit", <<e>>)
           orders == [Orders EXCEPT ![id].remaining = size]
           smaller == size < order.remaining
<1>1. /\ Emit(fresh, events)
      /\ book' = [book EXCEPT ![order.side] =
                    IF smaller THEN inPlace(@)
                    ELSE Enqueue(Without(@, id), order.side, resized)]
      /\ Record(orders)
      /\ UNCHANGED <<clock, indexed, handles>>
  BY DEF ChangeOrderSize
<1>2. /\ OrdersTyped(Orders) /\ n \in Nat /\ DOMAIN Orders = 1..n
      /\ DOMAIN book = Sides /\ \A s \in Sides : BookSide(book[s], n)
  BY IsSeqLen DEF ChainInv, BookTyped, OrdersTyped
<1>3. "id" \in DOMAIN resized /\ resized.id = id /\ resized.id \in 1..n
  BY <1>2
<1>4. ASSUME NEW s \in Sides PROVE BookSide(book'[s], n)
  <2> DEFINE q == book[s]
             w == Without(q, id)
             c == inPlace(q)
  <2>0. BookSide(q, n) /\ IsSeq(q) /\ DOMAIN q = 1..Len(q) /\ Len(q) \in Nat
    BY <1>2, IsSeqLen DEF BookSide
  <2>1. \/ book'[s] = Enqueue(w, order.side, resized)
        \/ book'[s] = c
        \/ book'[s] = q
    <3> HIDE DEF resized, smaller
    <3> QED
      BY <1>1, <1>2
  <2>2. BookSide(Enqueue(w, order.side, resized), n)
    <3>1. BookSide(w, n) /\ From(w, q, {i \in DOMAIN q : q[i].id # id})
      BY <2>0, SideSelect DEF Without
    <3> HIDE DEF w, resized, q
    <3>2. \A i \in 1..Len(w) : w[i].id # resized.id
      BY <1>3, <3>1 DEF From
    <3> QED
      BY <1>3, <3>1, <3>2, SideEnqueue
  <2>3. BookSide(c, n)
    <3>1. c = [i \in 1..Len(q) |-> c[i]]
      BY <2>0
    <3>2. \A i \in 1..Len(q) : "id" \in DOMAIN c[i] /\ c[i].id = q[i].id
      <4> HIDE DEF resized
      <4> QED
        BY <1>3, <2>0 DEF BookSide
    <3> HIDE DEF c
    <3>3. IsSeq(c) /\ Len(c) = Len(q)
      BY <2>0, <3>1, FcnIsSeq
    <3> QED
      BY <2>0, <3>2, <3>3 DEF BookSide
  <2> QED
    BY <2>0, <2>1, <2>2, <2>3
<1>5. GoodEvents(events, orders)
  <2>1. DOMAIN e = {"kind", "order", "size"} /\ e.kind = "change"
    OBVIOUS
  <2> HIDE DEF e
  <2>2. FreshEvent(e)
    BY <2>1 DEF FreshEvent, Stamps, Tables
  <2> HIDE DEF orders
  <2> QED
    BY <2>1, <2>2, HeardOne
<1>6. OrdersTyped(orders) /\ Len(orders) = n /\ Keeps(Orders, orders)
  <2>1. DOMAIN orders = DOMAIN Orders /\ orders = [i \in 1..n |-> orders[i]]
    BY <1>2
  <2>2. \A i \in 1..n :
           /\ {"account", "type"} \subseteq DOMAIN orders[i]
           /\ orders[i].account = Orders[i].account /\ orders[i].type = Orders[i].type
    BY <1>2 DEF OrdersTyped
  <2> HIDE DEF orders
  <2> QED
    BY <1>2, <2>1, <2>2, OrderChanged
<1>7. DOMAIN book' = Sides
  BY <1>1, <1>2
<1> HIDE DEF events, orders
<1> QED
  BY <1>1, <1>4, <1>5, <1>6, <1>7, CallKeeps

LEMMA EmptyIsSeq == IsSeq(<< >>) /\ Len(<< >>) = 0
<1>1. << >> \in Seq({}) /\ Len(<< >>) = 0
  OBVIOUS
<1> QED
  BY <1>1, SeqIsSeq

LEMMA ChainStarts ==
  ASSUME ChainInit
  PROVE  ChainInv
<1>1. /\ version = 0 /\ indexed = 0 /\ log = << >>
      /\ book = [side \in Sides |-> << >>]
      /\ handles = Accounts \ Legacy
  BY DEF ChainInit
<1>2. DOMAIN ledger = {0} /\ ledger[0] = [orders |-> << >>, book |-> book]
  BY DEF ChainInit
<1>3. DOMAIN ledger = 0..version /\ Orders = << >>
  BY <1>1, <1>2 DEF Orders
<1>4. \A side \in Sides : BookSide(<< >>, 0) /\ book[side] = << >>
  BY <1>1, EmptyIsSeq DEF BookSide
<1>5. \A v \in 0..version : ledger[v].book = book
  BY <1>1, <1>2
<1>6. VersionsTyped
  BY <1>1, <1>3, <1>4, <1>5, EmptyIsSeq DEF VersionsTyped
<1>7. OrdersTyped(Orders)
  BY <1>3, EmptyIsSeq DEF OrdersTyped
<1>8. BookTyped
  BY <1>1, <1>3, <1>4, EmptyIsSeq DEF BookTyped
<1>9. LogTyped /\ LogOrdered
  BY <1>1, EmptyIsSeq DEF LogTyped, LogOrdered, AtMostTwo
<1> QED
  BY <1>1, <1>6, <1>7, <1>8, <1>9 DEF ChainInv

(* Nothing of the market but the clock, the database or handles changes.   *)
LEMMA OtherwiseKeeps ==
  ASSUME ChainInv, UNCHANGED <<book, log, version, ledger>>,
         indexed' \in Nat, indexed <= indexed', indexed' <= version, handles \subseteq handles'
  PROVE  ChainInv' /\ ChainGrows
<1>1. Orders' = Orders
  BY DEF Orders
<1>2. OrdersTyped(Orders) /\ Len(Orders) \in Nat /\ Len(log) \in Nat
  BY IsSeqLen DEF ChainInv, OrdersTyped, LogTyped
<1>3. VersionsTyped'
  BY DEF ChainInv, VersionsTyped
<1>4. OrdersTyped(Orders)' /\ BookTyped'
  BY <1>1 DEF ChainInv, BookTyped, OrdersTyped
<1>5. LogTyped' /\ LogOrdered'
  BY <1>1 DEF ChainInv, LogTyped, LogOrdered
<1>6. ChainGrows
  BY <1>1, <1>2 DEF ChainGrows, Keeps
<1> QED
  BY <1>3, <1>4, <1>5, <1>6 DEF ChainInv

LEMMA ChainKeeps ==
  ASSUME EventsAssumption, ChainInv, ChainNext
  PROVE  ChainInv' /\ ChainGrows
<1>1. CASE Call
  BY <1>1, PlaceKeeps, CancelKeeps, ChangeKeeps DEF Call
<1>2. CASE Tick
  BY <1>2, OtherwiseKeeps DEF Tick, ChainInv, VersionsTyped
<1>3. CASE Index
  BY <1>3, OtherwiseKeeps DEF Index, ChainInv, VersionsTyped
<1>4. CASE \E account \in Accounts : InitHandles(account)
  BY <1>4, OtherwiseKeeps DEF InitHandles, ChainInv, VersionsTyped
<1> QED
  BY <1>1, <1>2, <1>3, <1>4 DEF ChainNext

LEMMA ChainStutters ==
  ASSUME ChainInv, UNCHANGED chainVars
  PROVE  ChainInv' /\ ChainGrows
BY OtherwiseKeeps DEF chainVars, ChainInv, VersionsTyped

-----------------------------------------------------------------------------
(* Notifications.                                                          *)

LogEvents == {log[i] : i \in 1..Len(log)}

(* The order of the chain.                                                 *)
ChainOrder == {p \in LogEvents \X LogEvents : Before(p[1], p[2])}

(* The order of the tables f, and in each table that of the chain.         *)
TableOrder(f) ==
  {p \in LogEvents \X LogEvents :
     \E i, j \in DOMAIN f :
       /\ f[i] = p[1].kind /\ f[j] = p[2].kind
       /\ i < j \/ (i = j /\ Before(p[1], p[2]))}

(* A notification of each event at the indices N, those of a table in the  *)
(* order of the chain.                                                     *)
Notified(s, N) ==
  /\ IsSeq(s)
  /\ \A k \in 1..Len(s) : \E i \in N : s[k] = log[i]
  /\ \A i \in N : \E k \in 1..Len(s) : s[k] = log[i]
  /\ \A j, k \in 1..Len(s) : j < k => s[j] # s[k]
  /\ \A j, k \in 1..Len(s) : j < k /\ s[j].kind = s[k].kind => Before(s[j], s[k])

LEMMA FourTables ==
  ASSUME NEW f \in TableOrders
  PROVE  /\ DOMAIN f = 1..4 /\ \A i \in 1..4 : f[i] \in Tables
         /\ \A i, j \in 1..4 : f[i] = f[j] => i = j
         /\ \A t \in Tables : \E i \in 1..4 : f[i] = t
<1>1. Cardinality(Tables) = 4
  <2>1. Cardinality({"fill"}) = 1 /\ IsFiniteSet({"fill"})
    BY FS_Singleton
  <2>2. Cardinality({"fill"} \cup {"change"}) = 2 /\ IsFiniteSet({"fill"} \cup {"change"})
    BY <2>1, FS_AddElement
  <2>3. /\ Cardinality(({"fill"} \cup {"change"}) \cup {"cancel"}) = 3
        /\ IsFiniteSet(({"fill"} \cup {"change"}) \cup {"cancel"})
    <3>1. "cancel" \notin {"fill"} \cup {"change"}
      OBVIOUS
    <3> QED
      BY <2>2, <3>1, FS_AddElement
  <2>4. Cardinality((({"fill"} \cup {"change"}) \cup {"cancel"}) \cup {"place"}) = 4
    <3>1. "place" \notin ({"fill"} \cup {"change"}) \cup {"cancel"}
      OBVIOUS
    <3> QED
      BY <2>3, <3>1, FS_AddElement
  <2>5. Tables = (({"fill"} \cup {"change"}) \cup {"cancel"}) \cup {"place"}
    BY DEF Tables
  <2> QED
    BY <2>4, <2>5
<1>2. f \in [1..4 -> Tables] /\ \A i, j \in 1..4 : f[i] = f[j] => i = j
  BY <1>1 DEF TableOrders, IsInjective
<1>3. \A t \in Tables : \E i \in 1..4 : f[i] = t
  <2>1. /\ f[1] \in Tables /\ f[2] \in Tables /\ f[3] \in Tables /\ f[4] \in Tables
        /\ f[1] # f[2] /\ f[1] # f[3] /\ f[1] # f[4]
        /\ f[2] # f[3] /\ f[2] # f[4] /\ f[3] # f[4]
    BY <1>2
  <2>2. \A t \in Tables : t = f[1] \/ t = f[2] \/ t = f[3] \/ t = f[4]
    BY <2>1 DEF Tables
  <2> QED
    BY <2>2
<1> QED
  BY <1>2, <1>3

LEMMA BeforeOnce ==
  ASSUME LogTyped, NEW x \in LogEvents, NEW y \in LogEvents, Before(x, y)
  PROVE  ~Before(y, x)
BY DEF LogTyped, Logged, LogEvents, Before

LEMMA TableOneWay ==
  ASSUME LogTyped, NEW f \in TableOrders, NEW S
  PROVE  OneWay(TableOrder(f), S)
<1> SUFFICES ASSUME NEW x, NEW y, <<x, y>> \in TableOrder(f), <<y, x>> \in TableOrder(f)
             PROVE  FALSE
  BY DEF OneWay
<1>0. x \in LogEvents /\ y \in LogEvents
  BY DEF TableOrder
<1>1. PICK i \in 1..4, j \in 1..4 :
        f[i] = x.kind /\ f[j] = y.kind /\ (i < j \/ (i = j /\ Before(x, y)))
  BY FourTables DEF TableOrder
<1>2. PICK k \in 1..4, l \in 1..4 :
        f[k] = y.kind /\ f[l] = x.kind /\ (k < l \/ (k = l /\ Before(y, x)))
  BY FourTables DEF TableOrder
<1>3. i = l /\ j = k
  BY <1>1, <1>2, FourTables
<1> QED
  BY <1>0, <1>1, <1>2, <1>3, BeforeOnce

LEMMA NotificationsList ==
  ASSUME LogTyped, LogOrdered, NEW N, N \subseteq 1..Len(log), NEW s \in Notifications(N)
  PROVE  Notified(s, N)
<1> DEFINE rows(table) == Select(log, {i \in N : log[i].kind = table})
<1>1. PICK f \in TableOrders : s = FlattenSeq([i \in DOMAIN f |-> rows(f[i])])
  BY DEF Notifications
<1> DEFINE ss == [i \in DOMAIN f |-> rows(f[i])]
           E == [i \in 1..4 |-> {log[k] : k \in Part({h \in N : log[h].kind = f[i]}, Len(log))}]
           R == TableOrder(f)
<1>2. /\ DOMAIN f = 1..4 /\ \A i \in 1..4 : f[i] \in Tables
      /\ \A i, j \in 1..4 : f[i] = f[j] => i = j
      /\ \A t \in Tables : \E i \in 1..4 : f[i] = t
  BY FourTables
<1>3. IsSeq(log) /\ Len(log) \in Nat
  BY IsSeqLen DEF LogTyped
<1>4. \A i, j \in 1..Len(log) : i < j => <<log[i], log[j]>> \in ChainOrder
  BY DEF LogOrdered, ChainOrder, LogEvents
<1>5. Len(ss) = 4 /\ IsSeq(ss)
  <2>1. ss = [i \in 1..4 |-> ss[i]]
    BY <1>2
  <2> HIDE DEF ss
  <2> QED
    BY <2>1, FcnIsSeq
<1>6. ASSUME NEW i \in 1..4 PROVE Ranked(R, ss[i], E[i])
  <2> DEFINE I == {h \in N : log[h].kind = f[i]}
             S == {log[k] : k \in Part(I, Len(log))}
  <2>1. ss[i] = Select(log, I) /\ E[i] = S
    BY <1>2
  <2> HIDE DEF I
  <2>2. Ranked(ChainOrder, Select(log, I), S)
    BY <1>3, <1>4, SelectRanked
  <2>3. \A x \in S : x \in LogEvents /\ x.kind = f[i]
    BY DEF Part, LogEvents, I
  <2> HIDE DEF S
  <2>4. \A x, y \in S : <<x, y>> \in ChainOrder => <<x, y>> \in R
    BY <1>2, <2>3 DEF ChainOrder, TableOrder
  <2> HIDE DEF ss, E, R
  <2> QED
    BY <2>1, <2>2, <2>4, RankedAlike
<1>7. \A i \in 1..4 : \A x \in E[i] :
        x \in LogEvents /\ x.kind = f[i] /\ \E h \in N : x = log[h]
  BY DEF Part, LogEvents
<1>8. \A h \in N : \E i \in 1..4 : log[h] \in E[i]
  <2> SUFFICES ASSUME NEW h \in N PROVE \E i \in 1..4 : log[h] \in E[i]
    OBVIOUS
  <2>1. log[h].kind \in Tables
    BY DEF LogTyped, Logged
  <2>2. PICK i \in 1..4 : f[i] = log[h].kind
    BY <1>2, <2>1
  <2>3. log[h] \in E[i]
    BY <2>2 DEF Part
  <2> QED
    BY <2>3
<1> HIDE DEF ss, E
<1>9. \A i, j \in 1..4 : i < j => \A x \in E[i], y \in E[j] : <<x, y>> \in R
  BY <1>2, <1>7 DEF TableOrder
<1>10. InTurns(R, ss, E)
  <2> HIDE DEF R
  <2> QED
    BY <1>5, <1>6, <1>9 DEF InTurns
<1>11. OneWay(R, FirstOf(E, Len(ss)))
  BY TableOneWay
<1> HIDE DEF R
<1>12. Ranked(R, s, FirstOf(E, Len(ss)))
  <2>1. Len(ss) = 0 => ss = << >>
    BY <1>5
  <2>2. Ranked(R, FlattenSeq(ss), FirstOf(E, Len(ss)))
    BY <1>10, <1>11, <2>1, FlattenRanked
  <2> QED
    BY <1>1, <2>2 DEF ss
<1> DEFINE S == FirstOf(E, Len(ss))
<1>13. \A x : x \in S <=> \E i \in 1..4 : x \in E[i]
  BY <1>5 DEF FirstOf
<1> HIDE DEF S
<1>14. ToSet(s) = S /\ Len(s) \in Nat /\ s \in Seq(S)
  BY <1>12, RankedSet DEF S
<1>15. IsSeq(s) /\ \A k \in 1..Len(s) : s[k] \in S
  BY <1>14, SeqIsSeq, ElementOfSeq
<1>16. \A k \in 1..Len(s) : \E h \in N : s[k] = log[h]
  BY <1>7, <1>13, <1>15
<1>17. \A h \in N : \E k \in 1..Len(s) : s[k] = log[h]
  <2> SUFFICES ASSUME NEW h \in N PROVE \E k \in 1..Len(s) : s[k] = log[h]
    OBVIOUS
  <2>1. log[h] \in S
    BY <1>8, <1>13
  <2> QED
    BY <1>12, <2>1 DEF Ranked, S
<1>18. ASSUME NEW j \in 1..Len(s), NEW k \in 1..Len(s), j < k
       PROVE  s[j] # s[k] /\ (s[j].kind = s[k].kind => Before(s[j], s[k]))
  <2>1. <<s[j], s[k]>> \in R
    BY <1>12, <1>18 DEF Ranked
  <2>2. s[j] \in S /\ s[k] \in S
    BY <1>15
  <2>3. s[j] # s[k]
    BY <1>11, <2>1, <2>2 DEF OneWay, S
  <2>4. PICK a \in 1..4, b \in 1..4 :
          f[a] = s[j].kind /\ f[b] = s[k].kind /\ (a < b \/ (a = b /\ Before(s[j], s[k])))
    BY <1>2, <2>1 DEF R, TableOrder
  <2>5. s[j].kind = s[k].kind => a = b
    BY <1>2, <2>4
  <2> QED
    BY <2>3, <2>4, <2>5
<1> QED
  BY <1>15, <1>16, <1>17, <1>18 DEF Notified

-----------------------------------------------------------------------------
(* The invariant of the publisher.                                         *)

(* An event that the database has.                                         *)
InDatabase(e) == \E i \in 1..Len(log) : e = log[i] /\ log[i].txn <= indexed

IsEventMessage(m) == "event" \in DOMAIN m

(* Topics of different kinds of events are different.                      *)
EventMessage(m) ==
  /\ IsEventMessage(m) /\ InDatabase(m.event)
  /\ IF m.event.kind = "place" THEN m.topic[1] \in AllTypes ELSE m.topic[1] = m.event.kind

LevelAt(level, v) == \E side \in Sides : \E n \in DOMAIN LevelsOf(side, v) :
                       level = LevelsOf(side, v)[n]

TrueLevel(m) ==
  /\ ~IsEventMessage(m)
  /\ \E v \in 0..indexed : \E side \in Sides : \E n \in DOMAIN LevelsOf(side, v) :
       m = LevelMessage(LevelsOf(side, v)[n], v)

(* Messages that are on their way or published.                            *)
Outgoing == {m \in ToSet(published) \cup ToSet(client) \cup ToSet(sending) : IsEventMessage(m)}

TradesIn(M) == {Trade(m.event) : m \in {x \in M : x.event.kind = "fill"}}

(* Fills whose trade is remembered, or about to be.                        *)
Remembered == emitted \cup TradesIn(ToSet(sending))

MessagesTyped ==
  /\ IsSeq(published) /\ IsSeq(client) /\ IsSeq(sending) /\ IsSeq(queue) /\ faults \in Nat
  /\ \A m \in ToSet(published) \cup ToSet(sending) : EventMessage(m)
  /\ \A m \in ToSet(client) : EventMessage(m) \/ TrueLevel(m)
  /\ \A x, y \in ToSet(sending) : x.event = y.event

(* y is sent after x.                                                      *)
Follows(x, y) ==
  x.event.kind = y.event.kind =>
    \/ Before(x.event, y.event) /\ ~SameTrade(x.event, y.event)
    \/ x.event = y.event /\ x.topic # y.topic

InTurn(s) ==
  \A i, j \in 1..Len(s) :
    i < j /\ IsEventMessage(s[i]) /\ IsEventMessage(s[j]) => Follows(s[i], s[j])

AllFollow(X, Y) ==
  \A x \in X, y \in Y : IsEventMessage(x) /\ IsEventMessage(y) => Follows(x, y)

MessagesOrdered ==
  /\ InTurn(published) /\ InTurn(client) /\ InTurn(sending)
  /\ AllFollow(ToSet(published), ToSet(client) \cup ToSet(sending))
  /\ AllFollow(ToSet(client), ToSet(sending))

(* Notifications of a kind come in the order of the chain, after what is   *)
(* sent.                                                                   *)
QueueOrdered ==
  /\ \A e \in ToSet(queue) : InDatabase(e)
  /\ \A i, j \in 1..Len(queue) : i < j /\ queue[i].kind = queue[j].kind => Before(queue[i], queue[j])
  /\ \A m \in Outgoing, i \in 1..Len(queue) :
       m.event.kind = queue[i].kind => Before(m.event, queue[i])

(* The second notification of a trade is the last one, and known as such.  *)
TradesOnce ==
  /\ emitted \subseteq TradesIn(Outgoing)
  /\ \A i \in 1..Len(queue) :
       queue[i].kind = "fill" /\ Trade(queue[i]) \in TradesIn(Outgoing) =>
         Trade(queue[i]) \in Remembered /\ ~Paired(queue, i)

(* Unless there are faults, trades are remembered only until then.         *)
TradesForgotten ==
  faults = 0 =>
    /\ \A i \in 1..Len(queue) :
         queue[i].kind = "fill" /\ BothHear(Orders, Trade(queue[i])) =>
           Trade(queue[i]) \in Remembered \/ Paired(queue, i)
    /\ \A t \in Remembered : BothHear(Orders, t) => Has(queue, t)

LevelsTyped ==
  /\ aggregated \in 0..indexed
  /\ DOMAIN round = {"step", "snapshot", "recorded", "rows"}
  /\ round.step # "sleep" =>
       /\ IsSeq(round.rows)
       /\ \E v \in 0..indexed : /\ round.snapshot = v
                               /\ \A level \in ToSet(round.rows) : LevelAt(level, v)
  /\ \A m \in {shown[t] : t \in DOMAIN shown} : TrueLevel(m)
  /\ \A t \in DOMAIN shown : shown[t].topic = t

PublisherInv ==
  /\ ChainInv /\ MessagesTyped /\ MessagesOrdered /\ QueueOrdered
  /\ TradesOnce /\ TradesForgotten /\ LevelsTyped

-----------------------------------------------------------------------------
(* Messages in turn.                                                       *)

LEMMA SetOfSeq ==
  ASSUME NEW s, IsSeq(s), NEW x
  PROVE  x \in ToSet(s) <=> \E i \in 1..Len(s) : s[i] = x
BY IsSeqLen DEF ToSet

LEMMA SetOfAppend ==
  ASSUME NEW s, IsSeq(s), NEW x
  PROVE  ToSet(Append(s, x)) = ToSet(s) \cup {x}
<1> DEFINE r == Append(s, x)
<1>1. /\ IsSeq(r) /\ Len(s) \in Nat /\ Len(r) = Len(s) + 1
      /\ \A i \in 1..Len(s) : r[i] = s[i]
      /\ r[Len(s) + 1] = x
  BY AppendIsSeq
<1> HIDE DEF r
<1>2. \A y \in ToSet(r) : y \in ToSet(s) \/ y = x
  <2> SUFFICES ASSUME NEW i \in 1..Len(r) PROVE r[i] \in ToSet(s) \/ r[i] = x
    BY <1>1, SetOfSeq
  <2>1. i \in 1..Len(s) \/ i = Len(s) + 1
    BY <1>1
  <2> QED
    BY <1>1, <2>1, SetOfSeq
<1>3. \A y \in ToSet(s) : y \in ToSet(r)
  <2> SUFFICES ASSUME NEW i \in 1..Len(s) PROVE s[i] \in ToSet(r)
    BY SetOfSeq
  <2>1. i \in 1..Len(r) /\ r[i] = s[i]
    BY <1>1
  <2> QED
    BY <1>1, <2>1, SetOfSeq
<1>4. x \in ToSet(r)
  <2>1. Len(s) + 1 \in 1..Len(r)
    BY <1>1
  <2> QED
    BY <1>1, <2>1, SetOfSeq
<1> QED
  BY <1>2, <1>3, <1>4 DEF r

LEMMA SetOfTail ==
  ASSUME NEW s, IsSeq(s), s # << >>
  PROVE  ToSet(s) = {Head(s)} \cup ToSet(Tail(s))
<1> DEFINE r == Tail(s)
<1>1. /\ IsSeq(r) /\ Len(r) = Len(s) - 1 /\ Len(s) \in Nat \ {0} /\ Head(s) = s[1]
      /\ \A i \in 1..Len(r) : r[i] = s[i + 1]
  BY TailIsSeq
<1> HIDE DEF r
<1>2. \A y \in ToSet(s) : y = s[1] \/ y \in ToSet(r)
  <2> SUFFICES ASSUME NEW i \in 1..Len(s) PROVE s[i] = s[1] \/ s[i] \in ToSet(r)
    BY SetOfSeq
  <2>1. i = 1 \/ (i - 1 \in 1..Len(r) /\ r[i - 1] = s[i])
    BY <1>1
  <2> QED
    BY <1>1, <2>1, SetOfSeq
<1>3. \A y \in ToSet(r) : y \in ToSet(s)
  <2> SUFFICES ASSUME NEW i \in 1..Len(r) PROVE r[i] \in ToSet(s)
    BY <1>1, SetOfSeq
  <2>1. i + 1 \in 1..Len(s) /\ r[i] = s[i + 1]
    BY <1>1
  <2> QED
    BY <2>1, SetOfSeq
<1>4. s[1] \in ToSet(s)
  <2>1. 1 \in 1..Len(s)
    BY <1>1
  <2> QED
    BY <2>1, SetOfSeq
<1> QED
  BY <1>1, <1>2, <1>3, <1>4 DEF r

LEMMA TurnTail ==
  ASSUME NEW s, IsSeq(s), s # << >>, InTurn(s)
  PROVE  InTurn(Tail(s)) /\ AllFollow({Head(s)}, ToSet(Tail(s)))
<1> DEFINE r == Tail(s)
<1>1. /\ IsSeq(r) /\ Len(r) = Len(s) - 1 /\ Len(s) \in Nat \ {0} /\ Head(s) = s[1]
      /\ \A i \in 1..Len(r) : r[i] = s[i + 1]
  BY TailIsSeq
<1> HIDE DEF r
<1>2. \A i \in 1..Len(r) : i + 1 \in 1..Len(s) /\ 1 \in 1..Len(s) /\ 1 < i + 1
  BY <1>1
<1>3. ASSUME NEW i \in 1..Len(r), NEW j \in 1..Len(r), i < j,
             IsEventMessage(r[i]), IsEventMessage(r[j])
      PROVE  Follows(r[i], r[j])
  <2>1. i + 1 < j + 1
    BY <1>3
  <2> QED
    BY <1>1, <1>2, <1>3, <2>1 DEF InTurn
<1>4. ASSUME NEW i \in 1..Len(r), IsEventMessage(s[1]), IsEventMessage(r[i])
      PROVE  Follows(s[1], r[i])
  BY <1>1, <1>2, <1>4 DEF InTurn
<1>5. AllFollow({s[1]}, ToSet(r))
  BY <1>1, <1>4, SetOfSeq DEF AllFollow
<1> QED
  BY <1>1, <1>3, <1>5 DEF InTurn, r

LEMMA TurnAppend ==
  ASSUME NEW s, IsSeq(s), InTurn(s), NEW x, AllFollow(ToSet(s), {x})
  PROVE  InTurn(Append(s, x))
<1> DEFINE r == Append(s, x)
           n == Len(s)
<1>1. /\ IsSeq(r) /\ n \in Nat /\ Len(r) = n + 1
      /\ \A i \in 1..n : r[i] = s[i]
      /\ r[n + 1] = x
  BY AppendIsSeq
<1> HIDE DEF r
<1>2. ASSUME NEW i \in 1..Len(r), NEW j \in 1..Len(r), i < j,
             IsEventMessage(r[i]), IsEventMessage(r[j])
      PROVE  Follows(r[i], r[j])
  <2>1. i \in 1..n
    BY <1>1, <1>2
  <2>2. CASE j \in 1..n
    BY <1>1, <1>2, <2>1, <2>2 DEF InTurn
  <2>3. CASE j = n + 1
    <3>1. s[i] \in ToSet(s)
      BY <2>1, SetOfSeq
    <3> QED
      BY <1>1, <1>2, <2>1, <2>3, <3>1 DEF AllFollow
  <2> QED
    BY <1>1, <2>2, <2>3
<1> QED
  BY <1>2 DEF InTurn, r

LEMMA EmptySet == ToSet(<< >>) = {} /\ IsSeq(<< >>) /\ InTurn(<< >>)
BY EmptyIsSeq, SetOfSeq DEF InTurn

-----------------------------------------------------------------------------
(* What the database has stays true of the market.                         *)

LEMMA DatabaseKept ==
  ASSUME ChainInv, ChainInv', ChainGrows, NEW e, InDatabase(e)
  PROVE  /\ InDatabase(e)'
         /\ e.kind = "fill" => /\ FillOf(Orders, e)
                               /\ BothHear(Orders', Trade(e)) <=> BothHear(Orders, Trade(e))
<1>1. PICK i \in 1..Len(log) : e = log[i] /\ log[i].txn <= indexed
  BY DEF InDatabase
<1>2. Len(log) \in Nat /\ Len(log') \in Nat
  BY IsSeqLen DEF ChainInv, LogTyped
<1>3. Logged(e, Orders) /\ e.txn \in Nat
  BY <1>1 DEF ChainInv, LogTyped, Logged
<1>4. indexed \in Nat /\ indexed' \in Nat
  BY DEF ChainInv, VersionsTyped
<1>5. i \in 1..Len(log') /\ e = log'[i] /\ log'[i].txn <= indexed'
  BY <1>1, <1>2, <1>3, <1>4 DEF ChainGrows
<1>6. InDatabase(e)'
  BY <1>5 DEF InDatabase
<1>7. ASSUME e.kind = "fill"
      PROVE  /\ FillOf(Orders, e)
             /\ BothHear(Orders', Trade(e)) <=> BothHear(Orders, Trade(e))
  <2> DEFINE new == Orders'
  <2>1. FillOf(Orders, e)
    BY <1>3, <1>7 DEF Logged
  <2>2. Keeps(Orders, new)
    BY DEF ChainGrows
  <2> HIDE DEF new
  <2>3. BothHear(new, Trade(e)) <=> BothHear(Orders, Trade(e))
    BY <2>1, <2>2 DEF FillOf, Keeps, BothHear, Trade
  <2> QED
    BY <2>1, <2>3 DEF new
<1> QED
  BY <1>6, <1>7

LEMMA MessageKept ==
  ASSUME ChainInv, ChainInv', ChainGrows, NEW m, EventMessage(m)
  PROVE  EventMessage(m)'
BY DatabaseKept DEF EventMessage

LEMMA LevelsKept ==
  ASSUME ChainGrows, NEW v \in 0..indexed, NEW side
  PROVE  LevelsOf(side, v)' = LevelsOf(side, v)
<1>1. ledger'[v] = ledger[v]
  BY DEF ChainGrows
<1> QED
  BY <1>1 DEF LevelsOf

LEMMA LevelAtKept ==
  ASSUME ChainGrows, NEW v \in 0..indexed, NEW level, LevelAt(level, v)
  PROVE  LevelAt(level, v)'
<1>1. PICK side \in Sides : \E n \in DOMAIN LevelsOf(side, v) : level = LevelsOf(side, v)[n]
  BY DEF LevelAt
<1>2. LevelsOf(side, v)' = LevelsOf(side, v)
  BY LevelsKept
<1>3. \E n \in DOMAIN LevelsOf(side, v)' : level = LevelsOf(side, v)'[n]
  BY <1>1, <1>2
<1> QED
  BY <1>3 DEF LevelAt

LEMMA TrueLevelKept ==
  ASSUME ChainInv, ChainInv', ChainGrows, NEW m, TrueLevel(m)
  PROVE  TrueLevel(m)'
<1>1. PICK v \in 0..indexed, side \in Sides : \E n \in DOMAIN LevelsOf(side, v) :
        m = LevelMessage(LevelsOf(side, v)[n], v)
  BY DEF TrueLevel
<1>2. LevelsOf(side, v)' = LevelsOf(side, v)
  BY LevelsKept
<1>3. v \in 0..indexed'
  BY DEF ChainGrows, ChainInv, VersionsTyped
<1>4. \E n \in DOMAIN LevelsOf(side, v)' : m = LevelMessage(LevelsOf(side, v)'[n], v)
  BY <1>1, <1>2
<1>5. ~IsEventMessage(m)
  BY DEF TrueLevel
<1> QED
  BY <1>3, <1>4, <1>5 DEF TrueLevel

(* What does not change as the market goes on.                             *)
LEMMA TypedKept ==
  ASSUME ChainInv, ChainInv', ChainGrows, MessagesTyped, IsSeq(queue'), 
         UNCHANGED <<published, client, sending, faults>>
  PROVE  MessagesTyped'
BY MessageKept, TrueLevelKept DEF MessagesTyped

LEMMA LevelsTypedKept ==
  ASSUME ChainInv, ChainInv', ChainGrows, LevelsTyped, UNCHANGED <<aggregated, round, shown>>
  PROVE  LevelsTyped'
<1>1. indexed \in Nat /\ indexed' \in Nat /\ indexed <= indexed'
  BY DEF ChainGrows, ChainInv, VersionsTyped
<1>2. aggregated' \in 0..indexed'
  BY <1>1 DEF LevelsTyped
<1>3. ASSUME NEW m \in {shown[t] : t \in DOMAIN shown} PROVE TrueLevel(m)'
  BY <1>3, TrueLevelKept DEF LevelsTyped
<1>4. ASSUME round.step # "sleep"
      PROVE  /\ IsSeq(round.rows)
             /\ \E v \in 0..indexed' : /\ round.snapshot = v
                                      /\ \A level \in ToSet(round.rows) : LevelAt(level, v)'
  <2>1. PICK v \in 0..indexed : /\ round.snapshot = v
                                /\ \A level \in ToSet(round.rows) : LevelAt(level, v)
    BY <1>4 DEF LevelsTyped
  <2>2. \A level \in ToSet(round.rows) : LevelAt(level, v)'
    BY <2>1, LevelAtKept
  <2>3. v \in 0..indexed'
    BY <1>1
  <2> QED
    BY <1>4, <2>1, <2>2, <2>3 DEF LevelsTyped
<1> QED
  BY <1>2, <1>3, <1>4 DEF LevelsTyped

-----------------------------------------------------------------------------
(* The database gets more events.                                          *)

LEMMA QueueInDatabase ==
  ASSUME MessagesTyped, QueueOrdered, NEW i \in 1..Len(queue)
  PROVE  InDatabase(queue[i])
BY SetOfSeq DEF MessagesTyped, QueueOrdered

LEMMA OutgoingInDatabase ==
  ASSUME MessagesTyped, NEW m \in Outgoing
  PROVE  EventMessage(m) /\ InDatabase(m.event)
BY DEF MessagesTyped, Outgoing, EventMessage, TrueLevel

(* The fills of a trade are of one transaction.                            *)
LEMMA TradeDated ==
  ASSUME ChainInv, NEW e, InDatabase(e), NEW i \in 1..Len(log), SameTrade(e, log[i])
  PROVE  log[i].txn <= indexed
BY DEF ChainInv, LogOrdered, InDatabase

LEMMA BeforeOther ==
  ASSUME ChainInv, NEW x, InDatabase(x), NEW y, Before(x, y)
  PROVE  x # y
BY DEF ChainInv, LogTyped, Logged, InDatabase, Before

(* q is a and then b.                                                      *)
Joined(q, a, b) ==
  /\ IsSeq(q) /\ IsSeq(a) /\ IsSeq(b)
  /\ Len(a) \in Nat /\ Len(b) \in Nat /\ Len(q) = Len(a) + Len(b)
  /\ \A i \in 1..Len(a) : q[i] = a[i]
  /\ \A i \in Len(a) + 1..Len(a) + Len(b) :
       i - Len(a) \in 1..Len(b) /\ q[i] = b[i - Len(a)]
  /\ \A i \in 1..Len(b) : Len(a) + i \in 1..Len(q) /\ q[Len(a) + i] = b[i]

LEMMA ConcatJoins ==
  ASSUME NEW a, IsSeq(a), NEW b, IsSeq(b)
  PROVE  Joined(a \o b, a, b)
<1> DEFINE q == a \o b
<1>1. /\ IsSeq(q) /\ Len(a) \in Nat /\ Len(b) \in Nat /\ Len(q) = Len(a) + Len(b)
      /\ \A i \in 1..Len(a) : q[i] = a[i]
  BY ConcatIsSeq
<1>2. \A i \in Len(a) + 1..Len(a) + Len(b) : i - Len(a) \in 1..Len(b) /\ q[i] = b[i - Len(a)]
  BY ConcatIsSeq
<1>3. \A i \in 1..Len(b) : q[Len(a) + i] = b[i]
  <2> SUFFICES ASSUME NEW i \in 1..Len(b) PROVE q[Len(a) + i] = b[i]
    OBVIOUS
  <2>1. (a \o b)[Len(a) + i] = b[i]
    BY ConcatIsSeq
  <2> QED
    BY <2>1
<1> HIDE DEF q
<1> QED
  BY <1>1, <1>2, <1>3 DEF Joined, q

(* The queue after a step of the market.                                   *)
LEMMA QueueGrows ==
  ASSUME PublisherInv, ChainInv', ChainGrows, ChainStep
  PROVE  \E s : Joined(queue', queue, s) /\ Notified(s, Inserted)
<1>1. Inserted \subseteq 1..Len(log)
  BY IsSeqLen DEF Inserted, PublisherInv, ChainInv, LogTyped
<1>2. PICK s \in Notifications(Inserted) : queue' = queue \o s
  BY DEF ChainStep
<1>3. Notified(s, Inserted)
  <2> DEFINE N == Inserted
  <2>1. N \subseteq 1..Len(log) /\ s \in Notifications(N)
    BY <1>1
  <2> HIDE DEF N
  <2>2. Notified(s, N)
    BY <2>1, NotificationsList DEF PublisherInv, ChainInv
  <2> QED
    BY <2>2 DEF N
<1>4. IsSeq(queue) /\ IsSeq(s)
  BY <1>3 DEF Notified, PublisherInv, MessagesTyped
<1>5. Joined(queue \o s, queue, s)
  BY <1>4, ConcatJoins
<1> QED
  BY <1>2, <1>3, <1>5

(* An event that is notified was not in the database before.               *)
LEMMA InsertedNow ==
  ASSUME ChainInv, ChainInv', ChainGrows, NEW i \in Inserted, NEW e, e = log[i]
  PROVE  /\ i \in 1..Len(log) /\ e.txn \in Nat /\ indexed < e.txn
         /\ indexed \in Nat /\ InDatabase(e)'
<1>1. i \in 1..Len(log) /\ indexed < log[i].txn /\ log[i].txn <= indexed'
  BY IsSeqLen DEF Inserted, ChainInv, LogTyped
<1>2. log[i].txn \in Nat /\ indexed \in Nat
  BY <1>1 DEF ChainInv, LogTyped, Logged, VersionsTyped
<1>3. Len(log) \in Nat /\ Len(log') \in Nat
  BY IsSeqLen DEF ChainInv, LogTyped
<1>4. i \in 1..Len(log') /\ e = log'[i] /\ log'[i].txn <= indexed'
  BY <1>1, <1>3 DEF ChainGrows
<1>5. InDatabase(e)'
  BY <1>4 DEF InDatabase
<1> QED
  BY <1>1, <1>2, <1>5

LEMMA LogDistinct ==
  ASSUME ChainInv, NEW i \in 1..Len(log), NEW j \in 1..Len(log), i # j
  PROVE  log[i] # log[j]
<1>1. Before(log[i], log[j]) \/ Before(log[j], log[i])
  BY IsSeqLen DEF ChainInv, LogOrdered, LogTyped
<1>2. log[i].txn \in Nat /\ log[i].idx \in Nat /\ log[j].txn \in Nat /\ log[j].idx \in Nat
  BY DEF ChainInv, LogTyped, Logged
<1> QED
  BY <1>1, <1>2 DEF Before

(* A message of each trade that is remembered is on its way or published.  *)
LEMMA RememberedOut ==
  ASSUME MessagesTyped, TradesOnce, NEW t \in Remembered
  PROVE  \E m \in Outgoing : m.event.kind = "fill" /\ Trade(m.event) = t
BY DEF MessagesTyped, EventMessage, TradesOnce, Remembered, Outgoing, TradesIn

LEMMA ChainStepKeeps ==
  ASSUME PublisherInv, ChainInv', ChainGrows, ChainStep
  PROVE  PublisherInv'
<1>0. /\ ChainInv /\ MessagesTyped /\ MessagesOrdered /\ QueueOrdered
      /\ TradesOnce /\ TradesForgotten /\ LevelsTyped
  BY DEF PublisherInv
<1>1. UNCHANGED <<aggregated, sending, emitted, round, client, published, shown, faults>>
  BY DEF ChainStep
<1>2. PICK s : Joined(queue', queue, s) /\ Notified(s, Inserted)
  BY QueueGrows
<1>3. PICK q, old, N : q = queue' /\ old = queue /\ N = Inserted
  OBVIOUS
<1> DEFINE n == Len(old)
<1>4. Joined(q, old, s) /\ Notified(s, N) /\ n \in Nat /\ Len(s) \in Nat
  BY <1>2, <1>3 DEF Joined
<1>5. \A i \in N : /\ i \in 1..Len(log) /\ log[i].txn \in Nat /\ indexed < log[i].txn
                   /\ indexed \in Nat
  BY <1>0, <1>3, InsertedNow
<1>6. ASSUME NEW k \in 1..Len(s)
      PROVE  /\ \E i \in N : s[k] = log[i]
             /\ s[k].txn \in Nat /\ indexed < s[k].txn
             /\ \A e : e = s[k] => InDatabase(e)'
  <2>1. PICK i \in N : s[k] = log[i]
    BY <1>4 DEF Notified
  <2>2. \A e : e = log[i] => InDatabase(e)'
    BY <1>0, <1>3, InsertedNow
  <2> QED
    BY <1>5, <2>1, <2>2
<1>7. \A i \in 1..n : \A e : e = old[i] => InDatabase(e) /\ InDatabase(e)' /\ e.txn \in Nat /\ e.txn <= indexed
  <2> SUFFICES ASSUME NEW i \in 1..n, NEW e, e = old[i]
               PROVE  InDatabase(e) /\ InDatabase(e)' /\ e.txn \in Nat /\ e.txn <= indexed
    OBVIOUS
  <2>1. InDatabase(e)
    BY <1>0, <1>3, QueueInDatabase
  <2> QED
    BY <1>0, <2>1, DatabaseKept DEF InDatabase, ChainInv, LogTyped, Logged
<1>8. \A i \in 1..Len(q) : i \in 1..n \/ (i \in n + 1..n + Len(s) /\ i \notin 1..n)
  BY <1>4 DEF Joined
<1>9. Outgoing' = Outgoing /\ Remembered' = Remembered
  BY <1>1 DEF Outgoing, Remembered
<1>10. \A e \in ToSet(q) : InDatabase(e)'
  <2> SUFFICES ASSUME NEW i \in 1..Len(q), NEW e, e = q[i] PROVE InDatabase(e)'
    BY <1>4, SetOfSeq DEF Joined
  <2> QED
    BY <1>4, <1>6, <1>7, <1>8 DEF Joined
<1>11. \A m \in Outgoing : m.event.txn \in Nat /\ m.event.txn <= indexed
  BY <1>0, OutgoingInDatabase DEF InDatabase, ChainInv, LogTyped, Logged
<1>12. ASSUME NEW i \in 1..Len(q), NEW j \in 1..Len(q), i < j, q[i].kind = q[j].kind
       PROVE  Before(q[i], q[j])
  <2>1. CASE j \in 1..n
    <3>1. i \in 1..n /\ q[i] = old[i] /\ q[j] = old[j]
      BY <1>4, <1>12, <2>1 DEF Joined
    <3> QED
      BY <1>0, <1>3, <1>12, <2>1, <3>1 DEF QueueOrdered
  <2>2. CASE j \in n + 1..n + Len(s)
    <3>1. j - n \in 1..Len(s) /\ q[j] = s[j - n]
      BY <1>4, <2>2 DEF Joined
    <3>2. CASE i \in 1..n
      <4>1. q[i] = old[i] /\ q[i].txn \in Nat /\ q[i].txn <= indexed
        BY <1>4, <1>7, <3>2 DEF Joined
      <4>2. q[j].txn \in Nat /\ indexed < q[j].txn /\ indexed \in Nat
        BY <1>0, <1>6, <3>1 DEF ChainInv, VersionsTyped
      <4> QED
        BY <4>1, <4>2 DEF Before
    <3>3. CASE i \in n + 1..n + Len(s)
      <4>1. i - n \in 1..Len(s) /\ q[i] = s[i - n]
        BY <1>4, <3>3 DEF Joined
      <4>2. i - n < j - n
        BY <1>4, <1>12, <2>2, <3>3
      <4> QED
        BY <1>4, <1>12, <3>1, <4>1, <4>2 DEF Notified
    <3> QED
      BY <1>8, <3>2, <3>3
  <2> QED
    BY <1>8, <2>1, <2>2
<1>13. ASSUME NEW m \in Outgoing, NEW i \in 1..Len(q), m.event.kind = q[i].kind
       PROVE  Before(m.event, q[i])
  <2>1. CASE i \in 1..n
    <3>1. q[i] = old[i]
      BY <1>4, <2>1 DEF Joined
    <3> QED
      BY <1>0, <1>3, <1>13, <2>1, <3>1 DEF QueueOrdered
  <2>2. CASE i \in n + 1..n + Len(s)
    <3>1. q[i].txn \in Nat /\ indexed < q[i].txn /\ indexed \in Nat
      BY <1>0, <1>4, <1>6, <2>2 DEF ChainInv, VersionsTyped, Joined
    <3> QED
      BY <1>11, <3>1 DEF Before
  <2> QED
    BY <1>8, <2>1, <2>2
<1>14. QueueOrdered'
  BY <1>3, <1>9, <1>10, <1>12, <1>13 DEF QueueOrdered
<1>15. ASSUME NEW i \in 1..Len(q), q[i].kind = "fill", Trade(q[i]) \in TradesIn(Outgoing)
       PROVE  Trade(q[i]) \in Remembered /\ ~Paired(q, i)
  <2>1. CASE i \in 1..n
    <3>1. q[i] = old[i] /\ InDatabase(q[i])
      BY <1>4, <1>7, <2>1 DEF Joined
    <3>2. Trade(q[i]) \in Remembered /\ ~Paired(old, i)
      BY <1>0, <1>3, <1>15, <2>1, <3>1 DEF TradesOnce
    <3>3. ASSUME NEW j \in 1..Len(q), j # i, SameTrade(q[i], q[j]) PROVE FALSE
      <4>1. CASE j \in 1..n
        <5>1. q[j] = old[j]
          BY <1>4, <4>1 DEF Joined
        <5> QED
          BY <3>1, <3>2, <3>3, <4>1, <5>1 DEF Paired
      <4>2. CASE j \in n + 1..n + Len(s)
        <5>1. PICK h \in N : q[j] = log[h]
          BY <1>4, <1>6, <4>2 DEF Joined
        <5>2. log[h].txn <= indexed
          BY <1>0, <1>5, <3>1, <3>3, <5>1, TradeDated
        <5> QED
          BY <1>5, <5>2
      <4> QED
        BY <1>8, <4>1, <4>2
    <3> QED
      BY <3>2, <3>3 DEF Paired
  <2>2. CASE i \in n + 1..n + Len(s)
    <3>1. PICK h \in N : q[i] = log[h]
      BY <1>4, <1>6, <2>2 DEF Joined
    <3>2. PICK m \in Outgoing : m.event.kind = "fill" /\ Trade(m.event) = Trade(q[i])
      BY <1>15 DEF TradesIn
    <3>3. SameTrade(m.event, log[h])
      BY <1>15, <3>1, <3>2 DEF SameTrade
    <3>4. log[h].txn <= indexed
      BY <1>0, <1>5, <3>3, OutgoingInDatabase, TradeDated
    <3> QED
      BY <1>5, <3>4
  <2> QED
    BY <1>8, <2>1, <2>2
<1>16. TradesOnce'
  <2>1. emitted' \subseteq TradesIn(Outgoing')
    BY <1>0, <1>1, <1>9 DEF TradesOnce
  <2> QED
    BY <1>3, <1>9, <1>15, <2>1 DEF TradesOnce
<1>17. PICK new : new = Orders'
  OBVIOUS
<1>18. ASSUME faults = 0, NEW i \in 1..Len(q), q[i].kind = "fill", BothHear(new, Trade(q[i]))
       PROVE  Trade(q[i]) \in Remembered \/ Paired(q, i)
  <2>1. CASE i \in 1..n
    <3>1. q[i] = old[i] /\ InDatabase(q[i])
      BY <1>4, <1>7, <2>1 DEF Joined
    <3>2. BothHear(Orders, Trade(q[i]))
      BY <1>0, <1>17, <1>18, <3>1, DatabaseKept
    <3>3. Trade(q[i]) \in Remembered \/ Paired(old, i)
      BY <1>0, <1>3, <1>18, <2>1, <3>1, <3>2 DEF TradesForgotten
    <3>4. Paired(old, i) => Paired(q, i)
      <4> SUFFICES ASSUME NEW j \in 1..n, j # i, SameTrade(old[i], old[j])
                   PROVE  Paired(q, i)
        BY DEF Paired
      <4>1. q[j] = old[j] /\ j \in 1..Len(q)
        BY <1>4 DEF Joined
      <4> QED
        BY <3>1, <4>1 DEF Paired
    <3> QED
      BY <3>3, <3>4
  <2>2. CASE i \in n + 1..n + Len(s)
    <3> DEFINE k == i - n
    <3>0. k \in 1..Len(s) /\ q[i] = s[k] /\ i = n + k
      BY <1>4, <2>2 DEF Joined
    <3> HIDE DEF k
    <3>1. PICK h \in N : q[i] = log[h]
      BY <1>6, <3>0
    <3>2. h \in 1..Len(log) /\ FillOf(Orders, log[h])
      BY <1>0, <1>5, <1>18, <3>1 DEF ChainInv, LogTyped, Logged
    <3>3. BothHear(Orders, Trade(log[h]))
      BY <1>17, <1>18, <3>1, <3>2 DEF ChainGrows, Keeps, FillOf, BothHear, Trade
    <3>4. PICK j \in 1..Len(log) : j # h /\ SameTrade(log[h], log[j])
      BY <1>0, <1>18, <3>1, <3>2, <3>3 DEF ChainInv, LogOrdered, Paired
    <3>5. log[j].txn = log[h].txn
      BY <1>0, <3>2, <3>4 DEF ChainInv, LogOrdered
    <3>6. j \in N
      BY <1>0, <1>3, <3>2, <3>4, <3>5, IsSeqLen DEF Inserted, ChainInv, LogTyped
    <3>7. PICK l \in 1..Len(s) : s[l] = log[j]
      BY <1>4, <3>6 DEF Notified
    <3>8. l # k
      BY <1>0, <3>0, <3>1, <3>2, <3>4, <3>7, LogDistinct
    <3>9. n + l \in 1..Len(q) /\ q[n + l] = s[l]
      BY <1>4 DEF Joined
    <3>10. n + l # i /\ SameTrade(q[i], q[n + l])
      BY <1>4, <3>0, <3>1, <3>4, <3>7, <3>8, <3>9
    <3> QED
      BY <3>9, <3>10 DEF Paired
  <2> QED
    BY <1>8, <2>1, <2>2
<1>19. ASSUME faults = 0, NEW t \in Remembered, BothHear(new, t)
       PROVE  Has(q, t)
  <2>1. PICK m \in Outgoing : m.event.kind = "fill" /\ Trade(m.event) = t
    BY <1>0, RememberedOut
  <2>2. BothHear(Orders, t)
    BY <1>0, <1>17, <1>19, <2>1, OutgoingInDatabase, DatabaseKept
  <2>3. Has(old, t)
    BY <1>0, <1>3, <1>19, <2>2 DEF TradesForgotten
  <2>4. PICK k \in 1..n : old[k].kind = "fill" /\ Trade(old[k]) = t
    BY <2>3 DEF Has
  <2>5. k \in 1..Len(q) /\ q[k] = old[k]
    BY <1>4 DEF Joined
  <2> QED
    BY <2>4, <2>5 DEF Has
<1>20. TradesForgotten'
  BY <1>1, <1>3, <1>9, <1>17, <1>18, <1>19 DEF TradesForgotten
<1>21. MessagesTyped'
  BY <1>0, <1>1, <1>3, <1>4, TypedKept DEF Joined
<1>22. LevelsTyped'
  BY <1>0, <1>1, LevelsTypedKept
<1>23. MessagesOrdered'
  BY <1>0, <1>1 DEF MessagesOrdered
<1> QED
  BY <1>14, <1>16, <1>20, <1>21, <1>22, <1>23 DEF PublisherInv

-----------------------------------------------------------------------------
(* Notifications are received.                                             *)

(* The messages of an event.                                               *)
MessagesOf(s, e) ==
  /\ IsSeq(s) /\ InTurn(s) /\ ToSet(s) # {}
  /\ \A m \in ToSet(s) : EventMessage(m) /\ m.event = e

LEMMA TopicsOfEvent ==
  ASSUME ChainInv, NEW e, InDatabase(e)
  PROVE  \E n \in 1..2 :
           /\ DOMAIN TopicsOf(e) = 1..n
           /\ \A i \in 1..n : IF e.kind = "place" THEN TopicsOf(e)[i][1] \in AllTypes
                              ELSE TopicsOf(e)[i][1] = e.kind
           /\ \A i, j \in 1..n : i < j => e.kind = "fill" /\ TopicsOf(e)[i] # TopicsOf(e)[j]
<1>1. Logged(e, Orders)
  BY DEF InDatabase, ChainInv, LogTyped
<1>2. CASE e.kind = "fill"
  <2> DEFINE a == AccountOf(e.order)
             b == AccountOf(e.taker)
  <2>1. a # b
    BY <1>1, <1>2 DEF Logged, FillOf, AccountOf
  <2> HIDE DEF a, b
  <2>2. TopicsOf(e) = <<<<"fill", a>>, <<"fill", b>>>>
    BY <1>2 DEF TopicsOf, a, b
  <2> QED
    BY <1>2, <2>1, <2>2
<1>3. CASE e.kind = "place"
  <2>1. TopicsOf(e) = <<<<e.type, e.account>>>>
    BY <1>3 DEF TopicsOf
  <2>2. e.type \in AllTypes
    BY <1>1, <1>3 DEF Logged
  <2> QED
    BY <1>3, <2>1, <2>2
<1>4. CASE e.kind # "fill" /\ e.kind # "place"
  <2> DEFINE a == AccountOf(e.order)
  <2>1. TopicsOf(e) = <<<<e.kind, a>>>>
    BY <1>4 DEF TopicsOf
  <2> HIDE DEF a
  <2> QED
    BY <1>4, <2>1
<1> QED
  BY <1>2, <1>3, <1>4

LEMMA MessagesOfEvent ==
  ASSUME ChainInv, NEW e, InDatabase(e)
  PROVE  MessagesOf(Messages(e), e)
<1> DEFINE t == TopicsOf(e)
           s == Messages(e)
<1>1. PICK n \in 1..2 :
        /\ DOMAIN t = 1..n
        /\ \A i \in 1..n : IF e.kind = "place" THEN t[i][1] \in AllTypes ELSE t[i][1] = e.kind
        /\ \A i, j \in 1..n : i < j => e.kind = "fill" /\ t[i] # t[j]
  BY TopicsOfEvent
<1> HIDE DEF t
<1>2. s = [i \in 1..n |-> [topic |-> t[i], event |-> e]]
  BY <1>1 DEF Messages, t
<1> HIDE DEF s
<1>3. IsSeq(s) /\ Len(s) = n
  <2>1. s = [i \in 1..n |-> s[i]]
    BY <1>2
  <2> QED
    BY <2>1, FcnIsSeq
<1>4. \A i \in 1..n : /\ IsEventMessage(s[i]) /\ s[i].event = e /\ s[i].topic = t[i]
  BY <1>2 DEF IsEventMessage
<1>5. \A i \in 1..n : EventMessage(s[i])
  BY <1>1, <1>4 DEF EventMessage
<1>6. \A m \in ToSet(s) : EventMessage(m) /\ m.event = e
  BY <1>3, <1>4, <1>5, SetOfSeq
<1>7. InTurn(s)
  BY <1>1, <1>3, <1>4 DEF InTurn, Follows
<1>8. s[1] \in ToSet(s)
  BY <1>3, SetOfSeq
<1> QED
  BY <1>3, <1>6, <1>7, <1>8, Zenon DEF s, MessagesOf

(* No three notifications are of one trade.                                *)
LEMMA NoThree ==
  ASSUME ChainInv, MessagesTyped, QueueOrdered,
         NEW i \in 1..Len(queue), NEW j \in 1..Len(queue), NEW k \in 1..Len(queue),
         i # j, j # k, i # k, SameTrade(queue[i], queue[j]), SameTrade(queue[j], queue[k])
  PROVE  FALSE
<1>1. /\ queue[i] # queue[j] /\ queue[j] # queue[k] /\ queue[i] # queue[k]
  <2>1. \A a, b \in 1..Len(queue) : a < b /\ SameTrade(queue[a], queue[b]) => queue[a] # queue[b]
    BY QueueInDatabase, BeforeOther DEF QueueOrdered, SameTrade
  <2>2. \A a, b \in 1..Len(queue) : a # b => a < b \/ b < a
    BY IsSeqLen DEF MessagesTyped
  <2> QED
    BY <2>1, <2>2 DEF SameTrade
<1>2. \A a \in 1..Len(queue) : \E h \in 1..Len(log) : queue[a] = log[h]
  BY QueueInDatabase DEF InDatabase
<1>3. PICK a \in 1..Len(log), b \in 1..Len(log), c \in 1..Len(log) :
        queue[i] = log[a] /\ queue[j] = log[b] /\ queue[k] = log[c]
  BY <1>2
<1>4. a # b /\ b # c /\ a # c
  BY <1>1, <1>3
<1>5. \A x, y \in {a, b, c} : SameTrade(log[x], log[y])
  BY <1>3 DEF SameTrade
<1>6. \A x, y, z \in {a, b, c} : ~(x < y /\ y < z)
  BY <1>5 DEF ChainInv, LogOrdered, AtMostTwo
<1>7. a \in Nat /\ b \in Nat /\ c \in Nat
  BY IsSeqLen DEF ChainInv, LogTyped
<1> QED
  BY <1>4, <1>6, <1>7

-----------------------------------------------------------------------------
(* e is the first notification of the queue, and q the others.             *)
FirstAndRest(q, e) ==
  /\ IsSeq(q) /\ Len(q) \in Nat /\ Len(queue) = Len(q) + 1 /\ queue[1] = e /\ InDatabase(e)
  /\ \A i \in 1..Len(q) : i + 1 \in 1..Len(queue) /\ q[i] = queue[i + 1]
  /\ \A x \in ToSet(q) : InDatabase(x)
  /\ \A i, j \in 1..Len(q) : i < j /\ q[i].kind = q[j].kind => Before(q[i], q[j])
  /\ \A i \in 1..Len(q) : e.kind = q[i].kind => Before(e, q[i])
  /\ \A i \in 1..Len(queue) : i # 1 => i - 1 \in 1..Len(q)

(* The queue without its first notification.                               *)
LEMMA QueueShrinks ==
  ASSUME PublisherInv, queue # << >>, NEW q, q = Tail(queue), NEW e, e = Head(queue)
  PROVE  FirstAndRest(q, e)
<1> DEFINE n == Len(q)
<1>0. ChainInv /\ MessagesTyped /\ QueueOrdered
  BY DEF PublisherInv
<1>1. /\ IsSeq(q) /\ n = Len(queue) - 1 /\ Len(queue) \in Nat \ {0} /\ e = queue[1]
      /\ \A i \in 1..n : q[i] = queue[i + 1]
  BY <1>0, TailIsSeq DEF MessagesTyped
<1>2. \A i \in 1..n : i + 1 \in 1..Len(queue) /\ 1 < i + 1 /\ 1 \in 1..Len(queue)
  BY <1>1
<1>3. n \in Nat /\ Len(queue) = n + 1 /\ InDatabase(e)
  <2>1. 1 \in 1..Len(queue)
    BY <1>1
  <2> QED
    BY <1>0, <1>1, <2>1, QueueInDatabase
<1>4. \A x \in ToSet(q) : InDatabase(x)
  <2> SUFFICES ASSUME NEW x \in ToSet(q) PROVE InDatabase(x)
    OBVIOUS
  <2>1. \E i \in 1..Len(q) : q[i] = x
    <3> HIDE DEF n
    <3>1. IsSeq(q)
      BY <1>1
    <3> QED
      BY <3>1, SetOfSeq
  <2>2. PICK i \in 1..n : q[i] = x
    BY <2>1
  <2> QED
    BY <1>0, <1>1, <1>2, <2>2, QueueInDatabase
<1>5. \A i, j \in 1..n : i < j /\ q[i].kind = q[j].kind => Before(q[i], q[j])
  <2> SUFFICES ASSUME NEW i \in 1..n, NEW j \in 1..n, i < j, q[i].kind = q[j].kind
               PROVE  Before(q[i], q[j])
    OBVIOUS
  <2>1. i + 1 < j + 1
    OBVIOUS
  <2> QED
    BY <1>0, <1>1, <1>2, <2>1 DEF QueueOrdered
<1>6. \A i \in 1..n : e.kind = q[i].kind => Before(e, q[i])
  BY <1>0, <1>1, <1>2 DEF QueueOrdered
<1>7. \A i \in 1..Len(queue) : i # 1 => i - 1 \in 1..n
  BY <1>1
<1> QED
  BY <1>1, <1>2, <1>3, <1>4, <1>5, <1>6, <1>7 DEF FirstAndRest

(* What messages, and the queue, are after a step that leaves the market   *)
(* alone.                                                                  *)
LEMMA StillTyped ==
  ASSUME PublisherInv, UNCHANGED chainVars
  PROVE  /\ \A m : EventMessage(m) => EventMessage(m)'
         /\ \A m : TrueLevel(m) => TrueLevel(m)'
         /\ \A x : InDatabase(x) => InDatabase(x)'
         /\ UNCHANGED <<aggregated, round, shown>> => LevelsTyped'
<1>1. ChainInv /\ ChainInv' /\ ChainGrows /\ LevelsTyped
  BY ChainStutters DEF PublisherInv
<1> QED
  BY <1>1, MessageKept, TrueLevelKept, DatabaseKept, LevelsTypedKept

(* The first notification of a trade, or any other event.                  *)
LEMMA ReceiveFirst ==
  ASSUME PublisherInv, sending = << >>, queue # << >>, UNCHANGED chainVars,
         UNCHANGED <<aggregated, round, client, published, shown, faults, emitted>>,
         queue' = Tail(queue), sending' = Messages(Head(queue)),
         ~(Head(queue).kind = "fill" /\ Trade(Head(queue)) \in emitted)
  PROVE  PublisherInv'
<1>0. /\ ChainInv /\ MessagesTyped /\ MessagesOrdered /\ QueueOrdered
      /\ TradesOnce /\ TradesForgotten /\ LevelsTyped /\ ChainInv' /\ ChainGrows
  BY ChainStutters DEF PublisherInv
<1>1. PICK q, e, n, s, M :
        q = Tail(queue) /\ e = Head(queue) /\ n = Len(q) /\ s = Messages(e) /\ M = ToSet(s)
  OBVIOUS
<1>2. /\ IsSeq(q) /\ n \in Nat /\ Len(queue) = n + 1 /\ queue[1] = e /\ InDatabase(e)
      /\ \A i \in 1..n : i + 1 \in 1..Len(queue) /\ q[i] = queue[i + 1]
      /\ \A x \in ToSet(q) : InDatabase(x)
      /\ \A i, j \in 1..n : i < j /\ q[i].kind = q[j].kind => Before(q[i], q[j])
      /\ \A i \in 1..n : e.kind = q[i].kind => Before(e, q[i])
      /\ \A i \in 1..Len(queue) : i # 1 => i - 1 \in 1..n
  <2>1. FirstAndRest(q, e)
    BY <1>1, QueueShrinks
  <2> QED
    BY <1>1, <2>1 DEF FirstAndRest
<1>3. MessagesOf(s, e)
  BY <1>0, <1>1, <1>2, MessagesOfEvent
<1>4. /\ IsSeq(s) /\ InTurn(s) /\ M # {}
      /\ \A m \in M : EventMessage(m) /\ IsEventMessage(m) /\ m.event = e
  BY <1>1, <1>3 DEF MessagesOf, EventMessage
<1>5. Outgoing' = Outgoing \cup M
  <2>1. ToSet(sending) = {} /\ ToSet(sending') = M
    BY <1>1, EmptySet
  <2> QED
    BY <1>4, <2>1 DEF Outgoing
<1>6. Remembered = emitted /\ Remembered' = emitted \cup TradesIn(M)
  BY <1>1, EmptySet DEF Remembered, TradesIn
<1>7. TradesIn(M) = IF e.kind = "fill" THEN {Trade(e)} ELSE {}
  BY <1>4 DEF TradesIn
<1>8. TradesIn(Outgoing') = TradesIn(Outgoing) \cup TradesIn(M)
  BY <1>5 DEF TradesIn
<1>9. 1 \in 1..Len(queue)
  BY <1>2
<1>10. MessagesTyped'
  BY <1>0, <1>1, <1>2, <1>4, StillTyped DEF MessagesTyped
<1>12. ASSUME NEW x \in Outgoing, NEW y \in M PROVE Follows(x, y)
  <2>1. ~SameTrade(x.event, e)
    <3> SUFFICES ASSUME SameTrade(x.event, e) PROVE FALSE
      OBVIOUS
    <3>1. e.kind = "fill" /\ Trade(e) \in TradesIn(Outgoing)
      BY DEF SameTrade, TradesIn
    <3>2. Trade(e) \in Remembered
      BY <1>0, <1>2, <1>9, <3>1 DEF TradesOnce
    <3> QED
      BY <1>1, <1>6, <3>1, <3>2
  <2>2. x.event.kind = e.kind => Before(x.event, e)
    BY <1>0, <1>2, <1>9 DEF QueueOrdered
  <2> QED
    BY <1>4, <2>1, <2>2 DEF Follows
<1>13. MessagesOrdered'
  <2>1. AllFollow(ToSet(published), ToSet(client) \cup M) /\ AllFollow(ToSet(client), M)
    BY <1>0, <1>12 DEF AllFollow, MessagesOrdered, Outgoing
  <2> QED
    BY <1>0, <1>1, <1>4, <2>1 DEF MessagesOrdered
<1>14. QueueOrdered'
  <2>1. ASSUME NEW m \in Outgoing \cup M, NEW i \in 1..n, m.event.kind = q[i].kind
        PROVE  Before(m.event, q[i])
    <3>1. CASE m \in M
      BY <1>2, <1>4, <2>1, <3>1
    <3>2. CASE m \in Outgoing
      BY <1>0, <1>2, <2>1, <3>2 DEF QueueOrdered
    <3> QED
      BY <3>1, <3>2
  <2> QED
    BY <1>1, <1>2, <1>5, <2>1, StillTyped DEF QueueOrdered
<1>15. \A i \in 1..n : Paired(q, i) => Paired(queue, i + 1)
  <2> SUFFICES ASSUME NEW i \in 1..n, NEW j \in 1..n, j # i, SameTrade(q[i], q[j])
               PROVE  Paired(queue, i + 1)
    BY <1>1 DEF Paired
  <2>1. j + 1 # i + 1
    OBVIOUS
  <2> QED
    BY <1>2, <2>1 DEF Paired
<1>16. ASSUME NEW i \in 1..n, q[i].kind = "fill", Trade(q[i]) \in TradesIn(Outgoing) \cup TradesIn(M)
       PROVE  Trade(q[i]) \in emitted \cup TradesIn(M) /\ ~Paired(q, i)
  <2>1. CASE Trade(q[i]) \in TradesIn(Outgoing)
    BY <1>0, <1>2, <1>6, <1>15, <1>16, <2>1 DEF TradesOnce
  <2>2. CASE Trade(q[i]) \in TradesIn(M)
    <3>1. SameTrade(e, q[i])
      BY <1>7, <1>16, <2>2 DEF SameTrade
    <3>2. ASSUME NEW j \in 1..n, j # i, SameTrade(q[i], q[j]) PROVE FALSE
      <4>1. /\ 1 \in 1..Len(queue) /\ i + 1 \in 1..Len(queue) /\ j + 1 \in 1..Len(queue)
            /\ 1 # i + 1 /\ i + 1 # j + 1 /\ 1 # j + 1
        BY <1>2, <1>9, <3>2
      <4>2. SameTrade(queue[1], queue[i + 1]) /\ SameTrade(queue[i + 1], queue[j + 1])
        BY <1>2, <3>1, <3>2
      <4> QED
        BY <1>0, <4>1, <4>2, NoThree
    <3> QED
      BY <1>1, <2>2, <3>2 DEF Paired
  <2> QED
    BY <1>16, <2>1, <2>2
<1>17. TradesOnce'
  BY <1>0, <1>1, <1>6, <1>8, <1>16 DEF TradesOnce
<1>18. ASSUME faults = 0, NEW i \in 1..n, q[i].kind = "fill", BothHear(Orders, Trade(q[i]))
       PROVE  Trade(q[i]) \in emitted \cup TradesIn(M) \/ Paired(q, i)
  <2>1. Trade(queue[i + 1]) \in Remembered \/ Paired(queue, i + 1)
    BY <1>0, <1>2, <1>18 DEF TradesForgotten
  <2>2. CASE Paired(queue, i + 1)
    <3>1. PICK j \in 1..Len(queue) : j # i + 1 /\ SameTrade(queue[i + 1], queue[j])
      BY <2>2 DEF Paired
    <3>2. CASE j = 1
      BY <1>2, <1>7, <3>1, <3>2 DEF SameTrade
    <3>3. CASE j # 1
      <4>1. j - 1 \in 1..n /\ q[j - 1] = queue[j] /\ j - 1 # i
        BY <1>2, <3>1, <3>3
      <4> QED
        BY <1>1, <1>2, <3>1, <4>1 DEF Paired
    <3> QED
      BY <3>2, <3>3
  <2> QED
    BY <1>2, <1>6, <2>1, <2>2
<1>19. ASSUME faults = 0, NEW t \in emitted \cup TradesIn(M), BothHear(Orders, t)
       PROVE  Has(q, t)
  <2>1. PICK k \in 1..Len(queue) : k # 1 /\ queue[k].kind = "fill" /\ Trade(queue[k]) = t
    <3>1. CASE t \in emitted
      <4>1. Has(queue, t)
        BY <1>0, <1>6, <1>19, <3>1 DEF TradesForgotten
      <4> QED
        BY <1>1, <1>2, <3>1, <4>1 DEF Has
    <3>2. CASE t \in TradesIn(M)
      <4>1. e.kind = "fill" /\ t = Trade(e) /\ t \notin emitted
        BY <1>1, <1>7, <3>2
      <4>2. Paired(queue, 1)
        BY <1>0, <1>2, <1>6, <1>9, <1>19, <4>1 DEF TradesForgotten
      <4> QED
        BY <1>2, <4>1, <4>2 DEF Paired, SameTrade
    <3> QED
      BY <1>19, <3>1, <3>2
  <2>2. k - 1 \in 1..n /\ q[k - 1] = queue[k]
    BY <1>2, <2>1
  <2> QED
    BY <1>1, <2>1, <2>2 DEF Has
<1>20. TradesForgotten'
  <2>1. Orders' = Orders
    BY DEF chainVars, Orders
  <2> QED
    BY <1>1, <1>6, <1>18, <1>19, <2>1 DEF TradesForgotten
<1>21. LevelsTyped'
  BY StillTyped
<1> QED
  BY <1>0, <1>10, <1>13, <1>14, <1>17, <1>20, <1>21 DEF PublisherInv

-----------------------------------------------------------------------------
(* The second notification of a trade.                                     *)
LEMMA ReceiveSecond ==
  ASSUME PublisherInv, sending = << >>, queue # << >>, UNCHANGED chainVars,
         UNCHANGED <<aggregated, round, client, published, shown, faults, sending>>,
         queue' = Tail(queue), emitted' = emitted \ {Trade(Head(queue))},
         Head(queue).kind = "fill", Trade(Head(queue)) \in emitted
  PROVE  PublisherInv'
<1>0. /\ ChainInv /\ MessagesTyped /\ MessagesOrdered /\ QueueOrdered
      /\ TradesOnce /\ TradesForgotten /\ LevelsTyped /\ ChainInv' /\ ChainGrows
  BY ChainStutters DEF PublisherInv
<1>1. PICK q, e, n : q = Tail(queue) /\ e = Head(queue) /\ n = Len(q)
  OBVIOUS
<1>2. /\ IsSeq(q) /\ n \in Nat /\ Len(queue) = n + 1 /\ queue[1] = e /\ InDatabase(e)
      /\ \A i \in 1..n : i + 1 \in 1..Len(queue) /\ q[i] = queue[i + 1]
      /\ \A x \in ToSet(q) : InDatabase(x)
      /\ \A i, j \in 1..n : i < j /\ q[i].kind = q[j].kind => Before(q[i], q[j])
      /\ \A i \in 1..n : e.kind = q[i].kind => Before(e, q[i])
      /\ \A i \in 1..Len(queue) : i # 1 => i - 1 \in 1..n
  <2>1. FirstAndRest(q, e)
    BY <1>1, QueueShrinks
  <2> QED
    BY <1>1, <2>1 DEF FirstAndRest
<1>3. 1 \in 1..Len(queue) /\ e.kind = "fill" /\ Trade(e) \in emitted
  BY <1>1, <1>2
<1>4. Outgoing' = Outgoing
  BY DEF Outgoing
<1>5. Remembered = emitted /\ Remembered' = emitted \ {Trade(e)}
  BY <1>1, EmptySet DEF Remembered, TradesIn
<1>6. ~Paired(queue, 1)
  BY <1>0, <1>2, <1>3 DEF TradesOnce
<1>7. \A i \in 1..n : q[i].kind = "fill" => Trade(q[i]) # Trade(e)
  <2> SUFFICES ASSUME NEW i \in 1..n, q[i].kind = "fill", Trade(q[i]) = Trade(e) PROVE FALSE
    OBVIOUS
  <2>1. i + 1 \in 1..Len(queue) /\ i + 1 # 1 /\ SameTrade(queue[1], queue[i + 1])
    BY <1>2, <1>3 DEF SameTrade
  <2> QED
    BY <1>6, <2>1 DEF Paired
<1>8. MessagesTyped'
  BY <1>0, <1>1, <1>2, StillTyped DEF MessagesTyped
<1>9. MessagesOrdered'
  BY <1>0 DEF MessagesOrdered
<1>10. \A m \in Outgoing, i \in 1..n : m.event.kind = q[i].kind => Before(m.event, q[i])
  BY <1>0, <1>2 DEF QueueOrdered
<1>11. QueueOrdered'
  BY <1>1, <1>2, <1>4, <1>10, StillTyped DEF QueueOrdered
<1>12. \A i \in 1..n : Paired(q, i) => Paired(queue, i + 1)
  <2> SUFFICES ASSUME NEW i \in 1..n, NEW j \in 1..n, j # i, SameTrade(q[i], q[j])
               PROVE  Paired(queue, i + 1)
    BY <1>1 DEF Paired
  <2>1. j + 1 # i + 1
    OBVIOUS
  <2> QED
    BY <1>2, <2>1 DEF Paired
<1>13. ASSUME NEW i \in 1..n, q[i].kind = "fill", Trade(q[i]) \in TradesIn(Outgoing)
       PROVE  Trade(q[i]) \in emitted \ {Trade(e)} /\ ~Paired(q, i)
  BY <1>0, <1>2, <1>5, <1>7, <1>12, <1>13 DEF TradesOnce
<1>14. TradesOnce'
  <2>1. emitted' \subseteq TradesIn(Outgoing')
    BY <1>0, <1>4 DEF TradesOnce
  <2> QED
    BY <1>1, <1>4, <1>5, <1>13, <2>1 DEF TradesOnce
<1>15. ASSUME faults = 0, NEW i \in 1..n, q[i].kind = "fill", BothHear(Orders, Trade(q[i]))
       PROVE  Trade(q[i]) \in emitted \ {Trade(e)} \/ Paired(q, i)
  <2>1. Trade(queue[i + 1]) \in Remembered \/ Paired(queue, i + 1)
    BY <1>0, <1>2, <1>15 DEF TradesForgotten
  <2>2. CASE Paired(queue, i + 1)
    <3>1. PICK j \in 1..Len(queue) : j # i + 1 /\ SameTrade(queue[i + 1], queue[j])
      BY <2>2 DEF Paired
    <3>2. j # 1
      BY <1>2, <1>7, <1>15, <3>1 DEF SameTrade
    <3>3. j - 1 \in 1..n /\ q[j - 1] = queue[j] /\ j - 1 # i
      BY <1>2, <3>1, <3>2
    <3> QED
      BY <1>1, <1>2, <3>1, <3>3 DEF Paired
  <2> QED
    BY <1>2, <1>5, <1>7, <1>15, <2>1, <2>2
<1>16. ASSUME faults = 0, NEW t \in emitted \ {Trade(e)}, BothHear(Orders, t)
       PROVE  Has(q, t)
  <2>1. Has(queue, t)
    BY <1>0, <1>5, <1>16 DEF TradesForgotten
  <2>2. PICK k \in 1..Len(queue) : queue[k].kind = "fill" /\ Trade(queue[k]) = t
    BY <2>1 DEF Has
  <2>3. k # 1
    BY <1>2, <2>2
  <2>4. k - 1 \in 1..n /\ q[k - 1] = queue[k]
    BY <1>2, <2>3
  <2> QED
    BY <1>1, <2>2, <2>4 DEF Has
<1>17. TradesForgotten'
  <2>1. Orders' = Orders
    BY DEF chainVars, Orders
  <2> QED
    BY <1>1, <1>5, <1>15, <1>16, <2>1 DEF TradesForgotten
<1>18. LevelsTyped'
  BY StillTyped
<1> QED
  BY <1>0, <1>8, <1>9, <1>11, <1>14, <1>17, <1>18 DEF PublisherInv

LEMMA ReceiveKeeps ==
  ASSUME PublisherInv, Receive
  PROVE  PublisherInv'
<1> DEFINE e == Head(queue)
           seen == e.kind = "fill" /\ Trade(e) \in emitted
<1>1. /\ sending = << >> /\ queue # << >> /\ queue' = Tail(queue) /\ UNCHANGED chainVars
      /\ UNCHANGED <<aggregated, round, client, published, shown, faults>>
      /\ sending' = IF seen THEN sending ELSE Messages(e) \o sending
      /\ emitted' = IF seen THEN emitted \ {Trade(e)} ELSE emitted
  BY DEF Receive, Ready, Forget
<1>2. CASE seen
  BY <1>1, <1>2, ReceiveSecond
<1>3. CASE ~seen
  <2>1. ChainInv /\ MessagesTyped /\ QueueOrdered
    BY DEF PublisherInv
  <2>2. InDatabase(e)
    BY <1>1, QueueShrinks DEF FirstAndRest
  <2>3. IsSeq(Messages(e))
    BY <2>1, <2>2, MessagesOfEvent DEF MessagesOf
  <2>4. Messages(e) \o << >> = Messages(e)
    BY <2>3, ConcatEmptySeq DEF IsSeq
  <2>5. sending' = Messages(e) /\ emitted' = emitted
    BY <1>1, <1>3, <2>4
  <2> QED
    BY <1>1, <1>3, <2>5, ReceiveFirst
<1> QED
  BY <1>2, <1>3

-----------------------------------------------------------------------------
(* Messages move on.                                                       *)

LEMMA SameOutgoing ==
  ASSUME PublisherInv, UNCHANGED chainVars, UNCHANGED <<queue, faults>>,
         Outgoing' = Outgoing, Remembered' = Remembered, emitted' \subseteq TradesIn(Outgoing)
  PROVE  QueueOrdered' /\ TradesOnce' /\ TradesForgotten'
<1>1. QueueOrdered /\ TradesOnce /\ TradesForgotten
  BY DEF PublisherInv
<1>2. Orders' = Orders
  BY DEF chainVars, Orders
<1>3. QueueOrdered'
  BY <1>1, StillTyped DEF QueueOrdered
<1>4. TradesOnce'
  BY <1>1 DEF TradesOnce
<1>5. TradesForgotten'
  BY <1>1, <1>2 DEF TradesForgotten
<1> QED
  BY <1>3, <1>4, <1>5

LEMMA SendKeeps ==
  ASSUME PublisherInv, Send
  PROVE  PublisherInv'
<1>0. /\ MessagesTyped /\ MessagesOrdered /\ TradesOnce /\ ChainInv'
  BY ChainStutters DEF PublisherInv, Send
<1>1. PICK m, rest : m = Head(sending) /\ rest = Tail(sending)
  OBVIOUS
<1>2. /\ sending # << >> /\ client' = Append(client, m) /\ sending' = rest
      /\ emitted' = emitted \cup Sent(m)
      /\ UNCHANGED chainVars /\ UNCHANGED <<aggregated, queue, round, published, shown, faults>>
  BY <1>1 DEF Send
<1>3. /\ ToSet(sending) = {m} \cup ToSet(rest) /\ IsSeq(rest) /\ InTurn(rest)
      /\ AllFollow({m}, ToSet(rest)) /\ Len(rest) = Len(sending) - 1 /\ Len(sending) \in Nat \ {0}
  BY <1>0, <1>1, <1>2, SetOfTail, TurnTail, TailIsSeq DEF MessagesTyped, MessagesOrdered
<1>4. /\ ToSet(client') = ToSet(client) \cup {m} /\ IsSeq(client')
      /\ AllFollow(ToSet(client), {m})
  BY <1>0, <1>2, <1>3, SetOfAppend, AppendIsSeq DEF MessagesTyped, MessagesOrdered, AllFollow
<1>5. InTurn(client')
  <2>1. InTurn(Append(client, m))
    BY <1>0, <1>4, TurnAppend DEF MessagesTyped, MessagesOrdered
  <2> QED
    BY <1>2, <2>1
<1>6. EventMessage(m) /\ IsEventMessage(m) /\ \A x \in ToSet(rest) : x.event = m.event
  BY <1>0, <1>3 DEF MessagesTyped, EventMessage
<1>7. MessagesTyped'
  BY <1>0, <1>2, <1>3, <1>4, <1>6, StillTyped DEF MessagesTyped
<1>8. MessagesOrdered'
  BY <1>0, <1>2, <1>3, <1>4, <1>5 DEF MessagesOrdered, AllFollow
<1>9. Outgoing' = Outgoing
  BY <1>2, <1>3, <1>4 DEF Outgoing
<1>10. TradesIn(ToSet(sending)) = IF m.event.kind = "fill" THEN {Trade(m.event)} ELSE {}
  BY <1>3, <1>6 DEF TradesIn
<1>11. Remembered' = Remembered /\ emitted' \subseteq Remembered
  <2>1. CASE Len(sending) = 1
    <3>1. ToSet(rest) = {}
      BY <1>3, <2>1, SetOfSeq
    <3>2. TradesIn(ToSet(rest)) = {} /\ Sent(m) = TradesIn(ToSet(sending))
      BY <1>10, <2>1, <3>1 DEF Sent, TradesIn
    <3> QED
      BY <1>2, <3>2 DEF Remembered
  <2>2. CASE Len(sending) # 1
    <3>1. 1 \in 1..Len(rest)
      BY <1>3, <2>2
    <3>2. rest[1] \in ToSet(rest)
      BY <1>3, <3>1, SetOfSeq
    <3>3. TradesIn(ToSet(rest)) = TradesIn(ToSet(sending)) /\ Sent(m) = {}
      BY <1>6, <1>10, <2>2, <3>2 DEF Sent, TradesIn
    <3> QED
      BY <1>2, <3>3 DEF Remembered
  <2> QED
    BY <2>1, <2>2
<1>12. emitted' \subseteq TradesIn(Outgoing)
  BY <1>0, <1>11, RememberedOut DEF TradesIn
<1> QED
  BY <1>0, <1>2, <1>7, <1>8, <1>9, <1>11, <1>12, SameOutgoing, StillTyped DEF PublisherInv

-----------------------------------------------------------------------------
(* Levels.                                                                 *)

LEMMA LevelsAreSeq ==
  ASSUME ChainInv, PublisherAssumption, NEW v \in 0..indexed, NEW side \in Sides
  PROVE  IsSeq(LevelsOf(side, v))
<1> DEFINE q == ledger[v].book[side]
           prices == Prices(q)
           n == MinOf(Levels, Cardinality(prices))
           l == LevelsIn(side, q)
<1>1. IsSeq(q) /\ DOMAIN q = 1..Len(q) /\ Len(q) \in Nat
  <2>1. v \in 0..version
    BY DEF ChainInv, VersionsTyped
  <2> QED
    BY <2>1, IsSeqLen DEF ChainInv, VersionsTyped
<1> HIDE DEF q
<1>2. IsFiniteSet(1..Len(q))
  BY <1>1, FS_Interval
<1> DEFINE f == [i \in 1..Len(q) |-> q[i].price]
<1>3. prices = {f[i] : i \in 1..Len(q)}
  BY <1>1 DEF Prices
<1> HIDE DEF f, prices
<1>4. IsFiniteSet({f[i] : i \in 1..Len(q)})
  <2> DEFINE T == {f[i] : i \in 1..Len(q)}
  <2>1. f \in [1..Len(q) -> T]
    BY DEF f
  <2>2. f \in Surjection(1..Len(q), T)
    BY <2>1 DEF Surjection
  <2> HIDE DEF T
  <2>3. IsFiniteSet(T)
    BY <1>2, <2>2, FS_Surjection
  <2> QED
    BY <2>3 DEF T
<1>5. Cardinality(prices) \in Nat
  BY <1>3, <1>4, FS_CardinalityType
<1>6. n \in Nat
  BY <1>5 DEF MinOf, PublisherAssumption
<1>7. l = [i \in 1..n |-> l[i]]
  BY DEF LevelsIn, prices
<1> HIDE DEF l, n
<1>8. IsSeq(l)
  BY <1>6, <1>7, FcnIsSeq
<1> QED
  BY <1>8 DEF LevelsOf, l, q

(* A step that only moves levels.                                          *)
LEMMA OnlyLevels ==
  ASSUME PublisherInv, UNCHANGED chainVars,
         UNCHANGED <<queue, sending, emitted, client, published, faults>>, LevelsTyped'
  PROVE  PublisherInv'
<1>1. ChainInv'
  BY ChainStutters DEF PublisherInv
<1>2. Outgoing' = Outgoing /\ Remembered' = Remembered
  BY DEF Outgoing, Remembered
<1>3. emitted' \subseteq TradesIn(Outgoing)
  BY DEF PublisherInv, TradesOnce
<1>4. MessagesTyped' /\ MessagesOrdered'
  BY StillTyped DEF PublisherInv, MessagesTyped, MessagesOrdered
<1> QED
  BY <1>1, <1>2, <1>3, <1>4, SameOutgoing DEF PublisherInv

LEMMA AggregateKeeps ==
  ASSUME PublisherInv, AggregateUserHistory
  PROVE  PublisherInv'
<1>1. /\ aggregated' \in (IF recorded THEN aggregated + 1 ELSE 0)..indexed
      /\ UNCHANGED chainVars
      /\ UNCHANGED <<queue, sending, emitted, round, client, published, shown, faults>>
  BY DEF AggregateUserHistory
<1>2. PICK a : a = aggregated
  OBVIOUS
<1>3. LevelsTyped /\ ChainInv
  BY DEF PublisherInv
<1>4. aggregated' \in 0..indexed' /\ indexed' = indexed
  BY <1>1, <1>3 DEF LevelsTyped, chainVars, ChainInv, VersionsTyped
<1>5. \A m : TrueLevel(m) => TrueLevel(m)'
  BY <1>1, StillTyped
<1>6. \A v \in 0..indexed : \A level : LevelAt(level, v) => LevelAt(level, v)'
  BY <1>1, ChainStutters, LevelAtKept DEF PublisherInv
<1>7. LevelsTyped'
  BY <1>1, <1>3, <1>4, <1>5, <1>6 DEF LevelsTyped
<1> QED
  BY <1>1, <1>7, OnlyLevels

LEMMA ReadLevelsKeeps ==
  ASSUME PublisherAssumption, PublisherInv, ReadLevels
  PROVE  PublisherInv'
<1>1. PICK v, a, b, r : v = aggregated /\ a = LevelsOf("ask", v) /\ b = LevelsOf("bid", v) /\ r = a \o b
  OBVIOUS
<1>2. /\ UNCHANGED chainVars
      /\ UNCHANGED <<aggregated, queue, sending, emitted, client, published, shown, faults>>
      /\ round' = [step |-> "read", snapshot |-> v, recorded |-> recorded, rows |-> r]
  BY <1>1 DEF ReadLevels
<1>3. LevelsTyped /\ ChainInv /\ ChainInv' /\ ChainGrows /\ indexed' = indexed
  BY <1>2, ChainStutters DEF PublisherInv, chainVars
<1>4. v \in 0..indexed /\ "ask" \in Sides /\ "bid" \in Sides
  BY <1>1, <1>3 DEF LevelsTyped, Sides
<1>5. IsSeq(a) /\ IsSeq(b)
  BY <1>1, <1>3, <1>4, LevelsAreSeq
<1>6. Joined(r, a, b)
  BY <1>1, <1>5, ConcatJoins
<1>7. \A i \in 1..Len(a) : LevelAt(a[i], v)
  BY <1>1, <1>4, <1>5, IsSeqLen DEF LevelAt
<1>8. \A i \in 1..Len(b) : LevelAt(b[i], v)
  BY <1>1, <1>4, <1>5, IsSeqLen DEF LevelAt
<1>9. \A level \in ToSet(r) : LevelAt(level, v)
  <2> SUFFICES ASSUME NEW i \in 1..Len(r) PROVE LevelAt(r[i], v)
    BY <1>6, SetOfSeq DEF Joined
  <2>1. i \in 1..Len(a) \/ i \in Len(a) + 1..Len(a) + Len(b)
    BY <1>6 DEF Joined
  <2>2. CASE i \in 1..Len(a)
    BY <1>6, <1>7, <2>2 DEF Joined
  <2>3. CASE i \in Len(a) + 1..Len(a) + Len(b)
    <3>1. i - Len(a) \in 1..Len(b) /\ r[i] = b[i - Len(a)]
      BY <1>6, <2>3 DEF Joined
    <3> QED
      BY <1>8, <3>1
  <2> QED
    BY <2>1, <2>2, <2>3
<1>10. \A level \in ToSet(r) : LevelAt(level, v)'
  BY <1>3, <1>4, <1>9, LevelAtKept
<1>11. \A m : TrueLevel(m) => TrueLevel(m)'
  BY <1>2, StillTyped
<1>12. /\ DOMAIN round' = {"step", "snapshot", "recorded", "rows"}
       /\ round'.snapshot = v /\ round'.rows = r /\ IsSeq(r)
  BY <1>2, <1>6 DEF Joined
<1>13. LevelsTyped'
  BY <1>2, <1>3, <1>4, <1>10, <1>11, <1>12 DEF LevelsTyped
<1> QED
  BY <1>2, <1>13, OnlyLevels

LEMMA ReadVersionKeeps ==
  ASSUME PublisherInv, ReadVersion
  PROVE  PublisherInv'
<1>1. /\ UNCHANGED chainVars
      /\ UNCHANGED <<aggregated, queue, sending, emitted, client, published, shown, faults>>
      /\ round.step = "read"
      /\ round' = [round EXCEPT !.step = "publish", !.snapshot = round.snapshot]
  BY DEF ReadVersion, VersionRead
<1>2. LevelsTyped /\ ChainInv /\ ChainInv' /\ ChainGrows /\ indexed' = indexed
  BY <1>1, ChainStutters DEF PublisherInv, chainVars
<1>3. /\ DOMAIN round' = {"step", "snapshot", "recorded", "rows"}
      /\ round'.snapshot = round.snapshot /\ round'.rows = round.rows
  BY <1>1, <1>2 DEF LevelsTyped
<1>4. PICK v \in 0..indexed : /\ round.snapshot = v
                              /\ \A level \in ToSet(round.rows) : LevelAt(level, v)
  BY <1>1, <1>2 DEF LevelsTyped
<1>5. IsSeq(round.rows)
  BY <1>1, <1>2 DEF LevelsTyped
<1>6. \A level \in ToSet(round.rows) : LevelAt(level, v)'
  BY <1>2, <1>4, LevelAtKept
<1>7. \A m : TrueLevel(m) => TrueLevel(m)'
  BY <1>1, StillTyped
<1>8. LevelsTyped'
  BY <1>1, <1>2, <1>3, <1>4, <1>5, <1>6, <1>7 DEF LevelsTyped
<1> QED
  BY <1>1, <1>8, OnlyLevels

LEMMA SleepKeeps ==
  ASSUME PublisherInv, Sleep
  PROVE  PublisherInv'
<1>1. /\ UNCHANGED chainVars /\ round' = NoRound
      /\ UNCHANGED <<aggregated, queue, sending, emitted, client, published, shown, faults>>
  BY DEF Sleep
<1>2. LevelsTyped /\ indexed' = indexed
  BY <1>1 DEF PublisherInv, chainVars
<1>3. \A m : TrueLevel(m) => TrueLevel(m)'
  BY <1>1, StillTyped
<1>4. LevelsTyped'
  BY <1>1, <1>2, <1>3 DEF LevelsTyped, NoRound
<1> QED
  BY <1>1, <1>4, OnlyLevels

LEMMA SendLevelKeeps ==
  ASSUME PublisherInv, SendLevel
  PROVE  PublisherInv'
<1>1. PICK m, rows : m = LevelMessage(Head(round.rows), round.snapshot) /\ rows = Tail(round.rows)
  OBVIOUS
<1>2. /\ UNCHANGED chainVars /\ client' = Append(client, m)
      /\ UNCHANGED <<aggregated, queue, sending, emitted, published, shown, faults>>
      /\ round.step = "publish" /\ round.rows # << >>
      /\ round' = [round EXCEPT !.rows = rows]
  BY <1>1 DEF SendLevel, Rest
<1>3. /\ LevelsTyped /\ MessagesTyped /\ MessagesOrdered /\ TradesOnce
      /\ ChainInv /\ ChainInv' /\ ChainGrows /\ indexed' = indexed
  BY <1>2, ChainStutters DEF PublisherInv, chainVars
<1>4. PICK v \in 0..indexed : /\ round.snapshot = v
                              /\ \A level \in ToSet(round.rows) : LevelAt(level, v)
  BY <1>2, <1>3 DEF LevelsTyped
<1>5. IsSeq(round.rows)
  BY <1>2, <1>3 DEF LevelsTyped
<1>6. ToSet(round.rows) = {Head(round.rows)} \cup ToSet(rows) /\ IsSeq(rows)
  BY <1>1, <1>2, <1>5, SetOfTail, TailIsSeq
<1>7. TrueLevel(m) /\ ~IsEventMessage(m)
  <2>1. LevelAt(Head(round.rows), v)
    BY <1>4, <1>6
  <2>2. ~IsEventMessage(m)
    BY <1>1 DEF LevelMessage, IsEventMessage
  <2> QED
    BY <1>1, <1>4, <2>1, <2>2 DEF LevelAt, TrueLevel
<1>8. /\ DOMAIN round' = {"step", "snapshot", "recorded", "rows"}
      /\ round'.snapshot = v /\ round'.rows = rows
  BY <1>2, <1>3, <1>4 DEF LevelsTyped
<1>9. \A level \in ToSet(rows) : LevelAt(level, v)'
  BY <1>3, <1>4, <1>6, LevelAtKept
<1>10. \A x : TrueLevel(x) => TrueLevel(x)'
  BY <1>2, StillTyped
<1>11. LevelsTyped'
  BY <1>2, <1>3, <1>4, <1>6, <1>8, <1>9, <1>10 DEF LevelsTyped
<1>12. ToSet(client') = ToSet(client) \cup {m} /\ IsSeq(client')
  BY <1>2, <1>3, SetOfAppend, AppendIsSeq DEF MessagesTyped
<1>13. InTurn(client')
  <2>1. AllFollow(ToSet(client), {m})
    BY <1>7 DEF AllFollow
  <2>2. InTurn(Append(client, m))
    BY <1>3, <2>1, TurnAppend DEF MessagesTyped, MessagesOrdered
  <2> QED
    BY <1>2, <2>2
<1>14. MessagesTyped'
  BY <1>2, <1>3, <1>7, <1>12, StillTyped DEF MessagesTyped
<1>15. MessagesOrdered'
  BY <1>2, <1>3, <1>7, <1>12, <1>13 DEF MessagesOrdered, AllFollow
<1>16. Outgoing' = Outgoing /\ Remembered' = Remembered
  BY <1>2, <1>7, <1>12 DEF Outgoing, Remembered
<1>17. emitted' \subseteq TradesIn(Outgoing)
  BY <1>2, <1>3 DEF TradesOnce
<1> QED
  BY <1>2, <1>3, <1>11, <1>14, <1>15, <1>16, <1>17, SameOutgoing DEF PublisherInv

-----------------------------------------------------------------------------
(* The broker.                                                             *)

(* A message of an event is published.                                     *)
LEMMA PollEvent ==
  ASSUME PublisherInv, client # << >>, UNCHANGED chainVars,
         UNCHANGED <<aggregated, queue, sending, emitted, round, faults, shown>>,
         NEW m, m = Head(client), IsEventMessage(m),
         client' = Tail(client), published' = Append(published, m)
  PROVE  PublisherInv'
<1>0. /\ MessagesTyped /\ MessagesOrdered /\ TradesOnce /\ ChainInv'
  BY ChainStutters DEF PublisherInv
<1>1. PICK rest : rest = Tail(client)
  OBVIOUS
<1>2. /\ ToSet(client) = {m} \cup ToSet(rest) /\ IsSeq(rest) /\ InTurn(rest)
      /\ AllFollow({m}, ToSet(rest))
  BY <1>0, <1>1, SetOfTail, TurnTail, TailIsSeq DEF MessagesTyped, MessagesOrdered
<1>3. /\ ToSet(published') = ToSet(published) \cup {m} /\ IsSeq(published')
      /\ AllFollow(ToSet(published), {m})
  BY <1>0, <1>2, SetOfAppend, AppendIsSeq DEF MessagesTyped, MessagesOrdered, AllFollow
<1>4. InTurn(published')
  <2>1. InTurn(Append(published, m))
    BY <1>0, <1>3, TurnAppend DEF MessagesTyped, MessagesOrdered
  <2> QED
    BY <2>1
<1>5. EventMessage(m)
  BY <1>0, <1>2 DEF MessagesTyped, TrueLevel
<1>6. MessagesTyped'
  BY <1>0, <1>1, <1>2, <1>3, <1>5, StillTyped DEF MessagesTyped
<1>7. MessagesOrdered'
  BY <1>0, <1>1, <1>2, <1>3, <1>4 DEF MessagesOrdered, AllFollow
<1>8. Outgoing' = Outgoing /\ Remembered' = Remembered
  BY <1>1, <1>2, <1>3 DEF Outgoing, Remembered
<1>9. emitted' \subseteq TradesIn(Outgoing)
  BY <1>0 DEF TradesOnce
<1> QED
  BY <1>0, <1>6, <1>7, <1>8, <1>9, SameOutgoing, StillTyped DEF PublisherInv

(* A level is published.                                                   *)
LEMMA PollLevel ==
  ASSUME PublisherInv, client # << >>, UNCHANGED chainVars,
         UNCHANGED <<aggregated, queue, sending, emitted, round, faults, published>>,
         NEW m, m = Head(client), ~IsEventMessage(m),
         client' = Tail(client),
         shown' = [t \in DOMAIN shown \cup {m.topic} |-> IF t = m.topic THEN m ELSE shown[t]]
  PROVE  PublisherInv'
<1>0. /\ MessagesTyped /\ MessagesOrdered /\ TradesOnce /\ LevelsTyped
      /\ ChainInv /\ ChainInv' /\ ChainGrows /\ indexed' = indexed
  BY ChainStutters DEF PublisherInv, chainVars
<1>1. PICK rest : rest = Tail(client)
  OBVIOUS
<1>2. /\ ToSet(client) = {m} \cup ToSet(rest) /\ IsSeq(rest) /\ InTurn(rest)
  BY <1>0, <1>1, SetOfTail, TurnTail, TailIsSeq DEF MessagesTyped, MessagesOrdered
<1>3. TrueLevel(m)
  BY <1>0, <1>2 DEF MessagesTyped, EventMessage
<1>4. MessagesTyped'
  BY <1>0, <1>1, <1>2, StillTyped DEF MessagesTyped
<1>5. MessagesOrdered'
  BY <1>0, <1>1, <1>2 DEF MessagesOrdered, AllFollow
<1>6. Outgoing' = Outgoing /\ Remembered' = Remembered
  BY <1>1, <1>2 DEF Outgoing, Remembered
<1>7. emitted' \subseteq TradesIn(Outgoing)
  BY <1>0 DEF TradesOnce
<1>8. \A x : TrueLevel(x) => TrueLevel(x)'
  BY StillTyped
<1>9. \A v \in 0..indexed : \A level : LevelAt(level, v) => LevelAt(level, v)'
  BY <1>0, LevelAtKept
<1>10. PICK old, new : old = shown /\ new = shown'
  OBVIOUS
<1>11. \A x \in {new[t] : t \in DOMAIN new} : TrueLevel(x)
  BY <1>0, <1>3, <1>10 DEF LevelsTyped
<1>12. \A t \in DOMAIN new : new[t].topic = t
  BY <1>0, <1>10 DEF LevelsTyped
<1>13. LevelsTyped'
  <2>1. aggregated' \in 0..indexed'
    BY <1>0 DEF LevelsTyped
  <2>2. ASSUME round.step # "sleep"
        PROVE  /\ IsSeq(round.rows)
               /\ \E v \in 0..indexed' : /\ round.snapshot = v
                                        /\ \A level \in ToSet(round.rows) : LevelAt(level, v)'
    <3>1. PICK v \in 0..indexed : /\ round.snapshot = v
                                  /\ \A level \in ToSet(round.rows) : LevelAt(level, v)
      BY <1>0, <2>2 DEF LevelsTyped
    <3>2. \A level \in ToSet(round.rows) : LevelAt(level, v)'
      BY <1>9, <3>1
    <3> QED
      BY <1>0, <2>2, <3>1, <3>2 DEF LevelsTyped
  <2>3. \A x \in {new[t] : t \in DOMAIN new} : TrueLevel(x)'
    BY <1>8, <1>11
  <2>4. \A x \in {shown'[t] : t \in DOMAIN shown'} : TrueLevel(x)'
    BY <1>10, <2>3
  <2>5. \A t \in DOMAIN shown' : shown'[t].topic = t
    BY <1>10, <1>12
  <2>6. round' = round /\ DOMAIN round = {"step", "snapshot", "recorded", "rows"}
    BY <1>0 DEF LevelsTyped
  <2> QED
    BY <2>1, <2>2, <2>4, <2>5, <2>6 DEF LevelsTyped
<1> QED
  BY <1>0, <1>4, <1>5, <1>6, <1>7, <1>13, SameOutgoing DEF PublisherInv

LEMMA PollKeeps ==
  ASSUME PublisherInv, Poll
  PROVE  PublisherInv'
<1>1. PICK m : m = Head(client)
  OBVIOUS
<1>2. /\ client # << >> /\ client' = Tail(client) /\ UNCHANGED chainVars
      /\ UNCHANGED <<aggregated, queue, sending, emitted, round, faults>>
      /\ IF IsEventMessage(m) THEN published' = Append(published, m) /\ UNCHANGED shown
         ELSE /\ shown' = [t \in DOMAIN shown \cup {m.topic} |->
                             IF t = m.topic THEN m ELSE shown[t]]
              /\ UNCHANGED published
  BY <1>1 DEF Poll, IsEventMessage
<1>3. CASE IsEventMessage(m)
  BY <1>1, <1>2, <1>3, PollEvent
<1>4. CASE ~IsEventMessage(m)
  BY <1>1, <1>2, <1>4, PollLevel
<1> QED
  BY <1>3, <1>4

-----------------------------------------------------------------------------
(* Faults.                                                                 *)

(* What a process that ended had in memory is lost.                        *)
LEMMA StartAgainKeeps ==
  ASSUME PublisherInv, StartAgain, faults' \in Nat
  PROVE  PublisherInv'
<1>1. /\ UNCHANGED chainVars /\ UNCHANGED <<aggregated, published, shown>>
      /\ queue' = << >> /\ sending' = << >> /\ emitted' = {}
      /\ round' = NoRound /\ client' = << >>
  BY DEF StartAgain
<1>2. /\ MessagesTyped /\ MessagesOrdered /\ LevelsTyped /\ ChainInv' /\ indexed' = indexed
  BY <1>1, ChainStutters DEF PublisherInv, chainVars
<1>3. ToSet(<< >>) = {} /\ IsSeq(<< >>) /\ InTurn(<< >>) /\ Len(<< >>) = 0
  BY EmptySet
<1>4. MessagesTyped'
  BY <1>1, <1>2, <1>3, StillTyped DEF MessagesTyped
<1>5. MessagesOrdered'
  BY <1>1, <1>2, <1>3 DEF MessagesOrdered, AllFollow
<1>6. Remembered' = {}
  BY <1>1, <1>3 DEF Remembered, TradesIn
<1>7. QueueOrdered' /\ TradesOnce' /\ TradesForgotten'
  BY <1>1, <1>3, <1>6 DEF QueueOrdered, TradesOnce, TradesForgotten
<1>8. \A m : TrueLevel(m) => TrueLevel(m)'
  BY <1>1, StillTyped
<1>9. LevelsTyped'
  BY <1>1, <1>2, <1>8 DEF LevelsTyped, NoRound
<1> QED
  BY <1>2, <1>4, <1>5, <1>7, <1>9 DEF PublisherInv

LEMMA RestartKeeps ==
  ASSUME PublisherInv, Restart \/ ReadVersionFails
  PROVE  PublisherInv'
<1>1. StartAgain /\ faults' \in Nat
  BY DEF Restart, ReadVersionFails, PublisherInv, MessagesTyped
<1> QED
  BY <1>1, StartAgainKeeps

LEMMA ReconnectKeeps ==
  ASSUME PublisherInv, Reconnect
  PROVE  PublisherInv'
<1>1. /\ UNCHANGED chainVars
      /\ UNCHANGED <<aggregated, sending, emitted, round, client, published, shown>>
      /\ queue' = << >> /\ faults' = faults + 1
  BY DEF Reconnect
<1>2. /\ MessagesTyped /\ MessagesOrdered /\ TradesOnce /\ ChainInv'
  BY <1>1, ChainStutters DEF PublisherInv
<1>3. ToSet(<< >>) = {} /\ IsSeq(<< >>) /\ Len(<< >>) = 0
  BY EmptySet
<1>4. faults' \in Nat /\ faults' # 0
  BY <1>1, <1>2 DEF MessagesTyped
<1>5. MessagesTyped'
  BY <1>1, <1>2, <1>3, <1>4, StillTyped DEF MessagesTyped
<1>6. MessagesOrdered'
  BY <1>1, <1>2 DEF MessagesOrdered
<1>7. Outgoing' = Outgoing
  BY <1>1 DEF Outgoing
<1>8. QueueOrdered' /\ TradesOnce' /\ TradesForgotten'
  BY <1>1, <1>2, <1>3, <1>4, <1>7 DEF QueueOrdered, TradesOnce, TradesForgotten
<1>9. LevelsTyped'
  BY <1>1, StillTyped
<1> QED
  BY <1>2, <1>5, <1>6, <1>8, <1>9 DEF PublisherInv

-----------------------------------------------------------------------------
(* The whole.                                                              *)

LEMMA PublisherStarts == Init => PublisherInv
<1> SUFFICES ASSUME Init PROVE PublisherInv
  OBVIOUS
<1>1. /\ ChainInit /\ aggregated = 0 /\ queue = << >> /\ sending = << >> /\ emitted = {}
      /\ round = NoRound /\ client = << >> /\ published = << >> /\ shown = << >>
      /\ faults = 0
  BY DEF Init
<1>2. ChainInv /\ indexed = 0
  BY <1>1, ChainStarts DEF ChainInit
<1>3. ToSet(<< >>) = {} /\ IsSeq(<< >>) /\ InTurn(<< >>) /\ Len(<< >>) = 0
  BY EmptySet
<1>4. MessagesTyped /\ MessagesOrdered
  BY <1>1, <1>3 DEF MessagesTyped, MessagesOrdered, AllFollow
<1>5. Remembered = {}
  BY <1>1, <1>3 DEF Remembered, TradesIn
<1>6. QueueOrdered /\ TradesOnce /\ TradesForgotten
  BY <1>1, <1>3, <1>5 DEF QueueOrdered, TradesOnce, TradesForgotten
<1>7. LevelsTyped
  <2>1. DOMAIN shown = {}
    BY <1>1
  <2> QED
    BY <1>1, <1>2, <2>1 DEF LevelsTyped, NoRound
<1> QED
  BY <1>2, <1>4, <1>6, <1>7 DEF PublisherInv

LEMMA PublisherKeeps ==
  ASSUME EventsAssumption, PublisherAssumption, PublisherInv, [Next]_vars
  PROVE  PublisherInv'
<1>1. CASE ChainStep
  <2>1. ChainInv' /\ ChainGrows
    BY <1>1, ChainKeeps DEF ChainStep, PublisherInv
  <2> QED
    BY <1>1, <2>1, ChainStepKeeps
<1>2. CASE AggregateUserHistory
  BY <1>2, AggregateKeeps
<1>3. CASE Receive
  BY <1>3, ReceiveKeeps
<1>4. CASE Send
  BY <1>4, SendKeeps
<1>5. CASE ReadLevels
  BY <1>5, ReadLevelsKeeps
<1>6. CASE ReadVersion
  BY <1>6, ReadVersionKeeps
<1>7. CASE SendLevel
  BY <1>7, SendLevelKeeps
<1>8. CASE Sleep
  BY <1>8, SleepKeeps
<1>9. CASE Poll
  BY <1>9, PollKeeps
<1>10. CASE Restart \/ ReadVersionFails
  BY <1>10, RestartKeeps
<1>11. CASE Reconnect
  BY <1>11, ReconnectKeeps
<1>12. CASE UNCHANGED vars
  <2>1. /\ UNCHANGED chainVars
        /\ UNCHANGED <<queue, sending, emitted, client, published, faults>>
        /\ UNCHANGED <<aggregated, round, shown>>
    BY <1>12 DEF vars, publisherVars
  <2> QED
    BY <2>1, StillTyped, OnlyLevels
<1> QED
  BY <1>1, <1>2, <1>3, <1>4, <1>5, <1>6, <1>7, <1>8, <1>9, <1>10, <1>11, <1>12 DEF Next

LEMMA InvGivesTruth == PublisherInv => PublishedTrue
<1> SUFFICES ASSUME PublisherInv PROVE PublishedTrue
  OBVIOUS
<1>0. ChainInv /\ MessagesTyped /\ MessagesOrdered /\ TradesOnce /\ TradesForgotten /\ LevelsTyped
  BY DEF PublisherInv
<1>1. /\ IsSeq(published) /\ DOMAIN published = 1..Len(published) /\ Len(published) \in Nat
      /\ IsSeq(queue) /\ DOMAIN queue = 1..Len(queue)
  BY <1>0, IsSeqLen DEF MessagesTyped
<1>2. \A i \in 1..Len(published) : EventMessage(published[i])
  BY <1>0, <1>1, SetOfSeq DEF MessagesTyped
<1>3. ASSUME NEW i \in 1..Len(published), NEW j \in 1..Len(published), i < j,
             published[i].topic = published[j].topic
      PROVE  /\ Before(published[i].event, published[j].event)
             /\ ~SameTrade(published[i].event, published[j].event)
  <2> DEFINE x == published[i]
             y == published[j]
  <2>1. EventMessage(x) /\ EventMessage(y)
    BY <1>2
  <2>2. Follows(x, y)
    BY <1>0, <1>3, <2>1 DEF MessagesOrdered, InTurn, EventMessage
  <2>3. x.event.kind = y.event.kind
    <3>1. x.event.kind \in Tables /\ y.event.kind \in Tables
      BY <1>0, <2>1 DEF EventMessage, InDatabase, ChainInv, LogTyped, Logged
    <3>2. x.topic[1] = y.topic[1]
      BY <1>3
    <3> HIDE DEF x, y
    <3> QED
      BY <2>1, <3>1, <3>2 DEF EventMessage, Tables, AllTypes
  <2> QED
    BY <1>3, <2>2, <2>3 DEF Follows
<1>4. FillsOnce
  <2> SUFFICES ASSUME NEW i \in 1..Len(published), NEW j \in 1..Len(published),
                      published[i].event.kind = "fill", published[j].event.kind = "fill",
                      i # j, published[i].topic = published[j].topic
               PROVE  Trade(published[i].event) # Trade(published[j].event)
    BY <1>1 DEF FillsOnce
  <2>1. i < j \/ j < i
    BY <1>1
  <2> QED
    BY <1>3, <2>1 DEF SameTrade
<1>5. InOrder
  BY <1>1, <1>3 DEF InOrder
<1>6. RememberedUntilSecond
  <2> SUFFICES ASSUME faults = 0, NEW t \in emitted,
                      Orders[t[1]].type # "coins",
                      {AccountOf(t[1]), AccountOf(t[2])} \cap Legacy = {}
               PROVE  \E i \in DOMAIN queue : queue[i].kind = "fill" /\ Trade(queue[i]) = t
    BY DEF RememberedUntilSecond
  <2>1. BothHear(Orders, t)
    BY DEF BothHear, AccountOf
  <2>2. Has(queue, t)
    BY <1>0, <2>1 DEF TradesForgotten, Remembered
  <2> QED
    BY <1>1, <2>2 DEF Has
<1>7. LevelsOfVersion
  <2> SUFFICES ASSUME NEW t \in DOMAIN shown
               PROVE  /\ t[2] \in DOMAIN LevelsOf(t[1], shown[t].version)
                      /\ LevelMessage(LevelsOf(t[1], shown[t].version)[t[2]], shown[t].version)
                           = shown[t]
    BY DEF LevelsOfVersion
  <2>1. PICK m : m = shown[t]
    OBVIOUS
  <2>2. TrueLevel(m) /\ m.topic = t
    BY <1>0, <2>1 DEF LevelsTyped
  <2>3. PICK v \in 0..indexed, side \in Sides : \E k \in DOMAIN LevelsOf(side, v) :
          m = LevelMessage(LevelsOf(side, v)[k], v)
    BY <2>2 DEF TrueLevel
  <2>4. PICK k \in DOMAIN LevelsOf(side, v) : m = LevelMessage(LevelsOf(side, v)[k], v)
    BY <2>3
  <2>5. LevelsOf(side, v)[k].topic = <<side, k>>
    BY <2>4 DEF LevelsOf, LevelsIn
  <2>6. m.version = v /\ m.topic = <<side, k>>
    BY <2>4, <2>5 DEF LevelMessage
  <2>7. t[1] = side /\ t[2] = k
    BY <2>2, <2>6
  <2> QED
    BY <2>1, <2>4, <2>6, <2>7
<1> QED
  BY <1>4, <1>5, <1>6, <1>7 DEF PublishedTrue

(* For any accounts, orders and bounds: no fill is published twice on the  *)
(* channel of an account, messages of a channel come in the order of the   *)
(* chain, fills are forgotten with their second notification, and levels   *)
(* are those of the version that they name.                                *)
THEOREM PublishedAlwaysTrue == Spec => []PublishedTrue
<1> USE EventsAssumption, PublisherAssumption
<1>1. Init => PublisherInv
  BY PublisherStarts
<1>2. PublisherInv /\ [Next]_vars => PublisherInv'
  BY PublisherKeeps
<1>3. PublisherInv => PublishedTrue
  BY InvGivesTruth
<1> QED
  BY <1>1, <1>2, <1>3, PTL DEF Spec


-----------------------------------------------------------------------------
(* Giving up.                                                              *)

(* Failures since the last success are counted by retries, but for the     *)
(* last of them when the task gives up.                                    *)
Counted(i) ==
  /\ stage[i] \in {"historical", "loop"}
  /\ doing[i] \in {"sleeping", "running", "failed"}
  /\ retries[i] \in 0..MaxRetries
  /\ stage[i] = "historical" => retries[i] = 0
  /\ doing[i] # "failed" => inARow[i] = retries[i]
  /\ doing[i] = "failed" =>
       inARow[i] = (IF stage[i] = "historical" THEN 1 ELSE MaxRetries + 1)

SameDomains ==
  /\ DOMAIN stage = DOMAIN tasks /\ DOMAIN doing = DOMAIN tasks
  /\ DOMAIN wait = DOMAIN tasks /\ DOMAIN retries = DOMAIN tasks
  /\ DOMAIN inARow = DOMAIN tasks

RetryInv == SameDomains /\ \A i \in DOMAIN tasks : Counted(i)

(* The counts give the property.                                           *)
LEMMA CountsGiveProperty == RetryInv => GivesUpAfterRetries
BY DEF RetryInv, Counted, GivesUpAfterRetries, MaxRetries

(* Initially no task has failed.                                           *)
LEMMA InitRetryInv == ProcessInit => RetryInv
BY DEF ProcessInit, RetryInv, SameDomains

(* A step that leaves these variables alone.                               *)
LEMMA RetryInvKept ==
  ASSUME RetryInv, UNCHANGED <<tasks, stage, retries, inARow>>,
         DOMAIN doing' = DOMAIN doing, DOMAIN wait' = DOMAIN wait,
         \A i \in DOMAIN tasks :
           \/ doing'[i] = doing[i]
           \/ doing[i] = "sleeping" /\ doing'[i] = "running"
  PROVE  RetryInv'
BY DEF RetryInv, SameDomains, Counted

(* A process that stops leaves no tasks.                                   *)
LEMMA RetryInvStopped == Stopped => RetryInv'
BY DEF Stopped, RetryInv, SameDomains

(* A process that starts has tasks that have not failed.                   *)
LEMMA RetryInvStart == Start => RetryInv'
BY DEF Start, RetryInv, SameDomains, Counted, MaxRetries

(* A success resets what counts failures.                                  *)
LEMMA RetryInvSucceed ==
  ASSUME RetryInv, NEW i \in DOMAIN tasks, Succeed(i), UNCHANGED tasks
  PROVE  RetryInv'
<1>1. SameDomains'
  BY DEF Succeed, RetryInv, SameDomains
<1>2. ASSUME NEW j \in DOMAIN tasks PROVE Counted(j)'
  <2>1. CASE j = i
    BY <2>1 DEF Succeed, RetryInv, SameDomains, Counted, MaxRetries
  <2>2. CASE j # i
    BY <2>2 DEF Succeed, RetryInv, SameDomains, Counted
  <2> QED
    BY <2>1, <2>2
<1> QED
  BY <1>1, <1>2 DEF RetryInv

(* A failure is counted, and the last one ends the task.                   *)
LEMMA RetryInvFailed ==
  ASSUME RetryInv, NEW i \in DOMAIN tasks, doing[i] = "running", Failed(i),
         UNCHANGED tasks
  PROVE  RetryInv'
<1>1. SameDomains'
  BY DEF Failed, RetryInv, SameDomains
<1>2. ASSUME NEW j \in DOMAIN tasks PROVE Counted(j)'
  <2>1. CASE j = i
    BY <2>1 DEF Failed, GivesUp, RetryInv, SameDomains, Counted, MaxRetries
  <2>2. CASE j # i
    BY <2>2 DEF Failed, RetryInv, SameDomains, Counted
  <2> QED
    BY <2>1, <2>2
<1> QED
  BY <1>1, <1>2 DEF RetryInv

(* Every step keeps the counts.                                            *)
LEMMA NextRetryInv == RetryInv /\ [ProcessNext]_pipelinesVars => RetryInv'
<1> SUFFICES ASSUME RetryInv, [ProcessNext]_pipelinesVars PROVE RetryInv'
  OBVIOUS
<1> USE DEF processVars, databaseVars
<1>1. CASE Start
  BY <1>1, RetryInvStart
<1>2. CASE Join \/ Crash
  BY <1>2, RetryInvStopped DEF Join, Crash
<1>3. CASE TimePasses
  BY <1>3, RetryInvKept DEF TimePasses, RetryInv, SameDomains
<1>4. CASE SourceChanges
  BY <1>4, RetryInvKept DEF SourceChanges
<1>5. ASSUME NEW i \in DOMAIN tasks, Run(i) \/ Fail(i) \/ AnswerRateLimited(i)
      PROVE  RetryInv'
  <2>1. CASE Begin(i)
    <3>1. \A j \in DOMAIN tasks :
            \/ doing'[j] = doing[j]
            \/ doing[j] = "sleeping" /\ doing'[j] = "running"
      BY <2>1 DEF Begin, RetryInv, SameDomains
    <3> QED
      BY <2>1, <3>1, RetryInvKept DEF Begin
  <2>2. CASE Finish(i)
    BY <2>2, RetryInvSucceed DEF Finish
  <2>3. CASE FinishCoins(i)
    BY <2>3, RetryInvSucceed DEF FinishCoins
  <2>4. CASE AnswerOk(i) \/ AnswerOther(i) \/ AnswerRateLimited(i)
    BY <2>4, RetryInvKept DEF AnswerOk, AnswerOther, AnswerRateLimited
  <2>5. CASE Fail(i)
    BY <2>5, RetryInvFailed DEF Fail
  <2> QED
    BY <1>5, <2>1, <2>2, <2>3, <2>4, <2>5 DEF Run
<1>6. CASE UNCHANGED pipelinesVars
  BY <1>6, RetryInvKept DEF pipelinesVars
<1> QED
  BY <1>1, <1>2, <1>3, <1>4, <1>5, <1>6 DEF ProcessNext

(* A task of the aggregator gives up when its first run fails, or with the *)
(* fourth failure in a row, and not otherwise (main.rs: MAX_RETRIES).      *)
THEOREM AlwaysGivesUpAfterRetries == ProcessSpec => []GivesUpAfterRetries
BY CountsGiveProperty, InitRetryInv, NextRetryInv, PTL DEF ProcessSpec

-----------------------------------------------------------------------------
(* Coins.                                                                  *)

(* The list of a run is a sequence of coins the table lacks, each once.    *)
AskInv ==
  /\ coins \subseteq AllCoins
  /\ todo \in Seq(AllCoins \ coins)
  /\ IsInjective(todo)

(* A list of missing coins, each once, gives the property.                 *)
LEMMA ListGivesProperty == AskInv => AsksForMissing
BY DEF AskInv, AsksForMissing, ToSet

(* Initially nothing is to be asked for.                                   *)
LEMMA InitAskInv == ProcessInit => AskInv
BY DEF ProcessInit, AskInv, IsInjective

(* A sequence whose values all lie in a set is a sequence of that set.     *)
LEMMA SeqOfValues ==
  ASSUME NEW S, NEW T, NEW t \in Seq(S), NEW n \in Nat, Len(t) = n,
         \A i \in 1..n : t[i] \in T
  PROVE  t \in Seq(T)
<1>1. t \in [1..n -> S]
  BY LenProperties
<1>2. t \in [1..n -> T]
  BY <1>1
<1> QED
  BY <1>2, SeqDef

(* The rest of a list, without its head, is again such a list.             *)
LEMMA RestOfList ==
  ASSUME NEW S, NEW s \in Seq(S), s # << >>, IsInjective(s)
  PROVE  /\ Head(s) \in S
         /\ Tail(s) \in Seq(S \ {Head(s)})
         /\ IsInjective(Tail(s))
<1>1. /\ Len(s) \in Nat \ {0} /\ DOMAIN s = 1..Len(s)
      /\ Head(s) = s[1] /\ \A i \in 1..Len(s) : s[i] \in S
  BY EmptySeq, LenProperties, ElementOfSeq
<1>2. /\ Tail(s) \in Seq(S) /\ Len(Tail(s)) = Len(s) - 1
      /\ DOMAIN Tail(s) = 1..(Len(s) - 1)
      /\ \A i \in 1..(Len(s) - 1) : Tail(s)[i] = s[i + 1]
  BY HeadTailProperties, LenProperties
<1>3. \A i, j \in 1..Len(s) : s[i] = s[j] => i = j
  BY <1>1 DEF IsInjective
<1>4. \A i \in 1..(Len(s) - 1) : Tail(s)[i] \in S \ {Head(s)}
  BY <1>1, <1>2, <1>3
<1>5. Tail(s) \in Seq(S \ {Head(s)})
  <2> DEFINE t == Tail(s)
             T == S \ {Head(s)}
             n == Len(s) - 1
  <2>1. /\ t \in Seq(S) /\ n \in Nat /\ Len(t) = n
        /\ \A i \in 1..n : t[i] \in T
    BY <1>1, <1>2, <1>4
  <2> HIDE DEF t, T, n
  <2>2. t \in Seq(T)
    BY <2>1, SeqOfValues
  <2> QED
    BY <2>2 DEF t, T
<1>6. IsInjective(Tail(s))
  BY <1>1, <1>2, <1>3 DEF IsInjective
<1> QED
  BY <1>1, <1>5, <1>6

(* An answer, stored or not, leaves the rest of the list missing.          *)
LEMMA AskInvTail ==
  ASSUME AskInv, NEW i, AskingFor(i), todo' = Tail(todo),
         coins' = coins \/ coins' = coins \cup {Head(todo)}
  PROVE  AskInv'
<1>1. /\ Head(todo) \in AllCoins \ coins
      /\ Tail(todo) \in Seq((AllCoins \ coins) \ {Head(todo)})
      /\ IsInjective(Tail(todo))
  BY RestOfList, Zenon DEF AskInv, AskingFor
<1>2. CASE coins' = coins
  BY <1>1, <1>2 DEF AskInv
<1>3. CASE coins' = coins \cup {Head(todo)}
  <2>1. AllCoins \ coins' = (AllCoins \ coins) \ {Head(todo)}
    BY <1>3
  <2> QED
    BY <1>1, <1>3, <2>1 DEF AskInv
<1> QED
  BY <1>2, <1>3

(* A run starts with a list of the missing coins, each once.               *)
LEMMA AskInvBegin ==
  ASSUME AskInv, NEW list \in SetToSeqs(Missing), todo' = list,
         coins' = coins
  PROVE  AskInv'
<1>1. Cardinality(Missing) \in Nat
  BY PipelinesAssumption, FS_Subset, FS_CardinalityType DEF Missing
<1>2. /\ list \in [1..Cardinality(Missing) -> AllCoins \ coins]
      /\ \A i, j \in 1..Cardinality(Missing) : i # j => list[i] # list[j]
  BY Zenon DEF SetToSeqs, Missing
<1>3. list \in Seq(AllCoins \ coins)
  BY <1>1, <1>2
<1>4. IsInjective(list)
  BY <1>2 DEF IsInjective
<1> QED
  BY <1>3, <1>4 DEF AskInv

(* Every step keeps the list.                                              *)
LEMMA NextAskInv == AskInv /\ [ProcessNext]_pipelinesVars => AskInv'
<1> SUFFICES ASSUME AskInv, [ProcessNext]_pipelinesVars PROVE AskInv'
  OBVIOUS
<1> USE DEF processVars, databaseVars
<1>1. ASSUME UNCHANGED <<todo, coins>> PROVE AskInv'
  BY <1>1 DEF AskInv, IsInjective
<1>2. ASSUME todo' = << >>, coins' = coins PROVE AskInv'
  BY <1>2 DEF AskInv, IsInjective
<1>3. CASE Start \/ TimePasses \/ SourceChanges
  BY <1>1, <1>3 DEF Start, TimePasses, SourceChanges
<1>4. CASE Join \/ Crash
  BY <1>2, <1>4 DEF Join, Crash, Stopped
<1>5. ASSUME NEW i \in DOMAIN tasks, Run(i) \/ Fail(i) \/ AnswerRateLimited(i)
      PROVE  AskInv'
  <2>1. CASE Begin(i)
    BY <1>1, <2>1, AskInvBegin DEF Begin
  <2>2. CASE Finish(i) \/ FinishCoins(i)
    BY <1>1, <2>2 DEF Finish, FinishCoins
  <2>3. CASE AnswerOk(i)
    BY <2>3, AskInvTail DEF AnswerOk
  <2>4. CASE AnswerOther(i) \/ AnswerRateLimited(i)
    BY <2>4, AskInvTail DEF AnswerOther, AnswerRateLimited
  <2>5. CASE Fail(i)
    BY <1>1, <1>2, <2>5 DEF Fail
  <2> QED
    BY <1>5, <2>1, <2>2, <2>3, <2>4, <2>5 DEF Run
<1>6. CASE UNCHANGED pipelinesVars
  BY <1>1, <1>6 DEF pipelinesVars
<1> QED
  BY <1>3, <1>4, <1>5, <1>6 DEF ProcessNext

(* No coin is asked for that the table has, although the inserts of a run  *)
(* are statements of their own and a run may end after any of them         *)
(* (coins.rs): none of them meets a row with its key.                      *)
THEOREM AlwaysAsksForMissing == ProcessSpec => []AsksForMissing
BY ListGivesProperty, InitAskInv, NextAskInv, PTL DEF ProcessSpec

-----------------------------------------------------------------------------
(* The submission of transactions, for any tasks, attempts and faults.     *)

CONSTANTS Clients, Aborting, RetryCount, SubmitAttempts, MaxCalls, MaxLost, MaxDeployments

VARIABLES local, chainId, call, results, deployment, sequence, mempool, executed, lost

Sdk == INSTANCE TxSubmission WITH Tasks <- Clients, MaxFaults <- MaxLost, faults <- lost

Tx == [task : Clients, call : Nat, attempt : Nat, number : Nat, chain : Nat]
Result == [result : {"ok", "error", "failed"}, began : Nat, ended : Nat]

HasTx == {"submit", "wait", "rejected", "correct", "set"}

CallTyped(c) ==
  /\ c \in [step : {"idle", "ready"} \cup HasTx, attempt : Nat, tx : Tx \cup {Sdk!NoTx},
            seen : Nat, began : Nat]
  /\ c.step \in HasTx => c.tx \in Tx

CallsTyped ==
  /\ DOMAIN call = Clients /\ DOMAIN results = Clients
  /\ \A t \in Clients : CallTyped(call[t]) /\ results[t] \in Seq(Result)

NodeTyped ==
  /\ local \in Nat /\ chainId \in Nat /\ deployment \in Nat /\ sequence \in Nat /\ lost \in Nat
  /\ mempool \subseteq Tx /\ executed \subseteq Tx

SdkTyped == CallsTyped /\ NodeTyped

(* What a step does to the call of a task, and to the results.             *)
Turns(t, c) ==
  /\ DOMAIN call' = DOMAIN call /\ call'[t] = c
  /\ \A u \in DOMAIN call : u # t => call'[u] = call[u]

Ends(t, result) ==
  /\ Turns(t, Sdk!Idle)
  /\ DOMAIN results' = DOMAIN results
  /\ \A u \in DOMAIN results : u # t => results'[u] = results[u]
  /\ \E r \in Result :
       /\ r.result = result /\ r.began = call[t].began /\ r.ended = deployment
       /\ results'[t] = Append(results[t], r)

Retries(t) ==
  /\ \E c : /\ Turns(t, c) /\ c.step = "ready" /\ c.attempt = call[t].attempt + 1
            /\ CallTyped(c) /\ c.began = call[t].began
  /\ results' = results
  /\ call[t].attempt # SubmitAttempts - 1 /\ call[t].attempt + 1 # RetryCount

Fails(t) ==
  \/ Ends(t, "error") /\ call[t].attempt = SubmitAttempts - 1
  \/ Ends(t, "failed") /\ call[t].attempt + 1 = RetryCount
  \/ Retries(t)

(* Return and a failed attempt change the call and the results of their    *)
(* task alone.                                                             *)
LEMMA ReturnEnds ==
  ASSUME SdkTyped, NEW t \in Clients, NEW result \in {"ok", "error", "failed"},
         Sdk!Return(t, result)
  PROVE  Ends(t, result)
<1> USE DEF SdkTyped
<1>1. Turns(t, Sdk!Idle)
  BY DEF Sdk!Return, Turns, CallsTyped
<1> DEFINE r == [result |-> result, began |-> call[t].began, ended |-> deployment]
<1>2. r \in Result /\ r.result = result /\ r.began = call[t].began /\ r.ended = deployment
  BY DEF CallsTyped, CallTyped, Result, NodeTyped
<1>3. /\ results'[t] = Append(results[t], r) /\ DOMAIN results' = DOMAIN results
      /\ \A u \in DOMAIN results : u # t => results'[u] = results[u]
  BY DEF Sdk!Return, CallsTyped
<1> HIDE DEF r
<1> QED
  BY <1>1, <1>2, <1>3 DEF Ends

(* An attempt that fails is the last one, by either bound, or is followed  *)
(* by another.                                                             *)
LEMMA AttemptEnds ==
  ASSUME SdkTyped, NEW t \in Clients, Sdk!AttemptFails(t)
  PROVE  Fails(t)
<1>0. CallsTyped
  BY DEF SdkTyped
<1>1. CASE call[t].attempt = SubmitAttempts - 1 \/ call[t].attempt + 1 = RetryCount
  BY <1>1, ReturnEnds DEF Sdk!AttemptFails, Fails
<1>2. CASE ~(call[t].attempt = SubmitAttempts - 1 \/ call[t].attempt + 1 = RetryCount)
  <2> DEFINE c == [call[t] EXCEPT !.attempt = @ + 1, !.step = "ready"]
  <2>1. /\ call' = [call EXCEPT ![t].attempt = @ + 1, ![t].step = "ready"]
        /\ results' = results
        /\ call[t].attempt # SubmitAttempts - 1 /\ call[t].attempt + 1 # RetryCount
    BY <1>2 DEF Sdk!AttemptFails
  <2>2. Turns(t, c)
    BY <1>0, <2>1 DEF Turns, CallsTyped
  <2>3. /\ c.step = "ready" /\ c.attempt = call[t].attempt + 1 /\ CallTyped(c)
        /\ c.began = call[t].began
    <3>1. CallTyped(call[t])
      BY <1>0 DEF CallsTyped
    <3>2. call[t].attempt \in Nat /\ "ready" \notin HasTx
      BY <3>1 DEF CallTyped, HasTx
    <3>3. c.step = "ready" /\ c.attempt = call[t].attempt + 1 /\ c.began = call[t].began
      BY <3>1 DEF CallTyped
    <3>4. /\ c \in [step : {"idle", "ready"} \cup HasTx, attempt : Nat, tx : Tx \cup {Sdk!NoTx},
                   seen : Nat, began : Nat]
      <4>1. call[t].attempt + 1 \in Nat
        BY <3>2
      <4> QED
        BY <3>1, <4>1 DEF CallTyped
    <3> HIDE DEF c
    <3> QED
      BY <3>2, <3>3, <3>4 DEF CallTyped
  <2> HIDE DEF c
  <2> QED
    BY <2>1, <2>2, <2>3 DEF Fails, Retries
<1> QED
  BY <1>1, <1>2

(* What each step of a task, or fault, does to its call.                   *)
Asks(t) ==
  /\ call[t].step = "idle"
  /\ \E c : /\ Turns(t, c) /\ CallTyped(c) /\ c.step = "ready" /\ c.attempt = 0
            /\ c.began = deployment
  /\ results' = results /\ UNCHANGED <<local, chainId, deployment, sequence, mempool, executed, lost>>

Signs(t) ==
  /\ call[t].step = "ready"
  /\ \E c : /\ Turns(t, c) /\ CallTyped(c) /\ c.step = "submit" /\ c.attempt = call[t].attempt
            /\ c.tx = [task |-> t, call |-> Len(results[t]) + 1, attempt |-> call[t].attempt,
                       number |-> local, chain |-> chainId]
            /\ c.began = call[t].began
  /\ results' = results /\ UNCHANGED <<local, chainId, deployment, sequence, mempool, executed, lost>>

(* From one step of submit_tx_internal to the next, with the same attempt. *)
Proceeds(t, from, to) ==
  /\ call[t].step = from
  /\ \E c : /\ Turns(t, c) /\ CallTyped(c) /\ c.step = to /\ c.attempt = call[t].attempt
            /\ c.tx = call[t].tx /\ c.began = call[t].began
            /\ to = "correct" => c.seen = sequence
            /\ to = "set" => c.seen = Sdk!Corrected(call[t].seen)
  /\ results' = results /\ UNCHANGED <<local, chainId, deployment, sequence, executed>>

Submits(t) ==
  /\ Proceeds(t, "submit", "wait") /\ Sdk!Admissible(call[t].tx)
  /\ mempool' = mempool \cup {call[t].tx} /\ lost' = lost

Rejects(t) ==
  /\ Proceeds(t, "submit", "rejected") /\ ~Sdk!Admissible(call[t].tx)
  /\ UNCHANGED <<mempool, lost>>

Refuses(t) == Proceeds(t, "submit", "rejected") /\ mempool' = mempool /\ lost' = lost + 1

Reads(t) == Proceeds(t, "rejected", "correct") /\ UNCHANGED <<mempool, lost>>

ReadsLocal(t) == Proceeds(t, "correct", "set") /\ UNCHANGED <<mempool, lost>>

(* What the steps of submit_tx_internal do, but for those that end an      *)
(* attempt.                                                                *)
LEMMA CallSteps ==
  ASSUME CallsTyped, NodeTyped, NEW t \in Clients
  PROVE  /\ Sdk!SubmitTx(t) => Asks(t)
         /\ Sdk!Sign(t) => Signs(t)
         /\ Sdk!Submitted(t) => Submits(t)
         /\ Sdk!Rejected(t) => Rejects(t)
         /\ Sdk!GetSequenceNumber(t) => Reads(t)
         /\ Sdk!ReadLocal(t) => ReadsLocal(t)
         /\ Sdk!Refuse(t) => Refuses(t)
<1> USE DEF CallsTyped, Turns, HasTx
<1>1. CallTyped(call[t])
  OBVIOUS
<1>2. ASSUME Sdk!SubmitTx(t) PROVE Asks(t)
  <2> DEFINE c == [Sdk!Idle EXCEPT !.step = "ready", !.began = deployment]
  <2>1. CallTyped(c) /\ c.step = "ready" /\ c.attempt = 0 /\ c.began = deployment
    BY DEF CallTyped, Sdk!Idle, Sdk!NoTx, NodeTyped
  <2>2. Turns(t, c)
    BY <1>2 DEF Sdk!SubmitTx
  <2> HIDE DEF c
  <2> QED
    BY <1>2, <2>1, <2>2 DEF Sdk!SubmitTx, Asks, Sdk!nodeVars
<1>3. ASSUME Sdk!Sign(t) PROVE Signs(t)
  <2> DEFINE x == [task |-> t, call |-> Len(results[t]) + 1, attempt |-> call[t].attempt,
                   number |-> local, chain |-> chainId]
             c == [call[t] EXCEPT !.step = "submit", !.tx = x]
  <2>0. x \in Tx
    BY <1>1, LenProperties DEF NodeTyped, CallTyped, Tx
  <2>1. /\ CallTyped(c) /\ c.step = "submit" /\ c.attempt = call[t].attempt /\ c.tx = x
        /\ c.began = call[t].began
    BY <1>1, <2>0 DEF CallTyped
  <2>2. Turns(t, c)
    BY <1>3 DEF Sdk!Sign
  <2> HIDE DEF c
  <2> QED
    BY <1>3, <2>1, <2>2 DEF Sdk!Sign, Signs, Sdk!nodeVars
<1>4. ASSUME NEW to \in {"wait", "rejected"}, call' = [call EXCEPT ![t].step = to],
             call[t].step = "submit", results' = results,
             UNCHANGED <<local, chainId, deployment, sequence, executed>>
      PROVE  Proceeds(t, "submit", to)
  <2> DEFINE c == [call[t] EXCEPT !.step = to]
  <2>1. /\ CallTyped(c) /\ c.step = to /\ c.attempt = call[t].attempt /\ c.tx = call[t].tx
        /\ c.began = call[t].began
    BY <1>1, <1>4 DEF CallTyped
  <2>2. Turns(t, c)
    BY <1>4
  <2> HIDE DEF c
  <2> QED
    BY <1>4, <2>1, <2>2 DEF Proceeds
<1>5. ASSUME Sdk!GetSequenceNumber(t) PROVE Reads(t)
  <2> DEFINE c == [call[t] EXCEPT !.step = "correct", !.seen = sequence]
  <2>1. /\ CallTyped(c) /\ c.step = "correct" /\ c.attempt = call[t].attempt
        /\ c.tx = call[t].tx /\ c.seen = sequence /\ c.began = call[t].began
    BY <1>1, <1>5 DEF CallTyped, NodeTyped, Sdk!GetSequenceNumber
  <2>2. Turns(t, c)
    BY <1>5 DEF Sdk!GetSequenceNumber
  <2> HIDE DEF c
  <2> QED
    BY <1>5, <2>1, <2>2 DEF Proceeds, Reads, Sdk!GetSequenceNumber, Sdk!nodeVars
<1>6. ASSUME Sdk!ReadLocal(t) PROVE ReadsLocal(t)
  <2> DEFINE c == [call[t] EXCEPT !.step = "set", !.seen = Sdk!Corrected(@)]
  <2>1. /\ CallTyped(c) /\ c.step = "set" /\ c.attempt = call[t].attempt
        /\ c.tx = call[t].tx /\ c.seen = Sdk!Corrected(call[t].seen) /\ c.began = call[t].began
    <3>1. Sdk!Corrected(call[t].seen) \in Nat
      BY <1>1 DEF CallTyped, NodeTyped, Sdk!Corrected, Sdk!MaxOf
    <3> QED
      BY <1>1, <1>6, <3>1 DEF CallTyped, Sdk!ReadLocal
  <2>2. Turns(t, c)
    BY <1>6 DEF Sdk!ReadLocal
  <2> HIDE DEF c
  <2> QED
    BY <1>6, <2>1, <2>2 DEF Proceeds, ReadsLocal, Sdk!ReadLocal, Sdk!nodeVars
<1>7. ASSUME Sdk!Submitted(t) PROVE Submits(t)
  BY <1>4, <1>7 DEF Sdk!Submitted, Submits
<1>8. ASSUME Sdk!Rejected(t) PROVE Rejects(t)
  BY <1>4, <1>8 DEF Sdk!Rejected, Rejects, Sdk!nodeVars
<1>9. ASSUME Sdk!Refuse(t) PROVE Refuses(t)
  BY <1>4, <1>9 DEF Sdk!Refuse, Sdk!Fault, Refuses, Sdk!nodeVars
<1> QED
  BY <1>2, <1>3, <1>5, <1>6, <1>7, <1>8, <1>9

NodeStays == UNCHANGED <<deployment, sequence, executed>>

Corrects(t) ==
  /\ call[t].step = "set" /\ local' = call[t].seen /\ Fails(t)
  /\ NodeStays /\ UNCHANGED <<chainId, mempool, lost>>

Waits(t) ==
  /\ call[t].step = "wait" /\ call[t].tx \notin mempool
  /\ IF Sdk!Succeeded(call[t].tx) THEN Ends(t, "ok") ELSE Fails(t)
  /\ NodeStays /\ UNCHANGED <<local, chainId, mempool, lost>>

(* A request or a reply is lost.                                           *)
Loses(t) ==
  /\ call[t].step \in {"submit", "rejected", "wait"} /\ Fails(t) /\ lost' = lost + 1
  /\ \/ mempool' = mempool
     \/ /\ call[t].step = "submit" /\ Sdk!Admissible(call[t].tx)
        /\ mempool' = mempool \cup {call[t].tx}
  /\ NodeStays /\ UNCHANGED <<local, chainId>>

TaskMoves(t) ==
  \/ Asks(t) \/ Signs(t)
  \/ Submits(t) \/ Rejects(t) \/ Refuses(t) \/ Reads(t) \/ ReadsLocal(t) \/ Corrects(t)
  \/ Waits(t) \/ Loses(t)

CallsStay == UNCHANGED <<local, call, results>>

Executes ==
  /\ CallsStay /\ UNCHANGED <<chainId, deployment, lost>>
  /\ \E x \in mempool :
       /\ x.number = sequence /\ sequence' = sequence + 1
       /\ executed' = executed \cup {x} /\ mempool' = mempool \ {x}

(* A transaction expires, or is dropped.                                   *)
Drops ==
  /\ CallsStay /\ NodeStays /\ UNCHANGED chainId
  /\ \E x \in mempool :
       /\ mempool' = mempool \ {x}
       /\ (x.number > sequence /\ lost' = lost) \/ lost' = lost + 1

Redeploys ==
  /\ CallsStay /\ UNCHANGED <<chainId, executed, lost>>
  /\ deployment' = deployment + 1 /\ sequence' \in {0, sequence} /\ mempool' = {}

(* The chain ID is brought up to date, between calls, or nothing happens.  *)
Updates ==
  /\ CallsStay /\ NodeStays /\ UNCHANGED <<mempool, lost>>
  /\ \/ chainId' = chainId
     \/ chainId' = deployment /\ \A t \in Clients : call[t].step = "idle"

(* Every step is one of these.                                             *)
LEMMA SdkMoves ==
  ASSUME SdkTyped, [Sdk!Next]_(Sdk!vars)
  PROVE  (\E t \in Clients : TaskMoves(t)) \/ Executes \/ Drops \/ Redeploys \/ Updates
<1> USE DEF SdkTyped, Sdk!nodeVars, Sdk!clientVars, NodeStays
<1>1. ASSUME NEW t \in Clients, Sdk!Step(t)
      PROVE  TaskMoves(t)
  <2>1. CASE \/ Sdk!SubmitTx(t) \/ Sdk!Sign(t) \/ Sdk!Submitted(t) \/ Sdk!Rejected(t)
             \/ Sdk!GetSequenceNumber(t) \/ Sdk!ReadLocal(t)
    BY <2>1, CallSteps DEF TaskMoves
  <2>2. CASE Sdk!SetSequenceNumber(t)
    BY <2>2, AttemptEnds DEF Sdk!SetSequenceNumber, TaskMoves, Corrects
  <2>3. CASE Sdk!Wait(t)
    BY <2>3, AttemptEnds, ReturnEnds DEF Sdk!Wait, TaskMoves, Waits
  <2> QED
    BY <1>1, <2>1, <2>2, <2>3 DEF Sdk!Step
<1>2. ASSUME NEW t \in Clients, Sdk!LoseRequest(t) \/ Sdk!Refuse(t) \/ Sdk!LoseReply(t)
      PROVE  TaskMoves(t)
  <2>1. CASE Sdk!Refuse(t)
    BY <2>1, CallSteps DEF TaskMoves
  <2>2. CASE Sdk!LoseRequest(t) \/ Sdk!LoseReply(t)
    <3>1. Fails(t)
      BY <2>2, AttemptEnds DEF Sdk!LoseRequest, Sdk!LoseReply
    <3> QED
      BY <2>2, <3>1 DEF Sdk!LoseRequest, Sdk!LoseReply, Sdk!Fault, TaskMoves, Loses
  <2> QED
    BY <1>2, <2>1, <2>2
<1>3. CASE Sdk!UpdateChainId
  BY <1>3 DEF Sdk!UpdateChainId, Updates, CallsStay
<1>4. CASE Sdk!Execute
  BY <1>4 DEF Sdk!Execute, Executes, CallsStay
<1>5. CASE Sdk!Expire
  BY <1>5 DEF Sdk!Expire, Drops, CallsStay
<1>6. CASE Sdk!Drop
  BY <1>6 DEF Sdk!Drop, Sdk!Fault, Drops, CallsStay
<1>7. CASE Sdk!NewDeployment
  BY <1>7 DEF Sdk!NewDeployment, Redeploys, CallsStay
<1>8. CASE UNCHANGED Sdk!vars
  BY <1>8 DEF Sdk!vars, Updates, CallsStay
<1> QED
  BY <1>1, <1>2, <1>3, <1>4, <1>5, <1>6, <1>7, <1>8 DEF Sdk!Next

-----------------------------------------------------------------------------
(* Types.                                                                  *)

(* A client that has connected has no call under way.                      *)
LEMMA InitSdkTyped == Sdk!Init => SdkTyped
<1> SUFFICES ASSUME Sdk!Init PROVE SdkTyped
  OBVIOUS
<1>1. CallTyped(Sdk!Idle)
  BY DEF CallTyped, Sdk!Idle, Sdk!NoTx, HasTx
<1>2. << >> \in Seq(Result)
  OBVIOUS
<1> QED
  BY <1>1, <1>2 DEF Sdk!Init, SdkTyped, CallsTyped, NodeTyped

(* A step of a task, or the loss of what it sent or waits for.             *)
LEMMA TurnTyped ==
  ASSUME CallsTyped, NEW t \in Clients, NEW c, Turns(t, c), CallTyped(c), results' = results
  PROVE  CallsTyped'
<1>1. \A u \in Clients : CallTyped(call'[u]) /\ results'[u] \in Seq(Result)
  BY DEF CallsTyped, Turns
<1> QED
  BY <1>1 DEF CallsTyped, Turns, CallTyped

(* The end of an attempt, or of a call.                                    *)
LEMMA FailTyped ==
  ASSUME CallsTyped, NEW t \in Clients, \/ Fails(t)
                                        \/ \E r \in {"ok", "error", "failed"} : Ends(t, r)
  PROVE  CallsTyped'
<1>1. ASSUME NEW r, Ends(t, r)
      PROVE  CallsTyped'
  <2>1. CallTyped(Sdk!Idle)
    BY DEF CallTyped, Sdk!Idle, Sdk!NoTx, HasTx
  <2>2. results'[t] \in Seq(Result)
    BY <1>1, AppendProperties DEF Ends, CallsTyped
  <2>3. \A u \in Clients : CallTyped(call'[u]) /\ results'[u] \in Seq(Result)
    BY <1>1, <2>1, <2>2 DEF CallsTyped, Turns, Ends
  <2> QED
    BY <1>1, <2>3 DEF CallsTyped, Turns, Ends, CallTyped
<1>2. CASE Retries(t)
  BY <1>2, TurnTyped DEF Retries
<1> QED
  BY <1>1, <1>2 DEF Fails

(* Every step keeps the types.                                             *)
LEMMA NextSdkTyped ==
  ASSUME SdkTyped, [Sdk!Next]_(Sdk!vars)
  PROVE  SdkTyped'
<1>1. ASSUME NEW t \in Clients, TaskMoves(t)
      PROVE  SdkTyped'
  <2>1. CASE Asks(t) \/ Signs(t)
    BY <2>1, TurnTyped DEF Asks, Signs, SdkTyped, NodeTyped
  <2>2. call[t] \in [step : {"idle", "ready"} \cup HasTx, attempt : Nat, tx : Tx \cup {Sdk!NoTx},
                     seen : Nat, began : Nat]
    BY DEF SdkTyped, CallsTyped, CallTyped
  <2>3. call[t].step = "submit" => call[t].tx \in Tx
    BY DEF SdkTyped, CallsTyped, CallTyped, HasTx
  <2>4. CASE Submits(t) \/ Rejects(t) \/ Refuses(t) \/ Reads(t) \/ ReadsLocal(t)
    BY <2>3, <2>4, TurnTyped DEF Submits, Rejects, Refuses, Reads, ReadsLocal, Proceeds, SdkTyped,
       NodeTyped
  <2>5. CASE Corrects(t)
    BY <2>2, <2>5, FailTyped DEF Corrects, SdkTyped, NodeTyped, NodeStays
  <2>6. CASE Waits(t)
    BY <2>6, FailTyped DEF Waits, SdkTyped, NodeTyped, NodeStays
  <2>7. CASE Loses(t)
    BY <2>3, <2>7, FailTyped DEF Loses, SdkTyped, NodeTyped, NodeStays
  <2> QED
    BY <1>1, <2>1, <2>4, <2>5, <2>6, <2>7 DEF TaskMoves
<1>2. CASE Executes \/ Drops \/ Redeploys \/ Updates
  <2>1. CallsTyped'
    BY <1>2 DEF SdkTyped, CallsTyped, CallTyped, Executes, Drops, Redeploys, Updates, CallsStay
  <2>2. NodeTyped'
    BY <1>2 DEF SdkTyped, NodeTyped, Executes, Drops, Redeploys, Updates, CallsStay, NodeStays
  <2> QED
    BY <2>1, <2>2 DEF SdkTyped
<1> QED
  BY <1>1, <1>2, SdkMoves

-----------------------------------------------------------------------------
(* What is executed, and what calls return.                                *)

(* The number of the call under way, or of the next.                       *)
Current(t) == Len(results[t]) + 1

CallsKnown ==
  /\ \A t \in Clients : call[t].step \in HasTx => call[t].tx.task = t /\ call[t].tx.call = Current(t)
  /\ \A x \in mempool \cup executed : x.call \in 1..Current(x.task)

Awaited(x) == call[x.task].step = "wait" /\ x = call[x.task].tx

(* The chain of the client is one that the node had, and does not change   *)
(* during a call: what a call under way has executed, or has pending, is   *)
(* of a deployment since it began.                                         *)
ChainsKnown ==
  /\ chainId <= deployment
  /\ \A t \in Clients : /\ call[t].began <= deployment
                        /\ call[t].step \in HasTx => call[t].tx.chain = chainId
  /\ \A x \in mempool : x.chain = deployment
  /\ \A x \in mempool \cup executed :
       x.call = Current(x.task) =>
         call[x.task].step # "idle" /\ x.chain = chainId /\ call[x.task].began <= x.chain

OkExecuted ==
  \A t \in Clients : \A n \in 1..Len(results[t]) :
    results[t][n].result = "ok" =>
      t \notin Aborting /\ \E x \in executed : x.task = t /\ x.call = n

(* As long as nothing is lost, an attempt fails only if its transaction    *)
(* will never be executed, or aborts, or is of a chain that is no more.    *)
PendingAwaited == lost = 0 => \A x \in mempool : Awaited(x)

Told(r) == r.result = "ok" \/ r.began # r.ended

ExecutedTold ==
  lost = 0 =>
    \A x \in executed :
      x.task \notin Aborting =>
        IF x.call = Current(x.task) THEN x.chain = deployment => Awaited(x)
        ELSE Told(results[x.task][x.call])

ExecutedOnce ==
  lost = 0 =>
    \A x, y \in executed :
      x.task \notin Aborting /\ x.task = y.task /\ x.call = y.call => x = y

ResultInv ==
  /\ SdkTyped /\ CallsKnown /\ ChainsKnown /\ OkExecuted
  /\ PendingAwaited /\ ExecutedTold /\ ExecutedOnce

(* A call that ends adds its result.                                       *)
ResultAdded(t, result) ==
  /\ Current(t)' = Current(t) + 1
  /\ \A n \in 1..Len(results[t]) : results'[t][n] = results[t][n]
  /\ results'[t][Current(t)].result = result
  /\ results'[t][Current(t)].began = call[t].began
  /\ results'[t][Current(t)].ended = deployment
  /\ call'[t].step = "idle"

(* A call that ends adds its result.                                       *)
LEMMA EndAdds ==
  ASSUME CallsTyped, NEW t \in Clients, NEW result, Ends(t, result)
  PROVE  ResultAdded(t, result) /\ Current(t) \in Nat /\ Len(results[t]) \in Nat
<1>1. PICK r \in Result : /\ r.result = result /\ r.began = call[t].began /\ r.ended = deployment
                          /\ results'[t] = Append(results[t], r)
  BY DEF Ends
<1>2. results[t] \in Seq(Result)
  BY DEF CallsTyped
<1>3. call'[t].step = "idle"
  BY DEF Ends, Turns, Sdk!Idle
<1> QED
  BY <1>1, <1>2, <1>3, AppendProperties, LenProperties DEF ResultAdded, Current

(* What a step of a task does to the call under way.                       *)
Same(u) == call'[u] = call[u] /\ results'[u] = results[u] /\ Current(u)' = Current(u)

(* A step of a task leaves the others alone.                               *)
LEMMA OthersSame ==
  ASSUME CallsTyped, NEW t \in Clients, TaskMoves(t)
  PROVE  \A u \in Clients \ {t} : Same(u)
BY DEF TaskMoves, Asks, Signs, Submits, Rejects, Refuses, Reads, ReadsLocal, Proceeds, Corrects,
   Waits, Loses, Fails, Ends, Retries, Turns, CallsTyped, Same, Current

(* The call of the task that moves goes on, or it ends.                    *)
GoesOn(t, step) ==
  /\ results'[t] = results[t] /\ Current(t)' = Current(t)
  /\ call'[t].step = step /\ call'[t].began = call[t].began

(* An attempt that fails goes on to the next, or adds a result that is not *)
(* Ok.                                                                     *)
LEMMA FailsHow ==
  ASSUME CallsTyped, NEW t \in Clients, Fails(t)
  PROVE  GoesOn(t, "ready") \/ ResultAdded(t, "error") \/ ResultAdded(t, "failed")
BY EndAdds DEF Fails, Retries, Turns, GoesOn, Current

(* Transactions are of calls that are under way or have returned.          *)
LEMMA CallsStayKnown ==
  ASSUME SdkTyped, CallsKnown, SdkTyped', [Sdk!Next]_(Sdk!vars)
  PROVE  CallsKnown'
<1>1. ASSUME NEW t \in Clients, TaskMoves(t)
      PROVE  CallsKnown'
  <2>1. \A u \in Clients \ {t} : Same(u)
    BY <1>1, OthersSame DEF SdkTyped
  <2>2. /\ \A u \in Clients : Current(u) \in Nat \ {0}
        /\ \A x \in mempool \cup executed : x.task \in Clients /\ x.call \in Nat
        /\ executed' = executed
    BY <1>1, LenProperties DEF SdkTyped, CallsTyped, NodeTyped, Tx, Current, TaskMoves, Asks, Signs,
          Submits, Rejects, Refuses, Reads, ReadsLocal, Proceeds, Corrects, Waits, Loses, NodeStays
  <2>3. CASE Asks(t) \/ Signs(t)
    <3>1. /\ Current(t)' = Current(t) /\ mempool' = mempool
          /\ call'[t].step \in HasTx => call'[t].tx.task = t /\ call'[t].tx.call = Current(t)
      BY <2>3 DEF Asks, Signs, Turns, Current, HasTx
    <3> QED
      BY <2>1, <2>2, <3>1 DEF CallsKnown, Same
  <2>4. CASE Submits(t) \/ Rejects(t) \/ Refuses(t) \/ Reads(t) \/ ReadsLocal(t)
    <3>1. /\ Current(t)' = Current(t) /\ call[t].step \in HasTx /\ call'[t].tx = call[t].tx
          /\ mempool' \subseteq mempool \cup {call[t].tx}
      BY <2>4 DEF Submits, Rejects, Refuses, Reads, ReadsLocal, Proceeds, Turns, Current, HasTx
    <3> QED
      BY <2>1, <2>2, <3>1 DEF CallsKnown, Same
  <2>5. CASE Corrects(t) \/ Waits(t) \/ Loses(t)
    <3>1. /\ call[t].step \in HasTx /\ mempool' \subseteq mempool \cup {call[t].tx}
      BY <2>5 DEF Corrects, Waits, Loses, HasTx
    <3>2. GoesOn(t, "ready") \/ \E r : ResultAdded(t, r)
      BY <2>5, FailsHow, EndAdds DEF Corrects, Waits, Loses, SdkTyped
    <3>3. /\ Current(t)' \in {Current(t), Current(t) + 1}
          /\ call'[t].step \notin HasTx
      BY <3>2 DEF GoesOn, ResultAdded, HasTx
    <3> QED
      BY <2>1, <2>2, <3>1, <3>3 DEF CallsKnown, Same
  <2> QED
    BY <1>1, <2>3, <2>4, <2>5 DEF TaskMoves
<1>2. CASE Executes \/ Drops \/ Redeploys \/ Updates
  BY <1>2 DEF CallsKnown, Executes, Drops, Redeploys, Updates, CallsStay, NodeStays, Current
<1> QED
  BY <1>1, <1>2, SdkMoves

(* The client takes another chain between calls alone, and the node admits *)
(* transactions of its own.                                                *)
LEMMA ChainsStayKnown ==
  ASSUME SdkTyped, CallsKnown, ChainsKnown, [Sdk!Next]_(Sdk!vars)
  PROVE  ChainsKnown'
<1>1. /\ deployment \in Nat /\ chainId \in Nat /\ chainId <= deployment
      /\ \A u \in Clients : /\ call[u].began \in Nat /\ call[u].began <= deployment
                            /\ Current(u) \in Nat
      /\ \A x \in mempool \cup executed : x \in Tx /\ x.task \in Clients
  BY LenProperties DEF SdkTyped, NodeTyped, CallsTyped, CallTyped, ChainsKnown, Tx, Current
<1>2. ASSUME NEW t \in Clients, TaskMoves(t)
      PROVE  ChainsKnown'
  <2>1. \A u \in Clients \ {t} : Same(u)
    BY <1>2, OthersSame DEF SdkTyped
  <2>2. UNCHANGED <<chainId, deployment, executed>>
    BY <1>2 DEF TaskMoves, Asks, Signs, Submits, Rejects, Refuses, Reads, ReadsLocal, Proceeds,
       Corrects, Waits, Loses, NodeStays
  <2>3. \/ mempool' = mempool
        \/ /\ mempool' = mempool \cup {call[t].tx} /\ call[t].step = "submit"
           /\ call[t].tx.chain = deployment /\ call[t].tx.chain = chainId
           /\ call[t].tx.task = t /\ call[t].tx.call = Current(t)
    <3>1. \/ mempool' = mempool
          \/ /\ mempool' = mempool \cup {call[t].tx} /\ call[t].step = "submit"
             /\ call[t].tx.chain = deployment
      BY <1>2 DEF TaskMoves, Asks, Signs, Submits, Rejects, Refuses, Reads, ReadsLocal, Proceeds,
         Corrects, Waits, Loses, Sdk!Admissible
    <3> QED
      BY <3>1 DEF ChainsKnown, CallsKnown, HasTx
  <2>4. \/ call[t].step = "idle" /\ call'[t].step = "ready" /\ Current(t)' = Current(t)
           /\ mempool' = mempool /\ call'[t].began = deployment
        \/ /\ call[t].step # "idle" /\ call'[t].step # "idle" /\ Current(t)' = Current(t)
           /\ call'[t].began = call[t].began
           /\ call'[t].step \in HasTx => call'[t].tx.chain = chainId
        \/ /\ Current(t)' = Current(t) + 1 /\ call'[t].step = "idle" /\ call'[t].began = 0
    <3>1. CASE Asks(t) \/ Signs(t)
      BY <3>1 DEF Asks, Signs, Turns, HasTx, Current
    <3>2. CASE Submits(t) \/ Rejects(t) \/ Refuses(t) \/ Reads(t) \/ ReadsLocal(t)
      BY <3>2 DEF Submits, Rejects, Refuses, Reads, ReadsLocal, Proceeds, Turns, HasTx,
         ChainsKnown, Current
    <3>3. CASE Corrects(t) \/ Waits(t) \/ Loses(t)
      <4>1. GoesOn(t, "ready") \/ \E r : ResultAdded(t, r)
        BY <3>3, FailsHow, EndAdds DEF Corrects, Waits, Loses, SdkTyped
      <4>2. call'[t].step = "idle" => call'[t].began = 0
        BY <3>3 DEF Corrects, Waits, Loses, Fails, Ends, Retries, Turns, Sdk!Idle
      <4> QED
        BY <3>3, <4>1, <4>2 DEF GoesOn, ResultAdded, HasTx, Corrects, Waits, Loses
    <3> QED
      BY <1>2, <3>1, <3>2, <3>3 DEF TaskMoves
  <2>5. \A u \in Clients : /\ call'[u].began <= deployment
                           /\ call'[u].step \in HasTx => call'[u].tx.chain = chainId
    <3>1. /\ call'[t].began <= deployment
          /\ call'[t].step \in HasTx => call'[t].tx.chain = chainId
      BY <1>1, <2>4 DEF HasTx
    <3> QED
      BY <2>1, <3>1 DEF Same, ChainsKnown
  <2>6. ASSUME NEW x \in mempool' \cup executed', x.call = Current(x.task)'
        PROVE  /\ call'[x.task].step # "idle" /\ x.chain = chainId
               /\ call'[x.task].began <= x.chain
    <3>1. CASE x \in mempool \cup executed /\ x.task # t
      BY <1>1, <2>1, <2>6, <3>1 DEF Same, ChainsKnown
    <3>2. CASE x \in mempool \cup executed /\ x.task = t
      <4>1. x.call \in 1..Current(t) /\ x.call # Current(t) + 1
        BY <1>1, <3>2 DEF CallsKnown
      <4>2. Current(t)' = Current(t)
        BY <2>4, <2>6, <3>2, <4>1
      <4>3. call[t].step # "idle" /\ x.chain = chainId /\ call[t].began <= x.chain
        BY <2>6, <3>2, <4>2 DEF ChainsKnown
      <4> QED
        BY <1>1, <2>4, <3>2, <4>2, <4>3
    <3>3. CASE x \notin mempool \cup executed
      <4>1. /\ x = call[t].tx /\ call[t].step = "submit" /\ x.chain = deployment
            /\ x.chain = chainId /\ x.task = t /\ x.call = Current(t)
        BY <2>2, <2>3, <2>6, <3>3
      <4> QED
        BY <1>1, <2>4, <2>6, <4>1
    <3> QED
      BY <3>1, <3>2, <3>3
  <2> QED
    BY <1>1, <2>2, <2>3, <2>5, <2>6 DEF ChainsKnown
<1>3. CASE Executes \/ Drops
  BY <1>3 DEF ChainsKnown, Executes, Drops, CallsStay, NodeStays, Current
<1>4. CASE Redeploys
  <2>1. chainId <= deployment + 1 /\ \A u \in Clients : call[u].began <= deployment + 1
    BY <1>1
  <2> QED
    BY <1>4, <2>1 DEF ChainsKnown, Redeploys, CallsStay, Current
<1>5. CASE Updates
  <2>1. CASE chainId' = chainId
    BY <1>5, <2>1 DEF ChainsKnown, Updates, CallsStay, NodeStays, Current
  <2>2. CASE chainId' = deployment /\ \A u \in Clients : call[u].step = "idle"
    <3>1. \A x \in mempool \cup executed : x.call # Current(x.task)
      BY <1>1, <2>2 DEF ChainsKnown
    <3>2. deployment <= deployment /\ "idle" \notin HasTx
      BY <1>1 DEF HasTx
    <3> QED
      BY <1>5, <2>2, <3>1, <3>2 DEF ChainsKnown, Updates, CallsStay, NodeStays, Current
  <2> QED
    BY <1>5, <2>1, <2>2 DEF Updates
<1> QED
  BY <1>2, <1>3, <1>4, <1>5, SdkMoves

(* A result that is Ok is added when the transaction was seen to execute.  *)
LEMMA OkStaysExecuted ==
  ASSUME SdkTyped, CallsKnown, OkExecuted, [Sdk!Next]_(Sdk!vars)
  PROVE  OkExecuted'
<1>1. ASSUME NEW t \in Clients, TaskMoves(t)
      PROVE  OkExecuted'
  <2>1. \A u \in Clients \ {t} : Same(u)
    BY <1>1, OthersSame DEF SdkTyped
  <2>2. executed' = executed
    BY <1>1 DEF TaskMoves, Asks, Signs, Submits, Rejects, Refuses, Reads, ReadsLocal, Proceeds,
       Corrects, Waits, Loses, NodeStays
  <2>3. SUFFICES ASSUME NEW n \in 1..Len(results'[t]), results'[t][n].result = "ok"
                 PROVE  t \notin Aborting /\ \E x \in executed : x.task = t /\ x.call = n
    BY <2>1, <2>2 DEF OkExecuted, Same
  <2>4. CASE results'[t] = results[t]
    BY <2>3, <2>4 DEF OkExecuted
  <2>5. CASE results'[t] # results[t]
    <3>1. \/ ResultAdded(t, "error") \/ ResultAdded(t, "failed")
          \/ call[t].step = "wait" /\ Sdk!Succeeded(call[t].tx) /\ ResultAdded(t, "ok")
      <4>1. Corrects(t) \/ Waits(t) \/ Loses(t)
        BY <1>1, <2>5 DEF TaskMoves, Asks, Signs, Submits, Rejects, Refuses, Reads, ReadsLocal,
           Proceeds
      <4> QED
        BY <2>5, <4>1, FailsHow, EndAdds DEF Corrects, Waits, Loses, SdkTyped, GoesOn
    <3>2. /\ Len(results[t]) \in Nat /\ Len(results'[t]) = Len(results[t]) + 1
          /\ \A k \in 1..Len(results[t]) : results'[t][k] = results[t][k]
      BY <3>1, LenProperties, <2>3 DEF ResultAdded, Current, SdkTyped, CallsTyped
    <3>3. CASE n \in 1..Len(results[t])
      BY <2>3, <3>2, <3>3 DEF OkExecuted
    <3>4. CASE n = Current(t)
      <4>1. call[t].step = "wait" /\ Sdk!Succeeded(call[t].tx)
        BY <2>3, <3>1, <3>4 DEF ResultAdded
      <4>2. call[t].tx.task = t /\ call[t].tx.call = n
        BY <3>4, <4>1 DEF CallsKnown, HasTx
      <4> QED
        BY <4>1, <4>2 DEF Sdk!Succeeded
    <3> QED
      BY <3>2, <3>3, <3>4, <2>3 DEF Current
  <2> QED
    BY <2>4, <2>5
<1>2. CASE Executes \/ Drops \/ Redeploys \/ Updates
  BY <1>2 DEF OkExecuted, Executes, Drops, Redeploys, Updates, CallsStay, NodeStays
<1> QED
  BY <1>1, <1>2, SdkMoves

(* What a step does to what is awaited, if nothing was lost.               *)
LEMMA QuietStep ==
  ASSUME SdkTyped, [Sdk!Next]_(Sdk!vars), lost' = 0
  PROVE  /\ lost = 0
         /\ \A t \in Clients : ~Loses(t) /\ ~Refuses(t)
         /\ Drops => \E x \in mempool : mempool' = mempool \ {x}
<1>1. lost \in Nat
  BY DEF SdkTyped, NodeTyped
<1>2. \A t \in Clients : ~Loses(t) /\ ~Refuses(t)
  BY <1>1 DEF Loses, Refuses
<1>3. lost = 0
  <2>1. ASSUME NEW t \in Clients, TaskMoves(t), ~Loses(t), ~Refuses(t)
        PROVE  lost' = lost
    BY <2>1 DEF TaskMoves, Asks, Signs, Submits, Rejects, Refuses, Reads, ReadsLocal, Proceeds,
       Corrects, Waits
  <2>2. CASE Executes \/ Drops \/ Redeploys \/ Updates
    BY <1>1, <2>2 DEF Executes, Drops, Redeploys, Updates
  <2> QED
    BY <1>2, <2>1, <2>2, SdkMoves
<1> QED
  BY <1>2, <1>3 DEF Drops

(* Without faults, what the node holds is awaited.                         *)
LEMMA PendingStayAwaited ==
  ASSUME SdkTyped, CallsKnown, PendingAwaited, [Sdk!Next]_(Sdk!vars)
  PROVE  PendingAwaited'
<1> SUFFICES ASSUME lost' = 0
             PROVE  \A x \in mempool' : Awaited(x)'
  BY DEF PendingAwaited
<1>1. lost = 0 /\ \A x \in mempool : Awaited(x) /\ x.task \in Clients
  BY QuietStep DEF PendingAwaited, SdkTyped, NodeTyped, Tx
<1>2. ASSUME NEW t \in Clients, TaskMoves(t)
      PROVE  \A x \in mempool' : Awaited(x)'
  <2>1. \A u \in Clients \ {t} : Same(u)
    BY <1>2, OthersSame DEF SdkTyped
  <2>2. CASE Submits(t)
    <3>1. /\ mempool' = mempool \cup {call[t].tx} /\ call[t].step = "submit"
          /\ call'[t].step = "wait" /\ call'[t].tx = call[t].tx
      BY <2>2 DEF Submits, Proceeds, Turns
    <3>2. call[t].tx.task = t
      BY <3>1 DEF CallsKnown, HasTx
    <3> QED
      BY <1>1, <2>1, <3>1, <3>2 DEF Awaited, Same
  <2>3. CASE ~Submits(t)
    <3>1. mempool' = mempool /\ \A x \in mempool : x.task # t
      BY <1>1, <1>2, <2>3, QuietStep DEF TaskMoves, Asks, Signs, Rejects, Refuses, Reads,
         ReadsLocal, Proceeds, Corrects, Waits, Awaited
    <3> QED
      BY <1>1, <2>1, <3>1 DEF Awaited, Same
  <2> QED
    BY <2>2, <2>3
<1>3. CASE Executes \/ Drops \/ Redeploys \/ Updates
  BY <1>1, <1>3 DEF Executes, Drops, Redeploys, Updates, CallsStay, Awaited
<1> QED
  BY <1>2, <1>3, SdkMoves

(* Without faults, what has executed is awaited or has been told, or is of *)
(* a deployment that ended during its call.                                *)
LEMMA ExecutedStayTold ==
  ASSUME SdkTyped, CallsKnown, ChainsKnown, PendingAwaited, ExecutedTold, [Sdk!Next]_(Sdk!vars)
  PROVE  ExecutedTold'
<1> DEFINE Fine(x) == IF x.call = Current(x.task) THEN x.chain = deployment => Awaited(x)
                      ELSE Told(results[x.task][x.call])
<1> SUFFICES ASSUME lost' = 0, NEW x \in executed', x.task \notin Aborting
             PROVE  Fine(x)'
  BY DEF ExecutedTold
<1>1. lost = 0 /\ deployment \in Nat /\ \A t \in Clients : Len(results[t]) \in Nat
  BY QuietStep, LenProperties DEF SdkTyped, NodeTyped, CallsTyped
<1>2. ASSUME NEW t \in Clients, TaskMoves(t)
      PROVE  Fine(x)'
  <2>1. \A u \in Clients \ {t} : Same(u)
    BY <1>2, OthersSame DEF SdkTyped
  <2>2. /\ x \in executed /\ x \in Tx /\ x.task \in Clients /\ x.call \in 1..Current(x.task)
        /\ deployment' = deployment
    BY <1>2 DEF TaskMoves, Asks, Signs, Submits, Rejects, Refuses, Reads, ReadsLocal, Proceeds,
       Corrects, Waits, Loses, NodeStays, CallsKnown, SdkTyped, NodeTyped, Tx
  <2>3. Fine(x)
    BY <1>1, <2>2 DEF ExecutedTold
  <2>4. CASE x.task # t
    BY <2>1, <2>2, <2>3, <2>4 DEF Same, Awaited
  <2>5. CASE x.task = t /\ x.call # Current(t)
    <3>1. x.call \in 1..Len(results[t]) /\ Told(results[t][x.call])
      BY <1>1, <2>2, <2>3, <2>5 DEF Current
    <3>2. \/ results'[t] = results[t] /\ Current(t)' = Current(t)
          \/ \E r : ResultAdded(t, r)
      BY <1>2, FailsHow, EndAdds DEF TaskMoves, Asks, Signs, Submits, Rejects, Refuses, Reads,
         ReadsLocal, Proceeds, Corrects, Waits, Loses, Current, GoesOn, SdkTyped
    <3>3. results'[t][x.call] = results[t][x.call] /\ x.call # Current(t)'
      BY <1>1, <2>5, <3>1, <3>2 DEF ResultAdded, Current
    <3> QED
      BY <2>5, <3>1, <3>3
  <2>6. CASE x.task = t /\ x.call = Current(t) /\ x.chain = deployment
    <3>1. call[t].step = "wait" /\ x = call[t].tx
      BY <2>3, <2>6 DEF Awaited
    <3>2. Waits(t)
      BY <1>2, <3>1, QuietStep DEF TaskMoves, Asks, Signs, Submits, Rejects, Refuses, Reads,
         ReadsLocal, Proceeds, Corrects
    <3>3. Sdk!Succeeded(call[t].tx)
      BY <2>2, <2>6, <3>1 DEF Sdk!Succeeded
    <3>4. ResultAdded(t, "ok")
      BY <3>2, <3>3, EndAdds DEF Waits, SdkTyped
    <3>5. x.call # Current(t)' /\ results'[t][x.call].result = "ok"
      BY <1>1, <2>6, <3>4 DEF ResultAdded, Current
    <3> QED
      BY <2>6, <3>5 DEF Told
  <2>7. CASE x.task = t /\ x.call = Current(t) /\ x.chain # deployment
    <3>1. call[t].began <= x.chain /\ x.chain = chainId /\ call[t].step # "idle"
      BY <2>2, <2>7 DEF ChainsKnown
    <3>2. call[t].began # deployment
      BY <1>1, <2>2, <2>7, <3>1 DEF ChainsKnown, Tx, SdkTyped, CallsTyped, CallTyped
    <3>3. \/ results'[t] = results[t] /\ Current(t)' = Current(t)
          \/ \E r : ResultAdded(t, r)
      BY <1>2, FailsHow, EndAdds DEF TaskMoves, Asks, Signs, Submits, Rejects, Refuses, Reads,
         ReadsLocal, Proceeds, Corrects, Waits, Loses, Current, GoesOn, SdkTyped
    <3>4. CASE Current(t)' = Current(t)
      BY <2>2, <2>7, <3>4
    <3>5. CASE \E r : ResultAdded(t, r)
      <4>1. x.call # Current(t)' /\ Told(results'[t][x.call])
        BY <1>1, <2>7, <3>2, <3>5 DEF ResultAdded, Current, Told
      <4> QED
        BY <2>7, <4>1
    <3> QED
      BY <3>3, <3>4, <3>5
  <2> QED
    BY <2>4, <2>5, <2>6, <2>7
<1>3. CASE Executes
  <2>1. PICK y \in mempool : executed' = executed \cup {y}
    BY <1>3 DEF Executes
  <2>2. Awaited(y) /\ y.task \in Clients /\ call[y.task].tx.call = Current(y.task)
    BY <1>1 DEF PendingAwaited, SdkTyped, NodeTyped, Tx, Awaited, CallsKnown, HasTx
  <2> QED
    BY <1>1, <1>3, <2>1, <2>2 DEF ExecutedTold, Executes, CallsStay, Awaited, Current
<1>4. CASE Drops \/ Updates
  BY <1>1, <1>4 DEF ExecutedTold, Drops, Updates, CallsStay, NodeStays, Awaited, Current
<1>5. CASE Redeploys
  <2>1. /\ x \in executed /\ deployment' = deployment + 1
        /\ UNCHANGED <<call, results>> /\ Current(x.task)' = Current(x.task)
    BY <1>5 DEF Redeploys, CallsStay, Current
  <2>2. x.call = Current(x.task) => x.chain # deployment + 1
    BY <1>1, <2>1 DEF ChainsKnown, SdkTyped, NodeTyped
  <2>3. x.call # Current(x.task) => Told(results[x.task][x.call])
    BY <1>1, <2>1 DEF ExecutedTold
  <2> QED
    BY <2>1, <2>2, <2>3
<1> QED
  BY <1>2, <1>3, <1>4, <1>5, SdkMoves

(* Without faults, a call executes once: the next attempt follows one that *)
(* did not.                                                                *)
LEMMA ExecutedStayOnce ==
  ASSUME SdkTyped, CallsKnown, ChainsKnown, PendingAwaited, ExecutedTold, ExecutedOnce,
         [Sdk!Next]_(Sdk!vars)
  PROVE  ExecutedOnce'
<1> SUFFICES ASSUME lost' = 0
             PROVE  \A x, y \in executed' :
                      x.task \notin Aborting /\ x.task = y.task /\ x.call = y.call => x = y
  BY DEF ExecutedOnce
<1>1. lost = 0
  BY QuietStep
<1>2. CASE executed' = executed
  BY <1>1, <1>2 DEF ExecutedOnce
<1>3. CASE Executes
  <2>1. PICK z \in mempool : executed' = executed \cup {z}
    BY <1>3 DEF Executes
  <2>2. Awaited(z) /\ z.task \in Clients /\ z.call = Current(z.task)
    BY <1>1 DEF PendingAwaited, SdkTyped, NodeTyped, Tx, Awaited, CallsKnown, HasTx
  <2>3. \A x \in executed : x.task \notin Aborting /\ x.task = z.task /\ x.call = z.call => x = z
    <3>1. z.chain = deployment /\ z.chain = chainId
      BY <2>2 DEF ChainsKnown
    <3>2. ASSUME NEW x \in executed, x.task \notin Aborting, x.task = z.task, x.call = z.call
          PROVE  x.chain = chainId /\ (x.chain = deployment => Awaited(x))
      BY <1>1, <2>2, <3>2 DEF ChainsKnown, ExecutedTold
    <3> QED
      BY <2>2, <3>1, <3>2 DEF Awaited
  <2> QED
    BY <1>1, <2>1, <2>3 DEF ExecutedOnce
<1> QED
  BY <1>2, <1>3, SdkMoves DEF TaskMoves, Asks, Signs, Submits, Rejects, Refuses, Reads,
     ReadsLocal, Proceeds, Corrects, Waits, Loses, Drops, Redeploys, Updates, NodeStays

-----------------------------------------------------------------------------
(* A task that is alone: its number is that of the node, or one behind,    *)
(* which the first attempt finds out and corrects.                         *)

Alone(t) == lost = 0 /\ deployment = 0 /\ Clients = {t} /\ t \notin Aborting

Near == local = sequence \/ local + 1 = sequence

Attempting(c) ==
  /\ c.step = "idle" => Near
  /\ c.step \in {"ready", "submit"} => (c.attempt = 0 /\ Near) \/ local = sequence
  /\ c.step = "submit" => c.tx.number = local /\ c.tx.chain = 0
  /\ c.step \in {"rejected", "correct", "set"} => c.attempt = 0 /\ local + 1 = sequence
  /\ c.step \in {"correct", "set"} => c.seen = sequence
  /\ c.step = "wait" => /\ c.tx.number = local /\ c.tx.chain = 0
                        /\ \/ mempool = {c.tx} /\ local = sequence
                           \/ mempool = {} /\ c.tx \in executed /\ local + 1 = sequence
  /\ c.step # "wait" => mempool = {}

AllOk(t) == \A n \in 1..Len(results[t]) : results[t][n].result = "ok"

AloneAt(t) == chainId = 0 /\ AllOk(t) /\ Attempting(call[t])

AloneInv == \A t \in Clients : Alone(t) => AloneAt(t)

(* A task that is alone has the number of the node, or one that is behind  *)
(* by its last success, which the first attempt corrects.                  *)
LEMMA AloneStays ==
  ASSUME SubmitAttempts \in Nat \ {0, 1}, RetryCount \in Nat \ {0, 1},
         SdkTyped, CallsKnown, AloneInv, [Sdk!Next]_(Sdk!vars)
  PROVE  AloneInv'
<1> SUFFICES ASSUME NEW t \in Clients, Alone(t)'
             PROVE  AloneAt(t)'
  BY DEF AloneInv
<1>1. lost = 0 /\ Clients = {t} /\ t \notin Aborting /\ ~Loses(t) /\ ~Refuses(t)
  BY QuietStep DEF Alone
<1>2. ~Redeploys
  BY DEF Alone, Redeploys, SdkTyped, NodeTyped
<1>3. deployment = 0
  <2>1. deployment' = deployment
    <3>1. ASSUME TaskMoves(t) PROVE deployment' = deployment
      BY <3>1 DEF TaskMoves, Asks, Signs, Submits, Rejects, Refuses, Reads, ReadsLocal, Proceeds,
         Corrects, Waits, Loses, NodeStays
    <3> QED
      BY <1>1, <1>2, <3>1, SdkMoves DEF Executes, Drops, Updates, NodeStays
  <2> QED
    BY <2>1 DEF Alone
<1>4. Alone(t) /\ chainId = 0 /\ AllOk(t) /\ Attempting(call[t])
  BY <1>1, <1>3 DEF Alone, AloneInv, AloneAt
<1>5. /\ local \in Nat /\ sequence \in Nat /\ call[t].attempt \in Nat
      /\ call[t].step \in {"idle", "ready"} \cup HasTx
      /\ Len(results[t]) \in Nat
      /\ call[t].tx \in Tx \/ call[t].tx = Sdk!NoTx
      /\ \A x \in mempool : x \in Tx
  BY LenProperties DEF SdkTyped, NodeTyped, CallsTyped, CallTyped
<1>6. CASE Asks(t) \/ Signs(t)
  <2>1. UNCHANGED <<chainId, results, local, sequence, mempool>>
    BY <1>6 DEF Asks, Signs
  <2>2. Attempting(call[t])'
    <3>1. CASE Asks(t)
      BY <1>4, <3>1, <2>1 DEF Asks, Turns, Attempting, Near
    <3>2. CASE Signs(t)
      <4>1. /\ call[t].step = "ready" /\ call'[t].step = "submit"
            /\ call'[t].attempt = call[t].attempt
            /\ call'[t].tx.number = local /\ call'[t].tx.chain = 0
        BY <1>4, <3>2 DEF Signs, Turns
      <4> QED
        BY <1>4, <4>1, <2>1 DEF Attempting, Near
    <3> QED
      BY <1>6, <3>1, <3>2
  <2> QED
    BY <1>4, <2>1, <2>2 DEF AloneAt, AllOk
<1>7. CASE Submits(t) \/ Rejects(t) \/ Reads(t) \/ ReadsLocal(t)
  <2>1. UNCHANGED <<chainId, results, local, sequence>>
    BY <1>7 DEF Submits, Rejects, Refuses, Reads, ReadsLocal, Proceeds
  <2>2. Attempting(call[t])'
    <3>1. CASE Submits(t)
      <4>1. /\ call[t].step = "submit" /\ call'[t].step = "wait" /\ call'[t].tx = call[t].tx
            /\ mempool' = mempool \cup {call[t].tx} /\ call[t].tx.number >= sequence
        BY <3>1 DEF Submits, Proceeds, Turns, Sdk!Admissible
      <4>2. mempool = {} /\ call[t].tx.number = local /\ call[t].tx.chain = 0 /\ Near
        BY <1>4, <4>1 DEF Attempting, Near
      <4>3. local = sequence
        BY <1>5, <4>1, <4>2 DEF Near
      <4> QED
        BY <2>1, <4>1, <4>2, <4>3 DEF Attempting
    <3>2. CASE Rejects(t)
      <4>1. /\ call[t].step = "submit" /\ call'[t].step = "rejected" /\ call'[t].tx = call[t].tx
            /\ call'[t].attempt = call[t].attempt
            /\ mempool' = mempool /\ ~Sdk!Admissible(call[t].tx)
        BY <3>2 DEF Rejects, Proceeds, Turns
      <4>2. /\ mempool = {} /\ call[t].tx.number = local /\ call[t].tx.chain = 0
            /\ (call[t].attempt = 0 /\ Near) \/ local = sequence
        BY <1>4, <4>1 DEF Attempting
      <4>3. ~(local >= sequence)
        BY <1>3, <4>1, <4>2 DEF Sdk!Admissible
      <4>4. call[t].attempt = 0 /\ local + 1 = sequence
        BY <1>5, <4>2, <4>3 DEF Near
      <4> QED
        BY <2>1, <4>1, <4>2, <4>4 DEF Attempting
    <3>3. CASE Reads(t)
      <4>1. /\ call[t].step = "rejected" /\ call'[t].step = "correct"
            /\ call'[t].attempt = call[t].attempt /\ call'[t].seen = sequence
            /\ mempool' = mempool
        BY <3>3 DEF Reads, Proceeds, Turns
      <4> QED
        BY <1>4, <2>1, <4>1 DEF Attempting
    <3>4. CASE ReadsLocal(t)
      <4>1. /\ call[t].step = "correct" /\ call'[t].step = "set"
            /\ call'[t].attempt = call[t].attempt
            /\ call'[t].seen = Sdk!Corrected(call[t].seen) /\ mempool' = mempool
        BY <3>4 DEF ReadsLocal, Proceeds, Turns
      <4>2. call[t].seen = sequence /\ local + 1 = sequence /\ mempool = {} /\ call[t].attempt = 0
        BY <1>4, <4>1 DEF Attempting
      <4>3. call'[t].seen = sequence
        BY <1>5, <4>1, <4>2 DEF Sdk!Corrected, Sdk!MaxOf
      <4> QED
        BY <2>1, <4>1, <4>2, <4>3 DEF Attempting
    <3> QED
      BY <1>7, <3>1, <3>2, <3>3, <3>4
  <2> QED
    BY <1>4, <2>1, <2>2 DEF AloneAt, AllOk
<1>8. CASE Corrects(t)
  <2>1. call[t].attempt = 0 /\ local + 1 = sequence /\ call[t].seen = sequence /\ mempool = {}
    BY <1>4, <1>8 DEF Corrects, Attempting
  <2>2. local' = sequence
    BY <1>8, <2>1 DEF Corrects
  <2>3. Fails(t) /\ UNCHANGED <<chainId, sequence, mempool>>
    BY <1>8 DEF Corrects, NodeStays
  <2>4. Retries(t)
    <3>1. call[t].attempt # SubmitAttempts - 1 /\ call[t].attempt + 1 # RetryCount
      BY <2>1
    <3> QED
      BY <2>3, <3>1 DEF Fails
  <2> QED
    BY <1>4, <2>1, <2>2, <2>3, <2>4 DEF Retries, Turns, AloneAt, Attempting, Near, AllOk
<1>9. CASE Waits(t)
  <2>1. /\ call[t].step = "wait" /\ call[t].tx \notin mempool
        /\ UNCHANGED <<chainId, local, sequence, mempool>>
    BY <1>9 DEF Waits, NodeStays
  <2>2. mempool = {} /\ call[t].tx \in executed /\ local + 1 = sequence /\ call[t].tx.chain = 0
    BY <1>4, <2>1 DEF Attempting
  <2>3. call[t].tx.task = t
    BY <2>1 DEF CallsKnown, HasTx
  <2>4. ResultAdded(t, "ok")
    BY <1>1, <1>3, <1>9, <2>2, <2>3, EndAdds DEF Waits, Sdk!Succeeded, SdkTyped
  <2>5. AllOk(t)'
    <3>1. /\ Len(results'[t]) = Len(results[t]) + 1
          /\ results'[t][Len(results[t]) + 1].result = "ok"
          /\ \A n \in 1..Len(results[t]) : results'[t][n] = results[t][n]
      <4>1. Len(results'[t]) \in Nat
        BY LenProperties, NextSdkTyped DEF SdkTyped, CallsTyped
      <4> QED
        BY <1>5, <2>4, <4>1 DEF ResultAdded, Current
    <3>2. ASSUME NEW n \in 1..Len(results[t]) + 1
          PROVE  results'[t][n].result = "ok"
      <4>1. n \in 1..Len(results[t]) \/ n = Len(results[t]) + 1
        BY <1>5
      <4> QED
        BY <1>4, <3>1, <4>1 DEF AllOk
    <3> QED
      BY <3>1, <3>2 DEF AllOk
  <2> QED
    BY <1>4, <2>1, <2>2, <2>4, <2>5 DEF ResultAdded, AloneAt, Attempting, Near
<1>10. CASE Executes
  <2>1. PICK x \in mempool : /\ x.number = sequence /\ sequence' = sequence + 1
                             /\ executed' = executed \cup {x} /\ mempool' = mempool \ {x}
    BY <1>10 DEF Executes
  <2>2. call[t].step = "wait" /\ x = call[t].tx /\ call[t].tx.number = local /\ mempool = {x}
    BY <1>4, <2>1 DEF Attempting
  <2> QED
    BY <1>4, <1>10, <2>1, <2>2 DEF Executes, CallsStay, AloneAt, Attempting, AllOk
<1>11. CASE Drops
  <2>1. PICK x \in mempool : x.number > sequence
    BY <1>1, <1>11 DEF Drops, Alone
  <2>2. x.number = sequence
    BY <1>4, <2>1 DEF Attempting
  <2> QED
    BY <1>5, <2>1, <2>2
<1>12. CASE Updates
  BY <1>3, <1>4, <1>12 DEF Updates, CallsStay, NodeStays, AloneAt, Attempting, Near, AllOk
<1> QED
  BY <1>1, <1>2, <1>6, <1>7, <1>8, <1>9, <1>10, <1>11, <1>12, SdkMoves DEF TaskMoves

(* Every step keeps what relates results to executions.                    *)
LEMMA NextResultInv ==
  ASSUME ResultInv, [Sdk!Next]_(Sdk!vars)
  PROVE  ResultInv'
<1>1. SdkTyped'
  BY NextSdkTyped DEF ResultInv
<1> QED
  BY <1>1, CallsStayKnown, ChainsStayKnown, OkStaysExecuted, PendingStayAwaited, ExecutedStayTold,
     ExecutedStayOnce
  DEF ResultInv

(* Initially there is neither.                                             *)
LEMMA InitResultInv == Sdk!Init => ResultInv
BY InitSdkTyped DEF Sdk!Init, Sdk!Idle, HasTx, ResultInv, CallsKnown, ChainsKnown, OkExecuted,
   PendingAwaited, ExecutedTold, ExecutedOnce

(* Initially the number is that of the node.                               *)
LEMMA InitAlone == Sdk!Init => AloneInv
BY DEF Sdk!Init, Sdk!Idle, AloneInv, AloneAt, AllOk, Attempting, Near, Alone

TrueAt(t, n, r) ==
  /\ r.result = "ok" => Sdk!Executions(t, n) # {}
  /\ lost = 0 /\ r.result # "ok" /\ r.began = r.ended => Sdk!Executions(t, n) = {}
  /\ lost = 0 => \A x, y \in Sdk!Executions(t, n) : x = y
  /\ lost = 0 /\ deployment = 0 /\ DOMAIN call = {t} /\ t \notin Aborting => r.result = "ok"

(* The invariants give the property.                                       *)
LEMMA ResultsFollow ==
  ASSUME ResultInv, AloneInv
  PROVE  Sdk!ResultTrue
<1> SUFFICES ASSUME NEW t \in DOMAIN call, NEW n \in DOMAIN results[t]
             PROVE  TrueAt(t, n, results[t][n])
  BY Zenon DEF Sdk!ResultTrue, TrueAt
<1>0. t \in Clients /\ n \in 1..Len(results[t])
  BY LenProperties DEF ResultInv, SdkTyped, CallsTyped
<1>1. results[t][n].result = "ok" => Sdk!Executions(t, n) # {}
  BY <1>0 DEF ResultInv, OkExecuted, Sdk!Executions
<1>2. ASSUME lost = 0, results[t][n].result # "ok", results[t][n].began = results[t][n].ended
      PROVE  Sdk!Executions(t, n) = {}
  <2>1. Len(results[t]) \in Nat
    BY <1>0, LenProperties DEF ResultInv, SdkTyped, CallsTyped
  <2>2. n # Current(t)
    BY <1>0, <2>1 DEF Current
  <2> QED
    BY <1>0, <1>2, <2>2 DEF ResultInv, ExecutedTold, Told, Sdk!Executions
<1>3. lost = 0 => \A x, y \in Sdk!Executions(t, n) : x = y
  BY DEF ResultInv, ExecutedOnce, Sdk!Executions
<1>4. lost = 0 /\ deployment = 0 /\ DOMAIN call = {t} /\ t \notin Aborting =>
        results[t][n].result = "ok"
  BY <1>0 DEF ResultInv, SdkTyped, CallsTyped, AloneInv, Alone, AloneAt, AllOk
<1> QED
  BY <1>1, <1>2, <1>3, <1>4 DEF TrueAt

(* With at least two attempts, what a call of submit_tx returns is true:   *)
(* Ok stands for an execution, and, unless a request, a reply or a pending *)
(* transaction is lost, an error for none if the node was not deployed     *)
(* anew, no entry function takes effect twice, and a task that is alone    *)
(* gets an Ok.                                                             *)
THEOREM ResultsAlwaysTrue ==
  ASSUME SubmitAttempts \in Nat \ {0, 1}, RetryCount \in Nat \ {0, 1}
  PROVE  Sdk!Spec => []Sdk!ResultTrue
<1> DEFINE Inv == ResultInv /\ AloneInv
<1>1. Sdk!Init => Inv
  BY InitResultInv, InitAlone
<1>2. Inv /\ [Sdk!Next]_(Sdk!vars) => Inv'
  BY NextResultInv, AloneStays DEF ResultInv
<1>3. Inv => Sdk!ResultTrue
  BY ResultsFollow
<1> QED
  BY <1>1, <1>2, <1>3, PTL DEF Sdk!Spec

-----------------------------------------------------------------------------
(* The order of executions.                                                *)

InFlight(x) ==
  x \in mempool \cup executed \/ \E t \in Clients : call[t].step \in HasTx /\ x = call[t].tx

(* Numbers and chains grow from call to call, and a number is used once on *)
(* a chain.                                                                *)
NumbersKnown ==
  /\ chainId <= deployment
  /\ \A x : InFlight(x) => x \in Tx /\ x.number <= local /\ x.chain <= chainId
  /\ \A x \in mempool : x.chain = deployment
  /\ \A x \in executed : x.chain = deployment => x.number < sequence
  /\ \A t \in Clients : call[t].step = "set" => local < call[t].seen

NumbersGrow ==
  \A x, y : InFlight(x) /\ InFlight(y) /\ x.task = y.task /\ x.call < y.call =>
              x.number <= y.number /\ x.chain <= y.chain

(* The number of a client of one task does not fall.                       *)
OneTask == \A t, u \in Clients : t = u

OrderInv ==
  SdkTyped /\ CallsKnown /\ PendingAwaited /\ (OneTask => NumbersKnown /\ NumbersGrow)

NewTx(t) == [task |-> t, call |-> Current(t), attempt |-> call[t].attempt,
             number |-> local, chain |-> chainId]

(* Only a signature brings another transaction, and numbers do not fall.   *)
LEMMA FlightStep ==
  ASSUME SdkTyped, OneTask, NumbersKnown, [Sdk!Next]_(Sdk!vars)
  PROVE  /\ local <= local' /\ chainId <= chainId' /\ chainId' <= deployment'
         /\ \A x : InFlight(x)' =>
              InFlight(x) \/ \E t \in Clients : Signs(t) /\ x = NewTx(t) /\ NewTx(t) \in Tx
<1>1. /\ local \in Nat /\ chainId \in Nat /\ deployment \in Nat /\ chainId <= deployment
  BY DEF SdkTyped, NodeTyped, NumbersKnown
<1>2. ASSUME NEW t \in Clients, TaskMoves(t)
      PROVE  /\ local <= local' /\ chainId <= chainId' /\ chainId' <= deployment'
             /\ \A x : InFlight(x)' =>
                  InFlight(x) \/ \E u \in Clients : Signs(u) /\ x = NewTx(u) /\ NewTx(u) \in Tx
  <2>1. \A u \in Clients \ {t} : Same(u)
    BY <1>2, OthersSame DEF SdkTyped
  <2>2. call[t].seen \in Nat
    BY DEF SdkTyped, CallsTyped, CallTyped
  <2>3. local <= local' /\ chainId' = chainId /\ deployment' = deployment
    <3>1. CASE Corrects(t)
      <4>1. local' = call[t].seen /\ local < call[t].seen
        BY <3>1 DEF Corrects, NumbersKnown
      <4> QED
        BY <1>1, <2>2, <3>1, <4>1 DEF Corrects, NodeStays
    <3>2. CASE ~Corrects(t)
      BY <1>1, <1>2, <3>2 DEF TaskMoves, Asks, Signs, Submits, Rejects, Refuses, Reads,
         ReadsLocal, Proceeds, Waits, Loses, NodeStays
    <3> QED
      BY <3>1, <3>2
  <2>4. executed' = executed
    BY <1>2 DEF TaskMoves, Asks, Signs, Submits, Rejects, Refuses, Reads, ReadsLocal, Proceeds,
       Corrects, Waits, Loses, NodeStays
  <2>5. mempool' \subseteq mempool \cup (IF call[t].step = "submit" THEN {call[t].tx} ELSE {})
    BY <1>2 DEF TaskMoves, Asks, Signs, Submits, Rejects, Refuses, Reads, ReadsLocal, Proceeds,
       Corrects, Waits, Loses
  <2>6. \/ call'[t].step \notin HasTx
        \/ call[t].step \in HasTx /\ call'[t].tx = call[t].tx
        \/ Signs(t) /\ call'[t].tx = NewTx(t)
    <3>1. CASE Asks(t) \/ Signs(t)
      BY <3>1 DEF Asks, Signs, Turns, HasTx, NewTx, Current
    <3>2. CASE Submits(t) \/ Rejects(t) \/ Refuses(t) \/ Reads(t) \/ ReadsLocal(t)
      BY <3>2 DEF Submits, Rejects, Refuses, Reads, ReadsLocal, Proceeds, Turns, HasTx
    <3>3. CASE Corrects(t) \/ Waits(t) \/ Loses(t)
      <4>1. GoesOn(t, "ready") \/ \E r : ResultAdded(t, r)
        BY <3>3, FailsHow, EndAdds DEF Corrects, Waits, Loses, SdkTyped
      <4> QED
        BY <4>1 DEF GoesOn, ResultAdded, HasTx
    <3> QED
      BY <1>2, <3>1, <3>2, <3>3 DEF TaskMoves
  <2>7. NewTx(t) \in Tx
    BY LenProperties DEF NewTx, Tx, Current, SdkTyped, NodeTyped, CallsTyped, CallTyped
  <2>8. ASSUME NEW x, InFlight(x)'
        PROVE  InFlight(x) \/ \E u \in Clients : Signs(u) /\ x = NewTx(u) /\ NewTx(u) \in Tx
    <3>1. CASE x \in mempool' \cup executed'
      BY <2>4, <2>5, <3>1 DEF InFlight, HasTx
    <3>2. CASE \E u \in Clients : call'[u].step \in HasTx /\ x = call'[u].tx
      <4>1. PICK u \in Clients : call'[u].step \in HasTx /\ x = call'[u].tx
        BY <3>2
      <4>2. CASE u = t
        BY <2>6, <2>7, <4>1, <4>2 DEF InFlight
      <4>3. CASE u # t
        BY <2>1, <4>1, <4>3 DEF InFlight, Same
      <4> QED
        BY <4>2, <4>3
    <3> QED
      BY <2>8, <3>1, <3>2 DEF InFlight
  <2> QED
    BY <1>1, <2>3, <2>8
<1>3. CASE Executes \/ Drops \/ Redeploys \/ Updates
  <2>1. local' = local /\ chainId <= chainId' /\ chainId' <= deployment' /\ call' = call
    BY <1>1, <1>3 DEF Executes, Drops, Redeploys, Updates, CallsStay, NodeStays
  <2>2. mempool' \cup executed' \subseteq mempool \cup executed
    BY <1>3 DEF Executes, Drops, Redeploys, Updates, NodeStays
  <2>3. \A x : InFlight(x)' => InFlight(x)
    BY <2>1, <2>2 DEF InFlight
  <2> QED
    BY <1>1, <2>1, <2>3
<1> QED
  BY <1>2, <1>3, SdkMoves

(* Numbers that were signed with are not above the client's, and those     *)
(* executed are below the node's.                                          *)
LEMMA NumbersStayKnown ==
  ASSUME SdkTyped, SdkTyped', OneTask, NumbersKnown, [Sdk!Next]_(Sdk!vars)
  PROVE  NumbersKnown'
<1>1. /\ local \in Nat /\ chainId \in Nat /\ deployment \in Nat /\ sequence \in Nat
      /\ local' \in Nat /\ chainId' \in Nat
      /\ \A x \in executed : x \in Tx /\ x.chain \in Nat /\ x.number \in Nat /\ x.chain <= chainId
  BY DEF SdkTyped, NodeTyped, Tx, NumbersKnown, InFlight
<1>2. ASSUME NEW x, InFlight(x)'
      PROVE  x \in Tx /\ x.number <= local' /\ x.chain <= chainId'
  <2>1. InFlight(x) \/ \E t \in Clients : Signs(t) /\ x = NewTx(t) /\ NewTx(t) \in Tx
    BY <1>2, FlightStep
  <2>2. CASE InFlight(x)
    <3>1. x \in Tx /\ x.number <= local /\ x.chain <= chainId
      BY <2>2 DEF NumbersKnown
    <3>2. x.number \in Nat /\ x.chain \in Nat
      BY <3>1 DEF Tx
    <3> QED
      BY <1>1, <3>1, <3>2, FlightStep
  <2>3. CASE \E t \in Clients : Signs(t) /\ x = NewTx(t) /\ NewTx(t) \in Tx
    <3>1. x \in Tx /\ x.number = local /\ x.chain = chainId
      BY <2>3 DEF NewTx
    <3> QED
      BY <1>1, <3>1, FlightStep
  <2> QED
    BY <2>1, <2>2, <2>3
<1>3. /\ \A x \in mempool' : x.chain = deployment'
      /\ \A x \in executed' : x.chain = deployment' => x.number < sequence'
  <2>1. ASSUME NEW t \in Clients, TaskMoves(t)
        PROVE  /\ \A x \in mempool' : x.chain = deployment'
               /\ \A x \in executed' : x.chain = deployment' => x.number < sequence'
    <3>1. UNCHANGED <<executed, deployment, sequence>>
      BY <2>1 DEF TaskMoves, Asks, Signs, Submits, Rejects, Refuses, Reads, ReadsLocal, Proceeds,
         Corrects, Waits, Loses, NodeStays
    <3>2. mempool' = mempool \/ /\ mempool' = mempool \cup {call[t].tx}
                                /\ call[t].tx.chain = deployment
      BY <2>1 DEF TaskMoves, Asks, Signs, Submits, Rejects, Refuses, Reads, ReadsLocal, Proceeds,
         Corrects, Waits, Loses, Sdk!Admissible
    <3> QED
      BY <3>1, <3>2 DEF NumbersKnown
  <2>2. CASE Executes
    BY <1>1, <2>2 DEF Executes, NumbersKnown
  <2>3. CASE Drops \/ Updates
    BY <2>3 DEF Drops, Updates, NodeStays, NumbersKnown
  <2>4. CASE Redeploys
    <3>1. \A x \in executed : x.chain # deployment + 1
      BY <1>1 DEF NumbersKnown
    <3> QED
      BY <2>4, <3>1 DEF Redeploys
  <2> QED
    BY <2>1, <2>2, <2>3, <2>4, SdkMoves
<1>4. ASSUME NEW u \in Clients, call'[u].step = "set"
      PROVE  local' < call'[u].seen
  <2>1. CASE Executes \/ Drops \/ Redeploys \/ Updates
    BY <1>4, <2>1 DEF Executes, Drops, Redeploys, Updates, CallsStay, NumbersKnown
  <2>2. CASE \E t \in Clients : TaskMoves(t)
    <3>1. TaskMoves(u)
      BY <2>2 DEF OneTask
    <3>2. ReadsLocal(u)
      <4>1. CASE Corrects(u) \/ Waits(u) \/ Loses(u)
        <5>1. GoesOn(u, "ready") \/ \E r : ResultAdded(u, r)
          BY <4>1, FailsHow, EndAdds DEF Corrects, Waits, Loses, SdkTyped
        <5> QED
          BY <1>4, <5>1 DEF GoesOn, ResultAdded
      <4>2. CASE Asks(u) \/ Signs(u) \/ Submits(u) \/ Rejects(u) \/ Refuses(u) \/ Reads(u)
        BY <1>4, <4>2 DEF Asks, Signs, Submits, Rejects, Refuses, Reads, Proceeds, Turns
      <4> QED
        BY <3>1, <4>1, <4>2 DEF TaskMoves
    <3>3. call'[u].seen = Sdk!Corrected(call[u].seen) /\ local' = local /\ call[u].seen \in Nat
      BY <3>2 DEF ReadsLocal, Proceeds, Turns, SdkTyped, CallsTyped, CallTyped
    <3> QED
      BY <1>1, <3>3 DEF Sdk!Corrected, Sdk!MaxOf
  <2> QED
    BY <2>1, <2>2, SdkMoves
<1> QED
  BY <1>2, <1>3, <1>4, FlightStep DEF NumbersKnown

(* A later call of a task has no lower number, of no earlier chain.        *)
LEMMA NumbersStillGrow ==
  ASSUME SdkTyped, CallsKnown, OneTask, NumbersKnown, NumbersGrow, [Sdk!Next]_(Sdk!vars)
  PROVE  NumbersGrow'
<1> SUFFICES ASSUME NEW x, NEW y, InFlight(x)', InFlight(y)', x.task = y.task, x.call < y.call
             PROVE  x.number <= y.number /\ x.chain <= y.chain
  BY DEF NumbersGrow
<1>1. /\ InFlight(x) \/ \E t \in Clients : Signs(t) /\ x = NewTx(t) /\ NewTx(t) \in Tx
      /\ InFlight(y) \/ \E t \in Clients : Signs(t) /\ y = NewTx(t) /\ NewTx(t) \in Tx
  BY FlightStep
<1>2. \A z : InFlight(z) => /\ z \in Tx /\ z.task \in Clients /\ z.call \in Nat
                            /\ z.number <= local /\ z.chain <= chainId
                            /\ z.call <= Current(z.task)
  <2>1. \A t \in Clients : Current(t) \in Nat
    BY LenProperties DEF Current, SdkTyped, CallsTyped
  <2>2. \A z \in Tx : z.task \in Clients /\ z.call \in Nat
    BY DEF Tx
  <2>3. \A z : InFlight(z) => z \in Tx /\ z.number <= local /\ z.chain <= chainId
    BY DEF NumbersKnown
  <2>4. \A z : InFlight(z) => z.call <= Current(z.task)
    BY <2>1, <2>2, <2>3 DEF InFlight, CallsKnown
  <2> QED
    BY <2>2, <2>3, <2>4
<1>3. CASE InFlight(x) /\ InFlight(y)
  BY <1>3 DEF NumbersGrow
<1>4. CASE InFlight(x) /\ \E t \in Clients : Signs(t) /\ y = NewTx(t) /\ NewTx(t) \in Tx
  BY <1>2, <1>4 DEF NewTx
<1>5. CASE \E t \in Clients : Signs(t) /\ x = NewTx(t) /\ NewTx(t) \in Tx
  <2>1. PICK t \in Clients : Signs(t) /\ x = NewTx(t) /\ NewTx(t) \in Tx
    BY <1>5
  <2>2. x.task = t /\ x.call = Current(t) /\ Current(t) \in Nat
    <3>1. Current(t) \in Nat
      BY LenProperties DEF Current, SdkTyped, CallsTyped
    <3>2. NewTx(t).task = t /\ NewTx(t).call = Current(t)
      BY DEF NewTx
    <3> QED
      BY <2>1, <3>1, <3>2
  <2>3. ASSUME InFlight(y)
        PROVE  FALSE
    <3>1. y.call <= Current(t) /\ y.call \in Nat
      BY <1>2, <2>2, <2>3
    <3> QED
      BY <2>2, <3>1
  <2>4. PICK u \in Clients : y = NewTx(u)
    BY <1>1, <2>3
  <2>5. u = t /\ y.call = Current(u)
    BY <2>2, <2>4 DEF NewTx
  <2> QED
    BY <2>2, <2>5
<1> QED
  BY <1>1, <1>3, <1>4, <1>5

(* Of the transactions of one task, no later call is executed before an    *)
(* earlier one, as long as nothing is lost, since a call returns once none *)
(* of its transactions is pending; and if the task is alone, whatever is   *)
(* lost and however often the node is deployed: its number is no lower,    *)
(* and the node executes by number.                                        *)
THEOREM CallsAlwaysInOrder == Sdk!Spec => Sdk!CallsInOrder
<1>1. Sdk!Init => OrderInv
  BY InitSdkTyped, InitResultInv
  DEF Sdk!Init, Sdk!Idle, HasTx, OrderInv, ResultInv, NumbersKnown, NumbersGrow, InFlight
<1>2. OrderInv /\ [Sdk!Next]_(Sdk!vars) => OrderInv'
  <2>1. OneTask' = OneTask
    BY DEF OneTask
  <2> QED
    BY <2>1, NextSdkTyped, CallsStayKnown, PendingStayAwaited, NumbersStayKnown, NumbersStillGrow
    DEF OrderInv
<1>3. ASSUME OrderInv, [Sdk!Next]_(Sdk!vars), NEW tx \in executed', NEW earlier \in executed',
             tx \notin executed, earlier.task = tx.task, lost' = 0 \/ Clients = {tx.task}
      PROVE  earlier.call <= tx.call
  <2>0. /\ SdkTyped /\ CallsKnown /\ PendingAwaited
        /\ Clients = {tx.task} => NumbersKnown /\ NumbersGrow
        /\ sequence \in Nat /\ deployment \in Nat /\ chainId \in Nat
    BY <1>3 DEF OrderInv, OneTask, SdkTyped, NodeTyped
  <2>1. executed' # executed
    BY <1>3
  <2>2. Executes
    <3>1. ASSUME NEW t \in Clients, TaskMoves(t)
          PROVE  executed' = executed
      BY <3>1 DEF TaskMoves, Asks, Signs, Submits, Rejects, Refuses, Reads, ReadsLocal, Proceeds,
         Corrects, Waits, Loses, NodeStays
    <3>2. Drops \/ Redeploys \/ Updates => executed' = executed
      BY DEF Drops, Redeploys, Updates, NodeStays
    <3> QED
      BY <2>0, <1>3, <2>1, <3>1, <3>2, SdkMoves
  <2>3. tx \in mempool /\ tx.number = sequence /\ (earlier \in executed \/ earlier = tx)
    BY <1>3, <2>2 DEF Executes
  <2>4. tx \in Tx /\ earlier \in Tx
    BY <2>0, <2>3 DEF SdkTyped, NodeTyped
  <2>5. /\ tx.call \in Nat /\ earlier.call \in Nat /\ tx.number \in Nat /\ earlier.number \in Nat
        /\ tx.chain \in Nat /\ earlier.chain \in Nat
    BY <2>4 DEF Tx
  <2>6. CASE lost' = 0
    <3>1. lost = 0
      BY <1>3, <2>0, <2>6, QuietStep
    <3>2. Awaited(tx) /\ tx.task \in Clients
      BY <2>0, <2>3, <2>4, <3>1 DEF PendingAwaited, Tx
    <3>3. tx.call = Current(tx.task) /\ Current(tx.task) \in Nat
      BY <2>0, <3>2, LenProperties DEF Awaited, CallsKnown, HasTx, Current, SdkTyped, CallsTyped
    <3>4. earlier.call \in 1..Current(tx.task)
      BY <1>3, <2>0, <2>3 DEF CallsKnown
    <3> QED
      BY <3>3, <3>4
  <2>7. CASE Clients = {tx.task} /\ earlier \in executed /\ tx.call < earlier.call
    <3>1. InFlight(tx) /\ InFlight(earlier)
      BY <2>3, <2>7 DEF InFlight
    <3>2. tx.number <= earlier.number /\ tx.chain <= earlier.chain
      BY <1>3, <2>0, <2>7, <3>1 DEF NumbersGrow
    <3>3. tx.chain = deployment /\ earlier.chain <= chainId /\ chainId <= deployment
      BY <2>0, <2>3, <2>7, <3>1 DEF NumbersKnown
    <3>4. earlier.chain = deployment
      BY <2>0, <2>5, <3>2, <3>3
    <3>5. earlier.number < sequence
      BY <2>0, <2>7, <3>4 DEF NumbersKnown
    <3> QED
      BY <2>0, <2>3, <2>5, <3>2, <3>5
  <2> QED
    BY <1>3, <2>3, <2>5, <2>6, <2>7
<1>4. OrderInv /\ [Sdk!Next]_(Sdk!vars) =>
        [\A tx, earlier \in executed' :
           /\ tx \notin executed /\ earlier.task = tx.task
           /\ lost' = 0 \/ Clients = {tx.task}
           => earlier.call <= tx.call]_(Sdk!vars)
  BY <1>3
<1> QED
  BY <1>1, <1>2, <1>4, PTL DEF Sdk!Spec, Sdk!CallsInOrder
=============================================================================
