------------------------- MODULE MarketAccountProofs -------------------------
(***************************************************************************)
(* What the operations on a market account preserve: its type, the stack   *)
(* of inactive access keys, and every active order they are not about.     *)
(***************************************************************************)
EXTENDS MarketAccount, CollectionProofs

(* An account in good order.                                               *)
IsAccount(m) ==
  m \in Accounts /\ \A side \in Sides : InactiveKeysStacked(m, side)

(* Amounts are integers.                                                   *)
LEMMA UnitsType ==
  ASSUME NEW asset, NEW size \in Int, NEW price \in Int
  PROVE  Units(asset, size, price) \in Int
<1>1. size * LotSize \in Int
  BY UnitsAssumption
<1>2. size * price * TickSize \in Int
  BY UnitsAssumption
<1> QED
  BY <1>1, <1>2 DEF Units

(* The parts of an account.                                                *)
LEMMA AccountParts ==
  ASSUME NEW m \in Accounts, NEW side \in Sides
  PROVE  /\ m.orders \in [Sides -> Seq(Orders)]
         /\ m.orders[side] \in Seq(Orders)
         /\ Len(m.orders[side]) \in Nat
         /\ DOMAIN m.orders[side] = 1..Len(m.orders[side])
         /\ \A k \in DOMAIN m.orders[side] :
              /\ m.orders[side][k] \in Orders
              /\ m.orders[side][k].id \in MarketOrderIds
              /\ m.orders[side][k].size \in Int
         /\ m.top \in [Sides -> Nat]
         /\ m.top[side] \in Nat
<1>1. m.orders \in [Sides -> Seq(Orders)] /\ m.top \in [Sides -> Nat]
  BY DEF Accounts
<1>2. m.orders[side] \in Seq(Orders) /\ m.top[side] \in Nat
  BY <1>1
<1> DEFINE o == m.orders[side]
<1>3. o \in Seq(Orders)
  BY <1>2
<1> HIDE DEF o
<1>4. /\ Len(o) \in Nat /\ DOMAIN o = 1..Len(o)
      /\ \A k \in 1..Len(o) : o[k] \in Orders
  BY <1>3, LenProperties, ElementOfSeq
<1>5. \A k \in 1..Len(o) : o[k].id \in MarketOrderIds /\ o[k].size \in Int
  BY <1>4 DEF Orders
<1> QED
  BY <1>1, <1>2, <1>4, <1>5 DEF o

(* Active keys and stack depend on nothing but a side's orders and top.    *)
LEMMA SameSide ==
  ASSUME NEW m, NEW r, NEW side,
         r.orders[side] = m.orders[side], r.top[side] = m.top[side]
  PROVE  /\ ActiveKeys(r, side) = ActiveKeys(m, side)
         /\ InactiveKeys(r, side) = InactiveKeys(m, side)
         /\ InactiveKeysStacked(m, side) => InactiveKeysStacked(r, side)
<1>1. ActiveKeys(r, side) = ActiveKeys(m, side)
  BY DEF ActiveKeys
<1>2. InactiveKeys(r, side) = InactiveKeys(m, side)
  BY <1>1 DEF InactiveKeys
<1> QED
  BY <1>1, <1>2 DEF InactiveKeysStacked

(* The inactive keys are finitely many.                                    *)
LEMMA InactiveKeysFinite ==
  ASSUME NEW m \in Accounts, NEW side \in Sides
  PROVE  /\ IsFiniteSet(InactiveKeys(m, side))
         /\ Cardinality(InactiveKeys(m, side)) \in Nat
<1>1. Len(m.orders[side]) \in Nat /\ DOMAIN m.orders[side] = 1..Len(m.orders[side])
  BY AccountParts
<1>2. IsFiniteSet(DOMAIN m.orders[side])
  BY <1>1, FS_Interval
<1>3. InactiveKeys(m, side) \in SUBSET (DOMAIN m.orders[side])
  BY DEF InactiveKeys
<1> QED
  BY <1>2, <1>3, FS_Subset, FS_CardinalityType

(* An active key becomes inactive and goes on top of the stack.            *)
Pushed(m, side, key) ==
  [m.orders[side] EXCEPT ![key] = [id |-> NilOrderId, size |-> m.top[side]]]

(* Deactivating a key puts it in front of the chain of inactive keys.      *)
LEMMA Push ==
  ASSUME NEW m \in Accounts, NEW side \in Sides, InactiveKeysStacked(m, side),
         NEW key \in ActiveKeys(m, side), NEW r,
         r.orders[side] = Pushed(m, side, key), r.top[side] = key
  PROVE  /\ r.orders[side] \in Seq(Orders)
         /\ r.top[side] \in Nat
         /\ ActiveKeys(r, side) = ActiveKeys(m, side) \ {key}
         /\ \A k \in ActiveKeys(r, side) :
              r.orders[side][k] = m.orders[side][k]
         /\ InactiveKeysStacked(r, side)
<1> DEFINE o == m.orders[side]
           p == r.orders[side]
           t == m.top[side]
           new == [id |-> NilOrderId, size |-> t]
           K == InactiveKeys(m, side)
           L == InactiveKeys(r, side)
           n == Cardinality(K)
<1>1. /\ o \in Seq(Orders) /\ DOMAIN o = 1..Len(o) /\ Len(o) \in Nat
      /\ t \in Nat /\ key \in DOMAIN o
  BY AccountParts DEF ActiveKeys
<1>2. new \in Orders
  BY <1>1 DEF Orders, NilOrderId, MarketOrderId, MarketOrderIds, NIL
<1>3. p = [o EXCEPT ![key] = new]
  BY DEF Pushed
<1> HIDE DEF o, p, new, t
<1>4. /\ p \in Seq(Orders) /\ DOMAIN p = DOMAIN o
      /\ p[key] = new
      /\ \A k \in DOMAIN o : k # key => p[k] = o[k]
  BY <1>1, <1>2, <1>3, ExceptSeq
<1>5. new.id = NilOrderId /\ new.size = t
  BY DEF new
<1>6. /\ ActiveKeys(r, side) = ActiveKeys(m, side) \ {key}
      /\ L = K \cup {key}
      /\ key \notin K
      /\ K \subseteq DOMAIN o
  BY <1>1, <1>4, <1>5 DEF ActiveKeys, InactiveKeys, o, p
<1>7. IsFiniteSet(K) /\ n \in Nat
  BY InactiveKeysFinite
<1>8. Cardinality(L) = n + 1
  BY <1>6, <1>7, FS_AddElement, Zenon
<1>9. PICK chain \in [1..n -> K] :
        /\ IsInjective(chain)
        /\ t = IF 1 > n THEN NIL ELSE chain[1]
        /\ \A i \in 1..n : o[chain[i]].size = IF i + 1 > n THEN NIL ELSE chain[i + 1]
  BY Zenon DEF InactiveKeysStacked, o, t
<1> DEFINE c == [i \in 1..n + 1 |-> IF i = 1 THEN key ELSE chain[i - 1]]
<1> HIDE DEF K, L, n
<1>10. c \in [1..n + 1 -> L]
  BY <1>6, <1>7
<1>11. IsInjective(c)
  <2> SUFFICES ASSUME NEW i \in 1..n + 1, NEW j \in 1..n + 1, c[i] = c[j]
               PROVE  i = j
    BY DEF IsInjective
  <2>1. \A k \in 1..n + 1 : k # 1 => k - 1 \in 1..n /\ c[k] = chain[k - 1]
    BY <1>7
  <2>2. c[1] = key
    BY <1>7
  <2>3. \A k \in 1..n : chain[k] \in K
    OBVIOUS
  <2> HIDE DEF c
  <2>4. CASE i # 1 /\ j # 1
    <3>1. i - 1 = j - 1
      BY <1>9, <2>1, <2>4 DEF IsInjective
    <3> QED
      BY <3>1
  <2>5. CASE i = 1 /\ j # 1
    BY <1>6, <2>1, <2>2, <2>3, <2>5
  <2>6. CASE i # 1 /\ j = 1
    BY <1>6, <2>1, <2>2, <2>3, <2>6
  <2> QED
    BY <2>4, <2>5, <2>6
<1>12. r.top[side] = c[1] /\ ~(1 > n + 1)
  BY <1>7
<1>13. \A i \in 1..n + 1 :
         p[c[i]].size = IF i + 1 > n + 1 THEN NIL ELSE c[i + 1]
  <2> SUFFICES ASSUME NEW i \in 1..n + 1
               PROVE  p[c[i]].size = IF i + 1 > n + 1 THEN NIL ELSE c[i + 1]
    BY Zenon
  <2>1. CASE i = 1
    <3>1. p[c[i]].size = t
      BY <1>4, <1>5, <2>1
    <3>2. 1 > n <=> i + 1 > n + 1
      BY <1>7, <2>1
    <3>3. n >= 1 => c[i + 1] = chain[1]
      BY <1>7, <2>1
    <3> QED
      BY <1>7, <1>9, <3>1, <3>2, <3>3
  <2>2. CASE i # 1
    <3>1. i - 1 \in 1..n /\ c[i] = chain[i - 1]
      BY <1>7, <2>2
    <3>2. chain[i - 1] \in K
      BY <3>1
    <3>3. p[c[i]] = o[chain[i - 1]]
      BY <1>4, <1>6, <3>1, <3>2
    <3>4. o[chain[i - 1]].size = IF i - 1 + 1 > n THEN NIL ELSE chain[i - 1 + 1]
      BY <1>9, <3>1
    <3>5. i + 1 \in 1..n + 1 => c[i + 1] = chain[i]
      BY <1>7, <2>2
    <3> QED
      BY <1>7, <2>2, <3>3, <3>4, <3>5
  <2> QED
    BY <2>1, <2>2
<1> HIDE DEF c
<1>14. InactiveKeysStacked(r, side)
  <2> DEFINE l == Cardinality(L)
  <2>1. l = n + 1
    BY <1>8
  <2> HIDE DEF l
  <2>2. /\ c \in [1..l -> L]
        /\ r.top[side] = IF 1 > l THEN NIL ELSE c[1]
        /\ \A i \in 1..l : p[c[i]].size = IF i + 1 > l THEN NIL ELSE c[i + 1]
    BY <1>10, <1>12, <1>13, <2>1
  <2> QED
    BY <1>11, <2>2, Zenon DEF InactiveKeysStacked, L, l, p
<1>15. \A k \in ActiveKeys(r, side) : p[k] = o[k]
  BY <1>4, <1>6 DEF ActiveKeys, o
<1> QED
  BY <1>1, <1>4, <1>6, <1>14, <1>15 DEF p, o

(* A new order takes the key on top of the stack, or else a key that is    *)
(* added to the table; the key was not in use.                             *)
Popped(m, side, order) ==
  IF m.top[side] = NIL THEN Append(m.orders[side], order)
                       ELSE [m.orders[side] EXCEPT ![m.top[side]] = order]

NextTop(m, side) ==
  IF m.top[side] = NIL THEN NIL ELSE m.orders[side][m.top[side]].size

(* The key of a new order is the first of that chain, or a new one.        *)
LEMMA Pop ==
  ASSUME NEW m \in Accounts, NEW side \in Sides, InactiveKeysStacked(m, side),
         NEW order \in Orders, order.id # NilOrderId, NEW r,
         r.orders[side] = Popped(m, side, order),
         r.top[side] = NextTop(m, side)
  PROVE  LET key == NextOrderAccessKey(m, side)
         IN /\ key \in Nat
            /\ key \notin ActiveKeys(m, side)
            /\ r.orders[side] \in Seq(Orders)
            /\ r.top[side] \in Nat
            /\ ActiveKeys(r, side) = ActiveKeys(m, side) \cup {key}
            /\ r.orders[side][key] = order
            /\ \A k \in ActiveKeys(m, side) :
                 r.orders[side][k] = m.orders[side][k]
            /\ InactiveKeysStacked(r, side)
<1> DEFINE key == NextOrderAccessKey(m, side)
           o == m.orders[side]
           p == r.orders[side]
           t == m.top[side]
           K == InactiveKeys(m, side)
           L == InactiveKeys(r, side)
           n == Cardinality(K)
<1>1. /\ o \in Seq(Orders) /\ DOMAIN o = 1..Len(o) /\ Len(o) \in Nat
      /\ t \in Nat
  BY AccountParts
<1>2. K \subseteq DOMAIN o /\ \A k \in DOMAIN o : k \in K <=> o[k].id = NilOrderId
  BY DEF InactiveKeys, ActiveKeys
<1>3. IsFiniteSet(K) /\ n \in Nat
  BY InactiveKeysFinite
<1>4. PICK chain \in [1..n -> K] :
        /\ IsInjective(chain)
        /\ t = IF 1 > n THEN NIL ELSE chain[1]
        /\ \A i \in 1..n : o[chain[i]].size = IF i + 1 > n THEN NIL ELSE chain[i + 1]
  BY Zenon DEF InactiveKeysStacked
<1>5. CASE t = NIL
  <2>1. n = 0
    <3> SUFFICES ASSUME n # 0 PROVE FALSE
      OBVIOUS
    <3>1. 1 \in 1..n /\ ~(1 > n)
      BY <1>3
    <3>2. chain[1] \in K
      BY <3>1
    <3> QED
      BY <1>1, <1>2, <1>4, <1>5, <3>1, <3>2 DEF NIL
  <2>2. K = {}
    BY <1>3, <2>1, FS_EmptySet
  <2> DEFINE l == Len(o) + 1
  <2>3. key = l
    BY <1>5 DEF NextOrderAccessKey
  <2>4. p = Append(o, order) /\ r.top[side] = NIL
    BY <1>5 DEF Popped, NextTop
  <2> HIDE DEF o, p, t, K, n, key
  <2>5. /\ p \in Seq(Orders) /\ Len(p) = l
        /\ \A k \in 1..Len(o) : p[k] = o[k]
        /\ p[l] = order
    BY <1>1, <2>4, AppendProperties
  <2>6. DOMAIN p = 1..l
    BY <2>5, LenProperties
  <2>7. \A k \in DOMAIN p : p[k].id # NilOrderId
    BY <1>1, <1>2, <2>2, <2>5, <2>6
  <2>8. L = {}
    BY <2>7 DEF InactiveKeys, ActiveKeys, p
  <2>9. ActiveKeys(m, side) = 1..Len(o) /\ ActiveKeys(r, side) = 1..l
    <3>1. ActiveKeys(m, side) = DOMAIN o
      BY <2>2 DEF K, o, InactiveKeys, ActiveKeys
    <3>2. ActiveKeys(r, side) = DOMAIN p
      BY <2>7, Zenon DEF p, ActiveKeys
    <3> QED
      BY <1>1, <2>6, <3>1, <3>2
  <2>10. 1..l = 1..Len(o) \cup {l} /\ l \notin 1..Len(o) /\ l \in Nat
    BY <1>1
  <2>11. InactiveKeysStacked(r, side)
    <3> DEFINE N == Cardinality(L)
    <3>1. N = 0 /\ L = K
      BY <2>2, <2>8, FS_EmptySet
    <3> HIDE DEF N, L
    <3>2. /\ chain \in [1..N -> L]
          /\ r.top[side] = IF 1 > N THEN NIL ELSE chain[1]
          /\ \A i \in 1..N :
               p[chain[i]].size = IF i + 1 > N THEN NIL ELSE chain[i + 1]
      BY <2>1, <2>4, <3>1
    <3> QED
      BY <1>4, <3>2, Zenon DEF InactiveKeysStacked, L, N, p
  <2> QED
    BY <2>3, <2>4, <2>5, <2>9, <2>10, <2>11 DEF p, o, key, NIL
<1>6. CASE t # NIL
  <2>1. n \in Nat \ {0} /\ t = chain[1]
    BY <1>3, <1>4, <1>6
  <2>2. t \in K /\ t \in DOMAIN o
    BY <1>2, <2>1
  <2>3. key = t
    BY <1>6 DEF NextOrderAccessKey
  <2>4. p = [o EXCEPT ![t] = order] /\ r.top[side] = o[t].size
    BY <1>6 DEF Popped, NextTop
  <2> HIDE DEF o, p, t, key, K, n
  <2>5. /\ p \in Seq(Orders) /\ DOMAIN p = DOMAIN o
        /\ p[t] = order
        /\ \A k \in DOMAIN o : k # t => p[k] = o[k]
    BY <1>1, <2>2, <2>4, ExceptSeq
  <2>6. /\ ActiveKeys(r, side) = ActiveKeys(m, side) \cup {t}
        /\ L = K \ {t}
        /\ t \notin ActiveKeys(m, side)
        /\ \A k \in ActiveKeys(m, side) : p[k] = o[k]
    BY <1>2, <2>2, <2>5 DEF ActiveKeys, InactiveKeys, o, p
  <2> DEFINE N == Cardinality(L)
  <2>7. N = n - 1
    BY <1>3, <2>2, <2>6, FS_RemoveElement, Zenon DEF n
  <2> DEFINE c == [i \in 1..n - 1 |-> chain[i + 1]]
  <2>8. \A i \in 1..n - 1 : /\ i + 1 \in 1..n /\ c[i] = chain[i + 1]
                            /\ c[i] \in K /\ c[i] # t
    <3> SUFFICES ASSUME NEW i \in 1..n - 1
                 PROVE  /\ i + 1 \in 1..n /\ c[i] = chain[i + 1]
                        /\ c[i] \in K /\ c[i] # t
      OBVIOUS
    <3>1. i + 1 \in 1..n /\ 1 \in 1..n /\ i + 1 # 1 /\ c[i] = chain[i + 1]
      BY <1>3
    <3>2. chain[i + 1] # chain[1]
      BY <1>4, <3>1 DEF IsInjective
    <3> QED
      BY <2>1, <3>1, <3>2
  <2>9. c \in [1..n - 1 -> L]
    BY <2>6, <2>8
  <2>10. IsInjective(c)
    <3> SUFFICES ASSUME NEW i \in 1..n - 1, NEW j \in 1..n - 1, c[i] = c[j]
                 PROVE  i = j
      BY DEF IsInjective
    <3>1. i + 1 = j + 1
      BY <1>4, <2>8 DEF IsInjective
    <3> QED
      BY <3>1
  <2>11. r.top[side] = IF 1 > n - 1 THEN NIL ELSE c[1]
    <3>1. 1 \in 1..n
      BY <2>1
    <3>2. o[t].size = IF 1 + 1 > n THEN NIL ELSE chain[1 + 1]
      BY <1>4, <2>1, <3>1
    <3> QED
      BY <2>1, <2>4, <2>8, <3>2
  <2>12. \A i \in 1..n - 1 :
           p[c[i]].size = IF i + 1 > n - 1 THEN NIL ELSE c[i + 1]
    <3> SUFFICES ASSUME NEW i \in 1..n - 1
                 PROVE  p[c[i]].size = IF i + 1 > n - 1 THEN NIL ELSE c[i + 1]
      OBVIOUS
    <3>1. p[c[i]] = o[chain[i + 1]]
      BY <1>2, <2>5, <2>8
    <3>2. o[chain[i + 1]].size = IF (i + 1) + 1 > n THEN NIL ELSE chain[(i + 1) + 1]
      BY <1>4, <2>8
    <3>3. i + 1 \in 1..n - 1 => c[i + 1] = chain[(i + 1) + 1]
      BY <2>8
    <3> QED
      BY <2>1, <3>1, <3>2, <3>3
  <2>13. r.top[side] \in Nat
    <3>1. 1 \in 1..n - 1 => c[1] \in Nat
      BY <1>1, <1>2, <2>8
    <3> QED
      BY <2>1, <2>11, <3>1 DEF NIL
  <2> HIDE DEF c, N, L
  <2>14. InactiveKeysStacked(r, side)
    <3>1. /\ c \in [1..N -> L]
          /\ r.top[side] = IF 1 > N THEN NIL ELSE c[1]
          /\ \A i \in 1..N : p[c[i]].size = IF i + 1 > N THEN NIL ELSE c[i + 1]
      BY <2>7, <2>9, <2>11, <2>12
    <3> QED
      BY <2>10, <3>1, Zenon DEF InactiveKeysStacked, L, N, p
  <2> QED
    BY <1>1, <2>2, <2>3, <2>5, <2>6, <2>13, <2>14 DEF p, o, key, t
<1> QED
  BY <1>5, <1>6

-----------------------------------------------------------------------------
(* What an operation does to the orders of an account.                     *)

SameOrders(m, r) == IsAccount(r) /\ r.orders = m.orders /\ r.top = m.top

OtherSideKept(m, r, side) ==
  \A s \in Sides : s # side => r.orders[s] = m.orders[s]

Closes(m, r, side, key) ==
  /\ IsAccount(r) /\ OtherSideKept(m, r, side)
  /\ ActiveKeys(r, side) = ActiveKeys(m, side) \ {key}
  /\ \A k \in ActiveKeys(r, side) : r.orders[side][k] = m.orders[side][k]

Opens(m, r, side, key, order) ==
  /\ IsAccount(r) /\ OtherSideKept(m, r, side)
  /\ key \in Nat /\ key \notin ActiveKeys(m, side)
  /\ ActiveKeys(r, side) = ActiveKeys(m, side) \cup {key}
  /\ r.orders[side][key] = order
  /\ \A k \in ActiveKeys(m, side) : r.orders[side][k] = m.orders[side][k]

Resizes(m, r, side, key, size) ==
  /\ IsAccount(r) /\ OtherSideKept(m, r, side)
  /\ ActiveKeys(r, side) = ActiveKeys(m, side)
  /\ r.orders[side][key].id = m.orders[side][key].id
  /\ r.orders[side][key].size = size
  /\ \A k \in ActiveKeys(m, side) :
       k # key => r.orders[side][k] = m.orders[side][k]

(* A new account has no orders and no keys.                                *)
LEMMA EmptyAccountProperties ==
  /\ IsAccount(EmptyAccount)
  /\ \A side \in Sides : ActiveKeys(EmptyAccount, side) = {}
<1> DEFINE m == EmptyAccount
<1>1. \A side \in Sides : m.orders[side] = << >> /\ m.top[side] = NIL
  BY DEF EmptyAccount
<1>2. m \in Accounts
  <2>1. << >> \in Seq(Orders) /\ NIL \in Nat
    BY EmptySeq DEF NIL
  <2> QED
    BY <2>1 DEF EmptyAccount, Accounts
<1>3. \A side \in Sides :
        ActiveKeys(m, side) = {} /\ InactiveKeys(m, side) = {}
  BY <1>1 DEF ActiveKeys, InactiveKeys
<1>4. ASSUME NEW side \in Sides PROVE InactiveKeysStacked(m, side)
  <2> DEFINE n == Cardinality(InactiveKeys(m, side))
             c == [i \in 1..n |-> 1]
  <2>1. n = 0
    BY <1>3, FS_EmptySet
  <2> HIDE DEF m
  <2>2. c \in [1..n -> InactiveKeys(m, side)] /\ IsInjective(c)
    BY <2>1 DEF IsInjective
  <2>3. m.top[side] = IF 1 > n THEN NIL ELSE c[1]
    BY <1>1, <2>1
  <2>4. \A i \in 1..n :
          m.orders[side][c[i]].size = IF i + 1 > n THEN NIL ELSE c[i + 1]
    BY <2>1
  <2> HIDE DEF c
  <2> QED
    BY <2>2, <2>3, <2>4, Zenon DEF InactiveKeysStacked
<1> QED
  BY <1>2, <1>3, <1>4 DEF IsAccount

(* An account whose orders and tops are the same has the same chains.      *)
LEMMA SameOrdersProperties ==
  ASSUME NEW m, IsAccount(m), NEW r \in Accounts,
         r.orders = m.orders, r.top = m.top
  PROVE  SameOrders(m, r)
<1>1. \A side \in Sides : InactiveKeysStacked(r, side)
  BY SameSide DEF IsAccount
<1> QED
  BY <1>1 DEF SameOrders, IsAccount

(* Collateral goes in and out without touching orders.                     *)
LEMMA DepositProperties ==
  ASSUME NEW m, IsAccount(m), NEW x \in Assets, NEW amount \in Int
  PROVE  SameOrders(m, Deposit(m, x, amount))
<1> DEFINE r == Deposit(m, x, amount)
<1>1. m \in Accounts
  BY DEF IsAccount
<1>2. /\ m.total \in [Assets -> Int] /\ m.available \in [Assets -> Int]
      /\ m.ceiling \in [Assets -> Int]
  BY <1>1 DEF Accounts
<1>3. /\ m.total[x] + amount \in Int /\ m.available[x] + amount \in Int
      /\ m.ceiling[x] + amount \in Int
  BY <1>2
<1>4. r \in Accounts /\ r.orders = m.orders /\ r.top = m.top
  BY <1>1, <1>3, Zenon DEF Deposit, Accounts
<1> QED
  BY <1>4, SameOrdersProperties

(* A withdrawal changes amounts and no orders.                             *)
LEMMA WithdrawProperties ==
  ASSUME NEW m, IsAccount(m), NEW x \in Assets, NEW amount \in Int
  PROVE  SameOrders(m, Withdraw(m, x, amount))
<1> DEFINE r == Withdraw(m, x, amount)
<1>1. m \in Accounts
  BY DEF IsAccount
<1>2. /\ m.total \in [Assets -> Int] /\ m.available \in [Assets -> Int]
      /\ m.ceiling \in [Assets -> Int]
  BY <1>1 DEF Accounts
<1>3. /\ m.total[x] - amount \in Int /\ m.available[x] - amount \in Int
      /\ m.ceiling[x] - amount \in Int
  BY <1>2
<1>4. r \in Accounts /\ r.orders = m.orders /\ r.top = m.top
  BY <1>1, <1>3, Zenon DEF Withdraw, Accounts
<1> QED
  BY <1>4, SameOrdersProperties

(* What an order gives and receives are assets.                            *)
LEMMA AssetsOfSides ==
  ASSUME NEW side \in Sides
  PROVE  InAsset(side) \in Assets /\ OutAsset(side) \in Assets
BY DEF InAsset, OutAsset, Assets, Sides

(* A record with the fields of an account, whatever its orders and tops.   *)
Balances == [Assets -> Int]
IsRecord(r) ==
  r \in [orders : {r.orders}, top : {r.top}, total : Balances,
         available : Balances, ceiling : Balances]

(* A record with typed orders and tops is an account.                      *)
LEMMA RecordProperties ==
  ASSUME NEW r, IsRecord(r),
         r.orders \in [Sides -> Seq(Orders)], r.top \in [Sides -> Nat]
  PROVE  r \in Accounts
BY DEF IsRecord, Accounts, Balances

(* An account is such a record.                                            *)
LEMMA AccountIsRecord ==
  ASSUME NEW m \in Accounts
  PROVE  /\ IsRecord(m)
         /\ m.orders \in [Sides -> Seq(Orders)] /\ m.top \in [Sides -> Nat]
BY DEF IsRecord, Accounts, Balances

(* Adding to or subtracting from one balance.                              *)
LEMMA BalancesExcept ==
  ASSUME NEW f \in Balances, NEW x \in Assets, NEW amount \in Int
  PROVE  /\ [f EXCEPT ![x] = @ + amount] \in Balances
         /\ [f EXCEPT ![x] = @ - amount] \in Balances
<1>1. f[x] + amount \in Int /\ f[x] - amount \in Int
  BY DEF Balances
<1> QED
  BY <1>1 DEF Balances

With(f, side, value) == [f EXCEPT ![side] = value]

(* An account whose orders on one side change as in lemma Push.            *)
LEMMA ClosesProperties ==
  ASSUME NEW m, IsAccount(m), NEW side \in Sides,
         NEW key \in ActiveKeys(m, side), NEW r, IsRecord(r),
         r.orders = With(m.orders, side, Pushed(m, side, key)),
         r.top = With(m.top, side, key)
  PROVE  Closes(m, r, side, key)
<1>1. /\ m \in Accounts /\ InactiveKeysStacked(m, side)
      /\ m.orders \in [Sides -> Seq(Orders)] /\ m.top \in [Sides -> Nat]
  BY AccountIsRecord DEF IsAccount
<1>2. r.orders[side] = Pushed(m, side, key) /\ r.top[side] = key
  BY <1>1 DEF With
<1>3. /\ r.orders[side] \in Seq(Orders)
      /\ r.top[side] \in Nat
      /\ ActiveKeys(r, side) = ActiveKeys(m, side) \ {key}
      /\ \A k \in ActiveKeys(r, side) :
           r.orders[side][k] = m.orders[side][k]
      /\ InactiveKeysStacked(r, side)
  BY <1>1, <1>2, Push
<1>4. \A s \in Sides : s # side => /\ r.orders[s] = m.orders[s]
                                 /\ r.top[s] = m.top[s]
  BY <1>1 DEF With
<1>5. r.orders \in [Sides -> Seq(Orders)] /\ r.top \in [Sides -> Nat]
  BY <1>1, <1>2, <1>3 DEF With
<1>6. r \in Accounts
  BY <1>5, RecordProperties
<1>7. \A s \in Sides : InactiveKeysStacked(r, s)
  BY <1>3, <1>4, SameSide, Zenon DEF IsAccount
<1> QED
  BY <1>3, <1>4, <1>6, <1>7 DEF Closes, OtherSideKept, IsAccount

(* The fields that Deactivate changes.                                     *)
LEMMA DeactivateFields ==
  ASSUME NEW m \in Accounts, NEW side \in Sides, NEW key
  PROVE  LET r == Deactivate(m, side, key)
         IN /\ IsRecord(r)
            /\ r.orders = With(m.orders, side, Pushed(m, side, key))
            /\ r.top = With(m.top, side, key)
BY Zenon DEF Deactivate, Accounts, IsRecord, Balances, With, Pushed

(* cancel_order_internal closes one order.                                 *)
LEMMA CancelOrderProperties ==
  ASSUME NEW m, IsAccount(m), NEW side \in Sides, NEW price \in Int,
         NEW key \in ActiveKeys(m, side)
  PROVE  Closes(m, CancelOrder(m, side, price, key), side, key)
<1> DEFINE r == CancelOrder(m, side, price, key)
           d == Deactivate(m, side, key)
           in == InAsset(side)
           out == OutAsset(side)
           size == m.orders[side][key].size
           a == Units(out, size, price)
           b == Units(in, size, price)
           avail == [d.available EXCEPT ![out] = @ + a]
           ceil == [d.ceiling EXCEPT ![in] = @ - b]
<1>1. m \in Accounts
  BY DEF IsAccount
<1>2. size \in Int
  BY <1>1, AccountParts DEF ActiveKeys
<1>3. a \in Int /\ b \in Int
  BY <1>2, UnitsType
<1>4. in \in Assets /\ out \in Assets
  BY AssetsOfSides
<1>5. /\ IsRecord(d)
      /\ d.orders = With(m.orders, side, Pushed(m, side, key))
      /\ d.top = With(m.top, side, key)
  BY <1>1, DeactivateFields
<1>6. r = [d EXCEPT !.available[out] = @ + a, !.ceiling[in] = @ - b]
  BY DEF CancelOrder
<1> HIDE DEF r, d, in, out, size, a, b
<1>7. d.total \in Balances /\ d.available \in Balances /\ d.ceiling \in Balances
  BY <1>5 DEF IsRecord
<1>8. avail \in Balances /\ ceil \in Balances
  BY <1>3, <1>4, <1>7, BalancesExcept, Zenon
<1>9. r = [d EXCEPT !.total = d.total, !.available = avail, !.ceiling = ceil]
  BY <1>5, <1>6, Zenon DEF IsRecord
<1> HIDE DEF avail, ceil
<1>10. IsRecord(r) /\ r.orders = d.orders /\ r.top = d.top
  BY <1>5, <1>7, <1>8, <1>9, Zenon DEF IsRecord
<1> QED
  BY <1>5, <1>10, ClosesProperties DEF r

(* Placing an order puts it under the key announced, and nothing else.     *)
LEMMA PlaceOrderProperties ==
  ASSUME NEW m, IsAccount(m), NEW side \in Sides, NEW size \in Int,
         NEW price \in Int, NEW id \in MarketOrderIds, id # NilOrderId
  PROVE  Opens(m, PlaceOrder(m, side, size, price, id), side,
               NextOrderAccessKey(m, side), [id |-> id, size |-> size])
<1> DEFINE r == PlaceOrder(m, side, size, price, id)
           key == NextOrderAccessKey(m, side)
           order == [id |-> id, size |-> size]
           in == InAsset(side)
           out == OutAsset(side)
           a == Units(out, size, price)
           b == Units(in, size, price)
           avail == [m.available EXCEPT ![out] = @ - a]
           ceil == [m.ceiling EXCEPT ![in] = @ + b]
<1>1. /\ m \in Accounts /\ InactiveKeysStacked(m, side) /\ IsRecord(m)
      /\ m.orders \in [Sides -> Seq(Orders)] /\ m.top \in [Sides -> Nat]
  BY AccountIsRecord DEF IsAccount
<1>2. order \in Orders /\ order.id = id
  BY DEF Orders
<1>3. a \in Int /\ b \in Int
  BY UnitsType
<1>4. in \in Assets /\ out \in Assets
  BY AssetsOfSides
<1>5. r = [m EXCEPT !.ceiling[in] = @ + b, !.available[out] = @ - a,
                    !.top[side] = NextTop(m, side),
                    !.orders[side] = Popped(m, side, order)]
  BY DEF PlaceOrder, NextTop, Popped
<1> HIDE DEF r, key, order, in, out, a, b
<1>6. m.total \in Balances /\ m.available \in Balances /\ m.ceiling \in Balances
  BY <1>1 DEF IsRecord
<1>7. avail \in Balances /\ ceil \in Balances
  BY <1>3, <1>4, <1>6, BalancesExcept, Zenon
<1>8. r = [m EXCEPT !.ceiling = ceil, !.available = avail,
                    !.top = With(m.top, side, NextTop(m, side)),
                    !.orders = With(m.orders, side, Popped(m, side, order))]
  BY <1>1, <1>5 DEF IsRecord, With
<1> HIDE DEF avail, ceil
<1>9. /\ IsRecord(r)
      /\ r.orders = With(m.orders, side, Popped(m, side, order))
      /\ r.top = With(m.top, side, NextTop(m, side))
  BY <1>1, <1>6, <1>7, <1>8, Zenon DEF IsRecord
<1>10. /\ r.orders[side] = Popped(m, side, order)
       /\ r.top[side] = NextTop(m, side)
       /\ \A s \in Sides : s # side => /\ r.orders[s] = m.orders[s]
                                     /\ r.top[s] = m.top[s]
  BY <1>1, <1>9 DEF With
<1>11. /\ key \in Nat /\ key \notin ActiveKeys(m, side)
       /\ r.orders[side] \in Seq(Orders)
       /\ r.top[side] \in Nat
       /\ ActiveKeys(r, side) = ActiveKeys(m, side) \cup {key}
       /\ r.orders[side][key] = order
       /\ \A k \in ActiveKeys(m, side) :
            r.orders[side][k] = m.orders[side][k]
       /\ InactiveKeysStacked(r, side)
  BY <1>1, <1>2, <1>10, Pop DEF key
<1>12. r.orders \in [Sides -> Seq(Orders)] /\ r.top \in [Sides -> Nat]
  BY <1>1, <1>9, <1>10, <1>11 DEF With
<1>13. r \in Accounts
  BY <1>9, <1>12, RecordProperties
<1>14. \A s \in Sides : InactiveKeysStacked(r, s)
  BY <1>10, <1>11, SameSide DEF IsAccount
<1> QED
  BY <1>10, <1>11, <1>13, <1>14
     DEF Opens, OtherSideKept, IsAccount, r, key, order

(* An active order that changes its size, and no other, ...                *)
Resized(m, side, key, size) ==
  [m.orders[side] EXCEPT ![key] = [id |-> m.orders[side][key].id,
                                   size |-> size]]

(* An account in which one order has another size.                         *)
LEMMA ResizesProperties ==
  ASSUME NEW m, IsAccount(m), NEW side \in Sides,
         NEW key \in ActiveKeys(m, side), NEW size \in Int,
         NEW r, IsRecord(r),
         r.orders = With(m.orders, side, Resized(m, side, key, size)),
         r.top = m.top
  PROVE  Resizes(m, r, side, key, size)
<1> DEFINE o == m.orders[side]
           new == [id |-> m.orders[side][key].id, size |-> size]
           p == Resized(m, side, key, size)
<1>1. /\ m \in Accounts /\ InactiveKeysStacked(m, side)
      /\ m.orders \in [Sides -> Seq(Orders)] /\ m.top \in [Sides -> Nat]
  BY AccountIsRecord DEF IsAccount
<1>2. /\ o \in Seq(Orders) /\ DOMAIN o = 1..Len(o) /\ Len(o) \in Nat
      /\ key \in DOMAIN o /\ o[key].id # NilOrderId
      /\ o[key].id \in MarketOrderIds
  BY <1>1, AccountParts DEF ActiveKeys
<1>3. p = [o EXCEPT ![key] = new]
  BY DEF Resized
<1>4. new \in Orders /\ new.id = o[key].id /\ new.size = size
  BY <1>2 DEF Orders
<1>5. \A s \in Sides : r.orders[s] = IF s = side THEN p ELSE m.orders[s]
  BY <1>1 DEF With
<1>6. InactiveKeysStacked(m, side)
  BY <1>1
<1> HIDE DEF p, new
<1>7. p \in Seq(Orders)
  <2> HIDE DEF o
  <2> QED
    BY <1>2, <1>3, <1>4, ExceptSeq
<1>8. /\ DOMAIN p = DOMAIN o /\ p[key] = new
      /\ \A k \in DOMAIN o : k # key => p[k] = o[k]
  BY <1>2, <1>3
<1>9. r.orders \in [Sides -> Seq(Orders)]
  BY <1>1, <1>7 DEF With, p
<1>10. r \in Accounts
  BY <1>1, <1>9, RecordProperties, Zenon
<1>11. r.orders[side] = p
  BY <1>5
<1>12. /\ ActiveKeys(r, side) = ActiveKeys(m, side)
       /\ InactiveKeys(r, side) = InactiveKeys(m, side)
  BY <1>2, <1>4, <1>8, <1>11, Zenon DEF ActiveKeys, InactiveKeys
<1>13. \A k \in InactiveKeys(m, side) : p[k] = o[k]
  BY <1>8 DEF InactiveKeys, ActiveKeys
<1>14. InactiveKeysStacked(r, side)
  <2> DEFINE K == InactiveKeys(m, side)
             n == Cardinality(K)
  <2>1. PICK chain \in [1..n -> K] :
          /\ IsInjective(chain)
          /\ m.top[side] = IF 1 > n THEN NIL ELSE chain[1]
          /\ \A i \in 1..n :
               o[chain[i]].size = IF i + 1 > n THEN NIL ELSE chain[i + 1]
    BY <1>6, Zenon DEF InactiveKeysStacked
  <2> HIDE DEF o, K, n
  <2>2. \A i \in 1..n :
          p[chain[i]].size = IF i + 1 > n THEN NIL ELSE chain[i + 1]
    BY <1>13, <2>1 DEF K
  <2> QED
    BY <1>11, <1>12, <2>1, <2>2, Zenon DEF InactiveKeysStacked, K, n
<1>15. \A s \in Sides : s # side => InactiveKeysStacked(r, s)
  <2> SUFFICES ASSUME NEW s \in Sides, s # side
               PROVE  InactiveKeysStacked(r, s)
    OBVIOUS
  <2>1. r.orders[s] = m.orders[s] /\ r.top[s] = m.top[s]
    BY <1>5
  <2>2. InactiveKeysStacked(m, s)
    BY DEF IsAccount
  <2> QED
    BY <2>1, <2>2, SameSide
<1>16. \A k \in ActiveKeys(m, side) : k # key => p[k] = o[k]
  BY <1>8 DEF ActiveKeys
<1> QED
  BY <1>4, <1>5, <1>8, <1>10, <1>11, <1>12, <1>14, <1>15, <1>16
     DEF Resizes, OtherSideKept, IsAccount

(* ... as when it is filled in part; one filled to its last lot is closed. *)
LEMMA FillOrderProperties ==
  ASSUME NEW m, IsAccount(m), NEW side \in Sides, NEW price \in Int,
         NEW key \in ActiveKeys(m, side), NEW fillSize \in Int
  PROVE  /\ Closes(m, FillOrder(m, side, key, fillSize, TRUE, price), side, key)
         /\ Resizes(m, FillOrder(m, side, key, fillSize, FALSE, price), side,
                    key, m.orders[side][key].size - fillSize)
<1> DEFINE in == InAsset(side)
           out == OutAsset(side)
           a == Units(in, fillSize, price)
           b == Units(out, fillSize, price)
           left == m.orders[side][key].size - fillSize
           d == Deactivate(m, side, key)
           e == [m EXCEPT !.orders[side][key].size = @ - fillSize]
           Filled(x) == [x EXCEPT !.total[in] = @ + a, !.available[in] = @ + a,
                                  !.total[out] = @ - b, !.ceiling[out] = @ - b]
<1>1. /\ m \in Accounts /\ IsRecord(m)
      /\ m.orders \in [Sides -> Seq(Orders)] /\ m.top \in [Sides -> Nat]
  BY AccountIsRecord DEF IsAccount
<1>2. /\ m.orders[side][key] \in Orders /\ m.orders[side][key].size \in Int
      /\ key \in DOMAIN m.orders[side]
  BY <1>1, AccountParts DEF ActiveKeys
<1>3. a \in Int /\ b \in Int /\ left \in Int
  BY <1>2, UnitsType
<1>4. in \in Assets /\ out \in Assets /\ in # out
  BY AssetsOfSides DEF InAsset, OutAsset
<1>5. /\ FillOrder(m, side, key, fillSize, TRUE, price) = Filled(d)
      /\ FillOrder(m, side, key, fillSize, FALSE, price) = Filled(e)
  BY DEF FillOrder
<1>6. /\ IsRecord(d)
      /\ d.orders = With(m.orders, side, Pushed(m, side, key))
      /\ d.top = With(m.top, side, key)
  BY <1>1, DeactivateFields
<1>7. /\ IsRecord(e)
      /\ e.orders = With(m.orders, side, Resized(m, side, key, left))
      /\ e.top = m.top
  <2>1. m.orders[side][key] = [id |-> m.orders[side][key].id,
                               size |-> m.orders[side][key].size]
    BY <1>2 DEF Orders
  <2>2. [m.orders[side][key] EXCEPT !.size = @ - fillSize]
          = [id |-> m.orders[side][key].id, size |-> left]
    BY <2>1
  <2>3. e.orders = [m.orders EXCEPT ![side] = [m.orders[side] EXCEPT
                      ![key] = [m.orders[side][key] EXCEPT !.size = @ - fillSize]]]
    BY <1>1 DEF IsRecord
  <2>4. e.orders = With(m.orders, side, Resized(m, side, key, left))
    BY <2>2, <2>3 DEF With, Resized
  <2>5. IsRecord(e) /\ e.top = m.top
    BY <1>1, Zenon DEF IsRecord
  <2> QED
    BY <2>4, <2>5
<1> HIDE DEF in, out, a, b, left, d, e
<1>8. ASSUME NEW x, IsRecord(x)
      PROVE  /\ IsRecord(Filled(x))
             /\ Filled(x).orders = x.orders /\ Filled(x).top = x.top
  <2> DEFINE x1 == [x EXCEPT !.total[in] = @ + a]
             x2 == [x1 EXCEPT !.available[in] = @ + a]
             x3 == [x2 EXCEPT !.total[out] = @ - b]
             x4 == [x3 EXCEPT !.ceiling[out] = @ - b]
  <2>1. Filled(x) = x4
    <3>1. x.total \in Balances /\ x.available \in Balances /\ x.ceiling \in Balances
      BY <1>8 DEF IsRecord
    <3>2. /\ x1.available = x.available
          /\ x2.total = x1.total /\ x1.total[out] = x.total[out]
          /\ x3.ceiling = x.ceiling
      BY <1>4, <1>8, <3>1 DEF IsRecord, Balances
    <3> QED
      BY <3>1, <3>2, Zenon
  <2>2. IsRecord(x1) /\ x1.orders = x.orders /\ x1.top = x.top
    <3>1. x.total \in Balances
      BY <1>8 DEF IsRecord
    <3>2. [x.total EXCEPT ![in] = @ + a] \in Balances
      BY <1>3, <1>4, <3>1, BalancesExcept, Zenon
    <3> QED
      BY <1>8, <3>2 DEF IsRecord
  <2> HIDE DEF x1, x2, x3, x4, Filled
  <2>3. IsRecord(x2) /\ x2.orders = x.orders /\ x2.top = x.top
    <3>1. x1.available \in Balances
      BY <2>2 DEF IsRecord
    <3>2. [x1.available EXCEPT ![in] = @ + a] \in Balances
      BY <1>3, <1>4, <3>1, BalancesExcept, Zenon
    <3> QED
      BY <2>2, <3>2 DEF IsRecord, x2
  <2>4. IsRecord(x3) /\ x3.orders = x.orders /\ x3.top = x.top
    <3>1. x2.total \in Balances
      BY <2>3 DEF IsRecord
    <3>2. [x2.total EXCEPT ![out] = @ - b] \in Balances
      BY <1>3, <1>4, <3>1, BalancesExcept, Zenon
    <3> QED
      BY <2>3, <3>2 DEF IsRecord, x3
  <2>5. IsRecord(x4) /\ x4.orders = x.orders /\ x4.top = x.top
    <3>1. x3.ceiling \in Balances
      BY <2>4 DEF IsRecord
    <3>2. [x3.ceiling EXCEPT ![out] = @ - b] \in Balances
      BY <1>3, <1>4, <3>1, BalancesExcept, Zenon
    <3> QED
      BY <2>4, <3>2 DEF IsRecord, x4
  <2> QED
    BY <2>1, <2>5
<1> HIDE DEF Filled
<1>9. /\ IsRecord(Filled(d)) /\ Filled(d).orders = d.orders
      /\ Filled(d).top = d.top
  BY <1>6, <1>8
<1>10. /\ IsRecord(Filled(e)) /\ Filled(e).orders = e.orders
       /\ Filled(e).top = e.top
  BY <1>7, <1>8
<1>11. Closes(m, Filled(d), side, key)
  BY <1>6, <1>9, ClosesProperties
<1>12. Resizes(m, Filled(e), side, key, left)
  BY <1>3, <1>7, <1>10, ResizesProperties
<1> QED
  BY <1>5, <1>11, <1>12, Zenon DEF left

(* A key that has just been given up is the next to be used.               *)
LEMMA CancelOrderFreesKey ==
  ASSUME NEW m, IsAccount(m), NEW side \in Sides, NEW price \in Int,
         NEW key \in ActiveKeys(m, side)
  PROVE  NextOrderAccessKey(CancelOrder(m, side, price, key), side) = key
<1>1. /\ m \in Accounts
      /\ m.top \in [Sides -> Nat]
  BY AccountIsRecord DEF IsAccount
<1>2. key \in Nat \ {0}
  BY <1>1, AccountParts DEF ActiveKeys
<1>3. Deactivate(m, side, key).top = With(m.top, side, key)
  BY <1>1, DeactivateFields
<1>4. CancelOrder(m, side, price, key).top = Deactivate(m, side, key).top
  <2> DEFINE d == Deactivate(m, side, key)
  <2>1. IsRecord(d)
    BY <1>1, DeactivateFields
  <2> HIDE DEF d
  <2> QED
    BY <2>1 DEF CancelOrder, IsRecord, d
<1>5. CancelOrder(m, side, price, key).top[side] = key
  BY <1>1, <1>3, <1>4 DEF With
<1> QED
  BY <1>2, <1>5 DEF NextOrderAccessKey, NIL

(* The IDs an account lists are IDs, with access keys.                     *)
LEMMA ActiveMarketOrderIdsType ==
  ASSUME NEW m \in Accounts, NEW side \in Sides
  PROVE  ActiveMarketOrderIds(m, side) \subseteq Nat \X MarketOrderIds
<1>1. \A k \in ActiveKeys(m, side) :
        k \in Nat /\ m.orders[side][k].id \in MarketOrderIds
  BY AccountParts DEF ActiveKeys
<1> QED
  BY <1>1 DEF ActiveMarketOrderIds

-----------------------------------------------------------------------------
(* What an operation does to the amounts of an account.                    *)

Plus(f, x, amount)  == [f EXCEPT ![x] = @ + amount]
Minus(f, x, amount) == [f EXCEPT ![x] = @ - amount]

(* One balance changes.                                                    *)
LEMMA BalanceAt ==
  ASSUME NEW f \in Balances, NEW x \in Assets, NEW amount \in Int, NEW y \in Assets
  PROVE  /\ f[y] \in Int
         /\ Plus(f, x, amount)[y] = IF y = x THEN f[y] + amount ELSE f[y]
         /\ Minus(f, x, amount)[y] = IF y = x THEN f[y] - amount ELSE f[y]
BY DEF Balances, Plus, Minus

Amounts3(m, total, available, ceiling) ==
  m.total = total /\ m.available = available /\ m.ceiling = ceiling

(* A deposit adds to all three amounts of an asset.                        *)
LEMMA DepositAmounts ==
  ASSUME NEW m \in Accounts, NEW x \in Assets, NEW amount \in Int
  PROVE  Amounts3(Deposit(m, x, amount), Plus(m.total, x, amount),
                  Plus(m.available, x, amount), Plus(m.ceiling, x, amount))
BY DEF Deposit, Accounts, Plus, Amounts3

(* A withdrawal subtracts from all three.                                  *)
LEMMA WithdrawAmounts ==
  ASSUME NEW m \in Accounts, NEW x \in Assets, NEW amount \in Int
  PROVE  Amounts3(Withdraw(m, x, amount), Minus(m.total, x, amount),
                  Minus(m.available, x, amount), Minus(m.ceiling, x, amount))
BY DEF Withdraw, Accounts, Minus, Amounts3

(* Placing an order locks up what it gives, and makes room for the rest.   *)
LEMMA PlaceOrderAmounts ==
  ASSUME NEW m \in Accounts, NEW side \in Sides, NEW size, NEW price, NEW id
  PROVE  LET in == InAsset(side)
             out == OutAsset(side)
         IN Amounts3(PlaceOrder(m, side, size, price, id), m.total,
                     Minus(m.available, out, Units(out, size, price)),
                     Plus(m.ceiling, in, Units(in, size, price)))
BY DEF PlaceOrder, Accounts, Plus, Minus, Amounts3

(* A cancel undoes that.                                                   *)
LEMMA CancelOrderAmounts ==
  ASSUME NEW m \in Accounts, NEW side \in Sides, NEW price, NEW key
  PROVE  LET in == InAsset(side)
             out == OutAsset(side)
             size == m.orders[side][key].size
         IN Amounts3(CancelOrder(m, side, price, key), m.total,
                     Plus(m.available, out, Units(out, size, price)),
                     Minus(m.ceiling, in, Units(in, size, price)))
BY DEF CancelOrder, Deactivate, Accounts, Plus, Minus, Amounts3

(* A fill gives and receives.                                              *)
LEMMA FillOrderAmounts ==
  ASSUME NEW m \in Accounts, NEW side \in Sides, NEW price \in Int, NEW key,
         NEW size \in Int, NEW complete \in BOOLEAN
  PROVE  LET in == InAsset(side)
             out == OutAsset(side)
             a == Units(in, size, price)
             b == Units(out, size, price)
         IN Amounts3(FillOrder(m, side, key, size, complete, price),
                     Minus(Plus(m.total, in, a), out, b),
                     Plus(m.available, in, a), Minus(m.ceiling, out, b))
BY DEF FillOrder, Deactivate, Accounts, Plus, Minus, Amounts3

-----------------------------------------------------------------------------
(* The counters of an account, reckoned from its orders.                   *)

OrderWorth(m, side, x, k) ==
  Units(x, m.orders[side][k].size, m.orders[side][k].id.price)
Worths(m, side, x) == [k \in ActiveKeys(m, side) |-> OrderWorth(m, side, x, k)]
Worth(m, side, x)  == Total(Worths(m, side, x), ActiveKeys(m, side))

(* What the orders of a side are worth is a number.                        *)
LEMMA WorthType ==
  ASSUME NEW m \in Accounts, NEW side \in Sides, NEW x
  PROVE  /\ IsFiniteSet(ActiveKeys(m, side))
         /\ \A k \in ActiveKeys(m, side) : OrderWorth(m, side, x, k) \in Int
         /\ \A k \in ActiveKeys(m, side) :
              Worths(m, side, x)[k] = OrderWorth(m, side, x, k)
         /\ Worth(m, side, x) \in Int
<1>1. IsFiniteSet(ActiveKeys(m, side))
  <2>1. /\ Len(m.orders[side]) \in Nat
        /\ DOMAIN m.orders[side] = 1..Len(m.orders[side])
    BY AccountParts
  <2>2. IsFiniteSet(DOMAIN m.orders[side])
    BY <2>1, FS_Interval
  <2>3. ActiveKeys(m, side) \in SUBSET DOMAIN m.orders[side]
    BY DEF ActiveKeys
  <2> QED
    BY <2>2, <2>3, FS_Subset
<1>2. ASSUME NEW k \in ActiveKeys(m, side)
      PROVE  OrderWorth(m, side, x, k) \in Int
  <2> DEFINE size == m.orders[side][k].size
             price == m.orders[side][k].id.price
  <2>1. size \in Int /\ price \in Int
    BY AccountParts DEF ActiveKeys, MarketOrderIds
  <2> HIDE DEF size, price
  <2>2. Units(x, size, price) \in Int
    BY <2>1, UnitsType
  <2> QED
    BY <2>2 DEF OrderWorth, size, price
<1>3. \A k \in ActiveKeys(m, side) :
        Worths(m, side, x)[k] = OrderWorth(m, side, x, k)
  BY DEF Worths
<1>4. Worth(m, side, x) \in Int
  BY <1>1, <1>2, <1>3, TotalType DEF Worth
<1> QED
  BY <1>1, <1>2, <1>3, <1>4

(* Orders that do not change are worth the same.                           *)
LEMMA WorthSame ==
  ASSUME NEW m \in Accounts, NEW r \in Accounts, NEW side \in Sides,
         r.orders[side] = m.orders[side], NEW x
  PROVE  Worth(r, side, x) = Worth(m, side, x)
<1>1. ActiveKeys(r, side) = ActiveKeys(m, side)
  BY DEF ActiveKeys
<1>2. Worths(r, side, x) = Worths(m, side, x)
  BY <1>1 DEF Worths, OrderWorth
<1> QED
  BY <1>1, <1>2 DEF Worth

(* A closed order is worth nothing.                                        *)
LEMMA ClosesWorth ==
  ASSUME NEW m, IsAccount(m), NEW r, NEW side \in Sides,
         NEW key \in ActiveKeys(m, side), Closes(m, r, side, key), NEW x
  PROVE  Worth(r, side, x) = Worth(m, side, x) - OrderWorth(m, side, x, key)
<1> DEFINE K == ActiveKeys(m, side)
           L == K \ {key}
           f == Worths(m, side, x)
           g == Worths(r, side, x)
<1>1. m \in Accounts /\ r \in Accounts /\ ActiveKeys(r, side) = L
  BY DEF IsAccount, Closes
<1>2. /\ IsFiniteSet(K) /\ IsFiniteSet(L)
      /\ \A k \in K : f[k] \in Int /\ f[k] = OrderWorth(m, side, x, k)
  <2>1. /\ IsFiniteSet(K)
        /\ \A k \in K : f[k] \in Int /\ f[k] = OrderWorth(m, side, x, k)
    BY <1>1, WorthType
  <2>2. IsFiniteSet(L)
    BY <1>1, WorthType, Zenon
  <2> QED
    BY <2>1, <2>2
<1>3. \A k \in L : g[k] = f[k]
  <2>1. \A k \in L : r.orders[side][k] = m.orders[side][k]
    BY <1>1 DEF Closes
  <2>2. \A k \in L : OrderWorth(r, side, x, k) = OrderWorth(m, side, x, k)
    BY <2>1 DEF OrderWorth
  <2> QED
    BY <1>1, <1>2, <2>2, WorthType
<1> HIDE DEF f, g
<1>4. Total(f, K) = Total(f, L) + f[key]
  BY <1>2, TotalRemove
<1>5. Total(g, L) = Total(f, L)
  BY <1>2, <1>3, TotalSame
<1>6. Total(f, L) \in Int /\ f[key] \in Int
  BY <1>2, TotalType
<1>7. Worth(m, side, x) = Total(f, K) /\ Worth(r, side, x) = Total(g, L)
  BY <1>1 DEF Worth, f, g
<1>8. Total(f, L) = Total(f, K) - f[key]
  BY <1>4, <1>6
<1> QED
  BY <1>2, <1>5, <1>7, <1>8

(* An opened one adds its worth.                                           *)
LEMMA OpensWorth ==
  ASSUME NEW m, IsAccount(m), NEW r, NEW side \in Sides, NEW key, NEW order,
         Opens(m, r, side, key, order), NEW x
  PROVE  Worth(r, side, x) = Worth(m, side, x) + Units(x, order.size, order.id.price)
<1> DEFINE K == ActiveKeys(m, side)
           L == K \cup {key}
           f == Worths(m, side, x)
           g == Worths(r, side, x)
<1>1. /\ m \in Accounts /\ r \in Accounts /\ ActiveKeys(r, side) = L
      /\ key \notin K /\ r.orders[side][key] = order
  BY DEF IsAccount, Opens
<1>2. /\ IsFiniteSet(K)
      /\ \A k \in L : g[k] \in Int /\ g[k] = OrderWorth(r, side, x, k)
  BY <1>1, WorthType
<1>3. \A k \in K : g[k] = f[k]
  <2>1. \A k \in K : r.orders[side][k] = m.orders[side][k]
    BY <1>1 DEF Opens
  <2>2. \A k \in K : OrderWorth(r, side, x, k) = OrderWorth(m, side, x, k)
    BY <2>1 DEF OrderWorth
  <2> QED
    BY <1>1, <1>2, <2>2, WorthType
<1> HIDE DEF f, g
<1>4. Total(g, L) = Total(g, K) + g[key]
  <2> HIDE DEF K
  <2> QED
    BY <1>1, <1>2, TotalAdd, Zenon
<1>5. Total(g, K) = Total(f, K)
  BY <1>2, <1>3, TotalSame
<1>6. g[key] = Units(x, order.size, order.id.price)
  BY <1>1, <1>2 DEF OrderWorth
<1>7. Worth(m, side, x) = Total(f, K) /\ Worth(r, side, x) = Total(g, L)
  BY <1>1 DEF Worth, f, g
<1> QED
  BY <1>4, <1>5, <1>6, <1>7

(* One that changes its size changes its worth.                            *)
LEMMA ResizesWorth ==
  ASSUME NEW m, IsAccount(m), NEW r, NEW side \in Sides,
         NEW key \in ActiveKeys(m, side), NEW size,
         Resizes(m, r, side, key, size), NEW x
  PROVE  Worth(r, side, x)
           = Worth(m, side, x) + (Units(x, size, m.orders[side][key].id.price)
                                    - OrderWorth(m, side, x, key))
<1> DEFINE K == ActiveKeys(m, side)
           f == Worths(m, side, x)
           g == Worths(r, side, x)
<1>1. /\ m \in Accounts /\ r \in Accounts /\ ActiveKeys(r, side) = K
      /\ r.orders[side][key].id = m.orders[side][key].id
      /\ r.orders[side][key].size = size
  BY DEF IsAccount, Resizes
<1>2. /\ IsFiniteSet(K)
      /\ \A k \in K : /\ f[k] \in Int /\ f[k] = OrderWorth(m, side, x, k)
                      /\ g[k] \in Int /\ g[k] = OrderWorth(r, side, x, k)
  BY <1>1, WorthType
<1>3. \A k \in K \ {key} : g[k] = f[k]
  <2>1. \A k \in K \ {key} : r.orders[side][k] = m.orders[side][k]
    BY DEF Resizes
  <2>2. \A k \in K \ {key} : OrderWorth(r, side, x, k) = OrderWorth(m, side, x, k)
    BY <2>1 DEF OrderWorth
  <2> QED
    BY <1>2, <2>2
<1> HIDE DEF f, g
<1>4. Total(g, K) = Total(f, K) + (g[key] - f[key])
  BY <1>2, <1>3, TotalChange
<1>5. g[key] = Units(x, size, m.orders[side][key].id.price)
  BY <1>1, <1>2 DEF OrderWorth
<1>6. Worth(m, side, x) = Total(f, K) /\ Worth(r, side, x) = Total(g, K)
  BY <1>1 DEF Worth, f, g
<1> QED
  BY <1>2, <1>4, <1>5, <1>6

(* Units are natural numbers, and proportional to the size.                *)
LEMMA UnitsNat ==
  ASSUME NEW x, NEW size \in Nat, NEW price \in Nat
  PROVE  Units(x, size, price) \in Nat
<1>1. \A i, j \in Nat : i * j \in Nat
  OBVIOUS
<1>2. LotSize \in Nat /\ TickSize \in Nat
  BY UnitsAssumption
<1> QED
  BY <1>1, <1>2 DEF Units

(* What is left of a size is worth what is left of the units.              *)
LEMMA UnitsMinus ==
  ASSUME NEW x, NEW size \in Int, NEW part \in Int, NEW price \in Int
  PROVE  Units(x, size - part, price) = Units(x, size, price) - Units(x, part, price)
<1>1. \A i, j, n \in Int : (i - j) * n = i * n - j * n
  OBVIOUS
<1>2. \A i, j \in Int : i * j \in Int
  OBVIOUS
<1>3. LotSize \in Int /\ TickSize \in Int
  BY UnitsAssumption
<1>4. (size - part) * LotSize = size * LotSize - part * LotSize
  BY <1>1, <1>3
<1>5. (size - part) * price * TickSize
        = size * price * TickSize - part * price * TickSize
  <2>1. (size - part) * price = size * price - part * price
    BY <1>1
  <2>2. size * price \in Int /\ part * price \in Int
    BY <1>2
  <2> QED
    BY <1>1, <1>3, <2>1, <2>2
<1> QED
  BY <1>4, <1>5 DEF Units

(* An account whose available amounts are totals less what its orders      *)
(* would give, and whose ceilings are totals and what they would receive.  *)
LedgerSide(m, side) ==
  LET in == InAsset(side)
      out == OutAsset(side)
  IN /\ m.available[out] = m.total[out] - Worth(m, side, out)
     /\ m.ceiling[in] = m.total[in] + Worth(m, side, in)
     /\ m.available[out] >= 0
     /\ m.ceiling[in] <= HI_64
LedgerOK(m) == \A side \in Sides : LedgerSide(m, side)

(* The amounts of an account.                                              *)
LEMMA AmountsType ==
  ASSUME NEW m \in Accounts
  PROVE  /\ m.total \in Balances /\ m.available \in Balances /\ m.ceiling \in Balances
         /\ \A x \in Assets : /\ m.total[x] \in Int /\ m.available[x] \in Int
                              /\ m.ceiling[x] \in Int
BY DEF Accounts, Balances

(* The two assets of a side.                                               *)
LEMMA SidesApart ==
  ASSUME NEW side \in Sides
  PROVE  /\ InAsset(side) \in Assets /\ OutAsset(side) \in Assets
         /\ InAsset(side) # OutAsset(side)
         /\ \A s \in Sides : s # side => /\ InAsset(s) = OutAsset(side)
                                         /\ OutAsset(s) = InAsset(side)
         /\ \A x \in Assets : x = InAsset(side) \/ x = OutAsset(side)
BY DEF InAsset, OutAsset, Assets, Sides

(* A ceiling is the total and what orders would receive, ...               *)
LEMMA LedgerCeilings ==
  ASSUME NEW m, LedgerOK(m), NEW x \in Assets
  PROVE  m.ceiling[x] <= HI_64
<1>1. \E side \in Sides : InAsset(side) = x
  BY DEF InAsset, Sides, Assets
<1> QED
  BY <1>1 DEF LedgerOK, LedgerSide

(* A deposit keeps the counters in step, if it fits below the ceiling, ... *)
LEMMA DepositLedger ==
  ASSUME NEW m, IsAccount(m), LedgerOK(m), NEW x \in Assets, NEW amount \in Nat,
         CanDeposit(m, x, amount)
  PROVE  LedgerOK(Deposit(m, x, amount))
<1> DEFINE r == Deposit(m, x, amount)
<1> SUFFICES ASSUME NEW side \in Sides PROVE LedgerSide(r, side)
  BY DEF LedgerOK
<1>1. m \in Accounts /\ r \in Accounts /\ r.orders = m.orders
  BY DepositProperties DEF IsAccount, SameOrders
<1>2. Amounts3(r, Plus(m.total, x, amount), Plus(m.available, x, amount),
               Plus(m.ceiling, x, amount))
  BY <1>1, DepositAmounts
<1>3. \A y : Worth(r, side, y) = Worth(m, side, y) /\ Worth(m, side, y) \in Int
  BY <1>1, WorthSame, WorthType
<1> HIDE DEF r
<1> DEFINE in == InAsset(side)
           out == OutAsset(side)
<1>4. in \in Assets /\ out \in Assets
  BY SidesApart
<1>5. m.ceiling[x] + amount <= HI_64 /\ HI_64 \in Nat
  BY UnitsAssumption DEF CanDeposit
<1>6. LedgerSide(m, side)
  BY DEF LedgerOK
<1>7. \A y \in Assets :
        /\ m.total[y] \in Int /\ m.available[y] \in Int /\ m.ceiling[y] \in Int
        /\ r.total[y] = IF y = x THEN m.total[y] + amount ELSE m.total[y]
        /\ r.available[y] = IF y = x THEN m.available[y] + amount ELSE m.available[y]
        /\ r.ceiling[y] = IF y = x THEN m.ceiling[y] + amount ELSE m.ceiling[y]
  BY <1>1, <1>2, AmountsType, BalanceAt DEF Amounts3
<1> HIDE DEF in, out
<1>8. /\ m.available[out] = m.total[out] - Worth(m, side, out)
      /\ m.ceiling[in] = m.total[in] + Worth(m, side, in)
      /\ m.available[out] >= 0
      /\ m.ceiling[in] <= HI_64
  BY <1>6 DEF LedgerSide, in, out
<1>9. /\ r.available[out] = r.total[out] - Worth(r, side, out)
      /\ r.available[out] >= 0
  BY <1>3, <1>4, <1>7, <1>8
<1>10. /\ r.ceiling[in] = r.total[in] + Worth(r, side, in)
       /\ r.ceiling[in] <= HI_64
  BY <1>3, <1>4, <1>5, <1>7, <1>8
<1> QED
  BY <1>9, <1>10 DEF LedgerSide, in, out

(* ... and a withdrawal, if it is available.                               *)
LEMMA WithdrawLedger ==
  ASSUME NEW m, IsAccount(m), LedgerOK(m), NEW x \in Assets, NEW amount \in Nat,
         CanWithdraw(m, x, amount)
  PROVE  LedgerOK(Withdraw(m, x, amount))
<1> DEFINE r == Withdraw(m, x, amount)
<1> SUFFICES ASSUME NEW side \in Sides PROVE LedgerSide(r, side)
  BY DEF LedgerOK
<1>1. m \in Accounts /\ r \in Accounts /\ r.orders = m.orders
  BY WithdrawProperties DEF IsAccount, SameOrders
<1>2. Amounts3(r, Minus(m.total, x, amount), Minus(m.available, x, amount),
               Minus(m.ceiling, x, amount))
  BY <1>1, WithdrawAmounts
<1>3. \A y : Worth(r, side, y) = Worth(m, side, y) /\ Worth(m, side, y) \in Int
  BY <1>1, WorthSame, WorthType
<1> HIDE DEF r
<1> DEFINE in == InAsset(side)
           out == OutAsset(side)
<1>4. in \in Assets /\ out \in Assets
  BY SidesApart
<1>5. amount <= m.available[x] /\ HI_64 \in Nat
  BY UnitsAssumption DEF CanWithdraw
<1>6. LedgerSide(m, side)
  BY DEF LedgerOK
<1>7. \A y \in Assets :
        /\ m.total[y] \in Int /\ m.available[y] \in Int /\ m.ceiling[y] \in Int
        /\ r.total[y] = IF y = x THEN m.total[y] - amount ELSE m.total[y]
        /\ r.available[y] = IF y = x THEN m.available[y] - amount ELSE m.available[y]
        /\ r.ceiling[y] = IF y = x THEN m.ceiling[y] - amount ELSE m.ceiling[y]
  BY <1>1, <1>2, AmountsType, BalanceAt DEF Amounts3
<1> HIDE DEF in, out
<1>8. /\ m.available[out] = m.total[out] - Worth(m, side, out)
      /\ m.ceiling[in] = m.total[in] + Worth(m, side, in)
      /\ m.available[out] >= 0
      /\ m.ceiling[in] <= HI_64
  BY <1>6 DEF LedgerSide, in, out
<1>9. /\ r.available[out] = r.total[out] - Worth(r, side, out)
      /\ r.available[out] >= 0
  BY <1>3, <1>4, <1>5, <1>7, <1>8
<1>10. /\ r.ceiling[in] = r.total[in] + Worth(r, side, in)
       /\ r.ceiling[in] <= HI_64
  BY <1>3, <1>4, <1>5, <1>7, <1>8
<1> QED
  BY <1>9, <1>10 DEF LedgerSide, in, out

(* An order that is closed, opened or resized leaves the other side's      *)
(* counters in step, if totals and what that side locks do not change.     *)
LEMMA OtherLedgerSide ==
  ASSUME NEW m, IsAccount(m), LedgerOK(m), NEW r \in Accounts, NEW side \in Sides,
         NEW s \in Sides, s # side, r.orders[s] = m.orders[s],
         NEW gain \in Nat, NEW loss \in Nat,
         r.total[InAsset(side)] = m.total[InAsset(side)] + gain,
         r.available[InAsset(side)] = m.available[InAsset(side)] + gain,
         r.total[OutAsset(side)] = m.total[OutAsset(side)] - loss,
         r.ceiling[OutAsset(side)] = m.ceiling[OutAsset(side)] - loss
  PROVE  LedgerSide(r, s)
<1> DEFINE in == InAsset(side)
           out == OutAsset(side)
<1>1. InAsset(s) = out /\ OutAsset(s) = in /\ in \in Assets /\ out \in Assets
  BY SidesApart
<1>2. m \in Accounts
  BY DEF IsAccount
<1>3. \A y : Worth(r, s, y) = Worth(m, s, y) /\ Worth(m, s, y) \in Int
  BY <1>2, WorthSame, WorthType
<1>4. LedgerSide(m, s)
  BY DEF LedgerOK
<1>5. /\ r.total[in] = m.total[in] + gain /\ r.available[in] = m.available[in] + gain
      /\ r.total[out] = m.total[out] - loss /\ r.ceiling[out] = m.ceiling[out] - loss
  OBVIOUS
<1> HIDE DEF in, out
<1>6. /\ m.available[in] = m.total[in] - Worth(m, s, in)
      /\ m.ceiling[out] = m.total[out] + Worth(m, s, out)
      /\ m.available[in] >= 0
      /\ m.ceiling[out] <= HI_64
  BY <1>1, <1>4 DEF LedgerSide
<1>7. HI_64 \in Nat /\ m.total[in] \in Int /\ m.total[out] \in Int
      /\ m.available[in] \in Int /\ m.ceiling[out] \in Int
  BY <1>1, <1>2, AmountsType, UnitsAssumption
<1>8. r.available[in] = r.total[in] - Worth(r, s, in) /\ r.available[in] >= 0
  BY <1>3, <1>5, <1>6, <1>7
<1>9. r.ceiling[out] = r.total[out] + Worth(r, s, out) /\ r.ceiling[out] <= HI_64
  BY <1>3, <1>5, <1>6, <1>7
<1> QED
  BY <1>1, <1>8, <1>9 DEF LedgerSide

(* Placing an order that can be placed.                                    *)
LEMMA PlaceOrderLedger ==
  ASSUME NEW m, IsAccount(m), LedgerOK(m), NEW side \in Sides, NEW size \in Int,
         NEW price \in Int, NEW id \in MarketOrderIds, id # NilOrderId,
         id.price = price, CanPlaceOrder(m, side, size, price)
  PROVE  LedgerOK(PlaceOrder(m, side, size, price, id))
<1> DEFINE r == PlaceOrder(m, side, size, price, id)
           order == [id |-> id, size |-> size]
           key == NextOrderAccessKey(m, side)
           in == InAsset(side)
           out == OutAsset(side)
           a == Units(in, size, price)
           b == Units(out, size, price)
<1>1. Opens(m, r, side, key, order)
  BY PlaceOrderProperties
<1>2. m \in Accounts /\ r \in Accounts
  BY <1>1 DEF IsAccount, Opens
<1>3. Amounts3(r, m.total, Minus(m.available, out, b), Plus(m.ceiling, in, a))
  BY <1>2, PlaceOrderAmounts
<1>4. order.size = size /\ order.id.price = price
  OBVIOUS
<1>5. a \in Int /\ b \in Int
  BY UnitsType
<1>6. in \in Assets /\ out \in Assets /\ in # out
  BY SidesApart
<1>7. m.ceiling[in] + a <= HI_64 /\ b <= m.available[out]
  BY DEF CanPlaceOrder
<1> HIDE DEF r, key, order
<1>8. Worth(r, side, in) = Worth(m, side, in) + a
  BY <1>1, <1>4, OpensWorth
<1>9. Worth(r, side, out) = Worth(m, side, out) + b
  BY <1>1, <1>4, OpensWorth
<1>10. Worth(m, side, in) \in Int /\ Worth(m, side, out) \in Int
  BY <1>2, WorthType
<1> HIDE DEF in, out, a, b
<1>11. /\ r.total[in] = m.total[in] /\ r.total[out] = m.total[out]
       /\ r.available[in] = m.available[in]
       /\ r.available[out] = m.available[out] - b
       /\ r.ceiling[in] = m.ceiling[in] + a
       /\ r.ceiling[out] = m.ceiling[out]
       /\ m.total[in] \in Int /\ m.total[out] \in Int
       /\ m.available[in] \in Int /\ m.available[out] \in Int
       /\ m.ceiling[in] \in Int /\ m.ceiling[out] \in Int
  BY <1>2, <1>3, <1>5, <1>6, AmountsType, BalanceAt DEF Amounts3
<1>12. /\ m.available[out] = m.total[out] - Worth(m, side, out)
       /\ m.ceiling[in] = m.total[in] + Worth(m, side, in)
  BY DEF LedgerOK, LedgerSide, in, out
<1>13. LedgerSide(r, side)
  <2>1. r.available[out] = r.total[out] - Worth(r, side, out) /\ r.available[out] >= 0
    BY <1>5, <1>7, <1>9, <1>10, <1>11, <1>12
  <2>2. r.ceiling[in] = r.total[in] + Worth(r, side, in) /\ r.ceiling[in] <= HI_64
    BY <1>5, <1>7, <1>8, <1>10, <1>11, <1>12
  <2> QED
    BY <2>1, <2>2 DEF LedgerSide, in, out
<1>14. ASSUME NEW s \in Sides, s # side
       PROVE  LedgerSide(r, s)
  <2>1. r.orders[s] = m.orders[s]
    BY <1>1, <1>14 DEF Opens, OtherSideKept
  <2>2. /\ r.total[in] = m.total[in] + 0 /\ r.available[in] = m.available[in] + 0
        /\ r.total[out] = m.total[out] - 0 /\ r.ceiling[out] = m.ceiling[out] - 0
        /\ 0 \in Nat
    BY <1>11
  <2> QED
    BY <1>2, <1>14, <2>1, <2>2, OtherLedgerSide DEF in, out
<1> QED
  BY <1>13, <1>14 DEF LedgerOK, r

(* Cancelling an order.                                                    *)
LEMMA CancelOrderLedger ==
  ASSUME NEW m, IsAccount(m), LedgerOK(m), NEW side \in Sides,
         NEW key \in ActiveKeys(m, side), NEW price \in Nat,
         price = m.orders[side][key].id.price, m.orders[side][key].size \in Nat
  PROVE  LedgerOK(CancelOrder(m, side, price, key))
<1> DEFINE r == CancelOrder(m, side, price, key)
           size == m.orders[side][key].size
           in == InAsset(side)
           out == OutAsset(side)
           a == Units(in, size, price)
           b == Units(out, size, price)
<1>0. price \in Int
  OBVIOUS
<1>1. Closes(m, r, side, key)
  BY <1>0, CancelOrderProperties
<1>2. m \in Accounts /\ r \in Accounts
  BY <1>1 DEF IsAccount, Closes
<1>3. Amounts3(r, m.total, Plus(m.available, out, b), Minus(m.ceiling, in, a))
  BY <1>2, CancelOrderAmounts
<1>4. \A x : OrderWorth(m, side, x, key) = Units(x, size, price)
  BY DEF OrderWorth
<1>5. a \in Nat /\ b \in Nat
  BY UnitsNat
<1>6. in \in Assets /\ out \in Assets /\ in # out
  BY SidesApart
<1> HIDE DEF r
<1>8. Worth(r, side, in) = Worth(m, side, in) - a
  BY <1>1, <1>4, ClosesWorth
<1>9. Worth(r, side, out) = Worth(m, side, out) - b
  BY <1>1, <1>4, ClosesWorth
<1>10. Worth(m, side, in) \in Int /\ Worth(m, side, out) \in Int
  BY <1>2, WorthType
<1> HIDE DEF in, out, a, b, size
<1>11. /\ r.total[in] = m.total[in] /\ r.total[out] = m.total[out]
       /\ r.available[in] = m.available[in]
       /\ r.available[out] = m.available[out] + b
       /\ r.ceiling[in] = m.ceiling[in] - a
       /\ r.ceiling[out] = m.ceiling[out]
       /\ m.total[in] \in Int /\ m.total[out] \in Int
       /\ m.available[in] \in Int /\ m.available[out] \in Int
       /\ m.ceiling[in] \in Int /\ m.ceiling[out] \in Int
  <2>1. a \in Int /\ b \in Int
    BY <1>5
  <2> QED
    BY <1>2, <1>3, <1>6, <2>1, AmountsType, BalanceAt DEF Amounts3
<1>12. /\ m.available[out] = m.total[out] - Worth(m, side, out)
       /\ m.ceiling[in] = m.total[in] + Worth(m, side, in)
       /\ m.available[out] >= 0 /\ m.ceiling[in] <= HI_64 /\ HI_64 \in Nat
  BY UnitsAssumption DEF LedgerOK, LedgerSide, in, out
<1>13. LedgerSide(r, side)
  <2>1. r.available[out] = r.total[out] - Worth(r, side, out) /\ r.available[out] >= 0
    BY <1>5, <1>9, <1>10, <1>11, <1>12
  <2>2. r.ceiling[in] = r.total[in] + Worth(r, side, in) /\ r.ceiling[in] <= HI_64
    BY <1>5, <1>8, <1>10, <1>11, <1>12
  <2> QED
    BY <2>1, <2>2 DEF LedgerSide, in, out
<1>14. ASSUME NEW s \in Sides, s # side
       PROVE  LedgerSide(r, s)
  <2>1. r.orders[s] = m.orders[s]
    BY <1>1, <1>14 DEF Closes, OtherSideKept
  <2>2. /\ r.total[in] = m.total[in] + 0 /\ r.available[in] = m.available[in] + 0
        /\ r.total[out] = m.total[out] - 0 /\ r.ceiling[out] = m.ceiling[out] - 0
        /\ 0 \in Nat
    BY <1>11
  <2> QED
    BY <1>2, <1>14, <2>1, <2>2, OtherLedgerSide DEF in, out
<1> QED
  BY <1>13, <1>14 DEF LedgerOK, r

(* Filling an order, in part or to its last lot.                           *)
LEMMA FillOrderLedger ==
  ASSUME NEW m, IsAccount(m), LedgerOK(m), NEW side \in Sides,
         NEW key \in ActiveKeys(m, side), NEW price \in Nat,
         price = m.orders[side][key].id.price, NEW size \in Nat,
         NEW complete \in BOOLEAN, complete => size = m.orders[side][key].size
  PROVE  LedgerOK(FillOrder(m, side, key, size, complete, price))
<1> DEFINE r == FillOrder(m, side, key, size, complete, price)
           old == m.orders[side][key].size
           in == InAsset(side)
           out == OutAsset(side)
           a == Units(in, size, price)
           b == Units(out, size, price)
<1>0. price \in Int /\ size \in Int
  OBVIOUS
<1>1. /\ complete => Closes(m, r, side, key)
      /\ ~complete => Resizes(m, r, side, key, old - size)
  <2>1. complete = TRUE \/ complete = FALSE
    OBVIOUS
  <2>2. complete = TRUE => r = FillOrder(m, side, key, size, TRUE, price)
    OBVIOUS
  <2>3. complete = FALSE => r = FillOrder(m, side, key, size, FALSE, price)
    BY Zenon
  <2> HIDE DEF r
  <2> QED
    BY <1>0, <2>1, <2>2, <2>3, FillOrderProperties, Zenon
<1>2. m \in Accounts /\ r \in Accounts /\ OtherSideKept(m, r, side)
  BY <1>1 DEF IsAccount, Closes, Resizes
<1>3. Amounts3(r, Minus(Plus(m.total, in, a), out, b),
               Plus(m.available, in, a), Minus(m.ceiling, out, b))
  BY <1>0, <1>2, FillOrderAmounts
<1>4. /\ \A x : OrderWorth(m, side, x, key) = Units(x, old, price)
      /\ old \in Int
  BY <1>2, AccountParts DEF OrderWorth, ActiveKeys
<1>5. a \in Nat /\ b \in Nat
  BY UnitsNat
<1>6. in \in Assets /\ out \in Assets /\ in # out
  BY SidesApart
<1> HIDE DEF r
<1>8. ASSUME NEW x
      PROVE  Worth(r, side, x) = Worth(m, side, x) - Units(x, size, price)
  <2>1. CASE complete
    BY <1>1, <1>4, <2>1, ClosesWorth
  <2>2. CASE ~complete
    <3> DEFINE u == Units(x, old, price)
               v == Units(x, size, price)
               w == Worth(m, side, x)
    <3>1. Worth(r, side, x) = w + (Units(x, old - size, price) - u)
      BY <1>1, <1>4, <2>2, ResizesWorth
    <3>2. Units(x, old - size, price) = u - v
      BY <1>0, <1>4, UnitsMinus
    <3>3. u \in Int /\ v \in Int /\ w \in Int
      BY <1>0, <1>2, <1>4, UnitsType, WorthType
    <3> HIDE DEF u, v, w
    <3>4. Worth(r, side, x) = w - v
      BY <3>1, <3>2, <3>3
    <3> QED
      BY <3>4 DEF v, w
  <2> QED
    BY <2>1, <2>2
<1>9. Worth(r, side, in) = Worth(m, side, in) - a /\ Worth(r, side, out) = Worth(m, side, out) - b
  BY <1>8
<1>10. Worth(m, side, in) \in Int /\ Worth(m, side, out) \in Int
  BY <1>2, WorthType
<1> HIDE DEF in, out, a, b
<1>11. /\ r.total[in] = m.total[in] + a /\ r.total[out] = m.total[out] - b
       /\ r.available[in] = m.available[in] + a
       /\ r.available[out] = m.available[out]
       /\ r.ceiling[in] = m.ceiling[in]
       /\ r.ceiling[out] = m.ceiling[out] - b
       /\ m.total[in] \in Int /\ m.total[out] \in Int
       /\ m.available[in] \in Int /\ m.available[out] \in Int
       /\ m.ceiling[in] \in Int /\ m.ceiling[out] \in Int
  <2> DEFINE f == m.total
             g == Plus(f, in, a)
  <2>1. a \in Int /\ b \in Int
    BY <1>5
  <2>2. f \in Balances /\ m.available \in Balances /\ m.ceiling \in Balances
    BY <1>2, AmountsType
  <2>3. g \in Balances
    BY <1>6, <2>1, <2>2, BalancesExcept, Zenon DEF Plus
  <2>4. \A y \in Assets :
          /\ g[y] = IF y = in THEN f[y] + a ELSE f[y]
          /\ f[y] \in Int /\ g[y] \in Int
    BY <1>6, <2>1, <2>2, <2>3, BalanceAt
  <2> HIDE DEF f, g
  <2>5. r.total = Minus(g, out, b)
    BY <1>3 DEF Amounts3, f, g
  <2>6. \A y \in Assets : r.total[y] = IF y = out THEN g[y] - b ELSE g[y]
    BY <1>6, <2>1, <2>3, <2>5, BalanceAt
  <2>7. r.total[in] = f[in] + a /\ r.total[out] = f[out] - b
        /\ f[in] \in Int /\ f[out] \in Int
    BY <1>6, <2>4, <2>6
  <2>8. /\ r.available[in] = m.available[in] + a
        /\ r.available[out] = m.available[out]
        /\ r.ceiling[in] = m.ceiling[in]
        /\ r.ceiling[out] = m.ceiling[out] - b
        /\ m.available[in] \in Int /\ m.available[out] \in Int
        /\ m.ceiling[in] \in Int /\ m.ceiling[out] \in Int
    BY <1>3, <1>6, <2>1, <2>2, BalanceAt DEF Amounts3
  <2> QED
    BY <2>7, <2>8 DEF f
<1>12. /\ m.available[out] = m.total[out] - Worth(m, side, out)
       /\ m.ceiling[in] = m.total[in] + Worth(m, side, in)
       /\ m.available[out] >= 0 /\ m.ceiling[in] <= HI_64 /\ HI_64 \in Nat
  BY UnitsAssumption DEF LedgerOK, LedgerSide, in, out
<1>13. LedgerSide(r, side)
  <2>1. r.available[out] = r.total[out] - Worth(r, side, out) /\ r.available[out] >= 0
    BY <1>5, <1>9, <1>10, <1>11, <1>12
  <2>2. r.ceiling[in] = r.total[in] + Worth(r, side, in) /\ r.ceiling[in] <= HI_64
    BY <1>5, <1>9, <1>10, <1>11, <1>12
  <2> QED
    BY <2>1, <2>2 DEF LedgerSide, in, out
<1>14. ASSUME NEW s \in Sides, s # side
       PROVE  LedgerSide(r, s)
  <2>1. r.orders[s] = m.orders[s]
    BY <1>2, <1>14 DEF OtherSideKept
  <2> QED
    BY <1>2, <1>5, <1>11, <1>14, <2>1, OtherLedgerSide DEF in, out
<1> QED
  BY <1>13, <1>14 DEF LedgerOK, r

(* A new account.                                                          *)
LEMMA EmptyAccountLedger ==
  LedgerOK(EmptyAccount)
<1> DEFINE m == EmptyAccount
<1> SUFFICES ASSUME NEW side \in Sides PROVE LedgerSide(m, side)
  BY DEF LedgerOK
<1>1. ActiveKeys(m, side) = {}
  BY EmptyAccountProperties
<1>2. \A x : Worth(m, side, x) = 0
  BY <1>1, TotalEmpty DEF Worth
<1>3. InAsset(side) \in Assets /\ OutAsset(side) \in Assets
  BY SidesApart
<1>4. \A x \in Assets : m.total[x] = 0 /\ m.available[x] = 0 /\ m.ceiling[x] = 0
  BY DEF EmptyAccount
<1> HIDE DEF m
<1> QED
  BY <1>2, <1>3, <1>4, UnitsAssumption DEF LedgerSide
=============================================================================
