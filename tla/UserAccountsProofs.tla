------------------------- MODULE UserAccountsProofs -------------------------
(***************************************************************************)
(* What is kept for users beside their accounts, for any users, coins,     *)
(* markets and custodians: the coins of each account are what its totals   *)
(* say, each account is listed once, and handles are its own for good.     *)
(***************************************************************************)
EXTENDS UserAccounts, MarketAccountProofs

-----------------------------------------------------------------------------
(* The coins of one user, for the accounts A and the collateral C.         *)

Ids == (DOMAIN Markets) \X Nat

(* The account's coins are what its totals say.                            *)
Backed(A, C, id) ==
  \A x \in Coins, asset \in Assets :
    TypeOf(id, asset) = x => C[x][id] = A[id].total[asset]

FundsOK(A, C) ==
  /\ \A id \in DOMAIN A : id \in Ids /\ IsAccount(A[id])
  /\ DOMAIN C = Coins
  /\ \A x \in Coins : DOMAIN C[x] = {id \in DOMAIN A : x \in CoinsOf(id[1])}
  /\ \A id \in DOMAIN A : Backed(A, C, id)

(* Accounts that differ in one, which is an account too.                   *)
DifferAt(A, B, id) ==
  /\ DOMAIN B = DOMAIN A
  /\ IsAccount(B[id])
  /\ \A i \in DOMAIN A : i # id => B[i] = A[i]

(* The base and the quote of a market are coins, or the base is generic.   *)
LEMMA TypesOfMarket ==
  ASSUME ConstantsTyped, NEW id \in Ids
  PROVE  /\ id[1] \in DOMAIN Markets
         /\ TypeOf(id, "base") \in Coins \cup {GenericAsset}
         /\ TypeOf(id, "quote") \in Coins
         /\ TypeOf(id, "base") # TypeOf(id, "quote")
         /\ GenericAsset \notin Coins
         /\ CoinsOf(id[1]) = {TypeOf(id, "base"), TypeOf(id, "quote")} \cap Coins
<1>1. id[1] \in DOMAIN Markets
  BY DEF Ids
<1>2. Markets[id[1]] \in
        [base : Coins \cup {GenericAsset}, quote : Coins, underwriter : Nat]
  BY <1>1, ElementOfSeq, LenProperties DEF ConstantsTyped
<1>3. /\ Markets[id[1]].base \in Coins \cup {GenericAsset}
      /\ Markets[id[1]].quote \in Coins
  BY <1>2
<1>4. Markets[id[1]].base # Markets[id[1]].quote
  BY <1>1 DEF ConstantsTyped
<1>5. /\ TypeOf(id, "base") = Markets[id[1]].base
      /\ TypeOf(id, "quote") = Markets[id[1]].quote
  BY DEF TypeOf
<1>6. GenericAsset \notin Coins
  BY DEF ConstantsTyped
<1>7. CoinsOf(id[1]) = {Markets[id[1]].base, Markets[id[1]].quote} \cap Coins
  BY DEF CoinsOf
<1> QED
  BY <1>1, <1>3, <1>4, <1>5, <1>6, <1>7

(* Where coins lie after some have been moved.                             *)
LEMMA MovedAt ==
  ASSUME NEW C, NEW id, NEW asset, NEW amount, NEW x, NEW i
  PROVE  /\ DOMAIN Moved(C, id, asset, amount) = DOMAIN C
         /\ x \in DOMAIN C =>
              /\ DOMAIN Moved(C, id, asset, amount)[x] = DOMAIN C[x]
              /\ i \in DOMAIN C[x] =>
                   Moved(C, id, asset, amount)[x][i] =
                     IF TypeOf(id, asset) # GenericAsset /\ TypeOf(id, asset) = x /\ i = id
                     THEN C[x][i] + amount ELSE C[x][i]
<1> DEFINE t == TypeOf(id, asset)
<1> HIDE DEF t
<1>1. Moved(C, id, asset, amount) =
        IF t = GenericAsset THEN C ELSE [C EXCEPT ![t][id] = @ + amount]
  BY DEF Moved, t
<1>2. CASE t = GenericAsset
  BY <1>1, <1>2 DEF t
<1>3. CASE t # GenericAsset
  <2> DEFINE D == [C EXCEPT ![t][id] = @ + amount]
  <2>1. DOMAIN D = DOMAIN C
    OBVIOUS
  <2>2. ASSUME x \in DOMAIN C
        PROVE  /\ DOMAIN D[x] = DOMAIN C[x]
               /\ i \in DOMAIN C[x] =>
                    D[x][i] = IF t = x /\ i = id THEN C[x][i] + amount ELSE C[x][i]
    BY <2>2
  <2> HIDE DEF D
  <2>3. Moved(C, id, asset, amount) = D
    BY <1>1, <1>3 DEF D
  <2> QED
    BY <1>3, <2>1, <2>2, <2>3 DEF t
<1> QED
  BY <1>2, <1>3

(* No type of coin is added.                                               *)
LEMMA MovedDomain ==
  ASSUME NEW C, NEW id, NEW asset, NEW amount
  PROVE  DOMAIN Moved(C, id, asset, amount) = DOMAIN C
<1> DEFINE t == TypeOf(id, asset)
           value == [C[t] EXCEPT ![id] = @ + amount]
<1>1. DOMAIN [C EXCEPT ![t] = value] = DOMAIN C
  OBVIOUS
<1> QED
  BY <1>1 DEF Moved

(* Coins that are moved as the total of their account changes.             *)
LEMMA MovedFunds ==
  ASSUME ConstantsTyped, NEW A, NEW C, FundsOK(A, C), NEW id \in DOMAIN A,
         NEW asset \in Assets, NEW amount \in Int, NEW B, DifferAt(A, B, id),
         \A y \in Assets : B[id].total[y] =
           IF y = asset THEN A[id].total[y] + amount ELSE A[id].total[y]
  PROVE  FundsOK(B, Moved(C, id, asset, amount))
<1> DEFINE D == Moved(C, id, asset, amount)
<1>1. \A i \in DOMAIN B : i \in Ids /\ IsAccount(B[i])
  BY DEF FundsOK, DifferAt
<1>2. DOMAIN D = Coins
  BY MovedDomain DEF FundsOK
<1>3. \A x \in Coins : DOMAIN D[x] = DOMAIN C[x]
  BY MovedAt DEF FundsOK
<1>4. \A x \in Coins : DOMAIN D[x] = {i \in DOMAIN B : x \in CoinsOf(i[1])}
  BY <1>3 DEF FundsOK, DifferAt
<1>5. ASSUME NEW i \in DOMAIN B, NEW x \in Coins, NEW y \in Assets, TypeOf(i, y) = x
      PROVE  D[x][i] = B[i].total[y]
  <2>1. i \in Ids /\ i \in DOMAIN A
    BY <1>1, <1>5 DEF DifferAt
  <2>2. y = "base" \/ y = "quote"
    BY <1>5 DEF Assets
  <2>3. x \in CoinsOf(i[1]) /\ GenericAsset # x
    BY <1>5, <2>1, <2>2, TypesOfMarket
  <2>4. i \in DOMAIN C[x] /\ x \in DOMAIN C
    BY <1>5, <2>1, <2>3 DEF FundsOK
  <2>5. C[x][i] = A[i].total[y]
    BY <1>5, <2>1 DEF FundsOK, Backed
  <2>6. D[x][i] = IF TypeOf(id, asset) # GenericAsset /\ TypeOf(id, asset) = x /\ i = id
                  THEN C[x][i] + amount ELSE C[x][i]
    BY <2>4, MovedAt
  <2> HIDE DEF D
  <2>7. CASE i # id
    BY <2>1, <2>5, <2>6, <2>7 DEF DifferAt
  <2>8. CASE i = id /\ y = asset
    BY <1>5, <2>3, <2>5, <2>6, <2>8
  <2>9. CASE i = id /\ y # asset
    <3>1. TypeOf(id, asset) # x
      BY <1>5, <2>1, <2>9, TypesOfMarket DEF Assets
    <3> QED
      BY <2>5, <2>6, <2>9, <3>1
  <2> QED
    BY <2>7, <2>8, <2>9
<1> QED
  BY <1>1, <1>2, <1>4, <1>5 DEF FundsOK, Backed

(* Totals that do not change need no coins to be moved.                    *)
LEMMA KeptFunds ==
  ASSUME NEW A, NEW C, FundsOK(A, C), NEW id \in DOMAIN A, NEW B,
         DifferAt(A, B, id), B[id].total = A[id].total
  PROVE  FundsOK(B, C)
<1>1. \A i \in DOMAIN B : B[i].total = A[i].total
  BY DEF DifferAt
<1>2. \A i \in DOMAIN B : i \in Ids /\ IsAccount(B[i])
  BY DEF FundsOK, DifferAt
<1> QED
  BY <1>1, <1>2 DEF FundsOK, Backed, DifferAt

(* The totals of an account are integers.                                  *)
LEMMA TotalsOf ==
  ASSUME NEW m, IsAccount(m)
  PROVE  m \in Accounts /\ m.total \in Balances /\ \A y \in Assets : m.total[y] \in Int
BY DEF IsAccount, Accounts, Balances

(* One total of an account is changed, and nothing else.                   *)
LEMMA TotalChanged ==
  ASSUME NEW m, IsAccount(m), NEW x \in Assets, NEW amount \in Int
  PROVE  LET r == [m EXCEPT !.total = Plus(m.total, x, amount)]
         IN /\ IsAccount(r)
            /\ \A y \in Assets :
                 r.total[y] = IF y = x THEN m.total[y] + amount ELSE m.total[y]
<1> DEFINE f == Plus(m.total, x, amount)
           r == [m EXCEPT !.total = f]
<1>1. m \in Accounts /\ m.total \in Balances
  BY TotalsOf
<1>2. f \in Balances
  BY <1>1, BalancesExcept DEF Plus
<1>3. \A y \in Assets : f[y] = IF y = x THEN m.total[y] + amount ELSE m.total[y]
  BY <1>1, BalanceAt
<1> HIDE DEF f
<1>4. r \in Accounts /\ r.orders = m.orders /\ r.top = m.top /\ r.total = f
  BY <1>1, <1>2 DEF Accounts, Balances
<1> HIDE DEF r
<1>5. IsAccount(r)
  BY <1>4, SameOrdersProperties DEF SameOrders
<1> QED
  BY <1>3, <1>4, <1>5 DEF r, f

(* What a fill moves: base and quote, in opposite directions.              *)
Routed(m, r, side, base, quote) ==
  LET sign == IF side = "ask" THEN 1 ELSE -1
  IN /\ r.total["base"] = m.total["base"] - sign * base
     /\ r.total["quote"] = m.total["quote"] + sign * quote

(* The coins follow the totals.                                            *)
LEMMA RoutedFunds ==
  ASSUME ConstantsTyped, NEW A, NEW C, FundsOK(A, C), NEW id \in DOMAIN A,
         NEW side \in Sides, NEW base \in Int, NEW quote \in Int,
         NEW B, DifferAt(A, B, id),
         Routed(A[id], B[id], side, base, quote)
  PROVE  FundsOK(B, Route(C, id, side, base, quote))
<1> DEFINE sign == IF side = "ask" THEN 1 ELSE -1
           b == -sign * base
           q == sign * quote
           r == [A[id] EXCEPT !.total = Plus(A[id].total, "base", b)]
           M == [A EXCEPT ![id] = r]
<1>1. b \in Int /\ q \in Int
  OBVIOUS
<1>2. /\ B[id].total["base"] = A[id].total["base"] + b
      /\ B[id].total["quote"] = A[id].total["quote"] + q
  <2>1. \A y \in Assets : A[id].total[y] \in Int
    BY TotalsOf DEF FundsOK
  <2>2. A[id].total["base"] \in Int /\ A[id].total["quote"] \in Int
    BY <2>1 DEF Assets
  <2> DEFINE sb == sign * base
  <2>3. sb \in Int /\ b = -sb
    OBVIOUS
  <2>4. B[id].total["base"] = A[id].total["base"] - sb
    BY DEF Routed
  <2>5. B[id].total["quote"] = A[id].total["quote"] + q
    BY DEF Routed
  <2> HIDE DEF sb, b, q
  <2> QED
    BY <2>2, <2>3, <2>4, <2>5
<1>3. Route(C, id, side, base, quote) =
        Moved(Moved(C, id, "base", b), id, "quote", q)
  BY DEF Route
<1> HIDE DEF sign, b, q
<1>4. IsAccount(A[id])
  BY DEF FundsOK
<1>5. /\ IsAccount(r)
      /\ \A y \in Assets : r.total[y] =
           IF y = "base" THEN A[id].total[y] + b ELSE A[id].total[y]
  BY <1>1, <1>4, TotalChanged DEF Assets
<1> HIDE DEF r
<1>6. DifferAt(A, M, id) /\ M[id] = r /\ DOMAIN M = DOMAIN A
  BY <1>5 DEF DifferAt
<1>7. \A i \in DOMAIN A : i # id => M[i] = A[i]
  OBVIOUS
<1> HIDE DEF M
<1>8. FundsOK(M, Moved(C, id, "base", b))
  <2>1. "base" \in Assets
    BY DEF Assets
  <2> QED
    BY <1>1, <1>5, <1>6, <2>1, MovedFunds
<1>9. DifferAt(M, B, id)
  BY <1>6, <1>7 DEF DifferAt
<1>10. \A y \in Assets : B[id].total[y] =
         IF y = "quote" THEN M[id].total[y] + q ELSE M[id].total[y]
  BY <1>2, <1>5, <1>6 DEF Assets
<1>11. FundsOK(B, Moved(Moved(C, id, "base", b), id, "quote", q))
  <2>1. "quote" \in Assets
    BY DEF Assets
  <2> DEFINE D == Moved(C, id, "base", b)
  <2>2. FundsOK(M, D)
    BY <1>8
  <2> HIDE DEF D
  <2>3. FundsOK(B, Moved(D, id, "quote", q))
    BY <1>1, <1>6, <1>9, <1>10, <2>1, <2>2, MovedFunds
  <2> QED
    BY <2>3 DEF D
<1> QED
  BY <1>3, <1>11

(* A new account has no coins.                                             *)
LEMMA EnteredFunds ==
  ASSUME ConstantsTyped, NEW A, NEW C, FundsOK(A, C),
         NEW market \in DOMAIN Markets, NEW custodian \in Nat,
         <<market, custodian>> \notin DOMAIN A
  PROVE  LET id == <<market, custodian>>
         IN FundsOK(Entered(A, id, EmptyAccount),
                    [x \in Coins |-> IF x \in CoinsOf(market)
                                       THEN Entered(C[x], id, 0) ELSE C[x]])
<1> DEFINE id == <<market, custodian>>
           B == Entered(A, id, EmptyAccount)
           D == [x \in Coins |-> IF x \in CoinsOf(market)
                                   THEN Entered(C[x], id, 0) ELSE C[x]]
<1>1. id \in Ids /\ id[1] = market
  BY DEF Ids
<1> HIDE DEF id
<1>2. /\ DOMAIN B = DOMAIN A \cup {id}
      /\ B[id] = EmptyAccount
      /\ \A i \in DOMAIN A : i # id => B[i] = A[i]
  BY DEF Entered
<1> HIDE DEF B
<1>3. \A i \in DOMAIN B : i \in Ids /\ IsAccount(B[i])
  BY <1>1, <1>2, EmptyAccountProperties DEF FundsOK
<1>4. DOMAIN D = Coins
  OBVIOUS
<1>5. id \notin DOMAIN A
  BY DEF id
<1>6. ASSUME NEW x \in Coins, x \in CoinsOf(market)
      PROVE  /\ DOMAIN D[x] = DOMAIN C[x] \cup {id}
             /\ D[x][id] = 0
             /\ \A i \in DOMAIN C[x] : i # id => D[x][i] = C[x][i]
  BY <1>6 DEF Entered
<1>7. ASSUME NEW x \in Coins, x \notin CoinsOf(market)
      PROVE  D[x] = C[x]
  BY <1>7
<1> HIDE DEF D
<1>8. ASSUME NEW x \in Coins
      PROVE  DOMAIN D[x] = {i \in DOMAIN B : x \in CoinsOf(i[1])}
  <2>1. DOMAIN C[x] = {i \in DOMAIN A : x \in CoinsOf(i[1])}
    BY DEF FundsOK
  <2>2. CASE x \in CoinsOf(market)
    BY <1>1, <1>2, <1>6, <2>1, <2>2
  <2>3. CASE x \notin CoinsOf(market)
    BY <1>1, <1>2, <1>7, <2>1, <2>3
  <2> QED
    BY <2>2, <2>3
<1>9. ASSUME NEW i \in DOMAIN B, NEW x \in Coins, NEW y \in Assets, TypeOf(i, y) = x
      PROVE  D[x][i] = B[i].total[y]
  <2>1. i \in Ids
    BY <1>3
  <2>2. y = "base" \/ y = "quote"
    BY DEF Assets
  <2>3. x \in CoinsOf(i[1])
    BY <1>9, <2>1, <2>2, TypesOfMarket
  <2>4. CASE i = id
    <3>1. D[x][i] = 0
      BY <1>1, <1>6, <2>3, <2>4
    <3>2. EmptyAccount.total[y] = 0
      BY DEF EmptyAccount
    <3> QED
      BY <1>2, <2>4, <3>1, <3>2
  <2>5. CASE i # id
    <3>1. i \in DOMAIN A /\ B[i] = A[i]
      BY <1>2, <2>5
    <3>2. i \in DOMAIN C[x] /\ C[x][i] = A[i].total[y]
      BY <1>9, <2>3, <3>1 DEF FundsOK, Backed
    <3>3. D[x][i] = C[x][i]
      BY <1>6, <1>7, <2>5, <3>2
    <3> QED
      BY <3>1, <3>2, <3>3
  <2> QED
    BY <2>4, <2>5
<1>10. FundsOK(B, D)
  BY <1>3, <1>4, <1>8, <1>9 DEF FundsOK, Backed
<1> QED
  BY <1>10 DEF B, D, id

-----------------------------------------------------------------------------
(* The accounts and coins of all users.                                    *)

FundsInv ==
  /\ counter \in Nat
  /\ DOMAIN accounts = Users /\ DOMAIN collateral = Users
  /\ \A u \in Users : FundsOK(accounts[u], collateral[u])

(* What is kept for users changes for one of them.                         *)
ChangesFor(u, f, g) ==
  DOMAIN g = DOMAIN f /\ \A v \in DOMAIN f : v # u => g[v] = f[v]

(* It suffices that the accounts and the coins of that user agree.         *)
LEMMA FundsOfOneUser ==
  ASSUME FundsInv, NEW u \in Users, ChangesFor(u, accounts, accounts'),
         ChangesFor(u, collateral, collateral'), counter' \in Nat,
         FundsOK(accounts'[u], collateral'[u])
  PROVE  FundsInv'
BY DEF FundsInv, ChangesFor

(* At first nobody has accounts or coins.                                  *)
LEMMA FundsInit ==
  ASSUME Init
  PROVE  FundsInv
<1>1. counter \in Nat /\ DOMAIN accounts = Users /\ DOMAIN collateral = Users
  BY DEF Init
<1>2. ASSUME NEW u \in Users
      PROVE  FundsOK(accounts[u], collateral[u])
  <2>1. accounts[u] = << >> /\ collateral[u] = [x \in Coins |-> << >>]
    BY DEF Init
  <2> DEFINE A == << >>
             C == [x \in Coins |-> << >>]
  <2>2. DOMAIN A = {} /\ DOMAIN C = Coins /\ \A x \in Coins : DOMAIN C[x] = {}
    OBVIOUS
  <2>3. accounts[u] = A /\ collateral[u] = C
    BY <2>1
  <2> HIDE DEF A, C
  <2> QED
    BY <2>2, <2>3 DEF FundsOK
<1> QED
  BY <1>1, <1>2 DEF FundsInv

(* Registration.                                                           *)
LEMMA AddAccountFunds ==
  ASSUME ConstantsTyped, FundsInv, NEW u \in Users,
         NEW market \in DOMAIN Markets, NEW custodian \in Nat,
         AddAccount(u, market, custodian), UNCHANGED counter
  PROVE  FundsInv'
<1> DEFINE id == <<market, custodian>>
           A == Entered(accounts[u], id, EmptyAccount)
           C == [x \in Coins |-> IF x \in CoinsOf(market)
                   THEN Entered(collateral[u][x], id, 0) ELSE collateral[u][x]]
<1>1. id \notin DOMAIN accounts[u]
  BY DEF AddAccount
<1>2. FundsOK(A, C)
  BY <1>1, EnteredFunds DEF FundsInv
<1>3. accounts' = [accounts EXCEPT ![u] = A]
  BY DEF AddAccount
<1>4. collateral' = [collateral EXCEPT ![u] = C]
  BY DEF AddAccount
<1> HIDE DEF A, C
<1>5. accounts'[u] = A /\ collateral'[u] = C
  BY <1>3, <1>4 DEF FundsInv
<1>6. ChangesFor(u, accounts, accounts') /\ ChangesFor(u, collateral, collateral')
  BY <1>3, <1>4 DEF ChangesFor
<1>7. counter' \in Nat
  BY DEF FundsInv
<1> QED
  BY <1>2, <1>5, <1>6, <1>7, FundsOfOneUser

(* A call changes one account of one user.                                 *)
LEMMA OneAccount ==
  ASSUME FundsInv, NEW u \in Users, NEW id \in DOMAIN accounts[u], NEW m,
         accounts' = [accounts EXCEPT ![u][id] = m]
  PROVE  /\ ChangesFor(u, accounts, accounts')
         /\ IsAccount(m) => DifferAt(accounts[u], accounts'[u], id)
         /\ accounts'[u][id] = m
         /\ IsAccount(accounts[u][id])
<1> DEFINE A == [accounts[u] EXCEPT ![id] = m]
<1>1. accounts' = [accounts EXCEPT ![u] = A]
  OBVIOUS
<1>2. /\ DOMAIN A = DOMAIN accounts[u]
      /\ A[id] = m
      /\ \A i \in DOMAIN accounts[u] : i # id => A[i] = accounts[u][i]
  OBVIOUS
<1> HIDE DEF A
<1>3. accounts'[u] = A
  BY <1>1 DEF FundsInv
<1>4. IsAccount(accounts[u][id])
  BY DEF FundsInv, FundsOK
<1> QED
  BY <1>1, <1>2, <1>3, <1>4 DEF ChangesFor, DifferAt

(* What stays changes for no user.                                         *)
LEMMA UnchangedFor ==
  ASSUME NEW u, NEW f, NEW g, g = f
  PROVE  ChangesFor(u, f, g)
BY DEF ChangesFor

(* A deposit brings its coins.                                             *)
LEMMA DepositFunds ==
  ASSUME ConstantsTyped, FundsInv, NEW u \in Users, NEW id \in DOMAIN accounts[u],
         NEW asset \in Assets, NEW amount \in Amounts, NEW underwriter,
         DepositAsset(u, id, asset, amount, underwriter)
  PROVE  FundsInv'
<1> DEFINE m == accounts[u][id]
           r == Deposit(m, asset, amount)
           C == Moved(collateral[u], id, asset, amount)
<1>1. accounts' = [accounts EXCEPT ![u][id] = r]
  BY DEF DepositAsset
<1>2. collateral' = [collateral EXCEPT ![u] = C] /\ counter' = counter
  BY DEF DepositAsset
<1>3. amount \in Int
  BY DEF ConstantsTyped
<1>4. IsAccount(m)
  BY DEF FundsInv, FundsOK
<1> HIDE DEF m
<1>5. IsAccount(r)
  BY <1>3, <1>4, DepositProperties DEF SameOrders
<1>6. r.total = Plus(m.total, asset, amount)
  BY <1>3, <1>4, DepositAmounts DEF Amounts3, IsAccount
<1>7. \A y \in Assets :
        r.total[y] = IF y = asset THEN m.total[y] + amount ELSE m.total[y]
  BY <1>3, <1>4, <1>6, TotalsOf, BalanceAt
<1> HIDE DEF r
<1>8. /\ ChangesFor(u, accounts, accounts')
      /\ DifferAt(accounts[u], accounts'[u], id)
      /\ accounts'[u][id] = r
  BY <1>1, <1>5, OneAccount
<1>9. FundsOK(accounts[u], collateral[u])
  BY DEF FundsInv
<1>10. FundsOK(accounts'[u], C)
  BY <1>3, <1>7, <1>8, <1>9, MovedFunds DEF m
<1> HIDE DEF C
<1>11. ChangesFor(u, collateral, collateral') /\ collateral'[u] = C /\ counter' \in Nat
  BY <1>2 DEF FundsInv, ChangesFor
<1> QED
  BY <1>8, <1>10, <1>11, FundsOfOneUser

(* A withdrawal takes them.                                                *)
LEMMA WithdrawFunds ==
  ASSUME ConstantsTyped, FundsInv, NEW u \in Users, NEW id \in DOMAIN accounts[u],
         NEW asset \in Assets, NEW amount \in Amounts, NEW underwriter,
         WithdrawAsset(u, id, asset, amount, underwriter)
  PROVE  FundsInv'
<1> DEFINE m == accounts[u][id]
           r == Withdraw(m, asset, amount)
           less == -amount
           C == Moved(collateral[u], id, asset, less)
<1>1. accounts' = [accounts EXCEPT ![u][id] = r]
  BY DEF WithdrawAsset
<1>2. collateral' = [collateral EXCEPT ![u] = C] /\ counter' = counter
  BY DEF WithdrawAsset
<1>3. amount \in Int /\ less \in Int
  BY DEF ConstantsTyped
<1>4. IsAccount(m)
  BY DEF FundsInv, FundsOK
<1> HIDE DEF m
<1>5. IsAccount(r)
  BY <1>3, <1>4, WithdrawProperties DEF SameOrders
<1>6. r.total = Minus(m.total, asset, amount)
  BY <1>3, <1>4, WithdrawAmounts DEF Amounts3, IsAccount
<1>7. \A y \in Assets :
        r.total[y] = IF y = asset THEN m.total[y] + less ELSE m.total[y]
  <2>1. \A y \in Assets : m.total[y] \in Int /\
          r.total[y] = IF y = asset THEN m.total[y] - amount ELSE m.total[y]
    BY <1>3, <1>4, <1>6, TotalsOf, BalanceAt
  <2> QED
    BY <1>3, <2>1
<1> HIDE DEF r, less
<1>8. /\ ChangesFor(u, accounts, accounts')
      /\ DifferAt(accounts[u], accounts'[u], id)
      /\ accounts'[u][id] = r
  BY <1>1, <1>5, OneAccount
<1>9. FundsOK(accounts[u], collateral[u])
  BY DEF FundsInv
<1>10. FundsOK(accounts'[u], C)
  BY <1>3, <1>7, <1>8, <1>9, MovedFunds DEF m
<1> HIDE DEF C
<1>11. ChangesFor(u, collateral, collateral') /\ collateral'[u] = C /\ counter' \in Nat
  BY <1>2 DEF FundsInv, ChangesFor
<1> QED
  BY <1>8, <1>10, <1>11, FundsOfOneUser

(* Orders that are placed or cancelled move no coins.                      *)
LEMMA SameTotals ==
  ASSUME FundsInv, NEW u \in Users, NEW id \in DOMAIN accounts[u], NEW m,
         accounts' = [accounts EXCEPT ![u][id] = m], UNCHANGED collateral,
         counter' \in Nat, IsAccount(m), m.total = accounts[u][id].total
  PROVE  FundsInv'
<1>1. /\ ChangesFor(u, accounts, accounts')
      /\ DifferAt(accounts[u], accounts'[u], id)
      /\ accounts'[u][id].total = accounts[u][id].total
  BY OneAccount
<1>2. FundsOK(accounts[u], collateral[u])
  BY DEF FundsInv
<1>3. FundsOK(accounts'[u], collateral[u])
  BY <1>1, <1>2, KeptFunds
<1>4. ChangesFor(u, collateral, collateral')
  BY UnchangedFor
<1> QED
  BY <1>1, <1>3, <1>4, FundsOfOneUser

(* An order is placed.                                                     *)
LEMMA PlaceOrderFunds ==
  ASSUME ConstantsTyped, FundsInv, NEW u \in Users, NEW id \in DOMAIN accounts[u],
         NEW side \in Sides, NEW size \in Sizes, NEW price \in Prices,
         PlaceOrderOf(u, id, side, size, price)
  PROVE  FundsInv'
<1> DEFINE m == accounts[u][id]
           order == MarketOrderId(counter + 1, NIL, price)
           r == PlaceOrder(m, side, size, price, order)
<1>1. /\ accounts' = [accounts EXCEPT ![u][id] = r]
      /\ counter' = counter + 1 /\ UNCHANGED collateral
  BY DEF PlaceOrderOf
<1>2. size \in Int /\ price \in Nat /\ counter \in Nat /\ counter + 1 \in Nat
  BY DEF ConstantsTyped, FundsInv
<1>3. order \in MarketOrderIds /\ order # NilOrderId
  BY <1>2 DEF MarketOrderId, MarketOrderIds, NilOrderId, NIL
<1>4. IsAccount(m)
  BY DEF FundsInv, FundsOK
<1> HIDE DEF m, order
<1>5. IsAccount(r)
  <2>1. price \in Int
    BY <1>2
  <2>2. Opens(m, r, side, NextOrderAccessKey(m, side), [id |-> order, size |-> size])
    BY <1>2, <1>3, <1>4, <2>1, PlaceOrderProperties
  <2> HIDE DEF r
  <2> QED
    BY <2>2 DEF Opens
<1>6. r.total = m.total
  BY <1>4, PlaceOrderAmounts DEF Amounts3, IsAccount
<1> HIDE DEF r
<1> QED
  BY <1>1, <1>2, <1>5, <1>6, SameTotals DEF m

(* An order is cancelled.                                                  *)
LEMMA CancelOrderFunds ==
  ASSUME FundsInv, NEW u \in Users, NEW id \in DOMAIN accounts[u],
         NEW side \in Sides, NEW key \in ActiveKeys(accounts[u][id], side),
         CancelOrderOf(u, id, side, key)
  PROVE  FundsInv'
<1> DEFINE m == accounts[u][id]
           price == m.orders[side][key].id.price
           r == CancelOrder(m, side, price, key)
<1>1. /\ accounts' = [accounts EXCEPT ![u][id] = r]
      /\ counter' \in Nat /\ UNCHANGED collateral
  BY DEF CancelOrderOf, FundsInv
<1>2. IsAccount(m) /\ key \in ActiveKeys(m, side)
  BY DEF FundsInv, FundsOK
<1> HIDE DEF m
<1>3. price \in Int
  BY <1>2, AccountParts DEF IsAccount, ActiveKeys, MarketOrderIds
<1> HIDE DEF price
<1>4. IsAccount(r)
  BY <1>2, <1>3, CancelOrderProperties DEF Closes
<1>5. r.total = m.total
  BY <1>2, CancelOrderAmounts DEF Amounts3, IsAccount
<1> HIDE DEF r
<1> QED
  BY <1>1, <1>4, <1>5, SameTotals DEF m

(* A fill of a maker's order moves what it says.                           *)
LEMMA MakerRouted ==
  ASSUME NEW m, IsAccount(m), NEW side \in Sides, NEW key \in ActiveKeys(m, side),
         NEW size \in Int, NEW price \in Int, NEW complete \in BOOLEAN
  PROVE  LET r == FillOrder(m, side, key, size, complete, price)
         IN /\ IsAccount(r)
            /\ Routed(m, r, side, Units("base", size, price), Units("quote", size, price))
<1> DEFINE r == FillOrder(m, side, key, size, complete, price)
           in == InAsset(side)
           out == OutAsset(side)
           a == Units(in, size, price)
           b == Units(out, size, price)
<1>1. IsAccount(r)
  <2>1. CASE complete = TRUE
    <3>1. Closes(m, r, side, key)
      BY <2>1, FillOrderProperties
    <3> HIDE DEF r
    <3> QED
      BY <3>1 DEF Closes
  <2>2. CASE complete = FALSE
    <3>1. Resizes(m, r, side, key, m.orders[side][key].size - size)
      BY <2>2, FillOrderProperties
    <3> HIDE DEF r
    <3> QED
      BY <3>1 DEF Resizes
  <2> QED
    BY <2>1, <2>2
<1>2. r.total = Minus(Plus(m.total, in, a), out, b)
  <2>1. m \in Accounts
    BY DEF IsAccount
  <2>2. Amounts3(r, Minus(Plus(m.total, in, a), out, b), Plus(m.available, in, a),
                 Minus(m.ceiling, out, b))
    BY <2>1, FillOrderAmounts
  <2> HIDE DEF r, in, out, a, b
  <2> QED
    BY <2>2 DEF Amounts3
<1>3. in \in Assets /\ out \in Assets /\ in # out
  BY AssetsOfSides DEF InAsset, OutAsset
<1>4. a \in Int /\ b \in Int
  BY UnitsType
<1>5. m.total \in Balances
  BY TotalsOf
<1> HIDE DEF r
<1>6. Plus(m.total, in, a) \in Balances
  BY <1>3, <1>4, <1>5, BalancesExcept DEF Plus
<1>7. r.total[in] = m.total[in] + a /\ r.total[out] = m.total[out] - b
  <2> HIDE DEF in, out, a, b
  <2>1. Plus(m.total, in, a)[in] = m.total[in] + a
    BY <1>3, <1>4, <1>5, BalanceAt
  <2>2. Plus(m.total, in, a)[out] = m.total[out]
    BY <1>3, <1>4, <1>5, BalanceAt
  <2> DEFINE f == Plus(m.total, in, a)
  <2>3. f \in Balances /\ f[in] = m.total[in] + a /\ f[out] = m.total[out]
        /\ r.total = Minus(f, out, b)
    BY <1>2, <1>6, <2>1, <2>2
  <2> HIDE DEF f
  <2>4. Minus(f, out, b)[in] = f[in] /\ Minus(f, out, b)[out] = f[out] - b
    BY <1>3, <1>4, <2>3, BalanceAt
  <2> QED
    BY <2>3, <2>4
<1>8. Routed(m, r, side, Units("base", size, price), Units("quote", size, price))
  <2>0. /\ m.total[in] \in Int /\ m.total[out] \in Int
    BY <1>3, TotalsOf
  <2>1. CASE side = "ask"
    <3>1. in = "quote" /\ out = "base"
      BY <2>1 DEF InAsset, OutAsset
    <3> HIDE DEF in, out
    <3> DEFINE base == Units("base", size, price)
               quote == Units("quote", size, price)
    <3>2. a = quote /\ b = base
      BY <3>1
    <3> HIDE DEF a, b, base, quote
    <3>3. Routed(m, r, side, base, quote)
      BY <1>4, <1>7, <2>0, <2>1, <3>1, <3>2 DEF Routed
    <3> QED
      BY <3>3 DEF base, quote
  <2>2. CASE side = "bid"
    <3>1. in = "base" /\ out = "quote"
      BY <2>2 DEF InAsset, OutAsset
    <3> HIDE DEF in, out
    <3> DEFINE base == Units("base", size, price)
               quote == Units("quote", size, price)
    <3>2. a = base /\ b = quote
      BY <3>1
    <3> HIDE DEF a, b, base, quote
    <3>3. Routed(m, r, side, base, quote)
      BY <1>4, <1>7, <2>0, <2>2, <3>1, <3>2 DEF Routed
    <3> QED
      BY <3>3 DEF base, quote
  <2> QED
    BY <2>1, <2>2 DEF Sides
<1> QED
  BY <1>1, <1>8 DEF r

(* What a taker gives and receives is what the maker receives and gives.   *)
LEMMA TakerRouted ==
  ASSUME NEW m, IsAccount(m), NEW side \in Sides, NEW size \in Int, NEW price \in Int
  PROVE  LET gives == InAsset(side)
             gets == OutAsset(side)
             r == Deposit(Withdraw(m, gives, Units(gives, size, price)),
                          gets, Units(gets, size, price))
         IN /\ IsAccount(r)
            /\ Routed(m, r, Opposite(side), Units("base", size, price),
                      Units("quote", size, price))
<1> DEFINE in == InAsset(side)
           out == OutAsset(side)
           a == Units(in, size, price)
           b == Units(out, size, price)
           w == Withdraw(m, in, a)
           r == Deposit(w, out, b)
<1>1. in \in Assets /\ out \in Assets /\ in # out
  BY AssetsOfSides DEF InAsset, OutAsset
<1>2. a \in Int /\ b \in Int
  BY UnitsType
<1> HIDE DEF a, b, in, out
<1>3. IsAccount(w) /\ w.total = Minus(m.total, in, a)
  <2>1. SameOrders(m, w)
    BY <1>1, <1>2, WithdrawProperties
  <2>2. Amounts3(w, Minus(m.total, in, a), Minus(m.available, in, a),
                 Minus(m.ceiling, in, a))
    BY <1>1, <1>2, WithdrawAmounts DEF IsAccount
  <2> HIDE DEF w
  <2> QED
    BY <2>1, <2>2 DEF SameOrders, Amounts3
<1> HIDE DEF w
<1>4. IsAccount(r) /\ r.total = Plus(w.total, out, b)
  <2>1. SameOrders(w, r)
    BY <1>1, <1>2, <1>3, DepositProperties
  <2>2. Amounts3(r, Plus(w.total, out, b), Plus(w.available, out, b),
                 Plus(w.ceiling, out, b))
    BY <1>1, <1>2, <1>3, DepositAmounts DEF IsAccount
  <2> HIDE DEF r
  <2> QED
    BY <2>1, <2>2 DEF SameOrders, Amounts3
<1> HIDE DEF r
<1>5. m.total \in Balances /\ w.total \in Balances
  BY <1>3, TotalsOf
<1>6. w.total[in] = m.total[in] - a /\ w.total[out] = m.total[out]
  BY <1>1, <1>2, <1>3, <1>5, BalanceAt
<1>7. r.total[in] = w.total[in] /\ r.total[out] = w.total[out] + b
  BY <1>1, <1>2, <1>4, <1>5, BalanceAt
<1>8. Routed(m, r, Opposite(side), Units("base", size, price), Units("quote", size, price))
  <2>0. /\ m.total[in] \in Int /\ m.total[out] \in Int
    BY <1>1, TotalsOf
  <2>1. CASE side = "ask"
    <3>1. in = "quote" /\ out = "base" /\ Opposite(side) = "bid"
      BY <2>1 DEF InAsset, OutAsset, Opposite, in, out
    <3> DEFINE base == Units("base", size, price)
               quote == Units("quote", size, price)
    <3>2. a = quote /\ b = base
      BY <3>1 DEF a, b
    <3> HIDE DEF base, quote
    <3>3. Routed(m, r, Opposite(side), base, quote)
      BY <1>2, <1>6, <1>7, <2>0, <3>1, <3>2 DEF Routed
    <3> QED
      BY <3>3 DEF base, quote
  <2>2. CASE side = "bid"
    <3>1. in = "base" /\ out = "quote" /\ Opposite(side) = "ask"
      BY <2>2 DEF InAsset, OutAsset, Opposite, in, out
    <3> DEFINE base == Units("base", size, price)
               quote == Units("quote", size, price)
    <3>2. a = base /\ b = quote
      BY <3>1 DEF a, b
    <3> HIDE DEF base, quote
    <3>3. Routed(m, r, Opposite(side), base, quote)
      BY <1>2, <1>6, <1>7, <2>0, <3>1, <3>2 DEF Routed
    <3> QED
      BY <3>3 DEF base, quote
  <2> QED
    BY <2>1, <2>2 DEF Sides
<1> QED
  BY <1>4, <1>8 DEF r, w, a, b, in, out

(* One account is replaced.                                                *)
Puts(f, g, u, id, m) ==
  /\ DOMAIN g = DOMAIN f
  /\ \A v \in DOMAIN f : DOMAIN g[v] = DOMAIN f[v]
  /\ \A v \in DOMAIN f : \A i \in DOMAIN f[v] :
       g[v][i] = IF v = u /\ i = id THEN m ELSE f[v][i]

(* EXCEPT replaces one.                                                    *)
LEMMA PutsExcept ==
  ASSUME NEW f, NEW u \in DOMAIN f, NEW id \in DOMAIN f[u], NEW m
  PROVE  Puts(f, [f EXCEPT ![u][id] = m], u, id, m)
<1> DEFINE A == [f[u] EXCEPT ![id] = m]
           g == [f EXCEPT ![u] = A]
<1>1. DOMAIN A = DOMAIN f[u]
  OBVIOUS
<1>2. \A i \in DOMAIN f[u] : A[i] = IF i = id THEN m ELSE f[u][i]
  OBVIOUS
<1> HIDE DEF A
<1>3. DOMAIN g = DOMAIN f /\ g[u] = A
  OBVIOUS
<1>4. \A v \in DOMAIN f : v # u => g[v] = f[v]
  OBVIOUS
<1> HIDE DEF g
<1>5. Puts(f, g, u, id, m)
  BY <1>1, <1>2, <1>3, <1>4 DEF Puts
<1> QED
  BY <1>5 DEF g, A

(* Both accounts of a fill, after the withdrawal, the fill, the deposit.   *)
LEMMA BothAccounts ==
  ASSUME NEW f, NEW u \in DOMAIN f, NEW i \in DOMAIN f[u],
         NEW v \in DOMAIN f, NEW j \in DOMAIN f[v], <<u, i>> # <<v, j>>,
         NEW w, NEW m, NEW d, NEW f1, NEW f2, NEW g,
         Puts(f, f1, v, j, w), Puts(f1, f2, u, i, m), Puts(f2, g, v, j, d)
  PROVE  /\ DOMAIN g = DOMAIN f
         /\ \A x \in DOMAIN f : DOMAIN g[x] = DOMAIN f[x]
         /\ g[u][i] = m /\ g[v][j] = d
         /\ \A x \in DOMAIN f : \A k \in DOMAIN f[x] :
              <<x, k>> # <<u, i>> /\ <<x, k>> # <<v, j>> => g[x][k] = f[x][k]
BY DEF Puts

(* A taker and a maker, who may be the same user, swap the coins of a fill. *)
LEMMA FillOrderFunds ==
  ASSUME ConstantsTyped, FundsInv, NEW maker \in Users, NEW taker \in Users,
         NEW id \in DOMAIN accounts[maker], NEW takerId \in DOMAIN accounts[taker],
         NEW side \in Sides, NEW key \in ActiveKeys(accounts[maker][id], side),
         NEW size \in Sizes, FillOrderOf(maker, taker, id, takerId, side, key, size)
  PROVE  FundsInv'
<1> DEFINE m == accounts[maker][id]
           t == accounts[taker][takerId]
           order == m.orders[side][key]
           price == order.id.price
           base  == Units("base", size, price)
           quote == Units("quote", size, price)
           gives == InAsset(side)
           gets  == OutAsset(side)
           w == Withdraw(t, gives, Units(gives, size, price))
           f1 == [accounts EXCEPT ![taker][takerId] = w]
           r == FillOrder(m, side, key, size, size = order.size, price)
           f2 == [f1 EXCEPT ![maker][id] = r]
           d == Deposit(w, gets, Units(gets, size, price))
<1>1. DOMAIN accounts = Users /\ DOMAIN collateral = Users /\ counter \in Nat
  BY DEF FundsInv
<1>2. IsAccount(m) /\ IsAccount(t)
  BY DEF FundsInv, FundsOK
<1>3. size \in Int /\ price \in Int
  BY <1>2, AccountParts DEF IsAccount, ActiveKeys, MarketOrderIds, ConstantsTyped
<1>4. IsAccount(r) /\ Routed(m, r, side, base, quote)
  <2> HIDE DEF m, price
  <2>1. key \in ActiveKeys(m, side) /\ (size = order.size) \in BOOLEAN
    BY DEF m
  <2> HIDE DEF order
  <2> QED
    BY <1>2, <1>3, <2>1, MakerRouted
<1>5. IsAccount(d) /\ Routed(t, d, Opposite(side), base, quote)
  <2> HIDE DEF t, price
  <2> QED
    BY <1>2, <1>3, TakerRouted
<1>6. base \in Int /\ quote \in Int
  BY <1>3, UnitsType
<1>7. <<maker, id>> # <<taker, takerId>>
  BY DEF FillOrderOf
<1>8. Puts(accounts, f1, taker, takerId, w)
  <2> HIDE DEF w
  <2> QED
    BY <1>1, PutsExcept
<1>9. f1[maker][id] = m /\ f1[taker][takerId] = w
  <2> HIDE DEF f1, w
  <2> QED
    BY <1>1, <1>7, <1>8 DEF Puts
<1>10. Puts(f1, f2, maker, id, r)
  <2> HIDE DEF r
  <2>1. maker \in DOMAIN f1 /\ id \in DOMAIN f1[maker]
    <3> HIDE DEF f1, w
    <3> QED
      BY <1>1, <1>8 DEF Puts
  <2> HIDE DEF f1
  <2> QED
    BY <2>1, PutsExcept
<1>11. /\ taker \in DOMAIN f2 /\ takerId \in DOMAIN f2[taker]
       /\ f2[taker][takerId] = w
  <2> HIDE DEF f1, f2, w, r
  <2> QED
    BY <1>1, <1>7, <1>8, <1>10 DEF Puts
<1>12. accounts' = [f2 EXCEPT ![taker][takerId] = d]
  <2>1. accounts' = [f2 EXCEPT ![taker][takerId] =
                       Deposit(f2[taker][takerId], gets, Units(gets, size, price))]
    <3>1. f2 = [f1 EXCEPT ![maker][id] =
                  FillOrder(f1[maker][id], side, key, size, size = order.size, price)]
      BY <1>9, Zenon
    <3> QED
      BY <3>1, Zenon DEF FillOrderOf
  <2> QED
    BY <1>11, <2>1, Zenon
<1>13. Puts(f2, accounts', taker, takerId, d)
  <2> HIDE DEF f2, d
  <2> QED
    BY <1>11, <1>12, PutsExcept

<1>14. UNCHANGED counter
  BY DEF FillOrderOf
<1> DEFINE routed == [collateral EXCEPT ![maker] = Route(@, id, side, base, quote)]
<1>15. collateral' = [routed EXCEPT ![taker] = Route(@, takerId, Opposite(side), base, quote)]
  BY DEF FillOrderOf
<1> HIDE DEF f1, f2, w, r, d, m, t, order, price, base, quote, gives, gets
<1>16. /\ DOMAIN accounts' = Users
       /\ \A x \in Users : DOMAIN accounts'[x] = DOMAIN accounts[x]
       /\ accounts'[maker][id] = r /\ accounts'[taker][takerId] = d
       /\ \A x \in Users : \A k \in DOMAIN accounts[x] :
            <<x, k>> # <<maker, id>> /\ <<x, k>> # <<taker, takerId>>
              => accounts'[x][k] = accounts[x][k]
  BY <1>1, <1>7, <1>8, <1>10, <1>13, BothAccounts
<1>17. accounts[maker][id] = m /\ accounts[taker][takerId] = t
  BY DEF m, t
<1>18. DOMAIN collateral' = Users
  BY <1>1, <1>15
<1>19. \A x \in Users : FundsOK(accounts[x], collateral[x])
  BY DEF FundsInv
<1>20. Opposite(side) \in Sides
  BY DEF Opposite, Sides
<1>21. CASE maker # taker
  <2>1. collateral'[maker] = Route(collateral[maker], id, side, base, quote)
    BY <1>1, <1>15, <1>21
  <2>2. collateral'[taker] = Route(collateral[taker], takerId, Opposite(side), base, quote)
    BY <1>1, <1>15, <1>21
  <2>3. DifferAt(accounts[maker], accounts'[maker], id)
    BY <1>4, <1>16, <1>21 DEF DifferAt
  <2>4. DifferAt(accounts[taker], accounts'[taker], takerId)
    BY <1>5, <1>16, <1>21 DEF DifferAt
  <2>5. FundsOK(accounts'[maker], collateral'[maker])
    BY <1>4, <1>6, <1>16, <1>17, <1>19, <2>1, <2>3, RoutedFunds
  <2>6. FundsOK(accounts'[taker], collateral'[taker])
    BY <1>5, <1>6, <1>16, <1>17, <1>19, <1>20, <2>2, <2>4, RoutedFunds
  <2>7. ASSUME NEW x \in Users, x # maker, x # taker
        PROVE  FundsOK(accounts'[x], collateral'[x])
    <3>1. collateral'[x] = collateral[x]
      BY <1>1, <1>15, <2>7
    <3>2. /\ DOMAIN accounts'[x] = DOMAIN accounts[x]
          /\ \A k \in DOMAIN accounts[x] : accounts'[x][k] = accounts[x][k]
      BY <1>16, <2>7
    <3>3. FundsOK(accounts[x], collateral[x])
      BY <1>19
    <3> QED
      BY <3>1, <3>2, <3>3 DEF FundsOK, Backed
  <2> QED
    BY <1>1, <1>14, <1>16, <1>18, <2>5, <2>6, <2>7 DEF FundsInv
<1>22. CASE maker = taker
  <2> DEFINE B == [accounts[maker] EXCEPT ![id] = r]
             C == Route(collateral[maker], id, side, base, quote)
  <2>1. collateral'[maker] = Route(C, takerId, Opposite(side), base, quote)
    BY <1>1, <1>15, <1>22
  <2>2. /\ DOMAIN B = DOMAIN accounts[maker] /\ B[id] = r
        /\ \A k \in DOMAIN accounts[maker] : k # id => B[k] = accounts[maker][k]
    OBVIOUS
  <2> HIDE DEF B
  <2>3. DifferAt(accounts[maker], B, id)
    BY <1>4, <2>2 DEF DifferAt
  <2>4. FundsOK(B, C)
    BY <1>4, <1>6, <1>17, <1>19, <2>2, <2>3, RoutedFunds
  <2> HIDE DEF C
  <2>5. takerId # id /\ takerId \in DOMAIN B /\ B[takerId] = t
    BY <1>7, <1>17, <1>22, <2>2
  <2>6. DifferAt(B, accounts'[maker], takerId) /\ accounts'[maker][takerId] = d
    BY <1>5, <1>7, <1>16, <1>22, <2>2 DEF DifferAt
  <2>7. FundsOK(accounts'[maker], collateral'[maker])
    BY <1>5, <1>6, <1>20, <2>1, <2>4, <2>5, <2>6, RoutedFunds
  <2>8. ASSUME NEW x \in Users, x # maker
        PROVE  FundsOK(accounts'[x], collateral'[x])
    <3>1. collateral'[x] = collateral[x]
      BY <1>1, <1>15, <1>22, <2>8
    <3>2. /\ DOMAIN accounts'[x] = DOMAIN accounts[x]
          /\ \A k \in DOMAIN accounts[x] : accounts'[x][k] = accounts[x][k]
      BY <1>16, <1>22, <2>8
    <3>3. FundsOK(accounts[x], collateral[x])
      BY <1>19
    <3> QED
      BY <3>1, <3>2, <3>3 DEF FundsOK, Backed
  <2> QED
    BY <1>1, <1>14, <1>16, <1>18, <2>7, <2>8 DEF FundsInv
<1> QED
  BY <1>21, <1>22

(* Every step keeps accounts and coins in agreement.                       *)
LEMMA FundsStep ==
  ASSUME ConstantsTyped, FundsInv, [Next]_vars
  PROVE  FundsInv'
<1>1. CASE UNCHANGED vars
  BY <1>1 DEF vars, FundsInv
<1>2. CASE Upgrade
  BY <1>2 DEF Upgrade, FundsInv, fundsVars
<1>3. CASE Registers
  <2>1. PICK u \in Users :
          \/ \E market \in DOMAIN Markets, custodian \in 0..NCustodians + 1 :
               \/ RegisterMarketAccount(u, market, custodian)
               \/ RegisterWithoutHandles(u, market, custodian)
          \/ \E id \in DOMAIN accounts[u] : InitMarketEventHandlesIfMissing(u, id)
    BY <1>3 DEF Registers
  <2>2. ASSUME NEW market \in DOMAIN Markets, NEW custodian \in 0..NCustodians + 1,
               \/ RegisterMarketAccount(u, market, custodian)
               \/ RegisterWithoutHandles(u, market, custodian)
        PROVE  FundsInv'
    <3>1. AddAccount(u, market, custodian) /\ UNCHANGED counter
      BY <2>2 DEF RegisterMarketAccount, RegisterWithoutHandles
    <3>2. custodian \in Nat
      BY DEF ConstantsTyped
    <3> QED
      BY <3>1, <3>2, AddAccountFunds
  <2>3. ASSUME NEW id \in DOMAIN accounts[u], InitMarketEventHandlesIfMissing(u, id)
        PROVE  FundsInv'
    BY <2>3 DEF InitMarketEventHandlesIfMissing, FundsInv, fundsVars
  <2> QED
    BY <2>1, <2>2, <2>3
<1>4. CASE Funds
  BY <1>4, DepositFunds, WithdrawFunds DEF Funds
<1>5. CASE Trades
  <2>1. PICK u \in Users : \E id \in DOMAIN accounts[u] : \E side \in Sides :
          \/ \E size \in Sizes, price \in Prices : PlaceOrderOf(u, id, side, size, price)
          \/ \E key \in ActiveKeys(accounts[u][id], side) :
               \/ CancelOrderOf(u, id, side, key)
               \/ \E taker \in Users, size \in Sizes :
                    \E takerId \in DOMAIN accounts[taker] :
                      FillOrderOf(u, taker, id, takerId, side, key, size)
    BY <1>5 DEF Trades
  <2> QED
    BY <2>1, PlaceOrderFunds, CancelOrderFunds, FillOrderFunds
<1> QED
  BY <1>1, <1>2, <1>3, <1>4, <1>5 DEF Next

(* Accounts and coins that agree are what the property asks for.           *)
LEMMA FundsImplyProperty ==
  ASSUME FundsInv
  PROVE  CollateralBacksTotals
<1>1. ASSUME NEW u \in Users, NEW x \in Coins
      PROVE  /\ DOMAIN collateral[u][x] = {id \in DOMAIN accounts[u] : x \in CoinsOf(id[1])}
             /\ \A id \in DOMAIN collateral[u][x] : \A asset \in Assets :
                  TypeOf(id, asset) = x => collateral[u][x][id] = accounts[u][id].total[asset]
  <2>1. FundsOK(accounts[u], collateral[u])
    BY DEF FundsInv
  <2> DEFINE A == accounts[u]
             C == collateral[u]
  <2>2. FundsOK(A, C)
    BY <2>1
  <2> HIDE DEF A, C
  <2>3. /\ DOMAIN C[x] = {id \in DOMAIN A : x \in CoinsOf(id[1])}
        /\ \A id \in DOMAIN C[x] : \A asset \in Assets :
             TypeOf(id, asset) = x => C[x][id] = A[id].total[asset]
    BY <2>2 DEF FundsOK, Backed
  <2> QED
    BY <2>3 DEF A, C
<1> QED
  BY <1>1 DEF CollateralBacksTotals

(* The coins that lie in the maps of collateral, one for each type of      *)
(* coin, are at all times what the totals of the accounts say, whichever   *)
(* accounts deposit, withdraw and fill each other's orders, and whatever   *)
(* markets share a coin.                                                   *)
THEOREM CollateralKept ==
  ASSUME ConstantsTyped
  PROVE  Spec => []CollateralBacksTotals
<1>1. Init => FundsInv
  BY FundsInit
<1>2. FundsInv /\ [Next]_vars => FundsInv'
  BY FundsStep
<1>3. FundsInv => CollateralBacksTotals
  BY FundsImplyProperty
<1> QED
  BY <1>1, <1>2, <1>3, PTL DEF Spec

-----------------------------------------------------------------------------
(* Handles.                                                                *)

(* The handles of one user, with the accounts A and the creation number    *)
(* that is next: their numbers are below it, five apart.                   *)
HandlesOK(H, A, next) ==
  /\ next \in Nat
  /\ DOMAIN H \subseteq DOMAIN A
  /\ \A i \in DOMAIN H : H[i] \in Nat /\ H[i] + NewHandles <= next
  /\ \A i, j \in DOMAIN H :
       i # j => H[i] + NewHandles <= H[j] \/ H[j] + NewHandles <= H[i]

HandlesInv ==
  /\ DOMAIN accounts = Users /\ DOMAIN handles = Users /\ DOMAIN guids = Users
  /\ \A u \in Users : HandlesOK(handles[u], accounts[u], guids[u])

(* New handles come after all that there are.                              *)
LEMMA EnteredHandles ==
  ASSUME NEW H, NEW A, NEW next, HandlesOK(H, A, next),
         NEW id \in DOMAIN A, id \notin DOMAIN H
  PROVE  HandlesOK(Entered(H, id, next), A, next + NewHandles)
<1> DEFINE G == Entered(H, id, next)
<1>1. /\ DOMAIN G = DOMAIN H \cup {id}
      /\ G[id] = next
      /\ \A i \in DOMAIN H : G[i] = H[i]
  BY DEF Entered
<1> HIDE DEF G
<1>2. next \in Nat /\ NewHandles = 5
  BY DEF HandlesOK, NewHandles
<1>3. \A i \in DOMAIN G : G[i] \in Nat /\ G[i] + NewHandles <= next + NewHandles
  BY <1>1, <1>2 DEF HandlesOK
<1>4. \A i, j \in DOMAIN G :
        i # j => G[i] + NewHandles <= G[j] \/ G[j] + NewHandles <= G[i]
  BY <1>1, <1>2 DEF HandlesOK
<1>5. DOMAIN G \subseteq DOMAIN A /\ next + NewHandles \in Nat
  BY <1>1, <1>2 DEF HandlesOK
<1>6. HandlesOK(G, A, next + NewHandles)
  BY <1>3, <1>4, <1>5 DEF HandlesOK
<1> QED
  BY <1>6 DEF G

(* At first there are none.                                                *)
LEMMA HandlesInit ==
  ASSUME Init
  PROVE  HandlesInv
<1> DEFINE H == << >>
<1>1. DOMAIN H = {}
  OBVIOUS
<1>2. \A u \in Users : handles[u] = H /\ guids[u] = 0
  BY DEF Init
<1> HIDE DEF H
<1>3. DOMAIN accounts = Users /\ DOMAIN handles = Users /\ DOMAIN guids = Users
  BY DEF Init
<1> QED
  BY <1>1, <1>2, <1>3 DEF HandlesInv, HandlesOK

(* Accounts are added and never removed.                                   *)
AccountsGrow ==
  /\ DOMAIN accounts' = DOMAIN accounts
  /\ \A u \in DOMAIN accounts : DOMAIN accounts[u] \subseteq DOMAIN accounts'[u]

(* What a step does to handles: nothing, or it makes those of one account. *)
HandlesStay == UNCHANGED <<handles, guids>>
HandlesMade ==
  \E u \in Users : \E id \in DOMAIN accounts'[u] :
    /\ id \notin DOMAIN handles[u]
    /\ handles' = [handles EXCEPT ![u] = Entered(@, id, guids[u])]
    /\ guids' = [guids EXCEPT ![u] = @ + NewHandles]

(* Either way handles stay in order, and those that there are stay.        *)
LEMMA HandlesFollow ==
  ASSUME HandlesInv, AccountsGrow, HandlesStay \/ HandlesMade
  PROVE  /\ HandlesInv'
         /\ \A u \in DOMAIN handles : \A id \in DOMAIN handles[u] :
              id \in DOMAIN handles'[u] /\ handles'[u][id] = handles[u][id]
<1>1. ASSUME NEW u \in Users
      PROVE  HandlesOK(handles[u], accounts'[u], guids[u])
  BY DEF HandlesInv, HandlesOK, AccountsGrow
<1>2. DOMAIN accounts' = Users
  BY DEF AccountsGrow, HandlesInv
<1>3. CASE HandlesStay
  BY <1>1, <1>2, <1>3 DEF HandlesStay, HandlesInv
<1>4. CASE HandlesMade
  <2>1. PICK u \in Users : \E id \in DOMAIN accounts'[u] :
          /\ id \notin DOMAIN handles[u]
          /\ handles' = [handles EXCEPT ![u] = Entered(@, id, guids[u])]
          /\ guids' = [guids EXCEPT ![u] = @ + NewHandles]
    BY <1>4 DEF HandlesMade
  <2>2. PICK id \in DOMAIN accounts'[u] :
          /\ id \notin DOMAIN handles[u]
          /\ handles' = [handles EXCEPT ![u] = Entered(@, id, guids[u])]
          /\ guids' = [guids EXCEPT ![u] = @ + NewHandles]
    BY <2>1
  <2> DEFINE H == Entered(handles[u], id, guids[u])
             next == guids[u] + NewHandles
  <2>3. HandlesOK(H, accounts'[u], next)
    BY <1>1, <2>2, EnteredHandles
  <2>4. \A i \in DOMAIN handles[u] : i \in DOMAIN H /\ H[i] = handles[u][i]
    BY <2>2 DEF Entered
  <2>5. handles' = [handles EXCEPT ![u] = H] /\ guids' = [guids EXCEPT ![u] = next]
    BY <2>2
  <2> HIDE DEF H, next
  <2>6. /\ DOMAIN handles' = Users /\ DOMAIN guids' = Users
        /\ handles'[u] = H /\ guids'[u] = next
        /\ \A v \in Users : v # u => handles'[v] = handles[v] /\ guids'[v] = guids[v]
    BY <2>5 DEF HandlesInv
  <2>7. HandlesInv'
    BY <1>1, <1>2, <2>3, <2>6 DEF HandlesInv
  <2>8. \A v \in Users : \A i \in DOMAIN handles[v] :
          i \in DOMAIN handles'[v] /\ handles'[v][i] = handles[v][i]
    BY <2>4, <2>6
  <2> QED
    BY <2>7, <2>8 DEF HandlesInv
<1> QED
  BY <1>3, <1>4

-----------------------------------------------------------------------------
(* What steps do to accounts, custodians and handles together.             *)

(* A user registers an account, ...                                        *)
Registered ==
  \E u \in Users, market \in DOMAIN Markets, custodian \in 0..NCustodians + 1 :
    AddAccount(u, market, custodian)

(* ... or nobody does.                                                     *)
SameAccounts ==
  /\ DOMAIN accounts' = DOMAIN accounts
  /\ \A u \in DOMAIN accounts : DOMAIN accounts'[u] = DOMAIN accounts[u]
  /\ UNCHANGED custodians

(* An account that changes is the same account.                            *)
LEMMA ExceptAccount ==
  ASSUME NEW f, NEW u, NEW id, NEW m
  PROVE  /\ DOMAIN [f EXCEPT ![u][id] = m] = DOMAIN f
         /\ \A v \in DOMAIN f : DOMAIN [f EXCEPT ![u][id] = m][v] = DOMAIN f[v]
<1> DEFINE A == [f[u] EXCEPT ![id] = m]
           g == [f EXCEPT ![u] = A]
<1>1. DOMAIN A = DOMAIN f[u]
  OBVIOUS
<1> HIDE DEF A
<1>2. DOMAIN g = DOMAIN f /\ \A v \in DOMAIN f : g[v] = IF v = u THEN A ELSE f[v]
  OBVIOUS
<1> HIDE DEF g
<1>3. DOMAIN g = DOMAIN f /\ \A v \in DOMAIN f : DOMAIN g[v] = DOMAIN f[v]
  BY <1>1, <1>2
<1> QED
  BY <1>3 DEF g, A

(* An account that is added, beside those that there are.                  *)
LEMMA AddAccountNames ==
  ASSUME DOMAIN accounts = Users, NEW u \in Users, NEW market, NEW custodian,
         AddAccount(u, market, custodian)
  PROVE  /\ DOMAIN accounts' = Users
         /\ DOMAIN accounts'[u] = DOMAIN accounts[u] \cup {<<market, custodian>>}
         /\ \A v \in Users : v # u => accounts'[v] = accounts[v]
<1> DEFINE id == <<market, custodian>>
           A == Entered(accounts[u], id, EmptyAccount)
<1>1. DOMAIN A = DOMAIN accounts[u] \cup {id}
  BY DEF Entered
<1>2. accounts' = [accounts EXCEPT ![u] = A]
  BY DEF AddAccount
<1> HIDE DEF A
<1> QED
  BY <1>1, <1>2

(* Handles that are missing are made, and no others.                       *)
LEMMA MissingHandles ==
  ASSUME NEW u \in Users, NEW id \in DOMAIN accounts'[u], AddHandlesIfMissing(u, id)
  PROVE  HandlesStay \/ HandlesMade
<1>1. CASE id \in DOMAIN handles[u]
  BY <1>1 DEF AddHandlesIfMissing, HandlesStay
<1>2. CASE id \notin DOMAIN handles[u]
  BY <1>2 DEF AddHandlesIfMissing, HandlesMade
<1> QED
  BY <1>1, <1>2

(* What a step does is one of these.                                       *)
NamesChange == (Registered \/ SameAccounts) /\ (HandlesStay \/ HandlesMade)

(* Every step is one of them.                                              *)
LEMMA NamesStep ==
  ASSUME ConstantsTyped, DOMAIN accounts = Users, [Next]_vars
  PROVE  NamesChange
<1>1. ASSUME NEW u \in Users, NEW id, NEW m,
             accounts' = [accounts EXCEPT ![u][id] = m],
             UNCHANGED <<custodians, handles, guids>>
      PROVE  NamesChange
  <2>1. SameAccounts
    BY <1>1, ExceptAccount DEF SameAccounts
  <2> QED
    BY <1>1, <2>1 DEF NamesChange, HandlesStay
<1>2. CASE UNCHANGED <<accounts, custodians, handles, guids>>
  BY <1>2 DEF NamesChange, SameAccounts, HandlesStay
<1>3. CASE Registers
  <2>1. PICK u \in Users :
          \/ \E market \in DOMAIN Markets, custodian \in 0..NCustodians + 1 :
               \/ RegisterMarketAccount(u, market, custodian)
               \/ RegisterWithoutHandles(u, market, custodian)
          \/ \E id \in DOMAIN accounts[u] : InitMarketEventHandlesIfMissing(u, id)
    BY <1>3 DEF Registers
  <2>2. ASSUME NEW market \in DOMAIN Markets, NEW custodian \in 0..NCustodians + 1,
               RegisterMarketAccount(u, market, custodian)
        PROVE  NamesChange
    <3>1. /\ AddAccount(u, market, custodian)
          /\ AddHandlesIfMissing(u, <<market, custodian>>)
      BY <2>2 DEF RegisterMarketAccount
    <3>2. <<market, custodian>> \in DOMAIN accounts'[u]
      BY <3>1, AddAccountNames
    <3>3. HandlesStay \/ HandlesMade
      BY <3>1, <3>2, MissingHandles
    <3> QED
      BY <3>1, <3>3 DEF NamesChange, Registered
  <2>3. ASSUME NEW market \in DOMAIN Markets, NEW custodian \in 0..NCustodians + 1,
               RegisterWithoutHandles(u, market, custodian)
        PROVE  NamesChange
    BY <2>3 DEF NamesChange, Registered, HandlesStay, RegisterWithoutHandles
  <2>4. ASSUME NEW id \in DOMAIN accounts[u], InitMarketEventHandlesIfMissing(u, id)
        PROVE  NamesChange
    <3>1. AddHandlesIfMissing(u, id) /\ UNCHANGED <<accounts, custodians>>
      BY <2>4 DEF InitMarketEventHandlesIfMissing, fundsVars
    <3>2. HandlesStay \/ HandlesMade
      BY <3>1, MissingHandles
    <3> QED
      BY <3>1, <3>2 DEF NamesChange, SameAccounts
  <2> QED
    BY <2>1, <2>2, <2>3, <2>4
<1>4. CASE Funds
  <2>1. PICK u \in Users : \E id \in DOMAIN accounts[u] :
          \E asset \in Assets, amount \in Amounts, underwriter \in Underwriters :
            \/ DepositAsset(u, id, asset, amount, underwriter)
            \/ WithdrawAsset(u, id, asset, amount, underwriter)
    BY <1>4 DEF Funds
  <2> QED
    BY <1>1, <2>1, Zenon DEF DepositAsset, WithdrawAsset, namesVars
<1>5. CASE Trades
  <2>1. PICK u \in Users : \E id \in DOMAIN accounts[u] : \E side \in Sides :
          \/ \E size \in Sizes, price \in Prices : PlaceOrderOf(u, id, side, size, price)
          \/ \E key \in ActiveKeys(accounts[u][id], side) :
               \/ CancelOrderOf(u, id, side, key)
               \/ \E taker \in Users, size \in Sizes :
                    \E takerId \in DOMAIN accounts[taker] :
                      FillOrderOf(u, taker, id, takerId, side, key, size)
    BY <1>5 DEF Trades
  <2>2. ASSUME NEW id, NEW side, NEW size, NEW price, PlaceOrderOf(u, id, side, size, price)
        PROVE  NamesChange
    BY <1>1, <2>2, Zenon DEF PlaceOrderOf, namesVars
  <2>3. ASSUME NEW id, NEW side, NEW key, CancelOrderOf(u, id, side, key)
        PROVE  NamesChange
    BY <1>1, <2>3, Zenon DEF CancelOrderOf, namesVars
  <2>4. ASSUME NEW taker, NEW id, NEW takerId, NEW side, NEW key, NEW size,
               FillOrderOf(u, taker, id, takerId, side, key, size)
        PROVE  NamesChange
    <3>1. PICK w, m, d : accounts' =
            [[[accounts EXCEPT ![taker][takerId] = w] EXCEPT ![u][id] = m]
               EXCEPT ![taker][takerId] = d]
      BY <2>4, Zenon DEF FillOrderOf
    <3>2. DOMAIN accounts' = Users /\ \A v \in Users : DOMAIN accounts'[v] = DOMAIN accounts[v]
      <4> DEFINE f1 == [accounts EXCEPT ![taker][takerId] = w]
                 f2 == [f1 EXCEPT ![u][id] = m]
                 f3 == [f2 EXCEPT ![taker][takerId] = d]
      <4>1. DOMAIN f1 = Users /\ \A v \in Users : DOMAIN f1[v] = DOMAIN accounts[v]
        BY ExceptAccount
      <4> HIDE DEF f1
      <4>2. DOMAIN f2 = Users /\ \A v \in Users : DOMAIN f2[v] = DOMAIN accounts[v]
        BY <4>1, ExceptAccount
      <4> HIDE DEF f2
      <4>3. DOMAIN f3 = Users /\ \A v \in Users : DOMAIN f3[v] = DOMAIN accounts[v]
        BY <4>2, ExceptAccount
      <4> HIDE DEF f3
      <4>4. accounts' = f3
        BY <3>1 DEF f1, f2, f3
      <4> QED
        BY <4>3, <4>4
    <3>3. UNCHANGED <<custodians, handles, guids>>
      BY <2>4 DEF FillOrderOf, namesVars
    <3> QED
      BY <3>2, <3>3 DEF NamesChange, SameAccounts, HandlesStay
  <2> QED
    BY <2>1, <2>2, <2>3, <2>4
<1>6. CASE Upgrade
  BY <1>2, <1>6 DEF Upgrade, fundsVars
<1>7. CASE UNCHANGED vars
  BY <1>2, <1>7 DEF vars
<1> QED
  BY <1>3, <1>4, <1>5, <1>6, <1>7 DEF Next

(* Each change leaves the accounts that there are.                         *)
LEMMA NamesGrow ==
  ASSUME DOMAIN accounts = Users, NamesChange
  PROVE  AccountsGrow
<1>1. CASE Registered
  BY <1>1, AddAccountNames DEF Registered, AccountsGrow
<1>2. CASE SameAccounts
  BY <1>2 DEF SameAccounts, AccountsGrow
<1> QED
  BY <1>1, <1>2 DEF NamesChange

(* Handles are of market accounts, and no two of one user share a creation *)
(* number, in whatever order accounts are registered and handles asked for.*)
THEOREM HandlesAlwaysDistinct ==
  ASSUME ConstantsTyped
  PROVE  Spec => []HandlesDistinct
<1>1. Init => HandlesInv
  BY HandlesInit
<1>2. HandlesInv /\ [Next]_vars => HandlesInv'
  <2> SUFFICES ASSUME HandlesInv, [Next]_vars
               PROVE  HandlesInv'
    OBVIOUS
  <2>1. DOMAIN accounts = Users
    BY DEF HandlesInv
  <2>2. NamesChange /\ AccountsGrow
    BY <2>1, NamesStep, NamesGrow
  <2> QED
    BY <2>2, HandlesFollow DEF NamesChange
<1>3. HandlesInv => HandlesDistinct
  BY DEF HandlesInv, HandlesOK, HandlesDistinct
<1> QED
  BY <1>1, <1>2, <1>3, PTL DEF Spec

(* Handles once made are never replaced, ...                               *)
THEOREM HandlesAlwaysKept ==
  ASSUME ConstantsTyped
  PROVE  Spec => HandlesKept
<1> DEFINE Kept ==
      \A u \in DOMAIN handles : \A id \in DOMAIN handles[u] :
        id \in DOMAIN handles'[u] /\ handles'[u][id] = handles[u][id]
<1>1. Init => HandlesInv
  BY HandlesInit
<1>2. HandlesInv /\ [Next]_vars => HandlesInv' /\ [Kept]_vars
  <2> SUFFICES ASSUME HandlesInv, [Next]_vars
               PROVE  HandlesInv' /\ [Kept]_vars
    OBVIOUS
  <2>1. DOMAIN accounts = Users
    BY DEF HandlesInv
  <2>2. NamesChange /\ AccountsGrow
    BY <2>1, NamesStep, NamesGrow
  <2> QED
    BY <2>2, HandlesFollow DEF NamesChange
<1>3. Spec => [][Kept]_vars
  <2> HIDE DEF Kept
  <2> QED
    BY <1>1, <1>2, PTL DEF Spec
<1> QED
  BY <1>3 DEF HandlesKept

-----------------------------------------------------------------------------
(* Sequences of sequences: FlattenSeq is a recursive function.             *)

FlatTerm(s, g, i) == IF i = 1 THEN s[i] ELSE g[i - 1] \o s[i]
IsFlat(g, s, n)   == g = [i \in 1..n |-> FlatTerm(s, g, i)]

(* The recursion has a solution up to every index, ...                     *)
LEMMA FlatExists ==
  ASSUME NEW s, NEW n \in Nat
  PROVE  \E g : IsFlat(g, s, n)
<1> DEFINE N == {k \in Nat : ~\E g : IsFlat(g, s, k)}
<1> SUFFICES ASSUME N # {} PROVE FALSE
  OBVIOUS
<1>1. PICK k \in N : \A i \in N : k <= i
  BY Least, Zenon
<1>2. k # 0
  <2>1. IsFlat([i \in 1..0 |-> FlatTerm(s, 0, i)], s, 0)
    BY DEF IsFlat
  <2> QED
    BY <2>1
<1>3. k - 1 \in Nat /\ ~(k <= k - 1)
  BY <1>2
<1>4. PICK g : IsFlat(g, s, k - 1)
  BY <1>1, <1>3
<1> DEFINE h == [i \in 1..k |-> FlatTerm(s, g, i)]
<1>5. \A i \in 1..k - 1 : h[i] = g[i]
  <2>1. \A i \in 1..k - 1 : i \in 1..k /\ g[i] = FlatTerm(s, g, i)
    BY <1>3, <1>4 DEF IsFlat
  <2> QED
    BY <2>1
<1>6. ASSUME NEW i \in 1..k
      PROVE  FlatTerm(s, g, i) = FlatTerm(s, h, i)
  <2>1. i = 1 \/ i - 1 \in 1..k - 1
    BY <1>3
  <2> QED
    BY <1>5, <2>1 DEF FlatTerm
<1>7. h = [i \in 1..k |-> FlatTerm(s, h, i)]
  <2>1. h = [i \in 1..k |-> FlatTerm(s, g, i)]
    OBVIOUS
  <2> HIDE DEF h
  <2> QED
    BY <1>6, <2>1, Zenon
<1>8. IsFlat(h, s, k)
  BY <1>7 DEF IsFlat
<1> QED
  BY <1>8

(* ... and flattening is one.                                              *)
LEMMA FlattenIsFlat ==
  ASSUME NEW s, Len(s) \in Nat, Len(s) # 0
  PROVE  \E g : IsFlat(g, s, Len(s)) /\ FlattenSeq(s) = g[Len(s)]
<1> DEFINE h == CHOOSE g : IsFlat(g, s, Len(s))
<1>1. IsFlat(h, s, Len(s))
  BY FlatExists, Zenon
<1>2. FlattenSeq(s) = h[Len(s)]
  BY DEF FlattenSeq, IsFlat, FlatTerm
<1> QED
  BY <1>1, <1>2

(* A sequence in which no element comes twice, with its elements.          *)
Distinct(S, s, T) == s \in Seq(S) /\ IsInjective(s) /\ ToSet(s) = T

(* Two that share no element make one.                                     *)
LEMMA DistinctConcat ==
  ASSUME NEW S, NEW a, NEW T, Distinct(S, a, T), NEW b, NEW U, Distinct(S, b, U),
         T \cap U = {}
  PROVE  Distinct(S, a \o b, T \cup U)
<1> DEFINE c == a \o b
<1>1. a \in Seq(S) /\ b \in Seq(S) /\ Len(a) \in Nat /\ Len(b) \in Nat
  BY LenProperties DEF Distinct
<1>2. /\ c \in Seq(S)
      /\ Len(c) = Len(a) + Len(b)
      /\ \A i \in 1..Len(a) + Len(b) : c[i] = IF i <= Len(a) THEN a[i] ELSE b[i - Len(a)]
  BY <1>1, ConcatProperties
<1>3. /\ DOMAIN a = 1..Len(a) /\ DOMAIN b = 1..Len(b) /\ DOMAIN c = 1..Len(a) + Len(b)
  BY <1>1, <1>2, LenProperties
<1> HIDE DEF c
<1>4. ASSUME NEW i \in DOMAIN c
      PROVE  \/ i \in DOMAIN a /\ c[i] = a[i] /\ c[i] \in T
             \/ i - Len(a) \in DOMAIN b /\ c[i] = b[i - Len(a)] /\ c[i] \in U
  <2>1. CASE i <= Len(a)
    <3>1. i \in DOMAIN a /\ c[i] = a[i]
      BY <1>1, <1>2, <1>3, <2>1
    <3> QED
      BY <3>1 DEF Distinct, ToSet
  <2>2. CASE ~(i <= Len(a))
    <3>1. i - Len(a) \in DOMAIN b /\ c[i] = b[i - Len(a)]
      BY <1>1, <1>2, <1>3, <2>2
    <3> QED
      BY <3>1 DEF Distinct, ToSet
  <2> QED
    BY <2>1, <2>2
<1>5. ASSUME NEW i \in DOMAIN c, NEW j \in DOMAIN c, c[i] = c[j]
      PROVE  i = j
  <2>1. \A x, y \in DOMAIN a : a[x] = a[y] => x = y
    BY DEF Distinct, IsInjective
  <2>2. \A x, y \in DOMAIN b : b[x] = b[y] => x = y
    BY DEF Distinct, IsInjective
  <2>3. i \in Int /\ j \in Int
    BY <1>3
  <2>4. CASE c[i] \in T
    <3>1. i \in DOMAIN a /\ c[i] = a[i] /\ j \in DOMAIN a /\ c[j] = a[j]
      BY <1>4, <1>5, <2>4
    <3> QED
      BY <1>5, <2>1, <3>1
  <2>5. CASE c[i] \notin T
    <3>1. /\ i - Len(a) \in DOMAIN b /\ c[i] = b[i - Len(a)]
          /\ j - Len(a) \in DOMAIN b /\ c[j] = b[j - Len(a)]
      BY <1>4, <1>5, <2>5
    <3>2. i - Len(a) = j - Len(a)
      BY <1>5, <2>2, <3>1
    <3> QED
      BY <1>1, <2>3, <3>2
  <2> QED
    BY <2>4, <2>5
<1>6. ASSUME NEW x \in T
      PROVE  \E i \in DOMAIN c : c[i] = x
  <2>1. PICK i \in DOMAIN a : a[i] = x
    BY DEF Distinct, ToSet
  <2>2. i \in DOMAIN c /\ c[i] = a[i]
    BY <1>1, <1>2, <1>3
  <2> QED
    BY <2>1, <2>2
<1>7. ASSUME NEW x \in U
      PROVE  \E i \in DOMAIN c : c[i] = x
  <2>1. PICK i \in DOMAIN b : b[i] = x
    BY DEF Distinct, ToSet
  <2> DEFINE k == i + Len(a)
  <2>2. k \in 1..Len(a) + Len(b) /\ ~(k <= Len(a)) /\ k - Len(a) = i
    BY <1>1, <1>3
  <2> HIDE DEF k
  <2>3. k \in DOMAIN c /\ c[k] = b[i]
    BY <1>2, <1>3, <2>2
  <2> QED
    BY <2>1, <2>3
<1>8. ToSet(c) = T \cup U
  BY <1>4, <1>6, <1>7 DEF ToSet
<1>9. Distinct(S, c, T \cup U)
  BY <1>2, <1>5, <1>8 DEF Distinct, IsInjective
<1> QED
  BY <1>9 DEF c

(* So do many.                                                             *)
ElementsTo(s, n) == UNION {ToSet(s[i]) : i \in 1..n}

(* Flattening keeps all their elements, each once.                         *)
LEMMA DistinctFlatten ==
  ASSUME NEW S, NEW s \in Seq(Seq(S)), \A i \in DOMAIN s : IsInjective(s[i]),
         \A i, j \in DOMAIN s : i # j => ToSet(s[i]) \cap ToSet(s[j]) = {}
  PROVE  Distinct(S, FlattenSeq(s), ElementsTo(s, Len(s)))
<1> DEFINE n == Len(s)
<1>1. n \in Nat /\ DOMAIN s = 1..n
  BY LenProperties
<1>2. ASSUME NEW i \in 1..n
      PROVE  Distinct(S, s[i], ToSet(s[i]))
  BY <1>1, ElementOfSeq DEF Distinct
<1> HIDE DEF n
<1>3. CASE n = 0
  <2>1. FlattenSeq(s) = s
    BY <1>3 DEF FlattenSeq, n
  <2>2. DOMAIN s = {}
    BY <1>1, <1>3
  <2>3. s \in Seq(S)
    BY <2>2, EmptySeq
  <2>4. IsInjective(s) /\ ToSet(s) = ElementsTo(s, n)
    BY <1>1, <1>3, <2>2 DEF IsInjective, ToSet, ElementsTo
  <2> QED
    BY <2>1, <2>3, <2>4 DEF Distinct, n
<1>4. CASE n # 0
  <2>1. PICK g : IsFlat(g, s, n) /\ FlattenSeq(s) = g[n]
    BY <1>1, <1>4, FlattenIsFlat DEF n
  <2> DEFINE N == {k \in Nat : k \in 1..n /\ ~Distinct(S, g[k], ElementsTo(s, k))}
  <2>2. SUFFICES ASSUME N # {} PROVE FALSE
    <3>1. n \in 1..n /\ n \in Nat
      BY <1>1, <1>4
    <3>2. CASE N = {}
      <4>1. Distinct(S, g[n], ElementsTo(s, n))
        BY <3>1, <3>2
      <4> QED
        BY <2>1, <4>1 DEF n
    <3> QED
      BY <2>2, <3>2
  <2>3. PICK k \in N : \A i \in N : k <= i
    BY <2>2, Least, Zenon
  <2>4. k \in Nat /\ k \in 1..n /\ ~Distinct(S, g[k], ElementsTo(s, k))
    BY <2>3
  <2>5. g[k] = IF k = 1 THEN s[k] ELSE g[k - 1] \o s[k]
    BY <2>1, <2>4 DEF IsFlat, FlatTerm
  <2>6. CASE k = 1
    <3>1. ElementsTo(s, k) = ToSet(s[k])
      BY <2>6 DEF ElementsTo
    <3> QED
      BY <1>2, <2>4, <2>5, <2>6, <3>1
  <2>7. CASE k # 1
    <3> DEFINE j == k - 1
    <3>1. j \in Nat /\ j \in 1..n /\ ~(k <= j) /\ k = j + 1
      BY <1>1, <2>4, <2>7
    <3>2. g[k] = g[j] \o s[k]
      BY <2>5, <2>7
    <3> HIDE DEF j
    <3>3. Distinct(S, g[j], ElementsTo(s, j))
      BY <2>3, <3>1
    <3>4. ElementsTo(s, k) = ElementsTo(s, j) \cup ToSet(s[k])
      <4>1. 1..k = 1..j \cup {k}
        BY <2>4, <3>1
      <4> QED
        BY <4>1 DEF ElementsTo
    <3>5. ElementsTo(s, j) \cap ToSet(s[k]) = {}
      <4>1. \A i \in 1..j : i \in DOMAIN s /\ k \in DOMAIN s /\ i # k
        BY <1>1, <2>4, <3>1
      <4>2. \A i \in 1..j : ToSet(s[i]) \cap ToSet(s[k]) = {}
        BY <4>1
      <4> QED
        BY <4>2 DEF ElementsTo
    <3>6. Distinct(S, g[k], ElementsTo(s, k))
      BY <1>2, <2>4, <3>2, <3>3, <3>4, <3>5, DistinctConcat
    <3> QED
      BY <2>4, <3>6
  <2> QED
    BY <2>6, <2>7
<1> QED
  BY <1>3, <1>4

-----------------------------------------------------------------------------
(* The list of custodians.                                                 *)

Entries == [market : Nat, custodians : Seq(Nat)]

(* Where in the list a custodian of a market is.                           *)
Finds(list, market, custodian, i, j) ==
  /\ i \in DOMAIN list /\ list[i].market = market
  /\ j \in DOMAIN list[i].custodians /\ list[i].custodians[j] = custodian

(* The list has each pair of D once, and no other.                         *)
ListOK(list, D) ==
  /\ list \in Seq(Entries)
  /\ D \subseteq Nat \X Nat
  /\ \A i, k \in DOMAIN list : list[i].market = list[k].market => i = k
  /\ \A i \in DOMAIN list : IsInjective(list[i].custodians)
  /\ \A m, c \in Nat : <<m, c>> \in D <=> \E i, j \in Nat : Finds(list, m, c, i, j)

(* The indices of a sequence.                                              *)
LEMMA EntriesOf ==
  ASSUME NEW list \in Seq(Entries)
  PROVE  /\ Len(list) \in Nat /\ DOMAIN list = 1..Len(list)
         /\ \A i \in DOMAIN list :
              /\ list[i] \in Entries /\ list[i].market \in Nat
              /\ list[i].custodians \in Seq(Nat)
              /\ DOMAIN list[i].custodians = 1..Len(list[i].custodians)
              /\ Len(list[i].custodians) \in Nat
<1>1. Len(list) \in Nat /\ DOMAIN list = 1..Len(list)
  BY LenProperties
<1>2. ASSUME NEW i \in DOMAIN list
      PROVE  /\ list[i] \in Entries /\ list[i].market \in Nat
             /\ list[i].custodians \in Seq(Nat)
  <2>1. list[i] \in Entries
    BY <1>1, ElementOfSeq
  <2> QED
    BY <2>1 DEF Entries
<1>3. \A i \in DOMAIN list :
        /\ DOMAIN list[i].custodians = 1..Len(list[i].custodians)
        /\ Len(list[i].custodians) \in Nat
  BY <1>2, LenProperties
<1> QED
  BY <1>1, <1>2, <1>3

(* A custodian that is appended to others.                                 *)
LEMMA AppendCustodian ==
  ASSUME NEW s \in Seq(Nat), NEW c \in Nat, IsInjective(s),
         \A j \in DOMAIN s : s[j] # c
  PROVE  /\ Append(s, c) \in Seq(Nat)
         /\ IsInjective(Append(s, c))
         /\ DOMAIN Append(s, c) = DOMAIN s \cup {Len(s) + 1}
         /\ Append(s, c)[Len(s) + 1] = c
         /\ \A j \in DOMAIN s : Append(s, c)[j] = s[j]
         /\ Len(s) + 1 \in Nat /\ Len(s) + 1 \notin DOMAIN s
<1> DEFINE t == Append(s, c)
           n == Len(s) + 1
<1>1. Len(s) \in Nat /\ DOMAIN s = 1..Len(s)
  BY LenProperties
<1>2. /\ t \in Seq(Nat) /\ Len(t) = n /\ t[n] = c
      /\ \A j \in 1..Len(s) : t[j] = s[j]
  BY <1>1, AppendProperties
<1>3. DOMAIN t = DOMAIN s \cup {n} /\ n \in Nat /\ n \notin DOMAIN s
  <2>1. DOMAIN t = 1..n
    BY <1>2, LenProperties
  <2> QED
    BY <1>1, <2>1
<1> HIDE DEF t, n
<1>4. IsInjective(t)
  <2>1. \A x, y \in DOMAIN s : s[x] = s[y] => x = y
    BY DEF IsInjective
  <2> QED
    BY <1>1, <1>2, <1>3, <2>1 DEF IsInjective
<1> QED
  BY <1>1, <1>2, <1>3, <1>4 DEF t, n

(* The first account of a market brings a new entry to the list.           *)
LEMMA ListedNewMarket ==
  ASSUME NEW list, NEW D, ListOK(list, D), NEW market \in Nat, NEW custodian \in Nat,
         <<market, custodian>> \notin D,
         \A i \in DOMAIN list : list[i].market # market
  PROVE  ListOK(Append(list, [market |-> market, custodians |-> <<custodian>>]),
                D \cup {<<market, custodian>>})
<1> DEFINE e == [market |-> market, custodians |-> <<custodian>>]
           l == Append(list, e)
           n == Len(list) + 1
           E == D \cup {<<market, custodian>>}
<1>1. /\ e \in Entries /\ e.market = market /\ e.custodians = <<custodian>>
      /\ IsInjective(<<custodian>>) /\ DOMAIN <<custodian>> = {1}
      /\ <<custodian>>[1] = custodian
  <2>1. <<custodian>> \in Seq(Nat) /\ DOMAIN <<custodian>> = {1} /\ <<custodian>>[1] = custodian
    OBVIOUS
  <2> QED
    BY <2>1 DEF Entries, IsInjective
<1> HIDE DEF e
<1>2. list \in Seq(Entries)
  BY DEF ListOK
<1>3. Len(list) \in Nat /\ DOMAIN list = 1..Len(list) /\ n \in Nat /\ n \notin DOMAIN list
  BY <1>2, EntriesOf
<1>4. /\ l \in Seq(Entries) /\ l[n] = e
      /\ DOMAIN l = DOMAIN list \cup {n}
      /\ \A i \in DOMAIN list : l[i] = list[i]
  <2>1. /\ l \in Seq(Entries) /\ l[n] = e /\ Len(l) = n
        /\ \A i \in 1..Len(list) : l[i] = list[i]
    BY <1>1, <1>2, <1>3, AppendProperties
  <2>2. DOMAIN l = 1..n
    BY <2>1, LenProperties
  <2> QED
    BY <1>3, <2>1, <2>2
<1> HIDE DEF l, n
<1>5. \A i, k \in DOMAIN l : l[i].market = l[k].market => i = k
  BY <1>1, <1>3, <1>4 DEF ListOK
<1>6. \A i \in DOMAIN l : IsInjective(l[i].custodians)
  BY <1>1, <1>4 DEF ListOK
<1>7. E \subseteq Nat \X Nat
  BY DEF ListOK
<1>8. ASSUME NEW m \in Nat, NEW c \in Nat
      PROVE  <<m, c>> \in E <=> \E i, j \in Nat : Finds(l, m, c, i, j)
  <2>1. <<m, c>> \in D <=> \E i, j \in Nat : Finds(list, m, c, i, j)
    BY DEF ListOK
  <2>2. ASSUME NEW i \in Nat, NEW j \in Nat, Finds(list, m, c, i, j)
        PROVE  Finds(l, m, c, i, j)
    BY <1>4, <2>2 DEF Finds
  <2>3. ASSUME m = market, c = custodian
        PROVE  Finds(l, m, c, n, 1)
    BY <1>1, <1>4, <2>3 DEF Finds
  <2>4. ASSUME NEW i \in Nat, NEW j \in Nat, Finds(l, m, c, i, j)
        PROVE  <<m, c>> \in E
    <3>1. CASE i = n
      <4>1. m = market /\ c = custodian
        BY <1>1, <1>4, <2>4, <3>1 DEF Finds
      <4> QED
        BY <4>1
    <3>2. CASE i # n
      <4>1. Finds(list, m, c, i, j)
        BY <1>4, <2>4, <3>2 DEF Finds
      <4> QED
        BY <2>1, <4>1
    <3> QED
      BY <3>1, <3>2
  <2>5. ASSUME <<m, c>> \in E
        PROVE  \E i, j \in Nat : Finds(l, m, c, i, j)
    <3>1. CASE <<m, c>> \in D
      BY <2>1, <2>2, <3>1
    <3>2. CASE m = market /\ c = custodian
      BY <1>3, <2>3, <3>2
    <3> QED
      BY <2>5, <3>1, <3>2
  <2> QED
    BY <2>4, <2>5
<1>9. ListOK(l, E)
  BY <1>4, <1>5, <1>6, <1>7, <1>8 DEF ListOK
<1> QED
  BY <1>9 DEF l, e

(* A further one comes after the custodians of that market.                *)
LEMMA ListedOldMarket ==
  ASSUME NEW list, NEW D, ListOK(list, D), NEW market \in Nat, NEW custodian \in Nat,
         <<market, custodian>> \notin D,
         NEW p \in DOMAIN list, list[p].market = market
  PROVE  ListOK([i \in DOMAIN list |->
                   IF list[i].market = market
                   THEN [list[i] EXCEPT !.custodians = Append(@, custodian)]
                   ELSE list[i]],
                D \cup {<<market, custodian>>})
<1> DEFINE s == list[p].custodians
           t == Append(s, custodian)
           l == [i \in DOMAIN list |->
                   IF list[i].market = market
                   THEN [list[i] EXCEPT !.custodians = Append(@, custodian)]
                   ELSE list[i]]
           n == Len(s) + 1
           E == D \cup {<<market, custodian>>}
<1>1. list \in Seq(Entries)
  BY DEF ListOK
<1>2. /\ Len(list) \in Nat /\ DOMAIN list = 1..Len(list)
      /\ \A i \in DOMAIN list :
           /\ list[i] \in Entries /\ list[i].market \in Nat
           /\ list[i].custodians \in Seq(Nat)
           /\ DOMAIN list[i].custodians = 1..Len(list[i].custodians)
           /\ Len(list[i].custodians) \in Nat
  BY <1>1, EntriesOf
<1>3. \A i, k \in DOMAIN list : list[i].market = list[k].market => i = k
  BY DEF ListOK
<1>4. \A j \in DOMAIN s : s[j] # custodian
  <2> SUFFICES ASSUME NEW j \in DOMAIN s, s[j] = custodian PROVE FALSE
    OBVIOUS
  <2>1. p \in Nat /\ j \in Nat
    BY <1>2
  <2>2. Finds(list, market, custodian, p, j)
    BY DEF Finds
  <2> QED
    BY <2>1, <2>2 DEF ListOK
<1>5. /\ t \in Seq(Nat) /\ IsInjective(t)
      /\ DOMAIN t = DOMAIN s \cup {n} /\ t[n] = custodian
      /\ \A j \in DOMAIN s : t[j] = s[j]
      /\ n \in Nat /\ n \notin DOMAIN s
  <2>1. s \in Seq(Nat) /\ IsInjective(s)
    BY <1>2 DEF ListOK
  <2> HIDE DEF s
  <2> QED
    BY <1>4, <2>1, AppendCustodian
<1>6. /\ DOMAIN l = DOMAIN list
      /\ l[p].market = market /\ l[p].custodians = t
      /\ \A i \in DOMAIN list : i # p => l[i] = list[i]
  <2>1. \A i \in DOMAIN list : i # p => list[i].market # market
    BY <1>3
  <2>2. l[p] = [list[p] EXCEPT !.custodians = t]
    OBVIOUS
  <2>3. list[p] \in Entries
    BY <1>2
  <2> HIDE DEF t
  <2>4. l[p].market = market /\ l[p].custodians = t
    BY <2>2, <2>3 DEF Entries
  <2> QED
    BY <2>1, <2>4
<1>7. l[p] \in Entries
  <2>1. l[p] = [list[p] EXCEPT !.custodians = t]
    OBVIOUS
  <2>2. list[p] \in Entries
    BY <1>2
  <2> HIDE DEF t, l
  <2> QED
    BY <1>5, <2>1, <2>2 DEF Entries
<1>8. l \in Seq(Entries)
  <2>1. \A i \in 1..Len(list) : l[i] \in Entries
    <3> HIDE DEF l
    <3> QED
      BY <1>2, <1>6, <1>7
  <2>2. l = [i \in 1..Len(list) |-> l[i]]
    BY <1>2
  <2> HIDE DEF l
  <2>3. [i \in 1..Len(list) |-> l[i]] \in Seq(Entries)
    BY <1>2, <2>1
  <2> QED
    BY <2>2, <2>3
<1> HIDE DEF l, t, n, s
<1>9. \A i \in DOMAIN list : l[i].market = list[i].market
  BY <1>6
<1>10. \A i, k \in DOMAIN l : l[i].market = l[k].market => i = k
  BY <1>3, <1>6, <1>9
<1>11. \A i \in DOMAIN l : IsInjective(l[i].custodians)
  BY <1>5, <1>6 DEF ListOK
<1>12. E \subseteq Nat \X Nat
  BY DEF ListOK
<1>13. ASSUME NEW m \in Nat, NEW c \in Nat
       PROVE  <<m, c>> \in E <=> \E i, j \in Nat : Finds(l, m, c, i, j)
  <2>1. <<m, c>> \in D <=> \E i, j \in Nat : Finds(list, m, c, i, j)
    BY DEF ListOK
  <2>2. ASSUME NEW i \in Nat, NEW j \in Nat, Finds(list, m, c, i, j)
        PROVE  Finds(l, m, c, i, j)
    <3>1. CASE i = p
      <4>1. j \in DOMAIN s /\ s[j] = c /\ m = market
        BY <2>2, <3>1 DEF Finds, s
      <4> QED
        BY <1>5, <1>6, <3>1, <4>1 DEF Finds
    <3>2. CASE i # p
      BY <1>6, <2>2, <3>2 DEF Finds
    <3> QED
      BY <3>1, <3>2
  <2>3. ASSUME m = market, c = custodian
        PROVE  Finds(l, m, c, p, n)
    BY <1>5, <1>6, <2>3 DEF Finds
  <2>4. ASSUME NEW i \in Nat, NEW j \in Nat, Finds(l, m, c, i, j)
        PROVE  <<m, c>> \in E
    <3>1. CASE i = p /\ j = n
      <4>1. m = market /\ c = custodian
        BY <1>5, <1>6, <2>4, <3>1 DEF Finds
      <4> QED
        BY <4>1
    <3>2. CASE i = p /\ j # n
      <4>1. j \in DOMAIN s /\ s[j] = c /\ m = market
        BY <1>5, <1>6, <2>4, <3>2 DEF Finds
      <4>2. Finds(list, m, c, p, j)
        BY <4>1 DEF Finds, s
      <4> QED
        BY <1>2, <2>1, <4>2
    <3>3. CASE i # p
      <4>1. Finds(list, m, c, i, j)
        BY <1>6, <2>4, <3>3 DEF Finds
      <4> QED
        BY <2>1, <4>1
    <3> QED
      BY <3>1, <3>2, <3>3
  <2>5. ASSUME <<m, c>> \in E
        PROVE  \E i, j \in Nat : Finds(l, m, c, i, j)
    <3>1. CASE <<m, c>> \in D
      BY <2>1, <2>2, <3>1
    <3>2. CASE m = market /\ c = custodian
      BY <1>2, <1>5, <2>3, <3>2
    <3> QED
      BY <2>5, <3>1, <3>2
  <2> QED
    BY <2>4, <2>5
<1>14. ListOK(l, E)
  BY <1>8, <1>10, <1>11, <1>12, <1>13 DEF ListOK
<1> QED
  BY <1>14 DEF l

(* The list of a user is that of the user's accounts.                      *)
ListsInv ==
  /\ DOMAIN accounts = Users /\ DOMAIN custodians = Users
  /\ \A u \in Users : ListOK(custodians[u], DOMAIN accounts[u])

(* Every registration lists the account.                                   *)
LEMMA ListedOK ==
  ASSUME NEW list, NEW D, ListOK(list, D), NEW market \in Nat, NEW custodian \in Nat,
         <<market, custodian>> \notin D
  PROVE  ListOK(Listed(list, market, custodian), D \cup {<<market, custodian>>})
<1>1. CASE \E i \in DOMAIN list : list[i].market = market
  <2>1. PICK p \in DOMAIN list : list[p].market = market
    BY <1>1
  <2> DEFINE l == [i \in DOMAIN list |->
                   IF list[i].market = market
                   THEN [list[i] EXCEPT !.custodians = Append(@, custodian)]
                   ELSE list[i]]
  <2>2. ListOK(l, D \cup {<<market, custodian>>})
    BY <2>1, ListedOldMarket
  <2>3. Listed(list, market, custodian) = l
    BY <1>1, Zenon DEF Listed
  <2> QED
    BY <2>2, <2>3
<1>2. CASE ~\E i \in DOMAIN list : list[i].market = market
  <2> DEFINE l == Append(list, [market |-> market, custodians |-> <<custodian>>])
  <2>1. ListOK(l, D \cup {<<market, custodian>>})
    BY <1>2, ListedNewMarket
  <2>2. Listed(list, market, custodian) = l
    BY <1>2, Zenon DEF Listed
  <2> QED
    BY <2>1, <2>2
<1> QED
  BY <1>1, <1>2

(* At first there is nothing to list.                                      *)
LEMMA ListsInit ==
  ASSUME Init
  PROVE  ListsInv
<1> DEFINE l == << >>
<1>1. DOMAIN l = {} /\ l \in Seq(Entries)
  OBVIOUS
<1>2. \A u \in Users : accounts[u] = l /\ custodians[u] = l
  BY DEF Init
<1>3. DOMAIN accounts = Users /\ DOMAIN custodians = Users
  BY DEF Init
<1> HIDE DEF l
<1> QED
  BY <1>1, <1>2, <1>3 DEF ListsInv, ListOK, Finds

(* Every step keeps the lists.                                             *)
LEMMA ListsStep ==
  ASSUME ConstantsTyped, ListsInv, [Next]_vars
  PROVE  ListsInv'
<1>1. NamesChange
  BY NamesStep DEF ListsInv
<1>2. CASE Registered
  <2>1. PICK u \in Users, market \in DOMAIN Markets, custodian \in 0..NCustodians + 1 :
          AddAccount(u, market, custodian)
    BY <1>2 DEF Registered
  <2>2. market \in Nat /\ custodian \in Nat
    <3>1. DOMAIN Markets = 1..Len(Markets) /\ Len(Markets) \in Nat
      BY LenProperties DEF ConstantsTyped
    <3> QED
      BY <3>1 DEF ConstantsTyped
  <2>3. <<market, custodian>> \notin DOMAIN accounts[u]
    BY <2>1 DEF AddAccount
  <2>4. ListOK(custodians[u], DOMAIN accounts[u])
    BY DEF ListsInv
  <2>5. /\ DOMAIN accounts' = Users
        /\ DOMAIN accounts'[u] = DOMAIN accounts[u] \cup {<<market, custodian>>}
        /\ \A v \in Users : v # u => accounts'[v] = accounts[v]
    BY <2>1, AddAccountNames DEF ListsInv
  <2> DEFINE l == Listed(custodians[u], market, custodian)
  <2>6. ListOK(l, DOMAIN accounts'[u])
    BY <2>2, <2>3, <2>4, <2>5, ListedOK
  <2>7. custodians' = [custodians EXCEPT ![u] = l]
    BY <2>1 DEF AddAccount
  <2> HIDE DEF l
  <2>8. /\ DOMAIN custodians' = Users /\ custodians'[u] = l
        /\ \A v \in Users : v # u => custodians'[v] = custodians[v]
    BY <2>7 DEF ListsInv
  <2> QED
    BY <2>5, <2>6, <2>8 DEF ListsInv
<1>3. CASE SameAccounts
  BY <1>3 DEF SameAccounts, ListsInv
<1> QED
  BY <1>1, <1>2, <1>3 DEF NamesChange

(* Going through a list finds the pairs of a list that is in order, once.  *)
PairsOf(list) ==
  [i \in DOMAIN list |->
    LET e == list[i]
    IN [j \in DOMAIN e.custodians |-> <<e.market, e.custodians[j]>>]]

(* These are the pairs of D.                                               *)
LEMMA PairsFound ==
  ASSUME NEW list, NEW D, ListOK(list, D)
  PROVE  Distinct(Nat \X Nat, FlattenSeq(PairsOf(list)), D)
<1> DEFINE s == PairsOf(list)
           n == Len(list)
<1>1. /\ n \in Nat /\ DOMAIN list = 1..n
      /\ \A i \in DOMAIN list :
           /\ list[i].market \in Nat
           /\ list[i].custodians \in Seq(Nat)
           /\ DOMAIN list[i].custodians = 1..Len(list[i].custodians)
           /\ Len(list[i].custodians) \in Nat
  BY EntriesOf DEF ListOK
<1> HIDE DEF n
<1>2. /\ DOMAIN s = 1..n
      /\ \A i \in 1..n :
           s[i] = [j \in DOMAIN list[i].custodians |->
                     <<list[i].market, list[i].custodians[j]>>]
  BY <1>1 DEF PairsOf
<1>3. s = [i \in 1..n |-> s[i]]
  BY <1>1 DEF PairsOf
<1> HIDE DEF s
<1>4. ASSUME NEW i \in 1..n
      PROVE  /\ s[i] \in Seq(Nat \X Nat)
             /\ IsInjective(s[i])
             /\ ToSet(s[i]) = {<<list[i].market, list[i].custodians[j]>> :
                                 j \in DOMAIN list[i].custodians}
  <2> DEFINE c == list[i].custodians
             m == list[i].market
             q == [j \in DOMAIN c |-> <<m, c[j]>>]
  <2>1. m \in Nat /\ c \in Seq(Nat) /\ DOMAIN c = 1..Len(c) /\ Len(c) \in Nat
    BY <1>1
  <2>2. IsInjective(c)
    BY <1>1 DEF ListOK
  <2>3. s[i] = q
    BY <1>2
  <2> HIDE DEF c, m
  <2>4. \A j \in 1..Len(c) : c[j] \in Nat
    BY <2>1, ElementOfSeq
  <2>5. q \in Seq(Nat \X Nat)
    BY <2>1, <2>4
  <2>6. IsInjective(q)
    BY <2>2 DEF IsInjective
  <2>7. ToSet(q) = {<<m, c[j]>> : j \in DOMAIN c}
    BY DEF ToSet
  <2> HIDE DEF q
  <2> QED
    BY <2>3, <2>5, <2>6, <2>7 DEF c, m
<1>5. s \in Seq(Seq(Nat \X Nat)) /\ Len(s) = n
  <2>1. [i \in 1..n |-> s[i]] \in Seq(Seq(Nat \X Nat))
    BY <1>1, <1>4
  <2>2. s \in Seq(Seq(Nat \X Nat))
    BY <1>3, <2>1, Zenon
  <2> QED
    BY <1>1, <1>2, <2>2, LenProperties
<1>6. \A i \in DOMAIN s : IsInjective(s[i])
  BY <1>2, <1>4
<1>7. \A i, k \in DOMAIN s : i # k => ToSet(s[i]) \cap ToSet(s[k]) = {}
  <2> SUFFICES ASSUME NEW i \in 1..n, NEW k \in 1..n, i # k,
                      NEW x, x \in ToSet(s[i]), x \in ToSet(s[k])
               PROVE  FALSE
    BY <1>2
  <2>1. PICK j \in DOMAIN list[i].custodians :
          x = <<list[i].market, list[i].custodians[j]>>
    BY <1>4
  <2>2. PICK h \in DOMAIN list[k].custodians :
          x = <<list[k].market, list[k].custodians[h]>>
    BY <1>4
  <2>3. list[i].market = list[k].market
    BY <2>1, <2>2
  <2> QED
    BY <1>1, <2>3 DEF ListOK
<1>8. Distinct(Nat \X Nat, FlattenSeq(s), ElementsTo(s, n))
  BY <1>5, <1>6, <1>7, DistinctFlatten
<1>9. ElementsTo(s, n) = D
  <2>1. ASSUME NEW x \in ElementsTo(s, n)
        PROVE  x \in D
    <3>1. PICK i \in 1..n : x \in ToSet(s[i])
      BY DEF ElementsTo
    <3>2. PICK j \in DOMAIN list[i].custodians :
            x = <<list[i].market, list[i].custodians[j]>>
      BY <1>4, <3>1
    <3> DEFINE m == list[i].market
               c == list[i].custodians[j]
    <3>3. m \in Nat /\ c \in Nat /\ i \in Nat /\ j \in Nat
      BY <1>1, ElementOfSeq
    <3>4. Finds(list, m, c, i, j)
      BY <1>1 DEF Finds
    <3> HIDE DEF m, c
    <3>5. <<m, c>> \in D
      BY <3>3, <3>4 DEF ListOK
    <3> QED
      BY <3>2, <3>5 DEF m, c
  <2>2. ASSUME NEW x \in D
        PROVE  x \in ElementsTo(s, n)
    <3>1. PICK m \in Nat, c \in Nat : x = <<m, c>>
      BY DEF ListOK
    <3>2. PICK i \in Nat, j \in Nat : Finds(list, m, c, i, j)
      BY <3>1 DEF ListOK
    <3>3. i \in 1..n /\ x \in ToSet(s[i])
      BY <1>1, <1>4, <3>1, <3>2 DEF Finds
    <3> QED
      BY <3>3 DEF ElementsTo
  <2> QED
    BY <2>1, <2>2
<1> QED
  BY <1>8, <1>9 DEF s

(* The views that go through a user's markets and custodians find each     *)
(* market account, and each once, in whatever order they were registered.  *)
THEOREM AccountsAlwaysListed ==
  ASSUME ConstantsTyped
  PROVE  Spec => []AccountsListed
<1>1. Init => ListsInv
  BY ListsInit
<1>2. ListsInv /\ [Next]_vars => ListsInv'
  BY ListsStep
<1>3. ListsInv => AccountsListed
  <2> SUFFICES ASSUME ListsInv, NEW u \in Users
               PROVE  /\ ToSet(AllMarketAccountIds(u)) = DOMAIN accounts[u]
                      /\ IsInjective(AllMarketAccountIds(u))
    BY DEF AccountsListed
  <2>1. ListOK(custodians[u], DOMAIN accounts[u])
    BY DEF ListsInv
  <2>2. Distinct(Nat \X Nat, FlattenSeq(PairsOf(custodians[u])), DOMAIN accounts[u])
    BY <2>1, PairsFound
  <2>3. AllMarketAccountIds(u) = FlattenSeq(PairsOf(custodians[u]))
    BY DEF AllMarketAccountIds, PairsOf
  <2> QED
    BY <2>2, <2>3 DEF Distinct
<1> QED
  BY <1>1, <1>2, <1>3, PTL DEF Spec
=============================================================================
