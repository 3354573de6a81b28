---------------------------- MODULE UserAccounts ----------------------------
(***************************************************************************)
(* The market accounts of users over several markets and custodians        *)
(* (user.move): the map of accounts and the list of custodians by which    *)
(* they are found, the coins held as collateral, kept in a map for each    *)
(* type of coin, and the handles to which events are emitted.  What a call *)
(* does to one account is in MarketAccount.                                *)
(***************************************************************************)
EXTENDS MarketAccount, SequencesExt

CONSTANTS
  Users, Coins,
  Markets,        \* sequence of [base, quote, underwriter], the base a coin
                  \* or GenericAsset and not the quote
  NCustodians,    \* custodians that are registered
  Underwriters,   \* IDs
  Amounts,        \* that are deposited or withdrawn
  Sizes, Prices,  \* of orders
  MaxAccounts,    \* bound on the accounts of a user
  MaxOrders       \* bound on orders

GenericAsset == "GenericAsset"
NO_CUSTODIAN == 0

(* Markets are those that the registry registers: of coins, or with a      *)
(* generic asset as base, and of two different assets.                     *)
ConstantsTyped ==
  /\ GenericAsset \notin Coins
  /\ Markets \in Seq([base : Coins \cup {GenericAsset}, quote : Coins, underwriter : Nat])
  /\ \A i \in DOMAIN Markets : Markets[i].base # Markets[i].quote
  /\ NCustodians \in Nat
  /\ Amounts \subseteq Nat /\ Sizes \subseteq Nat /\ Prices \subseteq Nat

VARIABLES
  accounts,     \* MarketAccounts.map of each user, by <<market, custodian>>
  custodians,   \* MarketAccounts.custodians of each user, a tablist of vectors
  collateral,   \* Collateral<CoinType>.map of each user and coin
  handles,      \* MarketEventHandles.map of each user: first creation number
  guids,        \* creation numbers used by each user
  upgraded,     \* whether the package has event handles
  counter       \* orders so far

vars == <<accounts, custodians, collateral, handles, guids, upgraded, counter>>
fundsVars == <<accounts, collateral>>
namesVars == <<custodians, handles, guids, upgraded>>

Init ==
  /\ accounts = [u \in Users |-> << >>]
  /\ custodians = [u \in Users |-> << >>]
  /\ collateral = [u \in Users |-> [x \in Coins |-> << >>]]
  /\ handles = [u \in Users |-> << >>]
  /\ guids = [u \in Users |-> 0]
  /\ upgraded = FALSE
  /\ counter = 0

-----------------------------------------------------------------------------
(* Registration.                                                           *)

Listed(list, market, custodian) ==
  IF \E i \in DOMAIN list : list[i].market = market
  THEN [i \in DOMAIN list |->
         IF list[i].market = market
         THEN [list[i] EXCEPT !.custodians = Append(@, custodian)]
         ELSE list[i]]
  ELSE Append(list, [market |-> market, custodians |-> <<custodian>>])

CoinsOf(market) == {Markets[market].base, Markets[market].quote} \cap Coins

(* A map with one more entry.                                              *)
Entered(map, id, value) ==
  [k \in DOMAIN map \cup {id} |-> IF k = id THEN value ELSE map[k]]

(* The entries of an account, but for its handles.                         *)
AddAccount(u, market, custodian) ==
  LET id == <<market, custodian>>
  IN /\ custodian # NO_CUSTODIAN => custodian <= NCustodians
     /\ id \notin DOMAIN accounts[u]
     /\ Cardinality(DOMAIN accounts[u]) < MaxAccounts
     /\ accounts' = [accounts EXCEPT ![u] = Entered(@, id, EmptyAccount)]
     /\ custodians' = [custodians EXCEPT ![u] = Listed(@, market, custodian)]
     /\ collateral' = [collateral EXCEPT ![u] =
          [x \in Coins |-> IF x \in CoinsOf(market) THEN Entered(@[x], id, 0) ELSE @[x]]]

(* Five handles, of which the creation numbers follow each other.          *)
NewHandles == 5

(* MUTANT: handles are made whether there are some or not.                 *)
AddHandlesAlways(u, id) ==
  /\ handles' = [handles EXCEPT ![u] = Entered(@, id, guids[u])]
  /\ guids' = [guids EXCEPT ![u] = @ + NewHandles]

AddHandlesIfMissing(u, id) ==
  IF id \in DOMAIN handles[u]
  THEN UNCHANGED <<handles, guids>>
  ELSE /\ handles' = [handles EXCEPT ![u] = Entered(@, id, guids[u])]
       /\ guids' = [guids EXCEPT ![u] = @ + NewHandles]

RegisterMarketAccount(u, market, custodian) ==
  /\ upgraded
  /\ AddAccount(u, market, custodian)
  /\ AddHandlesIfMissing(u, <<market, custodian>>)
  /\ UNCHANGED <<upgraded, counter>>

InitMarketEventHandlesIfMissing(u, id) ==
  /\ upgraded
  /\ id \in DOMAIN accounts[u]
  /\ AddHandlesIfMissing(u, id)
  /\ UNCHANGED <<fundsVars, custodians, upgraded, counter>>

(* The package before the upgrade that brought event handles.              *)
RegisterWithoutHandles(u, market, custodian) ==
  /\ ~upgraded
  /\ AddAccount(u, market, custodian)
  /\ UNCHANGED <<handles, guids, upgraded, counter>>

Upgrade ==
  /\ ~upgraded
  /\ upgraded' = TRUE
  /\ UNCHANGED <<fundsVars, custodians, handles, guids, counter>>

-----------------------------------------------------------------------------
(* Collateral.                                                             *)

TypeOf(id, asset) == IF asset = "base" THEN Markets[id[1]].base
                                       ELSE Markets[id[1]].quote

(* Coins are added to the collateral of an account, or taken out of it; a  *)
(* generic asset has none.                                                 *)
Moved(c, id, asset, amount) ==
  IF TypeOf(id, asset) = GenericAsset THEN c
  ELSE [c EXCEPT ![TypeOf(id, asset)][id] = @ + amount]

Underwritten(id, asset, underwriter) ==
  TypeOf(id, asset) = GenericAsset => underwriter = Markets[id[1]].underwriter

DepositAsset(u, id, asset, amount, underwriter) ==
  /\ CanDeposit(accounts[u][id], asset, amount)
  /\ Underwritten(id, asset, underwriter)
  /\ accounts' = [accounts EXCEPT ![u][id] = Deposit(@, asset, amount)]
  /\ collateral' = [collateral EXCEPT ![u] = Moved(@, id, asset, amount)]
  /\ UNCHANGED <<namesVars, counter>>

WithdrawAsset(u, id, asset, amount, underwriter) ==
  /\ CanWithdraw(accounts[u][id], asset, amount)
  /\ Underwritten(id, asset, underwriter)
  /\ accounts' = [accounts EXCEPT ![u][id] = Withdraw(@, asset, amount)]
  /\ collateral' = [collateral EXCEPT ![u] = Moved(@, id, asset, -amount)]
  /\ UNCHANGED <<namesVars, counter>>

-----------------------------------------------------------------------------
(* Orders.                                                                 *)

(* The order ID holds the price, as it does in its access key.             *)
PlaceOrderOf(u, id, side, size, price) ==
  LET order == MarketOrderId(counter + 1, NIL, price)
  IN /\ counter < MaxOrders
     /\ CanPlaceOrder(accounts[u][id], side, size, price)
     /\ accounts' = [accounts EXCEPT ![u][id] = PlaceOrder(@, side, size, price, order)]
     /\ counter' = counter + 1
     /\ UNCHANGED <<collateral, namesVars>>

CancelOrderOf(u, id, side, key) ==
  LET price == accounts[u][id].orders[side][key].id.price
  IN /\ accounts' = [accounts EXCEPT ![u][id] = CancelOrder(@, side, price, key)]
     /\ UNCHANGED <<collateral, namesVars, counter>>

(* MUTANT: the maker's coins are taken for those of the base of any side.  *)
RouteBaseOut(c, id, side, base, quote) ==
  Moved(Moved(c, id, "base", -base), id, "quote", quote)

(* An ask gives base coins of its collateral for quote coins, a bid the    *)
(* other way around.                                                       *)
Route(c, id, side, base, quote) ==
  LET sign == IF side = "ask" THEN 1 ELSE -1
  IN Moved(Moved(c, id, "base", -sign * base), id, "quote", sign * quote)

(* A taker's assets are withdrawn, an order is filled, and what the taker  *)
(* receives is deposited.                                                  *)
FillOrderOf(maker, taker, id, takerId, side, key, size) ==
  LET order == accounts[maker][id].orders[side][key]
      price == order.id.price
      base  == Units("base", size, price)
      quote == Units("quote", size, price)
      gives == InAsset(side)
      gets  == OutAsset(side)
      filled == [accounts EXCEPT
        ![taker][takerId] = Withdraw(@, gives, Units(gives, size, price)),
        ![maker][id] = FillOrder(@, side, key, size, size = order.size, price)]
      routed == [collateral EXCEPT ![maker] = Route(@, id, side, base, quote)]
  IN /\ size <= order.size
     /\ <<maker, id>> # <<taker, takerId>> /\ id[1] = takerId[1]
     /\ CanWithdraw(accounts[taker][takerId], gives, Units(gives, size, price))
     /\ CanDeposit(filled[taker][takerId], gets, Units(gets, size, price))
     /\ accounts' = [filled EXCEPT
          ![taker][takerId] = Deposit(@, gets, Units(gets, size, price))]
     /\ collateral' = [routed EXCEPT
          ![taker] = Route(@, takerId, Opposite(side), base, quote)]
     /\ UNCHANGED <<namesVars, counter>>

-----------------------------------------------------------------------------

Registers ==
  \E u \in Users :
    \/ \E market \in DOMAIN Markets, custodian \in 0..NCustodians + 1 :
         \/ RegisterMarketAccount(u, market, custodian)
         \/ RegisterWithoutHandles(u, market, custodian)
    \/ \E id \in DOMAIN accounts[u] : InitMarketEventHandlesIfMissing(u, id)

Funds ==
  \E u \in Users : \E id \in DOMAIN accounts[u] :
    \E asset \in Assets, amount \in Amounts, underwriter \in Underwriters :
      \/ DepositAsset(u, id, asset, amount, underwriter)
      \/ WithdrawAsset(u, id, asset, amount, underwriter)

Trades ==
  \E u \in Users : \E id \in DOMAIN accounts[u] : \E side \in Sides :
    \/ \E size \in Sizes, price \in Prices : PlaceOrderOf(u, id, side, size, price)
    \/ \E key \in ActiveKeys(accounts[u][id], side) :
         \/ CancelOrderOf(u, id, side, key)
         \/ \E taker \in Users, size \in Sizes :
              \E takerId \in DOMAIN accounts[taker] :
                FillOrderOf(u, taker, id, takerId, side, key, size)

Next == Upgrade \/ Registers \/ Funds \/ Trades

Spec == Init /\ [][Next]_vars

-----------------------------------------------------------------------------
(* Properties.                                                             *)

(* get_all_market_account_ids_for_user.                                    *)
AllMarketAccountIds(u) ==
  FlattenSeq([i \in DOMAIN custodians[u] |->
    LET e == custodians[u][i]
    IN [j \in DOMAIN e.custodians |-> <<e.market, e.custodians[j]>>]])

(* The views that go through a user's markets and custodians find each     *)
(* market account, and each once, in whatever order they were registered.  *)
AccountsListed ==
  \A u \in Users :
    /\ ToSet(AllMarketAccountIds(u)) = DOMAIN accounts[u]
    /\ IsInjective(AllMarketAccountIds(u))

(* Each account has as many coins of its own as its totals say, though     *)
(* they lie in maps by type, where the base of one market is the quote of  *)
(* another, and no others; a generic asset has none.                       *)
CollateralBacksTotals ==
  \A u \in Users, x \in Coins :
    /\ DOMAIN collateral[u][x] = {id \in DOMAIN accounts[u] : x \in CoinsOf(id[1])}
    /\ \A id \in DOMAIN collateral[u][x] :
         \A asset \in Assets :
           TypeOf(id, asset) = x => collateral[u][x][id] = accounts[u][id].total[asset]

(* Handles are of market accounts, and no two of one user share a creation *)
(* number, by which their events are told apart.                           *)
HandlesDistinct ==
  \A u \in Users :
    /\ DOMAIN handles[u] \subseteq DOMAIN accounts[u]
    /\ \A i, j \in DOMAIN handles[u] :
         i # j => \/ handles[u][i] + NewHandles <= handles[u][j]
                  \/ handles[u][j] + NewHandles <= handles[u][i]

(* The handles of an account are never replaced, whenever and however      *)
(* often they are asked for: those who follow its events lose none.        *)
HandlesKept ==
  [][\A u \in DOMAIN handles : \A id \in DOMAIN handles[u] :
       id \in DOMAIN handles'[u] /\ handles'[u][id] = handles[u][id]]_vars
=============================================================================
