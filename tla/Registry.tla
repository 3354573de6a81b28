------------------------------ MODULE Registry ------------------------------
(***************************************************************************)
(* The registry of markets (registry.move) with the fees its registrations *)
(* pay (Incentives), and the order books and fee stores that market.move   *)
(* makes for each market it registers.  Sizes are one model value.  Names  *)
(* of generic assets have the right length.                                *)
(***************************************************************************)
EXTENDS Incentives, SequencesExt

CONSTANTS
  Coins,           \* coin types; none is the generic asset
  Generics,        \* names of generic assets
  Sizes,           \* triples of nonzero lot, tick and minimum size
  MaxMarkets, MaxUnderwriters, MaxCustodians, MaxEvents, MaxBatch   \* bounds

NO_UNDERWRITER == 0
GenericAsset   == "GenericAsset"
NO_NAME        == ""     \* base_name_generic of a market of two coins

ASSUME RegistryAssumption ==
  /\ GenericAsset \notin Coins /\ NO_NAME \notin Generics
  /\ MaxMarkets \in Nat /\ MaxUnderwriters \in Nat /\ MaxCustodians \in Nat
  /\ MaxEvents \in Nat /\ MaxBatch \in Nat

VARIABLES
  idToInfo,       \* market_id_to_info: market IDs are 1, 2, ...
  infoToId,       \* market_info_to_id
  nCustodians, nUnderwriters,
  recognized,     \* RecognizedMarkets.map: trading pair to market info and ID
  events,         \* recognized_market_events: <<pair, info or NONE>>
  orderBooks,     \* OrderBooks.map: market ID to the types of its book
  capabilities,   \* UnderwriterCapability IDs that were handed out
  wanted          \* of each pair, the market last set and not removed since

registryVars == <<idToInfo, infoToId, nCustodians, nUnderwriters, recognized,
                  events, orderBooks, capabilities, wanted>>
vars == <<incentivesVars, registryVars>>

NONE == [id |-> 0]

Init ==
  /\ IncentivesInit
  /\ idToInfo = << >> /\ infoToId = << >>
  /\ nCustodians = 0 /\ nUnderwriters = 0
  /\ recognized = << >> /\ events = << >>
  /\ orderBooks = << >>
  /\ capabilities = {} /\ wanted = << >>

Pair(info) == [base |-> info.base, name |-> info.name, quote |-> info.quote]

-----------------------------------------------------------------------------
(* Registration of markets.                                                *)

IsKnown(info) == info \in DOMAIN infoToId

NewMarketId == Len(idToInfo) + 1

(* register_market_internal, and register_market of market.move.           *)
RegisterMarket(info, type, amount) ==
  LET id == NewMarketId
  IN /\ Len(idToInfo) < MaxMarkets
     /\ info.base # info.quote
     /\ ~IsKnown(info)
     /\ infoToId' = With(infoToId, info, id)
     /\ idToInfo' = Append(idToInfo, info)
     /\ DepositUtilityCoinsVerified(type, amount, parameters.marketFee)
     /\ orderBooks' = With(orderBooks, id, info)
     /\ RegisterEconiaFeeStoreEntry(info.quote, id)
     /\ UNCHANGED <<parameters, integratorStores, updates, activations,
                    nCustodians, nUnderwriters, recognized, events,
                    capabilities, wanted>>

RegisterMarketBaseCoin(base, quote, sizes, type, amount) ==
  RegisterMarket([base |-> base, name |-> NO_NAME, quote |-> quote,
                  sizes |-> sizes, underwriter |-> NO_UNDERWRITER],
                 type, amount)

RegisterMarketBaseGeneric(name, quote, sizes, underwriter, type, amount) ==
  RegisterMarket([base |-> GenericAsset, name |-> name, quote |-> quote,
                  sizes |-> sizes, underwriter |-> underwriter],
                 type, amount)

-----------------------------------------------------------------------------
(* Capabilities and fee stores.                                            *)

RegisterCustodianCapability(type, amount) ==
  /\ nCustodians < MaxCustodians
  /\ nCustodians' = nCustodians + 1
  /\ DepositUtilityCoinsVerified(type, amount, parameters.custodianFee)
  /\ UNCHANGED <<parameters, econiaStores, integratorStores, updates, feesHeld,
                 activations, idToInfo, infoToId, nUnderwriters, recognized,
                 events, orderBooks, capabilities, wanted>>

NewUnderwriterId == nUnderwriters + 1

RegisterUnderwriterCapability(type, amount) ==
  /\ nUnderwriters < MaxUnderwriters
  /\ nUnderwriters' = nUnderwriters + 1
  /\ capabilities' = capabilities \cup {NewUnderwriterId}
  /\ DepositUtilityCoinsVerified(type, amount, parameters.underwriterFee)
  /\ UNCHANGED <<parameters, econiaStores, integratorStores, updates, feesHeld,
                 activations, idToInfo, infoToId, nCustodians, recognized,
                 events, orderBooks, wanted>>

IsMarketFor(market, quote) ==
  market \in DOMAIN idToInfo /\ idToInfo[market].quote = quote

RegisterIntegratorFeeStore(integrator, quote, market, tier, type, amount) ==
  /\ IsMarketFor(market, quote)
  /\ IntegratorFeeStore(integrator, quote, market, tier, type, amount)
  /\ UNCHANGED registryVars

-----------------------------------------------------------------------------
(* Recognized markets, one at a time and in a vector.  A vector is handled *)
(* in one transaction: when one call of it aborts, none has an effect.     *)

State == [map |-> recognized, log |-> events, wanted |-> wanted, ok |-> TRUE]

Entry(id) == [id |-> id, sizes |-> idToInfo[id].sizes,
              underwriter |-> idToInfo[id].underwriter]

(* set_recognized_market.                                                  *)
SetRecognizedOne(s, id) ==
  IF id \notin DOMAIN idToInfo THEN [s EXCEPT !.ok = FALSE]
  ELSE LET pair == Pair(idToInfo[id])
       IN [s EXCEPT !.map = With(@, pair, Entry(id)),
                    !.log = Append(@, <<pair, Entry(id)>>),
                    !.wanted = With(@, pair, id)]

(* MUTANT: any market of the pair may be named to remove the entry.        *)
RemoveRecognizedAny(s, id) ==
  IF id \notin DOMAIN idToInfo THEN [s EXCEPT !.ok = FALSE]
  ELSE LET pair == Pair(idToInfo[id])
       IN IF pair \notin DOMAIN s.map THEN [s EXCEPT !.ok = FALSE]
          ELSE [s EXCEPT
                 !.map = Restrict(@, DOMAIN @ \ {pair}),
                 !.log = Append(@, <<pair, NONE>>),
                 !.wanted = IF s.wanted[pair] = id
                            THEN Restrict(@, DOMAIN @ \ {pair}) ELSE @]

(* remove_recognized_market.                                               *)
RemoveRecognizedOne(s, id) ==
  IF id \notin DOMAIN idToInfo THEN [s EXCEPT !.ok = FALSE]
  ELSE LET pair == Pair(idToInfo[id])
       IN IF pair \notin DOMAIN s.map THEN [s EXCEPT !.ok = FALSE]
          ELSE IF s.map[pair].id # id THEN [s EXCEPT !.ok = FALSE]
          ELSE [s EXCEPT
                 !.map = Restrict(@, DOMAIN @ \ {pair}),
                 !.log = Append(@, <<pair, NONE>>),
                 !.wanted = IF s.wanted[pair] = id
                            THEN Restrict(@, DOMAIN @ \ {pair}) ELSE @]

Recognize(s) ==
  /\ s.ok
  /\ Len(s.log) <= MaxEvents
  /\ recognized' = s.map /\ events' = s.log /\ wanted' = s.wanted
  /\ UNCHANGED <<incentivesVars, idToInfo, infoToId, nCustodians,
                 nUnderwriters, orderBooks, capabilities>>

SetRecognizedMarkets(ids) == Recognize(FoldLeft(SetRecognizedOne, State, ids))

RemoveRecognizedMarkets(ids) ==
  Recognize(FoldLeft(RemoveRecognizedOne, State, ids))

-----------------------------------------------------------------------------
Payments == 0..MaxPayment
Batches == UNION {[1..n -> 1..MaxMarkets] : n \in 1..MaxBatch}

RegisterAnyMarket ==
  \E quote \in Coins, sizes \in Sizes, type \in UtilityTypes, n \in Payments :
    \/ \E base \in Coins :
         RegisterMarketBaseCoin(base, quote, sizes, type, n)
    \/ \E name \in Generics, underwriter \in capabilities :
         RegisterMarketBaseGeneric(name, quote, sizes, underwriter, type, n)

RegisterCapability ==
  \E type \in UtilityTypes, n \in Payments :
    \/ RegisterCustodianCapability(type, n)
    \/ RegisterUnderwriterCapability(type, n)

IntegratorCalls ==
  \E type \in UtilityTypes, n \in Payments :
    \/ \E i \in Integrators, quote \in Coins, market \in 1..MaxMarkets,
          tier \in 0..Len(parameters.tiers) :
         RegisterIntegratorFeeStore(i, quote, market, tier, type, n)
    \/ \E s \in DOMAIN integratorStores :
         /\ \/ \E tier \in 0..Len(parameters.tiers) :
                 UpgradeIntegratorFeeStore(s, tier, type, n)
            \/ WithdrawIntegratorFees(s, type, n)
         /\ UNCHANGED registryVars

TakerCalls ==
  /\ \E i \in Integrators, market \in DOMAIN orderBooks, fill \in 1..MaxFill :
       AssessTakerFees(i, orderBooks[market].quote, market, fill)
  /\ UNCHANGED registryVars

OwnerCalls ==
  \/ /\ \/ \E p \in ParameterSets : UpdateIncentives(p)
        \/ \E m \in DOMAIN econiaStores : \E n \in 1..HI_64 :
             WithdrawEconiaFees(m, n)
        \/ \E t \in DOMAIN utilityStores : \E n \in 1..HI_64 :
             WithdrawUtilityCoins(t, n)
     /\ UNCHANGED registryVars
  \/ \E ids \in Batches : \/ SetRecognizedMarkets(ids)
                          \/ RemoveRecognizedMarkets(ids)

Next == \/ RegisterAnyMarket \/ RegisterCapability \/ IntegratorCalls
        \/ TakerCalls \/ OwnerCalls

Spec == Init /\ [][Next]_vars

-----------------------------------------------------------------------------
(* Properties.                                                             *)

(* A market's ID leads to its parameters and they to its ID, and each has  *)
(* its own order book and store of Econia's fees, of its quote type: the   *)
(* four tables are filled by three modules in one call.                    *)
MarketsFound ==
  /\ Range(infoToId) = DOMAIN idToInfo
  /\ \A info \in DOMAIN infoToId : idToInfo[infoToId[info]] = info
  /\ DOMAIN orderBooks = DOMAIN idToInfo
  /\ DOMAIN econiaStores = {<<idToInfo[id].quote, id>> : id \in DOMAIN idToInfo}
  /\ \A id \in DOMAIN idToInfo : orderBooks[id] = idToInfo[id]

(* A market of a generic asset, and no other, has an underwriter: one that *)
(* was registered, and whose number no other capability has.               *)
GenericsUnderwritten ==
  /\ Cardinality(capabilities) = nUnderwriters
  /\ \A id \in DOMAIN idToInfo :
       IF idToInfo[id].base = GenericAsset
       THEN idToInfo[id].underwriter \in 1..nUnderwriters
       ELSE idToInfo[id].underwriter = NO_UNDERWRITER

(* An integrator's store is one that a taker's order on its market pays    *)
(* into.                                                                   *)
StoresReachable ==
  \A s \in DOMAIN integratorStores : <<s[2], s[3]>> \in DOMAIN econiaStores

(* A pair's recognized market is the last one set for it, until that one   *)
(* is removed by its own ID, and its entry has that market's parameters.   *)
RecognizedUntilRemoved ==
  /\ DOMAIN recognized = DOMAIN wanted
  /\ \A pair \in DOMAIN recognized :
       /\ Pair(idToInfo[recognized[pair].id]) = pair
       /\ recognized[pair] = Entry(wanted[pair])

(* Who follows the events of recognized markets has the map of them.       *)
EventsTellRecognized ==
  FoldLeft(LAMBDA map, e : IF e[2] = NONE
                           THEN Restrict(map, DOMAIN map \ {e[1]})
                           ELSE With(map, e[1], e[2]),
           << >>, events) = recognized

(* What the registry says in one table it says in the others, and in its   *)
(* events, by whatever calls they were filled.                             *)
RegistryAgrees ==
  /\ MarketsFound
  /\ GenericsUnderwritten
  /\ StoresReachable
  /\ RecognizedUntilRemoved
  /\ EventsTellRecognized
=============================================================================
