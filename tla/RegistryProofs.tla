--------------------------- MODULE RegistryProofs ---------------------------
(***************************************************************************)
(* The registry, the fees it collects and the tablists that hold them, for *)
(* all constants.  No parameters that the owner of Econia may set make the *)
(* share of an integrator larger than the fee it is taken from, or its     *)
(* tier one that does not exist, and ways to a tier cost the same; no coin *)
(* is lost; the tables of the registry agree; and a tablist is a table     *)
(* that keeps its keys in the order of addition.                           *)
(***************************************************************************)
EXTENDS Registry, CollectionProofs

-----------------------------------------------------------------------------
(* Arithmetic.                                                             *)

LEMMA ProductGrows ==
  ASSUME NEW a \in Nat, NEW b \in Nat, NEW q \in Nat, a >= b
  PROVE  a * q >= b * q
OBVIOUS

LEMMA QuotientBounds ==
  ASSUME NEW f \in Nat, NEW a \in Nat \ {0}
  PROVE  /\ f \div a \in Nat
         /\ a * (f \div a) <= f
         /\ f < a * (f \div a) + a
OBVIOUS

(* The larger the divisor the smaller the quotient: the share of an        *)
(* integrator is reckoned by a second division of the same amount.         *)
LEMMA QuotientFalls ==
  ASSUME NEW f \in Nat, NEW a \in Nat, NEW b \in Nat \ {0}, a >= b
  PROVE  f \div a <= f \div b
<1> DEFINE q == f \div a
           r == f \div b
<1>1. a \in Nat \ {0}
  OBVIOUS
<1>2. q \in Nat /\ a * q <= f
  BY <1>1, QuotientBounds
<1>3. r \in Nat /\ f < b * r + b
  BY QuotientBounds
<1> HIDE DEF q, r
<1>4. a * q >= b * q
  BY <1>2, ProductGrows
<1>5. SUFFICES ASSUME q >= r + 1 PROVE FALSE
  BY <1>2, <1>3 DEF q, r
<1>6. b * q >= b * (r + 1)
  BY <1>2, <1>3, <1>5
<1>7. b * (r + 1) = b * r + b
  BY <1>3
<1>8. b * q \in Nat /\ b * r \in Nat /\ a * q \in Nat
  BY <1>2, <1>3
<1> QED
  BY <1>2, <1>3, <1>4, <1>6, <1>7, <1>8

-----------------------------------------------------------------------------
(* The invariant.                                                          *)

TierRecords == [divisor : Nat, activation : Nat, withdrawal : Nat]

(* The set in force passed the checks of set_incentive_parameters.         *)
ParametersChecked ==
  /\ parameters \in ParameterSets
  /\ InRange(parameters)
  /\ TiersAscend(parameters.divisor, parameters.tiers)

(* The tier of each store is one of the set in force.                      *)
TiersKnown ==
  \A s \in DOMAIN integratorStores :
    /\ integratorStores[s] \in [tier : Nat, coins : Nat]
    /\ IsTier(integratorStores[s].tier)

(* What was paid for a store is known from when it was registered.         *)
PaymentsKnown ==
  /\ DOMAIN activations = DOMAIN integratorStores
  /\ \A s \in DOMAIN activations :
       /\ activations[s] \in [paid : Nat, current : BOOLEAN]
       /\ activations[s].current =>
            activations[s].paid = Tier(integratorStores[s].tier).activation

FeeInv == ParametersChecked /\ TiersKnown /\ PaymentsKnown

LEMMA ParametersType ==
  ASSUME ParametersChecked
  PROVE  /\ parameters.divisor \in Nat /\ parameters.divisor >= 2
         /\ parameters.tiers \in Seq(TierRecords)
         /\ Len(parameters.tiers) \in Nat
BY ConstantsAssumption
   DEF ParametersChecked, InRange, MIN_DIVISOR, TierRecords

LEMMA TierType ==
  ASSUME ParametersChecked, NEW n \in Nat, IsTier(n)
  PROVE  /\ Tier(n) \in TierRecords
         /\ Tier(n).divisor >= parameters.divisor
<1>1. parameters.tiers \in Seq(TierRecords) /\ Len(parameters.tiers) \in Nat
  BY ParametersType
<1>2. n + 1 \in DOMAIN parameters.tiers
  BY <1>1 DEF IsTier
<1>3. Tier(n) \in TierRecords
  BY <1>1, <1>2 DEF Tier
<1>4. Tier(n).divisor >= parameters.divisor
  BY <1>2 DEF Tier, ParametersChecked, TiersAscend
<1> QED
  BY <1>3, <1>4

(* The invariant says what the two properties say.                         *)
LEMMA InvariantGivesShare ==
  ASSUME ParametersChecked, TiersKnown
  PROVE  ShareWithinFee
<1> SUFFICES ASSUME NEW s \in DOMAIN integratorStores
             PROVE  /\ IsTier(integratorStores[s].tier)
                    /\ \A fill \in 0..MaxFill :
                         fill \div Tier(integratorStores[s].tier).divisor
                           <= fill \div parameters.divisor
  BY DEF ShareWithinFee
<1> DEFINE n == integratorStores[s].tier
<1>1. n \in Nat /\ IsTier(n)
  BY DEF TiersKnown
<1>2. Tier(n).divisor \in Nat /\ Tier(n).divisor >= parameters.divisor
  BY <1>1, TierType DEF TierRecords
<1>3. parameters.divisor \in Nat \ {0}
  BY ParametersType
<1>4. \A fill \in 0..MaxFill : fill \in Nat
  BY ConstantsAssumption
<1>5. \A fill \in 0..MaxFill :
        fill \div Tier(n).divisor <= fill \div parameters.divisor
  BY <1>2, <1>3, <1>4, QuotientFalls
<1> QED
  BY <1>1, <1>5

LEMMA InvariantGivesPaths ==
  ASSUME PaymentsKnown
  PROVE  UpgradePathsEqual
BY DEF PaymentsKnown, UpgradePathsEqual

LEMMA InitFeeInv == Init => FeeInv
<1> SUFFICES ASSUME Init PROVE FeeInv
  OBVIOUS
<1>1. ParametersChecked
  BY ConstantsAssumption DEF Init, IncentivesInit, ParametersChecked
<1>2. DOMAIN integratorStores = {} /\ DOMAIN activations = {}
  BY DEF Init, IncentivesInit
<1> QED
  BY <1>1, <1>2 DEF FeeInv, TiersKnown, PaymentsKnown

-----------------------------------------------------------------------------
(* Each step keeps the invariant.                                          *)

LEMMA KeptWhenUnchanged ==
  ASSUME FeeInv, UNCHANGED <<parameters, integratorStores, activations>>
  PROVE  FeeInv'
BY DEF FeeInv, ParametersChecked, InRange, TiersAscend, TiersKnown, IsTier,
       PaymentsKnown, Tier

(* New parameters have been checked, and have no fewer tiers than the old; *)
(* what was paid under the old ones is no longer compared.                 *)
LEMMA KeptByUpdate ==
  ASSUME FeeInv, NEW p \in ParameterSets, UpdateIncentives(p)
  PROVE  FeeInv'
<1>1. ParametersChecked'
  BY DEF UpdateIncentives, ParametersChecked, InRange, TiersAscend
<1>2. Len(parameters.tiers) \in Nat /\ Len(parameters'.tiers) \in Nat
  <2>1. Len(parameters.tiers) \in Nat
    BY ParametersType DEF FeeInv
  <2>2. p.tiers \in Seq(TierRecords)
    BY ConstantsAssumption DEF TierRecords
  <2> QED
    BY <2>1, <2>2 DEF UpdateIncentives
<1>3. TiersKnown'
  <2> SUFFICES ASSUME NEW s \in DOMAIN integratorStores
               PROVE  /\ integratorStores[s] \in [tier : Nat, coins : Nat]
                      /\ integratorStores[s].tier < Len(parameters'.tiers)
    BY DEF UpdateIncentives, TiersKnown, IsTier
  <2>1. /\ integratorStores[s] \in [tier : Nat, coins : Nat]
        /\ integratorStores[s].tier < Len(parameters.tiers)
    BY DEF FeeInv, TiersKnown, IsTier
  <2>2. Len(parameters'.tiers) >= Len(parameters.tiers)
    BY DEF UpdateIncentives
  <2> QED
    BY <1>2, <2>1, <2>2
<1>4. PaymentsKnown'
  <2>1. /\ integratorStores' = integratorStores
        /\ DOMAIN activations' = DOMAIN activations
        /\ DOMAIN activations = DOMAIN integratorStores
    BY DEF UpdateIncentives, FeeInv, PaymentsKnown
  <2>2. ASSUME NEW s \in DOMAIN activations
        PROVE  /\ activations'[s] \in [paid : Nat, current : BOOLEAN]
               /\ activations'[s].current = FALSE
    <3>1. activations[s] \in [paid : Nat, current : BOOLEAN]
      BY DEF FeeInv, PaymentsKnown
    <3>2. activations'[s] = [activations[s] EXCEPT !.current = FALSE]
      BY DEF UpdateIncentives
    <3> QED
      BY <3>1, <3>2, Zenon
  <2> QED
    BY <2>1, <2>2, Zenon DEF PaymentsKnown
<1> QED
  BY <1>1, <1>3, <1>4 DEF FeeInv

(* A new store has a tier of the set in force, and paid what it costs.     *)
LEMMA KeptByRegistration ==
  ASSUME FeeInv, NEW i, NEW quote, NEW market, NEW tier \in Nat, NEW type,
         NEW amount, IntegratorFeeStore(i, quote, market, tier, type, amount)
  PROVE  FeeInv'
<1> DEFINE new == <<i, quote, market>>
<1>1. parameters' = parameters /\ IsTier(tier)
  BY DEF IntegratorFeeStore
<1>2. ParametersChecked'
  BY <1>1 DEF FeeInv, ParametersChecked, InRange, TiersAscend
<1>3. Tier(tier).activation \in Nat
  BY <1>1, TierType DEF FeeInv, TierRecords
<1>4. integratorStores'
        = With(integratorStores, new, [tier |-> tier, coins |-> 0])
  BY DEF IntegratorFeeStore
<1>5. activations'
        = With(activations, new,
               [paid |-> Tier(tier).activation, current |-> TRUE])
  BY DEF IntegratorFeeStore
<1>6. TiersKnown'
  BY <1>1, <1>4 DEF FeeInv, TiersKnown, IsTier, With
<1>7. PaymentsKnown'
  <2>1. DOMAIN activations' = DOMAIN integratorStores'
    BY <1>4, <1>5 DEF With, FeeInv, PaymentsKnown
  <2>2. ASSUME NEW s \in DOMAIN activations'
        PROVE  /\ activations'[s] \in [paid : Nat, current : BOOLEAN]
               /\ activations'[s].current =>
                    activations'[s].paid
                      = Tier(integratorStores'[s].tier).activation
    <3>1. CASE s = new
      BY <1>3, <1>4, <1>5, <3>1 DEF With
    <3>2. CASE s # new
      <4>1. /\ s \in DOMAIN activations /\ activations'[s] = activations[s]
            /\ integratorStores'[s] = integratorStores[s]
        BY <1>4, <1>5, <3>2 DEF With, FeeInv, PaymentsKnown
      <4> QED
        BY <4>1 DEF FeeInv, PaymentsKnown
    <3> QED
      BY <3>1, <3>2
  <2> QED
    BY <1>1, <2>1, <2>2 DEF PaymentsKnown, Tier
<1> QED
  BY <1>2, <1>6, <1>7 DEF FeeInv

(* What the upgrade costs makes up for what was paid.                      *)
LEMMA KeptByUpgrade ==
  ASSUME FeeInv, NEW s \in DOMAIN integratorStores, NEW tier \in Nat,
         NEW type, NEW amount, UpgradeIntegratorFeeStore(s, tier, type, amount)
  PROVE  FeeInv'
<1> DEFINE old == integratorStores[s].tier
           cost == CostToUpgrade(old, tier)
<1>1. parameters' = parameters /\ IsTier(tier) /\ IsTier(old) /\ cost > 0
  BY DEF UpgradeIntegratorFeeStore
<1>2. ParametersChecked'
  BY <1>1 DEF FeeInv, ParametersChecked, InRange, TiersAscend
<1>3. integratorStores' = [integratorStores EXCEPT ![s].tier = tier]
  BY DEF UpgradeIntegratorFeeStore
<1>4. activations' = [activations EXCEPT ![s].paid = @ + cost]
  BY DEF UpgradeIntegratorFeeStore
<1>5. TiersKnown'
  BY <1>1, <1>3 DEF FeeInv, TiersKnown, IsTier
<1>6. PaymentsKnown'
  <2>1. DOMAIN activations' = DOMAIN integratorStores'
    BY <1>3, <1>4 DEF FeeInv, PaymentsKnown
  <2>2. old \in Nat
    BY DEF FeeInv, TiersKnown
  <2>3. Tier(tier).activation \in Nat /\ Tier(old).activation \in Nat
    BY <1>1, <2>2, TierType DEF FeeInv, TierRecords
  <2>4. cost \in Nat /\ cost = Tier(tier).activation - Tier(old).activation
    BY <1>1, <2>3 DEF CostToUpgrade
  <2> HIDE DEF cost
  <2>5. ASSUME NEW t \in DOMAIN activations
        PROVE  /\ activations'[t] \in [paid : Nat, current : BOOLEAN]
               /\ activations'[t].current =>
                    activations'[t].paid
                      = Tier(integratorStores'[t].tier).activation
    <3>1. /\ activations[t] \in [paid : Nat, current : BOOLEAN]
          /\ activations[t].current =>
               activations[t].paid = Tier(integratorStores[t].tier).activation
          /\ t \in DOMAIN integratorStores
          /\ integratorStores[t] \in [tier : Nat, coins : Nat]
      BY DEF FeeInv, PaymentsKnown, TiersKnown
    <3>2. CASE t = s
      <4>1. /\ activations'[s] = [activations[s] EXCEPT !.paid = @ + cost]
            /\ integratorStores'[s].tier = tier
        BY <1>3, <1>4, <3>1, <3>2
      <4>2. activations'[s].paid = activations[s].paid + cost
        BY <3>1, <3>2, <4>1
      <4> QED
        BY <2>3, <2>4, <3>1, <3>2, <4>1, <4>2
    <3>3. CASE t # s
      BY <1>3, <1>4, <3>1, <3>3
    <3> QED
      BY <3>2, <3>3
  <2> QED
    BY <1>1, <1>4, <2>1, <2>5 DEF PaymentsKnown, Tier
<1> QED
  BY <1>2, <1>5, <1>6 DEF FeeInv

(* Coins come into a store and leave it, and its tier stays.               *)
LEMMA KeptByCoins ==
  ASSUME FeeInv, NEW s \in DOMAIN integratorStores, NEW coins \in Nat,
         integratorStores' = [integratorStores EXCEPT ![s].coins = coins],
         UNCHANGED <<parameters, activations>>
  PROVE  FeeInv'
<1>1. ParametersChecked'
  BY DEF FeeInv, ParametersChecked, InRange, TiersAscend
<1>2. /\ DOMAIN integratorStores' = DOMAIN integratorStores
      /\ \A t \in DOMAIN integratorStores :
           /\ integratorStores'[t] \in [tier : Nat, coins : Nat]
           /\ integratorStores'[t].tier = integratorStores[t].tier
  BY DEF FeeInv, TiersKnown
<1>3. TiersKnown'
  BY <1>2 DEF FeeInv, TiersKnown, IsTier
<1>4. PaymentsKnown'
  BY <1>2 DEF FeeInv, PaymentsKnown, Tier
<1> QED
  BY <1>1, <1>3, <1>4 DEF FeeInv

LEMMA KeptByTaker ==
  ASSUME FeeInv, NEW i, NEW quote, NEW market, NEW fill \in 1..MaxFill,
         AssessTakerFees(i, quote, market, fill)
  PROVE  FeeInv'
<1> DEFINE s == <<i, quote, market>>
<1>1. UNCHANGED <<parameters, activations>>
  BY DEF AssessTakerFees
<1>2. CASE s \notin DOMAIN integratorStores
  <2>1. integratorStores' = integratorStores
    BY <1>2 DEF AssessTakerFees
  <2> QED
    BY <1>1, <2>1, KeptWhenUnchanged
<1>3. CASE s \in DOMAIN integratorStores
  <2> DEFINE share == fill \div Tier(integratorStores[s].tier).divisor
  <2>1. /\ IsTier(integratorStores[s].tier)
        /\ integratorStores[s] \in [tier : Nat, coins : Nat]
    BY <1>3 DEF FeeInv, TiersKnown
  <2>2. Tier(integratorStores[s].tier).divisor \in Nat \ {0}
    BY <2>1, TierType, ParametersType DEF FeeInv, TierRecords
  <2>3. share \in Nat
    BY <2>2, ConstantsAssumption, QuotientBounds
  <2>4. integratorStores' = [integratorStores EXCEPT
                              ![s].coins = integratorStores[s].coins + share]
    BY <1>3 DEF AssessTakerFees
  <2>5. integratorStores[s].coins + share \in Nat
    BY <2>1, <2>3
  <2> QED
    BY <1>1, <1>3, <2>4, <2>5, KeptByCoins, Zenon
<1> QED
  BY <1>2, <1>3

LEMMA NextFeeInv == FeeInv /\ [Next]_vars => FeeInv'
<1> SUFFICES ASSUME FeeInv, [Next]_vars PROVE FeeInv'
  OBVIOUS
<1> USE DEF vars, incentivesVars, registryVars
<1>1. CASE RegisterAnyMarket
  <2>1. ASSUME NEW info, NEW type, NEW n, RegisterMarket(info, type, n)
        PROVE  UNCHANGED <<parameters, integratorStores, activations>>
    BY <2>1 DEF RegisterMarket
  <2>2. PICK quote \in Coins, sizes \in Sizes, type \in UtilityTypes,
             n \in Payments :
          \/ \E base \in Coins :
               RegisterMarketBaseCoin(base, quote, sizes, type, n)
          \/ \E name \in Generics, underwriter \in capabilities :
               RegisterMarketBaseGeneric(name, quote, sizes, underwriter,
                                         type, n)
    BY <1>1 DEF RegisterAnyMarket
  <2>3. UNCHANGED <<parameters, integratorStores, activations>>
    BY <2>1, <2>2, Zenon DEF RegisterMarketBaseCoin, RegisterMarketBaseGeneric
  <2> QED
    BY <2>3, KeptWhenUnchanged
<1>2. CASE RegisterCapability
  BY <1>2, KeptWhenUnchanged
     DEF RegisterCapability, RegisterCustodianCapability,
         RegisterUnderwriterCapability
<1>3. CASE IntegratorCalls
  <2>1. Len(parameters.tiers) \in Nat
    BY ParametersType DEF FeeInv
  <2>2. \A tier \in 0..Len(parameters.tiers) : tier \in Nat
    BY <2>1
  <2> PICK type \in UtilityTypes, n \in Payments :
        \/ \E i \in Integrators, quote \in Coins, market \in 1..MaxMarkets,
              tier \in 0..Len(parameters.tiers) :
             RegisterIntegratorFeeStore(i, quote, market, tier, type, n)
        \/ \E s \in DOMAIN integratorStores :
             \/ \E tier \in 0..Len(parameters.tiers) :
                  UpgradeIntegratorFeeStore(s, tier, type, n)
             \/ WithdrawIntegratorFees(s, type, n)
    BY <1>3 DEF IntegratorCalls
  <2>3. CASE \E i \in Integrators, quote \in Coins, market \in 1..MaxMarkets,
               tier \in 0..Len(parameters.tiers) :
              RegisterIntegratorFeeStore(i, quote, market, tier, type, n)
    BY <2>2, <2>3, KeptByRegistration DEF RegisterIntegratorFeeStore
  <2>4. CASE \E s \in DOMAIN integratorStores :
             \E tier \in 0..Len(parameters.tiers) :
               UpgradeIntegratorFeeStore(s, tier, type, n)
    BY <2>2, <2>4, KeptByUpgrade
  <2>5. CASE \E s \in DOMAIN integratorStores :
              WithdrawIntegratorFees(s, type, n)
    BY <2>5, KeptByCoins, Zenon DEF WithdrawIntegratorFees
  <2> QED
    BY <2>3, <2>4, <2>5
<1>4. CASE TakerCalls
  BY <1>4, KeptByTaker DEF TakerCalls
<1>5. CASE OwnerCalls
  <2>1. CASE \E p \in ParameterSets : UpdateIncentives(p)
    BY <2>1, KeptByUpdate
  <2>2. CASE \/ \E m \in DOMAIN econiaStores : \E n \in 1..HI_64 :
                  WithdrawEconiaFees(m, n)
             \/ \E t \in DOMAIN utilityStores : \E n \in 1..HI_64 :
                  WithdrawUtilityCoins(t, n)
    BY <2>2, KeptWhenUnchanged DEF WithdrawEconiaFees, WithdrawUtilityCoins
  <2>3. CASE \E ids \in Batches : \/ SetRecognizedMarkets(ids)
                                   \/ RemoveRecognizedMarkets(ids)
    BY <2>3, KeptWhenUnchanged
       DEF SetRecognizedMarkets, RemoveRecognizedMarkets, Recognize
  <2> QED
    BY <1>5, <2>1, <2>2, <2>3 DEF OwnerCalls
<1>6. CASE UNCHANGED vars
  BY <1>6, KeptWhenUnchanged
<1> QED
  BY <1>1, <1>2, <1>3, <1>4, <1>5, <1>6 DEF Next

(* For any sets of parameters, however often the owner replaces one by     *)
(* another: no integrator makes a taker's order abort by a share that is   *)
(* larger than the fee or by a tier that is gone (assess_taker_fees).      *)
THEOREM ShareAlwaysWithinFee == Spec => []ShareWithinFee
<1>1. FeeInv => ShareWithinFee
  BY InvariantGivesShare DEF FeeInv
<1> QED
  BY <1>1, InitFeeInv, NextFeeInv, PTL DEF Spec

(* For any sets of parameters: an integrator that reached its tier in      *)
(* several steps paid what one step would have cost                        *)
(* (get_cost_to_upgrade_integrator_fee_store_view).                        *)
THEOREM UpgradePathsAlwaysEqual == Spec => []UpgradePathsEqual
<1>1. FeeInv => UpgradePathsEqual
  BY InvariantGivesPaths DEF FeeInv
<1> QED
  BY <1>1, InitFeeInv, NextFeeInv, PTL DEF Spec

-----------------------------------------------------------------------------
(* The tables of the registry.                                             *)

PairSet  == [base : Coins \cup {GenericAsset}, name : Generics \cup {NO_NAME},
             quote : Coins]
InfoSet  == [base : Coins \cup {GenericAsset}, name : Generics \cup {NO_NAME},
             quote : Coins, sizes : Sizes, underwriter : Nat]
EntrySet == [id : Nat, sizes : Sizes, underwriter : Nat]
EventSet == PairSet \X (EntrySet \cup {NONE})

TablesTyped ==
  /\ idToInfo \in Seq(InfoSet)
  /\ nUnderwriters \in Nat /\ capabilities = 1..nUnderwriters
  /\ \A id \in DOMAIN idToInfo :
       IF idToInfo[id].base = GenericAsset
       THEN idToInfo[id].underwriter \in capabilities
       ELSE idToInfo[id].underwriter = NO_UNDERWRITER

(* The map that the events of recognized markets tell of.                  *)
Tell(map, e) == IF e[2] = NONE THEN Restrict(map, DOMAIN map \ {e[1]})
                               ELSE With(map, e[1], e[2])
Told(log) ==
  FoldLeft(LAMBDA map, e : IF e[2] = NONE
                           THEN Restrict(map, DOMAIN map \ {e[1]})
                           ELSE With(map, e[1], e[2]),
           << >>, log)

(* A state of the recognized markets, between two calls on a vector too.   *)
RecognizedOK(s) ==
  /\ s = [map |-> s.map, log |-> s.log, wanted |-> s.wanted, ok |-> s.ok]
  /\ s.log \in Seq(EventSet)
  /\ DOMAIN s.map = DOMAIN s.wanted
  /\ \A pair \in DOMAIN s.map :
       /\ s.wanted[pair] \in DOMAIN idToInfo
       /\ Pair(idToInfo[s.wanted[pair]]) = pair
       /\ s.map[pair] = Entry(s.wanted[pair])
  /\ Told(s.log) = s.map

RegistryInv ==
  /\ TablesTyped
  /\ MarketsFound
  /\ StoresReachable
  /\ RecognizedOK(State)

-----------------------------------------------------------------------------
(* Folds: a batch of calls is handled one by one, and so are the events.   *)

Effect(kind, s, e) ==
  IF kind = "event" THEN Tell(s, e)
  ELSE IF kind = "set" THEN SetRecognizedOne(s, e) ELSE RemoveRecognizedOne(s, e)

(* One step of the recursion that FoldLeft is, and functions that follow   *)
(* it: g[1..k] is the result after k elements of the sequence.             *)
FoldTerm(kind, base, seq, g, s) ==
  IF s = {} THEN base ELSE Effect(kind, g[s \ {Max(s)}], seq[Max(s)])
IsFold(g, kind, base, seq) ==
  g = [s \in SUBSET DOMAIN seq |-> FoldTerm(kind, base, seq, g, s)]

(* A non-empty set of the numbers up to n has a greatest element.          *)
LEMMA MaxIn ==
  ASSUME NEW n \in Nat, NEW s \in SUBSET (1..n), s # {}
  PROVE  Max(s) \in s /\ \A x \in s : Max(s) >= x
<1> DEFINE N == {n - x : x \in s}
<1>0. \A x \in s : x \in Int /\ n - x \in Nat
  OBVIOUS
<1>1. N \in SUBSET Nat /\ N # {}
  BY <1>0, Zenon
<1>2. PICK m \in N : \A k \in N : m <= k
  <2> HIDE DEF N
  <2> QED
    BY <1>1, Least
<1>3. PICK x \in s : m = n - x
  OBVIOUS
<1>4. \A y \in s : n - y \in N
  OBVIOUS
<1>5. \A y \in s : x >= y
  <2> HIDE DEF N
  <2>1. \A y \in s : n - x <= n - y
    BY <1>2, <1>3, <1>4
  <2> QED
    BY <1>0, <2>1
<1>6. \E z \in s : \A y \in s : z >= y
  BY <1>5
<1> QED
  BY <1>6, Zenon DEF Max

LEMMA MaxUpTo ==
  ASSUME NEW k \in Nat \ {0}
  PROVE  Max(1..k) = k /\ (1..k) \ {k} = 1..k - 1
<1>1. 1..k \in SUBSET (1..k) /\ k \in 1..k
  OBVIOUS
<1>2. Max(1..k) \in 1..k /\ \A x \in 1..k : Max(1..k) >= x
  BY <1>1, MaxIn, Zenon
<1>3. Max(1..k) = k
  BY <1>1, <1>2
<1> QED
  BY <1>3

(* The recursion has a solution on the subsets of up to m elements, ...    *)
HasFold(kind, base, seq, m) ==
  \E g : g = [s \in UpTo(DOMAIN seq, m) |-> FoldTerm(kind, base, seq, g, s)]

LEMMA FoldUpTo ==
  ASSUME NEW kind, NEW base, NEW seq, NEW n \in Nat, DOMAIN seq = 1..n,
         NEW m \in Nat
  PROVE  HasFold(kind, base, seq, m)
<1> DEFINE N == {i \in Nat : ~HasFold(kind, base, seq, i)}
           S == 1..n
<1> SUFFICES ASSUME N # {} PROVE FALSE
  OBVIOUS
<1>1. PICK k \in N : \A i \in N : k <= i
  BY Least, Zenon
<1>2. IsFiniteSet(S)
  BY FS_Interval
<1> HIDE DEF S
<1>3. \A s \in SUBSET S : IsFiniteSet(s) /\ Cardinality(s) \in Nat
  BY <1>2, FS_Subset, FS_CardinalityType
<1>4. k # 0
  <2> DEFINE g == [s \in UpTo(S, 0) |-> base]
  <2>1. \A s \in UpTo(S, 0) : s = {}
    BY <1>3, FS_EmptySet DEF UpTo
  <2>2. g = [s \in UpTo(S, 0) |-> FoldTerm(kind, base, seq, g, s)]
    BY <2>1 DEF FoldTerm
  <2>3. HasFold(kind, base, seq, 0)
    BY <2>2 DEF HasFold, S
  <2> QED
    BY <2>3
<1> DEFINE j == k - 1
<1>5. j \in Nat /\ k = j + 1 /\ ~(k <= j)
  BY <1>4
<1>6. HasFold(kind, base, seq, j)
  BY <1>1, <1>5
<1> HIDE DEF j
<1>7. PICK g : g = [s \in UpTo(S, j) |-> FoldTerm(kind, base, seq, g, s)]
  BY <1>6 DEF HasFold, S
<1> DEFINE h == [s \in UpTo(S, k) |-> FoldTerm(kind, base, seq, g, s)]
<1>8. \A s \in UpTo(S, j) : s \in UpTo(S, k)
  BY <1>3, <1>5 DEF UpTo
<1>9. \A s \in UpTo(S, j) : h[s] = g[s]
  BY <1>7, <1>8
<1>10. ASSUME NEW s \in UpTo(S, k), s # {}
       PROVE  s \ {Max(s)} \in UpTo(S, j)
  <2>1. Max(s) \in s
    BY <1>10, MaxIn DEF UpTo, S
  <2>2. IsFiniteSet(s) /\ Cardinality(s) \in Nat /\ Cardinality(s) <= k
    BY <1>3 DEF UpTo
  <2> DEFINE t == s \ {Max(s)}
  <2>3. Cardinality(t) = Cardinality(s) - 1
    BY <2>1, <2>2, FS_RemoveElement, Zenon
  <2>4. Cardinality(t) <= j
    BY <1>5, <2>2, <2>3
  <2>5. t \in SUBSET S
    BY DEF UpTo
  <2> QED
    BY <2>4, <2>5 DEF UpTo
<1>11. \A s \in UpTo(S, k) :
         FoldTerm(kind, base, seq, h, s) = FoldTerm(kind, base, seq, g, s)
  <2> SUFFICES ASSUME NEW s \in UpTo(S, k)
               PROVE  FoldTerm(kind, base, seq, h, s)
                        = FoldTerm(kind, base, seq, g, s)
    OBVIOUS
  <2>1. s # {} => h[s \ {Max(s)}] = g[s \ {Max(s)}]
    BY <1>9, <1>10, Zenon
  <2> HIDE DEF h
  <2> QED
    BY <2>1 DEF FoldTerm
<1>12. h = [s \in UpTo(S, k) |-> FoldTerm(kind, base, seq, h, s)]
  BY <1>11
<1>13. HasFold(kind, base, seq, k)
  BY <1>12, Zenon DEF HasFold, S
<1> QED
  BY <1>13

(* ... and so on all subsets.                                              *)
LEMMA FoldExists ==
  ASSUME NEW kind, NEW base, NEW seq, NEW n \in Nat, DOMAIN seq = 1..n
  PROVE  \E g : IsFold(g, kind, base, seq)
<1> DEFINE S == 1..n
<1>1. IsFiniteSet(S) /\ Cardinality(S) = n
  BY FS_Interval
<1>2. \A s \in SUBSET S : Cardinality(s) <= n
  BY <1>1, FS_Subset, Zenon
<1>3. UpTo(S, n) = SUBSET S
  BY <1>2 DEF UpTo
<1>4. HasFold(kind, base, seq, n)
  BY FoldUpTo
<1> QED
  BY <1>3, <1>4, Zenon DEF HasFold, IsFold

(* A solution goes through the sequence step by step.                      *)
LEMMA FoldSteps ==
  ASSUME NEW kind, NEW base, NEW seq, NEW n \in Nat, DOMAIN seq = 1..n,
         NEW g, IsFold(g, kind, base, seq)
  PROVE  /\ g[1..0] = base
         /\ \A k \in 1..n : g[1..k] = Effect(kind, g[1..k - 1], seq[k])
<1>1. \A s \in SUBSET (1..n) : g[s] = FoldTerm(kind, base, seq, g, s)
  BY DEF IsFold
<1>2. g[1..0] = base
  <2>1. 1..0 = {}
    OBVIOUS
  <2>2. g[{}] = base
    BY <1>1, Zenon DEF FoldTerm
  <2> QED
    BY <2>1, <2>2
<1>3. ASSUME NEW k \in 1..n
      PROVE  g[1..k] = Effect(kind, g[1..k - 1], seq[k])
  <2>0. k \in Nat \ {0} /\ k \in 1..k /\ \A x \in 1..k : x \in 1..n
    OBVIOUS
  <2>1. 1..k \in SUBSET (1..n) /\ 1..k # {} /\ k \in Nat \ {0}
    BY <2>0, Zenon
  <2>2. Max(1..k) = k /\ (1..k) \ {k} = 1..k - 1
    BY <2>1, MaxUpTo
  <2> QED
    BY <1>1, <2>1, <2>2, Zenon DEF FoldTerm
<1> QED
  BY <1>2, <1>3

(* The folds of the registry are these.                                    *)
LEMMA ToldIsFold ==
  ASSUME NEW log, NEW n \in Nat, DOMAIN log = 1..n
  PROVE  \E g : IsFold(g, "event", << >>, log) /\ Told(log) = g[1..n]
<1> DEFINE h == CHOOSE g : IsFold(g, "event", << >>, log)
<1>1. IsFold(h, "event", << >>, log)
  BY FoldExists, Zenon
<1>2. Told(log) = h[1..n]
  BY DEF Told, FoldLeft, MapThenFoldSet, IsFold, FoldTerm, Effect, Tell
<1> QED
  BY <1>1, <1>2, Zenon

LEMMA SetIsFold ==
  ASSUME NEW base, NEW ids, NEW n \in Nat, DOMAIN ids = 1..n
  PROVE  \E g : /\ IsFold(g, "set", base, ids)
                /\ FoldLeft(SetRecognizedOne, base, ids) = g[1..n]
<1> DEFINE h == CHOOSE g : IsFold(g, "set", base, ids)
<1>1. IsFold(h, "set", base, ids)
  BY FoldExists
<1>2. FoldLeft(SetRecognizedOne, base, ids) = h[1..n]
  BY DEF FoldLeft, MapThenFoldSet, IsFold, FoldTerm, Effect
<1> QED
  BY <1>1, <1>2, Zenon

LEMMA RemoveIsFold ==
  ASSUME NEW base, NEW ids, NEW n \in Nat, DOMAIN ids = 1..n
  PROVE  \E g : /\ IsFold(g, "remove", base, ids)
                /\ FoldLeft(RemoveRecognizedOne, base, ids) = g[1..n]
<1> DEFINE h == CHOOSE g : IsFold(g, "remove", base, ids)
<1>1. IsFold(h, "remove", base, ids)
  BY FoldExists
<1>2. FoldLeft(RemoveRecognizedOne, base, ids) = h[1..n]
  BY DEF FoldLeft, MapThenFoldSet, IsFold, FoldTerm, Effect
<1> QED
  BY <1>1, <1>2, Zenon

(* What holds at first and is kept by each step holds at last: P is the    *)
(* set of the numbers of steps after which it holds.                       *)
LEMMA AllSteps ==
  ASSUME NEW n \in Nat, NEW P, 0 \in P, \A k \in 1..n : k - 1 \in P => k \in P
  PROVE  \A k \in 0..n : k \in P
<1> DEFINE N == {k \in 0..n : k \notin P}
<1> SUFFICES ASSUME N # {} PROVE FALSE
  OBVIOUS
<1>1. PICK k \in N : \A i \in N : k <= i
  <2>1. N \in SUBSET Nat
    OBVIOUS
  <2> HIDE DEF N
  <2> QED
    BY <2>1, Least
<1>2. k # 0
  OBVIOUS
<1>3. k \in 1..n /\ k - 1 \in 0..n /\ ~(k <= k - 1)
  BY <1>2
<1>4. k - 1 \in P
  BY <1>1, <1>3
<1> QED
  BY <1>3, <1>4

(* Who follows the events applies one more.                                *)
LEMMA ToldMore ==
  ASSUME NEW T, NEW log \in Seq(T), NEW e \in T
  PROVE  Told(Append(log, e)) = Tell(Told(log), e)
<1> DEFINE n == Len(log)
           more == Append(log, e)
<1>1. /\ n \in Nat /\ DOMAIN log = 1..n /\ n + 1 \in Nat
      /\ DOMAIN more = 1..n + 1 /\ more[n + 1] = e
      /\ \A k \in 1..n : more[k] = log[k]
  OBVIOUS
<1> HIDE DEF n, more
<1>2. PICK g : IsFold(g, "event", << >>, log) /\ Told(log) = g[1..n]
  BY <1>1, ToldIsFold
<1>3. PICK h : IsFold(h, "event", << >>, more) /\ Told(more) = h[1..n + 1]
  BY <1>1, ToldIsFold
<1>4. /\ g[1..0] = << >>
      /\ \A k \in 1..n : g[1..k] = Effect("event", g[1..k - 1], log[k])
  <2>1. ASSUME NEW seq, DOMAIN seq = 1..n, IsFold(g, "event", << >>, seq)
        PROVE  /\ g[1..0] = << >>
               /\ \A k \in 1..n : g[1..k] = Effect("event", g[1..k - 1], seq[k])
    BY <1>1, <2>1, FoldSteps
  <2> QED
    BY <1>1, <1>2, <2>1
<1>5. /\ h[1..0] = << >>
      /\ \A k \in 1..n + 1 : h[1..k] = Effect("event", h[1..k - 1], more[k])
  BY <1>1, <1>3, FoldSteps
<1> DEFINE P == {k \in 0..n : g[1..k] = h[1..k]}
<1>6. 0 \in P
  BY <1>1, <1>4, <1>5
<1>7. ASSUME NEW k \in 1..n, k - 1 \in P
      PROVE  k \in P
  <2>1. g[1..k - 1] = h[1..k - 1] /\ k \in 1..n + 1
    BY <1>1, <1>7
  <2>2. g[1..k] = h[1..k]
    BY <1>1, <1>4, <1>5, <2>1
  <2> QED
    BY <1>1, <2>2
<1>8. n \in P
  <2> HIDE DEF P
  <2>1. \A k \in 0..n : k \in P
    BY <1>1, <1>6, <1>7, AllSteps, Zenon
  <2> QED
    BY <1>1, <2>1
<1>9. g[1..n] = h[1..n] /\ n + 1 \in 1..n + 1 /\ (n + 1) - 1 = n
  BY <1>1, <1>8
<1>10. h[1..n + 1] = Effect("event", h[1..n], e)
  BY <1>1, <1>5, <1>9
<1> QED
  BY <1>2, <1>3, <1>9, <1>10 DEF Effect, more

LEMMA NothingTold ==
  Told(<< >>) = << >>
<1>1. DOMAIN << >> = 1..0 /\ 0 \in Nat
  OBVIOUS
<1>2. PICK g : IsFold(g, "event", << >>, << >>) /\ Told(<< >>) = g[1..0]
  BY <1>1, ToldIsFold
<1> QED
  BY <1>1, <1>2, FoldSteps

(* One call keeps what is said of recognized markets.                      *)
LEMMA TypedEntry ==
  ASSUME TablesTyped, NEW id \in DOMAIN idToInfo
  PROVE  /\ id \in Nat \ {0} /\ Pair(idToInfo[id]) \in PairSet
         /\ Entry(id) \in EntrySet /\ Entry(id) # NONE /\ Entry(id).id = id
<1>1. idToInfo[id] \in InfoSet /\ id \in Nat \ {0}
  BY DEF TablesTyped
<1>2. Pair(idToInfo[id]) \in PairSet
  BY <1>1 DEF Pair, InfoSet, PairSet
<1>3. Entry(id) \in EntrySet
  BY <1>1 DEF Entry, InfoSet, EntrySet
<1>4. Entry(id).id = id /\ NONE.id = 0
  BY DEF Entry, NONE
<1> QED
  BY <1>1, <1>2, <1>3, <1>4

LEMMA SetOne ==
  ASSUME TablesTyped, NEW s, RecognizedOK(s), NEW id
  PROVE  RecognizedOK(SetRecognizedOne(s, id))
<1> DEFINE t == SetRecognizedOne(s, id)
<1>1. CASE id \notin DOMAIN idToInfo
  <2>1. t = [map |-> s.map, log |-> s.log, wanted |-> s.wanted, ok |-> FALSE]
    BY <1>1, Zenon DEF SetRecognizedOne, RecognizedOK
  <2> QED
    BY <2>1 DEF RecognizedOK
<1>2. CASE id \in DOMAIN idToInfo
  <2> DEFINE pair == Pair(idToInfo[id])
             e == <<pair, Entry(id)>>
  <2>1. pair \in PairSet /\ Entry(id) \in EntrySet /\ Entry(id) # NONE
    BY <1>2, TypedEntry
  <2>2. e \in EventSet /\ e[1] = pair /\ e[2] = Entry(id)
    BY <2>1 DEF EventSet
  <2>3. t = [map |-> With(s.map, pair, Entry(id)), log |-> Append(s.log, e),
             wanted |-> With(s.wanted, pair, id), ok |-> s.ok]
    BY <1>2, Zenon DEF SetRecognizedOne, RecognizedOK
  <2> HIDE DEF t, e
  <2>4. /\ t.map = With(s.map, pair, Entry(id)) /\ t.log = Append(s.log, e)
        /\ t.wanted = With(s.wanted, pair, id)
        /\ t = [map |-> t.map, log |-> t.log, wanted |-> t.wanted, ok |-> t.ok]
    BY <2>3
  <2>5. t.log \in Seq(EventSet)
    BY <2>2, <2>4 DEF RecognizedOK
  <2>6. Told(t.log) = Tell(Told(s.log), e)
    BY <2>2, <2>4, ToldMore DEF RecognizedOK
  <2>7. Tell(s.map, e) = With(s.map, pair, Entry(id))
    BY <2>1, <2>2 DEF Tell
  <2>8. Told(t.log) = t.map
    BY <2>4, <2>6, <2>7 DEF RecognizedOK
  <2>9. DOMAIN t.map = DOMAIN t.wanted
    BY <2>4 DEF With, RecognizedOK
  <2>10. ASSUME NEW p \in DOMAIN t.map
         PROVE  /\ t.wanted[p] \in DOMAIN idToInfo
                /\ Pair(idToInfo[t.wanted[p]]) = p
                /\ t.map[p] = Entry(t.wanted[p])
    <3>1. CASE p = pair
      <4>1. t.wanted[p] = id /\ t.map[p] = Entry(id)
        BY <2>4, <3>1 DEF With
      <4> QED
        BY <1>2, <3>1, <4>1
    <3>2. CASE p # pair
      <4> HIDE DEF pair
      <4>1. /\ p \in DOMAIN s.map /\ p \in DOMAIN s.wanted
            /\ t.wanted[p] = s.wanted[p] /\ t.map[p] = s.map[p]
        BY <2>4, <3>2 DEF With, RecognizedOK
      <4> QED
        BY <4>1 DEF RecognizedOK
    <3> QED
      BY <3>1, <3>2
  <2> QED
    BY <2>4, <2>5, <2>8, <2>9, <2>10 DEF RecognizedOK, t
<1> QED
  BY <1>1, <1>2

LEMMA RemoveOne ==
  ASSUME TablesTyped, NEW s, RecognizedOK(s), NEW id
  PROVE  RecognizedOK(RemoveRecognizedOne(s, id))
<1> DEFINE t == RemoveRecognizedOne(s, id)
           pair == Pair(idToInfo[id])
           found == /\ id \in DOMAIN idToInfo /\ pair \in DOMAIN s.map
                    /\ s.map[pair].id = id
<1>1. CASE ~found
  <2>1. t = [map |-> s.map, log |-> s.log, wanted |-> s.wanted, ok |-> FALSE]
    BY <1>1, Zenon DEF RemoveRecognizedOne, RecognizedOK
  <2> QED
    BY <2>1 DEF RecognizedOK
<1>2. CASE found
  <2> DEFINE e == <<pair, NONE>>
  <2>1. pair \in PairSet
    BY <1>2, TypedEntry
  <2>2. e \in EventSet /\ e[1] = pair /\ e[2] = NONE
    BY <2>1 DEF EventSet
  <2>3. /\ s.wanted[pair] \in DOMAIN idToInfo
        /\ s.map[pair] = Entry(s.wanted[pair])
    BY <1>2 DEF RecognizedOK
  <2>4. s.wanted[pair] = id
    BY <1>2, <2>3, TypedEntry
  <2>5. t = [map |-> Restrict(s.map, DOMAIN s.map \ {pair}),
             log |-> Append(s.log, e),
             wanted |-> Restrict(s.wanted, DOMAIN s.wanted \ {pair}),
             ok |-> s.ok]
    BY <1>2, <2>4, Zenon DEF RemoveRecognizedOne, RecognizedOK
  <2> HIDE DEF t, e
  <2>6. /\ t.map = Restrict(s.map, DOMAIN s.map \ {pair})
        /\ t.log = Append(s.log, e)
        /\ t.wanted = Restrict(s.wanted, DOMAIN s.wanted \ {pair})
        /\ t = [map |-> t.map, log |-> t.log, wanted |-> t.wanted, ok |-> t.ok]
    BY <2>5
  <2>7. t.log \in Seq(EventSet)
    BY <2>2, <2>6 DEF RecognizedOK
  <2>8. Told(t.log) = Tell(Told(s.log), e)
    BY <2>2, <2>6, ToldMore DEF RecognizedOK
  <2>9. Tell(s.map, e) = Restrict(s.map, DOMAIN s.map \ {pair})
    BY <2>2 DEF Tell
  <2>10. Told(t.log) = t.map
    BY <2>6, <2>8, <2>9 DEF RecognizedOK
  <2> HIDE DEF pair
  <2>11. DOMAIN t.map = DOMAIN t.wanted
    BY <2>6 DEF Restrict, RecognizedOK
  <2>12. ASSUME NEW p \in DOMAIN t.map
         PROVE  /\ p \in DOMAIN s.map
                /\ t.wanted[p] = s.wanted[p] /\ t.map[p] = s.map[p]
    BY <2>6 DEF Restrict, RecognizedOK
  <2> QED
    BY <2>6, <2>7, <2>10, <2>11, <2>12, Zenon DEF RecognizedOK, t
<1> QED
  BY <1>1, <1>2

(* So does a vector of them.                                               *)
LEMMA FoldKeeps ==
  ASSUME TablesTyped, NEW kind \in {"set", "remove"}, NEW base,
         RecognizedOK(base), NEW ids, NEW n \in Nat, DOMAIN ids = 1..n,
         NEW g, IsFold(g, kind, base, ids)
  PROVE  RecognizedOK(g[1..n])
<1> DEFINE P == {k \in 0..n : RecognizedOK(g[1..k])}
<1>1. /\ g[1..0] = base
      /\ \A k \in 1..n : g[1..k] = Effect(kind, g[1..k - 1], ids[k])
  BY FoldSteps
<1>2. 0 \in P
  BY <1>1
<1>3. ASSUME NEW k \in 1..n, k - 1 \in P
      PROVE  k \in P
  <2>1. g[1..k] = Effect(kind, g[1..k - 1], ids[k])
    BY <1>1
  <2>2. RecognizedOK(g[1..k - 1])
    BY <1>3
  <2>3. RecognizedOK(Effect(kind, g[1..k - 1], ids[k]))
    BY <2>2, SetOne, RemoveOne DEF Effect
  <2> QED
    BY <2>1, <2>3
<1> HIDE DEF P
<1>4. \A k \in 0..n : k \in P
  BY <1>2, <1>3, AllSteps, Zenon
<1>5. n \in P
  BY <1>4
<1> QED
  BY <1>5 DEF P

LEMMA BatchKeeps ==
  ASSUME TablesTyped, RecognizedOK(State), NEW ids \in Batches
  PROVE  /\ RecognizedOK(FoldLeft(SetRecognizedOne, State, ids))
         /\ RecognizedOK(FoldLeft(RemoveRecognizedOne, State, ids))
<1>1. PICK n \in Nat : DOMAIN ids = 1..n
  BY RegistryAssumption DEF Batches
<1>2. RecognizedOK(FoldLeft(SetRecognizedOne, State, ids))
  <2>1. PICK g : /\ IsFold(g, "set", State, ids)
                 /\ FoldLeft(SetRecognizedOne, State, ids) = g[1..n]
    BY <1>1, SetIsFold
  <2> QED
    BY <1>1, <2>1, FoldKeeps
<1>3. RecognizedOK(FoldLeft(RemoveRecognizedOne, State, ids))
  <2>1. PICK g : /\ IsFold(g, "remove", State, ids)
                 /\ FoldLeft(RemoveRecognizedOne, State, ids) = g[1..n]
    BY <1>1, RemoveIsFold
  <2> QED
    BY <1>1, <2>1, FoldKeeps
<1> QED
  BY <1>2, <1>3

-----------------------------------------------------------------------------
(* Each step keeps the tables in agreement.                                *)

LEMMA InitRegistryInv == Init => RegistryInv
<1> SUFFICES ASSUME Init PROVE RegistryInv
  OBVIOUS
<1> USE DEF Init, IncentivesInit
<1>1. TablesTyped
  BY DEF TablesTyped
<1>2. MarketsFound
  BY DEF MarketsFound, Range
<1>3. StoresReachable
  BY DEF StoresReachable
<1>4. Told(events) = recognized
  BY NothingTold
<1>5. RecognizedOK(State)
  BY <1>4 DEF RecognizedOK, State
<1> QED
  BY <1>1, <1>2, <1>3, <1>5 DEF RegistryInv

(* The tables of a step that registers no market.                          *)
LEMMA TablesStay ==
  ASSUME RegistryInv, UNCHANGED <<idToInfo, infoToId, orderBooks>>,
         UNCHANGED <<nUnderwriters, capabilities>>,
         DOMAIN econiaStores' = DOMAIN econiaStores
  PROVE  TablesTyped' /\ MarketsFound'
<1>1. TablesTyped'
  BY DEF RegistryInv, TablesTyped
<1>2. MarketsFound'
  BY DEF RegistryInv, MarketsFound
<1> QED
  BY <1>1, <1>2

LEMMA RecognizedStay ==
  ASSUME RegistryInv, UNCHANGED <<idToInfo, recognized, events, wanted>>
  PROVE  RecognizedOK(State)'
BY DEF RegistryInv, RecognizedOK, State, Entry

(* No market and no recognized market is touched; stores of integrators    *)
(* are for markets that are there.                                         *)
LEMMA KeptByFees ==
  ASSUME RegistryInv, UNCHANGED registryVars,
         DOMAIN econiaStores' = DOMAIN econiaStores,
         \A s \in DOMAIN integratorStores' :
           s \in DOMAIN integratorStores \/ <<s[2], s[3]>> \in DOMAIN econiaStores
  PROVE  RegistryInv'
<1>1. TablesTyped' /\ MarketsFound'
  BY TablesStay DEF registryVars
<1>2. RecognizedOK(State)'
  BY RecognizedStay DEF registryVars
<1>3. StoresReachable'
  BY Zenon DEF RegistryInv, StoresReachable
<1> QED
  BY <1>1, <1>2, <1>3 DEF RegistryInv

LEMMA KeptByMarket ==
  ASSUME RegistryInv, NEW info \in InfoSet,
         IF info.base = GenericAsset THEN info.underwriter \in capabilities
                                     ELSE info.underwriter = NO_UNDERWRITER,
         NEW type, NEW amount, RegisterMarket(info, type, amount)
  PROVE  RegistryInv'
<1> DEFINE id == Len(idToInfo) + 1
<1>1. idToInfo \in Seq(InfoSet)
  BY DEF RegistryInv, TablesTyped
<1>2. idToInfo' = Append(idToInfo, info)
  BY DEF RegisterMarket
<1>3. /\ id \in Nat /\ id \notin DOMAIN idToInfo
      /\ DOMAIN idToInfo' = DOMAIN idToInfo \cup {id}
      /\ idToInfo'[id] = info
      /\ \A k \in DOMAIN idToInfo : idToInfo'[k] = idToInfo[k]
  BY <1>1, <1>2
<1>4. idToInfo' \in Seq(InfoSet)
  BY <1>1, <1>2
<1>5. /\ infoToId' = With(infoToId, info, id)
      /\ orderBooks' = With(orderBooks, id, info)
      /\ econiaStores' = With(econiaStores, <<info.quote, id>>, 0)
      /\ info \notin DOMAIN infoToId
  BY DEF RegisterMarket, RegisterEconiaFeeStoreEntry, NewMarketId, IsKnown
<1>6. UNCHANGED <<integratorStores, nUnderwriters, recognized, events,
                  capabilities, wanted>>
  BY DEF RegisterMarket
<1> HIDE DEF id
<1>7. TablesTyped'
  BY <1>3, <1>4, <1>6 DEF RegistryInv, TablesTyped
<1>8. MarketsFound'
  <2>1. MarketsFound
    BY DEF RegistryInv
  <2>2. /\ DOMAIN infoToId' = DOMAIN infoToId \cup {info}
        /\ infoToId'[info] = id
        /\ \A x \in DOMAIN infoToId : infoToId'[x] = infoToId[x]
    BY <1>5 DEF With
  <2>3. Range(infoToId') = DOMAIN idToInfo'
    BY <1>3, <2>1, <2>2 DEF MarketsFound, Range
  <2>4. \A x \in DOMAIN infoToId' : idToInfo'[infoToId'[x]] = x
    <3>1. \A x \in DOMAIN infoToId : infoToId[x] \in DOMAIN idToInfo
      BY <2>1 DEF MarketsFound, Range
    <3> QED
      BY <1>3, <2>1, <2>2, <3>1 DEF MarketsFound
  <2>5. DOMAIN orderBooks' = DOMAIN idToInfo'
    BY <1>3, <1>5, <2>1 DEF MarketsFound, With
  <2>6. \A k \in DOMAIN idToInfo' : orderBooks'[k] = idToInfo'[k]
    BY <1>3, <1>5, <2>1 DEF MarketsFound, With
  <2>7. DOMAIN econiaStores'
          = {<<idToInfo'[k].quote, k>> : k \in DOMAIN idToInfo'}
    <3>1. DOMAIN econiaStores' = DOMAIN econiaStores \cup {<<info.quote, id>>}
      BY <1>5 DEF With
    <3>2. {<<idToInfo'[k].quote, k>> : k \in DOMAIN idToInfo'}
            = {<<idToInfo[k].quote, k>> : k \in DOMAIN idToInfo}
                \cup {<<info.quote, id>>}
      BY <1>3
    <3> QED
      BY <2>1, <3>1, <3>2 DEF MarketsFound
  <2> QED
    BY <2>3, <2>4, <2>5, <2>6, <2>7 DEF MarketsFound
<1>9. StoresReachable'
  BY <1>5, <1>6, Zenon DEF RegistryInv, StoresReachable, With
<1>10. RecognizedOK(State)'
  <2>1. \A k \in DOMAIN idToInfo : Entry(k)' = Entry(k)
    BY <1>3 DEF Entry
  <2> QED
    BY <1>3, <1>6, <2>1 DEF RegistryInv, RecognizedOK, State, Entry
<1> QED
  BY <1>7, <1>8, <1>9, <1>10 DEF RegistryInv

LEMMA KeptByCapability ==
  ASSUME RegistryInv, RegisterCapability
  PROVE  RegistryInv'
<1>1. /\ UNCHANGED <<idToInfo, infoToId, orderBooks, econiaStores,
                     integratorStores, recognized, events, wanted>>
      /\ \/ UNCHANGED <<nUnderwriters, capabilities>>
         \/ /\ nUnderwriters' = nUnderwriters + 1
            /\ capabilities' = capabilities \cup {nUnderwriters + 1}
  BY DEF RegisterCapability, RegisterCustodianCapability,
         RegisterUnderwriterCapability, NewUnderwriterId
<1>2. TablesTyped'
  <2>1. TablesTyped
    BY DEF RegistryInv
  <2>2. nUnderwriters' \in Nat /\ capabilities' = 1..nUnderwriters'
    <3>1. \A n \in Nat : n + 1 \in Nat /\ (1..n) \cup {n + 1} = 1..n + 1
      OBVIOUS
    <3>2. nUnderwriters \in Nat /\ capabilities = 1..nUnderwriters
      BY <2>1 DEF TablesTyped
    <3> QED
      BY <1>1, <3>1, <3>2, Zenon
  <2>3. \A u \in capabilities : u \in capabilities'
    BY <1>1
  <2> QED
    BY <1>1, <2>1, <2>2, <2>3 DEF TablesTyped
<1>3. MarketsFound'
  BY <1>1 DEF RegistryInv, MarketsFound
<1>4. StoresReachable'
  BY <1>1, Zenon DEF RegistryInv, StoresReachable
<1>5. RecognizedOK(State)'
  BY <1>1, RecognizedStay
<1> QED
  BY <1>2, <1>3, <1>4, <1>5 DEF RegistryInv

LEMMA KeptByRecognize ==
  ASSUME RegistryInv, NEW s, RecognizedOK(s), Recognize(s)
  PROVE  RegistryInv'
<1>1. UNCHANGED <<idToInfo, infoToId, orderBooks, nUnderwriters, capabilities,
                  econiaStores, integratorStores>>
  BY DEF Recognize, incentivesVars
<1>2. recognized' = s.map /\ events' = s.log /\ wanted' = s.wanted
  BY DEF Recognize
<1>3. TablesTyped' /\ MarketsFound'
  BY <1>1, TablesStay
<1>4. StoresReachable'
  BY <1>1, Zenon DEF RegistryInv, StoresReachable
<1>5. RecognizedOK(State)'
  BY <1>1, <1>2, Zenon DEF RecognizedOK, State, Entry
<1> QED
  BY <1>3, <1>4, <1>5 DEF RegistryInv

LEMMA NextRegistryInv == RegistryInv /\ [Next]_vars => RegistryInv'
<1> SUFFICES ASSUME RegistryInv, [Next]_vars PROVE RegistryInv'
  OBVIOUS
<1>1. CASE RegisterAnyMarket
  <2>1. PICK quote \in Coins, sizes \in Sizes, type \in UtilityTypes,
             n \in Payments :
          \/ \E base \in Coins :
               RegisterMarketBaseCoin(base, quote, sizes, type, n)
          \/ \E name \in Generics, underwriter \in capabilities :
               RegisterMarketBaseGeneric(name, quote, sizes, underwriter,
                                         type, n)
    BY <1>1 DEF RegisterAnyMarket
  <2>2. ASSUME NEW base \in Coins,
               RegisterMarketBaseCoin(base, quote, sizes, type, n)
        PROVE  RegistryInv'
    <3> DEFINE info == [base |-> base, name |-> NO_NAME, quote |-> quote,
                        sizes |-> sizes, underwriter |-> NO_UNDERWRITER]
    <3>1. RegisterMarket(info, type, n)
      BY <2>2 DEF RegisterMarketBaseCoin
    <3>2. /\ info \in InfoSet /\ info.base # GenericAsset
          /\ info.underwriter = NO_UNDERWRITER
      BY RegistryAssumption DEF InfoSet, NO_UNDERWRITER
    <3> HIDE DEF info
    <3> QED
      BY <3>1, <3>2, KeptByMarket
  <2>3. ASSUME NEW name \in Generics, NEW underwriter \in capabilities,
               RegisterMarketBaseGeneric(name, quote, sizes, underwriter,
                                         type, n)
        PROVE  RegistryInv'
    <3> DEFINE info == [base |-> GenericAsset, name |-> name, quote |-> quote,
                        sizes |-> sizes, underwriter |-> underwriter]
    <3>1. RegisterMarket(info, type, n)
      BY <2>3 DEF RegisterMarketBaseGeneric
    <3>2. underwriter \in Nat
      BY DEF RegistryInv, TablesTyped
    <3>3. /\ info \in InfoSet /\ info.base = GenericAsset
          /\ info.underwriter \in capabilities
      BY <3>2 DEF InfoSet
    <3> HIDE DEF info
    <3> QED
      BY <3>1, <3>3, KeptByMarket
  <2> QED
    BY <2>1, <2>2, <2>3
<1>2. CASE RegisterCapability
  BY <1>2, KeptByCapability
<1>3. CASE IntegratorCalls
  <2>1. ASSUME NEW i, NEW quote, NEW market, NEW tier, NEW type, NEW n,
               RegisterIntegratorFeeStore(i, quote, market, tier, type, n)
        PROVE  RegistryInv'
    <3>1. <<quote, market>> \in DOMAIN econiaStores
      BY <2>1 DEF RegisterIntegratorFeeStore, IsMarketFor, RegistryInv,
                  MarketsFound
    <3>2. /\ UNCHANGED registryVars /\ econiaStores' = econiaStores
          /\ DOMAIN integratorStores'
               = DOMAIN integratorStores \cup {<<i, quote, market>>}
      BY <2>1 DEF RegisterIntegratorFeeStore, IntegratorFeeStore, With
    <3> QED
      BY <3>1, <3>2, KeptByFees
  <2>2. ASSUME NEW s, NEW tier, NEW type, NEW n, UNCHANGED registryVars,
               \/ UpgradeIntegratorFeeStore(s, tier, type, n)
               \/ WithdrawIntegratorFees(s, type, n)
        PROVE  RegistryInv'
    <3>1. /\ econiaStores' = econiaStores
          /\ DOMAIN integratorStores' = DOMAIN integratorStores
      BY <2>2 DEF UpgradeIntegratorFeeStore, WithdrawIntegratorFees
    <3> QED
      BY <2>2, <3>1, KeptByFees
  <2> QED
    BY <1>3, <2>1, <2>2 DEF IntegratorCalls
<1>4. CASE TakerCalls
  <2>1. /\ UNCHANGED registryVars /\ DOMAIN econiaStores' = DOMAIN econiaStores
        /\ DOMAIN integratorStores' = DOMAIN integratorStores
    BY <1>4 DEF TakerCalls, AssessTakerFees
  <2> QED
    BY <2>1, KeptByFees
<1>5. CASE OwnerCalls
  <2>1. CASE /\ \/ \E p \in ParameterSets : UpdateIncentives(p)
                \/ \E m \in DOMAIN econiaStores : \E n \in 1..HI_64 :
                     WithdrawEconiaFees(m, n)
                \/ \E t \in DOMAIN utilityStores : \E n \in 1..HI_64 :
                     WithdrawUtilityCoins(t, n)
             /\ UNCHANGED registryVars
    <3>1. /\ DOMAIN econiaStores' = DOMAIN econiaStores
          /\ integratorStores' = integratorStores
      BY <2>1 DEF UpdateIncentives, WithdrawEconiaFees, WithdrawUtilityCoins
    <3> QED
      BY <2>1, <3>1, KeptByFees
  <2>2. ASSUME NEW ids \in Batches,
               SetRecognizedMarkets(ids) \/ RemoveRecognizedMarkets(ids)
        PROVE  RegistryInv'
    <3>1. /\ RecognizedOK(FoldLeft(SetRecognizedOne, State, ids))
          /\ RecognizedOK(FoldLeft(RemoveRecognizedOne, State, ids))
      BY BatchKeeps DEF RegistryInv
    <3>2. CASE SetRecognizedMarkets(ids)
      BY <3>1, <3>2, KeptByRecognize DEF SetRecognizedMarkets
    <3>3. CASE RemoveRecognizedMarkets(ids)
      BY <3>1, <3>3, KeptByRecognize DEF RemoveRecognizedMarkets
    <3> QED
      BY <2>2, <3>2, <3>3
  <2> QED
    BY <1>5, <2>1, <2>2 DEF OwnerCalls
<1>6. CASE UNCHANGED vars
  BY <1>6, KeptByFees DEF vars, incentivesVars
<1> QED
  BY <1>1, <1>2, <1>3, <1>4, <1>5, <1>6 DEF Next

(* The invariant says what the property says.                              *)
LEMMA TablesAgree == RegistryInv => RegistryAgrees
<1> SUFFICES ASSUME RegistryInv PROVE RegistryAgrees
  OBVIOUS
<1>1. GenericsUnderwritten
  <2>1. Cardinality(1..nUnderwriters) = nUnderwriters
    BY FS_Interval DEF RegistryInv, TablesTyped
  <2> QED
    BY <2>1 DEF GenericsUnderwritten, RegistryInv, TablesTyped
<1>2. RecognizedUntilRemoved
  <2>1. /\ DOMAIN recognized = DOMAIN wanted
        /\ \A pair \in DOMAIN recognized :
             /\ wanted[pair] \in DOMAIN idToInfo
             /\ Pair(idToInfo[wanted[pair]]) = pair
             /\ recognized[pair] = Entry(wanted[pair])
    BY DEF RegistryInv, RecognizedOK, State
  <2>2. \A id \in DOMAIN idToInfo : Entry(id).id = id
    BY DEF Entry
  <2> QED
    BY <2>1, <2>2 DEF RecognizedUntilRemoved
<1>3. EventsTellRecognized
  <2>1. Told(events) = recognized
    BY DEF RegistryInv, RecognizedOK, State
  <2> QED
    BY <2>1, Zenon DEF EventsTellRecognized, Told
<1> QED
  BY <1>1, <1>2, <1>3 DEF RegistryAgrees, RegistryInv

(* For any coins, sizes and numbers of markets, and for vectors of any     *)
(* length: what the registry says of a market in one table it says in the  *)
(* others, and in the events of recognized markets (register_market,       *)
(* set_recognized_markets, remove_recognized_markets).                     *)
THEOREM RegistryKept == Spec => []RegistryAgrees
BY InitRegistryInv, NextRegistryInv, TablesAgree, PTL DEF Spec

-----------------------------------------------------------------------------
(* The coins of the stores.                                                *)

CoinsIn(f)     == [s \in DOMAIN f |-> f[s].coins]
StoresOf(f, m) == {s \in DOMAIN f : <<s[2], s[3]>> = m}
FeesIn(f, m)   == Total(CoinsIn(f), StoresOf(f, m))

StoresTyped(f) == /\ IsFiniteSet(DOMAIN f)
                  /\ \A s \in DOMAIN f : f[s] \in [tier : Nat, coins : Nat]

CoinInv ==
  /\ utilityStores = utilityHeld
  /\ IsFiniteSet(DOMAIN integratorStores)
  /\ DOMAIN feesHeld = DOMAIN econiaStores
  /\ \A m \in DOMAIN econiaStores :
       /\ econiaStores[m] \in Int
       /\ feesHeld[m] = econiaStores[m] + FeesIn(integratorStores, m)

LEMMA StoresType ==
  ASSUME NEW f, StoresTyped(f), NEW m
  PROVE  /\ IsFiniteSet(StoresOf(f, m))
         /\ \A s \in StoresOf(f, m) : /\ s \in DOMAIN f
                                      /\ CoinsIn(f)[s] = f[s].coins
                                      /\ CoinsIn(f)[s] \in Int
         /\ FeesIn(f, m) \in Int
<1>1. StoresOf(f, m) \subseteq DOMAIN f /\ IsFiniteSet(DOMAIN f)
  BY DEF StoresOf, StoresTyped
<1>2. IsFiniteSet(StoresOf(f, m))
  BY <1>1, FS_Subset
<1>3. \A s \in StoresOf(f, m) : /\ s \in DOMAIN f
                                /\ CoinsIn(f)[s] = f[s].coins
                                /\ CoinsIn(f)[s] \in Int
  BY <1>1 DEF CoinsIn, StoresTyped
<1>4. FeesIn(f, m) \in Int
  BY <1>2, <1>3, TotalType DEF FeesIn
<1> QED
  BY <1>2, <1>3, <1>4

(* A new store is empty.                                                   *)
LEMMA FeesOfNewStore ==
  ASSUME NEW f, StoresTyped(f), NEW s, s \notin DOMAIN f, NEW tier \in Nat,
         NEW g, g = With(f, s, [tier |-> tier, coins |-> 0])
  PROVE  /\ StoresTyped(g)
         /\ \A m : FeesIn(g, m) = FeesIn(f, m)
<1>1. /\ DOMAIN g = DOMAIN f \cup {s}
      /\ g[s] = [tier |-> tier, coins |-> 0]
      /\ \A t \in DOMAIN f : g[t] = f[t]
  BY DEF With
<1>2. StoresTyped(g)
  <2>1. IsFiniteSet(DOMAIN g)
    BY <1>1, FS_AddElement DEF StoresTyped
  <2>2. \A t \in DOMAIN g : g[t] \in [tier : Nat, coins : Nat]
    BY <1>1 DEF StoresTyped
  <2> QED
    BY <2>1, <2>2 DEF StoresTyped
<1>3. ASSUME NEW m
      PROVE  FeesIn(g, m) = FeesIn(f, m)
  <2> DEFINE S == StoresOf(f, m)
  <2>1. /\ IsFiniteSet(S)
        /\ \A t \in S : /\ t \in DOMAIN f /\ CoinsIn(f)[t] = f[t].coins
                        /\ CoinsIn(f)[t] \in Int
    BY StoresType
  <2>2. \A t \in S : CoinsIn(g)[t] = CoinsIn(f)[t]
    BY <1>1, <2>1 DEF CoinsIn
  <2>3. Total(CoinsIn(g), S) = Total(CoinsIn(f), S)
    BY <2>1, <2>2, TotalSame
  <2>4. CASE <<s[2], s[3]>> = m
    <3>1. StoresOf(g, m) = S \cup {s} /\ s \notin S
      BY <1>1, <2>4 DEF StoresOf
    <3>2. CoinsIn(g)[s] = 0
      BY <1>1 DEF CoinsIn
    <3>3. \A t \in S \cup {s} : CoinsIn(g)[t] \in Int
      BY <2>1, <2>2, <3>2
    <3>4. Total(CoinsIn(g), S \cup {s}) = Total(CoinsIn(g), S)
      <4> DEFINE G == CoinsIn(g)
      <4>1. G[s] = 0 /\ \A t \in S \cup {s} : G[t] \in Int
        BY <3>2, <3>3
      <4>2. s \notin S
        BY <3>1
      <4> HIDE DEF S, G
      <4>3. Total(G, S \cup {s}) = Total(G, S) + G[s]
        BY <2>1, <4>1, <4>2, TotalAdd, Zenon
      <4>4. Total(G, S) \in Int
        BY <2>1, <4>1, TotalType
      <4>5. Total(G, S \cup {s}) = Total(G, S)
        BY <4>1, <4>3, <4>4
      <4> QED
        BY <4>5 DEF G
    <3> HIDE DEF S
    <3>5. Total(CoinsIn(g), StoresOf(g, m)) = Total(CoinsIn(f), S)
      BY <2>3, <3>1, <3>4
    <3> QED
      BY <3>5 DEF FeesIn, S
  <2>5. CASE <<s[2], s[3]>> # m
    <3>1. StoresOf(g, m) = S
      BY <1>1, <2>5 DEF StoresOf
    <3> QED
      BY <2>3, <3>1 DEF FeesIn
  <2> QED
    BY <2>4, <2>5
<1> QED
  BY <1>2, <1>3

(* Coins come into a store or leave it.                                    *)
LEMMA FeesOfChangedStore ==
  ASSUME NEW f, StoresTyped(f), NEW g, StoresTyped(g), DOMAIN g = DOMAIN f,
         NEW s \in DOMAIN f,
         \A t \in DOMAIN f \ {s} : g[t].coins = f[t].coins,
         NEW m
  PROVE  FeesIn(g, m) = FeesIn(f, m)
           + (IF m = <<s[2], s[3]>> THEN g[s].coins - f[s].coins ELSE 0)
<1> DEFINE S == StoresOf(f, m)
<1>1. /\ IsFiniteSet(S)
      /\ \A t \in S : /\ t \in DOMAIN f /\ CoinsIn(f)[t] = f[t].coins
                      /\ CoinsIn(f)[t] \in Int
  BY StoresType
<1>2. StoresOf(g, m) = S
  BY DEF StoresOf
<1>3. \A t \in S : CoinsIn(g)[t] = g[t].coins /\ CoinsIn(g)[t] \in Int
  BY <1>2, StoresType
<1>4. \A t \in S \ {s} : CoinsIn(g)[t] = CoinsIn(f)[t]
  BY <1>1, <1>3
<1>5. Total(CoinsIn(f), S) \in Int
  BY StoresType DEF FeesIn
<1>6. CASE m = <<s[2], s[3]>>
  <2>1. s \in S
    BY <1>6 DEF StoresOf
  <2>2. Total(CoinsIn(g), S)
          = Total(CoinsIn(f), S) + (CoinsIn(g)[s] - CoinsIn(f)[s])
    <3> DEFINE F == CoinsIn(f)
               G == CoinsIn(g)
    <3>1. /\ \A t \in S : F[t] \in Int /\ G[t] \in Int
          /\ \A t \in S \ {s} : G[t] = F[t]
      BY <1>1, <1>3, <1>4
    <3> HIDE DEF S, F, G
    <3>2. Total(G, S) = Total(F, S) + (G[s] - F[s])
      BY <1>1, <2>1, <3>1, TotalChange
    <3> QED
      BY <3>2 DEF F, G
  <2> QED
    BY <1>1, <1>2, <1>3, <1>6, <2>1, <2>2 DEF FeesIn
<1>7. CASE m # <<s[2], s[3]>>
  <2>1. s \notin S
    BY <1>7 DEF StoresOf
  <2>2. Total(CoinsIn(g), S) = Total(CoinsIn(f), S)
    <3>1. \A t \in S : CoinsIn(g)[t] = CoinsIn(f)[t]
      BY <1>4, <2>1
    <3> QED
      BY <1>1, <3>1, TotalSame
  <2> QED
    BY <1>2, <1>5, <1>7, <2>2 DEF FeesIn
<1> QED
  BY <1>6, <1>7

(* The sum of the property is this one.                                    *)
LEMMA FeesAreSum ==
  ASSUME NEW f, StoresTyped(f), NEW m
  PROVE  MapThenSumSet(LAMBDA s : f[s].coins, StoresOf(f, m)) = FeesIn(f, m)
<1> DEFINE S == StoresOf(f, m)
           F == CoinsIn(f)
           V(s) == f[s].coins
           Q(h) == h = [t \in SUBSET S |->
                          IF t = {} THEN 0
                          ELSE V(CHOOSE y \in t : TRUE)
                                 + h[t \ {CHOOSE y \in t : TRUE}]]
           h == CHOOSE i : Q(i)
<1>1. IsFiniteSet(S) /\ \A s \in S : F[s] = V(s)
  BY StoresType
<1>2. PICK g : IsSum(g, F, S) /\ Total(F, S) = g[S]
  BY <1>1, TotalIsSum
<1> HIDE DEF F
<1>3. Q(g)
  <2> HIDE DEF S
  <2>1. \A s \in SUBSET S : s # {} => (CHOOSE y \in s : TRUE) \in S
    OBVIOUS
  <2> QED
    BY <1>1, <1>2, <2>1 DEF IsSum, SumTerm, Pick
<1> HIDE DEF Q
<1>4. Q(h)
  BY <1>3
<1>5. IsSum(h, F, S)
  <2> HIDE DEF h, S
  <2>1. \A s \in SUBSET S : s # {} => (CHOOSE y \in s : TRUE) \in S
    OBVIOUS
  <2> QED
    BY <1>1, <1>4, <2>1, Zenon DEF Q, IsSum, SumTerm, Pick
<1>6. MapThenSumSet(LAMBDA s : f[s].coins, S) = h[S]
  <2> HIDE DEF S
  <2> QED
    BY DEF MapThenSumSet, MapThenFoldSet, Q, h, V
<1>7. h[S] = g[S]
  <2> HIDE DEF h, S
  <2> QED
    BY <1>1, <1>2, <1>5, SumAgrees
<1> QED
  BY <1>2, <1>6, <1>7 DEF FeesIn, F

-----------------------------------------------------------------------------
(* Each step keeps the coins.                                              *)

LEMMA InitCoinInv == Init => CoinInv
<1> SUFFICES ASSUME Init PROVE CoinInv
  OBVIOUS
<1>1. /\ DOMAIN integratorStores = {} /\ DOMAIN econiaStores = {}
      /\ DOMAIN feesHeld = {} /\ utilityStores = utilityHeld
  BY DEF Init, IncentivesInit
<1> QED
  BY <1>1, FS_EmptySet DEF CoinInv

LEMMA StoresAreTyped ==
  ASSUME FeeInv, CoinInv
  PROVE  StoresTyped(integratorStores)
BY DEF FeeInv, TiersKnown, CoinInv, StoresTyped

(* What is paid in utility coins goes into their store.                    *)
LEMMA UtilityKept ==
  ASSUME CoinInv, NEW type, NEW amount, NEW least,
         DepositUtilityCoinsVerified(type, amount, least)
  PROVE  utilityStores' = utilityHeld'
BY DEF CoinInv, DepositUtilityCoinsVerified, Deposited

LEMMA CoinsStay ==
  ASSUME CoinInv, UNCHANGED <<econiaStores, integratorStores, feesHeld>>,
         utilityStores' = utilityHeld'
  PROVE  CoinInv'
BY DEF CoinInv

(* Of one market the store of Econia changes by a, and those of its        *)
(* integrators by d.                                                       *)
LEMMA CoinsMove ==
  ASSUME CoinInv, FeeInv, utilityStores' = utilityHeld',
         DOMAIN integratorStores' = DOMAIN integratorStores,
         DOMAIN econiaStores' = DOMAIN econiaStores,
         DOMAIN feesHeld' = DOMAIN feesHeld,
         NEW m \in DOMAIN econiaStores, NEW a \in Int, NEW d \in Int,
         econiaStores'[m] = econiaStores[m] + a,
         feesHeld'[m] = feesHeld[m] + (a + d),
         \A k \in DOMAIN econiaStores \ {m} :
           econiaStores'[k] = econiaStores[k] /\ feesHeld'[k] = feesHeld[k],
         \A k \in DOMAIN econiaStores :
           FeesIn(integratorStores', k)
             = FeesIn(integratorStores, k) + (IF k = m THEN d ELSE 0)
  PROVE  CoinInv'
<1> SUFFICES ASSUME NEW k \in DOMAIN econiaStores
             PROVE  /\ econiaStores'[k] \in Int
                    /\ feesHeld'[k] = econiaStores'[k]
                                        + FeesIn(integratorStores', k)
  BY DEF CoinInv
<1> DEFINE old == FeesIn(integratorStores, k)
           new == FeesIn(integratorStores', k)
<1>1. /\ econiaStores[k] \in Int
      /\ feesHeld[k] = econiaStores[k] + old
      /\ old \in Int
  BY StoresAreTyped, StoresType DEF CoinInv
<1>2. new = old + (IF k = m THEN d ELSE 0)
  OBVIOUS
<1> HIDE DEF old, new
<1>3. /\ econiaStores'[k] \in Int
      /\ feesHeld'[k] = econiaStores'[k] + new
  <2>1. CASE k = m
    BY <1>1, <1>2, <2>1
  <2>2. CASE k # m
    BY <1>1, <1>2, <2>2
  <2> QED
    BY <2>1, <2>2
<1> QED
  BY <1>3 DEF new

(* One store of an integrator changes.                                     *)
LEMMA StoreMoves ==
  ASSUME CoinInv, FeeInv, FeeInv',
         DOMAIN integratorStores' = DOMAIN integratorStores,
         NEW s \in DOMAIN integratorStores, NEW d \in Int,
         integratorStores'[s].coins = integratorStores[s].coins + d,
         \A t \in DOMAIN integratorStores \ {s} :
           integratorStores'[t].coins = integratorStores[t].coins
  PROVE  \A k \in DOMAIN econiaStores :
           FeesIn(integratorStores', k)
             = FeesIn(integratorStores, k)
                 + (IF k = <<s[2], s[3]>> THEN d ELSE 0)
<1> DEFINE f == integratorStores
           g == integratorStores'
<1>1. StoresTyped(f)
  BY StoresAreTyped
<1>2. StoresTyped(g)
  BY DEF FeeInv, TiersKnown, CoinInv, StoresTyped
<1>3. /\ DOMAIN g = DOMAIN f /\ s \in DOMAIN f
      /\ \A t \in DOMAIN f \ {s} : g[t].coins = f[t].coins
      /\ g[s].coins = f[s].coins + d /\ f[s].coins \in Nat
  BY DEF FeeInv, TiersKnown
<1> SUFFICES ASSUME NEW k
             PROVE  FeesIn(g, k)
                      = FeesIn(f, k) + (IF k = <<s[2], s[3]>> THEN d ELSE 0)
  OBVIOUS
<1> HIDE DEF f, g
<1>4. FeesIn(g, k) = FeesIn(f, k)
        + (IF k = <<s[2], s[3]>> THEN g[s].coins - f[s].coins ELSE 0)
  BY <1>1, <1>2, <1>3, FeesOfChangedStore
<1>5. g[s].coins - f[s].coins = d
  BY <1>3
<1> QED
  BY <1>4, <1>5

(* A market that is new has an empty store, and no integrator has one.     *)
LEMMA CoinsOfMarket ==
  ASSUME CoinInv, FeeInv, RegistryInv, NEW info, NEW type, NEW amount,
         RegisterMarket(info, type, amount)
  PROVE  CoinInv'
<1> DEFINE m == <<info.quote, NewMarketId>>
<1>1. /\ m \notin DOMAIN econiaStores
      /\ econiaStores' = With(econiaStores, m, 0)
      /\ feesHeld' = With(feesHeld, m, 0)
      /\ integratorStores' = integratorStores
  BY DEF RegisterMarket, RegisterEconiaFeeStoreEntry
<1>2. utilityStores' = utilityHeld'
  BY UtilityKept DEF RegisterMarket
<1> HIDE DEF m
<1>3. FeesIn(integratorStores, m) = 0
  <2>1. StoresOf(integratorStores, m) = {}
    BY <1>1 DEF StoresOf, RegistryInv, StoresReachable
  <2> DEFINE F == CoinsIn(integratorStores)
  <2> HIDE DEF F
  <2>2. Total(F, {}) = 0
    BY TotalEmpty
  <2> QED
    BY <2>1, <2>2 DEF FeesIn, F
<1>4. /\ DOMAIN feesHeld' = DOMAIN econiaStores'
      /\ DOMAIN econiaStores' = DOMAIN econiaStores \cup {m}
  BY <1>1 DEF CoinInv, With
<1>5. ASSUME NEW k \in DOMAIN econiaStores'
      PROVE  /\ econiaStores'[k] \in Int
             /\ feesHeld'[k] = econiaStores'[k] + FeesIn(integratorStores, k)
  <2>1. CASE k = m
    <3>1. econiaStores'[k] = 0 /\ feesHeld'[k] = 0
      BY <1>1, <2>1 DEF With
    <3> QED
      BY <1>3, <2>1, <3>1
  <2>2. CASE k # m
    <3>1. /\ k \in DOMAIN econiaStores
          /\ econiaStores'[k] = econiaStores[k] /\ feesHeld'[k] = feesHeld[k]
      BY <1>1, <1>4, <2>2 DEF With, CoinInv
    <3> QED
      BY <3>1 DEF CoinInv
  <2> QED
    BY <2>1, <2>2
<1> QED
  BY <1>1, <1>2, <1>4, <1>5 DEF CoinInv

LEMMA CoinsOfRegistration ==
  ASSUME CoinInv, FeeInv, NEW i, NEW quote, NEW market, NEW tier \in Nat,
         NEW type, NEW amount,
         IntegratorFeeStore(i, quote, market, tier, type, amount)
  PROVE  CoinInv'
<1> DEFINE f == integratorStores
           g == integratorStores'
           s == <<i, quote, market>>
<1>1. /\ s \notin DOMAIN f /\ g = With(f, s, [tier |-> tier, coins |-> 0])
      /\ UNCHANGED <<econiaStores, feesHeld>>
  BY DEF IntegratorFeeStore
<1>2. StoresTyped(f)
  BY StoresAreTyped
<1>3. utilityStores' = utilityHeld'
  BY UtilityKept DEF IntegratorFeeStore
<1>4. StoresTyped(g) /\ \A m : FeesIn(g, m) = FeesIn(f, m)
  <2> HIDE DEF f, g, s
  <2> QED
    BY <1>1, <1>2, FeesOfNewStore
<1> QED
  BY <1>1, <1>3, <1>4 DEF CoinInv, StoresTyped

LEMMA CoinsOfUpgrade ==
  ASSUME CoinInv, FeeInv, FeeInv', RegistryInv,
         NEW s \in DOMAIN integratorStores, NEW tier,
         NEW type, NEW amount, UpgradeIntegratorFeeStore(s, tier, type, amount)
  PROVE  CoinInv'
<1> DEFINE m == <<s[2], s[3]>>
<1>1. /\ integratorStores' = [integratorStores EXCEPT ![s].tier = tier]
      /\ UNCHANGED <<econiaStores, feesHeld>>
  BY DEF UpgradeIntegratorFeeStore
<1>2. utilityStores' = utilityHeld'
  BY UtilityKept DEF UpgradeIntegratorFeeStore
<1>3. \A t \in DOMAIN integratorStores :
        integratorStores[t] \in [tier : Nat, coins : Nat]
  BY DEF FeeInv, TiersKnown
<1>4. /\ DOMAIN integratorStores' = DOMAIN integratorStores
      /\ \A t \in DOMAIN integratorStores :
           integratorStores'[t].coins = integratorStores[t].coins
  BY <1>1, <1>3
<1>5. integratorStores'[s].coins = integratorStores[s].coins + 0
  BY <1>3, <1>4
<1>6. \A k \in DOMAIN econiaStores :
        FeesIn(integratorStores', k)
          = FeesIn(integratorStores, k) + (IF k = m THEN 0 ELSE 0)
  BY <1>4, <1>5, StoreMoves
<1>7. m \in DOMAIN econiaStores
  BY DEF RegistryInv, StoresReachable
<1>8. econiaStores[m] \in Int /\ feesHeld[m] \in Int
  BY <1>7, StoresAreTyped, StoresType DEF CoinInv
<1>9. PICK z \in Int : z = 0
  OBVIOUS
<1>10. /\ econiaStores'[m] = econiaStores[m] + z
       /\ feesHeld'[m] = feesHeld[m] + (z + z)
  BY <1>1, <1>8, <1>9
<1>11. \A k \in DOMAIN econiaStores :
         FeesIn(integratorStores', k)
           = FeesIn(integratorStores, k) + (IF k = m THEN z ELSE 0)
  BY <1>6, <1>9
<1>12. /\ DOMAIN econiaStores' = DOMAIN econiaStores
       /\ DOMAIN feesHeld' = DOMAIN feesHeld
       /\ \A k \in DOMAIN econiaStores \ {m} :
            econiaStores'[k] = econiaStores[k] /\ feesHeld'[k] = feesHeld[k]
  BY <1>1
<1> HIDE DEF m
<1> QED
  BY <1>2, <1>4, <1>7, <1>10, <1>11, <1>12, CoinsMove

LEMMA CoinsOfWithdrawal ==
  ASSUME CoinInv, FeeInv, FeeInv', RegistryInv,
         NEW s \in DOMAIN integratorStores,
         NEW type, NEW amount, WithdrawIntegratorFees(s, type, amount)
  PROVE  CoinInv'
<1> DEFINE m == <<s[2], s[3]>>
<1>1. /\ integratorStores' = [integratorStores EXCEPT ![s].coins = 0]
      /\ feesHeld' = [feesHeld EXCEPT ![m] = @ - integratorStores[s].coins]
      /\ econiaStores' = econiaStores
  BY DEF WithdrawIntegratorFees
<1>2. utilityStores' = utilityHeld'
  BY UtilityKept DEF WithdrawIntegratorFees
<1>3. \A t \in DOMAIN integratorStores :
        integratorStores[t] \in [tier : Nat, coins : Nat]
  BY DEF FeeInv, TiersKnown
<1>4. /\ DOMAIN integratorStores' = DOMAIN integratorStores
      /\ integratorStores'[s].coins = 0
      /\ \A t \in DOMAIN integratorStores \ {s} :
           integratorStores'[t].coins = integratorStores[t].coins
  BY <1>1, <1>3
<1>5. PICK d \in Int : d = 0 - integratorStores[s].coins
  BY <1>3
<1>12. PICK z \in Int : z = 0
  OBVIOUS
<1>6. m \in DOMAIN econiaStores /\ m \in DOMAIN feesHeld
  BY DEF RegistryInv, StoresReachable, CoinInv
<1>7. econiaStores[m] \in Int /\ feesHeld[m] \in Int
  BY <1>6, StoresAreTyped, StoresType DEF CoinInv
<1>8. /\ econiaStores'[m] = econiaStores[m] + z
      /\ feesHeld'[m] = feesHeld[m] + (z + d)
  BY <1>1, <1>3, <1>5, <1>12, <1>6, <1>7
<1>9. \A k \in DOMAIN econiaStores :
        FeesIn(integratorStores', k)
          = FeesIn(integratorStores, k) + (IF k = m THEN d ELSE 0)
  <2>1. integratorStores'[s].coins = integratorStores[s].coins + d
    BY <1>3, <1>4, <1>5
  <2> QED
    BY <1>4, <2>1, StoreMoves
<1> HIDE DEF m
<1>10. \A k \in DOMAIN econiaStores \ {m} :
         econiaStores'[k] = econiaStores[k] /\ feesHeld'[k] = feesHeld[k]
  BY <1>1 DEF CoinInv
<1>11. /\ DOMAIN feesHeld' = DOMAIN feesHeld
       /\ DOMAIN econiaStores' = DOMAIN econiaStores
  BY <1>1
<1> QED
  BY <1>2, <1>4, <1>5, <1>6, <1>8, <1>9, <1>10, <1>11, CoinsMove

(* Each fill leaves the fee in the two stores.                             *)
LEMMA CoinsOfTaker ==
  ASSUME CoinInv, FeeInv, FeeInv', NEW i, NEW quote, NEW market,
         NEW fill \in 1..MaxFill, AssessTakerFees(i, quote, market, fill)
  PROVE  CoinInv'
<1> DEFINE m == <<quote, market>>
           s == <<i, quote, market>>
           Share == IF s \in DOMAIN integratorStores
                    THEN fill \div Tier(integratorStores[s].tier).divisor
                    ELSE 0
<1>1. /\ m \in DOMAIN econiaStores
      /\ integratorStores' = IF s \in DOMAIN integratorStores
                             THEN [integratorStores EXCEPT ![s].coins = @ + Share]
                             ELSE integratorStores
      /\ econiaStores' = [econiaStores EXCEPT
                            ![m] = @ + (fill \div parameters.divisor - Share)]
      /\ feesHeld' = [feesHeld EXCEPT ![m] = @ + fill \div parameters.divisor]
      /\ UNCHANGED <<utilityStores, utilityHeld>>
  BY DEF AssessTakerFees, EconiaShare
<1>2. PICK fee \in Nat : fee = fill \div parameters.divisor
  BY ParametersType, ConstantsAssumption, QuotientBounds DEF FeeInv
<1>3. PICK share \in Nat : share = Share
  <2> SUFFICES ASSUME s \in DOMAIN integratorStores
               PROVE  fill \div Tier(integratorStores[s].tier).divisor \in Nat
    OBVIOUS
  <2>1. /\ IsTier(integratorStores[s].tier)
        /\ integratorStores[s] \in [tier : Nat, coins : Nat]
    BY DEF FeeInv, TiersKnown
  <2>2. Tier(integratorStores[s].tier).divisor \in Nat \ {0}
    BY <2>1, TierType, ParametersType DEF FeeInv, TierRecords
  <2>3. fill \in Nat
    BY ConstantsAssumption
  <2> QED
    BY <2>2, <2>3, QuotientBounds
<1> HIDE DEF Share
<1>4. PICK a \in Int : a = fee - share
  BY <1>2, <1>3
<1>5. /\ m \in DOMAIN econiaStores /\ m \in DOMAIN feesHeld
      /\ econiaStores[m] \in Int /\ feesHeld[m] \in Int
  BY <1>1, StoresAreTyped, StoresType DEF CoinInv
<1>6. /\ econiaStores'[m] = econiaStores[m] + a
      /\ feesHeld'[m] = feesHeld[m] + (a + share)
  BY <1>1, <1>2, <1>3, <1>4, <1>5
<1>7. /\ DOMAIN integratorStores' = DOMAIN integratorStores
      /\ DOMAIN econiaStores' = DOMAIN econiaStores
      /\ DOMAIN feesHeld' = DOMAIN feesHeld
      /\ \A k \in DOMAIN econiaStores \ {m} :
           econiaStores'[k] = econiaStores[k] /\ feesHeld'[k] = feesHeld[k]
  BY <1>1 DEF CoinInv
<1>8. utilityStores' = utilityHeld'
  BY <1>1 DEF CoinInv
<1>9. \A k \in DOMAIN econiaStores :
        FeesIn(integratorStores', k)
          = FeesIn(integratorStores, k) + (IF k = m THEN share ELSE 0)
  <2>1. CASE s \in DOMAIN integratorStores
    <3>1. \A t \in DOMAIN integratorStores :
            integratorStores[t] \in [tier : Nat, coins : Nat]
      BY DEF FeeInv, TiersKnown
    <3>2. /\ integratorStores'[s].coins = integratorStores[s].coins + share
          /\ \A t \in DOMAIN integratorStores \ {s} :
               integratorStores'[t].coins = integratorStores[t].coins
      BY <1>1, <1>3, <2>1, <3>1, Zenon
    <3>3. s[2] = quote /\ s[3] = market
      OBVIOUS
    <3> HIDE DEF s
    <3>4. \A k \in DOMAIN econiaStores :
            FeesIn(integratorStores', k)
              = FeesIn(integratorStores, k)
                  + (IF k = <<s[2], s[3]>> THEN share ELSE 0)
      BY <1>3, <1>7, <2>1, <3>2, StoreMoves
    <3> QED
      BY <3>3, <3>4
  <2>2. CASE s \notin DOMAIN integratorStores
    <3>1. integratorStores' = integratorStores /\ share = 0
      BY <1>1, <1>3, <2>2 DEF Share
    <3>2. \A k \in DOMAIN econiaStores : FeesIn(integratorStores, k) \in Int
      BY StoresAreTyped, StoresType
    <3> QED
      BY <3>1, <3>2
  <2> QED
    BY <2>1, <2>2
<1> HIDE DEF m
<1> QED
  BY <1>5, <1>6, <1>7, <1>8, <1>9, CoinsMove

LEMMA NextCoinInv ==
  CoinInv /\ FeeInv /\ FeeInv' /\ RegistryInv /\ [Next]_vars => CoinInv'
<1> SUFFICES ASSUME CoinInv, FeeInv, FeeInv', RegistryInv, [Next]_vars
             PROVE  CoinInv'
  OBVIOUS
<1>1. CASE RegisterAnyMarket
  BY <1>1, CoinsOfMarket, Zenon
     DEF RegisterAnyMarket, RegisterMarketBaseCoin, RegisterMarketBaseGeneric
<1>2. CASE RegisterCapability
  <2>1. ASSUME NEW type, NEW n,
               \/ RegisterCustodianCapability(type, n)
               \/ RegisterUnderwriterCapability(type, n)
        PROVE  CoinInv'
    <3>1. UNCHANGED <<econiaStores, integratorStores, feesHeld>>
      BY <2>1 DEF RegisterCustodianCapability, RegisterUnderwriterCapability
    <3>2. utilityStores' = utilityHeld'
      BY <2>1, UtilityKept
         DEF RegisterCustodianCapability, RegisterUnderwriterCapability
    <3> QED
      BY <3>1, <3>2, CoinsStay
  <2> QED
    BY <1>2, <2>1 DEF RegisterCapability
<1>3. CASE IntegratorCalls
  <2>1. \A tier \in 0..Len(parameters.tiers) : tier \in Nat
    BY ParametersType DEF FeeInv
  <2>2. ASSUME NEW i, NEW quote, NEW market, NEW tier \in Nat, NEW type, NEW n,
               RegisterIntegratorFeeStore(i, quote, market, tier, type, n)
        PROVE  CoinInv'
    BY <2>2, CoinsOfRegistration DEF RegisterIntegratorFeeStore
  <2>3. ASSUME NEW s \in DOMAIN integratorStores, NEW tier, NEW type, NEW n,
               \/ UpgradeIntegratorFeeStore(s, tier, type, n)
               \/ WithdrawIntegratorFees(s, type, n)
        PROVE  CoinInv'
    BY <2>3, CoinsOfUpgrade, CoinsOfWithdrawal
  <2> QED
    BY <1>3, <2>1, <2>2, <2>3, Zenon DEF IntegratorCalls
<1>4. CASE TakerCalls
  BY <1>4, CoinsOfTaker DEF TakerCalls
<1>5. CASE OwnerCalls
  <2>1. ASSUME NEW p, UpdateIncentives(p)
        PROVE  CoinInv'
    <3>1. UNCHANGED <<econiaStores, integratorStores, feesHeld>>
      BY <2>1 DEF UpdateIncentives
    <3>2. utilityStores' = utilityHeld'
      BY <2>1 DEF UpdateIncentives, InitUtilityCoinStore, CoinInv
    <3> QED
      BY <3>1, <3>2, CoinsStay
  <2>2. ASSUME NEW m \in DOMAIN econiaStores, NEW n \in 1..HI_64,
               WithdrawEconiaFees(m, n)
        PROVE  CoinInv'
    <3>1. /\ econiaStores' = [econiaStores EXCEPT ![m] = @ - n]
          /\ feesHeld' = [feesHeld EXCEPT ![m] = @ - n]
          /\ UNCHANGED <<utilityStores, integratorStores, utilityHeld>>
      BY <2>2 DEF WithdrawEconiaFees
    <3>2. \A k \in DOMAIN econiaStores :
            /\ econiaStores[k] \in Int
            /\ feesHeld[k] = econiaStores[k] + FeesIn(integratorStores, k)
            /\ FeesIn(integratorStores, k) \in Int
      BY StoresAreTyped, StoresType DEF CoinInv
    <3>3. DOMAIN feesHeld = DOMAIN econiaStores
      BY DEF CoinInv
    <3>4. ASSUME NEW k \in DOMAIN econiaStores
          PROVE  /\ econiaStores'[k] \in Int
                 /\ feesHeld'[k]
                      = econiaStores'[k] + FeesIn(integratorStores, k)
      BY <3>1, <3>2, <3>3
    <3> QED
      BY <3>1, <3>3, <3>4 DEF CoinInv
  <2>3. ASSUME NEW t, NEW n, WithdrawUtilityCoins(t, n)
        PROVE  CoinInv'
    <3>1. UNCHANGED <<econiaStores, integratorStores, feesHeld>>
      BY <2>3 DEF WithdrawUtilityCoins
    <3>2. utilityStores' = utilityHeld'
      BY <2>3 DEF WithdrawUtilityCoins, CoinInv
    <3> QED
      BY <3>1, <3>2, CoinsStay
  <2>4. CASE \E ids \in Batches : \/ SetRecognizedMarkets(ids)
                                   \/ RemoveRecognizedMarkets(ids)
    <3>1. UNCHANGED incentivesVars
      BY <2>4 DEF SetRecognizedMarkets, RemoveRecognizedMarkets, Recognize
    <3> QED
      BY <3>1, CoinsStay DEF incentivesVars, CoinInv
  <2> QED
    BY <1>5, <2>1, <2>2, <2>3, <2>4 DEF OwnerCalls
<1>6. CASE UNCHANGED vars
  BY <1>6, CoinsStay DEF vars, incentivesVars, CoinInv
<1> QED
  BY <1>1, <1>2, <1>3, <1>4, <1>5, <1>6 DEF Next

LEMMA CoinsAdd == CoinInv /\ FeeInv => CoinsConserved
<1> SUFFICES ASSUME CoinInv, FeeInv PROVE CoinsConserved
  OBVIOUS
<1>1. FeesConserved
  <2> DEFINE f == integratorStores
  <2>1. StoresTyped(f)
    BY StoresAreTyped
  <2>2. ASSUME NEW m
        PROVE  MapThenSumSet(LAMBDA s : f[s].coins,
                             {s \in DOMAIN f : <<s[2], s[3]>> = m})
                 = FeesIn(f, m)
    <3> HIDE DEF f
    <3>1. MapThenSumSet(LAMBDA s : f[s].coins, StoresOf(f, m)) = FeesIn(f, m)
      BY <2>1, FeesAreSum, Zenon
    <3> QED
      BY <3>1 DEF StoresOf
  <2> QED
    BY <2>2, Zenon DEF FeesConserved, CoinInv
<1>2. UtilityConserved
  BY DEF UtilityConserved, CoinInv
<1> QED
  BY <1>1, <1>2 DEF CoinsConserved

(* For any coins, markets, integrators and parameters: the fees taken of a *)
(* market and not withdrawn are in the store of Econia and in those of the *)
(* market's integrators, and utility coins paid in any of their types are  *)
(* in its store (assess_taker_fees, withdraw_integrator_fees, and so on).  *)
THEOREM CoinsKept == Spec => []CoinsConserved
<1> DEFINE Inv == FeeInv /\ RegistryInv /\ CoinInv
<1>1. Init => Inv
  BY InitFeeInv, InitRegistryInv, InitCoinInv
<1>2. Inv /\ [Next]_vars => Inv'
  BY NextFeeInv, NextRegistryInv, NextCoinInv
<1>3. Inv => CoinsConserved
  BY CoinsAdd
<1> QED
  BY <1>1, <1>2, <1>3, PTL DEF Spec

-----------------------------------------------------------------------------
(* Tablists, which hold the markets, the recognized ones and the fee       *)
(* stores.  The links of the table are those of a sequence of its keys;    *)
(* what a call does to the links, the call of the specification does to    *)
(* the sequence.                                                           *)

CONSTANTS TableKeys, TableValues, NoKey

VARIABLES table, head, tail, returned

Tab == INSTANCE Tablist WITH Keys <- TableKeys, Values <- TableValues, NONE <- NoKey

(* The key at a place of a sequence, or NONE beyond its ends.              *)
At(l, i) == IF i \in 1..Len(l) THEN l[i] ELSE NoKey

NodeAt(t, l, i) ==
  [value |-> t[l[i]].value, previous |-> At(l, i - 1), next |-> At(l, i + 1)]

(* A sequence of distinct keys, that the links follow both ways.           *)
Linked(l, t, first, last) ==
  /\ l \in Seq(TableKeys) /\ IsInjective(l)
  /\ DOMAIN t = ToSet(l)
  /\ first = At(l, 1) /\ last = At(l, Len(l))
  /\ \A i \in 1..Len(l) : t[l[i]] = NodeAt(t, l, i)

TablistInv == \E l : Linked(l, table, head, tail)

-----------------------------------------------------------------------------
(* The sequence is found by the links.                                     *)

LEMMA LinkedType ==
  ASSUME NEW l, NEW t, NEW first, NEW last, Linked(l, t, first, last)
  PROVE  /\ Len(l) \in Nat /\ DOMAIN l = 1..Len(l)
         /\ \A i \in 1..Len(l) : l[i] \in TableKeys /\ l[i] \in DOMAIN t
         /\ \A k \in DOMAIN t : \E i \in 1..Len(l) : l[i] = k
         /\ \A i, j \in 1..Len(l) : l[i] = l[j] => i = j
         /\ \A i \in 1..Len(l) : t[l[i]] = NodeAt(t, l, i)
<1>1. l \in Seq(TableKeys)
  BY DEF Linked
<1>2. Len(l) \in Nat /\ DOMAIN l = 1..Len(l)
  BY <1>1
<1>3. \A i \in 1..Len(l) : l[i] \in TableKeys /\ l[i] \in DOMAIN t
  BY <1>1, <1>2 DEF Linked, ToSet
<1> QED
  BY <1>2, <1>3 DEF Linked, ToSet, IsInjective

LEMMA CountOfLinked ==
  ASSUME NEW l, NEW t, NEW first, NEW last, Linked(l, t, first, last)
  PROVE  Cardinality(DOMAIN t) = Len(l)
<1> DEFINE S == DOMAIN t
           n == Len(l)
<1>1. /\ n \in Nat /\ DOMAIN l = 1..n
      /\ \A i \in 1..n : l[i] \in S
      /\ \A k \in S : \E i \in 1..n : l[i] = k
      /\ \A i, j \in 1..n : l[i] = l[j] => i = j
      /\ l \in [1..n -> S]
  <2>1. l \in Seq(TableKeys)
    BY DEF Linked
  <2> QED
    BY <2>1, LinkedType
<1> HIDE DEF S, n
<1>2. l \in Bijection(1..n, S)
  BY <1>1 DEF Bijection, Injection, Surjection, IsInjective
<1>3. ExistsBijection(1..n, S)
  BY <1>2 DEF ExistsBijection
<1>4. Cardinality(S) = n
  BY <1>1, <1>3, FS_CountingElements
<1> QED
  BY <1>4 DEF S, n

LEMMA WalkIsList ==
  ASSUME NEW l, NEW t, NEW first, NEW last, Linked(l, t, first, last)
  PROVE  Tab!Walk(t, first) = l
<1> DEFINE n == Len(l)
           Q(at) == at = [i \in 1..n |->
                           IF i = 1 THEN first
                           ELSE IF at[i - 1] \in DOMAIN t
                                THEN t[at[i - 1]].next ELSE NoKey]
           w == CHOOSE at : Q(at)
<1>1. n \in Nat /\ DOMAIN l = 1..n /\ l = [i \in 1..n |-> l[i]]
  BY LinkedType DEF Linked
<1>2. ASSUME NEW i \in 1..n
      PROVE  l[i] = IF i = 1 THEN first
                    ELSE IF l[i - 1] \in DOMAIN t
                         THEN t[l[i - 1]].next ELSE NoKey
  <2>1. CASE i = 1
    BY <2>1 DEF Linked, At
  <2>2. CASE i # 1
    <3>1. i - 1 \in 1..n /\ (i - 1) + 1 = i
      BY <1>1, <2>2
    <3>2. l[i - 1] \in DOMAIN t /\ t[l[i - 1]] = NodeAt(t, l, i - 1)
      BY <3>1, LinkedType
    <3>3. t[l[i - 1]].next = l[i]
      BY <3>1, <3>2 DEF NodeAt, At
    <3> QED
      BY <2>2, <3>2, <3>3
  <2> QED
    BY <2>1, <2>2
<1>3. Q(l)
  BY <1>1, <1>2
<1>4. Tab!Walk(t, first) = w
  <2>1. Tab!Cardinality(DOMAIN t) = n
    BY CountOfLinked DEF Cardinality, Tab!Cardinality
  <2> QED
    BY <2>1 DEF Tab!Walk
<1>5. Q(w)
  <2> HIDE DEF Q
  <2> QED
    BY <1>3
<1> HIDE DEF w
<1> DEFINE N == {i \in 1..n : w[i] # l[i]}
<1>6. N = {}
  <2> SUFFICES ASSUME N # {} PROVE FALSE
    OBVIOUS
  <2>1. PICK k \in N : \A i \in N : k <= i
    <3>1. N \in SUBSET Nat
      OBVIOUS
    <3> HIDE DEF N
    <3> QED
      BY <3>1, Least
  <2>2. CASE k = 1
    BY <1>2, <1>5, <2>2
  <2>3. CASE k # 1
    <3>1. k - 1 \in 1..n /\ ~(k <= k - 1)
      BY <1>1, <2>3
    <3>2. w[k - 1] = l[k - 1]
      BY <2>1, <3>1
    <3>3. w[k] = IF w[k - 1] \in DOMAIN t THEN t[w[k - 1]].next ELSE NoKey
      BY <1>5, <2>3
    <3>4. l[k] = IF l[k - 1] \in DOMAIN t THEN t[l[k - 1]].next ELSE NoKey
      BY <1>2, <2>3
    <3> QED
      BY <3>2, <3>3, <3>4
  <2> QED
    BY <2>2, <2>3
<1>7. \A i \in 1..n : w[i] = l[i]
  BY <1>6
<1>8. w = l
  BY <1>1, <1>5, <1>7
<1> QED
  BY <1>4, <1>8

-----------------------------------------------------------------------------
(* What each call does to the links.                                       *)

(* The ends of a sequence, and what is beyond them.                        *)
LEMMA AtType ==
  ASSUME NoKey \notin TableKeys, NEW l, NEW t, NEW first, NEW last,
         Linked(l, t, first, last)
  PROVE  /\ \A i \in 1..Len(l) : At(l, i) = l[i] /\ At(l, i) # NoKey
         /\ \A i : i \notin 1..Len(l) => At(l, i) = NoKey
         /\ first = NoKey <=> Len(l) = 0
         /\ last = NoKey <=> Len(l) = 0
<1>1. \A i \in 1..Len(l) : At(l, i) = l[i] /\ At(l, i) # NoKey
  BY LinkedType DEF At
<1>2. \A i : i \notin 1..Len(l) => At(l, i) = NoKey
  BY DEF At
<1>3. Len(l) \in Nat /\ first = At(l, 1) /\ last = At(l, Len(l))
  BY LinkedType DEF Linked
<1>4. Len(l) = 0 => 1 \notin 1..Len(l) /\ Len(l) \notin 1..Len(l)
  OBVIOUS
<1>5. Len(l) # 0 => 1 \in 1..Len(l) /\ Len(l) \in 1..Len(l)
  BY <1>3
<1> QED
  BY <1>1, <1>2, <1>3, <1>4, <1>5

LEMMA LinkedAdd ==
  ASSUME NoKey \notin TableKeys, NEW l, NEW t, NEW first, NEW last,
         Linked(l, t, first, last), NEW key \in TableKeys \ DOMAIN t, NEW value,
         NEW node, node = [value |-> value, previous |-> last, next |-> NoKey],
         NEW s, s = [k \in DOMAIN t \cup {key} |-> IF k = key THEN node ELSE t[k]],
         NEW u, u = Tab!LinkNext(s, last, key)
  PROVE  /\ Linked(Append(l, key), u, IF first = NoKey THEN key ELSE first, key)
         /\ DOMAIN u = DOMAIN t \cup {key}
         /\ u[key].value = value
         /\ \A k \in DOMAIN t : u[k].value = t[k].value
<1> DEFINE n == Len(l)
           m == Append(l, key)
<1>1. /\ n \in Nat /\ DOMAIN l = 1..n
      /\ \A i \in 1..n : l[i] \in TableKeys /\ l[i] \in DOMAIN t
      /\ \A k \in DOMAIN t : \E i \in 1..n : l[i] = k
      /\ \A i, j \in 1..n : l[i] = l[j] => i = j
      /\ \A i \in 1..n : t[l[i]] = NodeAt(t, l, i)
  BY LinkedType
<1>2. /\ m \in Seq(TableKeys) /\ Len(m) = n + 1 /\ m[n + 1] = key
      /\ DOMAIN m = 1..n + 1 /\ \A i \in 1..n : m[i] = l[i]
  BY DEF Linked
<1>3. /\ DOMAIN s = DOMAIN t \cup {key} /\ s[key] = node
      /\ \A k \in DOMAIN t : s[k] = t[k]
  OBVIOUS
<1>4. /\ last = NoKey <=> n = 0
      /\ last = At(l, n) /\ first = At(l, 1)
      /\ first = NoKey <=> n = 0
  BY AtType DEF Linked
<1>5. n # 0 => last = l[n] /\ n \in 1..n
  BY <1>1, <1>4 DEF At
<1> HIDE DEF n, m
<1>6. /\ DOMAIN u = DOMAIN t \cup {key} /\ u[key] = node
      /\ \A k \in DOMAIN t \ {last} : u[k] = t[k]
      /\ n # 0 => u[last] = [t[last] EXCEPT !.next = key]
  <2>1. CASE n = 0
    <3>1. u = s /\ last \notin DOMAIN t
      BY <1>1, <1>4, <2>1 DEF Tab!LinkNext
    <3> QED
      BY <1>3, <2>1, <3>1
  <2>2. CASE n # 0
    <3>1. u = [s EXCEPT ![last].next = key] /\ last \in DOMAIN t
      BY <1>1, <1>4, <1>5, <2>2 DEF Tab!LinkNext
    <3>2. last # key
      BY <3>1
    <3> QED
      BY <1>3, <3>1, <3>2
  <2> QED
    BY <2>1, <2>2
<1>7. \A k \in DOMAIN t : u[k].value = t[k].value
  <2>1. ASSUME n # 0
        PROVE  u[last].value = t[last].value
    <3>1. t[last] = NodeAt(t, l, n) /\ u[last] = [t[last] EXCEPT !.next = key]
      BY <1>1, <1>5, <1>6, <2>1
    <3> QED
      BY <3>1 DEF NodeAt
  <2>2. n = 0 => last \notin DOMAIN t
    BY <1>1
  <2> QED
    BY <1>6, <2>1, <2>2
<1>8. u[key].value = value
  BY <1>6
<1>9. IsInjective(m) /\ ToSet(m) = DOMAIN u
  <2>1. \A i, j \in 1..n + 1 : m[i] = m[j] => i = j
    <3> SUFFICES ASSUME NEW i \in 1..n + 1, NEW j \in 1..n + 1, m[i] = m[j]
                 PROVE  i = j
      OBVIOUS
    <3>1. i \in 1..n \/ i = n + 1
      BY <1>1
    <3>2. j \in 1..n \/ j = n + 1
      BY <1>1
    <3> QED
      BY <1>1, <1>2, <3>1, <3>2
  <2>2. \A i \in 1..n + 1 : i \in 1..n \/ i = n + 1
    BY <1>1
  <2>3. \A i \in 1..n : i \in 1..n + 1
    BY <1>1
  <2>4. n + 1 \in 1..n + 1
    BY <1>1
  <2>5. IsInjective(m)
    BY <1>2, <2>1 DEF IsInjective
  <2>6. ToSet(m) \subseteq DOMAIN u
    BY <1>1, <1>2, <1>6, <2>2 DEF ToSet
  <2>7. DOMAIN u \subseteq ToSet(m)
    BY <1>1, <1>2, <1>6, <2>3, <2>4 DEF ToSet
  <2> QED
    BY <2>5, <2>6, <2>7
<1>10. At(m, n + 1) = key /\ At(m, 1) = IF n = 0 THEN key ELSE l[1]
  <2>1. n + 1 \in 1..n + 1 /\ 1 \in 1..n + 1 /\ (n # 0 => 1 \in 1..n)
        /\ (n = 0 => n + 1 = 1)
    BY <1>1
  <2> QED
    BY <1>2, <2>1 DEF At
<1>11. (IF first = NoKey THEN key ELSE first) = At(m, 1)
  <2>1. n # 0 => first = l[1]
    BY <1>1, <1>4 DEF At, n
  <2> QED
    BY <1>4, <1>10, <2>1
<1>12. ASSUME NEW i \in 1..n + 1
       PROVE  u[m[i]] = NodeAt(u, m, i)
  <2>1. CASE i = n + 1
    <3>1. (n + 1) + 1 \notin 1..n + 1 /\ (n + 1) - 1 = n
      BY <1>1
    <3>2. At(m, (n + 1) + 1) = NoKey
      BY <1>2, <3>1 DEF At
    <3>3. At(m, n) = last
      <4>1. n = 0 => n \notin 1..n + 1
        OBVIOUS
      <4>2. n # 0 => n \in 1..n + 1
        BY <1>1
      <4> QED
        BY <1>2, <1>4, <1>5, <4>1, <4>2 DEF At
    <3> QED
      BY <1>2, <1>6, <2>1, <3>1, <3>2, <3>3 DEF NodeAt
  <2>2. CASE i # n + 1
    <3>1. i \in 1..n /\ i + 1 \in 1..n + 1
      BY <1>1, <2>2
    <3>2. t[l[i]] = NodeAt(t, l, i) /\ m[i] = l[i] /\ l[i] \in DOMAIN t
      BY <1>1, <1>2, <3>1
    <3>3. At(m, i - 1) = At(l, i - 1)
      <4>1. i - 1 \in 1..n + 1 <=> i - 1 \in 1..n
        BY <1>1, <3>1
      <4> QED
        BY <1>2, <4>1 DEF At, n
    <3>4. u[l[i]].value = t[l[i]].value
      BY <1>7, <3>2
    <3>5. CASE i = n
      <4>1. At(m, i + 1) = key /\ l[i] = last /\ n # 0
        BY <1>1, <1>5, <1>10, <3>1, <3>5
      <4>2. u[l[i]] = [t[l[i]] EXCEPT !.next = key]
        BY <1>6, <4>1
      <4> QED
        BY <3>2, <3>3, <4>1, <4>2 DEF NodeAt
    <3>6. CASE i # n
      <4>1. i + 1 \in 1..n /\ n # 0
        BY <1>1, <3>1, <3>6
      <4>2. At(m, i + 1) = At(l, i + 1)
        BY <1>2, <3>1, <4>1 DEF At, n
      <4>3. l[i] # last
        BY <1>1, <1>5, <3>1, <3>6, <4>1
      <4>4. u[l[i]] = t[l[i]]
        BY <1>6, <3>2, <4>3, Zenon
      <4> QED
        BY <3>2, <3>3, <4>2, <4>4 DEF NodeAt
    <3> QED
      BY <3>5, <3>6
  <2> QED
    BY <2>1, <2>2
<1>13. Linked(m, u, IF first = NoKey THEN key ELSE first, key)
  BY <1>2, <1>9, <1>10, <1>11, <1>12, Zenon DEF Linked
<1> QED
  BY <1>6, <1>7, <1>8, <1>13, Zenon DEF m

LEMMA LinkedAssign ==
  ASSUME NEW l, NEW t, NEW first, NEW last, Linked(l, t, first, last),
         NEW key \in DOMAIN t, NEW value,
         NEW u, u = [t EXCEPT ![key].value = value]
  PROVE  Linked(l, u, first, last)
<1>1. /\ \A i \in 1..Len(l) : l[i] \in DOMAIN t
      /\ \A i \in 1..Len(l) : t[l[i]] = NodeAt(t, l, i)
  BY LinkedType
<1>2. DOMAIN u = DOMAIN t
  OBVIOUS
<1>3. ASSUME NEW i \in 1..Len(l)
      PROVE  u[l[i]] = NodeAt(u, l, i)
  <2>1. t[l[i]] = NodeAt(t, l, i) /\ l[i] \in DOMAIN t
    BY <1>1
  <2>2. CASE l[i] = key
    BY <2>1, <2>2 DEF NodeAt
  <2>3. CASE l[i] # key
    BY <2>1, <2>3 DEF NodeAt
  <2> QED
    BY <2>2, <2>3
<1> QED
  BY <1>2, <1>3, Zenon DEF Linked

(* A table without a key.                                                  *)
Without(t, key) == [k \in DOMAIN t \ {key} |-> t[k]]

(* A table without a key, the nodes on both sides linked to each other.     *)
Unlinked(t, key) ==
  Tab!LinkPrevious(Tab!LinkNext(Without(t, key), t[key].previous, t[key].next),
               t[key].next, t[key].previous)

(* What removing the key at i of the list l does to a table so linked.     *)
Unlinks(l, t, first, last, i) ==
  LET key == l[i]
      u == Unlinked(t, key)
  IN /\ Linked(RemoveAt(l, i), u,
               IF t[key].previous = NoKey THEN t[key].next ELSE first,
               IF t[key].next = NoKey THEN t[key].previous ELSE last)
     /\ DOMAIN u = DOMAIN t \ {key}
     /\ \A k \in DOMAIN u : u[k].value = t[k].value

LEMMA LinkedRemove ==
  ASSUME NoKey \notin TableKeys, NEW l, NEW t, NEW first, NEW last,
         Linked(l, t, first, last), NEW i \in 1..Len(l)
  PROVE  Unlinks(l, t, first, last, i)
<1> PICK key : key = l[i]
  OBVIOUS
<1> PICK u : u = Unlinked(t, key)
  OBVIOUS
<1> PICK first2 : first2 = IF t[key].previous = NoKey THEN t[key].next ELSE first
  OBVIOUS
<1> PICK last2 : last2 = IF t[key].next = NoKey THEN t[key].previous ELSE last
  OBVIOUS
<1> DEFINE n == Len(l)
           r == RemoveAt(l, i)
           p == t[key].previous
           x == t[key].next
           s == Without(t, key)
<1>1. /\ n \in Nat /\ DOMAIN l = 1..n /\ i \in 1..n
      /\ \A j \in 1..n : l[j] \in TableKeys /\ l[j] \in DOMAIN t
      /\ \A k \in DOMAIN t : \E j \in 1..n : l[j] = k
      /\ \A j, k \in 1..n : l[j] = l[k] => j = k
      /\ \A j \in 1..n : t[l[j]] = NodeAt(t, l, j)
  BY LinkedType
<1>2. /\ r \in Seq(TableKeys) /\ Len(r) = n - 1 /\ DOMAIN r = 1..n - 1
      /\ \A j \in 1..n - 1 : r[j] = IF j < i THEN l[j] ELSE l[j + 1]
  <2>1. l \in Seq(TableKeys)
    BY DEF Linked
  <2>2. /\ r \in Seq(TableKeys) /\ Len(r) = n - 1
        /\ \A j \in 1..n - 1 : r[j] = IF j < i THEN l[j] ELSE l[j + 1]
    BY <2>1, RemoveAtProperties
  <2> QED
    BY <2>2
<1>0. /\ s = [k \in DOMAIN t \ {key} |-> t[k]]
      /\ p = t[key].previous /\ x = t[key].next
      /\ u = Tab!LinkPrevious(Tab!LinkNext(s, p, x), x, p)
      /\ first2 = IF p = NoKey THEN x ELSE first
      /\ last2 = IF x = NoKey THEN p ELSE last
  BY DEF Without, Unlinked
<1>3. p = At(l, i - 1) /\ x = At(l, i + 1)
  <2>1. t[key] = NodeAt(t, l, i)
    BY <1>1
  <2> QED
    BY <2>1 DEF NodeAt
<1>4. first = At(l, 1) /\ last = At(l, n)
  BY DEF Linked
<1> HIDE DEF n, r, p, x, s
<1>5. \A k \in Int : At(r, k) = IF k < i THEN At(l, k) ELSE At(l, k + 1)
  <2> SUFFICES ASSUME NEW k \in Int
               PROVE  At(r, k) = IF k < i THEN At(l, k) ELSE At(l, k + 1)
    BY Zenon
  <2>1. CASE k < i
    <3>1. k \in 1..n - 1 <=> k \in 1..n
      BY <1>1, <2>1
    <3> QED
      BY <1>2, <2>1, <3>1 DEF At, n
  <2>2. CASE ~(k < i)
    <3>1. k \in 1..n - 1 <=> k + 1 \in 1..n
      BY <1>1, <2>2
    <3> QED
      BY <1>2, <2>2, <3>1 DEF At, n
  <2> QED
    BY <2>1, <2>2
<1>6. /\ \A j \in 1..n : l[j] = p <=> j = i - 1
      /\ \A j \in 1..n : l[j] = x <=> j = i + 1
      /\ p = NoKey <=> i = 1
      /\ x = NoKey <=> i = n
      /\ p # NoKey => p \in DOMAIN t /\ p # key
      /\ x # NoKey => x \in DOMAIN t /\ x # key
      /\ p # NoKey => p # x
  <2>1. \A j : At(l, j) = IF j \in 1..n THEN l[j] ELSE NoKey
    BY DEF At, n
  <2>2. i - 1 \in 1..n <=> i # 1
    BY <1>1
  <2>3. i + 1 \in 1..n <=> i # n
    BY <1>1
  <2>4. i - 1 # i /\ i + 1 # i /\ i - 1 # i + 1
    BY <1>1
  <2>5. \A j \in 1..n : l[j] # NoKey
    BY <1>1
  <2>6. /\ i # 1 => p = l[i - 1]
        /\ i = 1 => p = NoKey
        /\ i # n => x = l[i + 1]
        /\ i = n => x = NoKey
    BY <1>3, <2>1, <2>2, <2>3
  <2>7. \A j \in 1..n : /\ i = 1 => j # i - 1
                        /\ i = n => j # i + 1
    BY <1>1
  <2> HIDE DEF n
  <2> QED
    BY <1>1, <2>2, <2>3, <2>4, <2>5, <2>6, <2>7
<1>7. \A k \in DOMAIN t :
        /\ k \in TableKeys
        /\ t[k] = [value |-> t[k].value, previous |-> t[k].previous,
                   next |-> t[k].next]
  <2> SUFFICES ASSUME NEW k \in DOMAIN t
               PROVE  /\ k \in TableKeys
                      /\ t[k] = [value |-> t[k].value,
                                 previous |-> t[k].previous, next |-> t[k].next]
    OBVIOUS
  <2>1. PICK j \in 1..n : l[j] = k
    BY <1>1
  <2>2. t[k] = NodeAt(t, l, j) /\ k \in TableKeys
    BY <1>1, <2>1
  <2> QED
    BY <2>2 DEF NodeAt
<1>8. /\ DOMAIN u = DOMAIN t \ {key}
      /\ \A k \in DOMAIN t \ {key} :
           u[k] = [value |-> t[k].value,
                   previous |-> IF k = x THEN p ELSE t[k].previous,
                   next |-> IF k = p THEN x ELSE t[k].next]
  <2> DEFINE v == Tab!LinkNext(s, p, x)
  <2>1. /\ DOMAIN v = DOMAIN t \ {key}
        /\ \A k \in DOMAIN t \ {key} :
             v[k] = [value |-> t[k].value, previous |-> t[k].previous,
                     next |-> IF k = p THEN x ELSE t[k].next]
    <3>1. CASE p = NoKey
      BY <1>0, <1>7, <3>1 DEF Tab!LinkNext
    <3>2. CASE p # NoKey
      <4>1. v = [s EXCEPT ![p].next = x] /\ DOMAIN v = DOMAIN t \ {key}
        BY <1>0, <3>2 DEF Tab!LinkNext
      <4>2. v[p] = [t[p] EXCEPT !.next = x] /\ p \in DOMAIN t
        <5>1. p \in DOMAIN t /\ p \in DOMAIN s
          BY <1>0, <1>6, <3>2
        <5>2. s[p] = t[p]
          BY <1>0, <5>1
        <5> QED
          BY <4>1, <5>1, <5>2
      <4>3. \A k \in DOMAIN t \ {key, p} : v[k] = t[k]
        BY <1>0, <4>1
      <4> HIDE DEF v
      <4> DEFINE a == t[p].value
                 b == t[p].previous
                 c == t[p].next
      <4>4. t[p] = [value |-> a, previous |-> b, next |-> c]
        BY <1>7, <4>2
      <4> HIDE DEF a, b, c
      <4>5. v[p] = [value |-> a, previous |-> b, next |-> x]
        BY <4>2, <4>4
      <4> QED
        BY <1>7, <4>1, <4>3, <4>5 DEF a, b
    <3> QED
      BY <3>1, <3>2
  <2>2. u = Tab!LinkPrevious(v, x, p)
    BY <1>0
  <2> HIDE DEF v
  <2>3. CASE x = NoKey
    BY <1>7, <2>1, <2>2, <2>3 DEF Tab!LinkPrevious
  <2>4. CASE x # NoKey
    <3>1. u = [v EXCEPT ![x].previous = p] /\ DOMAIN u = DOMAIN t \ {key}
      BY <2>1, <2>2, <2>4 DEF Tab!LinkPrevious
    <3>2. x \in DOMAIN t \ {key}
      BY <1>6, <2>4
    <3>3. u[x] = [v[x] EXCEPT !.previous = p]
      BY <2>1, <3>1, <3>2
    <3>4. \A k \in DOMAIN t \ {key, x} : u[k] = v[k]
      BY <2>1, <3>1
    <3>5. u[x] = [value |-> t[x].value, previous |-> p,
                  next |-> IF x = p THEN x ELSE t[x].next]
      <4> DEFINE a == t[x].value
                 b == t[x].previous
                 c == IF x = p THEN x ELSE t[x].next
      <4>1. v[x] = [value |-> a, previous |-> b, next |-> c]
        BY <2>1, <3>2
      <4> HIDE DEF a, b, c
      <4>2. u[x] = [value |-> a, previous |-> p, next |-> c]
        BY <3>3, <4>1
      <4> QED
        BY <4>2 DEF a, c
    <3>6. ASSUME NEW k \in DOMAIN t \ {key}
          PROVE  u[k] = [value |-> t[k].value,
                         previous |-> IF k = x THEN p ELSE t[k].previous,
                         next |-> IF k = p THEN x ELSE t[k].next]
      <4>1. CASE k = x
        BY <3>5, <4>1
      <4>2. CASE k # x
        BY <2>1, <3>4, <4>2
      <4> QED
        BY <4>1, <4>2
    <3> QED
      BY <3>1, <3>6
  <2> QED
    BY <2>3, <2>4
<1>9. ASSUME NEW j \in 1..n - 1
      PROVE  u[r[j]] = NodeAt(u, r, j)
  <2> DEFINE h == IF j < i THEN j ELSE j + 1
  <2>1. h \in 1..n /\ h # i /\ r[j] = l[h]
    BY <1>1, <1>2
  <2>2. l[h] \in DOMAIN t \ {key} /\ t[l[h]] = NodeAt(t, l, h)
    BY <1>1, <2>1
  <2>3. t[l[h]].previous = At(l, h - 1) /\ t[l[h]].next = At(l, h + 1)
    BY <2>2 DEF NodeAt
  <2>4. l[h] = p <=> h = i - 1
    BY <1>6, <2>1
  <2>5. l[h] = x <=> h = i + 1
    BY <1>6, <2>1
  <2>0. j + 1 \in Int /\ j - 1 \in Int
    BY <1>1
  <2>6. At(r, j + 1) = IF h = i - 1 THEN x ELSE At(l, h + 1)
    <3>1. At(r, j + 1) = IF j + 1 < i THEN At(l, j + 1) ELSE At(l, (j + 1) + 1)
      BY <1>5, <2>0, Zenon
    <3>2. CASE j + 1 < i
      <4>1. h = j /\ h # i - 1
        BY <1>1, <3>2
      <4> QED
        BY <3>1, <3>2, <4>1
    <3>3. CASE j + 1 = i
      <4>1. h = j /\ h = i - 1 /\ (j + 1) + 1 = i + 1 /\ ~(j + 1 < i)
        BY <1>1, <3>3
      <4> QED
        BY <1>3, <3>1, <4>1
    <3>4. CASE j + 1 > i
      <4>1. h = j + 1 /\ h # i - 1 /\ ~(j + 1 < i)
        BY <1>1, <3>4
      <4> QED
        BY <3>1, <4>1
    <3> QED
      BY <1>1, <3>2, <3>3, <3>4
  <2>7. At(r, j - 1) = IF h = i + 1 THEN p ELSE At(l, h - 1)
    <3>1. At(r, j - 1) = IF j - 1 < i THEN At(l, j - 1) ELSE At(l, (j - 1) + 1)
      BY <1>5, <2>0, Zenon
    <3>2. CASE j < i
      <4>1. h = j /\ h # i + 1 /\ j - 1 < i
        BY <1>1, <3>2
      <4> QED
        BY <3>1, <4>1
    <3>3. CASE j = i
      <4>1. h = i + 1 /\ j - 1 < i /\ j - 1 = i - 1
        BY <1>1, <3>3
      <4> QED
        BY <1>3, <3>1, <4>1
    <3>4. CASE j > i
      <4>1. h = j + 1 /\ h # i + 1 /\ ~(j - 1 < i) /\ h - 1 = (j - 1) + 1
        BY <1>1, <3>4
      <4> QED
        BY <3>1, <4>1
    <3> QED
      BY <1>1, <3>2, <3>3, <3>4
  <2> HIDE DEF h
  <2>8. u[l[h]] = [value |-> t[l[h]].value, previous |-> At(r, j - 1),
                   next |-> At(r, j + 1)]
    <3>1. u[l[h]] = [value |-> t[l[h]].value,
                     previous |-> IF l[h] = x THEN p ELSE t[l[h]].previous,
                     next |-> IF l[h] = p THEN x ELSE t[l[h]].next]
      BY <1>8, <2>2
    <3> QED
      BY <2>3, <2>4, <2>5, <2>6, <2>7, <3>1, Zenon
  <2>9. u[r[j]] = [value |-> t[l[h]].value, previous |-> At(r, j - 1),
                   next |-> At(r, j + 1)]
    BY <2>1, <2>8
  <2> QED
    BY <2>9 DEF NodeAt
<1>10. first2 = At(r, 1)
  <2>1. At(r, 1) = IF 1 < i THEN At(l, 1) ELSE At(l, 1 + 1)
    BY <1>5
  <2>2. 1 < i <=> i # 1
    BY <1>1
  <2>3. p = NoKey <=> i = 1
    BY <1>6
  <2> QED
    BY <1>0, <1>3, <1>4, <2>1, <2>2, <2>3
<1>11. last2 = At(r, n - 1)
  <2>1. At(r, n - 1) = IF n - 1 < i THEN At(l, n - 1) ELSE At(l, (n - 1) + 1)
    <3>1. n - 1 \in Int
      BY <1>1
    <3> QED
      BY <1>5, <3>1, Zenon
  <2>2. n - 1 < i <=> i = n
    BY <1>1
  <2>3. (n - 1) + 1 = n
    BY <1>1
  <2>4. x = NoKey <=> i = n
    BY <1>6
  <2> QED
    BY <1>0, <1>3, <1>4, <2>1, <2>2, <2>3, <2>4
<1>12. IsInjective(r) /\ ToSet(r) = DOMAIN u
  <2>1. \A j \in 1..n - 1 : \E h \in 1..n : h # i /\ r[j] = l[h]
    BY <1>1, <1>2
  <2>2. \A j, k \in 1..n - 1 : r[j] = r[k] => j = k
    <3> SUFFICES ASSUME NEW j \in 1..n - 1, NEW k \in 1..n - 1, r[j] = r[k]
                 PROVE  j = k
      OBVIOUS
    <3>1. PICK a \in 1..n : a = (IF j < i THEN j ELSE j + 1) /\ r[j] = l[a]
      BY <1>1, <1>2
    <3>2. PICK b \in 1..n : b = (IF k < i THEN k ELSE k + 1) /\ r[k] = l[b]
      BY <1>1, <1>2
    <3>3. a = b
      BY <1>1, <3>1, <3>2, Zenon
    <3> QED
      BY <1>1, <3>1, <3>2, <3>3
  <2>3. \A h \in 1..n : h # i => \E j \in 1..n - 1 : r[j] = l[h]
    <3> SUFFICES ASSUME NEW h \in 1..n, h # i
                 PROVE  \E j \in 1..n - 1 : r[j] = l[h]
      OBVIOUS
    <3>1. CASE h < i
      BY <1>1, <1>2, <3>1
    <3>2. CASE h > i
      <4>1. h - 1 \in 1..n - 1 /\ ~(h - 1 < i) /\ (h - 1) + 1 = h
        BY <1>1, <3>2
      <4> QED
        BY <1>2, <4>1
    <3> QED
      BY <1>1, <3>1, <3>2
  <2>4. IsInjective(r)
    BY <1>2, <2>2 DEF IsInjective
  <2>5. ToSet(r) \subseteq DOMAIN u
    BY <1>1, <1>2, <1>8, <2>1 DEF ToSet
  <2>6. DOMAIN u \subseteq ToSet(r)
    <3> SUFFICES ASSUME NEW k \in DOMAIN t, k # key
                 PROVE  \E j \in 1..n - 1 : r[j] = k
      BY <1>2, <1>8, Zenon DEF ToSet
    <3>1. PICK h \in 1..n : l[h] = k
      BY <1>1
    <3> QED
      BY <2>3, <3>1
  <2> QED
    BY <2>4, <2>5, <2>6, Zenon
<1>13. Linked(r, u, first2, last2)
  BY <1>2, <1>9, <1>10, <1>11, <1>12 DEF Linked
<1>14. ASSUME NEW k \in DOMAIN u
       PROVE  u[k].value = t[k].value
  <2> DEFINE a == t[k].value
             b == IF k = x THEN p ELSE t[k].previous
             c == IF k = p THEN x ELSE t[k].next
  <2>1. u[k] = [value |-> a, previous |-> b, next |-> c]
    BY <1>8
  <2> HIDE DEF a, b, c
  <2>2. u[k].value = a
    BY <2>1
  <2> QED
    BY <2>2 DEF a
<1>15. /\ Linked(RemoveAt(l, i), u, first2, last2)
       /\ DOMAIN u = DOMAIN t \ {key}
       /\ \A k \in DOMAIN u : u[k].value = t[k].value
  BY <1>8, <1>13, <1>14 DEF r
<1> QED
  BY <1>15 DEF Unlinks

-----------------------------------------------------------------------------
(* The refinement.                                                         *)

LEMMA InitLinked == Tab!Init => Linked(<< >>, table, head, tail)
<1> SUFFICES ASSUME Tab!Init PROVE Linked(<< >>, table, head, tail)
  OBVIOUS
<1>1. /\ table = << >> /\ head = NoKey /\ tail = NoKey
  BY DEF Tab!Init
<1>2. \A i : At(<< >>, i) = NoKey
  BY DEF At
<1>3. << >> \in Seq(TableKeys) /\ Len(<< >>) = 0 /\ DOMAIN << >> = {}
  OBVIOUS
<1> QED
  BY <1>1, <1>2, <1>3 DEF Linked, IsInjective, ToSet

(* The keys by the links are the sequence, now and after a step.           *)
LEMMA Seen ==
  /\ \A l : Linked(l, table, head, tail) => Tab!Forwards = l
  /\ \A l : Linked(l, table', head', tail') => Tab!Forwards' = l
BY WalkIsList DEF Tab!Forwards

(* The specification's operators on sequences are those of the model.      *)
LEMMA SameOperators == /\ \A l : Tab!List!ToSet(l) = ToSet(l)
                       /\ \A l, i : Tab!List!RemoveAt(l, i) = RemoveAt(l, i)
BY DEF ToSet, Tab!List!ToSet, RemoveAt, Tab!List!RemoveAt

(* The specification answers what the node of a key holds.                 *)
LEMMA AnswerIsNode ==
  ASSUME NEW l, Linked(l, table, head, tail), NEW i \in 1..Len(l)
  PROVE  /\ l[i] \in ToSet(Tab!Forwards) /\ Tab!List!Position(l[i]) = i
         /\ Tab!List!Answer(l[i]) = table[l[i]]
<1>1. Tab!Forwards = l
  BY Seen
<1>2. /\ DOMAIN l = 1..Len(l) /\ table[l[i]] = NodeAt(table, l, i)
      /\ \A j, k \in 1..Len(l) : l[j] = l[k] => j = k
      /\ l[i] \in DOMAIN table
  BY LinkedType
<1>3. l[i] \in ToSet(Tab!Forwards)
  BY <1>1, <1>2 DEF ToSet
<1>4. Tab!List!Position(l[i]) = i
  BY <1>1, <1>2 DEF Tab!List!Position
<1>5. \A j : Tab!List!KeyAt(j) = At(l, j)
  BY <1>1, <1>2 DEF Tab!List!KeyAt, At
<1>6. Tab!ValuesOf(table)[l[i]] = table[l[i]].value
  BY <1>2 DEF Tab!ValuesOf
<1>7. Tab!List!Answer(l[i]) = NodeAt(table, l, i)
  BY <1>4, <1>5, <1>6 DEF Tab!List!Answer, NodeAt
<1> QED
  BY <1>2, <1>3, <1>4, <1>7

LEMMA StepAdd ==
  ASSUME NoKey \notin TableKeys, TablistInv, NEW key \in TableKeys, NEW value,
         Tab!Add(key, value)
  PROVE  TablistInv' /\ Tab!List!Add(key, value)
<1>1. PICK l : Linked(l, table, head, tail)
  BY DEF TablistInv
<1> DEFINE node == [value |-> value, previous |-> tail, next |-> NoKey]
           s == [k \in DOMAIN table \cup {key} |->
                  IF k = key THEN node ELSE table[k]]
           t == table
           u == table'
           first == head
           last == tail
           first2 == head'
           last2 == tail'
<1>2. /\ key \in TableKeys \ DOMAIN t /\ u = Tab!LinkNext(s, last, key)
      /\ first2 = IF first = NoKey THEN key ELSE first
      /\ last2 = key /\ returned' = Tab!Nothing
  BY DEF Tab!Add
<1>3. Linked(l, t, first, last)
  BY <1>1
<1>4. /\ node = [value |-> value, previous |-> last, next |-> NoKey]
      /\ s = [k \in DOMAIN t \cup {key} |-> IF k = key THEN node ELSE t[k]]
  OBVIOUS
<1> HIDE DEF node, s, t, u, first, last, first2, last2
<1>5. /\ Linked(Append(l, key), u, first2, last2)
      /\ DOMAIN u = DOMAIN t \cup {key}
      /\ u[key].value = value
      /\ \A k \in DOMAIN t : u[k].value = t[k].value
  BY <1>2, <1>3, <1>4, LinkedAdd
<1>6. Tab!Forwards = l /\ Tab!Forwards' = Append(l, key)
  BY <1>1, <1>5, Seen, Zenon DEF u, first2, last2
<1>7. ToSet(l) = DOMAIN t
  BY <1>3 DEF Linked
<1>8. Tab!ValuesOf(u) = [k \in ToSet(l) \cup {key} |->
                      IF k = key THEN value ELSE Tab!ValuesOf(t)[k]]
  BY <1>2, <1>5, <1>7 DEF Tab!ValuesOf
<1>9. TablistInv'
  BY <1>5 DEF TablistInv, u, first2, last2
<1>10. returned' = Tab!List!Nothing
  BY <1>2 DEF Tab!Nothing, Tab!List!Nothing
<1>11. Tab!ValuesOf(table)' = Tab!ValuesOf(u)
  BY DEF u, Tab!ValuesOf
<1>12. Tab!List!Add(key, value)
  <2>1. key \notin ToSet(Tab!Forwards)
    BY <1>2, <1>6, <1>7
  <2>2. Tab!Forwards' = Append(Tab!Forwards, key)
    BY <1>6
  <2>3. Tab!ValuesOf(table)' = [k \in ToSet(Tab!Forwards) \cup {key} |->
                             IF k = key THEN value ELSE Tab!ValuesOf(table)[k]]
    BY <1>6, <1>8, <1>11 DEF t
  <2> QED
    BY <1>10, <2>1, <2>2, <2>3, SameOperators DEF Tab!List!Add
<1> QED
  BY <1>9, <1>12

LEMMA StepBorrow ==
  ASSUME TablistInv, NEW key \in TableKeys, Tab!BorrowIterable(key)
  PROVE  TablistInv' /\ Tab!List!BorrowIterable(key)
<1>1. PICK l : Linked(l, table, head, tail)
  BY DEF TablistInv
<1>2. /\ key \in DOMAIN table /\ returned' = table[key]
      /\ UNCHANGED <<table, head, tail>>
  BY DEF Tab!BorrowIterable
<1>3. PICK i \in 1..Len(l) : l[i] = key
  BY <1>1, <1>2, LinkedType
<1>4. key \in ToSet(Tab!Forwards) /\ Tab!List!Answer(key) = table[key]
  BY <1>1, <1>3, AnswerIsNode
<1>5. TablistInv'
  BY <1>1, <1>2 DEF TablistInv
<1>6. Tab!Forwards' = Tab!Forwards /\ Tab!ValuesOf(table)' = Tab!ValuesOf(table)
  BY <1>2 DEF Tab!Forwards, Tab!Walk, Tab!ValuesOf
<1> QED
  BY <1>2, <1>4, <1>5, <1>6, SameOperators DEF Tab!List!BorrowIterable

LEMMA StepAssign ==
  ASSUME TablistInv, NEW key \in TableKeys, NEW value, Tab!Assign(key, value)
  PROVE  TablistInv' /\ Tab!List!Assign(key, value)
<1>1. PICK l : Linked(l, table, head, tail)
  BY DEF TablistInv
<1>2. /\ key \in DOMAIN table /\ table' = [table EXCEPT ![key].value = value]
      /\ returned' = table'[key] /\ UNCHANGED <<head, tail>>
  BY DEF Tab!Assign
<1>3. Linked(l, table', head', tail')
  BY <1>1, <1>2, LinkedAssign, Zenon
<1>4. Tab!Forwards = l /\ Tab!Forwards' = l
  BY <1>1, <1>3, Seen
<1>5. PICK i \in 1..Len(l) : l[i] = key
  BY <1>1, <1>2, LinkedType
<1>6. /\ key \in ToSet(Tab!Forwards) /\ Tab!List!Answer(key) = table[key]
      /\ table[key] = NodeAt(table, l, i)
  BY <1>1, <1>5, AnswerIsNode, LinkedType
<1>7. table'[key] = [table[key] EXCEPT !.value = value]
  BY <1>2
<1>8. Tab!ValuesOf(table') = [Tab!ValuesOf(table) EXCEPT ![key] = value]
  <2>1. table'[key].value = value
    BY <1>6, <1>7 DEF NodeAt
  <2>2. \A k \in DOMAIN table \ {key} : table'[k] = table[k]
    BY <1>2
  <2> QED
    BY <1>2, <2>1, <2>2, Zenon DEF Tab!ValuesOf
<1>9. TablistInv'
  BY <1>3 DEF TablistInv
<1>10. Tab!ValuesOf(table)' = Tab!ValuesOf(table')
  BY DEF Tab!ValuesOf
<1>11. returned' = [Tab!List!Answer(key) EXCEPT !.value = value]
  BY <1>2, <1>6, <1>7
<1> QED
  BY <1>4, <1>6, <1>8, <1>9, <1>10, <1>11, SameOperators DEF Tab!List!Assign

LEMMA StepRemove ==
  ASSUME NoKey \notin TableKeys, TablistInv, NEW key \in TableKeys, Tab!RemoveIterable(key)
  PROVE  TablistInv' /\ Tab!List!RemoveIterable(key)
<1>1. PICK l : Linked(l, table, head, tail)
  BY DEF TablistInv
<1> DEFINE p == table[key].previous
           x == table[key].next
           t == table
           u == table'
           first == head
           last == tail
           first2 == head'
           last2 == tail'
<1>2. /\ key \in DOMAIN t
      /\ u = Unlinked(t, key)
      /\ first2 = IF p = NoKey THEN x ELSE first
      /\ last2 = IF x = NoKey THEN p ELSE last
      /\ returned' = t[key]
  BY DEF Tab!RemoveIterable, Unlinked, Without
<1>3. Linked(l, t, first, last)
  BY <1>1
<1>4. /\ p = t[key].previous /\ x = t[key].next
  OBVIOUS
<1> HIDE DEF p, x, t, u, first, last, first2, last2
<1>5. PICK i \in 1..Len(l) : key = l[i]
  BY <1>2, <1>3, LinkedType
<1>6. /\ Linked(RemoveAt(l, i), u, first2, last2)
      /\ DOMAIN u = DOMAIN t \ {key}
      /\ \A k \in DOMAIN u : u[k].value = t[k].value
  <2>1. /\ first2 = IF t[key].previous = NoKey THEN t[key].next ELSE first
        /\ last2 = IF t[key].next = NoKey THEN t[key].previous ELSE last
        /\ u = Unlinked(t, key)
    BY <1>2, <1>4
  <2> QED
    <3>1. Unlinks(l, t, first, last, i)
      BY <1>3, LinkedRemove
    <3> QED
      BY <1>5, <2>1, <3>1 DEF Unlinks
<1>7. Tab!Forwards = l /\ Tab!Forwards' = RemoveAt(l, i)
  BY <1>1, <1>6, Seen DEF u, first2, last2
<1>8. /\ key \in ToSet(Tab!Forwards) /\ Tab!List!Position(key) = i
      /\ Tab!List!Answer(key) = t[key]
  BY <1>1, <1>5, AnswerIsNode DEF t
<1>9. ToSet(l) = DOMAIN t
  BY <1>3 DEF Linked
<1>10. Tab!ValuesOf(u) = [k \in ToSet(l) \ {key} |-> Tab!ValuesOf(t)[k]]
  BY <1>6, <1>9 DEF Tab!ValuesOf
<1>11. TablistInv'
  BY <1>6 DEF TablistInv, u, first2, last2
<1>12. Tab!ValuesOf(table)' = Tab!ValuesOf(u)
  BY DEF u, Tab!ValuesOf
<1>13. Tab!List!RemoveIterable(key)
  <2>1. returned' = Tab!List!Answer(key)
    BY <1>2, <1>8
  <2>2. Tab!Forwards' = RemoveAt(Tab!Forwards, Tab!List!Position(key))
    BY <1>7, <1>8
  <2>3. Tab!ValuesOf(table)' = [k \in ToSet(Tab!Forwards) \ {key} |-> Tab!ValuesOf(table)[k]]
    BY <1>7, <1>10, <1>12 DEF t
  <2> QED
    BY <1>8, <2>1, <2>2, <2>3, SameOperators DEF Tab!List!RemoveIterable
<1> QED
  BY <1>11, <1>13

LEMMA NextRefines ==
  ASSUME NoKey \notin TableKeys
  PROVE  TablistInv /\ [Tab!Next]_(Tab!vars) => TablistInv' /\ [Tab!List!Next]_(Tab!List!vars)
<1> SUFFICES ASSUME TablistInv, [Tab!Next]_(Tab!vars)
             PROVE  TablistInv' /\ [Tab!List!Next]_(Tab!List!vars)
  OBVIOUS
<1>1. CASE Tab!Next
  <2>1. PICK key \in TableKeys : \/ \E value \in TableValues : \/ Tab!Add(key, value)
                                                     \/ Tab!Assign(key, value)
                            \/ Tab!BorrowIterable(key)
                            \/ Tab!RemoveIterable(key)
    BY <1>1 DEF Tab!Next
  <2>2. CASE \E value \in TableValues : Tab!Add(key, value)
    BY <2>2, StepAdd DEF Tab!List!Next
  <2>3. CASE \E value \in TableValues : Tab!Assign(key, value)
    BY <2>3, StepAssign DEF Tab!List!Next
  <2>4. CASE Tab!BorrowIterable(key)
    BY <2>4, StepBorrow DEF Tab!List!Next
  <2>5. CASE Tab!RemoveIterable(key)
    BY <2>5, StepRemove DEF Tab!List!Next
  <2> QED
    BY <2>1, <2>2, <2>3, <2>4, <2>5
<1>2. CASE UNCHANGED Tab!vars
  BY <1>2 DEF Tab!vars, Tab!List!vars, TablistInv, Tab!Forwards
<1> QED
  BY <1>1, <1>2

(* For any keys and values: a tablist is a table that keeps the order of   *)
(* addition, of which each read and each removal tells the key before and  *)
(* the key after (add, borrow_iterable, remove_iterable).                  *)
THEOREM TablistRefines ==
  ASSUME NoKey \notin TableKeys
  PROVE  Tab!Spec => Tab!TablistIsTable
<1>1. Tab!Init => TablistInv /\ Tab!List!Init
  <2> SUFFICES ASSUME Tab!Init PROVE TablistInv /\ Tab!List!Init
    OBVIOUS
  <2>1. Linked(<< >>, table, head, tail)
    BY InitLinked
  <2>2. Tab!Forwards = << >>
    BY <2>1, Seen
  <2>3. Tab!ValuesOf(table) = << >> /\ returned = Tab!List!Nothing
    BY DEF Tab!Init, Tab!ValuesOf, Tab!Nothing, Tab!List!Nothing
  <2> QED
    BY <2>1, <2>2, <2>3 DEF TablistInv, Tab!List!Init
<1>2. TablistInv /\ [Tab!Next]_(Tab!vars) => TablistInv' /\ [Tab!List!Next]_(Tab!List!vars)
  BY NextRefines
<1> QED
  BY <1>1, <1>2, PTL DEF Tab!Spec, Tab!TablistIsTable, Tab!List!Spec
=============================================================================
