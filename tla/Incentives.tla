----------------------------- MODULE Incentives -----------------------------
(***************************************************************************)
(* The fees of Econia (incentives.move): the parameters that its owner may *)
(* replace at any time, the stores that hold what takers and registrations *)
(* paid, and the tiers to which integrators have activated their stores.   *)
(* A call that aborts changes nothing, so it is a step that is not taken.  *)
(* The functions of registry.move that call these are in Registry.         *)
(***************************************************************************)
EXTENDS Integers, FiniteSets, FiniteSetsExt, Sequences, Functions

CONSTANTS
  Integrators,
  UtilityTypes,   \* types of coin that may serve as utility coin
  ParameterSets,  \* arguments of update_incentives
  Genesis,        \* those of init_module
  HI_64,          \* the largest value of a coin
  MaxFill,        \* bound on the quote coins a taker fills
  MaxPayment,     \* bound on the utility coins a call brings
  MaxUpdates      \* bound on the updates of the parameters

MIN_DIVISOR == 2
MIN_FEE     == 1
MAX_INTEGRATOR_FEE_STORE_TIERS == 255

ASSUME ConstantsAssumption ==
  /\ HI_64 \in Nat /\ MaxFill \in 0..HI_64 /\ MaxPayment \in 0..HI_64
  /\ MaxUpdates \in Nat
  /\ Genesis \in ParameterSets
  /\ ParameterSets \subseteq
       [utility : UtilityTypes, divisor : Nat, marketFee : Nat,
        underwriterFee : Nat, custodianFee : Nat,
        tiers : Seq([divisor : Nat, activation : Nat, withdrawal : Nat])]

VARIABLES
  parameters,        \* IncentiveParameters: the set in force
  utilityStores,     \* UtilityCoinStore of each type that was ever in use
  econiaStores,      \* EconiaFeeStore: <<quote, market>> to coins
  integratorStores,  \* <<integrator, quote, market>> to [tier, coins]
  updates,
  \* What the calls have paid in and not taken out again.
  feesHeld,          \* of each market: <<quote, market>> to quote coins
  utilityHeld,       \* of each type of utility coin
  activations        \* of each integrator's store: [paid, current]

incentivesVars == <<parameters, utilityStores, econiaStores, integratorStores,
                    updates, feesHeld, utilityHeld, activations>>

-----------------------------------------------------------------------------
(* Parameters.                                                             *)

(* MUTANT: a share may be larger than the fee.                             *)
TiersAscendWithoutFloor(divisor, tiers) ==
  \A i \in DOMAIN tiers :
    /\ tiers[i].withdrawal >= MIN_FEE
    /\ i = 1 => /\ tiers[i].divisor < HI_64
                /\ tiers[i].activation = 0
                /\ tiers[i].withdrawal < HI_64
    /\ i > 1 => /\ tiers[i].divisor < tiers[i - 1].divisor
                /\ tiers[i].activation > tiers[i - 1].activation
                /\ tiers[i].withdrawal < tiers[i - 1].withdrawal

(* What set_incentive_parameters_parse_tiers_vector asserts of each tier.  *)
TiersAscend(divisor, tiers) ==
  \A i \in DOMAIN tiers :
    /\ tiers[i].divisor >= divisor
    /\ tiers[i].withdrawal >= MIN_FEE
    /\ i = 1 => /\ tiers[i].divisor < HI_64
                /\ tiers[i].activation = 0
                /\ tiers[i].withdrawal < HI_64
    /\ i > 1 => /\ tiers[i].divisor < tiers[i - 1].divisor
                /\ tiers[i].activation > tiers[i - 1].activation
                /\ tiers[i].withdrawal < tiers[i - 1].withdrawal

InRange(p) ==
  /\ p.marketFee >= MIN_FEE
  /\ p.underwriterFee >= MIN_FEE
  /\ p.custodianFee >= MIN_FEE
  /\ p.divisor >= MIN_DIVISOR
  /\ Len(p.tiers) \in 1..MAX_INTEGRATOR_FEE_STORE_TIERS

Tier(n) == parameters.tiers[n + 1]
IsTier(n) == n < Len(parameters.tiers)

-----------------------------------------------------------------------------
(* Coins.                                                                  *)

(* range_check_coin_merge.                                                 *)
FitsIn(amount, store) == amount + store <= HI_64

Deposited(type, amount) ==
  /\ utilityStores' = [utilityStores EXCEPT ![type] = @ + amount]
  /\ utilityHeld' = [utilityHeld EXCEPT ![type] = @ + amount]

DepositUtilityCoinsVerified(type, amount, minAmount) ==
  /\ type = parameters.utility
  /\ amount >= minAmount
  /\ FitsIn(amount, utilityStores[type])
  /\ Deposited(type, amount)

IncentivesInit ==
  /\ InRange(Genesis) /\ TiersAscend(Genesis.divisor, Genesis.tiers)
  /\ parameters = Genesis
  /\ utilityStores = [t \in {Genesis.utility} |-> 0]
  /\ econiaStores = << >>
  /\ integratorStores = << >>
  /\ updates = 0
  /\ feesHeld = << >>
  /\ utilityHeld = [t \in {Genesis.utility} |-> 0]
  /\ activations = << >>

(* A function with one more value, or another one.                         *)
With(f, x, v) == [y \in DOMAIN f \cup {x} |-> IF y = x THEN v ELSE f[y]]

(* MUTANT: a store is made for the type even when there is one.            *)
InitUtilityCoinStoreAlways(type) == With(utilityStores, type, 0)

(* init_utility_coin_store.                                                *)
InitUtilityCoinStore(type) ==
  IF type \in DOMAIN utilityStores THEN utilityStores
                                   ELSE With(utilityStores, type, 0)

(* update_incentives, which calls set_incentive_parameters.                *)
UpdateIncentives(p) ==
  /\ updates < MaxUpdates
  /\ InRange(p) /\ TiersAscend(p.divisor, p.tiers)
  /\ Len(p.tiers) >= Len(parameters.tiers)
  /\ parameters' = p
  /\ utilityStores' = InitUtilityCoinStore(p.utility)
  /\ updates' = updates + 1
  /\ utilityHeld' = IF p.utility \in DOMAIN utilityHeld THEN utilityHeld
                    ELSE With(utilityHeld, p.utility, 0)
  /\ activations' = [s \in DOMAIN activations |->
                      [activations[s] EXCEPT !.current = FALSE]]
  /\ UNCHANGED <<econiaStores, integratorStores, feesHeld>>

-----------------------------------------------------------------------------
(* Stores.                                                                 *)

RegisterEconiaFeeStoreEntry(quote, market) ==
  /\ <<quote, market>> \notin DOMAIN econiaStores
  /\ econiaStores' = With(econiaStores, <<quote, market>>, 0)
  /\ feesHeld' = With(feesHeld, <<quote, market>>, 0)

(* register_integrator_fee_store: tablist::add aborts on a known market.   *)
IntegratorFeeStore(integrator, quote, market, tier, type, amount) ==
  /\ IsTier(tier)
  /\ DepositUtilityCoinsVerified(type, amount, Tier(tier).activation)
  /\ <<integrator, quote, market>> \notin DOMAIN integratorStores
  /\ integratorStores' = With(integratorStores, <<integrator, quote, market>>,
                              [tier |-> tier, coins |-> 0])
  /\ activations' = With(activations, <<integrator, quote, market>>,
                         [paid |-> Tier(tier).activation, current |-> TRUE])
  /\ UNCHANGED <<parameters, econiaStores, updates, feesHeld>>

(* MUTANT: the cost is reckoned from the tier below the new one.           *)
CostFromTierBelow(tier, newTier) ==
  Tier(newTier).activation - Tier(newTier - 1).activation

(* get_cost_to_upgrade_integrator_fee_store_view.                          *)
CostToUpgrade(tier, newTier) == Tier(newTier).activation - Tier(tier).activation

UpgradeIntegratorFeeStore(s, newTier, type, amount) ==
  LET cost == CostToUpgrade(integratorStores[s].tier, newTier)
  IN /\ newTier > integratorStores[s].tier
     /\ IsTier(integratorStores[s].tier) /\ IsTier(newTier)
     /\ cost > 0
     /\ DepositUtilityCoinsVerified(type, amount, cost)
     /\ integratorStores' = [integratorStores EXCEPT ![s].tier = newTier]
     /\ activations' = [activations EXCEPT ![s].paid = @ + cost]
     /\ UNCHANGED <<parameters, econiaStores, updates, feesHeld>>

(* What is left of the fee for Econia.                                     *)
EconiaShare(fill, share) == fill \div parameters.divisor - share

(* assess_taker_fees: the integrator may be any address.                   *)
AssessTakerFees(integrator, quote, market, fill) ==
  LET m == <<quote, market>>
      s == <<integrator, quote, market>>
      known == s \in DOMAIN integratorStores
      share == IF known THEN fill \div Tier(integratorStores[s].tier).divisor
                        ELSE 0
      rest == EconiaShare(fill, share)
  IN /\ m \in DOMAIN econiaStores
     /\ known => /\ IsTier(integratorStores[s].tier)
                 /\ FitsIn(share, integratorStores[s].coins)
     /\ rest >= 0
     /\ FitsIn(rest, econiaStores[m])
     /\ integratorStores' = IF known
                            THEN [integratorStores EXCEPT ![s].coins = @ + share]
                            ELSE integratorStores
     /\ econiaStores' = [econiaStores EXCEPT ![m] = @ + rest]
     /\ feesHeld' = [feesHeld EXCEPT ![m] = @ + fill \div parameters.divisor]
     /\ UNCHANGED <<parameters, utilityStores, updates, utilityHeld,
                    activations>>

-----------------------------------------------------------------------------
(* Withdrawals.                                                            *)

(* withdraw_integrator_fees: all of a store, against a fee in utility.     *)
WithdrawIntegratorFees(s, type, amount) ==
  /\ IsTier(integratorStores[s].tier)
  /\ DepositUtilityCoinsVerified(type, amount,
                                 Tier(integratorStores[s].tier).withdrawal)
  /\ integratorStores' = [integratorStores EXCEPT ![s].coins = 0]
  /\ feesHeld' = [feesHeld EXCEPT
                   ![<<s[2], s[3]>>] = @ - integratorStores[s].coins]
  /\ UNCHANGED <<parameters, econiaStores, updates, activations>>

(* withdraw_econia_fees_internal, of an amount or of all of it.            *)
WithdrawEconiaFees(m, amount) ==
  /\ amount <= econiaStores[m]
  /\ econiaStores' = [econiaStores EXCEPT ![m] = @ - amount]
  /\ feesHeld' = [feesHeld EXCEPT ![m] = @ - amount]
  /\ UNCHANGED <<parameters, utilityStores, integratorStores, updates,
                 utilityHeld, activations>>

(* withdraw_utility_coins_internal: of any type that was in use.           *)
WithdrawUtilityCoins(type, amount) ==
  /\ amount <= utilityStores[type]
  /\ utilityStores' = [utilityStores EXCEPT ![type] = @ - amount]
  /\ utilityHeld' = [utilityHeld EXCEPT ![type] = @ - amount]
  /\ UNCHANGED <<parameters, econiaStores, integratorStores, updates, feesHeld,
                 activations>>

-----------------------------------------------------------------------------
(* Properties.                                                             *)

(* Whatever set of parameters replaced the one under which an integrator   *)
(* activated its store, its tier is one of the set in force, and its share *)
(* of any fill is no more than the fee: assess_taker_fees cannot abort for *)
(* an integrator, and a taker's order with it.                             *)
ShareWithinFee ==
  \A s \in DOMAIN integratorStores :
    /\ IsTier(integratorStores[s].tier)
    /\ \A fill \in 0..MaxFill :
         fill \div Tier(integratorStores[s].tier).divisor
           <= fill \div parameters.divisor

(* The fees of a market that were taken and not withdrawn are in the store *)
(* of Econia and in those of its integrators, none lost, none twice.       *)
FeesConserved ==
  \A m \in DOMAIN feesHeld :
    feesHeld[m] = econiaStores[m]
                  + MapThenSumSet(LAMBDA s : integratorStores[s].coins,
                                  {s \in DOMAIN integratorStores :
                                     <<s[2], s[3]>> = m})

(* The utility coins that were paid are in the store of their type, also   *)
(* after another type has been made the utility coin, and again the first. *)
UtilityConserved == utilityStores = utilityHeld

(* No coin that was paid to the protocol is lost, or withdrawn twice.      *)
CoinsConserved == FeesConserved /\ UtilityConserved

(* By whatever steps an integrator reached its tier, it has paid what      *)
(* activation of that tier costs, while the parameters stay the same.      *)
UpgradePathsEqual ==
  \A s \in DOMAIN activations :
    activations[s].current =>
      activations[s].paid = Tier(integratorStores[s].tier).activation
=============================================================================
