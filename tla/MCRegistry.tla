----------------------------- MODULE MCRegistry -----------------------------
(***************************************************************************)
(* Instances, for TLC, of the registry of markets with its fees, and of    *)
(* the market accounts of users.  Each behavior is one of one instance:    *)
(*                                                                         *)
(*   "tiers"       integrators activate and upgrade their stores while the *)
(*                 tiers are replaced: the constants of the module         *)
(*   "fees"        two integrators and a market, while the utility coin is *)
(*                 replaced and comes back                                 *)
(*   "markets"     markets of two coins and of generic assets, two of      *)
(*                 which share a pair                                      *)
(*   "recognized"  markets of a pair are recognized and removed, alone and *)
(*                 in vectors of two                                       *)
(*   "names"       users register market accounts, before and after the    *)
(*                 upgrade that brought event handles                      *)
(*   "collateral"  the coins of accounts that lie in the same maps         *)
(***************************************************************************)
EXTENDS Registry

CONSTANTS i1, i2, btc, usd    \* model values

T(divisor, activation, withdrawal) ==
  [divisor |-> divisor, activation |-> activation, withdrawal |-> withdrawal]

P(utility, divisor, tiers) ==
  [utility |-> utility, divisor |-> divisor, tiers |-> tiers,
   marketFee |-> 1, underwriterFee |-> 1, custodianFee |-> 1]

OneTier == P("APT", 2, <<T(3, 0, 1)>>)

(* Two sets of parameters that differ in all, and some that are refused:   *)
(* fewer tiers, a share above the fee, a free withdrawal, a tier that does *)
(* not cost more.                                                          *)
ThreeTiers == P("APT", 2, <<T(5, 0, 3), T(4, 1, 2), T(2, 3, 1)>>)
FeeSets == {ThreeTiers,
            P("APT", 3, <<T(6, 0, 3), T(5, 2, 2), T(3, 3, 1)>>),
            P("APT", 3, <<T(6, 0, 3), T(5, 2, 2), T(2, 3, 1)>>),
            P("APT", 2, <<T(5, 0, 2), T(4, 1, 0)>>),
            P("APT", 2, <<T(5, 0, 2), T(4, 1, 1)>>),
            P("APT", 2, <<T(5, 0, 3), T(4, 1, 2), T(2, 1, 1)>>)}

(* The utility coin is replaced, also by one that was in use before.       *)
TwoUtilities == {OneTier, P("ECO", 2, <<T(3, 0, 1)>>)}

(* The base of one market is the quote of another.                         *)
Market(baseType, quoteType, underwriter) ==
  [base |-> baseType, quote |-> quoteType, underwriter |-> underwriter]
Chained == <<Market("apt", "usdc", 0), Market(GenericAsset, "apt", 1)>>

VARIABLES
  accounts, custodians, collateral, handles, guids, upgraded, counter,
  instance    \* the one that runs

accountsVars == <<accounts, custodians, collateral, handles, guids, upgraded, counter>>

-----------------------------------------------------------------------------
Fees == INSTANCE Registry WITH
  Integrators <- {i1, i2}, UtilityTypes <- {"APT", "ECO"},
  ParameterSets <- TwoUtilities, Genesis <- OneTier,
  HI_64 <- 4, MaxFill <- 4, MaxPayment <- 1, MaxUpdates <- 2

ManyMarkets == INSTANCE Registry WITH
  ParameterSets <- {OneTier}, Genesis <- OneTier,
  HI_64 <- 5, MaxFill <- 0, MaxPayment <- 1, MaxUpdates <- 0,
  Generics <- {"gold"}, Sizes <- {"s1", "s2"},
  MaxMarkets <- 3, MaxUnderwriters <- 2, MaxCustodians <- 1

Lists == INSTANCE Registry WITH
  Integrators <- {}, ParameterSets <- {OneTier}, Genesis <- OneTier,
  HI_64 <- 4, MaxFill <- 1, MaxPayment <- 1, MaxUpdates <- 0,
  Sizes <- {"s1", "s2"}, MaxMarkets <- 3, MaxEvents <- 3, MaxBatch <- 2

Names == INSTANCE UserAccounts WITH
  LotSize <- 1, TickSize <- 1, HI_64 <- 3, HI_PRICE <- 2,
  Users <- {"u", "v"}, Coins <- {"apt", "usdc"}, Markets <- Chained,
  NCustodians <- 1, Underwriters <- {0, 1}, Amounts <- {}, Sizes <- {},
  Prices <- {}, MaxAccounts <- 3, MaxOrders <- 0

Balances == INSTANCE UserAccounts WITH
  LotSize <- 1, TickSize <- 1, HI_64 <- 3, HI_PRICE <- 2,
  Users <- {"u"}, Coins <- {"apt", "usdc"}, Markets <- Chained,
  NCustodians <- 1, Underwriters <- {0, 1}, Amounts <- {2}, Sizes <- {1, 2},
  Prices <- {1}, MaxAccounts <- 2, MaxOrders <- 2

ASSUME AccountsAssumption == Names!ConstantsTyped /\ Balances!ConstantsTyped

-----------------------------------------------------------------------------
(* An instance that does not run keeps a state it may start in.            *)
InstancesInit ==
  /\ instance \in {"tiers", "fees", "markets", "recognized", "names", "collateral"}
  /\ IF instance = "tiers" THEN Init ELSE Lists!Init
  /\ IF instance = "names" THEN Names!Init ELSE Balances!Init

RunTiers == instance = "tiers" /\ Next /\ UNCHANGED <<accountsVars, instance>>
RunFees  == instance = "fees" /\ Fees!Next /\ UNCHANGED <<accountsVars, instance>>
RunMarkets ==
  instance = "markets" /\ ManyMarkets!Next /\ UNCHANGED <<accountsVars, instance>>
RunRecognized ==
  instance = "recognized" /\ Lists!Next /\ UNCHANGED <<accountsVars, instance>>
RunNames == instance = "names" /\ Names!Next /\ UNCHANGED <<vars, instance>>
RunCollateral ==
  instance = "collateral" /\ Balances!Next /\ UNCHANGED <<vars, instance>>

InstancesNext ==
  \/ RunTiers \/ RunFees \/ RunMarkets \/ RunRecognized \/ RunNames \/ RunCollateral

InstancesSpec ==
  InstancesInit /\ [][InstancesNext]_<<vars, accountsVars, instance>>

-----------------------------------------------------------------------------
(* The properties of UserAccounts, of the instance that runs.              *)

(* Each market account is listed, and found, once; its collateral is what  *)
(* its totals say, in every map of coins; and its handles are its own.     *)
AccountsAgree ==
  /\ Balances!CollateralBacksTotals
  /\ instance = "names" => Names!AccountsListed /\ Names!HandlesDistinct

(* The handles of an account are never replaced.                           *)
HandlesKept == Names!HandlesKept
=============================================================================
