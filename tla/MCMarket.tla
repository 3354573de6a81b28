------------------------------ MODULE MCMarket ------------------------------
(***************************************************************************)
(* Instances of a market for TLC.                                          *)
(***************************************************************************)
EXTENDS MarketSafety

CONSTANTS t1, t2        \* model values
CONSTANTS EndowBase, EndowQuote

MCEndowment == [x \in Assets |-> IF x = "base" THEN EndowBase ELSE EndowQuote]

CONSTANTS SwapMinBase, SwapMaxBase, SwapMinQuote, SwapMaxQuote

(* Bounds of swaps, from the sets of amounts a configuration gives.        *)
MCSwapBounds ==
  {[min |-> [x \in Assets |-> IF x = "base" THEN b1 ELSE q1],
    max |-> [x \in Assets |-> IF x = "base" THEN b2 ELSE q2]] :
     b1 \in SwapMinBase, b2 \in SwapMaxBase,
     q1 \in SwapMinQuote, q2 \in SwapMaxQuote}

(* Percentages, and numbers of ticks.                                      *)
MCTargets == ({"percent"} \X {0, 50, 99, 100, 150}) \cup ({"ticks"} \X {1, 2, 5})

(* Market accounts are alike, but for swaps: only some take part in those. *)
Symmetric == Permutations(Traders)
=============================================================================
