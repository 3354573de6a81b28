--------------------------- MODULE MCOrderHistory ---------------------------
(***************************************************************************)
(* An instance of the order history pipelines for TLC: liquidity of        *)
(* groups, of several orders after a fill.                                 *)
(***************************************************************************)
EXTENDS OrderHistory

MCAccounts == {"maker", "taker"}
MCUserOf(a) == a

Placed(a, side, price, size) ==
  [account |-> a, type |-> "limit", side |-> side, price |-> price, size |-> size,
   rests |-> TRUE]

(* Asks and bids at two prices.                                            *)
BothSides ==
  {Placed("maker", "ask", 2, 2), Placed("maker", "ask", 3, 1),
   Placed("taker", "bid", 2, 1), Placed("taker", "bid", 1, 1)}
=============================================================================
