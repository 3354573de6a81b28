---------------------------- MODULE EventMerge ------------------------------
(***************************************************************************)
(* Fills and size changes come from two tables, each in the order of the   *)
(* chain; a history pipeline steps through both in total order.            *)
(***************************************************************************)
EXTENDS Naturals, Sequences

Merge(fills, changes, TakesFill(_, _)) ==
  LET merge[i \in 1..(Len(fills) + 1), j \in 1..(Len(changes) + 1)] ==
        CASE i > Len(fills) -> SubSeq(changes, j, Len(changes))
          [] j > Len(changes) -> SubSeq(fills, i, Len(fills))
          [] TakesFill(fills[i], changes[j]) -> <<fills[i]>> \o merge[i + 1, j]
          [] OTHER -> <<changes[j]>> \o merge[i, j + 1]
  IN merge[1, 1]
=============================================================================
