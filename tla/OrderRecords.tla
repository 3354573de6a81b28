---------------------------- MODULE OrderRecords ----------------------------
(***************************************************************************)
(* What a table of orders promises its readers: at any time it shows all   *)
(* orders as they were after one transaction, never a mixture of versions  *)
(* and never half a transaction; and it only moves forward.                *)
(***************************************************************************)
EXTENDS Naturals

VARIABLES
  ledger,     \* orders after each version of the chain
  indexed,    \* last version the database holds the events of
  records,    \* the table
  through     \* the version it shows

Init == records = ledger[0].orders /\ through = 0

Advance ==
  \E v \in (through + 1)..indexed :
    /\ through' = v
    /\ records' = ledger[v].orders

Spec == Init /\ [][Advance]_<<records, through>>
=============================================================================
