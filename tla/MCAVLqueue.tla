----------------------------- MODULE MCAVLqueue -----------------------------
(***************************************************************************)
(* Instances of the AVL queue for TLC.                                     *)
(***************************************************************************)
EXTENDS AVLqueueSpec

ThreeKeys == 1..3
=============================================================================
