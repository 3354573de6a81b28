----------------------------- MODULE BatchSize ------------------------------
(***************************************************************************)
(* How many transactions the history pipelines load at once: more when     *)
(* they met few events, fewer when they met too many.  Sizes are whole     *)
(* here: the code divides a BigDecimal and keeps the fraction, by which    *)
(* some batches end one version later.                                     *)
(***************************************************************************)
EXTENDS Naturals

CONSTANTS
  MinBatchSize, DefaultBatchSize, MaxBatchSize,
  IncreaseCoefficient, ReduceCoefficient,
  TargetEvents,       \* events to load into memory at once
  FewEvents           \* TargetEvents / TARGET_EVENTS_RATIO_DENOMINATOR

ASSUME BatchSizeAssumption ==
  /\ MinBatchSize \in Nat \ {0} /\ MaxBatchSize \in Nat
  /\ DefaultBatchSize \in MinBatchSize..MaxBatchSize
  /\ IncreaseCoefficient \in Nat \ {0} /\ ReduceCoefficient \in Nat \ {0}
  /\ TargetEvents \in Nat /\ FewEvents \in 0..TargetEvents

UpdateBatchSize(size, n) ==
  LET reduced == size \div ReduceCoefficient
      increased == size * IncreaseCoefficient
  IN IF n > TargetEvents /\ size > MinBatchSize
     THEN IF reduced > MinBatchSize THEN reduced ELSE MinBatchSize
     ELSE IF n < FewEvents /\ size < MaxBatchSize
     THEN IF increased < MaxBatchSize THEN increased ELSE MaxBatchSize
     ELSE size
=============================================================================
