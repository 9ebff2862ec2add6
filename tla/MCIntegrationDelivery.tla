------------------------ MODULE MCIntegrationDelivery ------------------------
(***************************************************************************)
(* Instances of IntegrationDelivery for TLC.  Workers, rows, events and    *)
(* recipients are interchangeable.                                         *)
(***************************************************************************)
EXTENDS IntegrationDelivery, TLC

Symmetric ==
  Permutations(Workers) \cup Permutations(Rows) \cup Permutations(Events)
    \cup Permutations(Recipients)
=============================================================================
