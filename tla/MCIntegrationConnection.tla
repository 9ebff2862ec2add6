----------------------- MODULE MCIntegrationConnection -----------------------
(***************************************************************************)
(* Instances of IntegrationConnection for TLC.  Callers are                *)
(* interchangeable.                                                        *)
(***************************************************************************)
EXTENDS IntegrationConnection, TLC

Symmetric == Permutations(Callers)
=============================================================================
