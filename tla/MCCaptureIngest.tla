-------------------------- MODULE MCCaptureIngest --------------------------
(***************************************************************************)
(* Instances of CaptureIngest for TLC.  Requests are interchangeable.      *)
(***************************************************************************)
EXTENDS CaptureIngest, TLC

Symmetric == Permutations(Requests)
=============================================================================
