---------------------------- MODULE MCSearchIndex ----------------------------
(***************************************************************************)
(* Instances of SearchIndex for TLC.  Workers are interchangeable, and so  *)
(* are requests.                                                           *)
(***************************************************************************)
EXTENDS SearchIndex, TLC

Symmetric == Permutations(Workers) \cup Permutations(Editors)
=============================================================================
