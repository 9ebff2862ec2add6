-------------------------- MODULE MCTranscriptEdits --------------------------
(***************************************************************************)
(* Instances of TranscriptEdits for TLC: two segments that are one turn at *)
(* first, the second a filler.                                             *)
(***************************************************************************)
EXTENDS TranscriptEdits, TLC

TwoSegments == 1..2

Symmetric == Permutations(Clients)
=============================================================================
