------------------------- MODULE MCRecordingQueue -------------------------
(***************************************************************************)
(* Instances of RecordingQueue for TLC.                                    *)
(***************************************************************************)
EXTENDS RecordingQueue, TLC

Symmetric == Permutations(Tabs)
=============================================================================
