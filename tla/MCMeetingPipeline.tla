-------------------------- MODULE MCMeetingPipeline --------------------------
(* Instances of MeetingPipeline for TLC. *)
EXTENDS MeetingPipeline, TLC

Symmetry == Permutations(Jobs) \cup Permutations(Titles)
=============================================================================
