--------------------------- MODULE MCBotFinalize ---------------------------
(***************************************************************************)
(* Instances of BotFinalize for TLC.  Runs are interchangeable.            *)
(***************************************************************************)
EXTENDS BotFinalize, TLC

Symmetric == Permutations(Runs)
=============================================================================
