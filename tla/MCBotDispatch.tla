---------------------------- MODULE MCBotDispatch ----------------------------
(***************************************************************************)
(* Instances of BotDispatch for TLC: one session, two sessions of one      *)
(* workspace for one meeting link, two sessions of two workspaces.         *)
(***************************************************************************)
EXTENDS BotDispatch

CONSTANTS s1, s2

OneSession == {s1}

TwoSessions == {s1, s2}

OneRefusal == {Change("failed", "vexa_misconfigured")}

OneLink == {"link"}

SameWorkspace == [s \in Sessions |-> "ws"]

TwoWorkspaces == [s \in Sessions |-> IF s = s1 THEN "ws1" ELSE "ws2"]

SameLink == [s \in Sessions |-> "link"]

=============================================================================
