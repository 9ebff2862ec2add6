------------------------------- MODULE BotTypes -------------------------------
(***************************************************************************)
(* The vocabulary of the meeting bot (lib/bot/types.ts) and its pure       *)
(* decisions: the status order the store enforces, how a Vexa report is    *)
(* mapped to a session status, and which follow-up jobs a status asks for. *)
(* Nothing here has state; the state machines of the bot extend it.        *)
(***************************************************************************)
EXTENDS Naturals

LobbyStatuses == {"awaiting_admission", "needs_help"}

LiveStatuses ==
  {"requested", "joining", "active", "stopping"} \cup LobbyStatuses

TerminalStatuses == {"completed", "failed", "blocked", "cancelled"}

Statuses == {"scheduled"} \cup LiveStatuses \cup TerminalStatuses

Rank(status) ==
  CASE status = "scheduled"         -> 0
    [] status = "requested"         -> 1
    [] status = "joining"           -> 2
    [] status \in LobbyStatuses     -> 3
    [] status = "active"            -> 4
    [] status = "stopping"          -> 5
    [] status \in TerminalStatuses  -> 6

Reasons ==
  {"none", "user_stopped", "user_opt_out", "event_cancelled", "event_moved",
   "rule_disabled", "missed_window", "capacity", "already_in_meeting",
   "invalid_meeting_link", "vexa_unavailable", "vexa_misconfigured",
   "not_admitted", "removed_by_host", "platform_blocked", "bot_signed_out",
   "left_alone", "no_recording", "stale", "meeting_deleted", "unknown"}

(* canTransitionBotStatus: a terminal status is left by nothing, the two    *)
(* lobby statuses may swap, everything else needs a higher rank.            *)
CanTransition(from, to) ==
  /\ from \notin TerminalStatuses
  /\ \/ from \in LobbyStatuses /\ to \in LobbyStatuses /\ from # to
     \/ Rank(to) > Rank(from)

-----------------------------------------------------------------------------
(* What Vexa reports of a meeting: its status, the class of its free-text   *)
(* reason (the regular expressions of lifecycle.ts tell these apart) and    *)
(* the bot outcome in its provenance.                                       *)
VexaReasons ==
  {"none", "evicted", "not_admitted", "left_alone", "zoom_requires_rtms",
   "auth_session_missing", "other"}

VexaOutcomes == {"none", "evicted", "never_admitted"}

Change(status, reason) == [status |-> status, reason |-> reason]

Ignored == Change("ignored", "none")

MapCompleted(reason, outcome, wasActive, stoppedByUser) ==
  CASE reason = "evicted" \/ outcome = "evicted" ->
         Change(IF wasActive THEN "completed" ELSE "blocked", "removed_by_host")
    [] OTHER ->
         IF ~wasActive /\ stoppedByUser THEN Change("cancelled", "user_stopped")
         ELSE IF ~wasActive \/ outcome = "never_admitted"
              THEN Change("blocked", "not_admitted")
         ELSE Change("completed",
                     IF reason = "left_alone" THEN "left_alone" ELSE "none")

MapFailed(reason, outcome) ==
  CASE reason = "zoom_requires_rtms"   -> Change("blocked", "platform_blocked")
    [] reason = "auth_session_missing" -> Change("blocked", "bot_signed_out")
    [] OTHER -> IF reason = "not_admitted" \/ outcome = "never_admitted"
                THEN Change("blocked", "not_admitted")
                ELSE Change("failed", "unknown")

MapVexaStatus(status, reason, outcome, wasActive, stoppedByUser) ==
  CASE status \in LiveStatuses -> Change(status, "none")
    [] status = "completed"    -> MapCompleted(reason, outcome, wasActive, stoppedByUser)
    [] status = "failed"       -> MapFailed(reason, outcome)
    [] OTHER                   -> Ignored
=============================================================================
