----------------------------- MODULE BotDispatch -----------------------------
(***************************************************************************)
(* Sending a recording bot to a meeting (lib/bot/dispatch.ts), with        *)
(* everything that touches the same row while a dispatch job runs: the     *)
(* user's send and stop requests (service.ts), the calendar poll           *)
(* (calendar-sync.ts), the reconcile tick (reconcile.ts) and the reports   *)
(* of Vexa, the external service that runs the bots.                       *)
(*                                                                         *)
(* The unit of atomicity is one database round trip, one queue call or one *)
(* Vexa call.  A `dispatch` job reads the row and releases the lock at     *)
(* once, so every later step works on a row that may have moved on.        *)
(*                                                                         *)
(* Time is not modelled: a window that may have closed is a choice, except *)
(* that at SoftRev the join window is over, and a ten minute timeout only  *)
(* fires when no dispatch job of the session is queued or running (job     *)
(* retries take about a minute).                                           *)
(***************************************************************************)
EXTENDS BotTypes, FiniteSets

CONSTANTS
  Sessions,         \* ids of bot_sessions rows
  Bots, NoBot,      \* Vexa meeting ids, and "no id recorded"
  Targets,          \* meeting links (platform and native meeting id)
  WorkspaceOf, TargetOf,     \* the workspace and the meeting link of a session
  MaxConcurrent, MaxConcurrentPerWorkspace,  \* config.maxConcurrent...
  MaxTries,         \* attempts of a bot.dispatch job
  MaxStalls,        \* BullMQ: how often a job may lose its worker
  Actors,           \* which outside actors take part in this instance
  Refusals,         \* how Vexa may refuse a bot for good, of AllRefusals
  CancelReasons,    \* why the calendar may cancel, of AllCancelReasons
  SoftRev,          \* bound: no reschedule but reconcile's at this dispatch_rev
  MaxRev,           \* bound: the largest dispatch_rev
  MaxFaults         \* bound: crashes, lost enqueues, failed database calls

AllActors == {"join", "send", "stop", "calendar", "reconcile", "webhook"}

AllRefusals ==
  {Change("failed", "invalid_meeting_link"), Change("blocked", "bot_signed_out"),
   Change("failed", "vexa_misconfigured"), Change("failed", "vexa_unavailable")}

AllCancelReasons == {"rule_disabled", "event_cancelled", "missed_window"}

ASSUME DispatchAssumption ==
  /\ NoBot \notin Bots
  /\ TargetOf \in [Sessions -> Targets]
  /\ Actors \subseteq AllActors
  /\ Refusals \subseteq AllRefusals
  /\ CancelReasons \subseteq AllCancelReasons
  /\ MaxTries \in Nat \ {0} /\ MaxStalls \in Nat
  /\ MaxConcurrent \in Nat /\ MaxConcurrentPerWorkspace \in Nat
  /\ SoftRev \in Nat /\ MaxRev \in Nat /\ SoftRev <= MaxRev
  /\ MaxFaults \in Nat

Revs == 0..MaxRev

Origins == {"manual", "meeting_request", "calendar_rule"}

VARIABLES
  row,       \* the bot_sessions table
  job,       \* BullMQ: the job bot.dispatch:<session>:<rev>
  wk,        \* the program counter of the worker running that job
  act,       \* program counters of the other actors
  bots,      \* external: Vexa's bots
  faults

vars == <<row, job, wk, act, bots, faults>>

Row == [status : Statuses \cup {"absent"}, reason : Reasons, rev : Revs,
        tried : BOOLEAN, bot : Bots \cup {NoBot}, origin : Origins]

(* A job that returned is kept as finished; one that is out of attempts, or *)
(* lost one worker too many, as failed.                                     *)
Job ==
  [st : {"none", "finished"}, tries : {0}, stalls : {0}]
    \cup [st : {"waiting", "active"}, tries : 0..(MaxTries - 1), stalls : 0..MaxStalls]
    \cup [st : {"failed"}, tries : {MaxTries}, stalls : 0..MaxStalls]
    \cup [st : {"failed"}, tries : 0..(MaxTries - 1), stalls : {MaxStalls + 1}]

WorkerPcs == {"idle", "count", "mark", "tag", "post", "record", "check",
              "find", "adopt", "kick", "redelay", "enqueue", "end"}

Worker == [pc : WorkerPcs, bot : Bots \cup {NoBot},
           why : {"none", "retry", "conflict", "withdrawn"},
           end : [status : TerminalStatuses, reason : Reasons]]

ActorPcs == {"idle", "now", "bump", "remove", "schedule", "move", "cancel", "kick",
             "mark", "reopen", "resched", "fail", "drop"}

ActorNames == {"api", "stop", "calendar", "reconcile"}

Actor == [pc : ActorPcs, rev : Revs]

Bot == [target : Targets \cup {"none"},
        phase : {"unused", "joining", "lobby", "active", "completed"},
        admitted : BOOLEAN, told : BOOLEAN]

TypeOK ==
  /\ row \in [Sessions -> Row]
  /\ job \in [Sessions -> [Revs -> Job]]
  /\ wk \in [Sessions -> [Revs -> Worker]]
  /\ act \in [Sessions -> [ActorNames -> Actor]]
  /\ bots \in [Bots -> Bot]
  /\ faults \in 0..MaxFaults

Idle ==
  [pc |-> "idle", bot |-> NoBot, why |-> "none", end |-> Change("cancelled", "none")]

JobIs(st) == [st |-> st, tries |-> 0, stalls |-> 0]

Init ==
  /\ row = [s \in Sessions |->
              [status |-> "absent", reason |-> "none", rev |-> 0,
               tried |-> FALSE, bot |-> NoBot, origin |-> "manual"]]
  /\ job = [s \in Sessions |-> [r \in Revs |-> JobIs("none")]]
  /\ wk = [s \in Sessions |-> [r \in Revs |-> Idle]]
  /\ act = [s \in Sessions |-> [a \in ActorNames |-> [pc |-> "idle", rev |-> 0]]]
  /\ bots = [b \in Bots |-> [target |-> "none", phase |-> "unused",
                             admitted |-> FALSE, told |-> FALSE]]
  /\ faults = 0

-----------------------------------------------------------------------------
(* The store: reads and the rank-guarded transition.                        *)

Write(s, x) == row' = [row EXCEPT ![s] = x]

Live(s) == row[s].status \in LiveStatuses

Open(s) == row[s].status \in Statuses \ TerminalStatuses

Twins(s) == {o \in Sessions \ {s} : TargetOf[o] = TargetOf[s]}

(* uq_bot_sessions_ws_live_target: one live session per target in a         *)
(* workspace.                                                               *)
Conflicts(s, to) ==
  /\ to \in LiveStatuses
  /\ \E o \in Twins(s) : WorkspaceOf[o] = WorkspaceOf[s] /\ Live(o)

Applies(s, to) ==
  CanTransition(row[s].status, to) /\ ~Conflicts(s, to)

(* store.transition; a refused transition leaves the row's status alone.    *)
Transition(s, to, reason) ==
  IF Applies(s, to)
  THEN Write(s, [row[s] EXCEPT !.status = to, !.reason = reason])
  ELSE UNCHANGED row

AtCapacity(s) ==
  LET live == {o \in Sessions : Live(o)}
  IN  \/ Cardinality(live) >= MaxConcurrent
      \/ Cardinality({o \in live : WorkspaceOf[o] = WorkspaceOf[s]})
           >= MaxConcurrentPerWorkspace

Owners(b) == {s \in Sessions : row[s].bot = b}

OpenFor(target) == {s \in Sessions : TargetOf[s] = target /\ Open(s)}

OneWorkspace(S) == Cardinality({WorkspaceOf[s] : s \in S}) = 1

(* getForWebhook: the session that recorded the id, else the open session   *)
(* of the target unless two workspaces have one.  Creation times are not    *)
(* modelled: any open session of the workspace may be the newest.           *)
ForWebhook(b) ==
  LET open == OpenFor(bots[b].target)
  IN  IF Owners(b) # {}
      THEN IF Cardinality(Owners(b)) = 1 THEN Owners(b) ELSE {}
      ELSE IF OneWorkspace(open) THEN open ELSE {}

(* uq_bot_sessions_ws_vexa_meeting                                          *)
IdTaken(s, b) == \E o \in Owners(b) \ {s} : WorkspaceOf[o] = WorkspaceOf[s]

-----------------------------------------------------------------------------
(* The queue.  A job id is added once: adding it again while it exists, in  *)
(* whatever state, does nothing, and a running job cannot be removed.       *)

SetJob(s, r, j) == job' = [job EXCEPT ![s][r] = j]

Work(s, r, w) == wk' = [wk EXCEPT ![s][r] = w]

Added(jobs, s, r) ==
  IF jobs[s][r].st = "none"
  THEN [jobs EXCEPT ![s][r] = JobIs("waiting")]
  ELSE jobs

Removed(jobs, s, r) ==
  IF jobs[s][r].st \in {"waiting", "finished", "failed"}
  THEN [jobs EXCEPT ![s][r] = JobIs("none")]
  ELSE jobs

(* The handler returned, or threw an UnrecoverableError: the job is kept.   *)
Finish(s, r) ==
  /\ Work(s, r, Idle)
  /\ SetJob(s, r, JobIs("finished"))

(* The handler threw: the job is run again, at most MaxTries times.         *)
Throw(s, r) ==
  /\ Work(s, r, Idle)
  /\ SetJob(s, r, [job[s][r] EXCEPT
                     !.tries = @ + 1,
                     !.st = IF job[s][r].tries + 1 < MaxTries
                            THEN "waiting" ELSE "failed"])

Goto(s, r, pc) == Work(s, r, [Idle EXCEPT !.pc = pc])

GotoWith(s, r, pc, b) == Work(s, r, [wk[s][r] EXCEPT !.pc = pc, !.bot = b])

Seek(s, r, why) == Work(s, r, [Idle EXCEPT !.pc = "find", !.why = why])

EndAs(s, r, status, reason) ==
  Work(s, r, [Idle EXCEPT !.pc = "end", !.end = Change(status, reason)])

At(s, r, pc) == job[s][r].st = "active" /\ wk[s][r].pc = pc

RunningFor(target) ==
  {b \in Bots : /\ bots[b].target = target
                /\ bots[b].phase \in {"joining", "lobby", "active"}}

(* stopBot: the running bot of the target, if any, is asked to leave.       *)
TellToLeave(target) ==
  bots' = [b \in Bots |-> IF b \in RunningFor(target)
                          THEN [bots[b] EXCEPT !.told = TRUE] ELSE bots[b]]

-----------------------------------------------------------------------------
(* runDispatch, one step per round trip.                                    *)

(* Begin to run the job: its stored status decides the path.                *)
Take(s, r, next) ==
  /\ job[s][r].st = "waiting"
  /\ SetJob(s, r, [job[s][r] EXCEPT !.st = "active"])
  /\ row[s].rev = r
  /\ next
  /\ UNCHANGED <<row, act, bots, faults>>

TakeStale(s, r) ==
  /\ job[s][r].st = "waiting"
  /\ \/ row[s].rev # r
     \/ row[s].status \notin {"scheduled", "requested", "stopping"}
     \/ row[s].status = "requested" /\ row[s].bot # NoBot
     \/ row[s].status = "stopping" /\ ~row[s].tried
  /\ SetJob(s, r, JobIs("finished"))
  /\ UNCHANGED <<row, wk, act, bots, faults>>

TakeRetry(s, r) ==
  /\ row[s].status = "requested" /\ row[s].bot = NoBot
  /\ Take(s, r, Seek(s, r, "retry"))

TakeWithdrawn(s, r) ==
  /\ row[s].status = "stopping" /\ row[s].tried
  /\ Take(s, r, IF row[s].bot # NoBot THEN Goto(s, r, "kick")
                                      ELSE Seek(s, r, "withdrawn"))

TakeScheduled(s, r) ==
  /\ row[s].status = "scheduled"
  /\ \/ Take(s, r, Goto(s, r, "count"))
     \/ Take(s, r, EndAs(s, r, "cancelled", "missed_window"))

Count(s, r) ==
  /\ At(s, r, "count")
  /\ Goto(s, r, IF AtCapacity(s) THEN "redelay" ELSE "mark")
  /\ UNCHANGED <<row, job, act, bots, faults>>

MarkRequested(s, r) ==
  /\ At(s, r, "mark")
  /\ IF ~CanTransition(row[s].status, "requested")
     THEN Finish(s, r) /\ UNCHANGED row
     ELSE /\ UNCHANGED job
          /\ IF Conflicts(s, "requested")
             THEN EndAs(s, r, "blocked", "already_in_meeting") /\ UNCHANGED row
             ELSE Transition(s, "requested", "none") /\ Goto(s, r, "tag")
  /\ UNCHANGED <<act, bots, faults>>

CountAttempt(s, r) ==
  /\ At(s, r, "tag")
  /\ Write(s, [row[s] EXCEPT !.tried = TRUE])
  /\ Goto(s, r, "post")
  /\ UNCHANGED <<job, act, bots, faults>>

SetBot(b, x) == bots' = [bots EXCEPT ![b] = x]

(* requestBot.  Vexa runs one bot per target: it starts one, or answers 409 *)
(* when one is already running; the accepted answer may carry no id.        *)
Starts(s, b) ==
  /\ bots[b].phase = "unused"
  /\ RunningFor(TargetOf[s]) = {}
  /\ SetBot(b, [bots[b] EXCEPT !.phase = "joining", !.target = TargetOf[s]])

PostAccepted(s, r) ==
  /\ At(s, r, "post")
  /\ \E b \in Bots :
       /\ Starts(s, b)
       /\ GotoWith(s, r, "record", b) \/ Goto(s, r, "check")
  /\ UNCHANGED <<row, job, act, faults>>

PostConflict(s, r) ==
  /\ At(s, r, "post")
  /\ RunningFor(TargetOf[s]) # {}
  /\ Seek(s, r, "conflict")
  /\ UNCHANGED <<row, job, act, bots, faults>>

(* Vexa refused: at its own limit (re-delay), or for good.                  *)
PostRefused(s, r) ==
  /\ At(s, r, "post")
  /\ \/ Goto(s, r, "redelay")
     \/ \E end \in Refusals : EndAs(s, r, end.status, end.reason)
  /\ UNCHANGED <<row, job, act, bots, faults>>

(* No usable answer (timeout, network, 5xx: retried; an unreadable body:    *)
(* ended).  The bot may have been started all the same.                     *)
PostUnanswered(s, r) ==
  /\ At(s, r, "post")
  /\ \/ UNCHANGED bots
     \/ \E b \in Bots : Starts(s, b)
  /\ \/ Throw(s, r)
     \/ EndAs(s, r, "failed", "vexa_unavailable") /\ UNCHANGED job
  /\ UNCHANGED <<row, act, faults>>

(* Store the id of the bot; an id another session of the workspace recorded *)
(* first violates the unique index, which is thrown.                        *)
RecordId(s, r) ==
  /\ At(s, r, "record")
  /\ IF IdTaken(s, wk[s][r].bot)
     THEN Throw(s, r) /\ UNCHANGED row
     ELSE /\ Write(s, [row[s] EXCEPT !.bot = wk[s][r].bot])
          /\ Goto(s, r, "check")
          /\ UNCHANGED job
  /\ UNCHANGED <<act, bots, faults>>

(* stopIfWithdrawn: a stop or a cancel that landed meanwhile wins.          *)
CheckWithdrawn(s, r) ==
  /\ At(s, r, "check")
  /\ IF row[s].status \in {"stopping"} \cup TerminalStatuses
     THEN Goto(s, r, "kick") /\ UNCHANGED job
     ELSE Finish(s, r)
  /\ UNCHANGED <<row, act, bots, faults>>

(* stopTargetBot; finishWithdrawn goes on to end the session.               *)
Kick(s, r) ==
  /\ At(s, r, "kick")
  /\ \/ /\ TellToLeave(TargetOf[s])
        /\ IF wk[s][r].why = "withdrawn"
           THEN EndAs(s, r, "cancelled", "user_stopped") /\ UNCHANGED job
           ELSE Finish(s, r)
     \/ Throw(s, r) /\ UNCHANGED bots
  /\ UNCHANGED <<row, act, faults>>

(* No bot to adopt: what the caller of adopt() does then.                   *)
NotAdopted(s, r) ==
  CASE wk[s][r].why = "retry"     -> Goto(s, r, "post")
    [] wk[s][r].why = "conflict"  -> EndAs(s, r, "blocked", "already_in_meeting")
    [] OTHER                      -> EndAs(s, r, "cancelled", "user_stopped")

FindBot(s, r) ==
  /\ At(s, r, "find")
  /\ \/ /\ IF RunningFor(TargetOf[s]) = {}
           THEN NotAdopted(s, r)
           ELSE \E b \in RunningFor(TargetOf[s]) : GotoWith(s, r, "adopt", b)
        /\ UNCHANGED job
     \/ Throw(s, r)
  /\ UNCHANGED <<row, act, bots, faults>>

(* adopt(): refused when another session owns the bot, or when the open     *)
(* sessions of the target are not all of this workspace.                    *)
MayAdopt(s, b) ==
  /\ Cardinality(Owners(b)) = 1 => Owners(b) = {s}
  /\ LET open == OpenFor(TargetOf[s])
     IN  OneWorkspace(open) /\ \A o \in open : WorkspaceOf[o] = WorkspaceOf[s]

Adopt(s, r) ==
  /\ At(s, r, "adopt")
  /\ LET b == wk[s][r].bot
     IN  IF MayAdopt(s, b)
         THEN IF IdTaken(s, b)
              THEN Throw(s, r) /\ UNCHANGED row
              ELSE /\ Write(s, [row[s] EXCEPT !.bot = b])
                   /\ IF wk[s][r].why = "withdrawn"
                      THEN GotoWith(s, r, "kick", NoBot)
                      ELSE Goto(s, r, "check")
                   /\ UNCHANGED job
         ELSE NotAdopted(s, r) /\ UNCHANGED <<row, job>>
  /\ UNCHANGED <<act, bots, faults>>

(* redelay(): back to `scheduled` under the next rev, while the window      *)
(* lasts.  The write is guarded by the rev alone.                           *)
Redelay(s, r) ==
  /\ At(s, r, "redelay")
  /\ \/ EndAs(s, r, "failed", "capacity") /\ UNCHANGED <<row, job>>
     \/ /\ r < SoftRev
        /\ IF row[s].rev = r
           THEN /\ Write(s, [row[s] EXCEPT !.status = "scheduled",
                                           !.reason = "none", !.rev = r + 1])
                /\ Goto(s, r, "enqueue")
                /\ UNCHANGED job
           ELSE Finish(s, r) /\ UNCHANGED row
  /\ UNCHANGED <<act, bots, faults>>

EnqueueNext(s, r) ==
  /\ At(s, r, "enqueue")
  /\ r < MaxRev
  /\ Work(s, r, Idle)
  /\ job' = [Added(job, s, r + 1) EXCEPT ![s][r] = JobIs("finished")]
  /\ UNCHANGED <<row, act, bots, faults>>

(* terminate(), and the last step of finishWithdrawn.                       *)
EndSession(s, r) ==
  /\ At(s, r, "end")
  /\ Transition(s, wk[s][r].end.status, wk[s][r].end.reason)
  /\ Finish(s, r)
  /\ UNCHANGED <<act, bots, faults>>

(* The handler threw because the database or the queue failed: on the first *)
(* read, or at any later step that calls one of them.                       *)
StepFails(s, r) ==
  /\ \/ job[s][r].st = "waiting"
     \/ \E pc \in WorkerPcs \ {"idle"} : At(s, r, pc)
  /\ faults < MaxFaults
  /\ faults' = faults + 1
  /\ Throw(s, r)
  /\ UNCHANGED <<row, act, bots>>

(* External: the worker process dies.  BullMQ runs the stalled job again,   *)
(* and fails it when it stalls once more than it may.                       *)
WorkerCrash(s, r) ==
  /\ job[s][r].st = "active" /\ faults < MaxFaults
  /\ faults' = faults + 1
  /\ SetJob(s, r, [job[s][r] EXCEPT
                     !.stalls = @ + 1,
                     !.st = IF job[s][r].stalls < MaxStalls
                            THEN "waiting" ELSE "failed"])
  /\ Work(s, r, Idle)
  /\ UNCHANGED <<row, act, bots>>

DispatchStep(s, r) ==
  \/ TakeStale(s, r) \/ TakeRetry(s, r) \/ TakeWithdrawn(s, r)
  \/ TakeScheduled(s, r) \/ Count(s, r) \/ MarkRequested(s, r)
  \/ CountAttempt(s, r) \/ PostAccepted(s, r) \/ PostConflict(s, r)
  \/ PostRefused(s, r) \/ PostUnanswered(s, r) \/ RecordId(s, r)
  \/ CheckWithdrawn(s, r) \/ Kick(s, r) \/ FindBot(s, r) \/ Adopt(s, r)
  \/ Redelay(s, r) \/ EnqueueNext(s, r) \/ EndSession(s, r)

-----------------------------------------------------------------------------
(* The other actors.  Each has read the row when its pc leaves "idle" and   *)
(* writes in a later step.                                                  *)

Step(s, a, pc, rev) ==
  act' = [act EXCEPT ![s][a] = [pc |-> pc, rev |-> rev]]

Done(s, a) == Step(s, a, "idle", 0)

Doing(s, a, pc) == act[s][a].pc = pc

Idles(s, a) == Doing(s, a, "idle")

Created(s, origin) ==
  Write(s, [row[s] EXCEPT !.status = "scheduled", !.origin = origin])

(* store.update of the row the actor read, under the next rev: applied when *)
(* the rev has not changed, whatever became of the status.                  *)
Reschedule(s, a, updated, next) ==
  IF row[s].rev = act[s][a].rev /\ row[s].rev < MaxRev
  THEN /\ Write(s, [updated EXCEPT !.rev = row[s].rev + 1])
       /\ Step(s, a, next, act[s][a].rev + 1)
  ELSE Done(s, a) /\ UNCHANGED row

Reopened(s) ==
  [row[s] EXCEPT !.status = "scheduled", !.reason = "none"]

(* joinBotNow: no open session of the workspace for the link, and capacity. *)
(* The row is created some reads later; two requests that race make two     *)
(* scheduled sessions, as two of SendNew do.                                *)
JoinNow(s) ==
  /\ "join" \in Actors /\ row[s].status = "absent" /\ Idles(s, "api")
  /\ \A o \in Twins(s) : WorkspaceOf[o] = WorkspaceOf[s] => ~Open(o)
  /\ ~AtCapacity(s)
  /\ SoftRev > 0
  /\ Created(s, "manual")
  /\ Step(s, "api", "now", 0)
  /\ UNCHANGED <<job, wk, bots, faults>>

(* sendBotToMeeting creates the session: dispatched now, or at the start.   *)
SendNew(s) ==
  /\ "send" \in Actors /\ row[s].status = "absent" /\ Idles(s, "api")
  /\ Created(s, "meeting_request")
  /\ \/ SoftRev > 0 /\ Step(s, "api", "now", 0)
     \/ Step(s, "api", "schedule", 0)
  /\ UNCHANGED <<job, wk, bots, faults>>

(* sendBotToMeeting finds the opt-out of the meeting's calendar session.    *)
SendSeesOptOut(s) ==
  /\ "send" \in Actors /\ Idles(s, "api") /\ row[s].rev < SoftRev
  /\ row[s].status = "cancelled" /\ row[s].reason = "user_opt_out"
  /\ row[s].origin # "manual"
  /\ Step(s, "api", "reopen", row[s].rev)
  /\ UNCHANGED <<row, job, wk, bots, faults>>

SendReopens(s) ==
  /\ Doing(s, "api", "reopen")
  /\ \E next \in IF act[s]["api"].rev + 1 < SoftRev THEN {"schedule", "now"}
                                                  ELSE {"schedule"} :
       Reschedule(s, "api", [Reopened(s) EXCEPT !.origin = "meeting_request"], next)
  /\ UNCHANGED <<job, wk, bots, faults>>

(* dispatchNow, called by the api and by reconcile: read the row again,     *)
(* bump the rev that was read, then move the job to it.                     *)
ReadNow(s, a) ==
  /\ Doing(s, a, "now")
  /\ IF row[s].status = "scheduled" /\ row[s].rev < MaxRev
     THEN Step(s, a, "bump", row[s].rev)
     ELSE Done(s, a)
  /\ UNCHANGED <<row, job, wk, bots, faults>>

Bump(s, a) ==
  /\ Doing(s, a, "bump")
  /\ Reschedule(s, a, row[s], "move")
  /\ UNCHANGED <<job, wk, bots, faults>>

(* stopMeetingBot reads the open session of the meeting.                    *)
StopSees(s) ==
  /\ "stop" \in Actors /\ Idles(s, "stop") /\ Open(s)
  /\ Step(s, "stop",
          CASE row[s].status = "scheduled" -> "cancel"
            [] row[s].status = "requested" /\ row[s].bot = NoBot -> "mark"
            [] OTHER -> "kick",
          row[s].rev)
  /\ UNCHANGED <<row, job, wk, bots, faults>>

StopCancels(s) ==
  /\ Doing(s, "stop", "cancel")
  /\ Transition(s, "cancelled", "user_opt_out")
  /\ IF Applies(s, "cancelled")
     THEN Step(s, "stop", "remove", act[s]["stop"].rev)
     ELSE Done(s, "stop")
  /\ UNCHANGED <<job, wk, bots, faults>>

StopKicks(s) ==
  /\ Doing(s, "stop", "kick")
  /\ \/ TellToLeave(TargetOf[s]) /\ Step(s, "stop", "mark", act[s]["stop"].rev)
     \/ Done(s, "stop") /\ UNCHANGED bots
  /\ UNCHANGED <<row, job, wk, faults>>

StopMarks(s) ==
  /\ Doing(s, "stop", "mark")
  /\ Transition(s, "stopping", "user_stopped")
  /\ Done(s, "stop")
  /\ UNCHANGED <<job, wk, bots, faults>>

(* syncCalendarBotSession: a first poll of a joinable event.                *)
CalendarCreates(s) ==
  /\ "calendar" \in Actors /\ row[s].status = "absent" /\ Idles(s, "api")
  /\ Idles(s, "calendar")
  /\ Created(s, "calendar_rule")
  /\ Step(s, "calendar", "schedule", 0)
  /\ UNCHANGED <<job, wk, bots, faults>>

(* A later poll, or a cancelled event: only a session the rules made.       *)
CalendarSees(s) ==
  /\ "calendar" \in Actors /\ Idles(s, "calendar")
  /\ row[s].origin = "calendar_rule"
  /\ \/ row[s].status = "scheduled" /\ Step(s, "calendar", "cancel", row[s].rev)
     \/ /\ row[s].rev < SoftRev
        /\ \/ row[s].status = "scheduled" /\ Step(s, "calendar", "resched", row[s].rev)
           \/ /\ row[s].status = "cancelled"
              /\ row[s].reason \in {"rule_disabled", "event_cancelled"}
              /\ Step(s, "calendar", "reopen", row[s].rev)
  /\ UNCHANGED <<row, job, wk, bots, faults>>

CalendarCancels(s) ==
  /\ Doing(s, "calendar", "cancel")
  /\ \E reason \in CancelReasons : Transition(s, "cancelled", reason)
  /\ Step(s, "calendar", "remove", act[s]["calendar"].rev)
  /\ UNCHANGED <<job, wk, bots, faults>>

(* Mutant: the reopened session keeps its rev.                              *)
CalendarReopensSameRev(s) ==
  /\ Doing(s, "calendar", "reopen")
  /\ Write(s, Reopened(s))
  /\ Step(s, "calendar", "schedule", act[s]["calendar"].rev)
  /\ UNCHANGED <<job, wk, bots, faults>>

CalendarReopens(s) ==
  /\ Doing(s, "calendar", "reopen")
  /\ Reschedule(s, "calendar", Reopened(s), "schedule")
  /\ UNCHANGED <<job, wk, bots, faults>>

CalendarReschedules(s) ==
  /\ Doing(s, "calendar", "resched")
  /\ Reschedule(s, "calendar", row[s], "move")
  /\ UNCHANGED <<job, wk, bots, faults>>

(* The queue calls that end these requests: remove the old job, add the new *)
(* one, or both.                                                            *)
QueueStep(s, a) ==
  /\ LET r == act[s][a].rev
     IN  \/ Doing(s, a, "remove") /\ job' = Removed(job, s, r)
         \/ Doing(s, a, "schedule") /\ job' = Added(job, s, r)
         \/ /\ Doing(s, a, "move") /\ r > 0
            /\ job' = Added(Removed(job, s, r - 1), s, r)
  /\ Done(s, a)
  /\ UNCHANGED <<row, wk, bots, faults>>

(* The process dies, or Redis refuses, between the row and the queue.       *)
EnqueueLost(s, a) ==
  /\ act[s][a].pc \in {"schedule", "move"} /\ faults < MaxFaults
  /\ faults' = faults + 1
  /\ Done(s, a)
  /\ UNCHANGED <<row, job, wk, bots>>

(* Mutant: looks for the job of the first rev, whatever the rev is now.     *)
ReconcileDueByFirstJob(s) ==
  /\ "reconcile" \in Actors /\ Idles(s, "reconcile")
  /\ row[s].status = "scheduled" /\ row[s].rev < MaxRev
  /\ job[s][0].st = "none"
  /\ Step(s, "reconcile", "now", row[s].rev)
  /\ UNCHANGED <<row, job, wk, bots, faults>>

(* runBotReconcile (a): a due session whose job is gone is dispatched now.  *)
ReconcileDue(s) ==
  /\ "reconcile" \in Actors /\ Idles(s, "reconcile")
  /\ row[s].status = "scheduled" /\ row[s].rev < MaxRev
  /\ job[s][row[s].rev].st = "none"
  /\ Step(s, "reconcile", "now", row[s].rev)
  /\ UNCHANGED <<row, job, wk, bots, faults>>

Jobless(s) == \A r \in Revs : job[s][r].st \in {"none", "finished", "failed"}

(* Mutant: forgets the sessions that are being stopped.                     *)
ReconcileSeesUnstopped(s) ==
  /\ "reconcile" \in Actors /\ Idles(s, "reconcile")
  /\ row[s].bot = NoBot /\ Jobless(s)
  /\ row[s].status = "requested" /\ Step(s, "reconcile", "fail", row[s].rev)
  /\ UNCHANGED <<row, job, wk, bots, faults>>

(* runBotReconcile (b): no Vexa id after REQUESTED_WITHOUT_ID_MS.           *)
ReconcileSeesUnstarted(s) ==
  /\ "reconcile" \in Actors /\ Idles(s, "reconcile")
  /\ row[s].bot = NoBot /\ Jobless(s)
  /\ \/ row[s].status = "requested" /\ Step(s, "reconcile", "fail", row[s].rev)
     \/ row[s].status = "stopping" /\ Step(s, "reconcile", "drop", row[s].rev)
  /\ UNCHANGED <<row, job, wk, bots, faults>>

ReconcileEnds(s) ==
  /\ \/ Doing(s, "reconcile", "fail") /\ Transition(s, "failed", "vexa_unavailable")
     \/ Doing(s, "reconcile", "drop") /\ Transition(s, "cancelled", "user_stopped")
  /\ Done(s, "reconcile")
  /\ UNCHANGED <<job, wk, bots, faults>>

ReconcileStep(s) ==
  \/ ReconcileDue(s) \/ ReconcileSeesUnstarted(s) \/ ReconcileEnds(s)
  \/ ReadNow(s, "reconcile") \/ Bump(s, "reconcile")

RequestStep(s) ==
  \/ SendReopens(s) \/ ReadNow(s, "api") \/ Bump(s, "api")
  \/ StopCancels(s) \/ StopKicks(s) \/ StopMarks(s)
  \/ CalendarCancels(s) \/ CalendarReopens(s) \/ CalendarReschedules(s)

Environment(s) ==
  \/ JoinNow(s) \/ SendNew(s) \/ SendSeesOptOut(s) \/ StopSees(s)
  \/ CalendarCreates(s) \/ CalendarSees(s)

-----------------------------------------------------------------------------
(* External: Vexa.  A bot joins, may wait in the lobby, is admitted, and    *)
(* leaves; one that is told to leave leaves too.  Bots that fail are not    *)
(* modelled.                                                                *)

BotMoves(b) ==
  /\ \/ /\ bots[b].phase = "joining"
        /\ SetBot(b, [bots[b] EXCEPT !.phase = "lobby"])
     \/ /\ bots[b].phase \in {"joining", "lobby"}
        /\ SetBot(b, [bots[b] EXCEPT !.phase = "active", !.admitted = TRUE])
  /\ UNCHANGED <<row, job, wk, act, faults>>

BotLeaves(b) ==
  /\ bots[b].phase \in {"joining", "lobby", "active"}
  /\ SetBot(b, [bots[b] EXCEPT !.phase = "completed", !.told = FALSE])
  /\ UNCHANGED <<row, job, wk, act, faults>>

VexaStatus(b) ==
  IF bots[b].phase = "lobby" THEN "awaiting_admission" ELSE bots[b].phase

(* Mutant: the report is written whatever the order of the statuses.        *)
ReportUnordered(s, b) ==
  LET next == MapVexaStatus(VexaStatus(b), "none", "none", bots[b].admitted,
                            row[s].reason = "user_stopped")
  IN  /\ bots[b].phase # "unused" /\ ~Conflicts(s, next.status)
      /\ Write(s, [row[s] EXCEPT !.status = next.status, !.reason = next.reason])
      /\ UNCHANGED <<job, wk, act, bots, faults>>

(* applyVexaSnapshot, the reading of the row and the transition as one      *)
(* step.                                                                    *)
Report(s, b) ==
  LET next == MapVexaStatus(VexaStatus(b), "none", "none", bots[b].admitted,
                            row[s].reason = "user_stopped")
      to   == IF Applies(s, next.status) THEN next
              ELSE Change(row[s].status, row[s].reason)
  IN  /\ bots[b].phase # "unused"
      /\ Write(s, [row[s] EXCEPT
                     !.status = to.status, !.reason = to.reason,
                     !.bot = IF @ = NoBot /\ ~IdTaken(s, b) THEN b ELSE @])
      /\ UNCHANGED <<job, wk, act, bots, faults>>

Webhook(b) ==
  /\ "webhook" \in Actors /\ bots[b].phase # "unused"
  /\ \E s \in ForWebhook(b) : Report(s, b)

Poll(s) ==
  /\ "reconcile" \in Actors /\ Live(s)
  /\ \E b \in Bots : b = row[s].bot /\ Report(s, b)

-----------------------------------------------------------------------------
(* Every request has been served and nothing is left to run.                *)
Settled ==
  /\ \A s \in Sessions : row[s].status \in TerminalStatuses
  /\ UNCHANGED vars

Next ==
  \/ \E s \in Sessions :
       \/ \E r \in Revs : DispatchStep(s, r) \/ StepFails(s, r) \/ WorkerCrash(s, r)
       \/ \E a \in ActorNames : QueueStep(s, a) \/ EnqueueLost(s, a)
       \/ RequestStep(s) \/ ReconcileStep(s) \/ Environment(s) \/ Poll(s)
  \/ \E b \in Bots : BotMoves(b) \/ BotLeaves(b) \/ Webhook(b)
  \/ Settled

(* Workers take jobs and finish their steps; a request that has begun ends; *)
(* reconcile runs every MEETSUM_BOT_RECONCILE_SECONDS; a bot leaves at the  *)
(* end of its meeting (automaticLeave).  Users and webhooks owe nothing.    *)
Fairness ==
  /\ \A s \in Sessions :
       /\ \A r \in Revs : WF_vars(DispatchStep(s, r))
       /\ \A a \in ActorNames : WF_vars(QueueStep(s, a))
       /\ WF_vars(RequestStep(s))
       /\ WF_vars(ReconcileStep(s))
       /\ WF_vars(Poll(s))
  /\ \A b \in Bots : WF_vars(BotLeaves(b))

Spec == Init /\ [][Next]_vars /\ Fairness

-----------------------------------------------------------------------------
(* Properties                                                               *)

(* A workspace never has two live sessions for one meeting link, whichever  *)
(* of dispatch, stop, webhook or poll makes a session live.                 *)
OneLivePerTarget ==
  \A s \in Sessions : \A o \in Twins(s) :
    WorkspaceOf[o] = WorkspaceOf[s] => ~(Live(s) /\ Live(o))

(* The attempts and the workers a job has lost.                             *)
Lost(j) == j.tries + j.stalls

(* Faults alone used up the job.                                            *)
SpentByFaults(j) ==
  /\ j.tries = MaxTries \/ j.stalls > MaxStalls
  /\ Lost(j) <= faults

(* A scheduled session is not stranded: the job of its dispatch_rev has not *)
(* already returned, so either it will run, or it is gone and reconcile     *)
(* (which takes an existing job as a sign that all is well) replaces it.    *)
(* Only faults before the mark, in every attempt of that job or in one more *)
(* worker than it may lose, leave the session behind a failed job.          *)
NoStrandedSession ==
  \A s \in Sessions :
    LET j == job[s][row[s].rev]
    IN  row[s].status = "scheduled" =>
          /\ j.st # "finished"
          /\ j.st = "failed" => SpentByFaults(j)

(* A session goes back in the status order only to `scheduled`, and only    *)
(* under a new dispatch_rev, which makes its old jobs stale.                *)
BackOnlyUnderNewRev ==
  [][\A s \in Sessions :
       \/ row[s].status = "absent"
       \/ row'[s].status = row[s].status
       \/ CanTransition(row[s].status, row'[s].status)
       \/ row'[s].status = "scheduled" /\ row'[s].rev > row[s].rev]_vars

(* No session stays live for ever, even when every webhook is lost: its job *)
(* retries run out, its bot leaves, and reconcile notices.                  *)
LiveSessionEnds == \A s \in Sessions : Live(s) ~> ~Live(s)

(* A scheduled session is dispatched or ended, even when the enqueue of its *)
(* job was lost after the row was written.                                  *)
ScheduledIsDispatched ==
  \A s \in Sessions :
    row[s].status = "scheduled" ~> row[s].status # "scheduled"

(* dispatch.ts: a stale delayed job is a no-op.                             *)
StaleJobIsNoop ==
  [][\A s \in Sessions, r \in Revs :
       At(s, r, "mark") /\ wk'[s][r].pc = "tag" => row[s].rev = r]_vars

(* dispatch.ts: a user stop that landed while the bot was being requested   *)
(* wins.                                                                    *)
StopWins ==
  [][\A s \in Sessions :
       row[s].status = "stopping" =>
         row'[s].status \in {"stopping"} \cup TerminalStatuses]_vars

Quiet(s) == Jobless(s) /\ \A a \in ActorNames : Idles(s, a)

(* service.ts: the dispatcher stops whatever bot the POST starts.  Once no  *)
(* job or request of a stopped session is left, its bot was told to leave.  *)
StoppedBotIsTold ==
  \A s \in Sessions :
    row[s].status = "stopping" /\ row[s].reason = "user_stopped" /\ Quiet(s) =>
      \A b \in RunningFor(TargetOf[s]) : row[s].bot = b => bots[b].told

(* calendar-sync.ts: a live session keeps running when its event is         *)
(* cancelled.                                                               *)
LiveOneKeepsRunning ==
  [][\A s \in Sessions :
       Live(s) /\ CalendarCancels(s) => row'[s].status = row[s].status]_vars

(* types.ts: one live session per target across the whole instance.        *)
OneLivePerTargetAnywhere ==
  \A s \in Sessions : \A o \in Twins(s) : ~(Live(s) /\ Live(o))

(* The strengthening from which OneLivePerTarget and NoStrandedSession are  *)
(* proved.  Nothing about a session runs before its row exists; no job and  *)
(* no request is ahead of the row's rev; and while a session is scheduled   *)
(* the job of its rev has not got past the mark, and has lost no attempt    *)
(* and no worker but to faults.                                             *)
NothingBeforeCreation ==
  \A s \in Sessions :
    row[s].status = "absent" =>
      /\ row[s].bot = NoBot
      /\ \A r \in Revs : job[s][r].st = "none"
      /\ \A a \in ActorNames : Idles(s, a)

NothingAhead ==
  \A s \in Sessions :
    /\ \A r \in Revs : job[s][r].st # "none" => r <= row[s].rev
    /\ \A a \in ActorNames : act[s][a].rev <= row[s].rev
    /\ \A r \in Revs : wk[s][r].pc = "enqueue" => r < row[s].rev

WorkersHaveJobs ==
  \A s \in Sessions, r \in Revs :
    job[s][r].st = "active" <=> wk[s][r].pc # "idle"

UnmarkedWhileScheduled ==
  \A s \in Sessions, r \in Revs :
    row[s].status = "scheduled" /\ row[s].rev = r =>
      wk[s][r].pc \in {"idle", "count", "mark", "redelay", "end"}

NoReturnedJob ==
  \A s \in Sessions :
    row[s].status = "scheduled" => job[s][row[s].rev].st # "finished"

DispatchInv ==
  /\ TypeOK
  /\ NothingBeforeCreation
  /\ NothingAhead
  /\ WorkersHaveJobs
  /\ UnmarkedWhileScheduled
  /\ NoReturnedJob

AttemptsAreFaults ==
  \A s \in Sessions :
    row[s].status = "scheduled" => Lost(job[s][row[s].rev]) <= faults
=============================================================================
