-------------------------- MODULE BotDispatch_proofs --------------------------
(***************************************************************************)
(* What BotDispatch guarantees for every set of sessions, bots, bounds and *)
(* actors.  Liveness stays with TLC.                                       *)
(***************************************************************************)
EXTENDS BotDispatch, TLAPS

(* The rank guard never leads to `scheduled` and never leaves a terminal    *)
(* status.                                                                  *)
LEMMA RankGuard ==
  ASSUME NEW from \in Statuses, NEW to \in Statuses, CanTransition(from, to)
  PROVE  to # "scheduled" /\ from \notin TerminalStatuses
BY DEF CanTransition, Rank, Statuses, LiveStatuses, LobbyStatuses, TerminalStatuses

(* Whatever Vexa reports of a bot it runs maps to a status other than       *)
(* `scheduled`.                                                             *)
LEMMA ReportedStatus ==
  ASSUME TypeOK, NEW b \in Bots, bots[b].phase # "unused", NEW stopped \in BOOLEAN
  PROVE  LET next == MapVexaStatus(VexaStatus(b), "none", "none",
                                   bots[b].admitted, stopped)
         IN  /\ next.status \in Statuses \ {"scheduled"}
             /\ next.reason \in Reasons
<1>1. bots[b].phase \in {"joining", "lobby", "active", "completed"}
  BY DEF TypeOK, Bot
<1>2. VexaStatus(b) \in {"joining", "awaiting_admission", "active", "completed"}
  BY <1>1 DEF VexaStatus
<1>. QED
  BY <1>2, SMTT(30) DEF MapVexaStatus, MapCompleted, MapFailed, Change, Statuses, LiveStatuses,
                    LobbyStatuses, TerminalStatuses, Reasons

-----------------------------------------------------------------------------
(* Type correctness.                                                        *)

LEMMA TypeInit == Init => TypeOK
BY DispatchAssumption DEF Init, TypeOK, Row, Job, JobIs, Worker, Actor, Bot, Idle, Change,
   TerminalStatuses, Revs, Reasons, Origins, WorkerPcs, ActorPcs, ActorNames

(* Each table keeps its type when one entry is replaced by a typed one, and *)
(* the other entries are left alone.                                        *)
LEMMA WriteEffect ==
  ASSUME TypeOK, NEW s \in Sessions, NEW x \in Row, Write(s, x)
  PROVE  /\ row' \in [Sessions -> Row] /\ row'[s] = x
         /\ \A o \in Sessions \ {s} : row'[o] = row[o]
BY DEF TypeOK, Write

LEMMA WorkEffect ==
  ASSUME TypeOK, NEW s \in Sessions, NEW r \in Revs, NEW w \in Worker, Work(s, r, w)
  PROVE  /\ wk' \in [Sessions -> [Revs -> Worker]] /\ wk'[s][r] = w
         /\ \A o \in Sessions, q \in Revs :
              o # s \/ q # r => wk'[o][q] = wk[o][q]
BY DEF TypeOK, Work

LEMMA SetJobEffect ==
  ASSUME TypeOK, NEW s \in Sessions, NEW r \in Revs, NEW j \in Job, SetJob(s, r, j)
  PROVE  /\ job' \in [Sessions -> [Revs -> Job]] /\ job'[s][r] = j
         /\ \A o \in Sessions, q \in Revs :
              o # s \/ q # r => job'[o][q] = job[o][q]
BY DEF TypeOK, SetJob

LEMMA StepEffect ==
  ASSUME TypeOK, NEW s \in Sessions, NEW a \in ActorNames, NEW pc \in ActorPcs,
         NEW rev \in Revs, Step(s, a, pc, rev)
  PROVE  /\ act' \in [Sessions -> [ActorNames -> Actor]]
         /\ act'[s][a] = [pc |-> pc, rev |-> rev]
         /\ \A o \in Sessions, c \in ActorNames :
              o # s \/ c # a => act'[o][c] = act[o][c]
<1>1. [pc |-> pc, rev |-> rev] \in Actor
  BY DEF Actor
<1>. QED
  BY <1>1 DEF TypeOK, Step

LEMMA JobValues ==
  \A st \in {"none", "waiting", "finished"} :
    JobIs(st) \in Job /\ JobIs(st).st = st /\ Lost(JobIs(st)) = 0
BY DispatchAssumption DEF JobIs, Job, Lost

LEMMA JobFields ==
  \A j \in Job :
    /\ j.st \in {"none", "waiting", "active", "finished", "failed"}
    /\ j.tries \in Nat /\ j.stalls \in Nat /\ Lost(j) \in Nat
    /\ j.st \in {"none", "finished"} => Lost(j) = 0
    /\ j.st = "failed" => j.tries = MaxTries \/ j.stalls > MaxStalls
BY DispatchAssumption DEF Job, Lost

LEMMA TakenJob ==
  \A j \in Job :
    j.st = "waiting" =>
      LET taken == [j EXCEPT !.st = "active"]
      IN  taken \in Job /\ taken.st = "active" /\ Lost(taken) = Lost(j)
BY DispatchAssumption DEF Job, Lost

(* A job that loses an attempt, or its worker.                              *)
LEMMA LostJob ==
  ASSUME NEW j \in Job, j.st \in {"waiting", "active"}, NEW k,
         \/ k = [j EXCEPT !.tries = @ + 1,
                          !.st = IF j.tries + 1 < MaxTries THEN "waiting" ELSE "failed"]
         \/ k = [j EXCEPT !.stalls = @ + 1,
                          !.st = IF j.stalls < MaxStalls THEN "waiting" ELSE "failed"]
  PROVE  k \in Job /\ k.st \in {"waiting", "failed"} /\ Lost(k) = Lost(j) + 1
<1>. USE DispatchAssumption
<1>1. /\ j.tries \in 0..(MaxTries - 1) /\ j.stalls \in 0..MaxStalls
      /\ j = [st |-> j.st, tries |-> j.tries, stalls |-> j.stalls]
  BY DEF Job
<1>2. CASE k = [j EXCEPT !.tries = @ + 1,
                         !.st = IF j.tries + 1 < MaxTries THEN "waiting" ELSE "failed"]
  <2>1. /\ k.tries = j.tries + 1 /\ k.stalls = j.stalls
        /\ k = [st |-> k.st, tries |-> k.tries, stalls |-> k.stalls]
        /\ k.st = IF j.tries + 1 < MaxTries THEN "waiting" ELSE "failed"
    BY <1>1, <1>2
  <2>2. CASE j.tries + 1 < MaxTries
    BY <1>1, <2>1, <2>2 DEF Job, Lost
  <2>3. CASE ~(j.tries + 1 < MaxTries)
    BY <1>1, <2>1, <2>3 DEF Job, Lost
  <2>. QED
    BY <2>2, <2>3
<1>3. CASE k = [j EXCEPT !.stalls = @ + 1,
                         !.st = IF j.stalls < MaxStalls THEN "waiting" ELSE "failed"]
  <2>1. /\ k.tries = j.tries /\ k.stalls = j.stalls + 1
        /\ k = [st |-> k.st, tries |-> k.tries, stalls |-> k.stalls]
        /\ k.st = IF j.stalls < MaxStalls THEN "waiting" ELSE "failed"
    BY <1>1, <1>3
  <2>2. CASE j.stalls < MaxStalls
    BY <1>1, <2>1, <2>2 DEF Job, Lost
  <2>3. CASE ~(j.stalls < MaxStalls)
    BY <1>1, <2>1, <2>3 DEF Job, Lost
  <2>. QED
    BY <2>2, <2>3
<1>. QED
  BY <1>2, <1>3

LEMMA WorkerValues ==
  /\ Idle \in Worker /\ Idle.pc = "idle"
  /\ \A pc \in WorkerPcs : [Idle EXCEPT !.pc = pc] \in Worker
  /\ \A why \in {"retry", "conflict", "withdrawn"} :
       [Idle EXCEPT !.pc = "find", !.why = why] \in Worker
  /\ \A status \in TerminalStatuses, reason \in Reasons :
       [Idle EXCEPT !.pc = "end", !.end = Change(status, reason)] \in Worker
  /\ \A w \in Worker, pc \in WorkerPcs, bot \in Bots \cup {NoBot} :
       [w EXCEPT !.pc = pc, !.bot = bot] \in Worker
<1>1. Idle \in Worker /\ Idle.pc = "idle"
  BY DEF Idle, Change, Worker, WorkerPcs, Reasons, TerminalStatuses
<1>2. ASSUME NEW pc \in WorkerPcs PROVE [Idle EXCEPT !.pc = pc] \in Worker
  BY <1>1 DEF Worker
<1>3. ASSUME NEW why \in {"retry", "conflict", "withdrawn"}
      PROVE  [Idle EXCEPT !.pc = "find", !.why = why] \in Worker
  BY <1>1 DEF Worker, WorkerPcs
<1>4. ASSUME NEW status \in TerminalStatuses, NEW reason \in Reasons
      PROVE  [Idle EXCEPT !.pc = "end", !.end = Change(status, reason)] \in Worker
  BY <1>1 DEF Worker, WorkerPcs, Change
<1>5. ASSUME NEW w \in Worker, NEW pc \in WorkerPcs, NEW bot \in Bots \cup {NoBot}
      PROVE  [w EXCEPT !.pc = pc, !.bot = bot] \in Worker
  BY DEF Worker
<1>. QED
  BY <1>1, <1>2, <1>3, <1>4, <1>5

(* The ways a worker moves on: what its pc is then, and what becomes of its *)
(* job.                                                                     *)
LEMMA WorkerMoves ==
  ASSUME TypeOK, NEW s \in Sessions, NEW r \in Revs
  PROVE  /\ \A pc \in WorkerPcs : Goto(s, r, pc) =>
              /\ wk' \in [Sessions -> [Revs -> Worker]] /\ wk'[s][r].pc = pc
              /\ \A o \in Sessions, q \in Revs : o # s \/ q # r => wk'[o][q] = wk[o][q]
         /\ \A pc \in WorkerPcs, bot \in Bots \cup {NoBot} : GotoWith(s, r, pc, bot) =>
              /\ wk' \in [Sessions -> [Revs -> Worker]] /\ wk'[s][r].pc = pc
              /\ \A o \in Sessions, q \in Revs : o # s \/ q # r => wk'[o][q] = wk[o][q]
         /\ \A why \in {"retry", "conflict", "withdrawn"} : Seek(s, r, why) =>
              /\ wk' \in [Sessions -> [Revs -> Worker]] /\ wk'[s][r].pc = "find"
              /\ \A o \in Sessions, q \in Revs : o # s \/ q # r => wk'[o][q] = wk[o][q]
         /\ \A status \in TerminalStatuses, reason \in Reasons :
              EndAs(s, r, status, reason) =>
              /\ wk' \in [Sessions -> [Revs -> Worker]] /\ wk'[s][r].pc = "end"
              /\ \A o \in Sessions, q \in Revs : o # s \/ q # r => wk'[o][q] = wk[o][q]
<1>1. wk[s][r] \in Worker
  BY DEF TypeOK
<1>2. ASSUME NEW pc \in WorkerPcs, Goto(s, r, pc)
      PROVE  /\ wk' \in [Sessions -> [Revs -> Worker]] /\ wk'[s][r].pc = pc
             /\ \A o \in Sessions, q \in Revs : o # s \/ q # r => wk'[o][q] = wk[o][q]
  <2>1. [Idle EXCEPT !.pc = pc] \in Worker /\ [Idle EXCEPT !.pc = pc].pc = pc
    BY WorkerValues DEF Idle
  <2>. QED
    BY <1>2, <2>1, WorkEffect, ZenonT(60) DEF Goto
<1>3. ASSUME NEW pc \in WorkerPcs, NEW bot \in Bots \cup {NoBot}, GotoWith(s, r, pc, bot)
      PROVE  /\ wk' \in [Sessions -> [Revs -> Worker]] /\ wk'[s][r].pc = pc
             /\ \A o \in Sessions, q \in Revs : o # s \/ q # r => wk'[o][q] = wk[o][q]
  <2>1. [wk[s][r] EXCEPT !.pc = pc, !.bot = bot] \in Worker
    BY <1>1, WorkerValues
  <2>2. [wk[s][r] EXCEPT !.pc = pc, !.bot = bot].pc = pc
    BY <1>1 DEF Worker
  <2>3. /\ wk' \in [Sessions -> [Revs -> Worker]]
        /\ wk'[s][r] = [wk[s][r] EXCEPT !.pc = pc, !.bot = bot]
        /\ \A o \in Sessions, q \in Revs : o # s \/ q # r => wk'[o][q] = wk[o][q]
    <3>. DEFINE w == [wk[s][r] EXCEPT !.pc = pc, !.bot = bot]
    <3>. w \in Worker /\ Work(s, r, w)
      BY <1>3, <2>1 DEF GotoWith
    <3>. HIDE DEF w
    <3>. wk'[s][r] = w
      BY WorkEffect
    <3>. QED
      BY WorkEffect DEF w
  <2>. QED
    BY <2>2, <2>3
<1>4. ASSUME NEW why \in {"retry", "conflict", "withdrawn"}, Seek(s, r, why)
      PROVE  /\ wk' \in [Sessions -> [Revs -> Worker]] /\ wk'[s][r].pc = "find"
             /\ \A o \in Sessions, q \in Revs : o # s \/ q # r => wk'[o][q] = wk[o][q]
  <2>1. [Idle EXCEPT !.pc = "find", !.why = why] \in Worker
    BY WorkerValues
  <2>2. [Idle EXCEPT !.pc = "find", !.why = why].pc = "find"
    BY DEF Idle
  <2>3. /\ wk' \in [Sessions -> [Revs -> Worker]]
        /\ wk'[s][r] = [Idle EXCEPT !.pc = "find", !.why = why]
        /\ \A o \in Sessions, q \in Revs : o # s \/ q # r => wk'[o][q] = wk[o][q]
    <3>. DEFINE w == [Idle EXCEPT !.pc = "find", !.why = why]
    <3>. w \in Worker /\ Work(s, r, w)
      BY <1>4, <2>1 DEF Seek
    <3>. HIDE DEF w
    <3>. wk'[s][r] = w
      BY WorkEffect
    <3>. QED
      BY WorkEffect DEF w
  <2>. QED
    BY <2>2, <2>3
<1>5. ASSUME NEW status \in TerminalStatuses, NEW reason \in Reasons,
             EndAs(s, r, status, reason)
      PROVE  /\ wk' \in [Sessions -> [Revs -> Worker]] /\ wk'[s][r].pc = "end"
             /\ \A o \in Sessions, q \in Revs : o # s \/ q # r => wk'[o][q] = wk[o][q]
  <2>1. [Idle EXCEPT !.pc = "end", !.end = Change(status, reason)] \in Worker
    BY WorkerValues
  <2>2. [Idle EXCEPT !.pc = "end", !.end = Change(status, reason)].pc = "end"
    BY DEF Idle
  <2>3. /\ wk' \in [Sessions -> [Revs -> Worker]]
        /\ wk'[s][r] = [Idle EXCEPT !.pc = "end", !.end = Change(status, reason)]
        /\ \A o \in Sessions, q \in Revs : o # s \/ q # r => wk'[o][q] = wk[o][q]
    <3>. DEFINE w == [Idle EXCEPT !.pc = "end", !.end = Change(status, reason)]
    <3>. w \in Worker /\ Work(s, r, w)
      BY <1>5, <2>1 DEF EndAs
    <3>. HIDE DEF w
    <3>. wk'[s][r] = w
      BY WorkEffect
    <3>. QED
      BY WorkEffect DEF w
  <2>. QED
    BY <2>2, <2>3
<1>. QED
  BY <1>2, <1>3, <1>4, <1>5

LEMMA Throws ==
  ASSUME TypeOK, NEW s \in Sessions, NEW r \in Revs,
         job[s][r].st \in {"waiting", "active"}, Throw(s, r)
  PROVE  /\ Work(s, r, Idle)
         /\ \E j \in Job : /\ j.st \in {"waiting", "failed"} /\ SetJob(s, r, j)
                          /\ Lost(j) = Lost(job[s][r]) + 1
<1>. DEFINE k == [job[s][r] EXCEPT !.tries = @ + 1,
                                   !.st = IF job[s][r].tries + 1 < MaxTries
                                          THEN "waiting" ELSE "failed"]
<1>1. job[s][r] \in Job
  BY DEF TypeOK
<1>2. k \in Job /\ k.st \in {"waiting", "failed"} /\ Lost(k) = Lost(job[s][r]) + 1
  BY <1>1, LostJob
<1>3. Work(s, r, Idle) /\ SetJob(s, r, k)
  BY DEF Throw
<1>. HIDE DEF k
<1>. QED
  BY <1>2, <1>3

LEMMA WorkerStops ==
  ASSUME TypeOK, NEW s \in Sessions, NEW r \in Revs,
         job[s][r].st \in {"waiting", "active"}, Finish(s, r) \/ Throw(s, r)
  PROVE  /\ wk' \in [Sessions -> [Revs -> Worker]] /\ wk'[s][r].pc = "idle"
         /\ \A o \in Sessions, q \in Revs : o # s \/ q # r => wk'[o][q] = wk[o][q]
         /\ job' \in [Sessions -> [Revs -> Job]]
         /\ job'[s][r].st \in {"waiting", "finished", "failed"}
         /\ \A o \in Sessions, q \in Revs : o # s \/ q # r => job'[o][q] = job[o][q]
<1>1. PICK j \in Job : j.st \in {"waiting", "finished", "failed"} /\ SetJob(s, r, j)
  BY Throws, JobValues DEF Finish
<1>2. Work(s, r, Idle)
  BY Throws DEF Finish
<1>3. /\ wk' \in [Sessions -> [Revs -> Worker]] /\ wk'[s][r] = Idle
      /\ \A o \in Sessions, q \in Revs : o # s \/ q # r => wk'[o][q] = wk[o][q]
  BY <1>2, WorkEffect, WorkerValues
<1>4. /\ job' \in [Sessions -> [Revs -> Job]] /\ job'[s][r] = j
      /\ \A o \in Sessions, q \in Revs : o # s \/ q # r => job'[o][q] = job[o][q]
  BY <1>1, SetJobEffect
<1>. QED
  BY <1>1, <1>3, <1>4, WorkerValues

LEMMA RowValues ==
  ASSUME NEW x \in Row
  PROVE  /\ \A status \in Statuses, reason \in Reasons :
              [x EXCEPT !.status = status, !.reason = reason] \in Row
         /\ \A status \in Statuses, reason \in Reasons, rev \in Revs :
              [x EXCEPT !.status = status, !.reason = reason, !.rev = rev] \in Row
         /\ \A status \in Statuses, origin \in Origins :
              [x EXCEPT !.status = status, !.origin = origin] \in Row
         /\ \A bot \in Bots \cup {NoBot} : [x EXCEPT !.bot = bot] \in Row
         /\ \A rev \in Revs : [x EXCEPT !.rev = rev] \in Row
         /\ [x EXCEPT !.tried = TRUE] \in Row
<1>1. ASSUME NEW status \in Statuses, NEW reason \in Reasons
      PROVE  [x EXCEPT !.status = status, !.reason = reason] \in Row
  BY DEF Row
<1>2. ASSUME NEW status \in Statuses, NEW reason \in Reasons, NEW rev \in Revs
      PROVE  [x EXCEPT !.status = status, !.reason = reason, !.rev = rev] \in Row
  BY DEF Row
<1>3. ASSUME NEW status \in Statuses, NEW origin \in Origins
      PROVE  [x EXCEPT !.status = status, !.origin = origin] \in Row
  BY DEF Row
<1>4. ASSUME NEW bot \in Bots \cup {NoBot} PROVE [x EXCEPT !.bot = bot] \in Row
  BY DEF Row
<1>5. ASSUME NEW rev \in Revs PROVE [x EXCEPT !.rev = rev] \in Row
  BY DEF Row
<1>6. [x EXCEPT !.tried = TRUE] \in Row
  BY DEF Row
<1>. QED
  BY <1>1, <1>2, <1>3, <1>4, <1>5, <1>6

(* A transition that applies writes the status and the reason, any other    *)
(* leaves the table alone.                                                  *)
LEMMA TransitionEffect ==
  ASSUME TypeOK, NEW s \in Sessions, NEW to \in Statuses, NEW reason \in Reasons,
         Transition(s, to, reason)
  PROVE  /\ row' \in [Sessions -> Row]
         /\ \A o \in Sessions \ {s} : row'[o] = row[o]
         /\ row'[s].rev = row[s].rev /\ row'[s].bot = row[s].bot
         /\ row'[s].origin = row[s].origin
         /\ IF Applies(s, to) THEN row'[s].status = to ELSE row'[s] = row[s]
<1>1. row[s] \in Row
  BY DEF TypeOK
<1>. DEFINE x == [row[s] EXCEPT !.status = to, !.reason = reason]
<1>2. x \in Row
  BY <1>1, RowValues
<1>3. /\ x.rev = row[s].rev /\ x.bot = row[s].bot /\ x.origin = row[s].origin
      /\ x.status = to
  BY <1>1 DEF Row
<1>4. CASE Applies(s, to)
  <2>1. Write(s, x)
    BY <1>4 DEF Transition
  <2>. HIDE DEF x
  <2>2. row' \in [Sessions -> Row] /\ row'[s] = x /\ \A o \in Sessions \ {s} : row'[o] = row[o]
    BY <1>2, <2>1, WriteEffect
  <2>. QED
    BY <1>3, <1>4, <2>2
<1>5. CASE ~Applies(s, to)
  BY <1>5 DEF Transition, TypeOK
<1>. QED
  BY <1>4, <1>5

LEMMA BotEffect ==
  ASSUME TypeOK, NEW s \in Sessions
  PROVE  /\ TellToLeave(TargetOf[s]) => bots' \in [Bots -> Bot]
         /\ \A b \in Bots : Starts(s, b) => bots' \in [Bots -> Bot]
<1>1. ASSUME NEW b \in Bots
      PROVE  /\ bots[b] \in Bot
             /\ [bots[b] EXCEPT !.told = TRUE] \in Bot
             /\ [bots[b] EXCEPT !.phase = "joining", !.target = TargetOf[s]] \in Bot
  <2>1. bots[b] \in Bot
    BY DEF TypeOK
  <2>. QED
    BY <2>1, DispatchAssumption DEF Bot
<1>. QED
  BY <1>1 DEF TypeOK, TellToLeave, Starts, SetBot

LEMMA QueueEffect ==
  ASSUME NEW jobs \in [Sessions -> [Revs -> Job]], NEW s \in Sessions, NEW r \in Revs
  PROVE  /\ Added(jobs, s, r) \in [Sessions -> [Revs -> Job]]
         /\ Removed(jobs, s, r) \in [Sessions -> [Revs -> Job]]
         /\ \A o \in Sessions, q \in Revs : o # s \/ q # r =>
              Added(jobs, s, r)[o][q] = jobs[o][q] /\ Removed(jobs, s, r)[o][q] = jobs[o][q]
         /\ Added(jobs, s, r)[s][r].st \in {jobs[s][r].st, "waiting"} \ {"none"}
         /\ Added(jobs, s, r)[s][r].st = "active" <=> jobs[s][r].st = "active"
         /\ Added(jobs, s, r)[s][r].st = "finished" <=> jobs[s][r].st = "finished"
         /\ Removed(jobs, s, r)[s][r].st \in {"none", "active"}
         /\ Removed(jobs, s, r)[s][r].st = "active" <=> jobs[s][r].st = "active"
         /\ Removed(jobs, s, r)[s][r].st # "none" => jobs[s][r].st # "none"
         /\ Lost(Added(jobs, s, r)[s][r]) <= Lost(jobs[s][r])
         /\ Lost(Removed(jobs, s, r)[s][r]) <= Lost(jobs[s][r])
<1>1. /\ JobIs("waiting") \in Job /\ JobIs("waiting").st = "waiting"
      /\ JobIs("none") \in Job /\ JobIs("none").st = "none"
      /\ Lost(JobIs("waiting")) = 0 /\ Lost(JobIs("none")) = 0
  BY JobValues
<1>2. /\ jobs[s][r] \in Job /\ Lost(jobs[s][r]) \in Nat
      /\ jobs[s][r].st \in {"none", "waiting", "active", "finished", "failed"}
      /\ jobs[s][r].st = "none" => Lost(jobs[s][r]) = 0
  BY JobFields
<1>3. ASSUME NEW j \in Job
      PROVE  /\ [jobs EXCEPT ![s][r] = j] \in [Sessions -> [Revs -> Job]]
             /\ [jobs EXCEPT ![s][r] = j][s][r] = j
             /\ \A o \in Sessions, q \in Revs : o # s \/ q # r =>
                  [jobs EXCEPT ![s][r] = j][o][q] = jobs[o][q]
  OBVIOUS
<1>4. CASE jobs[s][r].st = "none"
  BY <1>1, <1>2, <1>3, <1>4 DEF Added, Removed
<1>5. CASE jobs[s][r].st = "active"
  BY <1>2, <1>5 DEF Added, Removed
<1>6. CASE jobs[s][r].st \in {"waiting", "finished", "failed"}
  BY <1>1, <1>2, <1>3, <1>6 DEF Added, Removed
<1>. QED
  BY <1>2, <1>4, <1>5, <1>6

LEMMA QueueTypes ==
  ASSUME NEW jobs, jobs \in [Sessions -> [Revs -> Job]], NEW s \in Sessions, NEW r \in Revs
  PROVE  /\ Added(jobs, s, r) \in [Sessions -> [Revs -> Job]]
         /\ Removed(jobs, s, r) \in [Sessions -> [Revs -> Job]]
BY QueueEffect

LEMMA QueueOnce ==
  ASSUME NEW jobs, jobs \in [Sessions -> [Revs -> Job]], NEW s \in Sessions,
         NEW r, r \in Revs, NEW q \in Revs
  PROVE  /\ Added(jobs, s, r)[s][q].st = "active" <=> jobs[s][q].st = "active"
         /\ Added(jobs, s, r)[s][q].st = "finished" <=> jobs[s][q].st = "finished"
         /\ Added(jobs, s, r)[s][q].st # "none" => jobs[s][q].st # "none" \/ q = r
         /\ Removed(jobs, s, r)[s][q].st = "active" <=> jobs[s][q].st = "active"
         /\ Removed(jobs, s, r)[s][q].st = "finished" => jobs[s][q].st = "finished"
         /\ Removed(jobs, s, r)[s][q].st # "none" => jobs[s][q].st # "none"
         /\ Lost(Added(jobs, s, r)[s][q]) <= Lost(jobs[s][q])
         /\ Lost(Removed(jobs, s, r)[s][q]) <= Lost(jobs[s][q])
<1>0. Lost(jobs[s][q]) \in Nat
  BY JobFields
<1>1. CASE q = r
  <2>1. /\ Added(jobs, s, r)[s][r].st = "active" <=> jobs[s][r].st = "active"
        /\ Added(jobs, s, r)[s][r].st = "finished" <=> jobs[s][r].st = "finished"
        /\ Lost(Added(jobs, s, r)[s][r]) <= Lost(jobs[s][r])
        /\ Lost(Removed(jobs, s, r)[s][r]) <= Lost(jobs[s][r])
    BY QueueEffect
  <2>2. /\ Removed(jobs, s, r)[s][r].st \in {"none", "active"}
        /\ Removed(jobs, s, r)[s][r].st = "active" <=> jobs[s][r].st = "active"
        /\ Removed(jobs, s, r)[s][r].st # "none" => jobs[s][r].st # "none"
    BY QueueEffect
  <2>. QED
    BY <1>1, <2>1, <2>2
<1>2. CASE q # r
  <2>1. Added(jobs, s, r)[s][q] = jobs[s][q] /\ Removed(jobs, s, r)[s][q] = jobs[s][q]
    BY <1>2, QueueEffect
  <2>. QED
    BY <1>0, <1>2, <2>1
<1>. QED
  BY <1>1, <1>2

(* A step of the job of rev r of session s touches no other session, no     *)
(* other worker and no other actor.                                         *)
OnlyThisJob(s, r) ==
  /\ \A o \in Sessions \ {s} : row'[o] = row[o]
  /\ \A o \in Sessions \ {s}, q \in Revs :
       job'[o][q] = job[o][q] /\ wk'[o][q] = wk[o][q]
  /\ \A q \in Revs \ {r} : wk'[s][q] = wk[s][q]
  /\ act' = act

LEMMA TypeDispatch ==
  ASSUME TypeOK, NEW s \in Sessions, NEW r \in Revs, DispatchStep(s, r)
  PROVE  TypeOK' /\ OnlyThisJob(s, r)
<1>. USE DispatchAssumption
<1>0. /\ row[s] \in Row /\ job[s][r] \in Job /\ wk[s][r] \in Worker
      /\ {"count", "mark", "tag", "post", "record", "check", "find", "adopt", "kick",
           "redelay", "enqueue", "end"} \subseteq WorkerPcs
      /\ {"cancelled", "failed", "blocked"} \subseteq TerminalStatuses
      /\ TerminalStatuses \subseteq Statuses
      /\ {"requested", "scheduled"} \subseteq Statuses
      /\ {"none", "missed_window", "already_in_meeting", "capacity", "user_stopped",
           "vexa_unavailable"} \subseteq Reasons
      /\ wk[s][r].bot \in Bots \cup {NoBot} /\ NoBot \in Bots \cup {NoBot}
  BY DEF TypeOK, Worker, WorkerPcs, TerminalStatuses, Statuses, LiveStatuses, Reasons
<1>. DEFINE WorkerOK == /\ wk' \in [Sessions -> [Revs -> Worker]]
                       /\ \A o \in Sessions, q \in Revs :
                            o # s \/ q # r => wk'[o][q] = wk[o][q]
            JobOK    == /\ job' \in [Sessions -> [Revs -> Job]]
                       /\ \A o \in Sessions \ {s}, q \in Revs : job'[o][q] = job[o][q]
            RowOK    == /\ row' \in [Sessions -> Row]
                       /\ \A o \in Sessions \ {s} : row'[o] = row[o]
<1>21. UNCHANGED job => JobOK
  BY DEF TypeOK
<1>22. UNCHANGED row => RowOK
  BY DEF TypeOK
<1>23. UNCHANGED wk => WorkerOK
  BY DEF TypeOK
<1>24. ASSUME RowOK, JobOK, WorkerOK, bots' \in [Bots -> Bot], UNCHANGED <<act, faults>>
       PROVE  TypeOK' /\ OnlyThisJob(s, r)
  BY <1>24 DEF TypeOK, OnlyThisJob
<1>25. UNCHANGED bots => bots' \in [Bots -> Bot]
  BY DEF TypeOK
<1>20. \A pc \in WorkerPcs : At(s, r, pc) => job[s][r].st = "active"
  BY DEF At
<1>26. job[s][r].st = "active" /\ (Finish(s, r) \/ Throw(s, r)) => JobOK /\ WorkerOK
  BY WorkerStops
<1>27. ASSUME job[s][r].st = "waiting",
              \/ SetJob(s, r, [job[s][r] EXCEPT !.st = "active"])
              \/ SetJob(s, r, JobIs("finished"))
       PROVE  JobOK
  <2>1. [job[s][r] EXCEPT !.st = "active"] \in Job /\ JobIs("finished") \in Job
    BY <1>0, <1>27, TakenJob, JobValues
  <2>. QED
    BY <1>27, <2>1, SetJobEffect
<1>28. NotAdopted(s, r) => WorkerOK
  BY <1>0, WorkerMoves DEF NotAdopted
<1>29. \A pc \in WorkerPcs : Goto(s, r, pc) => WorkerOK
  BY WorkerMoves
<1>30. \A status \in TerminalStatuses, reason \in Reasons :
         EndAs(s, r, status, reason) => WorkerOK
  BY WorkerMoves
<1>31. \A why \in {"retry", "conflict", "withdrawn"} : Seek(s, r, why) => WorkerOK
  BY WorkerMoves
<1>32. \A pc \in WorkerPcs, bot \in Bots \cup {NoBot} : GotoWith(s, r, pc, bot) => WorkerOK
  BY WorkerMoves
<1>33. \A to \in Statuses, reason \in Reasons : Transition(s, to, reason) => RowOK
  BY TransitionEffect
<1>34. ASSUME NEW x \in Row, Write(s, x) PROVE RowOK
  BY <1>34, WriteEffect
<1>35. \A bot \in Bots \cup {NoBot} : [row[s] EXCEPT !.bot = bot] \in Row
  BY <1>0, RowValues
<1>. HIDE DEF WorkerOK, JobOK, RowOK
<1>1. CASE TakeStale(s, r)
  BY <1>1, <1>22, <1>23, <1>24, <1>25, <1>27 DEF TakeStale
<1>2. CASE TakeRetry(s, r)
  BY <1>2, <1>22, <1>24, <1>25, <1>27, <1>31 DEF TakeRetry, Take
<1>3. CASE TakeWithdrawn(s, r)
  BY <1>0, <1>3, <1>22, <1>24, <1>25, <1>27, <1>29, <1>31 DEF TakeWithdrawn, Take
<1>4. CASE TakeScheduled(s, r)
  BY <1>0, <1>4, <1>22, <1>24, <1>25, <1>27, <1>29, <1>30 DEF TakeScheduled, Take
<1>5. CASE Count(s, r)
  BY <1>0, <1>5, <1>21, <1>22, <1>24, <1>25, <1>29 DEF Count
<1>6. CASE MarkRequested(s, r)
  <2>1. RowOK /\ JobOK /\ WorkerOK
    BY <1>0, <1>6, <1>21, <1>22, <1>20, <1>26, <1>29, <1>30, <1>33 DEF MarkRequested
  <2>. QED
    BY <1>6, <1>24, <1>25, <2>1 DEF MarkRequested
<1>7. CASE CountAttempt(s, r)
  <2>1. RowOK
    BY <1>0, <1>7, <1>34, RowValues DEF CountAttempt
  <2>. QED
    BY <1>0, <1>7, <1>21, <1>24, <1>25, <1>29, <2>1 DEF CountAttempt
<1>8. CASE PostAccepted(s, r)
  <2>1. bots' \in [Bots -> Bot]
    BY <1>8, BotEffect DEF PostAccepted
  <2>2. WorkerOK
    BY <1>0, <1>8, <1>29, <1>32 DEF PostAccepted
  <2>. QED
    BY <1>8, <1>21, <1>22, <1>24, <2>1, <2>2 DEF PostAccepted
<1>9. CASE PostConflict(s, r)
  BY <1>9, <1>21, <1>22, <1>24, <1>25, <1>31 DEF PostConflict
<1>10. CASE PostRefused(s, r)
  <2>1. \A end \in Refusals : end.status \in TerminalStatuses /\ end.reason \in Reasons
    BY DEF AllRefusals, Change, TerminalStatuses, Reasons
  <2>2. WorkerOK
    BY <1>0, <1>10, <1>29, <1>30, <2>1 DEF PostRefused
  <2>. QED
    BY <1>10, <1>21, <1>22, <1>24, <1>25, <2>2 DEF PostRefused
<1>11. CASE PostUnanswered(s, r)
  <2>1. bots' \in [Bots -> Bot]
    BY <1>11, <1>25, BotEffect DEF PostUnanswered
  <2>2. JobOK /\ WorkerOK
    BY <1>0, <1>11, <1>21, <1>20, <1>26, <1>30 DEF PostUnanswered
  <2>. QED
    BY <1>11, <1>22, <1>24, <2>1, <2>2 DEF PostUnanswered
<1>12. CASE RecordId(s, r)
  <2>1. RowOK /\ JobOK /\ WorkerOK
    BY <1>0, <1>12, <1>21, <1>22, <1>20, <1>26, <1>29, <1>34, <1>35 DEF RecordId
  <2>. QED
    BY <1>12, <1>24, <1>25, <2>1 DEF RecordId
<1>13. CASE CheckWithdrawn(s, r)
  BY <1>0, <1>13, <1>21, <1>22, <1>24, <1>25, <1>20, <1>26, <1>29 DEF CheckWithdrawn
<1>14. CASE Kick(s, r)
  <2>1. bots' \in [Bots -> Bot]
    BY <1>14, <1>25, BotEffect DEF Kick
  <2>2. JobOK /\ WorkerOK
    BY <1>0, <1>14, <1>21, <1>20, <1>26, <1>30 DEF Kick
  <2>. QED
    BY <1>14, <1>22, <1>24, <2>1, <2>2 DEF Kick
<1>15. CASE FindBot(s, r)
  <2>1. RunningFor(TargetOf[s]) \subseteq Bots
    BY DEF RunningFor
  <2>2. JobOK /\ WorkerOK
    BY <1>0, <1>15, <1>21, <1>20, <1>26, <1>28, <1>32, <2>1 DEF FindBot
  <2>. QED
    BY <1>15, <1>22, <1>24, <1>25, <2>2 DEF FindBot
<1>16. CASE Adopt(s, r)
  <2>1. RowOK /\ JobOK /\ WorkerOK
    BY <1>0, <1>16, <1>21, <1>22, <1>20, <1>26, <1>28, <1>29, <1>32, <1>34, <1>35 DEF Adopt
  <2>. QED
    BY <1>16, <1>24, <1>25, <2>1 DEF Adopt
<1>17. CASE Redelay(s, r)
  <2>1. r < SoftRev => [row[s] EXCEPT !.status = "scheduled", !.reason = "none",
                                      !.rev = r + 1] \in Row
    <3>1. r < SoftRev => r + 1 \in Revs
      BY DEF Revs
    <3>. QED
      BY <1>0, <3>1, RowValues
  <2>2. RowOK /\ JobOK /\ WorkerOK
    BY <1>0, <1>17, <1>21, <1>22, <1>20, <1>26, <1>29, <1>30, <1>34, <2>1 DEF Redelay
  <2>. QED
    BY <1>17, <1>24, <1>25, <2>2 DEF Redelay
<1>18. CASE EnqueueNext(s, r)
  <2>1. r + 1 \in Revs
    BY <1>18 DEF EnqueueNext, Revs
  <2>2. Added(job, s, r + 1) \in [Sessions -> [Revs -> Job]]
    BY <2>1, QueueEffect DEF TypeOK
  <2>3. JobIs("finished") \in Job
    BY JobValues
  <2>4. JobOK
    <3>0. job \in [Sessions -> [Revs -> Job]]
      BY DEF TypeOK
    <3>1. ASSUME NEW o \in Sessions \ {s}, NEW q \in Revs
          PROVE  Added(job, s, r + 1)[o][q] = job[o][q]
      BY <2>1, <3>0, QueueEffect
    <3>. QED
      BY <1>18, <2>2, <2>3, <3>1 DEF EnqueueNext, JobOK
  <2>5. WorkerOK
    BY <1>18, WorkEffect, WorkerValues DEF EnqueueNext, WorkerOK
  <2>. QED
    BY <1>18, <1>22, <1>24, <1>25, <2>4, <2>5 DEF EnqueueNext
<1>19. CASE EndSession(s, r)
  <2>1. wk[s][r].end.status \in Statuses /\ wk[s][r].end.reason \in Reasons
    BY <1>0 DEF Worker
  <2>2. JobOK /\ WorkerOK
    BY <1>0, <1>19, <1>20, <1>26 DEF EndSession
  <2>. QED
    BY <1>19, <1>24, <1>25, <1>33, <2>1, <2>2 DEF EndSession
<1>. QED
  BY <1>1, <1>2, <1>3, <1>4, <1>5, <1>6, <1>7, <1>8, <1>9, <1>10, <1>11, <1>12,
     <1>13, <1>14, <1>15, <1>16, <1>17, <1>18, <1>19 DEF DispatchStep

(* A step of actor a for session s touches no other session and no other    *)
(* actor.                                                                   *)
OnlyThisActor(s, a) ==
  /\ \A o \in Sessions \ {s} : row'[o] = row[o]
  /\ \A o \in Sessions \ {s}, q \in Revs : job'[o][q] = job[o][q]
  /\ \A o \in Sessions, c \in ActorNames : o # s \/ c # a => act'[o][c] = act[o][c]
  /\ wk' = wk

(* A step that ends in Reschedule: the rev read earlier still holds and the *)
(* row moves to the next one, or nothing is written.                        *)
LEMMA RescheduleEffect ==
  ASSUME TypeOK, NEW s \in Sessions, NEW a \in ActorNames, NEW updated \in Row,
         NEW next \in ActorPcs, Reschedule(s, a, updated, next)
  PROVE  /\ row' \in [Sessions -> Row] /\ \A o \in Sessions \ {s} : row'[o] = row[o]
         /\ act' \in [Sessions -> [ActorNames -> Actor]]
         /\ \A o \in Sessions, c \in ActorNames : o # s \/ c # a => act'[o][c] = act[o][c]
         /\ \/ row' = row /\ act'[s][a] = [pc |-> "idle", rev |-> 0]
            \/ /\ row[s].rev = act[s][a].rev /\ row[s].rev < MaxRev
               /\ row'[s].rev = row[s].rev + 1 /\ row'[s].status = updated.status
               /\ act'[s][a] = [pc |-> next, rev |-> row[s].rev + 1]
<1>. USE DispatchAssumption
<1>1. row[s] \in Row /\ row[s].rev \in Revs /\ 0 \in Revs /\ "idle" \in ActorPcs
  BY DEF TypeOK, Row, Revs, ActorPcs
<1>2. CASE row[s].rev = act[s][a].rev /\ row[s].rev < MaxRev
  <2>. DEFINE x == [updated EXCEPT !.rev = row[s].rev + 1]
  <2>1. row[s].rev + 1 \in Revs
    BY <1>1, <1>2 DEF Revs
  <2>2. x \in Row
    BY <2>1, RowValues
  <2>3. x.rev = row[s].rev + 1 /\ x.status = updated.status
    BY DEF Row
  <2>4. Write(s, x) /\ Step(s, a, next, row[s].rev + 1)
    BY <1>2 DEF Reschedule
  <2>. HIDE DEF x
  <2>5. /\ row' \in [Sessions -> Row] /\ row'[s] = x
        /\ \A o \in Sessions \ {s} : row'[o] = row[o]
    BY <2>2, <2>4, WriteEffect
  <2>6. /\ act' \in [Sessions -> [ActorNames -> Actor]]
        /\ act'[s][a] = [pc |-> next, rev |-> row[s].rev + 1]
        /\ \A o \in Sessions, c \in ActorNames : o # s \/ c # a => act'[o][c] = act[o][c]
    BY <2>1, <2>4, StepEffect
  <2>. QED
    BY <1>2, <2>3, <2>5, <2>6
<1>3. CASE ~(row[s].rev = act[s][a].rev /\ row[s].rev < MaxRev)
  <2>1. row' = row /\ Step(s, a, "idle", 0)
    BY <1>3 DEF Reschedule, Done
  <2>2. /\ act' \in [Sessions -> [ActorNames -> Actor]]
        /\ act'[s][a] = [pc |-> "idle", rev |-> 0]
        /\ \A o \in Sessions, c \in ActorNames : o # s \/ c # a => act'[o][c] = act[o][c]
    BY <1>1, <2>1, StepEffect
  <2>. QED
    BY <2>1, <2>2 DEF TypeOK
<1>. QED
  BY <1>2, <1>3

(* The actor of each request.                                               *)
LEMMA TypeRequest ==
  ASSUME TypeOK, NEW s \in Sessions,
         RequestStep(s) \/ Environment(s) \/ ReconcileStep(s)
  PROVE  TypeOK' /\ \E a \in ActorNames : OnlyThisActor(s, a) /\ job' = job
<1>. USE DispatchAssumption
<1>0. /\ row[s] \in Row /\ row[s].rev \in Revs /\ 0 \in Revs
      /\ row[s].status \in Statuses \cup {"absent"}
      /\ \A a \in ActorNames : act[s][a].rev \in Revs
  BY DEF TypeOK, Row, Revs, Actor
<1>30. /\ "api" \in ActorNames /\ "stop" \in ActorNames
       /\ "calendar" \in ActorNames /\ "reconcile" \in ActorNames
  BY DEF ActorNames
<1>31. /\ "idle" \in ActorPcs /\ "now" \in ActorPcs /\ "bump" \in ActorPcs /\ "remove" \in ActorPcs
       /\ "schedule" \in ActorPcs /\ "move" \in ActorPcs /\ "cancel" \in ActorPcs
       /\ "kick" \in ActorPcs /\ "mark" \in ActorPcs /\ "reopen" \in ActorPcs
       /\ "resched" \in ActorPcs /\ "fail" \in ActorPcs /\ "drop" \in ActorPcs
  BY DEF ActorPcs
<1>32. /\ "cancelled" \in Statuses /\ "failed" \in Statuses
       /\ "stopping" \in Statuses /\ "scheduled" \in Statuses
  BY DEF Statuses, LiveStatuses, TerminalStatuses
<1>33. /\ "user_opt_out" \in Reasons /\ "user_stopped" \in Reasons
       /\ "vexa_unavailable" \in Reasons /\ "none" \in Reasons
       /\ \A reason \in CancelReasons : reason \in Reasons
  BY DEF Reasons, AllCancelReasons
<1>34. "manual" \in Origins /\ "meeting_request" \in Origins /\ "calendar_rule" \in Origins
  BY DEF Origins
<1>. DEFINE RowOK == /\ row' \in [Sessions -> Row]
                    /\ \A o \in Sessions \ {s} : row'[o] = row[o]
            Goal == TypeOK' /\ \E a \in ActorNames : OnlyThisActor(s, a) /\ job' = job
<1>21. UNCHANGED row => RowOK
  BY DEF TypeOK
<1>22. ASSUME NEW a \in ActorNames, RowOK, act' \in [Sessions -> [ActorNames -> Actor]],
              \A o \in Sessions, c \in ActorNames : o # s \/ c # a => act'[o][c] = act[o][c],
              bots' \in [Bots -> Bot], UNCHANGED <<job, wk, faults>>
       PROVE  Goal
  BY <1>22 DEF TypeOK, OnlyThisActor
<1>23. UNCHANGED bots => bots' \in [Bots -> Bot]
  BY DEF TypeOK
<1>24. ASSUME NEW a \in ActorNames, NEW pc \in ActorPcs, NEW rev \in Revs,
              Step(s, a, pc, rev), RowOK, bots' \in [Bots -> Bot],
              UNCHANGED <<job, wk, faults>>
       PROVE  Goal
  <2>1. /\ act' \in [Sessions -> [ActorNames -> Actor]]
        /\ \A o \in Sessions, c \in ActorNames : o # s \/ c # a => act'[o][c] = act[o][c]
    BY <1>24, StepEffect, ZenonT(60)
  <2>. QED
    BY <1>22, <1>24, <2>1
<1>25. ASSUME NEW a \in ActorNames, Done(s, a), RowOK, bots' \in [Bots -> Bot],
              UNCHANGED <<job, wk, faults>>
       PROVE  Goal
  <2>1. Step(s, a, "idle", 0)
    BY <1>25 DEF Done
  <2>. QED
    BY <1>0, <1>24, <1>25, <1>31, <2>1
<1>26. \A to \in Statuses, reason \in Reasons : Transition(s, to, reason) => RowOK
  BY TransitionEffect
<1>27. ASSUME NEW a \in ActorNames, NEW updated \in Row, NEW next \in ActorPcs,
              Reschedule(s, a, updated, next), UNCHANGED <<job, wk, bots, faults>>
       PROVE  Goal
  <2>1. RowOK /\ act' \in [Sessions -> [ActorNames -> Actor]]
        /\ \A o \in Sessions, c \in ActorNames : o # s \/ c # a => act'[o][c] = act[o][c]
    BY <1>27, RescheduleEffect
  <2>. QED
    BY <1>22, <1>23, <1>27, <2>1
<1>28. Reopened(s) \in Row /\ [Reopened(s) EXCEPT !.origin = "meeting_request"] \in Row
  <2>1. Reopened(s) \in Row
    BY <1>0, <1>32, <1>33, RowValues DEF Reopened
  <2>. QED
    BY <1>34, <2>1 DEF Row
<1>29. ASSUME NEW origin \in Origins, Created(s, origin) PROVE RowOK
  <2>1. [row[s] EXCEPT !.status = "scheduled", !.origin = origin] \in Row
    BY <1>0, <1>32, RowValues
  <2>. QED
    BY <1>29, <2>1, WriteEffect DEF Created
<1>. SUFFICES Goal
  BY DEF Goal
<1>. HIDE DEF RowOK, Goal
<1>1. CASE SendReopens(s)
  BY <1>1, <1>27, <1>28, <1>30, <1>31 DEF SendReopens
<1>2. ASSUME NEW a \in {"api", "reconcile"}, Bump(s, a) PROVE Goal
  BY <1>0, <1>2, <1>27, <1>30, <1>31 DEF Bump
<1>18. ASSUME NEW a \in {"api", "reconcile"}, ReadNow(s, a) PROVE Goal
  BY <1>0, <1>18, <1>21, <1>23, <1>24, <1>25, <1>30, <1>31 DEF ReadNow
<1>3. CASE StopCancels(s)
  BY <1>3, <1>0, <1>23, <1>24, <1>25, <1>26, <1>30, <1>31, <1>32, <1>33 DEF StopCancels
<1>4. CASE StopKicks(s)
  <2>1. bots' \in [Bots -> Bot]
    BY <1>4, <1>23, BotEffect DEF StopKicks
  <2>. QED
    BY <1>0, <1>4, <1>21, <1>24, <1>25, <1>30, <1>31, <2>1 DEF StopKicks
<1>5. CASE StopMarks(s)
  BY <1>5, <1>0, <1>23, <1>25, <1>26, <1>30, <1>31, <1>32, <1>33 DEF StopMarks
<1>6. CASE CalendarCancels(s)
  BY <1>6, <1>0, <1>23, <1>24, <1>26, <1>30, <1>31, <1>32, <1>33 DEF CalendarCancels
<1>7. CASE CalendarReopens(s)
  BY <1>7, <1>27, <1>28, <1>30, <1>31 DEF CalendarReopens
<1>8. CASE CalendarReschedules(s)
  BY <1>8, <1>0, <1>27, <1>30, <1>31 DEF CalendarReschedules
<1>9. CASE JoinNow(s)
  BY <1>9, <1>0, <1>23, <1>24, <1>29, <1>30, <1>31, <1>34 DEF JoinNow
<1>10. CASE SendNew(s)
  BY <1>10, <1>0, <1>23, <1>24, <1>29, <1>30, <1>31, <1>34 DEF SendNew
<1>11. CASE SendSeesOptOut(s)
  BY <1>11, <1>0, <1>21, <1>23, <1>24, <1>30, <1>31 DEF SendSeesOptOut
<1>12. CASE StopSees(s)
  BY <1>12, <1>0, <1>21, <1>23, <1>24, <1>30, <1>31 DEF StopSees
<1>13. CASE CalendarCreates(s)
  BY <1>13, <1>0, <1>23, <1>24, <1>29, <1>30, <1>31, <1>34 DEF CalendarCreates
<1>14. CASE CalendarSees(s)
  BY <1>14, <1>0, <1>21, <1>23, <1>24, <1>30, <1>31 DEF CalendarSees
<1>15. CASE ReconcileDue(s)
  BY <1>15, <1>0, <1>21, <1>23, <1>24, <1>30, <1>31 DEF ReconcileDue
<1>16. CASE ReconcileSeesUnstarted(s)
  BY <1>16, <1>0, <1>21, <1>23, <1>24, <1>30, <1>31 DEF ReconcileSeesUnstarted
<1>17. CASE ReconcileEnds(s)
  BY <1>17, <1>0, <1>23, <1>25, <1>26, <1>30, <1>31, <1>32, <1>33 DEF ReconcileEnds
<1>. QED
  BY <1>1, <1>2, <1>3, <1>4, <1>5, <1>6, <1>7, <1>8, <1>9, <1>10, <1>11, <1>12,
     <1>13, <1>14, <1>15, <1>16, <1>17, <1>18
     DEF RequestStep, Environment, ReconcileStep

LEMMA TypeQueue ==
  ASSUME TypeOK, NEW s \in Sessions, NEW a \in ActorNames,
         QueueStep(s, a) \/ EnqueueLost(s, a)
  PROVE  TypeOK' /\ OnlyThisActor(s, a) /\ row' = row
<1>. USE DispatchAssumption
<1>1. "idle" \in ActorPcs /\ 0 \in Revs /\ act[s][a] \in Actor
      /\ job \in [Sessions -> [Revs -> Job]]
  BY DEF TypeOK, ActorPcs, Revs
<1>2. Done(s, a)
  BY DEF QueueStep, EnqueueLost
<1>3. /\ act' \in [Sessions -> [ActorNames -> Actor]]
      /\ \A o \in Sessions, c \in ActorNames : o # s \/ c # a => act'[o][c] = act[o][c]
  BY <1>1, <1>2, StepEffect, ZenonT(60) DEF Done
<1>4. CASE EnqueueLost(s, a)
  BY <1>3, <1>4 DEF EnqueueLost, TypeOK, OnlyThisActor
<1>5. CASE QueueStep(s, a)
  <2>. DEFINE r == act[s][a].rev
  <2>1. r \in Revs
    BY <1>1 DEF Actor
  <2>2. /\ job' \in [Sessions -> [Revs -> Job]]
        /\ \A o \in Sessions \ {s}, q \in Revs : job'[o][q] = job[o][q]
    <3>1. CASE job' = Removed(job, s, r) \/ job' = Added(job, s, r)
      <4>1. /\ Added(job, s, r) \in [Sessions -> [Revs -> Job]]
            /\ Removed(job, s, r) \in [Sessions -> [Revs -> Job]]
        BY <1>1, <2>1, QueueEffect
      <4>2. ASSUME NEW o \in Sessions \ {s}, NEW q \in Revs
            PROVE  Added(job, s, r)[o][q] = job[o][q] /\ Removed(job, s, r)[o][q] = job[o][q]
        BY <1>1, <2>1, QueueEffect
      <4>. QED
        BY <3>1, <4>1, <4>2
    <3>2. CASE r > 0 /\ job' = Added(Removed(job, s, r - 1), s, r)
      <4>. DEFINE less == Removed(job, s, r - 1)
      <4>1. r - 1 \in Revs
        BY <2>1, <3>2 DEF Revs
      <4>2. less \in [Sessions -> [Revs -> Job]]
        BY <1>1, <4>1, QueueEffect
      <4>4. ASSUME NEW o \in Sessions \ {s}, NEW q \in Revs PROVE less[o][q] = job[o][q]
        BY <1>1, <4>1, QueueEffect
      <4>. HIDE DEF less
      <4>3. Added(less, s, r) \in [Sessions -> [Revs -> Job]]
        BY <2>1, <4>2, QueueTypes
      <4>5. ASSUME NEW o \in Sessions \ {s}, NEW q \in Revs
            PROVE  Added(less, s, r)[o][q] = less[o][q]
        BY <2>1, <4>2, QueueEffect
      <4>. QED
        BY <3>2, <4>3, <4>4, <4>5 DEF less
    <3>. QED
      BY <1>5, <3>1, <3>2 DEF QueueStep
  <2>. QED
    BY <1>3, <1>5, <2>2 DEF QueueStep, TypeOK, OnlyThisActor
<1>. QED
  BY <1>4, <1>5

(* A report changes the status and the reason if the rank allows it, may    *)
(* record the bot of a session that has none, and leaves the rest.          *)
LEMMA ReportEffect ==
  ASSUME TypeOK, NEW s \in Sessions, NEW b \in Bots, Report(s, b)
  PROVE  /\ TypeOK' /\ UNCHANGED <<job, wk, act>>
         /\ \A o \in Sessions \ {s} : row'[o] = row[o]
         /\ row'[s].rev = row[s].rev
         /\ \/ row'[s].status = row[s].status
            \/ /\ Applies(s, row'[s].status)
               /\ row'[s].status \in Statuses \ {"scheduled"}
<1>1. row[s] \in Row /\ bots[b] \in Bot
  BY DEF TypeOK
<1>. DEFINE next == MapVexaStatus(VexaStatus(b), "none", "none", bots[b].admitted,
                                  row[s].reason = "user_stopped")
            to   == IF Applies(s, next.status) THEN next
                    ELSE Change(row[s].status, row[s].reason)
            id   == IF row[s].bot = NoBot /\ ~IdTaken(s, b) THEN b ELSE row[s].bot
            x    == [row[s] EXCEPT !.status = to.status, !.reason = to.reason, !.bot = id]
<1>2. next.status \in Statuses \ {"scheduled"} /\ next.reason \in Reasons
  BY <1>1, ReportedStatus DEF Report
<1>3. to.status \in Statuses \cup {"absent"} /\ to.reason \in Reasons
  <2>. HIDE DEF next
  <2>. QED
    BY <1>1, <1>2 DEF Row, Change
<1>4. id \in Bots \cup {NoBot}
  BY <1>1 DEF Row
<1>5. Write(s, x) /\ UNCHANGED <<job, wk, act, bots, faults>>
  BY <1>1 DEF Report, Write, Row
<1>6. \/ to.status = row[s].status
      \/ Applies(s, to.status) /\ to.status \in Statuses \ {"scheduled"}
  <2>. HIDE DEF next
  <2>. QED
    BY <1>2 DEF Change
<1>. HIDE DEF to, id
<1>7. x \in Row /\ x.rev = row[s].rev /\ x.status = to.status
  BY <1>1, <1>3, <1>4 DEF Row
<1>. HIDE DEF x
<1>8. /\ row' \in [Sessions -> Row] /\ row'[s] = x
      /\ \A o \in Sessions \ {s} : row'[o] = row[o]
  BY <1>5, <1>7, WriteEffect
<1>9. TypeOK'
  BY <1>5, <1>8 DEF TypeOK
<1>. QED
  BY <1>5, <1>6, <1>7, <1>8, <1>9

LEMMA TypeVexa ==
  ASSUME TypeOK, NEW b \in Bots, BotMoves(b) \/ BotLeaves(b)
  PROVE  TypeOK' /\ UNCHANGED <<row, job, wk, act>>
<1>1. bots[b] \in Bot
  BY DEF TypeOK
<1>2. /\ [bots[b] EXCEPT !.phase = "lobby"] \in Bot
      /\ [bots[b] EXCEPT !.phase = "active", !.admitted = TRUE] \in Bot
      /\ [bots[b] EXCEPT !.phase = "completed", !.told = FALSE] \in Bot
  BY <1>1 DEF Bot
<1>3. ASSUME NEW x \in Bot, SetBot(b, x) PROVE bots' \in [Bots -> Bot]
  BY <1>3 DEF SetBot, TypeOK
<1>4. bots' \in [Bots -> Bot]
  BY <1>2, <1>3 DEF BotMoves, BotLeaves
<1>. QED
  BY <1>4 DEF BotMoves, BotLeaves, TypeOK

LEMMA TypeCrash ==
  ASSUME TypeOK, NEW s \in Sessions, NEW r \in Revs, StepFails(s, r) \/ WorkerCrash(s, r)
  PROVE  TypeOK' /\ OnlyThisJob(s, r) /\ row' = row
         /\ wk'[s][r].pc = "idle" /\ job[s][r].st \in {"waiting", "active"}
         /\ job'[s][r].st \in {"waiting", "failed"}
         /\ Lost(job'[s][r]) = Lost(job[s][r]) + 1 /\ faults' = faults + 1
         /\ \A q \in Revs \ {r} : job'[s][q] = job[s][q]
<1>1. job[s][r] \in Job /\ job[s][r].st \in {"waiting", "active"}
  BY DEF TypeOK, StepFails, WorkerCrash, At
<1>2. /\ job' \in [Sessions -> [Revs -> Job]] /\ job'[s][r].st \in {"waiting", "failed"}
      /\ Lost(job'[s][r]) = Lost(job[s][r]) + 1
      /\ \A o \in Sessions, q \in Revs : o # s \/ q # r => job'[o][q] = job[o][q]
  <2>1. CASE StepFails(s, r)
    <3>1. PICK j \in Job : /\ j.st \in {"waiting", "failed"} /\ SetJob(s, r, j)
                          /\ Lost(j) = Lost(job[s][r]) + 1
      BY <1>1, <2>1, Throws DEF StepFails
    <3>. QED
      BY <3>1, SetJobEffect
  <2>2. CASE WorkerCrash(s, r)
    <3>. DEFINE k == [job[s][r] EXCEPT !.stalls = @ + 1,
                                       !.st = IF job[s][r].stalls < MaxStalls
                                              THEN "waiting" ELSE "failed"]
    <3>1. k \in Job /\ k.st \in {"waiting", "failed"} /\ Lost(k) = Lost(job[s][r]) + 1
      BY <1>1, LostJob
    <3>2. SetJob(s, r, k)
      BY <2>2 DEF WorkerCrash
    <3>. HIDE DEF k
    <3>. QED
      BY <3>1, <3>2, SetJobEffect
  <2>. QED
    BY <2>1, <2>2
<1>3. /\ wk' \in [Sessions -> [Revs -> Worker]] /\ wk'[s][r] = Idle
      /\ \A o \in Sessions, q \in Revs : o # s \/ q # r => wk'[o][q] = wk[o][q]
  BY WorkEffect, WorkerValues DEF StepFails, WorkerCrash, Throw
<1>4. faults' \in 0..MaxFaults /\ faults' = faults + 1
  BY DispatchAssumption DEF StepFails, WorkerCrash, TypeOK
<1>. QED
  BY <1>1, <1>2, <1>3, <1>4, WorkerValues DEF StepFails, WorkerCrash, TypeOK, OnlyThisJob

LEMMA TypeNext == TypeOK /\ [Next]_vars => TypeOK'
<1>. SUFFICES ASSUME TypeOK, [Next]_vars PROVE TypeOK'
  OBVIOUS
<1>1. CASE UNCHANGED vars
  BY <1>1 DEF vars, TypeOK
<1>2. ASSUME NEW s \in Sessions, NEW r \in Revs, DispatchStep(s, r) PROVE TypeOK'
  BY <1>2, TypeDispatch
<1>3. ASSUME NEW s \in Sessions, NEW r \in Revs, StepFails(s, r) \/ WorkerCrash(s, r)
      PROVE  TypeOK'
  BY <1>3, TypeCrash
<1>4. ASSUME NEW s \in Sessions, NEW a \in ActorNames, QueueStep(s, a) \/ EnqueueLost(s, a)
      PROVE  TypeOK'
  BY <1>4, TypeQueue
<1>5. ASSUME NEW s \in Sessions, RequestStep(s) \/ ReconcileStep(s) \/ Environment(s)
      PROVE  TypeOK'
  BY <1>5, TypeRequest
<1>6. ASSUME NEW s \in Sessions, Poll(s) PROVE TypeOK'
  BY <1>6, ReportEffect DEF Poll
<1>7. ASSUME NEW b \in Bots, BotMoves(b) \/ BotLeaves(b) PROVE TypeOK'
  BY <1>7, TypeVexa
<1>8. ASSUME NEW b \in Bots, Webhook(b) PROVE TypeOK'
  BY <1>8, ReportEffect DEF Webhook, ForWebhook, Owners, OpenFor
<1>9. CASE Settled
  BY <1>1, <1>9 DEF Settled
<1>. QED
  BY <1>1, <1>2, <1>3, <1>4, <1>5, <1>6, <1>7, <1>8, <1>9 DEF Next

(* Every variable keeps its type, however many sessions, bots and retries.  *)
THEOREM TypeCorrect == Spec => []TypeOK
<1>. QED
  BY TypeInit, TypeNext, PTL DEF Spec

-----------------------------------------------------------------------------
(* The invariant, session by session: no scheduled session's job returned.  *)

SessionInv(s) ==
  /\ row[s].status = "absent" =>
       /\ row[s].bot = NoBot
       /\ \A r \in Revs : job[s][r].st = "none"
       /\ \A a \in ActorNames : act[s][a].pc = "idle"
  /\ \A r \in Revs : job[s][r].st # "none" => r <= row[s].rev
  /\ \A a \in ActorNames : act[s][a].rev <= row[s].rev
  /\ \A r \in Revs : wk[s][r].pc = "enqueue" => r < row[s].rev
  /\ \A r \in Revs : job[s][r].st = "active" <=> wk[s][r].pc # "idle"
  /\ \A r \in Revs : row[s].status = "scheduled" /\ row[s].rev = r =>
       wk[s][r].pc \in {"idle", "count", "mark", "redelay", "end"}
  /\ row[s].status = "scheduled" => job[s][row[s].rev].st # "finished"

LEMMA InvBySession ==
  /\ DispatchInv <=> TypeOK /\ \A s \in Sessions : SessionInv(s)
  /\ DispatchInv' <=> TypeOK' /\ \A s \in Sessions : SessionInv(s)'
<1>1. DispatchInv <=> TypeOK /\ \A s \in Sessions : SessionInv(s)
  BY DEF DispatchInv, NothingBeforeCreation, NothingAhead, WorkersHaveJobs,
     UnmarkedWhileScheduled, NoReturnedJob, SessionInv, Idles, Doing
<1>2. DispatchInv' <=> TypeOK' /\ \A s \in Sessions : SessionInv(s)'
  BY DEF DispatchInv, NothingBeforeCreation, NothingAhead, WorkersHaveJobs,
     UnmarkedWhileScheduled, NoReturnedJob, SessionInv, Idles, Doing
<1>. QED
  BY <1>1, <1>2

(* What no step touched keeps the invariant.                                *)
LEMMA Untouched ==
  ASSUME TypeOK, NEW s \in Sessions, SessionInv(s), row'[s] = row[s],
         \A r \in Revs : job'[s][r] = job[s][r] /\ wk'[s][r] = wk[s][r],
         \A a \in ActorNames : act'[s][a] = act[s][a]
  PROVE  SessionInv(s)'
<1>1. row[s].rev \in Revs
  BY DEF TypeOK, Row
<1>. QED
  BY <1>1 DEF SessionInv

(* A dispatch step other than a re-delay: the rev stays, `scheduled` is not *)
(* entered, and a job that has got past the mark is not of a scheduled      *)
(* session.                                                                 *)
PlainStep(s, r) ==
  /\ job[s][r].st # "none"
  /\ job'[s][r].st # "none"
  /\ job'[s][r].st = "active" <=> wk'[s][r].pc # "idle"
  /\ wk'[s][r].pc # "enqueue"
  /\ \A q \in Revs \ {r} : job'[s][q] = job[s][q]
  /\ row'[s].rev = row[s].rev
  /\ row'[s].status = row[s].status \/ row'[s].status \in Statuses \ {"scheduled"}
  /\ row'[s].status = "scheduled" /\ row[s].rev = r =>
       /\ wk'[s][r].pc \in {"idle", "count", "mark", "redelay", "end"}
       /\ job'[s][r].st # "finished"

LEMMA PlainStepKeeps ==
  ASSUME TypeOK, NEW s \in Sessions, NEW r \in Revs, SessionInv(s),
         OnlyThisJob(s, r), PlainStep(s, r)
  PROVE  SessionInv(s)'
<1>1. row[s].rev \in Revs /\ r \in Revs /\ row[s].status # "absent"
  BY DEF TypeOK, Row, SessionInv, PlainStep
<1>2. row'[s].status # "absent"
  BY <1>1 DEF PlainStep, Statuses, LiveStatuses, LobbyStatuses, TerminalStatuses
<1>3. row'[s].status = "scheduled" => row[s].status = "scheduled"
  BY DEF PlainStep
<1>. QED
  BY <1>1, <1>2, <1>3 DEF SessionInv, PlainStep, OnlyThisJob

LEMMA MostStepsArePlain ==
  ASSUME TypeOK, NEW s \in Sessions, NEW r \in Revs, SessionInv(s), DispatchStep(s, r)
  PROVE  \/ PlainStep(s, r)
         \/ Redelay(s, r) /\ row[s].rev = r /\ r < SoftRev /\ Goto(s, r, "enqueue")
         \/ EnqueueNext(s, r)
<1>. USE DispatchAssumption
<1>0. /\ row[s] \in Row /\ job[s][r] \in Job /\ wk[s][r] \in Worker /\ row[s].rev \in Revs
      /\ row \in [Sessions -> Row] /\ job \in [Sessions -> [Revs -> Job]]
  BY DEF TypeOK, Row
<1>1. /\ "count" \in WorkerPcs /\ "mark" \in WorkerPcs /\ "tag" \in WorkerPcs
      /\ "post" \in WorkerPcs /\ "record" \in WorkerPcs /\ "check" \in WorkerPcs
      /\ "adopt" \in WorkerPcs /\ "kick" \in WorkerPcs /\ "redelay" \in WorkerPcs
      /\ NoBot \in Bots \cup {NoBot} /\ wk[s][r].bot \in Bots \cup {NoBot}
  BY <1>0 DEF WorkerPcs, Worker
<1>2. /\ "cancelled" \in TerminalStatuses /\ "failed" \in TerminalStatuses
      /\ "blocked" \in TerminalStatuses
      /\ "user_stopped" \in Reasons /\ "none" \in Reasons
      /\ "missed_window" \in Reasons /\ "already_in_meeting" \in Reasons
      /\ "capacity" \in Reasons /\ "vexa_unavailable" \in Reasons
      /\ "requested" \in Statuses \ {"scheduled"}
      /\ TerminalStatuses \subseteq Statuses \ {"scheduled"}
  BY DEF TerminalStatuses, Reasons, Statuses, LiveStatuses
<1>. DEFINE PcIs(P) == wk'[s][r].pc \in P
            RowStays == row'[s].rev = row[s].rev /\ row'[s].status = row[s].status
            Past == {"tag", "post", "record", "check", "adopt", "kick", "find"}
            Early == {"count", "mark", "redelay", "end"}
            Marked == ~(row[s].status = "scheduled" /\ row[s].rev = r)
(* How a job that is running can go on: it moves, or it ends.               *)
<1>3. \A pc \in Past \cup Early : At(s, r, pc) => job[s][r].st = "active"
  BY DEF At
<1>4. \A pc \in Past : At(s, r, pc) => Marked
  BY DEF At, SessionInv
<1>5. ASSUME job[s][r].st = "active", UNCHANGED job, RowStays, PcIs(Early)
      PROVE  PlainStep(s, r)
  BY <1>5 DEF PlainStep
<1>6. ASSUME job[s][r].st = "active", UNCHANGED job, RowStays, PcIs(Past \cup Early), Marked
      PROVE  PlainStep(s, r)
  BY <1>6 DEF PlainStep
<1>7. ASSUME job[s][r].st = "active", Finish(s, r) \/ Throw(s, r), RowStays, Marked
      PROVE  PlainStep(s, r)
  BY <1>7, WorkerStops DEF PlainStep
<1>8. ASSUME job[s][r].st = "waiting", SetJob(s, r, [job[s][r] EXCEPT !.st = "active"]),
             RowStays, PcIs(Early) \/ (PcIs(Past) /\ Marked)
      PROVE  PlainStep(s, r)
  <2>. DEFINE j == [job[s][r] EXCEPT !.st = "active"]
  <2>1. j \in Job /\ j.st = "active"
    BY <1>0, <1>8, TakenJob
  <2>. HIDE DEF j
  <2>2. job'[s][r] = j /\ \A q \in Revs \ {r} : job'[s][q] = job[s][q]
    BY <1>8, <2>1, SetJobEffect DEF j
  <2>. QED
    BY <1>8, <2>1, <2>2 DEF PlainStep
<1>9. /\ \A pc \in WorkerPcs : Goto(s, r, pc) => wk'[s][r].pc = pc
      /\ \A pc \in WorkerPcs, bot \in Bots \cup {NoBot} :
           GotoWith(s, r, pc, bot) => wk'[s][r].pc = pc
      /\ \A why \in {"retry", "conflict", "withdrawn"} :
           Seek(s, r, why) => wk'[s][r].pc = "find"
      /\ \A status \in TerminalStatuses, reason \in Reasons :
           EndAs(s, r, status, reason) => wk'[s][r].pc = "end"
  BY WorkerMoves
<1>10. UNCHANGED row => RowStays
  OBVIOUS
<1>11. ASSUME NEW b \in Bots \cup {NoBot}, Write(s, [row[s] EXCEPT !.bot = b]) PROVE RowStays
  BY <1>0, <1>11 DEF Write, Row
<1>12. NotAdopted(s, r) => PcIs({"post", "end"})
  BY <1>1, <1>2, <1>9 DEF NotAdopted
<1>. HIDE DEF RowStays, Marked
<1>21. CASE TakeStale(s, r)
  <2>. DEFINE j == JobIs("finished")
  <2>1. j \in Job /\ j.st = "finished"
    BY JobValues
  <2>2. SetJob(s, r, j) /\ job[s][r].st = "waiting" /\ UNCHANGED <<row, wk>>
    BY <1>21 DEF TakeStale
  <2>. HIDE DEF j
  <2>3. job'[s][r] = j /\ \A q \in Revs \ {r} : job'[s][q] = job[s][q]
    BY <2>1, <2>2, SetJobEffect
  <2>4. wk[s][r].pc = "idle"
    BY <2>2 DEF SessionInv
  <2>5. ~(row[s].status = "scheduled" /\ row[s].rev = r)
    BY <1>21 DEF TakeStale
  <2>. QED
    BY <2>1, <2>2, <2>3, <2>4, <2>5 DEF PlainStep
<1>22. CASE TakeRetry(s, r)
  BY <1>8, <1>9, <1>10, <1>22 DEF TakeRetry, Take, Marked
<1>23. CASE TakeWithdrawn(s, r)
  BY <1>1, <1>8, <1>9, <1>10, <1>23 DEF TakeWithdrawn, Take, Marked
<1>24. CASE TakeScheduled(s, r)
  BY <1>1, <1>2, <1>8, <1>9, <1>10, <1>24 DEF TakeScheduled, Take
<1>25. CASE Count(s, r)
  BY <1>1, <1>3, <1>5, <1>9, <1>10, <1>25 DEF Count
<1>26. CASE MarkRequested(s, r)
  <2>1. job[s][r].st = "active"
    BY <1>26 DEF MarkRequested, At
  <2>2. CASE ~CanTransition(row[s].status, "requested")
    <3>1. Finish(s, r) /\ UNCHANGED row
      BY <1>26, <2>2 DEF MarkRequested
    <3>2. row[s].status # "scheduled"
      BY <2>2 DEF CanTransition, Rank, TerminalStatuses, LobbyStatuses
    <3>. QED
      BY <1>7, <1>10, <2>1, <3>1, <3>2 DEF Marked
  <2>3. CASE CanTransition(row[s].status, "requested") /\ Conflicts(s, "requested")
    <3>1. EndAs(s, r, "blocked", "already_in_meeting") /\ UNCHANGED <<row, job>>
      BY <1>26, <2>3 DEF MarkRequested
    <3>. QED
      BY <1>2, <1>5, <1>9, <1>10, <2>1, <3>1
  <2>4. CASE CanTransition(row[s].status, "requested") /\ ~Conflicts(s, "requested")
    <3>1. Transition(s, "requested", "none") /\ Goto(s, r, "tag") /\ UNCHANGED job
      BY <1>26, <2>4 DEF MarkRequested
    <3>2. row'[s].status = "requested" /\ row'[s].rev = row[s].rev
      BY <1>2, <2>4, <3>1, TransitionEffect DEF Applies
    <3>. QED
      BY <1>1, <1>2, <1>9, <2>1, <3>1, <3>2 DEF PlainStep
  <2>. QED
    BY <2>2, <2>3, <2>4
<1>27. CASE CountAttempt(s, r)
  <2>1. RowStays
    BY <1>0, <1>27 DEF CountAttempt, Write, Row, RowStays
  <2>. QED
    BY <1>1, <1>3, <1>4, <1>6, <1>9, <1>27, <2>1 DEF CountAttempt
<1>28. CASE PostAccepted(s, r)
  BY <1>1, <1>3, <1>4, <1>6, <1>9, <1>10, <1>28 DEF PostAccepted
<1>29. CASE PostConflict(s, r)
  BY <1>1, <1>3, <1>4, <1>6, <1>9, <1>10, <1>29 DEF PostConflict
<1>30. CASE PostRefused(s, r)
  <2>1. \A end \in Refusals : end.status \in TerminalStatuses /\ end.reason \in Reasons
    BY DEF AllRefusals, Change, TerminalStatuses, Reasons
  <2>2. PcIs({"redelay", "end"})
    BY <1>1, <1>9, <1>30, <2>1 DEF PostRefused
  <2>. QED
    BY <1>3, <1>5, <1>10, <1>30, <2>2 DEF PostRefused
<1>31. CASE PostUnanswered(s, r)
  BY <1>2, <1>3, <1>4, <1>5, <1>7, <1>9, <1>10, <1>31 DEF PostUnanswered
<1>32. CASE RecordId(s, r)
  BY <1>1, <1>3, <1>4, <1>6, <1>7, <1>9, <1>10, <1>11, <1>32 DEF RecordId
<1>33. CASE CheckWithdrawn(s, r)
  BY <1>1, <1>3, <1>4, <1>6, <1>7, <1>9, <1>10, <1>33 DEF CheckWithdrawn
<1>34. CASE Kick(s, r)
  BY <1>2, <1>3, <1>4, <1>5, <1>7, <1>9, <1>10, <1>34 DEF Kick
<1>35. CASE FindBot(s, r)
  <2>1. RunningFor(TargetOf[s]) \subseteq Bots
    BY DEF RunningFor
  <2>2. \/ Throw(s, r) /\ UNCHANGED row
        \/ UNCHANGED <<row, job>> /\ PcIs({"post", "end", "adopt"})
    BY <1>1, <1>9, <1>12, <1>35, <2>1 DEF FindBot
  <2>. QED
    BY <1>3, <1>4, <1>6, <1>7, <1>10, <1>35, <2>2 DEF FindBot
<1>36. CASE Adopt(s, r)
  <2>1. \/ Throw(s, r) /\ RowStays
        \/ RowStays /\ UNCHANGED job /\ PcIs({"post", "end", "kick", "check"})
    BY <1>1, <1>9, <1>10, <1>11, <1>12, <1>36 DEF Adopt
  <2>. QED
    BY <1>3, <1>4, <1>6, <1>7, <1>36, <2>1 DEF Adopt
<1>37. CASE Redelay(s, r)
  <2>1. CASE EndAs(s, r, "failed", "capacity") /\ UNCHANGED <<row, job>>
    BY <1>2, <1>3, <1>5, <1>9, <1>10, <1>37, <2>1 DEF Redelay
  <2>2. CASE r < SoftRev /\ row[s].rev = r /\ Goto(s, r, "enqueue")
    BY <1>37, <2>2
  <2>3. CASE row[s].rev # r /\ Finish(s, r) /\ UNCHANGED row
    BY <1>3, <1>7, <1>10, <1>37, <2>3 DEF Redelay, Marked
  <2>. QED
    BY <1>37, <2>1, <2>2, <2>3 DEF Redelay
<1>38. CASE EnqueueNext(s, r)
  BY <1>38
<1>39. CASE EndSession(s, r)
  <2>. DEFINE to == wk[s][r].end.status
  <2>1. to \in TerminalStatuses /\ to \in Statuses /\ wk[s][r].end.reason \in Reasons
    BY <1>0, <1>2 DEF Worker
  <2>2. Transition(s, to, wk[s][r].end.reason) /\ Finish(s, r) /\ job[s][r].st = "active"
    BY <1>39 DEF EndSession, At
  <2>. HIDE DEF to
  <2>3. CASE Applies(s, to)
    <3>1. row'[s].rev = row[s].rev /\ row'[s].status = to
      BY <2>1, <2>2, <2>3, TransitionEffect
    <3>. QED
      BY <1>2, <2>1, <2>2, <3>1, WorkerStops, JobFields DEF PlainStep
  <2>4. CASE ~Applies(s, to)
    <3>1. row'[s] = row[s]
      BY <2>1, <2>2, <2>4, TransitionEffect
    <3>2. row[s].status # "scheduled"
      BY <2>1, <2>4 DEF Applies, Conflicts, CanTransition, Rank, TerminalStatuses,
                        LiveStatuses, LobbyStatuses
    <3>. QED
      BY <1>7, <2>2, <3>1, <3>2 DEF Marked, RowStays
  <2>. QED
    BY <2>3, <2>4
<1>. QED
  BY <1>21, <1>22, <1>23, <1>24, <1>25, <1>26, <1>27, <1>28, <1>29, <1>30, <1>31,
     <1>32, <1>33, <1>34, <1>35, <1>36, <1>37, <1>38, <1>39 DEF DispatchStep

LEMMA DispatchKeeps ==
  ASSUME TypeOK, NEW s \in Sessions, NEW r \in Revs, SessionInv(s), DispatchStep(s, r)
  PROVE  SessionInv(s)'
<1>. USE DispatchAssumption
<1>0. /\ row[s] \in Row /\ row[s].rev \in Revs /\ job \in [Sessions -> [Revs -> Job]]
      /\ OnlyThisJob(s, r) /\ TypeOK'
  BY TypeDispatch DEF TypeOK, Row
<1>1. CASE PlainStep(s, r)
  BY <1>0, <1>1, PlainStepKeeps
<1>2. CASE Redelay(s, r) /\ row[s].rev = r /\ r < SoftRev /\ Goto(s, r, "enqueue")
  <2>1. wk'[s][r].pc = "enqueue" /\ job[s][r].st = "active"
    BY <1>2, WorkerMoves DEF Redelay, At, WorkerPcs
  <2>2. ~EndAs(s, r, "failed", "capacity")
    BY <2>1, WorkerMoves DEF TerminalStatuses, Reasons
  <2>3. /\ Write(s, [row[s] EXCEPT !.status = "scheduled", !.reason = "none", !.rev = r + 1])
        /\ UNCHANGED job
    BY <1>2, <2>2 DEF Redelay
  <2>4. row'[s].status = "scheduled" /\ row'[s].rev = r + 1
    BY <1>0, <2>3 DEF Write, Row, TypeOK
  <2>5. r + 1 \in Revs /\ r \in Nat /\ Revs \subseteq Nat
    BY <1>2 DEF Revs
  <2>6. job[s][r + 1].st = "none"
    BY <1>2, <2>5 DEF SessionInv
  <2>7. wk[s][r + 1].pc = "idle"
    BY <2>5, <2>6 DEF SessionInv
  <2>8. /\ \A q \in Revs \ {r} : wk'[s][q] = wk[s][q]
        /\ act' = act /\ job' = job /\ row'[s].status # "absent"
    BY <1>0, <2>3, <2>4 DEF OnlyThisJob
  <2>9. \A q \in Revs : q <= row[s].rev => q <= row'[s].rev
    <3>1. r \in Nat /\ row[s].rev = r /\ row'[s].rev = r + 1
      BY <1>2, <2>4, <2>5
    <3>2. \A q \in Nat : q <= r => q <= r + 1
      BY <3>1
    <3>. QED
      BY <2>5, <3>1, <3>2
  <2>10. /\ \A q \in Revs : job'[s][q].st # "none" => q <= row'[s].rev
         /\ \A q \in Revs : job'[s][q].st = "active" <=> wk'[s][q].pc # "idle"
    BY <2>1, <2>8, <2>9 DEF SessionInv
  <2>11. \A a \in ActorNames : act'[s][a].rev <= row'[s].rev
    <3>1. \A a \in ActorNames : act[s][a].rev \in Revs /\ act[s][a].rev <= row[s].rev
      BY DEF SessionInv, TypeOK, Actor
    <3>. QED
      BY <2>8, <2>9, <3>1
  <2>12. \A q \in Revs : wk'[s][q].pc = "enqueue" => q < row'[s].rev
    BY <1>2, <2>4, <2>5, <2>8 DEF SessionInv
  <2>13. row'[s].rev \in Revs /\ row'[s].rev # r
    BY <2>4, <2>5
  <2>14. wk'[s][row'[s].rev].pc = "idle" /\ job'[s][row'[s].rev].st = "none"
    BY <2>4, <2>6, <2>7, <2>8, <2>13
  <2>. QED
    BY <2>8, <2>10, <2>11, <2>12, <2>13, <2>14 DEF SessionInv
<1>3. CASE EnqueueNext(s, r)
  <2>1. /\ wk[s][r].pc = "enqueue" /\ job[s][r].st = "active" /\ r + 1 \in Revs
        /\ UNCHANGED row /\ r < row[s].rev /\ Revs \subseteq Nat
    BY <1>3 DEF EnqueueNext, At, SessionInv, Revs
  <2>. DEFINE jobs == Added(job, s, r + 1)
              done == JobIs("finished")
  <2>2. /\ jobs \in [Sessions -> [Revs -> Job]]
        /\ \A q \in Revs \ {r + 1} : jobs[s][q] = job[s][q]
        /\ jobs[s][r + 1].st = "active" <=> job[s][r + 1].st = "active"
        /\ jobs[s][r + 1].st = "finished" <=> job[s][r + 1].st = "finished"
    <3>1. jobs \in [Sessions -> [Revs -> Job]]
      BY <1>0, <2>1, QueueTypes
    <3>2. ASSUME NEW q \in Revs \ {r + 1} PROVE jobs[s][q] = job[s][q]
      BY <1>0, <2>1, QueueEffect
    <3>3. /\ jobs[s][r + 1].st = "active" <=> job[s][r + 1].st = "active"
          /\ jobs[s][r + 1].st = "finished" <=> job[s][r + 1].st = "finished"
      BY <1>0, <2>1, QueueEffect
    <3>. QED
      BY <3>1, <3>2, <3>3
  <2>3. job' = [jobs EXCEPT ![s][r] = done] /\ done.st = "finished" /\ done \in Job
    BY <1>3, JobValues DEF EnqueueNext
  <2>4. wk'[s][r].pc = "idle"
    BY <1>3, WorkEffect, WorkerValues DEF EnqueueNext
  <2>. HIDE DEF jobs, done
  <2>5. /\ job'[s][r].st = "finished"
        /\ \A q \in Revs \ {r} : job'[s][q] = jobs[s][q]
    BY <2>2, <2>3
  <2>6. \A q \in Revs \ {r} :
          /\ job'[s][q].st = "active" <=> job[s][q].st = "active"
          /\ job'[s][q].st = "finished" <=> job[s][q].st = "finished"
          /\ job'[s][q].st # "none" => job[s][q].st # "none" \/ q = r + 1
    BY <2>2, <2>5
  <2>7. row[s].status # "absent" /\ row'[s] = row[s] /\ act' = act
    BY <1>0, <2>1 DEF SessionInv, OnlyThisJob
  <2>8. \A q \in Revs \ {r} : wk'[s][q] = wk[s][q]
    BY <1>0 DEF OnlyThisJob
  <2>9. \A q \in Revs : job'[s][q].st # "none" => q <= row'[s].rev
    BY <1>0, <2>1, <2>5, <2>6, <2>7 DEF SessionInv
  <2>10. /\ \A a \in ActorNames : act'[s][a].rev <= row'[s].rev
         /\ \A q \in Revs : wk'[s][q].pc = "enqueue" => q < row'[s].rev
    BY <2>4, <2>7, <2>8 DEF SessionInv
  <2>11. \A q \in Revs : job'[s][q].st = "active" <=> wk'[s][q].pc # "idle"
    BY <2>4, <2>5, <2>6, <2>8 DEF SessionInv
  <2>12. \A q \in Revs : row'[s].status = "scheduled" /\ row'[s].rev = q =>
           wk'[s][q].pc \in {"idle", "count", "mark", "redelay", "end"}
    BY <2>4, <2>7, <2>8 DEF SessionInv
  <2>13. row'[s].status = "scheduled" => job'[s][row'[s].rev].st # "finished"
    BY <1>0, <2>1, <2>6, <2>7 DEF SessionInv
  <2>. QED
    BY <2>7, <2>9, <2>10, <2>11, <2>12, <2>13 DEF SessionInv
<1>. QED
  BY <1>1, <1>2, <1>3, MostStepsArePlain

LEMMA CrashKeeps ==
  ASSUME TypeOK, NEW s \in Sessions, NEW r \in Revs, SessionInv(s),
         StepFails(s, r) \/ WorkerCrash(s, r)
  PROVE  SessionInv(s)'
<1>1. job[s][r].st \in {"waiting", "active"} /\ row[s].rev \in Revs
  BY TypeCrash DEF TypeOK, Row
<1>. QED
  BY <1>1, TypeCrash DEF SessionInv, OnlyThisJob

LEMMA ReportKeeps ==
  ASSUME TypeOK, NEW s \in Sessions, NEW b \in Bots, SessionInv(s), Report(s, b),
         row[s].status # "absent"
  PROVE  SessionInv(s)'
<1>1. row[s].rev \in Revs
  BY DEF TypeOK, Row
<1>2. row'[s].status # "absent" /\ (row'[s].status = "scheduled" => row[s].status = "scheduled")
  BY ReportEffect DEF Statuses, LiveStatuses, LobbyStatuses, TerminalStatuses
<1>. QED
  BY <1>1, <1>2, ReportEffect DEF SessionInv

(* What a request, a poll of the calendar, a reconcile tick or a queue call *)
(* must respect: a row is created with no job and no request on its way, an *)
(* existing one gets no new status `scheduled` without a new rev.           *)
LEMMA RescheduleKeeps ==
  ASSUME TypeOK, NEW s \in Sessions, NEW a \in ActorNames, NEW updated \in Row,
         NEW next \in ActorPcs, SessionInv(s), Reschedule(s, a, updated, next),
         act[s][a].pc # "idle", updated.status # "absent", UNCHANGED <<job, wk>>
  PROVE  SessionInv(s)'
<1>. USE DispatchAssumption
<1>1. /\ row[s].rev \in Revs /\ row[s].rev \in Nat
      /\ \A c \in ActorNames : act[s][c].rev \in Nat
      /\ \A q \in Revs : q \in Nat
      /\ row[s].status # "absent"
  BY DEF TypeOK, Row, Revs, Actor, SessionInv
<1>2. ASSUME NEW c \in ActorNames, c # a PROVE act'[s][c] = act[s][c]
  <2>1. \A o \in Sessions, d \in ActorNames : o # s \/ d # a => act'[o][d] = act[o][d]
    BY RescheduleEffect
  <2>. QED
    BY <1>2, <2>1
<1>3. CASE row' = row /\ act'[s][a] = [pc |-> "idle", rev |-> 0]
  <2>1. ASSUME NEW c \in ActorNames PROVE act'[s][c].rev <= row[s].rev
    <3>1. act[s][c].rev <= row[s].rev
      BY DEF SessionInv
    <3>. QED
      BY <1>1, <1>2, <1>3, <3>1
  <2>. QED
    BY <1>1, <1>3, <2>1 DEF SessionInv
<1>4. CASE /\ row[s].rev < MaxRev
           /\ row'[s].rev = row[s].rev + 1 /\ row'[s].status = updated.status
           /\ act'[s][a] = [pc |-> next, rev |-> row[s].rev + 1]
  <2>1. \A q \in Nat : q <= row[s].rev => q <= row'[s].rev /\ q < row'[s].rev
    BY <1>1, <1>4
  <2>2. \A c \in ActorNames : act'[s][c].rev <= row'[s].rev
    <3>1. act'[s][a].rev = row'[s].rev /\ row'[s].rev <= row'[s].rev
      BY <1>1, <1>4
    <3>2. ASSUME NEW c \in ActorNames, c # a PROVE act'[s][c].rev <= row'[s].rev
      <4>1. act[s][c].rev <= row[s].rev
        BY DEF SessionInv
      <4>. QED
        BY <1>1, <1>2, <2>1, <3>2, <4>1
    <3>. QED
      BY <3>1, <3>2
  <2>3. /\ \A q \in Revs : job'[s][q].st # "none" => q <= row'[s].rev
        /\ \A q \in Revs : job'[s][q].st = "active" <=> wk'[s][q].pc # "idle"
    BY <1>1, <2>1 DEF SessionInv
  <2>4. \A q \in Revs : wk'[s][q].pc = "enqueue" => q < row'[s].rev
    <3>1. \A q \in Nat : q < row[s].rev => q < row'[s].rev
      BY <1>1, <1>4
    <3>. QED
      BY <1>1, <3>1 DEF SessionInv
  <2>5. row'[s].rev \in Revs /\ ~(row'[s].rev <= row[s].rev)
    BY <1>1, <1>4 DEF Revs
  <2>6. job[s][row'[s].rev].st = "none" /\ wk[s][row'[s].rev].pc = "idle"
    BY <2>5 DEF SessionInv
  <2>. QED
    BY <1>4, <2>2, <2>3, <2>4, <2>5, <2>6 DEF SessionInv
<1>. QED
  BY <1>3, <1>4, RescheduleEffect

LEMMA TransitionKeeps ==
  ASSUME TypeOK, NEW s \in Sessions, NEW a \in ActorNames,
         NEW to \in Statuses \ {"scheduled"}, NEW reason \in Reasons,
         NEW pc \in ActorPcs, NEW rev \in {0, act[s][a].rev},
         SessionInv(s), Transition(s, to, reason) \/ UNCHANGED row,
         Step(s, a, pc, rev), row[s].status # "absent", UNCHANGED <<job, wk>>
  PROVE  SessionInv(s)'
<1>. USE DispatchAssumption
<1>1. /\ row[s].rev \in Revs /\ row[s].rev \in Nat /\ 0 \in Revs
      /\ \A c \in ActorNames : act[s][c].rev \in Revs /\ act[s][c].rev \in Nat
  BY DEF TypeOK, Row, Revs, Actor
<1>2. /\ row'[s].rev = row[s].rev /\ row'[s].status # "absent"
      /\ row'[s].status = "scheduled" => row[s].status = "scheduled"
  <2>1. to # "absent"
    BY DEF Statuses, LiveStatuses, LobbyStatuses, TerminalStatuses
  <2>. QED
    BY <2>1, TransitionEffect
<1>3. \A c \in ActorNames : act'[s][c].rev <= row[s].rev
  <2>1. rev \in Revs /\ rev <= row[s].rev
    BY <1>1 DEF SessionInv
  <2>4. /\ act'[s][a] = [pc |-> pc, rev |-> rev]
        /\ \A o \in Sessions, c \in ActorNames : o # s \/ c # a => act'[o][c] = act[o][c]
    BY <2>1, StepEffect
  <2>2. act'[s][a].rev = rev
    BY <2>4
  <2>3. ASSUME NEW c \in ActorNames, c # a PROVE act'[s][c] = act[s][c]
    BY <2>3, <2>4
  <2>. QED
    BY <2>1, <2>2, <2>3 DEF SessionInv
<1>. QED
  BY <1>1, <1>2, <1>3 DEF SessionInv

LEMMA CreationKeeps ==
  ASSUME TypeOK, NEW s \in Sessions, NEW a \in ActorNames, NEW origin \in Origins,
         NEW pc \in ActorPcs, SessionInv(s), row[s].status = "absent",
         Created(s, origin), Step(s, a, pc, 0), UNCHANGED <<job, wk>>
  PROVE  SessionInv(s)'
<1>. USE DispatchAssumption
<1>1. /\ row[s] \in Row /\ row[s].rev \in Revs /\ row[s].rev \in Nat /\ 0 \in Revs
      /\ row \in [Sessions -> Row]
  BY DEF TypeOK, Row, Revs
<1>2. row'[s].rev = row[s].rev /\ row'[s].status = "scheduled"
  BY <1>1 DEF Created, Write, Row
<1>3. \A c \in ActorNames : act'[s][c].rev <= row[s].rev
  <2>4. /\ act'[s][a] = [pc |-> pc, rev |-> 0]
        /\ \A o \in Sessions, c \in ActorNames : o # s \/ c # a => act'[o][c] = act[o][c]
    BY <1>1, StepEffect
  <2>1. act'[s][a].rev = 0
    BY <2>4
  <2>2. ASSUME NEW c \in ActorNames, c # a PROVE act'[s][c] = act[s][c]
    BY <2>2, <2>4
  <2>3. 0 <= row[s].rev
    BY <1>1
  <2>. QED
    BY <2>1, <2>2, <2>3 DEF SessionInv
<1>4. \A q \in Revs : job[s][q].st = "none" /\ wk[s][q].pc = "idle"
  BY DEF SessionInv
<1>. QED
  BY <1>1, <1>2, <1>3, <1>4 DEF SessionInv

LEMMA RequestKeeps ==
  ASSUME TypeOK, NEW s \in Sessions, SessionInv(s),
         RequestStep(s) \/ Environment(s) \/ ReconcileStep(s)
  PROVE  SessionInv(s)'
<1>. USE DispatchAssumption
<1>0. /\ row[s] \in Row /\ row[s].status \in Statuses \cup {"absent"} /\ row[s].rev \in Revs
      /\ \A a \in ActorNames : act[s][a].pc # "idle" => row[s].status # "absent"
  BY DEF TypeOK, Row, SessionInv
<1>30. /\ "api" \in ActorNames /\ "stop" \in ActorNames
       /\ "calendar" \in ActorNames /\ "reconcile" \in ActorNames
  BY DEF ActorNames
<1>31. /\ "idle" \in ActorPcs /\ "now" \in ActorPcs /\ "bump" \in ActorPcs /\ "remove" \in ActorPcs
       /\ "schedule" \in ActorPcs /\ "move" \in ActorPcs /\ "cancel" \in ActorPcs
       /\ "kick" \in ActorPcs /\ "mark" \in ActorPcs /\ "reopen" \in ActorPcs
       /\ "resched" \in ActorPcs /\ "fail" \in ActorPcs /\ "drop" \in ActorPcs
  BY DEF ActorPcs
<1>32. /\ "cancelled" \in Statuses \ {"scheduled"} /\ "failed" \in Statuses \ {"scheduled"}
       /\ "stopping" \in Statuses \ {"scheduled"}
  BY DEF Statuses, LiveStatuses, TerminalStatuses
<1>33. /\ "user_opt_out" \in Reasons /\ "user_stopped" \in Reasons
       /\ "vexa_unavailable" \in Reasons /\ "none" \in Reasons
       /\ \A reason \in CancelReasons : reason \in Reasons
  BY DEF Reasons, AllCancelReasons
<1>34. "manual" \in Origins /\ "meeting_request" \in Origins /\ "calendar_rule" \in Origins
  BY DEF Origins
<1>. DEFINE Goal == SessionInv(s)'
            Exists == row[s].status # "absent"
<1>35. ASSUME NEW a \in ActorNames, NEW to \in Statuses \ {"scheduled"}, NEW reason \in Reasons,
              Transition(s, to, reason), NEW pc \in ActorPcs, Step(s, a, pc, act[s][a].rev),
              Exists, UNCHANGED <<job, wk>>
       PROVE  Goal
  BY <1>35, TransitionKeeps
<1>36. ASSUME NEW a \in ActorNames, NEW to \in Statuses \ {"scheduled"}, NEW reason \in Reasons,
              Transition(s, to, reason), Done(s, a), Exists, UNCHANGED <<job, wk>>
       PROVE  Goal
  BY <1>31, <1>36, TransitionKeeps DEF Done
<1>37. ASSUME NEW a \in ActorNames, NEW pc \in ActorPcs,
              Step(s, a, pc, act[s][a].rev) \/ Step(s, a, pc, 0),
              Exists, UNCHANGED <<row, job, wk>>
       PROVE  Goal
  BY <1>32, <1>33, <1>37, TransitionKeeps
<1>38. ASSUME NEW a \in ActorNames, NEW pc \in ActorPcs, Step(s, a, pc, row[s].rev),
              Exists, UNCHANGED <<row, job, wk>>
       PROVE  Goal
  <2>1. /\ act'[s][a] = [pc |-> pc, rev |-> row[s].rev]
        /\ \A o \in Sessions, c \in ActorNames : o # s \/ c # a => act'[o][c] = act[o][c]
    BY <1>0, <1>38, StepEffect
  <2>2. ASSUME NEW c \in ActorNames PROVE act'[s][c].rev <= row[s].rev
    <3>1. row[s].rev <= row[s].rev /\ act[s][c].rev <= row[s].rev
      BY <1>0 DEF SessionInv, Revs
    <3>2. c # a => act'[s][c] = act[s][c]
      BY <2>1
    <3>. QED
      BY <2>1, <3>1, <3>2
  <2>. QED
    BY <1>0, <1>38, <2>2 DEF SessionInv
<1>39. ASSUME NEW a \in ActorNames, NEW updated \in Row, NEW next \in ActorPcs,
              Reschedule(s, a, updated, next), act[s][a].pc # "idle",
              updated.status # "absent", UNCHANGED <<job, wk>>
       PROVE  Goal
  BY <1>39, RescheduleKeeps
<1>40. ASSUME NEW a \in ActorNames, NEW origin \in Origins, NEW pc \in ActorPcs,
              row[s].status = "absent", Created(s, origin), Step(s, a, pc, 0),
              UNCHANGED <<job, wk>>
       PROVE  Goal
  BY <1>40, CreationKeeps
<1>41. /\ Reopened(s) \in Row /\ [Reopened(s) EXCEPT !.origin = "meeting_request"] \in Row
      /\ Reopened(s).status = "scheduled"
      /\ [Reopened(s) EXCEPT !.origin = "meeting_request"].status = "scheduled"
  <2>1. Reopened(s) \in Row /\ Reopened(s).status = "scheduled"
    BY <1>0, <1>33 DEF Reopened, Row, Statuses
  <2>. QED
    BY <1>34, <2>1 DEF Row
<1>42. Open(s) => Exists
  BY DEF Open, Statuses, LiveStatuses, LobbyStatuses, TerminalStatuses
<1>. SUFFICES Goal
  OBVIOUS
<1>. HIDE DEF Goal
<1>1. CASE SendReopens(s)
  BY <1>1, <1>30, <1>31, <1>39, <1>41 DEF SendReopens, Doing
<1>2. ASSUME NEW a \in {"api", "reconcile"}, Bump(s, a) PROVE Goal
  BY <1>0, <1>2, <1>30, <1>31, <1>39 DEF Bump, Doing
<1>18. ASSUME NEW a \in {"api", "reconcile"}, ReadNow(s, a) PROVE Goal
  BY <1>0, <1>18, <1>30, <1>31, <1>37, <1>38 DEF ReadNow, Doing, Done
<1>3. CASE StopCancels(s)
  BY <1>0, <1>3, <1>30, <1>31, <1>32, <1>33, <1>35, <1>36 DEF StopCancels, Doing
<1>4. CASE StopKicks(s)
  BY <1>0, <1>4, <1>30, <1>31, <1>37 DEF StopKicks, Doing, Done
<1>5. CASE StopMarks(s)
  BY <1>0, <1>5, <1>30, <1>32, <1>33, <1>36 DEF StopMarks, Doing
<1>6. CASE CalendarCancels(s)
  BY <1>0, <1>6, <1>30, <1>31, <1>32, <1>33, <1>35 DEF CalendarCancels, Doing
<1>7. CASE CalendarReopens(s)
  BY <1>7, <1>30, <1>31, <1>39, <1>41 DEF CalendarReopens, Doing
<1>8. CASE CalendarReschedules(s)
  BY <1>0, <1>8, <1>30, <1>31, <1>39 DEF CalendarReschedules, Doing
<1>9. CASE JoinNow(s)
  BY <1>9, <1>30, <1>31, <1>34, <1>40 DEF JoinNow
<1>10. CASE SendNew(s)
  BY <1>10, <1>30, <1>31, <1>34, <1>40 DEF SendNew
<1>11. CASE SendSeesOptOut(s)
  BY <1>11, <1>30, <1>31, <1>38 DEF SendSeesOptOut
<1>12. CASE StopSees(s)
  BY <1>12, <1>30, <1>31, <1>38, <1>42 DEF StopSees
<1>13. CASE CalendarCreates(s)
  BY <1>13, <1>30, <1>31, <1>34, <1>40 DEF CalendarCreates
<1>14. CASE CalendarSees(s)
  BY <1>14, <1>30, <1>31, <1>38 DEF CalendarSees
<1>15. CASE ReconcileDue(s)
  BY <1>15, <1>30, <1>31, <1>38 DEF ReconcileDue
<1>16. CASE ReconcileSeesUnstarted(s)
  BY <1>16, <1>30, <1>31, <1>38 DEF ReconcileSeesUnstarted
<1>17. CASE ReconcileEnds(s)
  BY <1>0, <1>17, <1>30, <1>32, <1>33, <1>36 DEF ReconcileEnds, Doing
<1>. QED
  BY <1>1, <1>2, <1>3, <1>4, <1>5, <1>6, <1>7, <1>8, <1>9, <1>10, <1>11, <1>12,
     <1>13, <1>14, <1>15, <1>16, <1>17, <1>18
     DEF RequestStep, Environment, ReconcileStep

LEMMA QueueKeeps ==
  ASSUME TypeOK, NEW s \in Sessions, NEW a \in ActorNames, SessionInv(s),
         QueueStep(s, a) \/ EnqueueLost(s, a)
  PROVE  SessionInv(s)'
<1>. USE DispatchAssumption
<1>1. /\ row[s].rev \in Revs /\ row[s].rev \in Nat /\ act[s][a].rev \in Revs
      /\ act[s][a].rev <= row[s].rev /\ 0 \in Revs /\ "idle" \in ActorPcs
      /\ job \in [Sessions -> [Revs -> Job]]
  BY DEF TypeOK, Row, Revs, Actor, ActorPcs, SessionInv
<1>2. row' = row /\ wk' = wk /\ Step(s, a, "idle", 0)
  BY DEF QueueStep, EnqueueLost, Done
<1>3. row[s].status # "absent"
  BY DEF QueueStep, EnqueueLost, Doing, SessionInv
<1>4. ASSUME NEW c \in ActorNames PROVE act'[s][c].rev <= row[s].rev
  <2>1. /\ act'[s][a] = [pc |-> "idle", rev |-> 0]
        /\ \A o \in Sessions, d \in ActorNames : o # s \/ d # a => act'[o][d] = act[o][d]
    BY <1>1, <1>2, StepEffect
  <2>2. act[s][c].rev <= row[s].rev /\ 0 <= row[s].rev
    BY <1>1 DEF SessionInv
  <2>. QED
    BY <2>1, <2>2
<1>5. ASSUME NEW q \in Revs
      PROVE  /\ job'[s][q].st = "active" <=> job[s][q].st = "active"
             /\ job'[s][q].st = "finished" => job[s][q].st = "finished"
             /\ job'[s][q].st # "none" => job[s][q].st # "none" \/ q = act[s][a].rev
  <2>. DEFINE r == act[s][a].rev
  <2>1. CASE job' = job
    BY <2>1
  <2>2. CASE job' = Removed(job, s, r)
    BY <1>1, <2>2, QueueOnce
  <2>3. CASE job' = Added(job, s, r)
    BY <1>1, <2>3, QueueOnce
  <2>4. CASE r > 0 /\ job' = Added(Removed(job, s, r - 1), s, r)
    <3>. DEFINE less == Removed(job, s, r - 1)
    <3>1. r - 1 \in Revs
      BY <1>1, <2>4 DEF Revs
    <3>2. less \in [Sessions -> [Revs -> Job]]
      BY <1>1, <3>1, QueueTypes
    <3>3. /\ less[s][q].st = "active" <=> job[s][q].st = "active"
          /\ less[s][q].st = "finished" => job[s][q].st = "finished"
          /\ less[s][q].st # "none" => job[s][q].st # "none"
      BY <1>1, <3>1, QueueOnce
    <3>. HIDE DEF less
    <3>4. job' = Added(less, s, r)
      BY <2>4 DEF less
    <3>5. /\ Added(less, s, r)[s][q].st = "active" <=> less[s][q].st = "active"
          /\ Added(less, s, r)[s][q].st = "finished" <=> less[s][q].st = "finished"
          /\ Added(less, s, r)[s][q].st # "none" => less[s][q].st # "none" \/ q = r
      <4>1. r \in Revs
        BY <1>1
      <4>. HIDE DEF r
      <4>. QED
        BY <3>2, <4>1, QueueOnce
    <3>. QED
      BY <3>3, <3>4, <3>5
  <2>. QED
    BY <2>1, <2>2, <2>3, <2>4 DEF QueueStep, EnqueueLost
<1>6. \A q \in Revs : job'[s][q].st # "none" => q <= row[s].rev
  BY <1>1, <1>5 DEF SessionInv
<1>. QED
  BY <1>1, <1>2, <1>3, <1>4, <1>5, <1>6 DEF SessionInv

LEMMA InvInit == Init => DispatchInv
<1>. USE DispatchAssumption
<1>1. ASSUME Init, NEW s \in Sessions PROVE SessionInv(s)
  <2>1. /\ row[s].status = "absent" /\ row[s].rev = 0 /\ row[s].bot = NoBot
        /\ \A r \in Revs : job[s][r].st = "none" /\ wk[s][r].pc = "idle"
        /\ \A a \in ActorNames : act[s][a] = [pc |-> "idle", rev |-> 0]
    BY <1>1 DEF Init, Idle, JobIs
  <2>. QED
    BY <2>1 DEF SessionInv
<1>. QED
  BY <1>1, TypeInit, InvBySession

(* The strengthening is inductive.                                          *)
LEMMA InvNext == DispatchInv /\ [Next]_vars => DispatchInv'
<1>. SUFFICES ASSUME DispatchInv, [Next]_vars, NEW s \in Sessions PROVE SessionInv(s)'
  BY TypeNext, InvBySession
<1>0. TypeOK /\ \A o \in Sessions : SessionInv(o)
  BY InvBySession
<1>1. CASE UNCHANGED vars
  BY <1>0, <1>1, Untouched DEF vars
<1>2. ASSUME NEW o \in Sessions, NEW r \in Revs, DispatchStep(o, r) PROVE SessionInv(s)'
  <2>1. CASE o = s
    BY <1>0, <1>2, <2>1, DispatchKeeps
  <2>2. CASE o # s
    BY <1>0, <1>2, <2>2, TypeDispatch, Untouched DEF OnlyThisJob
  <2>. QED
    BY <2>1, <2>2
<1>3. ASSUME NEW o \in Sessions, NEW r \in Revs, StepFails(o, r) \/ WorkerCrash(o, r)
      PROVE  SessionInv(s)'
  <2>1. CASE o = s
    BY <1>0, <1>3, <2>1, CrashKeeps
  <2>2. CASE o # s
    BY <1>0, <1>3, <2>2, TypeCrash, Untouched DEF OnlyThisJob
  <2>. QED
    BY <2>1, <2>2
<1>4. ASSUME NEW o \in Sessions, NEW a \in ActorNames, QueueStep(o, a) \/ EnqueueLost(o, a)
      PROVE  SessionInv(s)'
  <2>1. CASE o = s
    BY <1>0, <1>4, <2>1, QueueKeeps
  <2>2. CASE o # s
    <3>1. OnlyThisActor(o, a) /\ row' = row
      BY <1>0, <1>4, TypeQueue
    <3>. QED
      BY <1>0, <2>2, <3>1, Untouched DEF OnlyThisActor
  <2>. QED
    BY <2>1, <2>2
<1>5. ASSUME NEW o \in Sessions, RequestStep(o) \/ ReconcileStep(o) \/ Environment(o)
      PROVE  SessionInv(s)'
  <2>1. CASE o = s
    BY <1>0, <1>5, <2>1, RequestKeeps
  <2>2. CASE o # s
    <3>1. PICK a \in ActorNames : OnlyThisActor(o, a) /\ job' = job
      BY <1>0, <1>5, TypeRequest
    <3>. QED
      BY <1>0, <2>2, <3>1, Untouched DEF OnlyThisActor
  <2>. QED
    BY <2>1, <2>2
<1>6. ASSUME NEW o \in Sessions, NEW b \in Bots, Report(o, b), row[o].status # "absent"
      PROVE  SessionInv(s)'
  <2>1. CASE o = s
    BY <1>0, <1>6, <2>1, ReportKeeps
  <2>2. CASE o # s
    BY <1>0, <1>6, <2>2, ReportEffect, Untouched
  <2>. QED
    BY <2>1, <2>2
<1>7. ASSUME NEW o \in Sessions, Poll(o) PROVE SessionInv(s)'
  <2>1. row[o].status # "absent"
    BY <1>7 DEF Poll, Live, LiveStatuses, LobbyStatuses
  <2>. QED
    BY <1>6, <1>7, <2>1 DEF Poll
<1>8. ASSUME NEW b \in Bots, BotMoves(b) \/ BotLeaves(b) PROVE SessionInv(s)'
  BY <1>0, <1>8, TypeVexa, Untouched
<1>9. ASSUME NEW b \in Bots, Webhook(b) PROVE SessionInv(s)'
  <2>1. PICK o \in Sessions : o \in ForWebhook(b) /\ Report(o, b)
    BY <1>9 DEF Webhook, ForWebhook, Owners, OpenFor
  <2>2. row[o].bot = b \/ Open(o)
    BY <2>1 DEF ForWebhook, Owners, OpenFor
  <2>3. row[o].status # "absent"
    BY <1>0, <2>2, DispatchAssumption DEF SessionInv, Open, Statuses, LiveStatuses,
       LobbyStatuses, TerminalStatuses
  <2>. QED
    BY <1>6, <2>1, <2>3
<1>10. CASE Settled
  BY <1>1, <1>10 DEF Settled
<1>. QED
  BY <1>1, <1>2, <1>3, <1>4, <1>5, <1>7, <1>8, <1>9, <1>10 DEF Next

LEMMA InvAlways == Spec => []DispatchInv
<1>. QED
  BY InvInit, InvNext, PTL DEF Spec

-----------------------------------------------------------------------------
(* The status order, and one live session per link.                         *)

(* What one step may do to the status and the rev of one session.           *)
RevStays(s) == row'[s].rev = row[s].rev

StatusLaw(s) ==
  \/ row'[s].status = row[s].status /\ RevStays(s)
  \/ row[s].status = "absent" /\ row'[s].status = "scheduled" /\ RevStays(s)
  \/ Applies(s, row'[s].status) /\ RevStays(s)
  \/ row'[s].status \in {"scheduled", row[s].status} /\ row'[s].rev > row[s].rev

OthersStay(s) == \A o \in Sessions \ {s} : row'[o] = row[o]

LEMMA TransitionLaw ==
  ASSUME TypeOK, NEW s \in Sessions, NEW to \in Statuses, NEW reason \in Reasons,
         Transition(s, to, reason)
  PROVE  StatusLaw(s)
<1>1. /\ row'[s].rev = row[s].rev
      /\ IF Applies(s, to) THEN row'[s].status = to ELSE row'[s] = row[s]
  BY TransitionEffect
<1>. QED
  BY <1>1 DEF StatusLaw, RevStays

LEMMA DispatchLaw ==
  ASSUME TypeOK, NEW s \in Sessions, NEW r \in Revs, DispatchStep(s, r)
  PROVE  StatusLaw(s)
<1>. USE DispatchAssumption
<1>0. row[s] \in Row /\ row \in [Sessions -> Row] /\ wk[s][r] \in Worker
  BY DEF TypeOK
<1>1. CASE MarkRequested(s, r)
  BY <1>1, TransitionLaw DEF MarkRequested, StatusLaw, RevStays, Statuses, LiveStatuses, Reasons
<1>2. CASE EndSession(s, r)
  <2>1. wk[s][r].end.status \in Statuses /\ wk[s][r].end.reason \in Reasons
    BY <1>0 DEF Worker, Statuses
  <2>. QED
    BY <1>2, <2>1, TransitionLaw DEF EndSession
<1>3. CASE Redelay(s, r)
  <2>1. CASE UNCHANGED row
    BY <2>1 DEF StatusLaw, RevStays
  <2>2. CASE /\ row[s].rev = r
             /\ Write(s, [row[s] EXCEPT !.status = "scheduled", !.reason = "none",
                                        !.rev = r + 1])
    <3>1. row'[s].status = "scheduled" /\ row'[s].rev = r + 1
      BY <1>0, <2>2 DEF Write, Row
    <3>2. r + 1 > r
      BY DEF Revs
    <3>. QED
      BY <2>2, <3>1, <3>2 DEF StatusLaw, RevStays
  <2>. QED
    BY <1>3, <2>1, <2>2 DEF Redelay
<1>4. CASE CountAttempt(s, r)
  BY <1>0, <1>4 DEF CountAttempt, Write, Row, StatusLaw, RevStays
<1>5. CASE RecordId(s, r)
  BY <1>0, <1>5 DEF RecordId, Write, Row, StatusLaw, RevStays
<1>6. CASE Adopt(s, r)
  BY <1>0, <1>6 DEF Adopt, Write, Row, StatusLaw, RevStays
<1>7. CASE UNCHANGED row
  BY <1>7 DEF StatusLaw, RevStays
<1>. QED
  BY <1>1, <1>2, <1>3, <1>4, <1>5, <1>6, <1>7
     DEF DispatchStep, TakeStale, TakeRetry, TakeWithdrawn, TakeScheduled, Take, Count,
         PostAccepted, PostConflict, PostRefused, PostUnanswered, CheckWithdrawn, Kick,
         FindBot, EnqueueNext

LEMMA RequestLaw ==
  ASSUME TypeOK, NEW s \in Sessions,
         RequestStep(s) \/ Environment(s) \/ ReconcileStep(s)
  PROVE  StatusLaw(s)
<1>. USE DispatchAssumption
<1>0. row[s] \in Row /\ row \in [Sessions -> Row] /\ row[s].rev \in Nat
  BY DEF TypeOK, Row, Revs
<1>1. /\ "cancelled" \in Statuses /\ "failed" \in Statuses /\ "stopping" \in Statuses
      /\ "user_opt_out" \in Reasons /\ "user_stopped" \in Reasons
      /\ "vexa_unavailable" \in Reasons
      /\ \A reason \in CancelReasons : reason \in Reasons
  BY DEF Statuses, LiveStatuses, TerminalStatuses, Reasons, AllCancelReasons
<1>2. CASE UNCHANGED row
  BY <1>2 DEF StatusLaw, RevStays
<1>3. ASSUME NEW origin, Created(s, origin), row[s].status = "absent" PROVE StatusLaw(s)
  BY <1>0, <1>3 DEF Created, Write, Row, StatusLaw, RevStays
<1>4. ASSUME NEW a \in ActorNames, NEW updated \in Row, NEW next \in ActorPcs,
             updated.status \in {"scheduled", row[s].status}, Reschedule(s, a, updated, next)
      PROVE  StatusLaw(s)
  <2>1. \/ row' = row
        \/ row'[s].rev = row[s].rev + 1 /\ row'[s].status = updated.status
    BY <1>4, RescheduleEffect
  <2>2. row[s].rev + 1 > row[s].rev
    BY <1>0
  <2>. QED
    BY <1>4, <2>1, <2>2 DEF StatusLaw, RevStays
<1>5. /\ Reopened(s) \in Row /\ [Reopened(s) EXCEPT !.origin = "meeting_request"] \in Row
      /\ Reopened(s).status = "scheduled"
      /\ [Reopened(s) EXCEPT !.origin = "meeting_request"].status = "scheduled"
  <2>1. Reopened(s) \in Row /\ Reopened(s).status = "scheduled"
    BY <1>0 DEF Reopened, Row, Statuses, Reasons
  <2>. QED
    BY <2>1 DEF Row, Origins
<1>6. /\ "api" \in ActorNames /\ "calendar" \in ActorNames /\ "reconcile" \in ActorNames
      /\ "schedule" \in ActorPcs /\ "move" \in ActorPcs /\ "now" \in ActorPcs
  BY DEF ActorNames, ActorPcs
<1>7. CASE SendReopens(s)
  BY <1>4, <1>5, <1>6, <1>7 DEF SendReopens
<1>8. CASE Bump(s, "api") \/ Bump(s, "reconcile") \/ CalendarReschedules(s)
  BY <1>0, <1>4, <1>6, <1>8 DEF Bump, CalendarReschedules
<1>9. CASE CalendarReopens(s)
  BY <1>4, <1>5, <1>6, <1>9 DEF CalendarReopens
<1>10. CASE StopCancels(s) \/ StopMarks(s) \/ CalendarCancels(s) \/ ReconcileEnds(s)
  BY <1>1, <1>10, TransitionLaw DEF StopCancels, StopMarks, CalendarCancels, ReconcileEnds
<1>11. CASE JoinNow(s) \/ SendNew(s) \/ CalendarCreates(s)
  BY <1>3, <1>11 DEF JoinNow, SendNew, CalendarCreates
<1>. QED
  BY <1>2, <1>7, <1>8, <1>9, <1>10, <1>11
     DEF RequestStep, Environment, ReconcileStep, StopKicks, StopSees, SendSeesOptOut,
         CalendarSees, ReadNow, ReconcileDue, ReconcileSeesUnstarted

(* Every step changes the status of one session at most, and by that law.   *)
LEMMA NextLaw ==
  ASSUME TypeOK, [Next]_vars
  PROVE  row' = row \/ \E s \in Sessions : StatusLaw(s) /\ OthersStay(s)
<1>1. CASE UNCHANGED vars
  BY <1>1 DEF vars
<1>2. ASSUME NEW s \in Sessions, NEW r \in Revs, DispatchStep(s, r)
      PROVE  StatusLaw(s) /\ OthersStay(s)
  BY <1>2, DispatchLaw, TypeDispatch DEF OnlyThisJob, OthersStay
<1>3. ASSUME NEW s \in Sessions, RequestStep(s) \/ Environment(s) \/ ReconcileStep(s)
      PROVE  StatusLaw(s) /\ OthersStay(s)
  BY <1>3, RequestLaw, TypeRequest DEF OnlyThisActor, OthersStay
<1>4. ASSUME NEW s \in Sessions, NEW b \in Bots, Report(s, b)
      PROVE  StatusLaw(s) /\ OthersStay(s)
  BY <1>4, ReportEffect DEF StatusLaw, RevStays, OthersStay
<1>5. ASSUME NEW s \in Sessions, Poll(s) PROVE StatusLaw(s) /\ OthersStay(s)
  BY <1>4, <1>5 DEF Poll
<1>6. ASSUME NEW b \in Bots, Webhook(b)
      PROVE  \E s \in Sessions : StatusLaw(s) /\ OthersStay(s)
  BY <1>4, <1>6 DEF Webhook, ForWebhook, Owners, OpenFor
<1>8. ASSUME NEW b \in Bots, BotMoves(b) \/ BotLeaves(b) PROVE row' = row
  BY <1>8 DEF BotMoves, BotLeaves
<1>9. CASE Settled
  BY <1>9 DEF Settled, vars
<1>10. ASSUME NEW s \in Sessions, NEW a \in ActorNames, QueueStep(s, a) \/ EnqueueLost(s, a)
       PROVE  row' = row
  BY <1>10 DEF QueueStep, EnqueueLost
<1>11. ASSUME NEW s \in Sessions, NEW r \in Revs, StepFails(s, r) \/ WorkerCrash(s, r)
       PROVE  row' = row
  BY <1>11 DEF StepFails, WorkerCrash
<1>. QED
  BY <1>1, <1>2, <1>3, <1>5, <1>6, <1>8, <1>9, <1>10, <1>11 DEF Next

(* store-postgres.ts, dispatch.ts: a status never goes back, but for a       *)
(* reschedule, which takes a new dispatch_rev.                              *)
THEOREM NoStepBack == Spec => BackOnlyUnderNewRev
<1>. DEFINE Law(s) == \/ row[s].status = "absent"
                      \/ row'[s].status = row[s].status
                      \/ CanTransition(row[s].status, row'[s].status)
                      \/ row'[s].status = "scheduled" /\ row'[s].rev > row[s].rev
<1>1. ASSUME TypeOK, [Next]_vars PROVE \A s \in Sessions : Law(s)
  <2>1. \A s \in Sessions : StatusLaw(s) => Law(s)
    BY DEF StatusLaw, Applies, RevStays
  <2>. QED
    BY <1>1, <2>1, NextLaw DEF OthersStay
<1>2. TypeOK /\ [Next]_vars => [\A s \in Sessions : Law(s)]_vars
  BY <1>1
<1>. QED
  BY <1>2, TypeCorrect, PTL DEF Spec, BackOnlyUnderNewRev

LEMMA OneLiveNext == TypeOK /\ OneLivePerTarget /\ [Next]_vars => OneLivePerTarget'
<1>. SUFFICES ASSUME TypeOK, OneLivePerTarget, [Next]_vars,
                     NEW s \in Sessions, NEW o \in Sessions \ {s}, TargetOf[o] = TargetOf[s],
                     WorkspaceOf[o] = WorkspaceOf[s], Live(s)', Live(o)'
              PROVE  FALSE
  BY DEF OneLivePerTarget, Twins
<1>1. ~(Live(s) /\ Live(o))
  BY DEF OneLivePerTarget, Twins
<1>2. CASE row' = row
  BY <1>1, <1>2 DEF Live
<1>3. ASSUME NEW p \in Sessions, NEW q \in Sessions, p # q, TargetOf[p] = TargetOf[q],
             WorkspaceOf[p] = WorkspaceOf[q], StatusLaw(p), OthersStay(p),
             Live(p)', Live(q)'
      PROVE  Live(p) /\ Live(q)
  <2>1. row'[q] = row[q]
    BY <1>3 DEF OthersStay
  <2>2. Live(q)
    BY <1>3, <2>1 DEF Live
  <2>3. ~Applies(p, row'[p].status)
    BY <1>3, <2>2 DEF Applies, Conflicts, Twins, Live
  <2>4. row'[p].status # "scheduled"
    BY <1>3 DEF Live, LiveStatuses, LobbyStatuses
  <2>. QED
    BY <1>3, <2>2, <2>3, <2>4 DEF StatusLaw, Live
<1>4. CASE \E p \in Sessions : StatusLaw(p) /\ OthersStay(p)
  <2>1. PICK p \in Sessions : StatusLaw(p) /\ OthersStay(p)
    BY <1>4
  <2>2. CASE p = s
    BY <1>1, <1>3, <2>1, <2>2
  <2>3. CASE p = o
    BY <1>1, <1>3, <2>1, <2>3
  <2>4. CASE p # s /\ p # o
    BY <1>1, <2>1, <2>4 DEF OthersStay, Live
  <2>. QED
    BY <2>2, <2>3, <2>4
<1>. QED
  BY <1>2, <1>4, NextLaw

(* db/migrations/024: one live session of a workspace per meeting link.     *)
THEOREM OneLive == Spec => []OneLivePerTarget
<1>1. Init => OneLivePerTarget
  BY DEF Init, OneLivePerTarget, Twins, Live, LiveStatuses, LobbyStatuses
<1>. QED
  BY <1>1, OneLiveNext, TypeCorrect, PTL DEF Spec

-----------------------------------------------------------------------------
(* No scheduled session is stranded but by faults.  A job loses an attempt  *)
(* or a worker to a fault that is counted, or past the mark, when it is not *)
(* that of a scheduled session.                                             *)
JobLaw(s, q) ==
  \/ Lost(job'[s][q]) <= Lost(job[s][q]) /\ faults' \in {faults, faults + 1}
  \/ Lost(job'[s][q]) = Lost(job[s][q]) + 1 /\ faults' = faults + 1
  \/ ~(row[s].status = "scheduled" /\ row[s].rev = q) /\ row'[s] = row[s]
       /\ faults' = faults

LEMMA JobStays ==
  ASSUME TypeOK, NEW s \in Sessions, NEW q \in Revs, job'[s][q] = job[s][q],
         faults' \in {faults, faults + 1}
  PROVE  JobLaw(s, q)
<1>1. Lost(job[s][q]) \in Nat
  BY JobFields DEF TypeOK
<1>. QED
  BY <1>1 DEF JobLaw

LEMMA JobEnds ==
  ASSUME TypeOK, NEW s \in Sessions, NEW q \in Revs, NEW j \in Job, j.st = "finished",
         job'[s][q] = j, faults' = faults
  PROVE  JobLaw(s, q)
<1>1. Lost(job[s][q]) \in Nat /\ Lost(j) = 0
  BY JobFields DEF TypeOK
<1>. QED
  BY <1>1 DEF JobLaw

LEMMA DispatchFaults ==
  ASSUME NEW s \in Sessions, NEW r \in Revs, DispatchStep(s, r)
  PROVE  faults' = faults
BY DEF DispatchStep, TakeStale, TakeRetry, TakeWithdrawn, TakeScheduled, Take, Count,
       MarkRequested, CountAttempt, PostAccepted, PostConflict, PostRefused, PostUnanswered,
       RecordId, CheckWithdrawn, Kick, FindBot, Adopt, Redelay, EnqueueNext, EndSession

LEMMA DispatchJobLaw ==
  ASSUME TypeOK, NEW s \in Sessions, NEW r \in Revs, SessionInv(s), DispatchStep(s, r),
         NEW q \in Revs
  PROVE  JobLaw(s, q)
<1>. USE DispatchAssumption
<1>0. /\ faults' = faults /\ job[s][r] \in Job /\ job[s][q] \in Job
      /\ job \in [Sessions -> [Revs -> Job]]
  BY DispatchFaults DEF TypeOK
<1>1. ASSUME job' = job PROVE JobLaw(s, q)
  BY <1>0, <1>1, JobStays
<1>2. ASSUME NEW j \in Job, SetJob(s, r, j), q # r PROVE JobLaw(s, q)
  <2>1. job'[s][q] = job[s][q]
    BY <1>2, SetJobEffect
  <2>. QED
    BY <1>0, <2>1, JobStays
<1>3. ASSUME NEW j \in Job, SetJob(s, r, j), j.st = "finished" PROVE JobLaw(s, q)
  <2>1. CASE q = r
    <3>1. job'[s][q] = j
      BY <1>3, <2>1, SetJobEffect
    <3>. QED
      BY <1>0, <1>3, <3>1, JobEnds
  <2>. QED
    BY <1>2, <1>3, <2>1
<1>4. ASSUME Finish(s, r) PROVE JobLaw(s, q)
  BY <1>3, <1>4, JobValues DEF Finish
<1>5. ASSUME job[s][r].st = "waiting", SetJob(s, r, [job[s][r] EXCEPT !.st = "active"])
      PROVE  JobLaw(s, q)
  <2>. DEFINE j == [job[s][r] EXCEPT !.st = "active"]
  <2>1. j \in Job /\ Lost(j) = Lost(job[s][r]) /\ Lost(job[s][r]) \in Nat
    BY <1>0, <1>5, TakenJob, JobFields
  <2>2. SetJob(s, r, j)
    BY <1>5
  <2>. HIDE DEF j
  <2>3. CASE q = r
    BY <1>0, <2>1, <2>2, <2>3, SetJobEffect DEF JobLaw
  <2>. QED
    BY <1>2, <2>1, <2>2, <2>3
<1>6. ASSUME Throw(s, r), At(s, r, "post") \/ At(s, r, "record") \/ At(s, r, "kick")
                            \/ At(s, r, "find") \/ At(s, r, "adopt"), row' = row
      PROVE  JobLaw(s, q)
  <2>1. PICK j \in Job : SetJob(s, r, j)
    BY <1>6, Throws DEF At
  <2>2. ~(row[s].status = "scheduled" /\ row[s].rev = r)
    BY <1>6 DEF At, SessionInv
  <2>. QED
    BY <1>0, <1>2, <1>6, <2>1, <2>2 DEF JobLaw
<1>11. CASE TakeStale(s, r)
  BY <1>3, <1>11, JobValues DEF TakeStale
<1>12. CASE TakeRetry(s, r) \/ TakeWithdrawn(s, r) \/ TakeScheduled(s, r)
  BY <1>5, <1>12 DEF TakeRetry, TakeWithdrawn, TakeScheduled, Take
<1>13. CASE MarkRequested(s, r)
  BY <1>1, <1>4, <1>13 DEF MarkRequested
<1>14. CASE PostUnanswered(s, r)
  BY <1>1, <1>6, <1>14 DEF PostUnanswered
<1>15. CASE RecordId(s, r)
  BY <1>1, <1>6, <1>15 DEF RecordId
<1>16. CASE CheckWithdrawn(s, r)
  BY <1>1, <1>4, <1>16 DEF CheckWithdrawn
<1>17. CASE Kick(s, r)
  BY <1>1, <1>4, <1>6, <1>17 DEF Kick
<1>18. CASE FindBot(s, r)
  BY <1>1, <1>6, <1>18 DEF FindBot
<1>19. CASE Adopt(s, r)
  BY <1>1, <1>6, <1>19 DEF Adopt
<1>20. CASE Redelay(s, r)
  BY <1>1, <1>4, <1>20 DEF Redelay
<1>21. CASE EndSession(s, r)
  BY <1>4, <1>21 DEF EndSession
<1>22. CASE EnqueueNext(s, r)
  <2>. DEFINE jobs == Added(job, s, r + 1)
              done == JobIs("finished")
  <2>1. r + 1 \in Revs
    BY <1>22 DEF EnqueueNext, Revs
  <2>2. jobs \in [Sessions -> [Revs -> Job]] /\ Lost(jobs[s][q]) <= Lost(job[s][q])
    BY <1>0, <2>1, QueueTypes, QueueOnce
  <2>3. job' = [jobs EXCEPT ![s][r] = done] /\ done \in Job /\ done.st = "finished"
    BY <1>22, JobValues DEF EnqueueNext
  <2>. HIDE DEF jobs, done
  <2>4. CASE q = r
    <3>1. job'[s][q] = done
      BY <2>2, <2>3, <2>4
    <3>. QED
      BY <1>0, <2>3, <3>1, JobEnds
  <2>5. CASE q # r
    <3>1. job'[s][q] = jobs[s][q]
      BY <2>2, <2>3, <2>5
    <3>. QED
      BY <1>0, <2>2, <3>1 DEF JobLaw
  <2>. QED
    BY <2>4, <2>5
<1>. QED
  BY <1>1, <1>11, <1>12, <1>13, <1>14, <1>15, <1>16, <1>17, <1>18, <1>19, <1>20, <1>21, <1>22
     DEF DispatchStep, Count, CountAttempt, PostAccepted, PostConflict, PostRefused

LEMMA QueueJobLaw ==
  ASSUME TypeOK, NEW s \in Sessions, NEW a \in ActorNames,
         QueueStep(s, a) \/ EnqueueLost(s, a), NEW o \in Sessions, NEW q \in Revs
  PROVE  JobLaw(o, q)
<1>. USE DispatchAssumption
<1>. DEFINE r == act[s][a].rev
<1>1. /\ r \in Revs /\ r \in Nat /\ job \in [Sessions -> [Revs -> Job]]
      /\ faults' \in {faults, faults + 1} /\ Lost(job[o][q]) \in Nat
  <2>1. r \in Revs /\ r \in Nat /\ job \in [Sessions -> [Revs -> Job]]
    BY DEF TypeOK, Actor, Revs
  <2>2. faults' \in {faults, faults + 1}
    BY DEF QueueStep, EnqueueLost
  <2>. QED
    BY <2>1, <2>2, JobFields
<1>2. \/ job' = job
      \/ job' = Removed(job, s, r)
      \/ job' = Added(job, s, r)
      \/ r > 0 /\ job' = Added(Removed(job, s, r - 1), s, r)
  BY DEF QueueStep, EnqueueLost
<1>. HIDE DEF r
<1>3. ASSUME NEW jobs, jobs \in [Sessions -> [Revs -> Job]], NEW p \in Revs
      PROVE  /\ Lost(Added(jobs, s, p)[o][q]) <= Lost(jobs[o][q])
             /\ Lost(Removed(jobs, s, p)[o][q]) <= Lost(jobs[o][q])
  <2>1. Lost(jobs[o][q]) \in Nat
    BY <1>3, JobFields
  <2>2. CASE o = s
    BY <1>3, <2>2, QueueOnce
  <2>3. CASE o # s
    <3>1. Added(jobs, s, p)[o][q] = jobs[o][q] /\ Removed(jobs, s, p)[o][q] = jobs[o][q]
      BY <1>3, <2>3 DEF Added, Removed
    <3>. QED
      BY <2>1, <3>1
  <2>. QED
    BY <2>2, <2>3
<1>4. CASE job' = job
  BY <1>1, <1>4, JobStays
<1>5. CASE job' = Removed(job, s, r) \/ job' = Added(job, s, r)
  BY <1>1, <1>3, <1>5 DEF JobLaw
<1>6. CASE r > 0 /\ job' = Added(Removed(job, s, r - 1), s, r)
  <2>. DEFINE less == Removed(job, s, r - 1)
  <2>1. r - 1 \in Revs
    BY <1>1, <1>6 DEF Revs
  <2>2. /\ less \in [Sessions -> [Revs -> Job]] /\ Lost(less[o][q]) <= Lost(job[o][q])
        /\ Lost(less[o][q]) \in Nat
    <3>1. less \in [Sessions -> [Revs -> Job]]
      BY <1>1, <2>1, QueueTypes
    <3>2. Lost(less[o][q]) <= Lost(job[o][q])
      BY <1>1, <1>3, <2>1
    <3>. HIDE DEF less
    <3>. QED
      BY <3>1, <3>2, JobFields
  <2>3. job' = Added(less, s, r)
    BY <1>6
  <2>. HIDE DEF less
  <2>4. job' \in [Sessions -> [Revs -> Job]] /\ Lost(job'[o][q]) <= Lost(less[o][q])
    BY <1>1, <1>3, <2>2, <2>3, QueueTypes
  <2>5. Lost(job'[o][q]) \in Nat
    BY <2>4, JobFields
  <2>. QED
    BY <1>1, <2>2, <2>4, <2>5 DEF JobLaw
<1>. QED
  BY <1>2, <1>4, <1>5, <1>6

LEMMA NextJobLaw ==
  ASSUME DispatchInv, [Next]_vars, NEW s \in Sessions, NEW q \in Revs
  PROVE  JobLaw(s, q)
<1>0. TypeOK /\ \A o \in Sessions : SessionInv(o)
  BY InvBySession
<1>1. ASSUME UNCHANGED <<job, faults>> PROVE JobLaw(s, q)
  BY <1>0, <1>1, JobStays
<1>2. ASSUME NEW o \in Sessions, NEW r \in Revs, DispatchStep(o, r) PROVE JobLaw(s, q)
  <2>1. CASE o = s
    BY <1>0, <1>2, <2>1, DispatchJobLaw
  <2>2. CASE o # s
    <3>1. job'[s][q] = job[s][q] /\ faults' = faults
      BY <1>0, <1>2, <2>2, TypeDispatch, DispatchFaults DEF OnlyThisJob
    <3>. QED
      BY <1>0, <3>1, JobStays
  <2>. QED
    BY <2>1, <2>2
<1>3. ASSUME NEW o \in Sessions, NEW r \in Revs, StepFails(o, r) \/ WorkerCrash(o, r)
      PROVE  JobLaw(s, q)
  <2>1. /\ Lost(job'[o][r]) = Lost(job[o][r]) + 1 /\ faults' = faults + 1
        /\ o # s \/ r # q => job'[s][q] = job[s][q]
    BY <1>0, <1>3, TypeCrash DEF OnlyThisJob
  <2>2. CASE o = s /\ r = q
    BY <2>1, <2>2 DEF JobLaw
  <2>3. CASE o # s \/ r # q
    BY <1>0, <2>1, <2>3, JobStays
  <2>. QED
    BY <2>2, <2>3
<1>4. ASSUME NEW o \in Sessions, NEW a \in ActorNames, QueueStep(o, a) \/ EnqueueLost(o, a)
      PROVE  JobLaw(s, q)
  BY <1>0, <1>4, QueueJobLaw
<1>5. ASSUME NEW o \in Sessions, RequestStep(o) \/ ReconcileStep(o) \/ Environment(o)
      PROVE  JobLaw(s, q)
  BY <1>1, <1>5
     DEF RequestStep, Environment, ReconcileStep, StopKicks, StopSees, SendSeesOptOut,
         CalendarSees, ReadNow, ReconcileDue, ReconcileSeesUnstarted, SendReopens, Bump,
         StopCancels, StopMarks, CalendarCancels, CalendarReopens, CalendarReschedules,
         JoinNow, SendNew, CalendarCreates, ReconcileEnds
<1>6. ASSUME NEW b \in Bots, BotMoves(b) \/ BotLeaves(b) \/ Webhook(b) PROVE JobLaw(s, q)
  BY <1>1, <1>6 DEF BotMoves, BotLeaves, Webhook, Report
<1>7. ASSUME NEW o \in Sessions, Poll(o) PROVE JobLaw(s, q)
  BY <1>1, <1>7 DEF Poll, Report
<1>8. CASE Settled \/ UNCHANGED vars
  BY <1>1, <1>8 DEF Settled, vars
<1>. QED
  BY <1>2, <1>3, <1>4, <1>5, <1>6, <1>7, <1>8 DEF Next

LEMMA FaultsNext ==
  DispatchInv /\ DispatchInv' /\ AttemptsAreFaults /\ [Next]_vars => AttemptsAreFaults'
<1>. SUFFICES ASSUME DispatchInv, DispatchInv', AttemptsAreFaults, [Next]_vars,
                     NEW s \in Sessions, row'[s].status = "scheduled"
              PROVE  Lost(job'[s][row'[s].rev]) <= faults'
  BY DEF AttemptsAreFaults
<1>. DEFINE q == row'[s].rev
<1>0. /\ TypeOK /\ TypeOK' /\ SessionInv(s) /\ q \in Revs /\ row[s].rev \in Revs
      /\ q \in Nat /\ row[s].rev \in Nat
      /\ Lost(job[s][q]) \in Nat /\ Lost(job'[s][q]) \in Nat
      /\ faults \in Nat /\ faults' \in Nat
  <2>1. TypeOK /\ TypeOK' /\ SessionInv(s)
    BY InvBySession DEF DispatchInv
  <2>2. q \in Revs /\ row[s].rev \in Revs
    BY <2>1 DEF TypeOK, Row
  <2>3. job[s][q] \in Job /\ job'[s][q] \in Job
    BY <2>1, <2>2 DEF TypeOK
  <2>4. /\ q \in Nat /\ row[s].rev \in Nat /\ faults \in Nat /\ faults' \in Nat
    BY <2>1, <2>2, DispatchAssumption DEF TypeOK, Revs
  <2>. QED
    BY <2>1, <2>2, <2>3, <2>4, JobFields
<1>1. JobLaw(s, q)
  BY <1>0, NextJobLaw
<1>2. row'[s] = row[s] \/ StatusLaw(s)
  BY <1>0, NextLaw DEF OthersStay
<1>. HIDE DEF q
<1>3. CASE row[s].status = "scheduled" /\ row[s].rev = q
  <2>1. Lost(job[s][q]) <= faults
    BY <1>3 DEF AttemptsAreFaults
  <2>. QED
    BY <1>0, <1>1, <1>3, <2>1 DEF JobLaw, q
<1>4. CASE ~(row[s].status = "scheduled" /\ row[s].rev = q)
  <2>1. row'[s] # row[s]
    BY <1>4 DEF q
  <2>2. \/ row[s].status = "absent"
        \/ q > row[s].rev
    <3>1. CASE row[s].status # "absent" /\ Applies(s, row'[s].status)
      <4>1. row[s].status \in Statuses
        BY <1>0, <3>1 DEF TypeOK, Row
      <4>. QED
        BY <3>1, <4>1 DEF Applies, CanTransition, Rank, Statuses, LiveStatuses,
                          TerminalStatuses, LobbyStatuses
    <3>. QED
      BY <1>2, <1>4, <2>1, <3>1 DEF StatusLaw, RevStays, q
  <2>3. job[s][q].st = "none"
    BY <1>0, <2>2 DEF SessionInv
  <2>4. Lost(job[s][q]) = 0
    BY <1>0, <2>3, JobFields DEF TypeOK
  <2>. QED
    BY <1>0, <1>1, <2>1, <2>4 DEF JobLaw, q
<1>. QED
  BY <1>3, <1>4

(* dispatch.ts, reconcile.ts: no scheduled session is stranded behind a job *)
(* of its own rev that is over, but by faults before the mark that used up  *)
(* every attempt of that job, or one more worker than it may lose.          *)
THEOREM ScheduledIsNotStranded == Spec => []NoStrandedSession
<1>1. Init => AttemptsAreFaults
  BY DEF Init, AttemptsAreFaults
<1>2. DispatchInv /\ AttemptsAreFaults => NoStrandedSession
  <2>1. ASSUME DispatchInv, NEW s \in Sessions PROVE job[s][row[s].rev] \in Job
    BY <2>1 DEF DispatchInv, TypeOK, Row
  <2>. QED
    BY <2>1, JobFields DEF DispatchInv, NoReturnedJob, AttemptsAreFaults,
                           NoStrandedSession, SpentByFaults
<1>. QED
  BY <1>1, <1>2, InvAlways, FaultsNext, PTL DEF Spec
=============================================================================
