------------------------- MODULE IntegrationDelivery -------------------------
(***************************************************************************)
(* Delivering the recap of one meeting by one rule (lib/integrations/core: *)
(* dispatcher, deliver, deliveries, worker; lib/integrations/email-recap). *)
(*                                                                         *)
(* An event of the meeting is dispatched: a delivery row is inserted under *)
(* the rule's idempotency key and a job is added to the queue.  A worker   *)
(* that takes a job of the row claims it with a lease, asks the rule again *)
(* whether it may send, and sends one email per recipient, writing its     *)
(* intent before and its result after each.  Jobs are retried by the       *)
(* queue; rows whose lease ran out are taken up again by a tick, which     *)
(* also queues rows whose first enqueue was lost; users retry failed ones. *)
(*                                                                         *)
(* The provider is the email recap: it needs no connection, and keeps all  *)
(* it knows of earlier attempts in the row.                                *)
(***************************************************************************)
EXTENDS Naturals, FiniteSets

CONSTANTS
  Workers, NoWorker,  \* processes that run jobs of the queue, and "nobody"
  Rows,               \* delivery rows of the rule and the meeting
  Events,             \* events of the meeting that trigger the rule
  Recipients, Nobody, \* of the recap, and "no recipient"
  Gates,              \* what evaluateRule may say at some time, of AllGates
  MaxAttempts,        \* MEETSUM_INTEGRATION_MAX_ATTEMPTS
  Faults,             \* the kinds of AllFaults that may happen
  MaxFaults,          \* bound: how many of them
  MaxRetries,         \* bound: retries by users
  MaxTurns            \* bound: changes of the gate

(* open: send; shut: a skip that a later change can undo (recap off, private *)
(* meeting); barred: any other skip; off: the rule is disabled or deleted.   *)
AllGates == {"open", "shut", "barred", "off"}

AllFaults == {"crash", "lock", "slow", "save", "unsure", "enqueue", "tick", "retry"}

ASSUME DeliveryAssumption ==
  /\ NoWorker \notin Workers /\ Nobody \notin Recipients
  /\ IsFiniteSet(Recipients)
  /\ "open" \in Gates /\ Gates \subseteq AllGates
  /\ MaxAttempts \in Nat \ {0}
  /\ Faults \subseteq AllFaults
  /\ MaxFaults \in Nat /\ MaxRetries \in Nat /\ MaxTurns \in Nat

VARIABLES
  row,      \* integration_deliveries
  job,      \* BullMQ: the jobs of a row, by the kind and number of their id
  adding,   \* jobs that some process is about to add
  wk,       \* the delivery each worker is running
  gate,     \* what evaluateRule says now
  got,      \* emails each recipient was sent
  fired,    \* events that were dispatched
  faults, retries, turns

vars == <<row, job, adding, wk, gate, got, fired, faults, retries, turns>>

Statuses == {"none", "queued", "running", "retrying", "sent", "partial",
             "skipped", "failed", "cancelled"}

Terminal == {"sent", "partial", "skipped", "failed", "cancelled"}

Progress == [sent : SUBSET Recipients, pending : SUBSET Recipients]

(* Mutant: a retry forgets the pending recipient.                           *)
KnownSent(progress) == progress.sent

(* A retry treats a pending recipient as already sent.                      *)
Known(progress) == progress.sent \cup progress.pending

Row == [st : Statuses,
        key : BOOLEAN,                    \* holds the rule's idempotency key
        attempts : Nat,                   \* claims since the dispatch or a retry
        lease : {"none", "held", "over"},
        progress : Progress]

(* deliverJobId: the row's id, :r<attempts> from the tick, :r<now> from users. *)
Base == <<"base", 0>>

Ids == {Base} \cup ({"tick"} \X (1..MaxAttempts)) \cup ({"user"} \X (1..MaxRetries))

Job == [st : {"none", "waiting", "active", "done"}, tries : 0..(MaxAttempts - 1),
        by : Workers \cup {NoWorker}, stalled : BOOLEAN]

WorkerPcs == {"idle", "check", "send", "mail", "save", "unsave", "finish", "ack"}

Outcomes == {"none", "sent", "skipped", "freed", "cancelled", "error"}

Worker == [pc : WorkerPcs,
           job : (Rows \X Ids) \cup {<<>>},
           last : BOOLEAN,                \* this attempt will not be retried
           progress : Progress,           \* what the attempt knows
           failed : SUBSET Recipients,    \* whose email failed in it
           cur : Recipients \cup {Nobody},
           out : Outcomes]

TypeOK ==
  /\ row \in [Rows -> Row]
  /\ job \in [Rows \X Ids -> Job]
  /\ adding \in SUBSET (Rows \X Ids)
  /\ wk \in [Workers -> Worker]
  /\ gate \in Gates
  /\ got \in [Recipients -> Nat]
  /\ fired \in SUBSET Events
  /\ faults \in 0..MaxFaults /\ retries \in 0..MaxRetries /\ turns \in 0..MaxTurns

NoProgress == [sent |-> {}, pending |-> {}]

NoRow == [st |-> "none", key |-> FALSE, attempts |-> 0, lease |-> "none",
          progress |-> NoProgress]

NoJob == [st |-> "none", tries |-> 0, by |-> NoWorker, stalled |-> FALSE]

Idle == [pc |-> "idle", job |-> <<>>, last |-> FALSE, progress |-> NoProgress,
         failed |-> {}, cur |-> Nobody, out |-> "none"]

Init ==
  /\ row = [d \in Rows |-> NoRow]
  /\ job = [j \in Rows \X Ids |-> NoJob]
  /\ adding = {}
  /\ wk = [w \in Workers |-> Idle]
  /\ gate = "open"
  /\ got = [x \in Recipients |-> 0]
  /\ fired = {}
  /\ faults = 0 /\ retries = 0 /\ turns = 0

Fault(kind) ==
  /\ kind \in Faults /\ faults < MaxFaults
  /\ faults' = faults + 1

SetRow(d, r) == row' = [row EXCEPT ![d] = r]

SetJob(j, v) == job' = [job EXCEPT ![j] = v]

SetWorker(w, v) == wk' = [wk EXCEPT ![w] = v]

-----------------------------------------------------------------------------
(* The queue.  A finished job is kept under its id, which it then blocks.   *)

Waiting == [NoJob EXCEPT !.st = "waiting"]

Done == [NoJob EXCEPT !.st = "done"]

Added(j) == IF job[j].st = "none" THEN Waiting ELSE job[j]

Add(j) ==
  /\ j \in adding
  /\ adding' = adding \ {j}
  /\ SetJob(j, Added(j))
  /\ UNCHANGED <<row, wk, gate, got, fired, faults, retries, turns>>

(* The process dies before it adds the job, or the queue does not answer.   *)
LoseAdd(j) ==
  /\ j \in adding
  /\ Fault(CASE j[2][1] = "base" -> "enqueue"
             [] j[2][1] = "tick" -> "tick"
             [] j[2][1] = "user" -> "retry")
  /\ adding' = adding \ {j}
  /\ UNCHANGED <<row, job, wk, gate, got, fired, retries, turns>>

(* The queue keeps the last finished jobs only.                             *)
Evict(j) ==
  /\ job[j].st = "done"
  /\ SetJob(j, NoJob)
  /\ UNCHANGED <<row, adding, wk, gate, got, fired, faults, retries, turns>>

(* A job without a live lock is run again, but failed the second time.      *)
Stall(j) == SetJob(j, IF job[j].stalled THEN Done
                      ELSE [job[j] EXCEPT !.st = "waiting", !.by = NoWorker,
                                          !.stalled = TRUE])

-----------------------------------------------------------------------------
(* Dispatch (runIntegrationDispatch), and changes of the rule or meeting.   *)

Holder == {d \in Rows : row[d].key}

Insert(d, st, key) == SetRow(d, [NoRow EXCEPT !.st = st, !.key = key])

Dispatch(e) ==
  /\ e \notin fired
  /\ fired' = fired \cup {e}
  /\ \/ /\ gate = "off" \/ (gate # "shut" /\ Holder # {})  \* no rule, or a duplicate
        /\ UNCHANGED <<row, adding>>
     \/ \E d \in Rows :
          /\ row[d].st = "none"
          /\ \/ /\ gate = "open" /\ Holder = {}
                /\ Insert(d, "queued", TRUE)
                /\ adding' = adding \cup {<<d, Base>>}
             \/ /\ gate = "barred" /\ Holder = {}
                /\ Insert(d, "skipped", TRUE)
                /\ UNCHANGED adding
             \/ /\ gate = "shut"
                /\ Insert(d, "skipped", FALSE)
                /\ UNCHANGED adding
  /\ UNCHANGED <<job, wk, gate, got, faults, retries, turns>>

(* Someone edits the rule, the preferences, or who may see the meeting.     *)
Turn(g) ==
  /\ turns < MaxTurns /\ turns' = turns + 1
  /\ gate' = g
  /\ UNCHANGED <<row, job, adding, wk, got, fired, faults, retries>>

(* retryDelivery: the row first, then the job.                              *)
Retry(d) ==
  /\ retries < MaxRetries /\ retries' = retries + 1
  /\ row[d].st \in {"failed", "partial"}
  /\ SetRow(d, [row[d] EXCEPT !.st = "queued", !.attempts = 0, !.lease = "none"])
  /\ adding' = adding \cup {<<d, <<"user", retries + 1>>>>}
  /\ UNCHANGED <<job, wk, gate, got, fired, faults, turns>>

-----------------------------------------------------------------------------
(* An attempt (runIntegrationDelivery).                                     *)

(* Mutant: a row that another worker runs may be claimed too.               *)
ClaimableRunning(d) == row[d].st \in {"queued", "retrying", "running"}

Claimable(d) ==
  \/ row[d].st \in {"queued", "retrying"}
  \/ row[d].st = "running" /\ row[d].lease = "over"

Claim(w, d, k) ==
  /\ Claimable(d)
  /\ SetJob(<<d, k>>, [job[<<d, k>>] EXCEPT !.st = "active", !.by = w])
  /\ SetRow(d, [row[d] EXCEPT !.st = "running", !.attempts = @ + 1, !.lease = "held"])
  /\ SetWorker(w, [Idle EXCEPT
       !.pc = "check", !.job = <<d, k>>, !.progress = row[d].progress,
       !.last = \/ job[<<d, k>>].tries + 1 >= MaxAttempts
                \/ row[d].attempts + 1 >= MaxAttempts])

Noop(d, k) ==
  /\ ~Claimable(d)
  /\ SetJob(<<d, k>>, Done)
  /\ UNCHANGED <<row, wk>>

Take(w, d, k) ==
  /\ wk[w].pc = "idle" /\ job[<<d, k>>].st = "waiting"
  /\ Claim(w, d, k) \/ Noop(d, k)
  /\ UNCHANGED <<adding, gate, got, fired, faults, retries, turns>>

Del(w) == wk[w].job[1]

Check(w) ==
  /\ wk[w].pc = "check"
  /\ SetWorker(w, [wk[w] EXCEPT
       !.pc = IF gate = "open" THEN "send" ELSE "finish",
       !.out = CASE gate = "open"   -> "none"
                 [] gate = "off"    -> "cancelled"
                 [] gate = "shut"   -> "freed"
                 [] gate = "barred" -> "skipped"])
  /\ UNCHANGED <<row, job, adding, gate, got, fired, faults, retries, turns>>

(* saveProgress: the attempt knows it at once, the row if the write works.  *)
Save(w, progress) ==
  \/ SetRow(Del(w), [row[Del(w)] EXCEPT !.progress = progress]) /\ UNCHANGED faults
  \/ Fault("save") /\ UNCHANGED row

Left(w) == Recipients \ (Known(wk[w].progress) \cup wk[w].failed)

Intent(w, x) == [sent |-> Known(wk[w].progress), pending |-> {x}]

(* The intent; when it cannot be written, nothing is sent.                  *)
Intend(w, x) ==
  /\ wk[w].pc = "send" /\ x \in Left(w)
  /\ \/ /\ SetRow(Del(w), [row[Del(w)] EXCEPT !.progress = Intent(w, x)])
        /\ SetWorker(w, [wk[w] EXCEPT !.pc = "mail", !.cur = x, !.progress = Intent(w, x)])
        /\ UNCHANGED faults
     \/ /\ Fault("save")
        /\ SetWorker(w, [wk[w] EXCEPT !.pc = "finish", !.out = "error",
                                      !.progress = Intent(w, x)])
        /\ UNCHANGED row
  /\ UNCHANGED <<job, adding, gate, got, fired, retries, turns>>

(* The call: sent, not sent, or sent with an error.                         *)
Mail(w) ==
  /\ wk[w].pc = "mail"
  /\ \/ /\ got' = [got EXCEPT ![wk[w].cur] = @ + 1]
        /\ SetWorker(w, [wk[w] EXCEPT !.pc = "save"])
        /\ UNCHANGED faults
     \/ /\ SetWorker(w, [wk[w] EXCEPT !.pc = "unsave"])
        /\ UNCHANGED <<got, faults>>
     \/ /\ Fault("unsure")
        /\ got' = [got EXCEPT ![wk[w].cur] = @ + 1]
        /\ SetWorker(w, [wk[w] EXCEPT !.pc = "unsave"])
  /\ UNCHANGED <<row, job, adding, gate, fired, retries, turns>>

(* The result: the intent becomes sent, or is withdrawn.                    *)
SaveSent(w) ==
  /\ wk[w].pc = "save"
  /\ LET p == [sent |-> wk[w].progress.sent \cup {wk[w].cur}, pending |-> {}] IN
       /\ SetWorker(w, [wk[w] EXCEPT !.pc = "send", !.cur = Nobody, !.progress = p])
       /\ Save(w, p)
  /\ UNCHANGED <<job, adding, gate, got, fired, retries, turns>>

ClearIntent(w) ==
  /\ wk[w].pc = "unsave"
  /\ LET p == [sent |-> wk[w].progress.sent, pending |-> {}] IN
       /\ SetWorker(w, [wk[w] EXCEPT !.pc = "send", !.cur = Nobody, !.progress = p,
                                     !.failed = @ \cup {wk[w].cur}])
       /\ Save(w, p)
  /\ UNCHANGED <<job, adding, gate, got, fired, retries, turns>>

(* Mutant: a failed email is forgotten.                                     *)
EndSendingAnyway(w) ==
  /\ wk[w].pc = "send"
  /\ \/ /\ Left(w) = {}
        /\ SetWorker(w, [wk[w] EXCEPT !.pc = "finish", !.out = "sent",
             !.progress = [sent |-> Known(wk[w].progress), pending |-> {}]])
     \/ /\ Left(w) # {}
        /\ SetWorker(w, [wk[w] EXCEPT !.pc = "finish", !.out = "error"])
  /\ UNCHANGED <<row, job, adding, gate, got, fired, faults, retries, turns>>

(* No recipient is left, or the hourly cap is reached.                      *)
EndSending(w) ==
  /\ wk[w].pc = "send"
  /\ \/ /\ Left(w) = {} /\ wk[w].failed = {}
        /\ SetWorker(w, [wk[w] EXCEPT !.pc = "finish", !.out = "sent",
             !.progress = [sent |-> Known(wk[w].progress), pending |-> {}]])
     \/ /\ Left(w) # {} \/ wk[w].failed # {}
        /\ SetWorker(w, [wk[w] EXCEPT !.pc = "finish", !.out = "error"])
  /\ UNCHANGED <<row, job, adding, gate, got, fired, faults, retries, turns>>

Retries(w) == wk[w].out = "error" /\ ~wk[w].last

Status(w) ==
  CASE wk[w].out \in {"skipped", "freed"} -> "skipped"
    [] wk[w].out \in {"sent", "cancelled"} -> wk[w].out
    [] Retries(w) -> "retrying"
    [] wk[w].out = "error" /\ wk[w].last ->
         IF wk[w].progress.sent # {} THEN "partial" ELSE "failed"

(* Written by the row's id alone.  A skip that can be undone gives up the   *)
(* rule's key.                                                              *)
Finish(w) ==
  /\ wk[w].pc = "finish"
  /\ SetRow(Del(w), [row[Del(w)] EXCEPT
       !.st = Status(w), !.lease = "none",
       !.key = @ /\ wk[w].out # "freed",
       !.progress = IF wk[w].out \in {"sent", "error"} THEN wk[w].progress ELSE @])
  /\ SetWorker(w, [wk[w] EXCEPT !.pc = "ack"])
  /\ UNCHANGED <<job, adding, gate, got, fired, faults, retries, turns>>

(* The job returns, or throws to be retried.                                *)
Ack(w) ==
  /\ wk[w].pc = "ack"
  /\ LET j == wk[w].job IN
       IF job[j].by # w THEN UNCHANGED job
       ELSE SetJob(j, IF Retries(w)
                      THEN [job[j] EXCEPT !.st = "waiting", !.by = NoWorker, !.tries = @ + 1]
                      ELSE Done)
  /\ SetWorker(w, Idle)
  /\ UNCHANGED <<row, adding, gate, got, fired, faults, retries, turns>>

-----------------------------------------------------------------------------
(* Crashes, leases and the tick.                                            *)

Crash(w) ==
  /\ wk[w].pc # "idle"
  /\ Fault("crash")
  /\ SetWorker(w, Idle)
  /\ LET j == wk[w].job IN IF job[j].by = w THEN Stall(j) ELSE UNCHANGED job
  /\ UNCHANGED <<row, adding, gate, got, fired, retries, turns>>

(* The lock of a job is lost while its worker goes on.                      *)
LoseLock(j) ==
  /\ job[j].st = "active"
  /\ Fault("lock")
  /\ Stall(j)
  /\ UNCHANGED <<row, adding, wk, gate, got, fired, retries, turns>>

Holds(w, d) == wk[w].pc \notin {"idle", "ack"} /\ Del(w) = d

(* Ten minutes pass since the claim, and nobody runs the delivery any more. *)
LeaseEnds(d) ==
  /\ row[d].st = "running" /\ row[d].lease = "held"
  /\ \A w \in Workers : ~Holds(w, d)
  /\ SetRow(d, [row[d] EXCEPT !.lease = "over"])
  /\ UNCHANGED <<job, adding, wk, gate, got, fired, faults, retries, turns>>

(* Ten minutes pass while a slow attempt is still running.                  *)
Overrun(d) ==
  /\ row[d].st = "running" /\ row[d].lease = "held"
  /\ \E w \in Workers : Holds(w, d)
  /\ Fault("slow")
  /\ SetRow(d, [row[d] EXCEPT !.lease = "over"])
  /\ UNCHANGED <<job, adding, wk, gate, got, fired, retries, turns>>

(* Mutant: the row is taken up again under its first job.                   *)
ReclaimBase(d) ==
  /\ row[d].st = "running" /\ row[d].lease = "over"
  /\ IF row[d].attempts >= MaxAttempts
     THEN /\ SetRow(d, [row[d] EXCEPT !.st = "failed", !.lease = "none"])
          /\ UNCHANGED adding
     ELSE /\ SetRow(d, [row[d] EXCEPT !.st = "retrying", !.lease = "none"])
          /\ adding' = adding \cup {<<d, Base>>}
  /\ UNCHANGED <<job, wk, gate, got, fired, faults, retries, turns>>

(* runIntegrationTick: a lease that ran out.                                *)
Reclaim(d) ==
  /\ row[d].st = "running" /\ row[d].lease = "over"
  /\ IF row[d].attempts >= MaxAttempts
     THEN /\ SetRow(d, [row[d] EXCEPT !.st = "failed", !.lease = "none"])
          /\ UNCHANGED adding
     ELSE /\ SetRow(d, [row[d] EXCEPT !.st = "retrying", !.lease = "none"])
          /\ adding' = adding \cup {<<d, <<"tick", row[d].attempts>>>>}
  /\ UNCHANGED <<job, wk, gate, got, fired, faults, retries, turns>>

(* runIntegrationTick: a row that stayed queued.                            *)
QueueAgain(d) ==
  /\ row[d].st = "queued"
  /\ job[<<d, Base>>].st = "none"
  /\ SetJob(<<d, Base>>, Waiting)
  /\ UNCHANGED <<row, adding, wk, gate, got, fired, faults, retries, turns>>

Tick(d) == Reclaim(d) \/ QueueAgain(d)

WorkerStep(w) ==
  \/ Check(w) \/ (\E x \in Recipients : Intend(w, x)) \/ Mail(w) \/ SaveSent(w)
  \/ ClearIntent(w) \/ EndSending(w) \/ Finish(w) \/ Ack(w)

Next ==
  \/ \E j \in Rows \X Ids : Add(j) \/ LoseAdd(j) \/ Evict(j) \/ LoseLock(j)
  \/ \E e \in Events : Dispatch(e)
  \/ \E g \in Gates : Turn(g)
  \/ \E d \in Rows : Retry(d) \/ LeaseEnds(d) \/ Overrun(d) \/ Tick(d)
  \/ \E w \in Workers : WorkerStep(w) \/ Crash(w)
                        \/ \E d \in Rows, k \in Ids : Take(w, d, k)

Spec == Init /\ [][Next]_vars

(* Processes go on, waiting jobs are taken, time passes and the tick runs   *)
(* every minute.  Nobody has to retry, to edit a rule or to evict a job.    *)
Fairness ==
  /\ \A w \in Workers : WF_vars(WorkerStep(w))
  /\ \A d \in Rows, k \in Ids :
       /\ WF_vars(\E w \in Workers : Take(w, d, k))
       /\ WF_vars(Add(<<d, k>>))
  /\ \A d \in Rows : WF_vars(LeaseEnds(d)) /\ WF_vars(Tick(d))

FairSpec == Spec /\ Fairness

-----------------------------------------------------------------------------
(* Properties.                                                              *)

(* One worker at a time runs a delivery, however often its jobs are queued, *)
(* stalled or retried: no worker is pre-empted by the tick or by a user.    *)
OneHolder ==
  \A d \in Rows : \A v, w \in Workers : Holds(v, d) /\ Holds(w, d) => v = w

(* What a delivery came to is not changed afterwards, except by a user who  *)
(* retries a failed or partial one.                                         *)
OutcomeStays ==
  [][\A d \in Rows : row[d].st \in Terminal =>
       \/ row'[d].st = row[d].st
       \/ row[d].st \in {"failed", "partial"} /\ row'[d].st = "queued"]_vars

(* Nobody gets the recap twice: not by retries, crashes, failed writes, or  *)
(* events that are processed again.                                         *)
NobodyTwice == \A x \in Recipients : got[x] <= 1

(* A delivery that says it was sent reached everyone, but for one recipient *)
(* for each crash or failed write.                                          *)
Unreached == {x \in Recipients : got[x] = 0}

OneLossPerFault ==
  (\E d \in Rows : row[d].st = "sent") => Cardinality(Unreached) <= faults

(* A delivery that says it failed sent nothing; else it would be partial.   *)
FailedSentNothing ==
  \A d \in Rows : row[d].st = "failed" => row[d].progress.sent = {}

(* A delivery is attempted MaxAttempts times since the dispatch or the last *)
(* retry by a user, and once more for each fault at most.                   *)
AttemptsBounded == \A d \in Rows : row[d].attempts <= MaxAttempts + faults

Unfinished(d) == row[d].st \in {"queued", "running", "retrying"}

(* A worker that will hand its job back to the queue.                       *)
Requeues(w) == wk[w].pc = "ack" /\ Retries(w) /\ job[wk[w].job].by = w

(* Somebody still has to do with the delivery: a job waits, or is about to  *)
(* be added under an id that is free; a worker runs it or will hand its job *)
(* back; its lease ends, or the tick finds it queued without its first job. *)
Attended(d) ==
  \/ \E k \in Ids : job[<<d, k>>].st = "waiting"
  \/ \E k \in Ids \ {Base} : <<d, k>> \in adding /\ job[<<d, k>>].st = "none"
  \/ \E w \in Workers : Holds(w, d) \/ (Requeues(w) /\ Del(w) = d)
  \/ row[d].st = "running" /\ row[d].lease # "none"
  \/ row[d].st = "queued" /\ job[<<d, Base>>].st = "none"

(* No delivery is forgotten after one fault, unless the fault took the lock *)
(* of a job or a job that the tick or a user was about to add: a finished   *)
(* job blocks its id, and the row says nothing of its jobs.                 *)
NothingForgotten ==
  faults <= 1 /\ Faults \cap {"lock", "tick", "retry"} = {} =>
    \A d \in Rows : Unfinished(d) => Attended(d)

(* A delivery ends.                                                         *)
DeliveryEnds == \A d \in Rows : Unfinished(d) ~> ~Unfinished(d)
=============================================================================
