---------------------- MODULE IntegrationDelivery_proofs ----------------------
(***************************************************************************)
(* Proofs about IntegrationDelivery, for every number of workers, rows,    *)
(* events and recipients and every bound: types; that one worker at a time *)
(* runs a delivery and what it came to stays, when no attempt outlives its *)
(* lease; that nobody is mailed twice, when the provider also knows what   *)
(* it sent and no skip gives up the key of a rule; that a delivery         *)
(* that says it was sent missed one recipient for each fault at most; and  *)
(* that after one fault every unfinished delivery is still somebody's.     *)
(***************************************************************************)
EXTENDS IntegrationDelivery, FiniteSetTheorems, TLAPS

(* What an attempt knows of itself, beyond the types of its fields: it runs *)
(* a job of the queue, the recipient it mails, the outcome it writes, and,  *)
(* while the job is still its own, whether the queue will run it again.     *)
JobKnown == \A w \in Workers : wk[w].pc # "idle" => wk[w].job \in Rows \X Ids

CurKnown ==
  \A w \in Workers : wk[w].pc \in {"mail", "save", "unsave"} => wk[w].cur \in Recipients

OutKnown == \A w \in Workers : wk[w].pc = "finish" => wk[w].out # "none"

RunningCounted == \A d \in Rows : row[d].st = "running" => row[d].attempts > 0

JobOwned ==
  \A w \in Workers, j \in Rows \X Ids : job[j].by = w =>
    /\ wk[w].pc # "idle" /\ wk[w].job = j
    /\ wk[w].last \/ job[j].tries + 1 < MaxAttempts

TypeInv ==
  /\ TypeOK
  /\ JobKnown /\ CurKnown /\ OutKnown /\ RunningCounted /\ JobOwned

-----------------------------------------------------------------------------
(* The setters.                                                             *)

(* Setting one row changes that row only.                                   *)
LEMMA RowSet ==
  ASSUME TypeOK, NEW d \in Rows, NEW r \in Row, SetRow(d, r)
  PROVE  /\ row' \in [Rows -> Row]
         /\ row'[d] = r
         /\ \A c \in Rows : c # d => row'[c] = row[c]
  BY DEF TypeOK, SetRow

(* Setting one job changes that job only.                                   *)
LEMMA JobSet ==
  ASSUME TypeOK, NEW j \in Rows \X Ids, NEW v \in Job, SetJob(j, v)
  PROVE  /\ job' \in [Rows \X Ids -> Job]
         /\ job'[j] = v
         /\ \A i \in Rows \X Ids : i # j => job'[i] = job[i]
  BY DEF TypeOK, SetJob

(* Setting one worker's attempt changes that attempt only.                  *)
LEMMA WorkerSet ==
  ASSUME TypeOK, NEW w \in Workers, NEW v \in Worker, SetWorker(w, v)
  PROVE  /\ wk' \in [Workers -> Worker]
         /\ wk'[w] = v
         /\ \A u \in Workers : u # w => wk'[u] = wk[u]
  BY DEF TypeOK, SetWorker

(* The faults stay counted.                                                 *)
LEMMA FaultType ==
  ASSUME TypeOK, NEW kind, Fault(kind)
  PROVE  faults' \in 0..MaxFaults
  BY DeliveryAssumption DEF TypeOK, Fault

(* The constants the steps set a row, a job or an attempt to.               *)
LEMMA Constants ==
  /\ NoProgress \in Progress
  /\ NoRow \in Row
  /\ NoJob \in Job /\ Waiting \in Job /\ Done \in Job
  /\ NoJob.by = NoWorker /\ Waiting.by = NoWorker /\ Done.by = NoWorker
  /\ Idle \in Worker /\ Idle.pc = "idle"
  /\ Base \in Ids
  /\ \A n \in 1..MaxAttempts : <<"tick", n>> \in Ids
  /\ \A n \in 1..MaxRetries : <<"user", n>> \in Ids
  <1>1. NoProgress \in Progress
    BY DEF NoProgress, Progress
  <1>2. NoRow \in Row
    BY <1>1 DEF NoRow, Row, Statuses
  <1>3. 0 \in 0..(MaxAttempts - 1)
    BY DeliveryAssumption
  <1>4. NoJob \in Job /\ Waiting \in Job /\ Done \in Job
    BY <1>3 DEF NoJob, Waiting, Done, Job
  <1>5. NoJob.by = NoWorker /\ Waiting.by = NoWorker /\ Done.by = NoWorker
    BY DEF NoJob, Waiting, Done
  <1>6. Idle \in Worker /\ Idle.pc = "idle"
    BY <1>1 DEF Idle, Worker, WorkerPcs, Outcomes
  <1>7. Base \in Ids
    BY DEF Ids
  <1>8. \A n \in 1..MaxAttempts : <<"tick", n>> \in Ids
    BY DEF Ids
  <1>9. \A n \in 1..MaxRetries : <<"user", n>> \in Ids
    BY DEF Ids
  <1> QED
    BY <1>1, <1>2, <1>4, <1>5, <1>6, <1>7, <1>8, <1>9

(* The initial state.                                                       *)
LEMMA TypeInit == Init => TypeInv
  <1> SUFFICES ASSUME Init PROVE TypeInv
    OBVIOUS
  <1> USE Constants
  <1>1. TypeOK
    BY DeliveryAssumption DEF Init, TypeOK
  <1>2. \A w \in Workers : wk[w].pc = "idle"
    BY DEF Init
  <1>3. \A d \in Rows : row[d].st = "none"
    BY DEF Init, NoRow
  <1>4. \A j \in Rows \X Ids : job[j].by = NoWorker
    BY DEF Init
  <1> QED
    BY <1>1, <1>2, <1>3, <1>4, DeliveryAssumption
       DEF TypeInv, JobKnown, CurKnown, OutKnown, RunningCounted, JobOwned

-----------------------------------------------------------------------------
(* Types.                                                                   *)

(* A job that is set free, or was nobody's, is no worker's own.             *)
LEMMA JobFreed ==
  ASSUME TypeInv, NEW j \in Rows \X Ids, NEW v \in Job, v.by = NoWorker, SetJob(j, v),
         UNCHANGED wk
  PROVE  job' \in [Rows \X Ids -> Job] /\ JobOwned'
  <1>1. /\ job' \in [Rows \X Ids -> Job]
        /\ job'[j] = v
        /\ \A i \in Rows \X Ids : i # j => job'[i] = job[i]
    BY JobSet DEF TypeInv
  <1>2. ASSUME NEW w \in Workers, NEW i \in Rows \X Ids, job'[i].by = w
        PROVE  /\ wk[w].pc # "idle" /\ wk[w].job = i
               /\ wk[w].last \/ job'[i].tries + 1 < MaxAttempts
    <2>1. i # j
      BY <1>1, <1>2, DeliveryAssumption
    <2> QED
      BY <1>1, <1>2, <2>1 DEF TypeInv, JobOwned
  <1> QED
    BY <1>1, <1>2 DEF JobOwned

(* A stalled job is waiting or done, and nobody's.                          *)
LEMMA StallSets ==
  ASSUME TypeOK, NEW j \in Rows \X Ids, Stall(j)
  PROVE  \E v \in Job : v.by = NoWorker /\ SetJob(j, v)
  <1>1. job[j] \in Job
    BY DEF TypeOK
  <1>2. [job[j] EXCEPT !.st = "waiting", !.by = NoWorker, !.stalled = TRUE] \in Job
    BY <1>1 DEF Job
  <1>3. [job[j] EXCEPT !.st = "waiting", !.by = NoWorker, !.stalled = TRUE].by = NoWorker
    BY <1>1 DEF Job
  <1> QED
    BY <1>2, <1>3, Constants DEF Stall

(* The steps of the queue keep the types.                                   *)
LEMMA TypeQueue ==
  ASSUME TypeInv, NEW j \in Rows \X Ids
  PROVE  Add(j) \/ LoseAdd(j) \/ Evict(j) \/ LoseLock(j) => TypeInv'
  <1> USE DEF TypeInv
  <1>1. ASSUME job' \in [Rows \X Ids -> Job], JobOwned', adding' \in SUBSET (Rows \X Ids),
               faults' \in 0..MaxFaults,
               UNCHANGED <<row, wk, gate, got, fired, retries, turns>>
        PROVE  TypeInv'
    BY <1>1 DEF TypeOK, JobKnown, CurKnown, OutKnown, RunningCounted
  <1>2. ASSUME UNCHANGED <<job, wk>> PROVE job' \in [Rows \X Ids -> Job] /\ JobOwned'
    BY <1>2 DEF TypeOK, JobOwned
  <1>3. CASE Add(j)
    <2>1. CASE job[j].st = "none"
      <3>1. SetJob(j, Waiting)
        BY <1>3, <2>1 DEF Add, Added
      <3>2. job' \in [Rows \X Ids -> Job] /\ JobOwned'
        BY <1>3, <3>1, JobFreed, Constants DEF Add
      <3> QED
        BY <1>1, <1>3, <3>2 DEF Add, TypeOK
    <2>2. CASE job[j].st # "none"
      <3>1. job' = job
        BY <1>3, <2>2 DEF Add, Added, SetJob, TypeOK
      <3> QED
        BY <1>1, <1>2, <1>3, <3>1 DEF Add, TypeOK
    <2> QED
      BY <2>1, <2>2
  <1>4. CASE LoseAdd(j)
    <2>1. faults' \in 0..MaxFaults
      BY <1>4, DeliveryAssumption DEF LoseAdd, Fault, TypeOK
    <2> QED
      BY <1>1, <1>2, <1>4, <2>1 DEF LoseAdd, TypeOK
  <1>5. CASE Evict(j)
    <2>1. job' \in [Rows \X Ids -> Job] /\ JobOwned'
      BY <1>5, JobFreed, Constants DEF Evict
    <2> QED
      BY <1>1, <1>5, <2>1 DEF Evict, TypeOK
  <1>6. CASE LoseLock(j)
    <2>1. PICK v \in Job : v.by = NoWorker /\ SetJob(j, v)
      BY <1>6, StallSets DEF LoseLock
    <2>2. job' \in [Rows \X Ids -> Job] /\ JobOwned'
      BY <1>6, <2>1, JobFreed DEF LoseLock
    <2>3. faults' \in 0..MaxFaults
      BY <1>6, FaultType DEF LoseLock
    <2> QED
      BY <1>1, <1>6, <2>2, <2>3 DEF LoseLock, TypeOK
  <1> QED
    BY <1>3, <1>4, <1>5, <1>6

(* A step that sets one row, and leaves the attempts alone, keeps the types *)
(* when the row is one and is not newly running.                            *)
LEMMA TypeRow ==
  ASSUME TypeInv, NEW d \in Rows, NEW r \in Row, SetRow(d, r),
         r.st = "running" => r.attempts > 0
  PROVE  row' \in [Rows -> Row] /\ RunningCounted'
  <1>1. /\ row' \in [Rows -> Row]
        /\ row'[d] = r
        /\ \A c \in Rows : c # d => row'[c] = row[c]
    BY RowSet DEF TypeInv
  <1> QED
    BY <1>1 DEF TypeInv, RunningCounted

(* The rows that dispatch inserts, a user queues again and a tick takes up. *)
LEMMA RowSteps ==
  ASSUME TypeOK, NEW d \in Rows
  PROVE  /\ \A st \in Statuses \ {"running"}, key \in BOOLEAN :
              /\ [NoRow EXCEPT !.st = st, !.key = key] \in Row
              /\ [NoRow EXCEPT !.st = st, !.key = key].st = st
         /\ [row[d] EXCEPT !.st = "queued", !.attempts = 0, !.lease = "none"] \in Row
         /\ [row[d] EXCEPT !.st = "queued", !.attempts = 0, !.lease = "none"].st = "queued"
         /\ \A st \in {"failed", "retrying"} :
              /\ [row[d] EXCEPT !.st = st, !.lease = "none"] \in Row
              /\ [row[d] EXCEPT !.st = st, !.lease = "none"].st = st
         /\ [row[d] EXCEPT !.lease = "over"] \in Row
         /\ [row[d] EXCEPT !.lease = "over"].st = row[d].st
         /\ [row[d] EXCEPT !.lease = "over"].attempts = row[d].attempts
         /\ \A p \in Progress :
              /\ [row[d] EXCEPT !.progress = p] \in Row
              /\ [row[d] EXCEPT !.progress = p].st = row[d].st
              /\ [row[d] EXCEPT !.progress = p].attempts = row[d].attempts
  <1>1. row[d] \in Row
    BY DEF TypeOK
  <1>2. NoRow \in Row
    BY Constants
  <1> QED
    BY <1>1, <1>2 DEF Row, Statuses

(* Dispatch, the gate, users, leases and the tick keep the types.           *)
LEMMA TypeRows ==
  ASSUME TypeInv
  PROVE  /\ \A e \in Events : Dispatch(e) => TypeInv'
         /\ \A g \in Gates : Turn(g) => TypeInv'
         /\ \A d \in Rows : Retry(d) \/ LeaseEnds(d) \/ Overrun(d) \/ Tick(d) => TypeInv'
  <1> USE DEF TypeInv
  <1>1. ASSUME row' \in [Rows -> Row], RunningCounted', adding' \in SUBSET (Rows \X Ids),
               fired' \in SUBSET Events, gate' \in Gates,
               faults' \in 0..MaxFaults, retries' \in 0..MaxRetries, turns' \in 0..MaxTurns,
               UNCHANGED <<job, wk, got>>
        PROVE  TypeInv'
    BY <1>1 DEF TypeOK, JobKnown, CurKnown, OutKnown, JobOwned
  <1>2. ASSUME UNCHANGED row PROVE row' \in [Rows -> Row] /\ RunningCounted'
    BY <1>2 DEF TypeOK, RunningCounted
  <1>3. \A d \in Rows : row[d] \in Row
    BY DEF TypeOK
  <1>4. ASSUME NEW e \in Events, Dispatch(e) PROVE TypeInv'
    <2>1. fired' \in SUBSET Events
      BY <1>4 DEF Dispatch, TypeOK
    <2>2. CASE UNCHANGED <<row, adding>>
      BY <1>1, <1>2, <1>4, <2>1, <2>2 DEF Dispatch, TypeOK
    <2>3. ASSUME NEW d \in Rows, NEW st \in {"queued", "skipped"}, NEW key \in BOOLEAN,
                 Insert(d, st, key), adding' = adding \/ adding' = adding \cup {<<d, Base>>}
          PROVE  TypeInv'
      <3>1. /\ [NoRow EXCEPT !.st = st, !.key = key] \in Row
            /\ [NoRow EXCEPT !.st = st, !.key = key].st = st
        BY RowSteps, ZenonT(60) DEF Statuses
      <3>2. row' \in [Rows -> Row] /\ RunningCounted'
        BY <2>3, <3>1, TypeRow DEF Insert
      <3>3. <<d, Base>> \in Rows \X Ids
        BY Constants
      <3>4. adding' \in SUBSET (Rows \X Ids)
        BY <2>3, <3>3 DEF TypeOK
      <3> QED
        BY <1>1, <1>4, <2>1, <3>2, <3>4 DEF Dispatch, TypeOK
    <2> QED
      BY <1>4, <2>2, <2>3 DEF Dispatch
  <1>5. ASSUME NEW g \in Gates, Turn(g) PROVE TypeInv'
    <2>1. turns' \in 0..MaxTurns
      BY <1>5, DeliveryAssumption DEF Turn, TypeOK
    <2> QED
      BY <1>1, <1>2, <1>5, <2>1 DEF Turn, TypeOK
  <1>6. ASSUME NEW d \in Rows, Retry(d) PROVE TypeInv'
    <2>1. row' \in [Rows -> Row] /\ RunningCounted'
      BY <1>6, RowSteps, TypeRow DEF Retry
    <2>2. retries' \in 1..MaxRetries /\ retries' = retries + 1
      BY <1>6, DeliveryAssumption DEF Retry, TypeOK
    <2>3. <<d, <<"user", retries + 1>>>> \in Rows \X Ids
      BY <2>2, Constants
    <2>4. retries' \in 0..MaxRetries
      BY <2>2
    <2> QED
      BY <1>1, <1>6, <2>1, <2>3, <2>4 DEF Retry, TypeOK
  <1>7. ASSUME NEW d \in Rows, LeaseEnds(d) \/ Overrun(d) PROVE TypeInv'
    <2>1. SetRow(d, [row[d] EXCEPT !.lease = "over"])
      BY <1>7 DEF LeaseEnds, Overrun
    <2> DEFINE r == [row[d] EXCEPT !.lease = "over"]
    <2>2. r \in Row /\ r.st = row[d].st /\ r.attempts = row[d].attempts
      BY RowSteps
    <2>4. r.st = "running" => r.attempts > 0
      BY <2>2 DEF RunningCounted
    <2>5. SetRow(d, r)
      BY <2>1
    <2> HIDE DEF r
    <2>6. row' \in [Rows -> Row] /\ RunningCounted'
      BY <2>2, <2>4, <2>5, TypeRow
    <2>3. faults' \in 0..MaxFaults
      BY <1>7, FaultType DEF LeaseEnds, Overrun, TypeOK
    <2> QED
      BY <1>1, <1>7, <2>3, <2>6 DEF LeaseEnds, Overrun, TypeOK
  <1>8. ASSUME NEW d \in Rows, Reclaim(d) PROVE TypeInv'
    <2>1. row' \in [Rows -> Row] /\ RunningCounted'
      BY <1>8, RowSteps, TypeRow DEF Reclaim
    <2>2. row[d].attempts \in Nat /\ row[d].attempts > 0
      BY <1>3, <1>8 DEF Reclaim, RunningCounted, Row
    <2>3. row[d].attempts < MaxAttempts => row[d].attempts \in 1..MaxAttempts
      BY <2>2, DeliveryAssumption
    <2>4. row[d].attempts < MaxAttempts => <<d, <<"tick", row[d].attempts>>>> \in Rows \X Ids
      BY <2>3, Constants
    <2>5. adding' \in SUBSET (Rows \X Ids)
      BY <1>8, <2>2, <2>4, DeliveryAssumption DEF Reclaim, TypeOK
    <2> QED
      BY <1>1, <1>8, <2>1, <2>5 DEF Reclaim, TypeOK
  <1>9. ASSUME NEW d \in Rows, QueueAgain(d) PROVE TypeInv'
    <2>1. <<d, Base>> \in Rows \X Ids
      BY Constants
    <2>2. job' \in [Rows \X Ids -> Job] /\ JobOwned'
      BY <1>9, <2>1, JobFreed, Constants DEF QueueAgain
    <2> QED
      BY <1>9, <2>2 DEF QueueAgain, TypeOK, JobKnown, CurKnown, OutKnown, RunningCounted
  <1> QED
    BY <1>4, <1>5, <1>6, <1>7, <1>8, <1>9 DEF Tick

(* A step of an attempt that leaves it running the same job.                *)
LEMMA TypeAttempt ==
  ASSUME TypeInv, NEW w \in Workers, wk[w].pc # "idle", UNCHANGED job,
         NEW v \in Worker, SetWorker(w, v),
         v.pc # "idle", v.job = wk[w].job, v.last = wk[w].last,
         v.pc \in {"mail", "save", "unsave"} => v.cur \in Recipients,
         v.pc = "finish" => v.out # "none"
  PROVE  /\ wk' \in [Workers -> Worker]
         /\ JobKnown' /\ CurKnown' /\ OutKnown' /\ JobOwned'
  <1> USE DEF TypeInv
  <1>1. /\ wk' \in [Workers -> Worker]
        /\ wk'[w] = v
        /\ \A u \in Workers : u # w => wk'[u] = wk[u]
    BY WorkerSet
  <1>2. JobKnown' /\ CurKnown' /\ OutKnown'
    BY <1>1 DEF JobKnown, CurKnown, OutKnown
  <1>3. JobOwned'
    BY <1>1 DEF JobOwned
  <1> QED
    BY <1>1, <1>2, <1>3

(* Knowledge of the row is knowledge of the attempt.                        *)
LEMMA ProgressSteps ==
  ASSUME TypeOK, NEW w \in Workers
  PROVE  /\ wk[w] \in Worker /\ wk[w].progress \in Progress
         /\ wk[w].failed \in SUBSET Recipients
         /\ Known(wk[w].progress) \in SUBSET Recipients
         /\ \A x \in Recipients :
              /\ Intent(w, x) \in Progress
              /\ [sent |-> wk[w].progress.sent \cup {x}, pending |-> {}] \in Progress
         /\ [sent |-> wk[w].progress.sent, pending |-> {}] \in Progress
         /\ [sent |-> Known(wk[w].progress), pending |-> {}] \in Progress
  <1>1. wk[w] \in Worker
    BY DEF TypeOK
  <1>2. wk[w].progress \in Progress /\ wk[w].failed \in SUBSET Recipients
    BY <1>1 DEF Worker
  <1>3. Known(wk[w].progress) \in SUBSET Recipients
    BY <1>2 DEF Known, Progress
  <1>4. \A x \in Recipients : Intent(w, x) \in Progress
    BY <1>3 DEF Intent, Progress
  <1> QED
    BY <1>1, <1>2, <1>3, <1>4 DEF Progress

(* What saving the progress does to the row, if it does anything.           *)
LEMMA TypeSave ==
  ASSUME TypeInv, NEW w \in Workers, wk[w].pc # "idle", NEW p \in Progress, Save(w, p)
  PROVE  row' \in [Rows -> Row] /\ RunningCounted' /\ faults' \in 0..MaxFaults
  <1> USE DEF TypeInv
  <1>1. Del(w) \in Rows
    BY DEF Del, JobKnown
  <1>2. CASE Fault("save") /\ UNCHANGED row
    BY <1>2, FaultType DEF TypeOK, RunningCounted
  <1>3. CASE SetRow(Del(w), [row[Del(w)] EXCEPT !.progress = p]) /\ UNCHANGED faults
    <2> DEFINE r == [row[Del(w)] EXCEPT !.progress = p]
    <2>1. r \in Row /\ r.st = row[Del(w)].st /\ r.attempts = row[Del(w)].attempts
      BY <1>1, RowSteps
    <2>2. r.st = "running" => r.attempts > 0
      BY <1>1, <2>1 DEF RunningCounted
    <2>3. SetRow(Del(w), r)
      BY <1>3
    <2> HIDE DEF r
    <2>4. row' \in [Rows -> Row] /\ RunningCounted'
      BY <1>1, <2>1, <2>2, <2>3, TypeRow
    <2> QED
      BY <1>3, <2>4 DEF TypeOK
  <1> QED
    BY <1>2, <1>3 DEF Save

(* One attempt becomes v, and goes on with the same job.                    *)
Moves(w, v) ==
  /\ v \in Worker /\ SetWorker(w, v)
  /\ v.job = wk[w].job /\ v.last = wk[w].last /\ v.pc # "idle"
  /\ wk[w].pc \notin {"idle", "ack"}

(* The gate is asked.                                                       *)
LEMMA CheckDoes ==
  ASSUME TypeInv, NEW w \in Workers, Check(w)
  PROVE  \E v \in Worker :
           /\ Moves(w, v) /\ v.progress = wk[w].progress
           /\ v.pc \in {"send", "finish"}
           /\ v.pc = "finish" => v.out # "none"
           /\ v.out = "freed" => gate = "shut"
           /\ v.out # "sent"
  <1> DEFINE pc == IF gate = "open" THEN "send" ELSE "finish"
             out == CASE gate = "open"   -> "none"
                      [] gate = "off"    -> "cancelled"
                      [] gate = "shut"   -> "freed"
                      [] gate = "barred" -> "skipped"
             v == [wk[w] EXCEPT !.pc = pc, !.out = out]
  <1>1. gate \in AllGates
    BY DeliveryAssumption DEF TypeInv, TypeOK
  <1>2. /\ pc \in {"send", "finish"} /\ out \in Outcomes
        /\ pc = "finish" => out # "none"
        /\ out = "freed" => gate = "shut"
        /\ out # "sent"
    BY <1>1 DEF AllGates, Outcomes
  <1>3. SetWorker(w, v) /\ wk[w].pc = "check"
    BY DEF Check
  <1> HIDE DEF pc, out
  <1>4. wk[w] \in Worker /\ pc \in WorkerPcs
    BY <1>2 DEF TypeInv, TypeOK, WorkerPcs
  <1>5. /\ v \in Worker /\ v.pc = pc /\ v.out = out /\ v.progress = wk[w].progress
        /\ v.job = wk[w].job /\ v.last = wk[w].last
    BY <1>2, <1>4 DEF Worker
  <1> HIDE DEF v
  <1> QED
    BY <1>2, <1>3, <1>5 DEF Moves

(* The intent is written, and with it the call made; or the attempt ends.   *)
LEMMA IntendDoes ==
  ASSUME TypeInv, NEW w \in Workers, NEW x \in Recipients, Intend(w, x)
  PROVE  \E v \in Worker :
           /\ Moves(w, v) /\ v.progress = Intent(w, x) /\ x \in Left(w)
           /\ \/ /\ v.pc = "mail" /\ v.cur = x
                 /\ SetRow(Del(w), [row[Del(w)] EXCEPT !.progress = Intent(w, x)])
                 /\ UNCHANGED faults
              \/ v.pc = "finish" /\ v.out = "error" /\ UNCHANGED row /\ Fault("save")
  <1> DEFINE p == Intent(w, x)
             m == [wk[w] EXCEPT !.pc = "mail", !.cur = x, !.progress = p]
             e == [wk[w] EXCEPT !.pc = "finish", !.out = "error", !.progress = p]
  <1>1. wk[w] \in Worker /\ p \in Progress
    BY ProgressSteps DEF TypeInv
  <1>2. wk[w].pc = "send" /\ x \in Left(w)
    BY DEF Intend
  <1>3. \/ /\ SetWorker(w, m) /\ UNCHANGED faults
           /\ SetRow(Del(w), [row[Del(w)] EXCEPT !.progress = p])
        \/ SetWorker(w, e) /\ Fault("save") /\ UNCHANGED row
    BY DEF Intend
  <1> HIDE DEF p
  <1>4. /\ m \in Worker /\ m.pc = "mail" /\ m.cur = x /\ m.progress = p
        /\ m.job = wk[w].job /\ m.last = wk[w].last
    BY <1>1 DEF Worker, WorkerPcs
  <1>5. /\ e \in Worker /\ e.pc = "finish" /\ e.out = "error" /\ e.progress = p
        /\ e.job = wk[w].job /\ e.last = wk[w].last
    BY <1>1 DEF Worker, WorkerPcs, Outcomes
  <1> HIDE DEF m, e
  <1>6. SetWorker(w, m) => Moves(w, m)
    BY <1>2, <1>4 DEF Moves
  <1>7. SetWorker(w, e) => Moves(w, e)
    BY <1>2, <1>5 DEF Moves
  <1> QED
    BY <1>2, <1>3, <1>4, <1>5, <1>6, <1>7 DEF p

(* The call is made.                                                        *)
LEMMA MailDoes ==
  ASSUME TypeInv, NEW w \in Workers, Mail(w)
  PROVE  \E v \in Worker :
           /\ Moves(w, v) /\ v.progress = wk[w].progress /\ v.cur = wk[w].cur
           /\ wk[w].pc = "mail" /\ v.pc \in {"save", "unsave"}
           /\ faults' \in 0..MaxFaults
           /\ \/ UNCHANGED got /\ v.pc = "unsave"
              \/ /\ got' = [got EXCEPT ![wk[w].cur] = @ + 1]
                 /\ v.pc = "unsave" => "unsure" \in Faults
  <1> DEFINE s == [wk[w] EXCEPT !.pc = "save"]
             u == [wk[w] EXCEPT !.pc = "unsave"]
  <1>1. wk[w] \in Worker
    BY DEF TypeInv, TypeOK
  <1>2. /\ s \in Worker /\ s.pc = "save" /\ s.progress = wk[w].progress
        /\ s.cur = wk[w].cur /\ s.job = wk[w].job /\ s.last = wk[w].last
    BY <1>1 DEF Worker, WorkerPcs
  <1>3. /\ u \in Worker /\ u.pc = "unsave" /\ u.progress = wk[w].progress
        /\ u.cur = wk[w].cur /\ u.job = wk[w].job /\ u.last = wk[w].last
    BY <1>1 DEF Worker, WorkerPcs
  <1>4. /\ wk[w].pc = "mail"
        /\ \/ /\ got' = [got EXCEPT ![wk[w].cur] = @ + 1]
              /\ SetWorker(w, s) /\ UNCHANGED faults
           \/ SetWorker(w, u) /\ UNCHANGED <<got, faults>>
           \/ /\ Fault("unsure") /\ got' = [got EXCEPT ![wk[w].cur] = @ + 1]
              /\ SetWorker(w, u)
    BY DEF Mail
  <1> HIDE DEF s, u
  <1>5. faults' \in 0..MaxFaults
    BY <1>4, FaultType DEF TypeInv, TypeOK
  <1>6. Fault("unsure") => "unsure" \in Faults
    BY DEF Fault
  <1>7. SetWorker(w, s) => Moves(w, s)
    BY <1>2, <1>4 DEF Moves
  <1>8. SetWorker(w, u) => Moves(w, u)
    BY <1>3, <1>4 DEF Moves
  <1> QED
    BY <1>2, <1>3, <1>4, <1>5, <1>6, <1>7, <1>8

(* The result of the call is written, if the write works.                   *)
LEMMA ResultDoes ==
  ASSUME TypeInv, NEW w \in Workers, SaveSent(w) \/ ClearIntent(w)
  PROVE  \E v \in Worker, p \in Progress :
           /\ Moves(w, v) /\ v.progress = p /\ v.pc = "send" /\ Save(w, p)
           /\ p.pending = {}
           /\ \/ SaveSent(w) /\ p.sent = wk[w].progress.sent \cup {wk[w].cur}
              \/ ClearIntent(w) /\ p.sent = wk[w].progress.sent
  <1>1. wk[w] \in Worker /\ wk[w].progress \in Progress
    BY ProgressSteps DEF TypeInv
  <1>2. wk[w].pc \in {"save", "unsave"} /\ wk[w].cur \in Recipients
    BY DEF SaveSent, ClearIntent, TypeInv, CurKnown
  <1>3. CASE SaveSent(w)
    <2> DEFINE p == [sent |-> wk[w].progress.sent \cup {wk[w].cur}, pending |-> {}]
               v == [wk[w] EXCEPT !.pc = "send", !.cur = Nobody, !.progress = p]
    <2>1. p \in Progress /\ p.pending = {} /\ p.sent = wk[w].progress.sent \cup {wk[w].cur}
      BY <1>2, ProgressSteps DEF TypeInv
    <2>2. SetWorker(w, v) /\ Save(w, p)
      BY <1>3 DEF SaveSent
    <2> HIDE DEF p
    <2>3. /\ v \in Worker /\ v.pc = "send" /\ v.progress = p
          /\ v.job = wk[w].job /\ v.last = wk[w].last
      BY <1>1, <2>1 DEF Worker, WorkerPcs
    <2> HIDE DEF v
    <2>4. Moves(w, v)
      BY <1>2, <2>2, <2>3 DEF Moves
    <2> QED
      BY <1>3, <2>1, <2>2, <2>3, <2>4
  <1>4. CASE ClearIntent(w)
    <2> DEFINE p == [sent |-> wk[w].progress.sent, pending |-> {}]
               f == wk[w].failed \cup {wk[w].cur}
               v == [wk[w] EXCEPT !.pc = "send", !.cur = Nobody, !.progress = p, !.failed = f]
    <2>1. p \in Progress /\ p.pending = {} /\ p.sent = wk[w].progress.sent
      BY ProgressSteps DEF TypeInv
    <2>2. f \in SUBSET Recipients
      BY <1>2, ProgressSteps DEF TypeInv
    <2>3. SetWorker(w, v) /\ Save(w, p)
      BY <1>4 DEF ClearIntent
    <2> HIDE DEF p, f
    <2>4. /\ v \in Worker /\ v.pc = "send" /\ v.progress = p
          /\ v.job = wk[w].job /\ v.last = wk[w].last
      BY <1>1, <2>1, <2>2 DEF Worker, WorkerPcs
    <2> HIDE DEF v
    <2>5. Moves(w, v)
      BY <1>2, <2>3, <2>4 DEF Moves
    <2> QED
      BY <1>4, <2>1, <2>3, <2>4, <2>5
  <1> QED
    BY <1>3, <1>4

(* The sending ends; whom the attempt knows of stays.                       *)
LEMMA EndSendingDoes ==
  ASSUME TypeInv, NEW w \in Workers, EndSending(w)
  PROVE  \E v \in Worker :
           /\ Moves(w, v) /\ v.pc = "finish" /\ v.out \in {"sent", "error"}
           /\ Known(v.progress) = Known(wk[w].progress)
           /\ v.out = "sent" => Known(v.progress) = Recipients
  <1> DEFINE p == [sent |-> Known(wk[w].progress), pending |-> {}]
             s == [wk[w] EXCEPT !.pc = "finish", !.out = "sent", !.progress = p]
             e == [wk[w] EXCEPT !.pc = "finish", !.out = "error"]
  <1>1. wk[w] \in Worker /\ wk[w].progress \in Progress /\ p \in Progress
    BY ProgressSteps DEF TypeInv
  <1>2. Known(p) = Known(wk[w].progress)
    BY DEF Known
  <1>3. /\ wk[w].pc = "send"
        /\ \/ SetWorker(w, s) /\ Left(w) = {} /\ wk[w].failed = {}
           \/ SetWorker(w, e)
    BY DEF EndSending
  <1>8. Left(w) = {} /\ wk[w].failed = {} => Known(wk[w].progress) = Recipients
    <2>1. Known(wk[w].progress) \in SUBSET Recipients
      BY ProgressSteps DEF TypeInv
    <2> QED
      BY <2>1 DEF Left
  <1> HIDE DEF p
  <1>4. /\ s \in Worker /\ s.pc = "finish" /\ s.out = "sent" /\ s.progress = p
        /\ s.job = wk[w].job /\ s.last = wk[w].last
    BY <1>1 DEF Worker, WorkerPcs, Outcomes
  <1>5. /\ e \in Worker /\ e.pc = "finish" /\ e.out = "error" /\ e.progress = wk[w].progress
        /\ e.job = wk[w].job /\ e.last = wk[w].last
    BY <1>1 DEF Worker, WorkerPcs, Outcomes
  <1> HIDE DEF s, e
  <1>6. SetWorker(w, s) => Moves(w, s)
    BY <1>3, <1>4 DEF Moves
  <1>7. SetWorker(w, e) => Moves(w, e)
    BY <1>3, <1>5 DEF Moves
  <1> QED
    BY <1>2, <1>3, <1>4, <1>5, <1>6, <1>7, <1>8

(* The outcome is written to the row.                                       *)
LEMMA FinishDoes ==
  ASSUME TypeInv, NEW w \in Workers, Finish(w)
  PROVE  \E v \in Worker, r \in Row :
           /\ Moves(w, v) /\ v.pc = "ack" /\ SetRow(Del(w), r)
           /\ r.st \in Terminal \cup {"retrying"}
           /\ r.key = (row[Del(w)].key /\ wk[w].out # "freed")
           /\ r.progress \in {wk[w].progress, row[Del(w)].progress}
           /\ r.st = "sent" => wk[w].out = "sent" /\ r.progress = wk[w].progress
  <1> DEFINE st == Status(w)
             key == row[Del(w)].key /\ wk[w].out # "freed"
             p == IF wk[w].out \in {"sent", "error"} THEN wk[w].progress
                  ELSE row[Del(w)].progress
             r == [row[Del(w)] EXCEPT !.st = st, !.lease = "none", !.key = key, !.progress = p]
             v == [wk[w] EXCEPT !.pc = "ack"]
  <1>1. wk[w] \in Worker /\ wk[w].pc = "finish" /\ Del(w) \in Rows
    BY DEF Finish, TypeInv, TypeOK, JobKnown, Del
  <1>2. row[Del(w)] \in Row
    BY <1>1 DEF TypeInv, TypeOK
  <1>3. wk[w].out \in Outcomes \ {"none"} /\ wk[w].last \in BOOLEAN
    BY <1>1 DEF TypeInv, OutKnown, Worker
  <1>4. st \in Terminal \cup {"retrying"} /\ (st = "sent" => wk[w].out = "sent")
    BY <1>3 DEF Status, Retries, Outcomes, Terminal
  <1>5. st \in Statuses
    BY <1>4 DEF Terminal, Statuses
  <1>6. key \in BOOLEAN
    OBVIOUS
  <1>7. /\ p \in Progress /\ p \in {wk[w].progress, row[Del(w)].progress}
        /\ wk[w].out = "sent" => p = wk[w].progress
    BY <1>1, <1>2 DEF Worker, Row
  <1>8. SetRow(Del(w), r) /\ SetWorker(w, v)
    BY DEF Finish
  <1> HIDE DEF st, key, p
  <1>9. r \in Row /\ r.st = st /\ r.key = key /\ r.progress = p
    BY <1>2, <1>5, <1>6, <1>7 DEF Row
  <1>10. /\ v \in Worker /\ v.pc = "ack"
         /\ v.job = wk[w].job /\ v.last = wk[w].last
    BY <1>1 DEF Worker, WorkerPcs
  <1> HIDE DEF r, v
  <1>11. Moves(w, v)
    BY <1>1, <1>8, <1>10 DEF Moves
  <1>12. key = (row[Del(w)].key /\ wk[w].out # "freed")
    BY DEF key
  <1> QED
    BY <1>4, <1>7, <1>8, <1>9, <1>10, <1>11, <1>12

(* A worker claims the row of a job.                                        *)
LEMMA ClaimDoes ==
  ASSUME TypeInv, NEW w \in Workers, NEW d \in Rows, NEW k \in Ids,
         job[<<d, k>>].st = "waiting", Claim(w, d, k)
  PROVE  \E v \in Worker, r \in Row, i \in Job :
           /\ SetWorker(w, v) /\ SetRow(d, r) /\ SetJob(<<d, k>>, i)
           /\ v.pc = "check" /\ v.job = <<d, k>> /\ v.progress = row[d].progress
           /\ v.out = "none"
           /\ r.st = "running" /\ r.lease = "held" /\ r.attempts > 0
           /\ r.key = row[d].key /\ r.progress = row[d].progress
           /\ i.by = w /\ (v.last \/ i.tries + 1 < MaxAttempts)
  <1> DEFINE j == <<d, k>>
             last == \/ job[j].tries + 1 >= MaxAttempts
                     \/ row[d].attempts + 1 >= MaxAttempts
             v == [Idle EXCEPT !.pc = "check", !.job = j, !.progress = row[d].progress,
                               !.last = last]
             r == [row[d] EXCEPT !.st = "running", !.attempts = @ + 1, !.lease = "held"]
             i == [job[j] EXCEPT !.st = "active", !.by = w]
  <1>1. j \in Rows \X Ids
    OBVIOUS
  <1>2. row[d] \in Row /\ job[j] \in Job
    BY <1>1 DEF TypeInv, TypeOK
  <1>3. SetWorker(w, v) /\ SetRow(d, r) /\ SetJob(j, i)
    BY DEF Claim
  <1>4. last \in BOOLEAN
    OBVIOUS
  <1>5. last \/ job[j].tries + 1 < MaxAttempts
    BY <1>2, DeliveryAssumption DEF Job
  <1>6. Idle \in Worker /\ row[d].progress \in Progress
    BY <1>2, Constants DEF Row
  <1>7. Idle.out = "none"
    BY DEF Idle
  <1> HIDE DEF last, j
  <1>8. /\ v \in Worker /\ v.pc = "check" /\ v.job = j /\ v.progress = row[d].progress
        /\ v.last = last /\ v.out = "none"
    BY <1>1, <1>4, <1>6, <1>7 DEF Worker, WorkerPcs
  <1> DEFINE n == row[d].attempts + 1
             q == [row[d] EXCEPT !.st = "running", !.attempts = n, !.lease = "held"]
  <1>11. n \in Nat /\ n > 0 /\ r = q
    BY <1>2 DEF Row
  <1> HIDE DEF r, n
  <1>12. /\ q \in Row /\ q.st = "running" /\ q.lease = "held" /\ q.attempts = n
         /\ q.key = row[d].key /\ q.progress = row[d].progress
    BY <1>2, <1>11 DEF Row, Statuses
  <1> HIDE DEF q
  <1>9. /\ r \in Row /\ r.st = "running" /\ r.lease = "held" /\ r.attempts > 0
        /\ r.key = row[d].key /\ r.progress = row[d].progress
    BY <1>11, <1>12
  <1>10. i \in Job /\ i.by = w /\ i.tries = job[j].tries
    BY <1>2 DEF Job
  <1> HIDE DEF v, i
  <1> QED
    BY <1>3, <1>5, <1>8, <1>9, <1>10 DEF j

(* A worker is idle again after its job returned or it crashed; the job is  *)
(* then nobody's.                                                           *)
LEMMA EndDoes ==
  ASSUME TypeInv, NEW w \in Workers, Ack(w) \/ Crash(w)
  PROVE  /\ SetWorker(w, Idle)
         /\ wk[w].job \in Rows \X Ids
         /\ \/ UNCHANGED job /\ job[wk[w].job].by # w
            \/ \E v \in Job : v.by = NoWorker /\ SetJob(wk[w].job, v)
         /\ faults' \in 0..MaxFaults
         /\ UNCHANGED <<row, adding, gate, got, fired, retries, turns>>
  <1> DEFINE j == wk[w].job
  <1>1. wk[w] \in Worker /\ j \in Rows \X Ids
    BY DEF Ack, Crash, TypeInv, TypeOK, JobKnown
  <1>2. job[j] \in Job
    BY <1>1 DEF TypeInv, TypeOK
  <1>3. CASE Ack(w)
    <2>1. UNCHANGED faults /\ faults' \in 0..MaxFaults
      BY <1>3 DEF Ack, TypeInv, TypeOK
    <2>2. CASE job[j].by # w
      BY <1>1, <1>3, <2>1, <2>2 DEF Ack
    <2>3. CASE job[j].by = w /\ ~Retries(w)
      BY <1>1, <1>3, <2>1, <2>3, Constants DEF Ack
    <2>4. CASE job[j].by = w /\ Retries(w)
      <3> DEFINE v == [job[j] EXCEPT !.st = "waiting", !.by = NoWorker, !.tries = @ + 1]
      <3>1. ~wk[w].last
        BY <2>4 DEF Retries
      <3>2. job[j].tries + 1 < MaxAttempts
        BY <1>1, <2>4, <3>1 DEF TypeInv, JobOwned
      <3>3. job[j].tries + 1 \in 0..(MaxAttempts - 1)
        BY <1>2, <3>2, DeliveryAssumption DEF Job
      <3>4. v \in Job /\ v.by = NoWorker
        BY <1>2, <3>3 DEF Job
      <3>5. SetJob(j, v)
        BY <1>3, <2>4 DEF Ack
      <3> HIDE DEF v
      <3> QED
        BY <1>1, <1>3, <2>1, <3>4, <3>5 DEF Ack
    <2> QED
      BY <2>2, <2>3, <2>4
  <1>4. CASE Crash(w)
    <2>1. faults' \in 0..MaxFaults
      BY <1>4, FaultType DEF Crash, TypeInv
    <2>2. CASE job[j].by # w
      BY <1>1, <1>4, <2>1, <2>2 DEF Crash
    <2>3. CASE job[j].by = w
      <3>1. Stall(j)
        BY <1>4, <2>3 DEF Crash
      <3>2. \E v \in Job : v.by = NoWorker /\ SetJob(j, v)
        BY <1>1, <3>1, StallSets DEF TypeInv
      <3> QED
        BY <1>1, <1>4, <2>1, <3>2 DEF Crash
    <2> QED
      BY <2>2, <2>3
  <1> QED
    BY <1>3, <1>4

(* The steps of an attempt keep the types.                                  *)
LEMMA TypeWorker ==
  ASSUME TypeInv, NEW w \in Workers
  PROVE  /\ \A d \in Rows, k \in Ids : Take(w, d, k) => TypeInv'
         /\ WorkerStep(w) \/ Crash(w) => TypeInv'
  <1> USE DEF TypeInv
  <1>1. ASSUME row' \in [Rows -> Row], RunningCounted', faults' \in 0..MaxFaults,
               got' \in [Recipients -> Nat],
               wk' \in [Workers -> Worker], JobKnown', CurKnown', OutKnown', JobOwned',
               UNCHANGED <<job, adding, gate, fired, retries, turns>>
        PROVE  TypeInv'
    BY <1>1 DEF TypeOK
  <1>2. ASSUME UNCHANGED row PROVE row' \in [Rows -> Row] /\ RunningCounted'
    BY <1>2 DEF TypeOK, RunningCounted
  <1>3. ASSUME NEW v \in Worker, Moves(w, v), UNCHANGED job,
               v.pc \in {"mail", "save", "unsave"} => v.cur \in Recipients,
               v.pc = "finish" => v.out # "none"
        PROVE  /\ wk' \in [Workers -> Worker]
               /\ JobKnown' /\ CurKnown' /\ OutKnown' /\ JobOwned'
    BY <1>3, TypeAttempt DEF Moves
  <1>4. ASSUME Check(w) PROVE TypeInv'
    <2>1. PICK v \in Worker : /\ Moves(w, v) /\ v.pc \in {"send", "finish"}
                              /\ v.pc = "finish" => v.out # "none"
      BY <1>4, CheckDoes
    <2>2. /\ UNCHANGED <<row, job, adding, gate, got, fired, faults, retries, turns>>
          /\ got' \in [Recipients -> Nat] /\ faults' \in 0..MaxFaults
      BY <1>4 DEF Check, TypeOK
    <2> QED
      BY <1>1, <1>2, <1>3, <2>1, <2>2
  <1>5. ASSUME NEW x \in Recipients, Intend(w, x) PROVE TypeInv'
    <2>1. PICK v \in Worker :
            /\ Moves(w, v)
            /\ \/ /\ v.pc = "mail" /\ v.cur = x
                  /\ SetRow(Del(w), [row[Del(w)] EXCEPT !.progress = Intent(w, x)])
                  /\ UNCHANGED faults
               \/ v.pc = "finish" /\ v.out = "error" /\ UNCHANGED row /\ Fault("save")
      BY <1>5, IntendDoes
    <2>2. /\ UNCHANGED <<job, adding, gate, got, fired, retries, turns>>
          /\ got' \in [Recipients -> Nat]
      BY <1>5 DEF Intend, TypeOK
    <2>3. Intent(w, x) \in Progress /\ wk[w].pc # "idle" /\ Save(w, Intent(w, x))
      BY <2>1, ProgressSteps DEF Moves, Save
    <2>4. row' \in [Rows -> Row] /\ RunningCounted' /\ faults' \in 0..MaxFaults
      BY <2>3, TypeSave
    <2>5. /\ wk' \in [Workers -> Worker]
          /\ JobKnown' /\ CurKnown' /\ OutKnown' /\ JobOwned'
      BY <1>3, <2>1, <2>2
    <2> QED
      BY <1>1, <2>2, <2>4, <2>5
  <1>6. ASSUME Mail(w) PROVE TypeInv'
    <2>1. PICK v \in Worker :
            /\ Moves(w, v) /\ v.cur = wk[w].cur
            /\ wk[w].pc = "mail" /\ v.pc \in {"save", "unsave"}
            /\ faults' \in 0..MaxFaults
            /\ UNCHANGED got \/ got' = [got EXCEPT ![wk[w].cur] = @ + 1]
      BY <1>6, MailDoes
    <2>2. wk[w].cur \in Recipients
      BY <2>1 DEF CurKnown
    <2>3. got' \in [Recipients -> Nat]
      BY <2>1, <2>2 DEF TypeOK
    <2>4. UNCHANGED <<row, job, adding, gate, fired, retries, turns>>
      BY <1>6 DEF Mail
    <2> QED
      BY <1>1, <1>2, <1>3, <2>1, <2>2, <2>3, <2>4
  <1>7. ASSUME SaveSent(w) \/ ClearIntent(w) PROVE TypeInv'
    <2>1. PICK v \in Worker, p \in Progress : Moves(w, v) /\ v.pc = "send" /\ Save(w, p)
      BY <1>7, ResultDoes
    <2>2. row' \in [Rows -> Row] /\ RunningCounted' /\ faults' \in 0..MaxFaults
      BY <2>1, TypeSave DEF Moves
    <2>3. /\ UNCHANGED <<job, adding, gate, got, fired, retries, turns>>
          /\ got' \in [Recipients -> Nat]
      BY <1>7 DEF SaveSent, ClearIntent, TypeOK
    <2> QED
      BY <1>1, <1>3, <2>1, <2>2, <2>3
  <1>8. ASSUME EndSending(w) PROVE TypeInv'
    <2>1. PICK v \in Worker :
            Moves(w, v) /\ v.pc = "finish" /\ v.out \in {"sent", "error"}
      BY <1>8, EndSendingDoes
    <2>2. /\ UNCHANGED <<row, job, adding, gate, got, fired, faults, retries, turns>>
          /\ got' \in [Recipients -> Nat] /\ faults' \in 0..MaxFaults
      BY <1>8 DEF EndSending, TypeOK
    <2> QED
      BY <1>1, <1>2, <1>3, <2>1, <2>2
  <1>9. ASSUME Finish(w) PROVE TypeInv'
    <2>1. PICK v \in Worker, r \in Row :
            /\ Moves(w, v) /\ v.pc = "ack" /\ SetRow(Del(w), r)
            /\ r.st \in Terminal \cup {"retrying"}
      BY <1>9, FinishDoes
    <2>2. Del(w) \in Rows
      BY <2>1 DEF Moves, JobKnown, Del
    <2>3. r.st # "running"
      BY <2>1 DEF Terminal
    <2>4. row' \in [Rows -> Row] /\ RunningCounted'
      BY <2>1, <2>2, <2>3, TypeRow
    <2>5. /\ UNCHANGED <<job, adding, gate, got, fired, faults, retries, turns>>
          /\ got' \in [Recipients -> Nat] /\ faults' \in 0..MaxFaults
      BY <1>9 DEF Finish, TypeOK
    <2> QED
      BY <1>1, <1>3, <2>1, <2>4, <2>5
  <1>10. ASSUME Ack(w) \/ Crash(w) PROVE TypeInv'
    <2>1. /\ SetWorker(w, Idle) /\ faults' \in 0..MaxFaults
          /\ wk[w].job \in Rows \X Ids
          /\ \/ UNCHANGED job /\ job[wk[w].job].by # w
             \/ \E v \in Job : v.by = NoWorker /\ SetJob(wk[w].job, v)
          /\ UNCHANGED <<row, adding, gate, got, fired, retries, turns>>
      BY <1>10, EndDoes
    <2>2. /\ wk' \in [Workers -> Worker]
          /\ wk'[w] = Idle
          /\ \A u \in Workers : u # w => wk'[u] = wk[u]
      BY <2>1, WorkerSet, Constants
    <2>3. JobKnown' /\ CurKnown' /\ OutKnown'
      BY <2>2, Constants DEF JobKnown, CurKnown, OutKnown
    <2>4. \A i \in Rows \X Ids : job[i].by = w => i = wk[w].job
      BY DEF JobOwned
    <2>5. job' \in [Rows \X Ids -> Job] /\ JobOwned'
      <3>1. CASE UNCHANGED job /\ job[wk[w].job].by # w
        <4>1. \A i \in Rows \X Ids : job[i].by # w
          BY <2>4, <3>1
        <4> QED
          BY <2>2, <3>1, <4>1 DEF JobOwned, TypeOK
      <3>2. ASSUME NEW v \in Job, v.by = NoWorker, SetJob(wk[w].job, v)
            PROVE  job' \in [Rows \X Ids -> Job] /\ JobOwned'
        <4>1. /\ job' \in [Rows \X Ids -> Job]
              /\ job'[wk[w].job] = v
              /\ \A i \in Rows \X Ids : i # wk[w].job => job'[i] = job[i]
          BY <2>1, <3>2, JobSet
        <4>2. \A i \in Rows \X Ids, u \in Workers :
                job'[i].by = u => i # wk[w].job /\ u # w /\ job[i].by = u
          BY <2>4, <3>2, <4>1, DeliveryAssumption
        <4> QED
          BY <2>2, <4>1, <4>2 DEF JobOwned
      <3> QED
        BY <2>1, <3>1, <3>2
    <2> QED
      BY <1>2, <2>1, <2>2, <2>3, <2>5 DEF TypeOK
  <1>11. ASSUME NEW d \in Rows, NEW k \in Ids, Take(w, d, k) PROVE TypeInv'
    <2> DEFINE j == <<d, k>>
    <2>1. j \in Rows \X Ids /\ wk[w].pc = "idle" /\ job[j].st = "waiting"
      BY <1>11 DEF Take
    <2>2. CASE Noop(d, k)
      <3>1. SetJob(j, Done) /\ UNCHANGED <<row, wk>>
        BY <2>2 DEF Noop
      <3>2. job' \in [Rows \X Ids -> Job] /\ JobOwned'
        BY <2>1, <3>1, JobFreed, Constants
      <3> QED
        BY <1>11, <3>1, <3>2
           DEF Take, TypeOK, JobKnown, CurKnown, OutKnown, RunningCounted
    <2>3. CASE Claim(w, d, k)
      <3>1. PICK v \in Worker, r \in Row, i \in Job :
              /\ SetWorker(w, v) /\ SetRow(d, r) /\ SetJob(j, i)
              /\ v.pc = "check" /\ v.job = j
              /\ r.st = "running" /\ r.attempts > 0
              /\ i.by = w /\ (v.last \/ i.tries + 1 < MaxAttempts)
        BY <2>1, <2>3, ClaimDoes
      <3> HIDE DEF j
      <3>2. row' \in [Rows -> Row] /\ RunningCounted'
        BY <3>1, TypeRow
      <3>3. /\ wk' \in [Workers -> Worker]
            /\ wk'[w] = v
            /\ \A u \in Workers : u # w => wk'[u] = wk[u]
        BY <3>1, WorkerSet
      <3>4. /\ job' \in [Rows \X Ids -> Job]
            /\ job'[j] = i
            /\ \A h \in Rows \X Ids : h # j => job'[h] = job[h]
        BY <2>1, <3>1, JobSet
      <3>5. JobKnown' /\ CurKnown' /\ OutKnown'
        BY <2>1, <3>1, <3>3 DEF JobKnown, CurKnown, OutKnown
      <3>6. \A h \in Rows \X Ids : job[h].by # w
        BY <2>1 DEF JobOwned
      <3>7. ASSUME NEW u \in Workers, NEW h \in Rows \X Ids, job'[h].by = u
            PROVE  /\ wk'[u].pc # "idle" /\ wk'[u].job = h
                   /\ wk'[u].last \/ job'[h].tries + 1 < MaxAttempts
        <4>1. CASE h = j
          BY <3>1, <3>3, <3>4, <3>7, <4>1
        <4>2. CASE h # j
          BY <3>3, <3>4, <3>6, <3>7, <4>2 DEF JobOwned
        <4> QED
          BY <4>1, <4>2
      <3>8. JobOwned'
        BY <3>7 DEF JobOwned
      <3> QED
        BY <1>11, <3>2, <3>3, <3>4, <3>5, <3>8 DEF Take, TypeOK
    <2> QED
      BY <1>11, <2>2, <2>3 DEF Take
  <1> QED
    BY <1>4, <1>5, <1>6, <1>7, <1>8, <1>9, <1>10, <1>11 DEF WorkerStep

(* Every step keeps the types.                                              *)
LEMMA TypeStep == TypeInv /\ [Next]_vars => TypeInv'
  <1> SUFFICES ASSUME TypeInv, [Next]_vars PROVE TypeInv'
    OBVIOUS
  <1>1. CASE UNCHANGED vars
    BY <1>1 DEF vars, TypeInv, TypeOK, JobKnown, CurKnown, OutKnown, RunningCounted, JobOwned
  <1>2. CASE Next
    BY <1>2, TypeQueue, TypeRows, TypeWorker DEF Next
  <1> QED
    BY <1>1, <1>2

(* Types: among others, a job is never tried more than MaxAttempts times,   *)
(* and each job a tick or a user adds has an id of its own.                 *)
THEOREM TypeCorrect == Spec => []TypeOK
  <1>1. Spec => []TypeInv
    BY TypeInit, TypeStep, PTL DEF Spec
  <1>2. TypeInv => TypeOK
    BY DEF TypeInv
  <1> QED
    BY <1>1, <1>2, PTL

-----------------------------------------------------------------------------
(* One worker at a time runs a delivery, and what it came to stays.         *)

(* Who runs a delivery holds it: the row is running, under a live lease.    *)
HeldInv ==
  /\ \A w \in Workers, d \in Rows :
       Holds(w, d) => row[d].st = "running" /\ row[d].lease = "held"
  /\ OneHolder

(* Saving the progress changes nothing else of any row.                     *)
LEMMA SaveDoes ==
  ASSUME TypeInv, NEW w \in Workers, wk[w].pc # "idle", NEW p \in Progress, Save(w, p)
  PROVE  /\ Del(w) \in Rows
         /\ \A d \in Rows :
              /\ row'[d].st = row[d].st /\ row'[d].lease = row[d].lease
              /\ row'[d].key = row[d].key
              /\ \/ row'[d].progress = row[d].progress
                 \/ d = Del(w) /\ row'[d].progress = p
  <1> DEFINE c == Del(w)
             r == [row[c] EXCEPT !.progress = p]
  <1>1. c \in Rows
    BY DEF Del, TypeInv, JobKnown
  <1>2. row[c] \in Row
    BY <1>1 DEF TypeInv, TypeOK
  <1>3. SetRow(c, r) \/ UNCHANGED row
    BY DEF Save
  <1> HIDE DEF c
  <1>4. /\ r \in Row /\ r.st = row[c].st /\ r.lease = row[c].lease
        /\ r.key = row[c].key /\ r.progress = p
    BY <1>2 DEF Row
  <1> HIDE DEF r
  <1>5. SetRow(c, r) => row'[c] = r /\ \A d \in Rows : d # c => row'[d] = row[d]
    BY <1>1, <1>4, RowSet DEF TypeInv
  <1>6. \A d \in Rows :
          /\ row'[d].st = row[d].st /\ row'[d].lease = row[d].lease
          /\ row'[d].key = row[d].key
          /\ row'[d].progress = row[d].progress \/ (d = c /\ row'[d].progress = p)
    BY <1>3, <1>4, <1>5
  <1> QED
    BY <1>1, <1>6 DEF c

(* A worker that goes on, or stops, runs no delivery that it did not run.   *)
LEMMA MovesHold ==
  ASSUME TypeInv, NEW w \in Workers
  PROVE  /\ \A v \in Worker : Moves(w, v) =>
              /\ wk'[w] = v /\ \A u \in Workers : u # w => wk'[u] = wk[u]
              /\ \A u \in Workers, d \in Rows : Holds(u, d)' => Holds(u, d)
              /\ \A d \in Rows : v.pc = "ack" => ~Holds(w, d)'
         /\ SetWorker(w, Idle) =>
              /\ wk'[w] = Idle /\ \A u \in Workers : u # w => wk'[u] = wk[u]
              /\ \A u \in Workers, d \in Rows : Holds(u, d)' => Holds(u, d) /\ u # w
  <1>1. ASSUME NEW v \in Worker, SetWorker(w, v)
        PROVE  wk'[w] = v /\ \A u \in Workers : u # w => wk'[u] = wk[u]
    BY <1>1, WorkerSet DEF TypeInv
  <1>2. ASSUME NEW v \in Worker, Moves(w, v)
        PROVE  /\ wk'[w] = v /\ \A u \in Workers : u # w => wk'[u] = wk[u]
               /\ \A u \in Workers, d \in Rows : Holds(u, d)' => Holds(u, d)
               /\ \A d \in Rows : v.pc = "ack" => ~Holds(w, d)'
    <2>1. wk'[w] = v /\ \A u \in Workers : u # w => wk'[u] = wk[u]
      BY <1>1, <1>2 DEF Moves
    <2>2. v.job = wk[w].job /\ wk[w].pc \notin {"idle", "ack"}
      BY <1>2 DEF Moves
    <2> QED
      BY <2>1, <2>2 DEF Holds, Del
  <1>3. ASSUME SetWorker(w, Idle)
        PROVE  /\ wk'[w] = Idle /\ \A u \in Workers : u # w => wk'[u] = wk[u]
               /\ \A u \in Workers, d \in Rows : Holds(u, d)' => Holds(u, d) /\ u # w
    <2>1. wk'[w] = Idle /\ \A u \in Workers : u # w => wk'[u] = wk[u]
      BY <1>1, <1>3, Constants
    <2>2. Idle.pc = "idle"
      BY Constants
    <2> QED
      BY <2>1, <2>2 DEF Holds, Del
  <1> QED
    BY <1>2, <1>3

(* What a worker's step does to rows and to who runs them.                  *)
LEMMA WorkerHolds ==
  ASSUME TypeInv, NEW w \in Workers, WorkerStep(w) \/ Crash(w)
  PROVE  /\ \A u \in Workers, d \in Rows : Holds(u, d)' => Holds(u, d)
         /\ \A d \in Rows :
              \/ row'[d].st = row[d].st /\ row'[d].lease = row[d].lease
              \/ Holds(w, d) /\ ~Holds(w, d)'
  <1>1. ASSUME NEW v \in Worker, Moves(w, v), UNCHANGED row
        PROVE  /\ \A u \in Workers, d \in Rows : Holds(u, d)' => Holds(u, d)
               /\ \A d \in Rows : row'[d].st = row[d].st /\ row'[d].lease = row[d].lease
    BY <1>1, MovesHold
  <1>2. ASSUME NEW v \in Worker, Moves(w, v), NEW p \in Progress, Save(w, p)
        PROVE  /\ \A u \in Workers, d \in Rows : Holds(u, d)' => Holds(u, d)
               /\ \A d \in Rows : row'[d].st = row[d].st /\ row'[d].lease = row[d].lease
    <2>1. wk[w].pc # "idle"
      BY <1>2 DEF Moves
    <2> QED
      BY <1>2, <2>1, MovesHold, SaveDoes
  <1>3. CASE Check(w)
    <2>1. UNCHANGED row
      BY <1>3 DEF Check
    <2> QED
      BY <1>1, <1>3, <2>1, CheckDoes
  <1>4. ASSUME NEW x \in Recipients, Intend(w, x)
        PROVE  /\ \A u \in Workers, d \in Rows : Holds(u, d)' => Holds(u, d)
               /\ \A d \in Rows : row'[d].st = row[d].st /\ row'[d].lease = row[d].lease
    <2>1. PICK v \in Worker :
            /\ Moves(w, v)
            /\ \/ /\ SetRow(Del(w), [row[Del(w)] EXCEPT !.progress = Intent(w, x)])
                  /\ UNCHANGED faults
               \/ UNCHANGED row /\ Fault("save")
      BY <1>4, IntendDoes
    <2>2. Intent(w, x) \in Progress /\ Save(w, Intent(w, x))
      BY <2>1, ProgressSteps DEF Save, TypeInv
    <2> QED
      BY <1>2, <2>1, <2>2
  <1>5. CASE Mail(w)
    <2>1. UNCHANGED row
      BY <1>5 DEF Mail
    <2> QED
      BY <1>1, <1>5, <2>1, MailDoes
  <1>6. CASE SaveSent(w) \/ ClearIntent(w)
    BY <1>2, <1>6, ResultDoes
  <1>7. CASE EndSending(w)
    <2>1. UNCHANGED row
      BY <1>7 DEF EndSending
    <2> QED
      BY <1>1, <1>7, <2>1, EndSendingDoes
  <1>8. CASE Finish(w)
    <2>1. PICK v \in Worker, r \in Row :
            Moves(w, v) /\ v.pc = "ack" /\ SetRow(Del(w), r)
      BY <1>8, FinishDoes
    <2>2. /\ \A u \in Workers, d \in Rows : Holds(u, d)' => Holds(u, d)
          /\ \A d \in Rows : ~Holds(w, d)'
      BY <2>1, MovesHold
    <2>3. Del(w) \in Rows /\ Holds(w, Del(w))
      BY <2>1 DEF Moves, TypeInv, JobKnown, Del, Holds
    <2>4. \A d \in Rows : d # Del(w) => row'[d] = row[d]
      BY <2>1, <2>3, RowSet DEF TypeInv
    <2> QED
      BY <2>2, <2>3, <2>4
  <1>9. CASE Ack(w) \/ Crash(w)
    <2>1. SetWorker(w, Idle) /\ UNCHANGED row
      BY <1>9, EndDoes
    <2> QED
      BY <2>1, MovesHold
  <1> QED
    BY <1>3, <1>4, <1>5, <1>6, <1>7, <1>8, <1>9 DEF WorkerStep

(* What the other steps do to a row: only one that nobody runs changes its  *)
(* status or its lease, and only a user changes what a delivery came to.    *)
LEMMA RowsChange ==
  ASSUME TypeInv, HeldInv, "slow" \notin Faults, NEW d \in Rows,
         \/ \E e \in Events : Dispatch(e)
         \/ \E c \in Rows : Retry(c) \/ LeaseEnds(c) \/ Overrun(c) \/ Tick(c)
  PROVE  /\ UNCHANGED wk
         /\ \/ row'[d].st = row[d].st /\ row'[d].lease = row[d].lease
            \/ \A w \in Workers : ~Holds(w, d)
         /\ \/ row'[d].st = row[d].st
            \/ row[d].st \notin Terminal
            \/ row[d].st \in {"failed", "partial"} /\ row'[d].st = "queued"
  <1> USE DEF TypeInv
  <1>1. ASSUME NEW c \in Rows, NEW r \in Row, SetRow(c, r)
        PROVE  row'[c] = r /\ (d # c => row'[d] = row[d])
    BY <1>1, RowSet
  <1>2. ASSUME NEW e \in Events, Dispatch(e)
        PROVE  \/ UNCHANGED row
               \/ row[d].st = "none" \/ UNCHANGED row[d]
    <2>1. ASSUME NEW c \in Rows, row[c].st = "none", NEW st \in {"queued", "skipped"},
                 NEW key \in BOOLEAN, Insert(c, st, key)
          PROVE  row[d].st = "none" \/ UNCHANGED row[d]
      <3>1. [NoRow EXCEPT !.st = st, !.key = key] \in Row
        BY RowSteps DEF Statuses
      <3> QED
        BY <1>1, <2>1, <3>1 DEF Insert
    <2> QED
      BY <1>2, <2>1 DEF Dispatch
  <1>3. ASSUME NEW c \in Rows, Retry(c)
        PROVE  \/ UNCHANGED row[d]
               \/ d = c /\ row[c].st \in {"failed", "partial"} /\ row'[c].st = "queued"
    <2>1. /\ [row[c] EXCEPT !.st = "queued", !.attempts = 0, !.lease = "none"] \in Row
          /\ [row[c] EXCEPT !.st = "queued", !.attempts = 0, !.lease = "none"].st = "queued"
      BY RowSteps
    <2> QED
      BY <1>1, <1>3, <2>1 DEF Retry
  <1>4. ASSUME NEW c \in Rows, LeaseEnds(c)
        PROVE  \/ UNCHANGED row[d]
               \/ d = c /\ row'[c].st = row[c].st /\ \A w \in Workers : ~Holds(w, c)
    <2>1. /\ [row[c] EXCEPT !.lease = "over"] \in Row
          /\ [row[c] EXCEPT !.lease = "over"].st = row[c].st
      BY RowSteps
    <2> QED
      BY <1>1, <1>4, <2>1 DEF LeaseEnds
  <1>5. \A c \in Rows : ~Overrun(c)
    BY DEF Overrun, Fault
  <1>6. ASSUME NEW c \in Rows, Reclaim(c)
        PROVE  UNCHANGED row[d] \/ (d = c /\ row[c].st = "running" /\ row[c].lease = "over")
    <2>1. \A st \in {"failed", "retrying"} : [row[c] EXCEPT !.st = st, !.lease = "none"] \in Row
      BY RowSteps
    <2> QED
      BY <1>1, <1>6, <2>1 DEF Reclaim
  <1>7. \A c \in Rows : QueueAgain(c) => UNCHANGED row
    BY DEF QueueAgain
  <1>8. UNCHANGED wk
    BY <1>5 DEF Dispatch, Retry, LeaseEnds, Tick, Reclaim, QueueAgain
  <1>9. \A w \in Workers : Holds(w, d) => row[d].st = "running" /\ row[d].lease = "held"
    BY DEF HeldInv
  <1>10. "running" \notin Terminal /\ "none" \notin Terminal
    BY DEF Terminal
  <1> QED
    BY <1>2, <1>3, <1>4, <1>5, <1>6, <1>7, <1>8, <1>9, <1>10 DEF Tick

(* A claim is of a row that nobody runs.                                    *)
LEMMA TakeHolds ==
  ASSUME TypeInv, HeldInv, NEW w \in Workers, NEW d \in Rows, NEW k \in Ids, Take(w, d, k)
  PROVE  /\ HeldInv'
         /\ \A c \in Rows : row'[c].st = row[c].st \/ row[c].st \notin Terminal
  <1>1. <<d, k>> \in Rows \X Ids /\ job[<<d, k>>].st = "waiting" /\ wk[w].pc = "idle"
    BY DEF Take
  <1>2. CASE Noop(d, k)
    BY <1>2 DEF Noop, HeldInv, OneHolder, Holds, Del
  <1>3. CASE Claim(w, d, k)
    <2>1. PICK v \in Worker, r \in Row :
            /\ SetWorker(w, v) /\ SetRow(d, r)
            /\ v.job = <<d, k>> /\ r.st = "running" /\ r.lease = "held"
      BY <1>1, <1>3, ClaimDoes
    <2>2. wk'[w] = v /\ \A u \in Workers : u # w => wk'[u] = wk[u]
      BY <2>1, WorkerSet DEF TypeInv
    <2>3. row'[d] = r /\ \A c \in Rows : c # d => row'[c] = row[c]
      BY <2>1, RowSet DEF TypeInv
    <2>4. Claimable(d)
      BY <1>3 DEF Claim
    <2>5. \A u \in Workers : ~Holds(u, d)
      BY <2>4 DEF HeldInv, Claimable
    <2>6. v.job[1] = d
      BY <2>1
    <2>7. \A u \in Workers, c \in Rows :
            Holds(u, c)' => (u = w /\ c = d) \/ (u # w /\ c # d /\ Holds(u, c))
      BY <2>2, <2>5, <2>6 DEF Holds, Del
    <2>8. HeldInv'
      BY <2>1, <2>3, <2>7 DEF HeldInv, OneHolder
    <2>9. row[d].st \notin Terminal
      BY <2>4 DEF Claimable, Terminal
    <2> QED
      BY <2>3, <2>8, <2>9
  <1> QED
    BY <1>2, <1>3 DEF Take

(* Every step keeps each delivery with the one worker that holds it.        *)
LEMMA HeldStep ==
  ASSUME "slow" \notin Faults, TypeInv, HeldInv, [Next]_vars
  PROVE  /\ HeldInv'
         /\ \A d \in Rows : row[d].st \in Terminal =>
              \/ row'[d].st = row[d].st
              \/ row[d].st \in {"failed", "partial"} /\ row'[d].st = "queued"
  <1>1. ASSUME UNCHANGED <<row, wk>> PROVE HeldInv'
    BY <1>1 DEF HeldInv, OneHolder, Holds, Del
  <1>2. CASE UNCHANGED vars
    BY <1>1, <1>2 DEF vars
  <1>3. CASE \E j \in Rows \X Ids : Add(j) \/ LoseAdd(j) \/ Evict(j) \/ LoseLock(j)
    BY <1>1, <1>3 DEF Add, LoseAdd, Evict, LoseLock
  <1>4. CASE \E g \in Gates : Turn(g)
    BY <1>1, <1>4 DEF Turn
  <1>5. CASE \/ \E e \in Events : Dispatch(e)
             \/ \E d \in Rows : Retry(d) \/ LeaseEnds(d) \/ Overrun(d) \/ Tick(d)
    <2>1. \A d \in Rows :
            /\ UNCHANGED wk
            /\ \/ row'[d].st = row[d].st /\ row'[d].lease = row[d].lease
               \/ \A w \in Workers : ~Holds(w, d)
            /\ \/ row'[d].st = row[d].st
               \/ row[d].st \notin Terminal
               \/ row[d].st \in {"failed", "partial"} /\ row'[d].st = "queued"
      BY <1>5, RowsChange
    <2>2. HeldInv'
      BY <2>1 DEF HeldInv, OneHolder, Holds, Del
    <2> QED
      BY <2>1, <2>2
  <1>6. CASE \E w \in Workers : WorkerStep(w) \/ Crash(w)
    <2>1. PICK w \in Workers : WorkerStep(w) \/ Crash(w)
      BY <1>6
    <2>2. /\ \A u \in Workers, d \in Rows : Holds(u, d)' => Holds(u, d)
          /\ \A d \in Rows :
               \/ row'[d].st = row[d].st /\ row'[d].lease = row[d].lease
               \/ Holds(w, d) /\ ~Holds(w, d)'
      BY <2>1, WorkerHolds
    <2>3. HeldInv'
      BY <2>2 DEF HeldInv, OneHolder
    <2>4. \A d \in Rows : Holds(w, d) => row[d].st \notin Terminal
      BY DEF HeldInv, Terminal
    <2> QED
      BY <2>2, <2>3, <2>4
  <1>7. CASE \E w \in Workers, d \in Rows, k \in Ids : Take(w, d, k)
    BY <1>7, TakeHolds
  <1> QED
    BY <1>2, <1>3, <1>4, <1>5, <1>6, <1>7 DEF Next

(* Nobody runs anything at first.                                           *)
LEMMA HeldInit == Init => HeldInv
  <1> SUFFICES ASSUME Init PROVE HeldInv
    OBVIOUS
  <1>1. \A w \in Workers : wk[w].pc = "idle"
    BY Constants DEF Init
  <1> QED
    BY <1>1 DEF HeldInv, OneHolder, Holds

(* One worker at a time runs a delivery, however its jobs are queued, lost, *)
(* stalled and retried, if no attempt outlives its lease.                   *)
THEOREM OneHolderHolds ==
  ASSUME "slow" \notin Faults
  PROVE  Spec => []OneHolder
  <1>1. TypeInv /\ HeldInv /\ [Next]_vars => (TypeInv /\ HeldInv)'
    BY TypeStep, HeldStep
  <1>2. Spec => [](TypeInv /\ HeldInv)
    BY <1>1, TypeInit, HeldInit, PTL DEF Spec
  <1>3. HeldInv => OneHolder
    BY DEF HeldInv
  <1> QED
    BY <1>2, <1>3, PTL

(* What a delivery came to stays, but for a failed or partial one that a    *)
(* user retries, if no attempt outlives its lease.                          *)
THEOREM OutcomesStay ==
  ASSUME "slow" \notin Faults
  PROVE  Spec => OutcomeStays
  <1> DEFINE Stays == \A d \in Rows : row[d].st \in Terminal =>
                        \/ row'[d].st = row[d].st
                        \/ row[d].st \in {"failed", "partial"} /\ row'[d].st = "queued"
  <1>1. TypeInv /\ HeldInv /\ [Next]_vars => (TypeInv /\ HeldInv)'
    BY TypeStep, HeldStep
  <1>2. Spec => [](TypeInv /\ HeldInv)
    BY <1>1, TypeInit, HeldInit, PTL DEF Spec
  <1>3. TypeInv /\ HeldInv /\ [Next]_vars => [Stays]_vars
    BY HeldStep
  <1>4. Spec => [][Stays]_vars
    BY <1>2, <1>3, PTL DEF Spec
  <1> QED
    BY <1>4 DEF OutcomeStays

-----------------------------------------------------------------------------
(* Nobody is mailed twice.                                                  *)

Active(w) == wk[w].pc \notin {"idle", "ack"}

(* One row at a time may have been sent, and it knows everyone it reached.  *)
RowsInv ==
  /\ \A d \in Rows : row[d].st # "none" => row[d].key
  /\ \A c, d \in Rows : row[c].st # "none" /\ row[d].st # "none" => c = d
  /\ \A x \in Recipients : got[x] > 0 =>
       /\ \E d \in Rows : row[d].st # "none"
       /\ \A d \in Rows : row[d].st # "none" => x \in Known(row[d].progress)

(* So does the attempt; and whom it mails was not mailed yet.               *)
AttemptInv(w) ==
  /\ wk[w].pc = "finish" => wk[w].out # "freed"
  /\ wk[w].pc \in {"mail", "save", "unsave"} => wk[w].progress.pending = {wk[w].cur}
  /\ wk[w].pc \in {"mail", "unsave"} => got[wk[w].cur] = 0
  /\ Active(w) => \A x \in Recipients : got[x] > 0 => x \in Known(wk[w].progress)

(* The intent is in the row before the call.                                *)
IntentWritten ==
  \A w \in Workers : wk[w].pc = "mail" => wk[w].cur \in Known(row[Del(w)].progress)

OnceInv ==
  /\ RowsInv
  /\ \A w \in Workers : AttemptInv(w)
  /\ IntentWritten
  /\ NobodyTwice

(* Only one worker runs a delivery of the rule at all.                      *)
LEMMA Alone ==
  ASSUME TypeInv, HeldInv, RowsInv, NEW w \in Workers, Active(w)
  PROVE  /\ Del(w) \in Rows /\ row[Del(w)].st = "running"
         /\ \A u \in Workers : Active(u) => u = w
  <1>1. \A u \in Workers : Active(u) =>
          Del(u) \in Rows /\ Holds(u, Del(u)) /\ row[Del(u)].st = "running"
    BY DEF Active, TypeInv, JobKnown, Del, Holds, HeldInv
  <1>2. \A u \in Workers : Active(u) => Del(u) = Del(w)
    BY <1>1 DEF RowsInv
  <1> QED
    BY <1>1, <1>2 DEF HeldInv, OneHolder

(* What is kept while no email is sent, no row begins and knowledge grows.  *)
LEMMA RowsKept ==
  ASSUME RowsInv, UNCHANGED got,
         \A d \in Rows :
           /\ row'[d].st = "none" <=> row[d].st = "none"
           /\ row'[d].key = row[d].key
           /\ \A x \in Recipients : got[x] > 0 /\ x \in Known(row[d].progress) =>
                x \in Known(row'[d].progress)
  PROVE  RowsInv'
  BY DEF RowsInv, Known

(* An attempt that does not move keeps what it knows while nothing is sent. *)
LEMMA AttemptKept ==
  ASSUME NEW w \in Workers, AttemptInv(w), UNCHANGED got, wk'[w] = wk[w]
  PROVE  AttemptInv(w)'
  BY DEF AttemptInv, Active, Known

(* Steps of dispatch, users, leases and the tick.                           *)
LEMMA OnceRows ==
  ASSUME "shut" \notin Gates, TypeInv, HeldInv, OnceInv,
         \/ \E e \in Events : Dispatch(e)
         \/ \E d \in Rows : Retry(d) \/ LeaseEnds(d) \/ Overrun(d) \/ Tick(d)
  PROVE  OnceInv'
  <1> USE DEF TypeInv, OnceInv
  <1>1. ASSUME NEW c \in Rows, NEW r \in Row, SetRow(c, r)
        PROVE  row'[c] = r /\ \A d \in Rows : d # c => row'[d] = row[d]
    BY <1>1, RowSet
  <1>2. ASSUME UNCHANGED <<wk, got>>, RowsInv',
               \A w \in Workers : wk[w].pc = "mail" =>
                 Known(row[Del(w)].progress) \subseteq Known(row'[Del(w)].progress)
        PROVE  OnceInv'
    <2>1. \A w \in Workers : AttemptInv(w)'
      BY <1>2, AttemptKept
    <2>2. IntentWritten'
      BY <1>2 DEF IntentWritten, Del, Known
    <2>3. NobodyTwice'
      BY <1>2 DEF NobodyTwice
    <2> QED
      BY <1>2, <2>1, <2>2, <2>3
  <1>3. ASSUME NEW c \in Rows, NEW r \in Row, SetRow(c, r), UNCHANGED <<wk, got>>,
               r.key = row[c].key, r.progress = row[c].progress,
               r.st # "none", row[c].st # "none"
        PROVE  OnceInv'
    <2>1. row'[c] = r /\ \A d \in Rows : d # c => row'[d] = row[d]
      BY <1>1, <1>3
    <2>2. \A d \in Rows :
            /\ row'[d].st = "none" <=> row[d].st = "none"
            /\ row'[d].key = row[d].key /\ row'[d].progress = row[d].progress
      BY <1>3, <2>1
    <2>3. RowsInv'
      BY <1>3, <2>2, RowsKept
    <2>4. \A w \in Workers : wk[w].pc = "mail" => Del(w) \in Rows
      BY DEF JobKnown, Del
    <2> QED
      BY <1>2, <1>3, <2>2, <2>3, <2>4
  <1>4. ASSUME UNCHANGED <<row, wk, got>> PROVE OnceInv'
    <2>1. RowsInv'
      BY <1>4 DEF RowsInv, Known
    <2> QED
      BY <1>2, <1>4, <2>1
  <1>5. ASSUME NEW e \in Events, Dispatch(e) PROVE OnceInv'
    <2>1. gate # "shut" /\ UNCHANGED <<wk, got>>
      BY <1>5 DEF Dispatch, TypeOK
    <2>2. CASE UNCHANGED row
      BY <1>4, <2>1, <2>2
    <2>3. ASSUME NEW d \in Rows, NEW st \in {"queued", "skipped"}, Holder = {},
                 Insert(d, st, TRUE)
          PROVE  OnceInv'
      <3> DEFINE r == [NoRow EXCEPT !.st = st, !.key = TRUE]
      <3>1. r \in Row /\ r.st = st
        BY RowSteps DEF Statuses
      <3>2. r.key = TRUE
        BY DEF NoRow
      <3>3. SetRow(d, r)
        BY <2>3 DEF Insert
      <3> HIDE DEF r
      <3>4. row'[d] = r /\ \A c \in Rows : c # d => row'[c] = row[c]
        BY <1>1, <3>1, <3>3
      <3>5. \A c \in Rows : row[c].st = "none"
        BY <2>3 DEF Holder, RowsInv
      <3>6. \A x \in Recipients : ~(got[x] > 0)
        BY <3>5 DEF RowsInv
      <3>7. RowsInv'
        BY <2>1, <3>1, <3>2, <3>4, <3>5, <3>6 DEF RowsInv
      <3>8. \A w \in Workers : wk[w].pc # "mail"
        BY <3>5, Alone DEF Active
      <3> QED
        BY <1>2, <2>1, <3>7, <3>8
    <2> QED
      BY <1>5, <2>1, <2>2, <2>3 DEF Dispatch
  <1>6. ASSUME NEW d \in Rows, Retry(d) PROVE OnceInv'
    <2> DEFINE r == [row[d] EXCEPT !.st = "queued", !.attempts = 0, !.lease = "none"]
    <2>1. r \in Row /\ r.st # "none" /\ r.key = row[d].key /\ r.progress = row[d].progress
      BY DEF TypeOK, Row, Statuses
    <2>2. SetRow(d, r) /\ row[d].st # "none" /\ UNCHANGED <<wk, got>>
      BY <1>6 DEF Retry
    <2> HIDE DEF r
    <2> QED
      BY <1>3, <2>1, <2>2
  <1>7. ASSUME NEW d \in Rows, LeaseEnds(d) \/ Overrun(d) PROVE OnceInv'
    <2> DEFINE r == [row[d] EXCEPT !.lease = "over"]
    <2>1. SetRow(d, r) /\ row[d].st = "running" /\ UNCHANGED <<wk, got>>
      BY <1>7 DEF LeaseEnds, Overrun
    <2>2. r \in Row /\ r.st # "none" /\ r.key = row[d].key /\ r.progress = row[d].progress
      BY <2>1 DEF TypeOK, Row, Statuses
    <2> HIDE DEF r
    <2> QED
      BY <1>3, <2>1, <2>2
  <1>8. ASSUME NEW d \in Rows, Reclaim(d) PROVE OnceInv'
    <2>1. PICK st \in {"failed", "retrying"} :
            SetRow(d, [row[d] EXCEPT !.st = st, !.lease = "none"])
      BY <1>8 DEF Reclaim
    <2> DEFINE r == [row[d] EXCEPT !.st = st, !.lease = "none"]
    <2>2. SetRow(d, r) /\ row[d].st # "none" /\ UNCHANGED <<wk, got>>
      BY <1>8, <2>1 DEF Reclaim
    <2>3. r \in Row /\ r.st # "none" /\ r.key = row[d].key /\ r.progress = row[d].progress
      BY DEF TypeOK, Row, Statuses
    <2> HIDE DEF r
    <2> QED
      BY <1>3, <2>2, <2>3
  <1>9. ASSUME NEW d \in Rows, QueueAgain(d) PROVE OnceInv'
    BY <1>4, <1>9 DEF QueueAgain
  <1> QED
    BY <1>5, <1>6, <1>7, <1>8, <1>9 DEF Tick

(* Steps of an attempt that send nothing: the rows and what it knows.       *)
LEMMA OnceQuiet ==
  ASSUME TypeInv, HeldInv, OnceInv, NEW w \in Workers, NEW v \in Worker,
         Moves(w, v), UNCHANGED got, RowsInv', AttemptInv(w)', IntentWritten'
  PROVE  OnceInv'
  <1>1. \A u \in Workers : u # w => wk'[u] = wk[u]
    BY MovesHold
  <1>2. \A u \in Workers : AttemptInv(u)'
    BY <1>1, AttemptKept DEF OnceInv
  <1>3. NobodyTwice'
    BY DEF OnceInv, NobodyTwice
  <1> QED
    BY <1>2, <1>3 DEF OnceInv

(* Only the worker that moves can be about to mail.                         *)
LEMMA IntentKept ==
  ASSUME TypeInv, HeldInv, OnceInv, NEW w \in Workers, NEW v \in Worker, Moves(w, v),
         v.pc = "mail" => v.cur \in Known(row'[Del(w)].progress)
  PROVE  IntentWritten'
  <1>1. wk'[w] = v /\ \A u \in Workers : u # w => wk'[u] = wk[u]
    BY MovesHold
  <1>2. v.job = wk[w].job /\ Active(w)
    BY DEF Moves, Active
  <1>3. \A u \in Workers : u # w => ~Active(u)
    BY <1>2, Alone DEF OnceInv
  <1> QED
    BY <1>1, <1>2, <1>3 DEF IntentWritten, Del, Active, Known

(* A worker's progress, written or not, keeps what the rows know.           *)
LEMMA RowsSaved ==
  ASSUME TypeInv, OnceInv, NEW w \in Workers, wk[w].pc # "idle", NEW p \in Progress,
         Save(w, p), UNCHANGED got,
         \A x \in Recipients : got[x] > 0 => x \in Known(p)
  PROVE  RowsInv'
  <1>1. \A d \in Rows :
          /\ row'[d].st = row[d].st /\ row'[d].key = row[d].key
          /\ \/ row'[d].progress = row[d].progress
             \/ d = Del(w) /\ row'[d].progress = p
    BY SaveDoes
  <1>2. \A d \in Rows : \A x \in Recipients :
          got[x] > 0 /\ x \in Known(row[d].progress) => x \in Known(row'[d].progress)
    BY <1>1
  <1> QED
    BY <1>1, <1>2, RowsKept DEF OnceInv

(* An attempt goes on without a call.                                       *)
LEMMA OnceWorker ==
  ASSUME "shut" \notin Gates, TypeInv, HeldInv, OnceInv, NEW w \in Workers,
         \/ Check(w) \/ (\E x \in Recipients : Intend(w, x)) \/ SaveSent(w)
         \/ ClearIntent(w) \/ EndSending(w) \/ Finish(w)
  PROVE  OnceInv'
  <1>1. AttemptInv(w)
    BY DEF OnceInv
  <1>2. ASSUME NEW v \in Worker, Moves(w, v)
        PROVE  /\ wk'[w] = v /\ Active(w)
               /\ \A x \in Recipients : got[x] > 0 => x \in Known(wk[w].progress)
    BY <1>1, <1>2, MovesHold DEF Moves, Active, AttemptInv
  <1>3. UNCHANGED row => RowsInv' \/ ~UNCHANGED got
    BY DEF OnceInv, RowsInv, Known
  <1>4. CASE Check(w)
    <2>1. PICK v \in Worker :
            /\ Moves(w, v) /\ v.progress = wk[w].progress
            /\ v.pc \in {"send", "finish"}
            /\ v.out = "freed" => gate = "shut"
      BY <1>4, CheckDoes
    <2>2. UNCHANGED <<row, got>> /\ gate # "shut"
      BY <1>4 DEF Check, TypeInv, TypeOK
    <2>3. AttemptInv(w)'
      BY <1>2, <2>1, <2>2 DEF AttemptInv
    <2>4. IntentWritten'
      BY <2>1, IntentKept
    <2> QED
      BY <1>3, <2>1, <2>2, <2>3, <2>4, OnceQuiet
  <1>5. ASSUME NEW x \in Recipients, Intend(w, x) PROVE OnceInv'
    <2> DEFINE p == Intent(w, x)
    <2>1. PICK v \in Worker :
            /\ Moves(w, v) /\ v.progress = p /\ x \in Left(w)
            /\ \/ /\ v.pc = "mail" /\ v.cur = x
                  /\ SetRow(Del(w), [row[Del(w)] EXCEPT !.progress = p])
                  /\ UNCHANGED faults
               \/ v.pc = "finish" /\ v.out = "error" /\ UNCHANGED row /\ Fault("save")
      BY <1>5, IntendDoes
    <2>2. UNCHANGED got /\ p \in Progress /\ Save(w, p) /\ wk[w].pc # "idle"
      BY <1>5, <2>1, ProgressSteps DEF Intend, Save, TypeInv, Moves
    <2>3. p.pending = {x} /\ Known(p) = Known(wk[w].progress) \cup {x}
      BY DEF Intent, Known
    <2>4. got[x] = 0
      <3>1. x \notin Known(wk[w].progress)
        BY <2>1 DEF Left
      <3>2. ~(got[x] > 0) /\ got[x] \in Nat
        BY <1>2, <2>1, <3>1 DEF TypeInv, TypeOK
      <3> QED
        BY <3>2
    <2>5. \A y \in Recipients : got[y] > 0 => y \in Known(p)
      BY <1>2, <2>1, <2>3
    <2> HIDE DEF p
    <2>6. AttemptInv(w)'
      BY <1>2, <2>1, <2>2, <2>3, <2>4, <2>5 DEF AttemptInv
    <2>7. RowsInv'
      BY <2>2, <2>5, RowsSaved
    <2>8. v.pc = "mail" => v.cur \in Known(row'[Del(w)].progress)
      <3> SUFFICES ASSUME v.pc = "mail" PROVE v.cur \in Known(row'[Del(w)].progress)
        OBVIOUS
      <3>1. Del(w) \in Rows
        BY <2>2, SaveDoes
      <3>2. row[Del(w)] \in Row
        BY <3>1 DEF TypeInv, TypeOK
      <3> DEFINE r == [row[Del(w)] EXCEPT !.progress = p]
      <3>3. r \in Row /\ r.progress = p
        BY <2>2, <3>2 DEF Row
      <3>4. SetRow(Del(w), r) /\ v.cur = x
        BY <2>1
      <3> HIDE DEF r
      <3>5. row'[Del(w)] = r
        BY <3>1, <3>3, <3>4, RowSet DEF TypeInv
      <3> QED
        BY <2>3, <3>3, <3>4, <3>5
    <2>9. IntentWritten'
      BY <2>1, <2>8, IntentKept
    <2> QED
      BY <2>1, <2>2, <2>6, <2>7, <2>9, OnceQuiet
  <1>6. CASE SaveSent(w) \/ ClearIntent(w)
    <2>1. PICK v \in Worker, p \in Progress :
            /\ Moves(w, v) /\ v.progress = p /\ v.pc = "send" /\ Save(w, p)
            /\ p.pending = {}
            /\ \/ SaveSent(w) /\ p.sent = wk[w].progress.sent \cup {wk[w].cur}
               \/ ClearIntent(w) /\ p.sent = wk[w].progress.sent
      BY <1>6, ResultDoes
    <2>2. UNCHANGED got /\ wk[w].pc # "idle"
      BY <1>6 DEF SaveSent, ClearIntent
    <2>3. Known(wk[w].progress) = wk[w].progress.sent \cup {wk[w].cur}
      BY <1>1, <1>6 DEF AttemptInv, SaveSent, ClearIntent, Known
    <2>4. ClearIntent(w) => got[wk[w].cur] = 0
      BY <1>1 DEF AttemptInv, ClearIntent
    <2>5. \A x \in Recipients : got[x] > 0 => x \in Known(p)
      <3>1. ASSUME NEW x \in Recipients, got[x] > 0 PROVE x \in Known(p)
        <4>1. x \in wk[w].progress.sent \cup {wk[w].cur}
          BY <1>2, <2>1, <2>3, <3>1
        <4>2. ClearIntent(w) => x # wk[w].cur
          BY <2>4, <3>1
        <4> QED
          BY <2>1, <4>1, <4>2 DEF Known
      <3> QED
        BY <3>1
    <2>6. AttemptInv(w)'
      BY <1>2, <2>1, <2>2, <2>5 DEF AttemptInv
    <2>7. RowsInv'
      BY <2>1, <2>2, <2>5, RowsSaved
    <2>8. IntentWritten'
      BY <2>1, IntentKept
    <2> QED
      BY <2>1, <2>2, <2>6, <2>7, <2>8, OnceQuiet
  <1>7. CASE EndSending(w)
    <2>1. PICK v \in Worker :
            /\ Moves(w, v) /\ v.pc = "finish" /\ v.out \in {"sent", "error"}
            /\ Known(v.progress) = Known(wk[w].progress)
      BY <1>7, EndSendingDoes
    <2>2. UNCHANGED <<row, got>>
      BY <1>7 DEF EndSending
    <2>3. AttemptInv(w)'
      BY <1>2, <2>1, <2>2 DEF AttemptInv
    <2>4. IntentWritten'
      BY <2>1, IntentKept
    <2> QED
      BY <1>3, <2>1, <2>2, <2>3, <2>4, OnceQuiet
  <1>8. CASE Finish(w)
    <2>1. PICK v \in Worker, r \in Row :
            /\ Moves(w, v) /\ v.pc = "ack" /\ SetRow(Del(w), r)
            /\ r.st \in Terminal \cup {"retrying"}
            /\ r.key = (row[Del(w)].key /\ wk[w].out # "freed")
            /\ r.progress \in {wk[w].progress, row[Del(w)].progress}
      BY <1>8, FinishDoes
    <2>2. UNCHANGED got /\ wk[w].out # "freed"
      BY <1>1, <1>8 DEF Finish, AttemptInv
    <2>3. Del(w) \in Rows /\ row[Del(w)].st = "running"
      BY <1>2, <2>1, Alone DEF OnceInv
    <2>4. row'[Del(w)] = r /\ \A d \in Rows : d # Del(w) => row'[d] = row[d]
      BY <2>1, <2>3, RowSet DEF TypeInv
    <2>5. row[Del(w)].key \in BOOLEAN /\ r.st # "none"
      BY <2>1, <2>3 DEF TypeInv, TypeOK, Row, Terminal
    <2>6. \A d \in Rows :
            /\ row'[d].st = "none" <=> row[d].st = "none"
            /\ row'[d].key = row[d].key
      BY <2>1, <2>2, <2>3, <2>4, <2>5
    <2>7. \A d \in Rows : \A x \in Recipients :
            got[x] > 0 /\ x \in Known(row[d].progress) => x \in Known(row'[d].progress)
      BY <1>2, <2>1, <2>4
    <2>8. RowsInv'
      BY <2>2, <2>6, <2>7, RowsKept DEF OnceInv
    <2>9. AttemptInv(w)'
      BY <1>2, <2>1 DEF AttemptInv, Active
    <2>10. IntentWritten'
      BY <2>1, IntentKept
    <2> QED
      BY <2>1, <2>2, <2>8, <2>9, <2>10, OnceQuiet
  <1> QED
    BY <1>4, <1>5, <1>6, <1>7, <1>8

(* The call: whom it reaches was not reached before, and is known to be     *)
(* about to be.                                                             *)
LEMMA OnceMail ==
  ASSUME "unsure" \notin Faults, TypeInv, HeldInv, OnceInv, NEW w \in Workers, Mail(w)
  PROVE  OnceInv'
  <1> DEFINE cur == wk[w].cur
  <1>1. PICK v \in Worker :
          /\ Moves(w, v) /\ v.progress = wk[w].progress /\ v.cur = cur
          /\ wk[w].pc = "mail" /\ v.pc \in {"save", "unsave"}
          /\ \/ UNCHANGED got
             \/ /\ got' = [got EXCEPT ![cur] = @ + 1]
                /\ v.pc = "unsave" => "unsure" \in Faults
    BY MailDoes
  <1>2. UNCHANGED row
    BY DEF Mail
  <1>3. Active(w) /\ cur \in Recipients
    BY <1>1 DEF Active, TypeInv, CurKnown
  <1>4. /\ AttemptInv(w) /\ got[cur] = 0 /\ wk[w].progress.pending = {cur}
        /\ \A x \in Recipients : got[x] > 0 => x \in Known(wk[w].progress)
    BY <1>1, <1>3 DEF OnceInv, AttemptInv
  <1>5. wk'[w] = v /\ \A u \in Workers : u # w => wk'[u] = wk[u]
    BY <1>1, MovesHold
  <1>6. Del(w) \in Rows /\ row[Del(w)].st = "running" /\ \A u \in Workers : Active(u) => u = w
    BY <1>3, Alone DEF OnceInv
  <1>7. got \in [Recipients -> Nat]
    BY DEF TypeInv, TypeOK
  <1>8. IntentWritten'
    BY <1>1, IntentKept
  <1>9. CASE UNCHANGED got
    <2>1. AttemptInv(w)'
      BY <1>1, <1>4, <1>5, <1>9 DEF AttemptInv
    <2>2. RowsInv'
      BY <1>2, <1>9 DEF OnceInv, RowsInv, Known
    <2> QED
      BY <1>1, <1>8, <1>9, <2>1, <2>2, OnceQuiet
  <1>10. CASE got' = [got EXCEPT ![cur] = @ + 1] /\ v.pc = "save"
    <2>1. got'[cur] = 1 /\ \A x \in Recipients : x # cur => got'[x] = got[x]
      BY <1>3, <1>4, <1>7, <1>10
    <2>2. cur \in Known(row[Del(w)].progress) /\ cur \in Known(wk[w].progress)
      BY <1>1, <1>4 DEF OnceInv, IntentWritten, Known
    <2>3. \A d \in Rows : row[d].st # "none" => d = Del(w)
      BY <1>6 DEF OnceInv, RowsInv
    <2>4. RowsInv'
      <3>1. ASSUME NEW x \in Recipients, got'[x] > 0
            PROVE  /\ \E d \in Rows : row'[d].st # "none"
                   /\ \A d \in Rows : row'[d].st # "none" => x \in Known(row'[d].progress)
        <4>1. CASE x = cur
          BY <1>2, <1>6, <2>2, <2>3, <4>1
        <4>2. CASE x # cur
          BY <1>2, <2>1, <3>1, <4>2 DEF OnceInv, RowsInv
        <4> QED
          BY <4>1, <4>2
      <3> QED
        BY <1>2, <3>1 DEF OnceInv, RowsInv, Known
    <2>5. \A x \in Recipients : got'[x] > 0 => x \in Known(wk[w].progress)
      BY <1>4, <2>1, <2>2
    <2>6. AttemptInv(w)'
      BY <1>1, <1>4, <1>5, <1>10, <2>5 DEF AttemptInv
    <2>7. \A u \in Workers : u # w => AttemptInv(u)'
      BY <1>5, <1>6 DEF AttemptInv, Active
    <2>8. NobodyTwice'
      BY <2>1 DEF OnceInv, NobodyTwice
    <2> QED
      BY <1>8, <2>4, <2>6, <2>7, <2>8 DEF OnceInv
  <1> QED
    BY <1>1, <1>9, <1>10

(* A worker stops, or starts.                                               *)
LEMMA OnceEnds ==
  ASSUME TypeInv, HeldInv, OnceInv, NEW w \in Workers,
         \/ Ack(w) \/ Crash(w)
         \/ \E d \in Rows, k \in Ids : Take(w, d, k)
  PROVE  OnceInv'
  <1> USE DEF OnceInv
  <1>1. CASE Ack(w) \/ Crash(w)
    <2>1. SetWorker(w, Idle) /\ UNCHANGED <<row, got>>
      BY <1>1, EndDoes
    <2>2. wk'[w].pc = "idle" /\ \A u \in Workers : u # w => wk'[u] = wk[u]
      BY <2>1, MovesHold, Constants
    <2>3. \A u \in Workers : AttemptInv(u)'
      <3>1. AttemptInv(w)'
        BY <2>2 DEF AttemptInv, Active
      <3> QED
        BY <2>1, <2>2, <3>1, AttemptKept
    <2>4. RowsInv' /\ NobodyTwice'
      BY <2>1 DEF RowsInv, Known, NobodyTwice
    <2>5. IntentWritten'
      BY <2>1, <2>2 DEF IntentWritten, Del, Known
    <2> QED
      BY <2>3, <2>4, <2>5
  <1>2. ASSUME NEW d \in Rows, NEW k \in Ids, Take(w, d, k) PROVE OnceInv'
    <2>1. UNCHANGED got /\ job[<<d, k>>].st = "waiting"
      BY <1>2 DEF Take
    <2>2. CASE Noop(d, k)
      <3>1. UNCHANGED <<row, wk>>
        BY <2>2 DEF Noop
      <3>2. \A u \in Workers : AttemptInv(u)'
        BY <2>1, <3>1, AttemptKept
      <3> QED
        BY <2>1, <3>1, <3>2 DEF RowsInv, Known, NobodyTwice, IntentWritten, Del
    <2>3. CASE Claim(w, d, k)
      <3>1. PICK v \in Worker, r \in Row :
              /\ SetWorker(w, v) /\ SetRow(d, r)
              /\ v.pc = "check" /\ v.progress = row[d].progress
              /\ r.st = "running" /\ r.key = row[d].key /\ r.progress = row[d].progress
        BY <2>1, <2>3, ClaimDoes
      <3>2. wk'[w] = v /\ \A u \in Workers : u # w => wk'[u] = wk[u]
        BY <3>1, WorkerSet DEF TypeInv
      <3>3. row'[d] = r /\ \A c \in Rows : c # d => row'[c] = row[c]
        BY <3>1, RowSet DEF TypeInv
      <3>4. row[d].st # "none"
        BY <2>3 DEF Claim, Claimable
      <3>5. \A c \in Rows :
              /\ row'[c].st = "none" <=> row[c].st = "none"
              /\ row'[c].key = row[c].key /\ row'[c].progress = row[c].progress
        BY <3>1, <3>3, <3>4
      <3>6. RowsInv'
        BY <2>1, <3>5, RowsKept
      <3>7. AttemptInv(w)'
        BY <2>1, <3>1, <3>2, <3>4 DEF AttemptInv, RowsInv
      <3>8. \A u \in Workers : AttemptInv(u)'
        BY <2>1, <3>2, <3>7, AttemptKept
      <3>9. \A u \in Workers : wk[u].pc = "mail" => Del(u) \in Rows
        BY DEF TypeInv, JobKnown, Del
      <3>10. IntentWritten'
        BY <3>1, <3>2, <3>5, <3>9 DEF IntentWritten, Del, Known
      <3> QED
        BY <2>1, <3>6, <3>8, <3>10 DEF NobodyTwice
    <2> QED
      BY <1>2, <2>2, <2>3 DEF Take
  <1> QED
    BY <1>1, <1>2

(* No step mails anyone twice.                                              *)
LEMMA OnceStep ==
  ASSUME "unsure" \notin Faults, "shut" \notin Gates,
         TypeInv, HeldInv, OnceInv, [Next]_vars
  PROVE  OnceInv'
  <1>1. ASSUME UNCHANGED <<row, wk, got>> PROVE OnceInv'
    <2>1. \A w \in Workers : AttemptInv(w)'
      BY <1>1, AttemptKept DEF OnceInv
    <2> QED
      BY <1>1, <2>1 DEF OnceInv, RowsInv, Known, NobodyTwice, IntentWritten, Del
  <1>2. CASE UNCHANGED vars
    BY <1>1, <1>2 DEF vars
  <1>3. CASE \E j \in Rows \X Ids : Add(j) \/ LoseAdd(j) \/ Evict(j) \/ LoseLock(j)
    BY <1>1, <1>3 DEF Add, LoseAdd, Evict, LoseLock
  <1>4. CASE \E g \in Gates : Turn(g)
    BY <1>1, <1>4 DEF Turn
  <1> QED
    BY <1>2, <1>3, <1>4, OnceRows, OnceWorker, OnceMail, OnceEnds DEF Next, WorkerStep

(* Nobody was mailed at first.                                              *)
LEMMA OnceInit == Init => OnceInv
  <1> SUFFICES ASSUME Init PROVE OnceInv
    OBVIOUS
  <1>1. \A d \in Rows : row[d].st = "none"
    BY DEF Init, NoRow
  <1>2. \A w \in Workers : wk[w].pc = "idle"
    BY Constants DEF Init
  <1>3. \A x \in Recipients : got[x] = 0
    BY DEF Init
  <1>4. RowsInv /\ NobodyTwice
    BY <1>1, <1>3 DEF RowsInv, NobodyTwice
  <1>5. \A w \in Workers : AttemptInv(w)
    BY <1>2 DEF AttemptInv, Active
  <1>6. IntentWritten
    BY <1>2 DEF IntentWritten
  <1> QED
    BY <1>4, <1>5, <1>6 DEF OnceInv

(* Nobody gets the recap twice, through any number of crashes, lost locks,  *)
(* lost jobs, failed writes and retries, if no attempt outlives its lease,  *)
(* the mail server's answers are true and no skip gives up the rule's key.  *)
THEOREM OnlyOnce ==
  ASSUME "slow" \notin Faults, "unsure" \notin Faults, "shut" \notin Gates
  PROVE  Spec => []NobodyTwice
  <1>1. TypeInv /\ HeldInv /\ OnceInv /\ [Next]_vars => (TypeInv /\ HeldInv /\ OnceInv)'
    BY TypeStep, HeldStep, OnceStep
  <1>2. Spec => [](TypeInv /\ HeldInv /\ OnceInv)
    BY <1>1, TypeInit, HeldInit, OnceInit, PTL DEF Spec
  <1>3. OnceInv => NobodyTwice
    BY DEF OnceInv
  <1> QED
    BY <1>2, <1>3, PTL

-----------------------------------------------------------------------------
(* A delivery that says it was sent missed one recipient for each fault.    *)

(* Whom progress counts as sent to, but who got nothing; the recipient of   *)
(* an email under way is spared until the call's result is written.         *)
Missed(progress) == {x \in Known(progress) : got[x] = 0}

Spared(w) == IF wk[w].pc \in {"mail", "unsave"} THEN {wk[w].cur} ELSE {}

Few(S) == Cardinality(S) <= faults

(* What an attempt missed, and that it ends as sent when it knows everyone. *)
AttemptLoss(w) ==
  /\ Active(w) => Few(Missed(wk[w].progress) \ Spared(w))
  /\ wk[w].pc \in {"mail", "save", "unsave"} =>
       /\ wk[w].progress.pending = {wk[w].cur}
       /\ wk[w].cur \notin wk[w].progress.sent
  /\ wk[w].pc = "save" => got[wk[w].cur] > 0
  /\ wk[w].pc = "finish" /\ wk[w].out = "sent" => Known(wk[w].progress) = Recipients

(* What a row missed, while a worker runs it and while none does.           *)
RowLoss(d) ==
  /\ \A w \in Workers : Holds(w, d) => Few(Missed(row[d].progress) \ Spared(w))
  /\ (\A w \in Workers : ~Holds(w, d)) => Few(Missed(row[d].progress))
  /\ row[d].st = "sent" => Known(row[d].progress) = Recipients

LossInv == (\A w \in Workers : AttemptLoss(w)) /\ (\A d \in Rows : RowLoss(d))

(* Fewer recipients were missed, or more faults happened: still few.        *)
LEMMA Fewer ==
  ASSUME NEW m \in Nat, NEW n \in Nat, m <= n,
         NEW T \in SUBSET Recipients, NEW S \in SUBSET T, Cardinality(T) <= m
  PROVE  Cardinality(S) <= n
  <1>1. IsFiniteSet(T)
    BY FS_Subset, DeliveryAssumption
  <1>2. Cardinality(T) \in Nat /\ Cardinality(S) \in Nat /\ Cardinality(S) <= Cardinality(T)
    BY <1>1, FS_Subset, FS_CardinalityType
  <1> QED
    BY <1>2

(* One recipient more was missed, for one fault more.                       *)
LEMMA OneMore ==
  ASSUME NEW m \in Nat, NEW T \in SUBSET Recipients, NEW x, Cardinality(T \ {x}) <= m
  PROVE  Cardinality(T) <= m + 1
  <1>1. IsFiniteSet(T) /\ IsFiniteSet(T \ {x})
    BY FS_Subset, DeliveryAssumption
  <1>2. Cardinality(T) \in Nat /\ Cardinality(T \ {x}) \in Nat
    BY <1>1, FS_CardinalityType
  <1>3. Cardinality(T) <= Cardinality(T \ {x}) + 1
    <2>1. CASE x \in T
      <3>1. Cardinality(T \ {x}) = Cardinality(T) - 1
        BY <1>1, <2>1, FS_RemoveElement
      <3> QED
        BY <1>2, <3>1
    <2>2. CASE x \notin T
      <3>1. T \ {x} = T
        BY <2>2
      <3> QED
        BY <1>2, <3>1
    <2> QED
      BY <2>1, <2>2
  <1> QED
    BY <1>2, <1>3

(* Nobody is missed any more, or for the first time, and few stay few, in a *)
(* step that takes back no email and no fault.                              *)
LEMMA LossShrinks ==
  ASSUME TypeOK, TypeOK', faults <= faults',
         \A x \in Recipients : got[x] <= got'[x]
  PROVE  /\ \A p \in Progress : Missed(p)' \in SUBSET Missed(p)
         /\ \A T \in SUBSET Recipients : \A S \in SUBSET T : Few(T) => Few(S)'
  <1>1. faults \in Nat /\ faults' \in Nat
    BY DeliveryAssumption DEF TypeOK
  <1>2. \A x \in Recipients : got[x] \in Nat /\ got'[x] \in Nat
    BY DEF TypeOK
  <1>3. \A p \in Progress : Known(p) \in SUBSET Recipients
    BY DEF Known, Progress
  <1>4. ASSUME NEW p \in Progress, NEW x \in Missed(p)' PROVE x \in Missed(p)
    <2>1. x \in Known(p) /\ x \in Recipients /\ got'[x] = 0
      BY <1>3, <1>4 DEF Missed, Known
    <2>2. got[x] <= 0 /\ got[x] \in Nat
      BY <1>2, <2>1
    <2> QED
      BY <2>1, <2>2 DEF Missed
  <1>5. ASSUME NEW T \in SUBSET Recipients, NEW S \in SUBSET T, Few(T) PROVE Few(S)'
    <2>1. Cardinality(S) <= faults'
      BY <1>1, <1>5, Fewer DEF Few
    <2> QED
      BY <2>1 DEF Few
  <1> QED
    BY <1>4, <1>5

(* Faults are counted up only.                                              *)
LEMMA FaultsGrow ==
  ASSUME TypeOK, Next
  PROVE  faults <= faults'
  <1>1. faults \in Nat
    BY DEF TypeOK
  <1>2. ASSUME UNCHANGED faults \/ faults' = faults + 1 PROVE faults <= faults'
    BY <1>1, <1>2
  <1> USE DEF Fault
  <1>3. ASSUME NEW j \in Rows \X Ids, Add(j) \/ LoseAdd(j) \/ Evict(j) \/ LoseLock(j)
        PROVE  faults <= faults'
    BY <1>2, <1>3 DEF Add, LoseAdd, Evict, LoseLock
  <1>4. ASSUME NEW e \in Events, Dispatch(e) PROVE faults <= faults'
    BY <1>2, <1>4 DEF Dispatch
  <1>5. ASSUME NEW g \in Gates, Turn(g) PROVE faults <= faults'
    BY <1>2, <1>5 DEF Turn
  <1>6. ASSUME NEW d \in Rows, Retry(d) \/ LeaseEnds(d) \/ Overrun(d) \/ Tick(d)
        PROVE  faults <= faults'
    BY <1>2, <1>6 DEF Retry, LeaseEnds, Overrun, Tick, Reclaim, QueueAgain
  <1>7. ASSUME NEW w \in Workers, WorkerStep(w) \/ Crash(w) PROVE faults <= faults'
    <2>1. CASE Check(w) \/ EndSending(w) \/ Finish(w) \/ Ack(w)
      BY <1>2, <2>1 DEF Check, EndSending, Finish, Ack
    <2>2. CASE \E x \in Recipients : Intend(w, x)
      BY <1>2, <2>2 DEF Intend
    <2>3. CASE SaveSent(w) \/ ClearIntent(w)
      BY <1>2, <2>3 DEF SaveSent, ClearIntent, Save
    <2>4. CASE Mail(w)
      BY <1>2, <2>4 DEF Mail
    <2>5. CASE Crash(w)
      BY <1>2, <2>5 DEF Crash
    <2> QED
      BY <1>7, <2>1, <2>2, <2>3, <2>4, <2>5 DEF WorkerStep
  <1>8. ASSUME NEW w \in Workers, NEW d \in Rows, NEW k \in Ids, Take(w, d, k)
        PROVE  faults <= faults'
    BY <1>2, <1>8 DEF Take
  <1> QED
    BY <1>3, <1>4, <1>5, <1>6, <1>7, <1>8 DEF Next

(* The progress of rows and attempts is of recipients.                      *)
LEMMA ProgressTypes ==
  ASSUME TypeOK
  PROVE  /\ \A d \in Rows : row[d].progress \in Progress
         /\ \A w \in Workers : wk[w].progress \in Progress
         /\ \A p \in Progress : Missed(p) \in SUBSET Recipients
  BY DEF TypeOK, Row, Worker, Missed, Known, Progress

(* An attempt that does not move missed nobody more.                        *)
LEMMA LossKept ==
  ASSUME TypeOK, TypeOK', faults <= faults', \A x \in Recipients : got[x] <= got'[x],
         NEW u \in Workers, AttemptLoss(u), TypeInv, wk'[u] = wk[u]
  PROVE  AttemptLoss(u)'
  <1>1. /\ Missed(wk[u].progress)' \in SUBSET Missed(wk[u].progress)
        /\ Missed(wk[u].progress) \in SUBSET Recipients
        /\ Spared(u)' = Spared(u) /\ (Active(u)' <=> Active(u))
    <2>1. wk[u].progress \in Progress
      BY ProgressTypes
    <2>2. Missed(wk[u].progress)' = {x \in Known(wk[u].progress) : got'[x] = 0}
      BY DEF Missed, Known
    <2>3. \A p \in Progress : {x \in Known(p) : got'[x] = 0} \in SUBSET Missed(p)
      BY LossShrinks DEF Missed, Known
    <2> QED
      BY <2>1, <2>2, <2>3, ProgressTypes DEF Spared, Active
  <1>2. Active(u) => Few(Missed(wk[u].progress) \ Spared(u))'
    <2> DEFINE S == Missed(wk[u].progress)' \ Spared(u)
               T == Missed(wk[u].progress) \ Spared(u)
    <2>1. S \in SUBSET T /\ T \in SUBSET Recipients
      BY <1>1
    <2>2. Active(u) => Few(T)
      BY DEF AttemptLoss
    <2>3. Active(u) => Cardinality(S) <= faults'
      <3> HIDE DEF S, T
      <3>1. faults \in Nat /\ faults' \in Nat
        BY DeliveryAssumption DEF TypeOK
      <3> QED
        BY <2>1, <2>2, <3>1, Fewer DEF Few
    <2> QED
      BY <1>1, <2>3 DEF Few
  <1>3. wk[u].pc = "save" => got'[wk[u].cur] > 0
    <2>1. wk[u].pc = "save" => wk[u].cur \in Recipients
      BY DEF TypeInv, CurKnown
    <2>2. \A x \in Recipients : got[x] \in Nat /\ got'[x] \in Nat
      BY DEF TypeOK
    <2>3. \A a, b \in Nat : a > 0 /\ a <= b => b > 0
      OBVIOUS
    <2> QED
      BY <2>1, <2>2, <2>3 DEF AttemptLoss
  <1> QED
    BY <1>1, <1>2, <1>3 DEF AttemptLoss, Known

(* A row that does not change, and is run by the same workers as before,    *)
(* none of which moves, missed nobody more.                                 *)
LEMMA RowLossKept ==
  ASSUME TypeOK, TypeOK', faults <= faults', \A x \in Recipients : got[x] <= got'[x],
         NEW d \in Rows, RowLoss(d),
         row'[d].progress = row[d].progress,
         row'[d].st = "sent" => row[d].st = "sent",
         \A u \in Workers : Holds(u, d)' <=> Holds(u, d),
         \A u \in Workers : Holds(u, d) => wk'[u] = wk[u]
  PROVE  RowLoss(d)'
  <1> DEFINE now == Missed(row[d].progress)
             then == {x \in Known(row[d].progress) : got'[x] = 0}
  <1>1. then \in SUBSET now /\ now \in SUBSET Recipients /\ Missed(row[d].progress)' = then
    <2>1. row[d].progress \in Progress
      BY ProgressTypes
    <2>2. Missed(row[d].progress)' = then
      BY DEF Missed, Known
    <2>3. \A p \in Progress : {x \in Known(p) : got'[x] = 0} \in SUBSET Missed(p)
      BY LossShrinks DEF Missed, Known
    <2> QED
      BY <2>1, <2>2, <2>3, ProgressTypes
  <1>2. faults \in Nat /\ faults' \in Nat
    BY DeliveryAssumption DEF TypeOK
  <1>3. ASSUME NEW E, Few(now \ E) PROVE Cardinality(then \ E) <= faults'
    <2> DEFINE S == then \ E
               T == now \ E
    <2>1. S \in SUBSET T /\ T \in SUBSET Recipients /\ Few(T)
      BY <1>1, <1>3
    <2> HIDE DEF S, T, now, then
    <2>2. Cardinality(S) <= faults'
      BY <1>2, <2>1, Fewer DEF Few
    <2> QED
      BY <2>2 DEF S
  <1>4. ASSUME NEW u \in Workers, Holds(u, d)'
        PROVE  Few(Missed(row[d].progress) \ Spared(u))'
    <2>1. Spared(u)' = Spared(u) /\ Few(now \ Spared(u))
      BY <1>4 DEF Spared, RowLoss
    <2>2. Cardinality(then \ Spared(u)) <= faults'
      BY <1>3, <2>1
    <2> QED
      BY <1>1, <2>1, <2>2 DEF Few
  <1>5. ASSUME \A u \in Workers : ~Holds(u, d)'
        PROVE  Few(Missed(row[d].progress))'
    <2>1. Few(now \ {})
      BY <1>5 DEF RowLoss
    <2>2. Cardinality(then \ {}) <= faults'
      BY <1>3, <2>1
    <2> QED
      BY <1>1, <2>2 DEF Few
  <1>6. row'[d].st = "sent" => Known(row'[d].progress) = Recipients
    BY DEF RowLoss, Known
  <1> QED
    BY <1>4, <1>5, <1>6 DEF RowLoss, Known

(* The same of some progress once the step is taken.                        *)
MissedThen(progress) == {x \in Known(progress) : got'[x] = 0}

SparedBy(v) == IF v.pc \in {"mail", "unsave"} THEN {v.cur} ELSE {}

(* What one attempt's step has to keep, for nobody more to be missed.       *)
LEMMA LossMoves ==
  ASSUME TypeInv, TypeInv', HeldInv, LossInv,
         faults <= faults', \A x \in Recipients : got[x] <= got'[x],
         NEW w \in Workers, NEW v \in Worker, Moves(w, v),
         NEW d \in Rows, d = Del(w), \A c \in Rows : c # d => row'[c] = row[c],
         v.pc # "ack" => Cardinality(MissedThen(v.progress) \ SparedBy(v)) <= faults',
         Cardinality(MissedThen(row'[d].progress) \ SparedBy(v)) <= faults',
         v.pc \in {"mail", "save", "unsave"} =>
           v.progress.pending = {v.cur} /\ v.cur \notin v.progress.sent,
         v.pc = "save" => got'[v.cur] > 0,
         v.pc = "finish" /\ v.out = "sent" => Known(v.progress) = Recipients,
         row'[d].st = "sent" => Known(row'[d].progress) = Recipients
  PROVE  LossInv'
  <1>1. wk'[w] = v /\ \A u \in Workers : u # w => wk'[u] = wk[u]
    BY MovesHold
  <1>2. v.job = wk[w].job /\ v.pc # "idle" /\ wk[w].pc \notin {"idle", "ack"}
    BY DEF Moves
  <1>3. TypeOK /\ TypeOK'
    BY DEF TypeInv
  <1>4. AttemptLoss(w)'
    <2>1. Missed(wk[w].progress)' = MissedThen(v.progress)
      BY <1>1 DEF Missed, MissedThen, Known
    <2>2. Spared(w)' = SparedBy(v)
      BY <1>1 DEF Spared, SparedBy
    <2>3. v.pc # "ack" => Few(Missed(wk[w].progress) \ Spared(w))'
      BY <2>1, <2>2 DEF Few
    <2> QED
      BY <1>1, <2>3 DEF AttemptLoss, Active, Known
  <1>5. \A u \in Workers : AttemptLoss(u)'
    BY <1>1, <1>3, <1>4, LossKept DEF LossInv
  <1>6. \A u \in Workers : Holds(u, d)' => u = w
    BY <1>1, <1>2 DEF HeldInv, OneHolder, Holds, Del
  <1>7. RowLoss(d)'
    <2>1. Missed(row[d].progress)' = MissedThen(row'[d].progress)
      BY DEF Missed, MissedThen, Known
    <2>2. Spared(w)' = SparedBy(v)
      BY <1>1 DEF Spared, SparedBy
    <2>3. Few(Missed(row[d].progress) \ Spared(w))'
      BY <2>1, <2>2 DEF Few
    <2>4. ASSUME \A u \in Workers : ~Holds(u, d)' PROVE Few(Missed(row[d].progress))'
      <3>1. v.pc = "ack"
        BY <1>1, <1>2, <2>4 DEF Holds, Del
      <3>2. SparedBy(v) = {}
        BY <3>1 DEF SparedBy
      <3>3. MissedThen(row'[d].progress) \ SparedBy(v) = MissedThen(row'[d].progress)
        BY <3>2
      <3> QED
        BY <2>1, <3>3 DEF Few
    <2> QED
      BY <1>6, <2>3, <2>4 DEF RowLoss, Known
  <1>8. ASSUME NEW c \in Rows, c # d PROVE RowLoss(c)'
    <2>1. \A u \in Workers : Holds(u, c)' <=> Holds(u, c)
      BY <1>1, <1>2, <1>8 DEF Holds, Del
    <2>2. \A u \in Workers : Holds(u, c) => wk'[u] = wk[u]
      BY <1>1, <1>8 DEF Holds
    <2>3. RowLoss(c) /\ row'[c] = row[c]
      BY <1>8 DEF LossInv
    <2> QED
      BY <1>3, <2>1, <2>2, <2>3, RowLossKept
  <1> QED
    BY <1>5, <1>7, <1>8 DEF LossInv

(* What a running attempt and its row missed so far.                        *)
LEMMA LossSoFar ==
  ASSUME TypeInv, LossInv, NEW w \in Workers, Active(w)
  PROVE  /\ Del(w) \in Rows
         /\ wk[w].progress \in Progress /\ row[Del(w)].progress \in Progress
         /\ Missed(wk[w].progress) \in SUBSET Recipients
         /\ Missed(row[Del(w)].progress) \in SUBSET Recipients
         /\ Cardinality(Missed(wk[w].progress) \ Spared(w)) <= faults
         /\ Cardinality(Missed(row[Del(w)].progress) \ Spared(w)) <= faults
         /\ faults \in Nat
  <1>1. Del(w) \in Rows
    BY DEF Active, TypeInv, JobKnown, Del
  <1>2. Holds(w, Del(w))
    BY DEF Active, Holds
  <1>3. wk[w].progress \in Progress /\ row[Del(w)].progress \in Progress
    BY <1>1, ProgressTypes DEF TypeInv
  <1>4. faults \in Nat
    BY DEF TypeInv, TypeOK
  <1> QED
    BY <1>1, <1>2, <1>3, <1>4, ProgressTypes
       DEF TypeInv, LossInv, AttemptLoss, RowLoss, Few

(* The gate, the end of the sending, and the outcome.                       *)
LEMMA LossQuiet ==
  ASSUME TypeInv, TypeInv', HeldInv, LossInv, NEW w \in Workers,
         Check(w) \/ EndSending(w) \/ Finish(w)
  PROVE  LossInv'
  <1>1. Active(w) /\ Spared(w) = {} /\ UNCHANGED <<got, faults>>
    BY DEF Check, EndSending, Finish, Active, Spared
  <1>2. /\ \A p \in Progress : MissedThen(p) = Missed(p)
        /\ faults <= faults' /\ \A x \in Recipients : got[x] <= got'[x]
    BY <1>1 DEF MissedThen, Missed, TypeInv, TypeOK
  <1>3. /\ Del(w) \in Rows
        /\ wk[w].progress \in Progress /\ row[Del(w)].progress \in Progress
        /\ Cardinality(Missed(wk[w].progress)) <= faults
        /\ Cardinality(Missed(row[Del(w)].progress)) <= faults
    <2>1. \A S : S \ Spared(w) = S
      BY <1>1
    <2> QED
      BY <1>1, <2>1, LossSoFar
  <1>4. ASSUME NEW v \in Worker, Moves(w, v), v.pc \in {"send", "finish"},
               Known(v.progress) = Known(wk[w].progress),
               v.out = "sent" => Known(v.progress) = Recipients, UNCHANGED row
        PROVE  LossInv'
    <2>1. SparedBy(v) = {}
      BY <1>4 DEF SparedBy
    <2>2. MissedThen(v.progress) \ SparedBy(v) = Missed(wk[w].progress)
      BY <1>2, <1>3, <1>4, <2>1 DEF MissedThen
    <2>3. MissedThen(row'[Del(w)].progress) \ SparedBy(v) = Missed(row[Del(w)].progress)
      BY <1>2, <1>3, <1>4, <2>1
    <2>4. row[Del(w)].st # "sent"
      BY <1>1, <1>3 DEF HeldInv, Active, Holds
    <2> QED
      BY <1>1, <1>2, <1>3, <1>4, <2>2, <2>3, <2>4, LossMoves
  <1>5. CASE Check(w)
    <2>1. PICK v \in Worker :
            /\ Moves(w, v) /\ v.progress = wk[w].progress
            /\ v.pc \in {"send", "finish"} /\ v.out # "sent"
      BY <1>5, CheckDoes
    <2> QED
      BY <1>4, <1>5, <2>1 DEF Check
  <1>6. CASE EndSending(w)
    <2>1. PICK v \in Worker :
            /\ Moves(w, v) /\ v.pc = "finish"
            /\ Known(v.progress) = Known(wk[w].progress)
            /\ v.out = "sent" => Known(v.progress) = Recipients
      BY <1>6, EndSendingDoes
    <2> QED
      BY <1>4, <1>6, <2>1 DEF EndSending
  <1>7. CASE Finish(w)
    <2>1. PICK v \in Worker, r \in Row :
            /\ Moves(w, v) /\ v.pc = "ack" /\ SetRow(Del(w), r)
            /\ r.progress \in {wk[w].progress, row[Del(w)].progress}
            /\ r.st = "sent" => wk[w].out = "sent" /\ r.progress = wk[w].progress
      BY <1>7, FinishDoes
    <2>2. row'[Del(w)] = r /\ \A c \in Rows : c # Del(w) => row'[c] = row[c]
      BY <1>3, <2>1, RowSet DEF TypeInv
    <2>3. SparedBy(v) = {}
      BY <2>1 DEF SparedBy
    <2>4. MissedThen(r.progress) \ SparedBy(v) = Missed(r.progress)
      BY <1>2, <1>3, <2>1, <2>3
    <2>5. Cardinality(Missed(r.progress)) <= faults'
      BY <1>1, <1>3, <2>1
    <2>6. Cardinality(MissedThen(row'[Del(w)].progress) \ SparedBy(v)) <= faults'
      BY <2>2, <2>4, <2>5
    <2>7. r.st = "sent" => Known(r.progress) = Recipients
      BY <1>7, <2>1 DEF LossInv, AttemptLoss, Finish
    <2> QED
      BY <1>2, <1>3, <2>1, <2>2, <2>6, <2>7, LossMoves
  <1> QED
    BY <1>5, <1>6, <1>7

(* The intent: whoever is mailed next is spared; when the intent cannot be  *)
(* written, the attempt takes it for sent, for one fault.                   *)
LEMMA LossIntend ==
  ASSUME TypeInv, TypeInv', HeldInv, LossInv, NEW w \in Workers,
         NEW x \in Recipients, Intend(w, x)
  PROVE  LossInv'
  <1> DEFINE p == Intent(w, x)
             was == wk[w].progress
             d == Del(w)
  <1>1. Active(w) /\ Spared(w) = {} /\ UNCHANGED got
    BY DEF Intend, Active, Spared
  <1>2. /\ d \in Rows /\ was \in Progress /\ row[d].progress \in Progress
        /\ Missed(was) \in SUBSET Recipients
        /\ Cardinality(Missed(was)) <= faults
        /\ Cardinality(Missed(row[d].progress)) <= faults
        /\ faults \in Nat
    <2>1. \A S : S \ Spared(w) = S
      BY <1>1
    <2> QED
      BY <1>1, <2>1, LossSoFar
  <1>3. \A q \in Progress : MissedThen(q) = Missed(q)
    BY <1>1 DEF MissedThen, Missed
  <1>4. \A y \in Recipients : got[y] <= got'[y]
    BY <1>1 DEF TypeInv, TypeOK
  <1>5. row[d].st # "sent"
    BY <1>1, <1>2 DEF HeldInv, Active, Holds
  <1>6. PICK v \in Worker :
          /\ Moves(w, v) /\ v.progress = p /\ x \in Left(w)
          /\ \/ /\ v.pc = "mail" /\ v.cur = x
                /\ SetRow(d, [row[d] EXCEPT !.progress = p])
                /\ UNCHANGED faults
             \/ v.pc = "finish" /\ v.out = "error" /\ UNCHANGED row /\ Fault("save")
    BY IntendDoes
  <1>7. /\ p \in Progress /\ Known(p) = Known(was) \cup {x}
        /\ p.pending = {x} /\ x \notin p.sent
    BY <1>6, ProgressSteps DEF TypeInv, Intent, Known, Left
  <1>8. Missed(p) \ {x} \in SUBSET Missed(was)
    BY <1>7 DEF Missed
  <1>9. Missed(p) \in SUBSET Recipients
    BY <1>7, ProgressTypes DEF TypeInv
  <1> HIDE DEF p, was
  <1>10. Cardinality(Missed(p) \ {x}) <= faults
    BY <1>2, <1>8, Fewer
  <1>11. CASE /\ v.pc = "mail" /\ v.cur = x
              /\ SetRow(d, [row[d] EXCEPT !.progress = p])
              /\ UNCHANGED faults
    <2>1. row[d] \in Row
      BY <1>2 DEF TypeInv, TypeOK
    <2> DEFINE r == [row[d] EXCEPT !.progress = p]
    <2>2. r \in Row /\ r.progress = p /\ r.st = row[d].st
      BY <1>7, <2>1 DEF Row
    <2>3. SetRow(d, r)
      BY <1>11
    <2> HIDE DEF r, d
    <2>4. row'[d] = r /\ \A c \in Rows : c # d => row'[c] = row[c]
      BY <1>2, <2>2, <2>3, RowSet DEF TypeInv
    <2>5. SparedBy(v) = {x} /\ MissedThen(p) = Missed(p)
      BY <1>3, <1>7, <1>11 DEF SparedBy
    <2>6. Cardinality(MissedThen(p) \ SparedBy(v)) <= faults' /\ faults <= faults'
      BY <1>2, <1>10, <1>11, <2>5
    <2> QED
      BY <1>2, <1>4, <1>5, <1>6, <1>7, <1>11, <2>2, <2>4, <2>6, LossMoves DEF d
  <1>12. CASE v.pc = "finish" /\ v.out = "error" /\ UNCHANGED row /\ Fault("save")
    <2>1. faults' = faults + 1
      BY <1>12 DEF Fault
    <2>2. Cardinality(Missed(p)) <= faults + 1
      BY <1>2, <1>9, <1>10, OneMore
    <2>3. SparedBy(v) = {}
      BY <1>12 DEF SparedBy
    <2>4. MissedThen(p) \ SparedBy(v) = Missed(p)
      BY <1>3, <1>7, <2>3
    <2>5. MissedThen(row'[d].progress) \ SparedBy(v) = Missed(row[d].progress)
      BY <1>2, <1>3, <1>12, <2>3
    <2>6. Cardinality(Missed(row[d].progress)) <= faults + 1 /\ faults <= faults + 1
      <3>1. Missed(row[d].progress) \in SUBSET Recipients
        BY <1>2, ProgressTypes DEF TypeInv
      <3>2. faults + 1 \in Nat /\ faults <= faults + 1
        BY <1>2
      <3> QED
        BY <1>2, <3>1, <3>2, Fewer
    <2> HIDE DEF d
    <2> QED
      BY <1>2, <1>4, <1>5, <1>6, <1>12, <2>1, <2>2, <2>4, <2>5, <2>6, LossMoves DEF d
  <1> QED
    BY <1>6, <1>11, <1>12

(* The call: whom it reaches is missed no more; whom it may not have        *)
(* reached is spared until the result is written.                           *)
LEMMA LossMail ==
  ASSUME TypeInv, TypeInv', HeldInv, LossInv, NEW w \in Workers, Mail(w), faults <= faults'
  PROVE  LossInv'
  <1> DEFINE cur == wk[w].cur
             was == wk[w].progress
             d == Del(w)
  <1>1. PICK v \in Worker :
          /\ Moves(w, v) /\ v.progress = was /\ v.cur = cur
          /\ wk[w].pc = "mail" /\ v.pc \in {"save", "unsave"}
          /\ \/ UNCHANGED got /\ v.pc = "unsave"
             \/ got' = [got EXCEPT ![cur] = @ + 1]
    BY MailDoes
  <1>2. Active(w) /\ Spared(w) = {cur} /\ UNCHANGED row
    BY <1>1 DEF Mail, Active, Spared
  <1>3. /\ d \in Rows /\ was \in Progress /\ row[d].progress \in Progress
        /\ Missed(was) \in SUBSET Recipients
        /\ Missed(row[d].progress) \in SUBSET Recipients
        /\ Cardinality(Missed(was) \ {cur}) <= faults
        /\ Cardinality(Missed(row[d].progress) \ {cur}) <= faults
        /\ faults \in Nat /\ faults' \in Nat
    <2>1. faults' \in Nat
      BY DEF TypeInv, TypeOK
    <2>2. \A S : S \ Spared(w) = S \ {cur}
      BY <1>2
    <2> HIDE DEF cur
    <2> QED
      BY <1>2, <2>1, <2>2, LossSoFar
  <1>4. /\ cur \in Recipients
        /\ was.pending = {cur} /\ cur \notin was.sent
    BY <1>1 DEF TypeInv, CurKnown, LossInv, AttemptLoss
  <1>5. got \in [Recipients -> Nat]
    BY DEF TypeInv, TypeOK
  <1>6. /\ \A y \in Recipients : got[y] <= got'[y]
        /\ v.pc = "save" => got'[cur] > 0
    BY <1>1, <1>4, <1>5
  <1>7. ASSUME NEW q \in Progress
        PROVE  MissedThen(q) \ SparedBy(v) \in SUBSET (Missed(q) \ {cur})
    <2>1. Known(q) \in SUBSET Recipients
      BY DEF Known, Progress
    <2>2. \A y \in Recipients : got'[y] = 0 => got[y] = 0
      BY <1>1, <1>4, <1>5
    <2>3. CASE v.pc = "unsave"
      BY <1>1, <2>1, <2>2, <2>3 DEF MissedThen, Missed, SparedBy
    <2>4. CASE v.pc = "save"
      <3>1. got'[cur] # 0
        BY <1>4, <1>5, <1>6, <2>4
      <3> QED
        BY <2>1, <2>2, <3>1 DEF MissedThen, Missed
    <2> QED
      BY <1>1, <2>3, <2>4
  <1>8. row[d].st # "sent"
    BY <1>2, <1>3 DEF HeldInv, Active, Holds
  <1> HIDE DEF cur, was, d
  <1>9. Cardinality(MissedThen(was) \ SparedBy(v)) <= faults'
    BY <1>3, <1>7, Fewer
  <1>10. Cardinality(MissedThen(row[d].progress) \ SparedBy(v)) <= faults'
    BY <1>3, <1>7, Fewer
  <1> QED
    BY <1>1, <1>2, <1>3, <1>4, <1>6, <1>8, <1>9, <1>10, LossMoves DEF d

(* The result: a sent email is missed no more; a withdrawn one is forgotten *)
(* by the attempt and by the row, or by the attempt alone for one fault.    *)
LEMMA LossResult ==
  ASSUME TypeInv, TypeInv', HeldInv, LossInv, NEW w \in Workers,
         SaveSent(w) \/ ClearIntent(w)
  PROVE  LossInv'
  <1> DEFINE cur == wk[w].cur
             was == wk[w].progress
             d == Del(w)
  <1>1. PICK v \in Worker, p \in Progress :
          /\ Moves(w, v) /\ v.progress = p /\ v.pc = "send" /\ Save(w, p)
          /\ p.pending = {}
          /\ \/ SaveSent(w) /\ p.sent = was.sent \cup {cur}
             \/ ClearIntent(w) /\ p.sent = was.sent
    BY ResultDoes
  <1>2. /\ Active(w) /\ wk[w].pc \in {"save", "unsave"} /\ UNCHANGED got
        /\ SaveSent(w) => Spared(w) = {}
        /\ ClearIntent(w) => Spared(w) = {cur}
    BY DEF SaveSent, ClearIntent, Active, Spared
  <1>3. was.pending = {cur} /\ cur \notin was.sent
    BY <1>2 DEF LossInv, AttemptLoss
  <1>4. /\ d \in Rows /\ row[d].progress \in Progress
        /\ Missed(was) \in SUBSET Recipients
        /\ Missed(row[d].progress) \in SUBSET Recipients
        /\ Cardinality(Missed(was) \ Spared(w)) <= faults
        /\ Cardinality(Missed(row[d].progress) \ Spared(w)) <= faults
        /\ faults \in Nat
    BY <1>2, LossSoFar
  <1>5. \A q \in Progress : MissedThen(q) = Missed(q)
    BY <1>2 DEF MissedThen, Missed
  <1>6. \A y \in Recipients : got[y] <= got'[y]
    BY <1>2 DEF TypeInv, TypeOK
  <1>7. /\ \A c \in Rows : row'[c].st = row[c].st
        /\ \A c \in Rows : c # d => row'[c] = row[c]
        /\ row'[d].progress = row[d].progress \/ row'[d].progress = p
        /\ \/ faults' = faults /\ row'[d].progress = p
           \/ faults' = faults + 1 /\ row'[d].progress = row[d].progress
    <2>1. row[d] \in Row
      BY <1>4 DEF TypeInv, TypeOK
    <2> DEFINE r == [row[d] EXCEPT !.progress = p]
    <2>2. r \in Row /\ r.progress = p /\ r.st = row[d].st
      BY <1>1, <2>1 DEF Row
    <2>3. \/ SetRow(d, r) /\ UNCHANGED faults
          \/ UNCHANGED row /\ faults' = faults + 1
      BY <1>1 DEF Save, Fault
    <2> HIDE DEF r, d
    <2>4. SetRow(d, r) => row'[d] = r /\ \A c \in Rows : c # d => row'[c] = row[c]
      BY <1>4, <2>2, RowSet DEF TypeInv
    <2> QED
      BY <2>2, <2>3, <2>4
  <1>8. Missed(p) \in SUBSET (Missed(was) \ Spared(w))
    <2>1. CASE SaveSent(w) /\ p.sent = was.sent \cup {cur}
      BY <1>1, <1>2, <1>3, <2>1 DEF Missed, Known
    <2>2. CASE ClearIntent(w) /\ p.sent = was.sent
      BY <1>1, <1>2, <1>3, <2>2 DEF Missed, Known
    <2> QED
      BY <1>1, <2>1, <2>2
  <1>9. row[d].st # "sent"
    BY <1>2, <1>4 DEF HeldInv, Active, Holds
  <1>10. Spared(w) = {} \/ Spared(w) = {cur}
    BY <1>1, <1>2
  <1> HIDE DEF cur, was, d
  <1>11. faults' \in Nat /\ faults <= faults' /\ faults <= faults + 1 /\ faults + 1 \in Nat
    BY <1>4, <1>7
  <1>12. Cardinality(Missed(p)) <= faults'
    BY <1>4, <1>8, <1>11, Fewer
  <1>13. Cardinality(Missed(row'[d].progress)) <= faults'
    <2>1. CASE row'[d].progress = p
      BY <1>12, <2>1
    <2>2. CASE faults' = faults + 1 /\ row'[d].progress = row[d].progress
      <3>1. Cardinality(Missed(row[d].progress)) <= faults + 1
        <4>1. CASE Spared(w) = {}
          <5>1. Missed(row[d].progress) \ Spared(w) = Missed(row[d].progress)
            BY <4>1
          <5> QED
            BY <1>4, <1>11, <5>1, Fewer
        <4>2. CASE Spared(w) = {cur}
          BY <1>4, <4>2, OneMore
        <4> QED
          BY <1>10, <4>1, <4>2
      <3> QED
        BY <2>2, <3>1
    <2> QED
      BY <1>7, <2>1, <2>2
  <1>14. SparedBy(v) = {} /\ \A S : S \ SparedBy(v) = S
    BY <1>1 DEF SparedBy
  <1>15. row'[d].progress \in Progress
    BY <1>1, <1>4, <1>7
  <1>16. /\ Cardinality(MissedThen(p) \ SparedBy(v)) <= faults'
         /\ Cardinality(MissedThen(row'[d].progress) \ SparedBy(v)) <= faults'
    BY <1>1, <1>5, <1>12, <1>13, <1>14, <1>15
  <1> QED
    BY <1>1, <1>4, <1>6, <1>7, <1>9, <1>11, <1>16, LossMoves DEF d

(* A worker that stops counts its recipient as missed, for one fault; one   *)
(* that starts knows what the row knows.                                    *)
LEMMA LossEnds ==
  ASSUME TypeInv, TypeInv', HeldInv, LossInv, NEW w \in Workers, faults <= faults',
         \/ Ack(w) \/ Crash(w)
         \/ \E d \in Rows, k \in Ids : Take(w, d, k)
  PROVE  LossInv'
  <1>1. TypeOK /\ TypeOK' /\ faults \in Nat /\ faults' \in Nat
    BY DEF TypeInv, TypeOK
  <1>2. UNCHANGED got /\ \A x \in Recipients : got[x] <= got'[x]
    <2>1. UNCHANGED got
      BY DEF Ack, Crash, Take
    <2> QED
      BY <1>1, <2>1 DEF TypeOK
  <1>3. \A q \in Progress : MissedThen(q) = Missed(q)
    BY <1>2 DEF MissedThen, Missed
  <1>4. ASSUME Ack(w) \/ Crash(w) PROVE LossInv'
    <2>1. SetWorker(w, Idle) /\ UNCHANGED row
      BY <1>4, EndDoes
    <2>2. wk'[w] = Idle /\ wk'[w].pc = "idle" /\ \A u \in Workers : u # w => wk'[u] = wk[u]
      BY <2>1, MovesHold, Constants
    <2>3. AttemptLoss(w)'
      BY <2>2 DEF AttemptLoss, Active
    <2>4. \A u \in Workers : AttemptLoss(u)'
      BY <1>1, <1>2, <2>2, <2>3, LossKept DEF LossInv
    <2>5. ASSUME NEW d \in Rows, ~Holds(w, d) PROVE RowLoss(d)'
      <3>1. \A u \in Workers : Holds(u, d)' <=> Holds(u, d)
        BY <2>2, <2>5 DEF Holds, Del
      <3>2. \A u \in Workers : Holds(u, d) => wk'[u] = wk[u]
        BY <2>2, <2>5
      <3>3. RowLoss(d) /\ row'[d] = row[d]
        BY <2>1 DEF LossInv
      <3> QED
        BY <1>1, <1>2, <3>1, <3>2, <3>3, RowLossKept
    <2>6. ASSUME NEW d \in Rows, Holds(w, d) PROVE RowLoss(d)'
      <3>1. Active(w) /\ d = Del(w)
        BY <2>6 DEF Holds, Active
      <3>2. faults' = faults + 1
        <4>1. Crash(w)
          BY <1>4, <2>6 DEF Ack, Holds
        <4> QED
          BY <4>1 DEF Crash, Fault
      <3>3. \A u \in Workers : ~Holds(u, d)'
        BY <2>2, <2>6 DEF HeldInv, OneHolder, Holds, Del
      <3>4. /\ row[d].progress \in Progress
            /\ Missed(row[d].progress) \in SUBSET Recipients
            /\ Cardinality(Missed(row[d].progress) \ Spared(w)) <= faults
        BY <3>1, LossSoFar
      <3>5. Cardinality(Missed(row[d].progress)) <= faults'
        <4>1. CASE Spared(w) = {}
          <5>1. Missed(row[d].progress) \ Spared(w) = Missed(row[d].progress)
            BY <4>1
          <5> QED
            BY <1>1, <3>4, <5>1, Fewer
        <4>2. CASE Spared(w) = {wk[w].cur}
          BY <1>1, <3>2, <3>4, <4>2, OneMore
        <4> QED
          BY <4>1, <4>2 DEF Spared
      <3>6. Missed(row[d].progress)' = Missed(row[d].progress)
        BY <1>2, <2>1 DEF Missed, Known
      <3>7. Few(Missed(row[d].progress))'
        BY <3>5, <3>6 DEF Few
      <3>8. row'[d].st # "sent"
        BY <2>1, <2>6 DEF HeldInv
      <3> QED
        BY <3>3, <3>7, <3>8 DEF RowLoss
    <2> QED
      BY <2>4, <2>5, <2>6 DEF LossInv
  <1>5. ASSUME NEW d \in Rows, NEW k \in Ids, Take(w, d, k) PROVE LossInv'
    <2>1. job[<<d, k>>].st = "waiting" /\ wk[w].pc = "idle"
      BY <1>5 DEF Take
    <2>2. CASE Noop(d, k)
      <3>1. UNCHANGED <<row, wk>>
        BY <2>2 DEF Noop
      <3>2. \A u \in Workers : AttemptLoss(u)'
        BY <1>1, <1>2, <3>1, LossKept DEF LossInv
      <3>3. \A c \in Rows, u \in Workers : Holds(u, c)' <=> Holds(u, c)
        BY <3>1 DEF Holds, Del
      <3>4. \A c \in Rows : RowLoss(c)'
        BY <1>1, <1>2, <3>1, <3>3, RowLossKept DEF LossInv
      <3> QED
        BY <3>2, <3>4 DEF LossInv
    <2>3. CASE Claim(w, d, k)
      <3>1. PICK v \in Worker, r \in Row :
              /\ SetWorker(w, v) /\ SetRow(d, r)
              /\ v.pc = "check" /\ v.job = <<d, k>> /\ v.progress = row[d].progress
              /\ v.out = "none"
              /\ r.st = "running" /\ r.progress = row[d].progress
        BY <2>1, <2>3, ClaimDoes
      <3>2. wk'[w] = v /\ \A u \in Workers : u # w => wk'[u] = wk[u]
        BY <3>1, WorkerSet DEF TypeInv
      <3>3. row'[d] = r /\ \A c \in Rows : c # d => row'[c] = row[c]
        BY <3>1, RowSet DEF TypeInv
      <3>4. \A u \in Workers : ~Holds(u, d)
        BY <2>3 DEF Claim, Claimable, HeldInv
      <3>5. row[d].progress \in Progress /\ Missed(row[d].progress) \in SUBSET Recipients
        BY <1>1, ProgressTypes
      <3>6. Cardinality(Missed(row[d].progress)) <= faults
        BY <3>4 DEF LossInv, RowLoss, Few
      <3>7. Cardinality(Missed(row[d].progress)) <= faults'
        BY <1>1, <3>5, <3>6, Fewer
      <3>8. /\ Spared(w)' = {}
            /\ Missed(wk[w].progress)' = Missed(row[d].progress)
            /\ Missed(row[d].progress)' = Missed(row[d].progress)
        BY <1>2, <3>1, <3>2, <3>3 DEF Spared, Missed, Known
      <3>9. /\ (Missed(wk[w].progress) \ Spared(w))' = Missed(row[d].progress)
            /\ (Missed(row[d].progress) \ Spared(w))' = Missed(row[d].progress)
        BY <3>8
      <3>10. /\ Few(Missed(wk[w].progress) \ Spared(w))'
             /\ Few(Missed(row[d].progress) \ Spared(w))'
        BY <3>7, <3>9 DEF Few
      <3>11. AttemptLoss(w)'
        BY <3>1, <3>2, <3>10 DEF AttemptLoss
      <3>12. \A u \in Workers : AttemptLoss(u)'
        BY <1>1, <1>2, <3>2, <3>11, LossKept DEF LossInv
      <3>13. \A u \in Workers : Holds(u, d)' <=> u = w
        BY <3>1, <3>2, <3>4 DEF Holds, Del
      <3>14. RowLoss(d)'
        BY <3>1, <3>3, <3>10, <3>13 DEF RowLoss
      <3>15. ASSUME NEW c \in Rows, c # d PROVE RowLoss(c)'
        <4>1. \A u \in Workers : Holds(u, c)' <=> Holds(u, c)
          BY <2>1, <3>1, <3>2, <3>15 DEF Holds, Del
        <4>2. \A u \in Workers : Holds(u, c) => wk'[u] = wk[u]
          BY <2>1, <3>2 DEF Holds
        <4>3. RowLoss(c) /\ row'[c] = row[c]
          BY <3>3, <3>15 DEF LossInv
        <4> QED
          BY <1>1, <1>2, <4>1, <4>2, <4>3, RowLossKept
      <3> QED
        BY <3>12, <3>14, <3>15 DEF LossInv
    <2> QED
      BY <1>5, <2>2, <2>3 DEF Take
  <1> QED
    BY <1>4, <1>5

(* Dispatch, users, leases and the tick miss nobody: a new row knows no one *)
(* and a row that is queued again keeps its progress.                       *)
LEMMA LossRows ==
  ASSUME TypeInv, TypeInv', HeldInv, LossInv, faults <= faults',
         \/ \E e \in Events : Dispatch(e)
         \/ \E d \in Rows : Retry(d) \/ LeaseEnds(d) \/ Overrun(d) \/ Tick(d)
  PROVE  LossInv'
  <1>1. TypeOK /\ TypeOK' /\ faults \in Nat /\ faults' \in Nat
    BY DEF TypeInv, TypeOK
  <1>2. UNCHANGED <<got, wk>>
    BY DEF Dispatch, Retry, LeaseEnds, Overrun, Tick, Reclaim, QueueAgain
  <1>3. \A x \in Recipients : got[x] <= got'[x]
    BY <1>1, <1>2 DEF TypeOK
  <1>4. \A u \in Workers : AttemptLoss(u)'
    BY <1>1, <1>2, <1>3, LossKept DEF LossInv
  <1>5. \A d \in Rows, u \in Workers : Holds(u, d)' <=> Holds(u, d)
    BY <1>2 DEF Holds, Del
  <1>6. ASSUME NEW d \in Rows, row'[d].progress = row[d].progress,
               row'[d].st = "sent" => row[d].st = "sent"
        PROVE  RowLoss(d)'
    BY <1>1, <1>2, <1>3, <1>5, <1>6, RowLossKept DEF LossInv
  <1>7. ASSUME NEW d \in Rows, NEW r \in Row, SetRow(d, r), r.progress = row[d].progress,
               r.st # "sent" \/ r.st = row[d].st
        PROVE  LossInv'
    <2>1. row'[d] = r /\ \A c \in Rows : c # d => row'[c] = row[c]
      BY <1>1, <1>7, RowSet
    <2> QED
      BY <1>4, <1>6, <1>7, <2>1 DEF LossInv
  <1>8. ASSUME UNCHANGED row PROVE LossInv'
    BY <1>4, <1>6, <1>8 DEF LossInv
  <1>9. ASSUME NEW e \in Events, Dispatch(e) PROVE LossInv'
    <2>1. ASSUME NEW d \in Rows, row[d].st = "none",
                 NEW st \in {"queued", "skipped"}, NEW key \in BOOLEAN, Insert(d, st, key)
          PROVE  LossInv'
      <3> DEFINE r == [NoRow EXCEPT !.st = st, !.key = key]
      <3>1. r \in Row /\ r.st = st
        BY <1>1, RowSteps, ZenonT(60) DEF Statuses
      <3>2. r.progress = NoProgress
        BY DEF NoRow
      <3>3. SetRow(d, r)
        BY <2>1 DEF Insert
      <3> HIDE DEF r
      <3>4. row'[d] = r /\ \A c \in Rows : c # d => row'[c] = row[c]
        BY <1>1, <3>1, <3>3, RowSet
      <3>5. \A u \in Workers : ~Holds(u, d)'
        BY <1>5, <2>1 DEF HeldInv
      <3>6. Missed(row[d].progress)' = {}
        BY <3>2, <3>4 DEF Missed, Known, NoProgress
      <3>7. Cardinality({}) <= faults'
        BY <1>1, FS_EmptySet
      <3>8. Few(Missed(row[d].progress))'
        BY <3>6, <3>7 DEF Few
      <3>9. RowLoss(d)'
        BY <3>1, <3>4, <3>5, <3>8 DEF RowLoss
      <3> QED
        BY <1>4, <1>6, <3>4, <3>9 DEF LossInv
    <2> QED
      BY <1>8, <1>9, <2>1 DEF Dispatch
  <1>10. ASSUME NEW d \in Rows, Retry(d) \/ LeaseEnds(d) \/ Overrun(d) \/ Tick(d)
         PROVE  LossInv'
    <2>1. row[d] \in Row
      BY <1>1 DEF TypeOK
    <2>2. CASE Retry(d)
      <3> DEFINE r == [row[d] EXCEPT !.st = "queued", !.attempts = 0, !.lease = "none"]
      <3>1. r \in Row /\ r.st = "queued"
        BY <1>1, RowSteps
      <3>2. r.progress = row[d].progress /\ SetRow(d, r)
        BY <2>1, <2>2 DEF Retry, Row
      <3> HIDE DEF r
      <3> QED
        BY <1>7, <3>1, <3>2
    <2>3. CASE LeaseEnds(d) \/ Overrun(d)
      <3> DEFINE r == [row[d] EXCEPT !.lease = "over"]
      <3>1. r \in Row /\ r.st = row[d].st
        BY <1>1, RowSteps
      <3>2. r.progress = row[d].progress /\ SetRow(d, r)
        BY <2>1, <2>3 DEF LeaseEnds, Overrun, Row
      <3> HIDE DEF r
      <3> QED
        BY <1>7, <3>1, <3>2
    <2>4. ASSUME NEW st \in {"failed", "retrying"},
                 SetRow(d, [row[d] EXCEPT !.st = st, !.lease = "none"])
          PROVE  LossInv'
      <3> DEFINE r == [row[d] EXCEPT !.st = st, !.lease = "none"]
      <3>1. r \in Row /\ r.st = st
        BY <1>1, RowSteps
      <3>2. r.progress = row[d].progress /\ SetRow(d, r)
        BY <2>1, <2>4 DEF Row
      <3> HIDE DEF r
      <3> QED
        BY <1>7, <3>1, <3>2
    <2>5. CASE Tick(d)
      BY <1>8, <2>4, <2>5 DEF Tick, Reclaim, QueueAgain
    <2> QED
      BY <1>10, <2>2, <2>3, <2>5
  <1> QED
    BY <1>9, <1>10

(* No step loses more than one recipient for each fault.                    *)
LEMMA LossStep ==
  ASSUME TypeInv, TypeInv', HeldInv, LossInv, [Next]_vars
  PROVE  LossInv'
  <1>1. faults <= faults'
    <2>1. faults \in Nat
      BY DEF TypeInv, TypeOK
    <2>2. CASE UNCHANGED vars
      BY <2>1, <2>2 DEF vars
    <2> QED
      BY <2>2, FaultsGrow DEF TypeInv
  <1>2. ASSUME UNCHANGED <<row, wk, got>> PROVE LossInv'
    <2>1. TypeOK /\ TypeOK' /\ \A x \in Recipients : got[x] <= got'[x]
      BY <1>2 DEF TypeInv, TypeOK
    <2>2. \A u \in Workers : AttemptLoss(u)'
      BY <1>1, <1>2, <2>1, LossKept DEF LossInv
    <2>3. \A d \in Rows, u \in Workers : Holds(u, d)' <=> Holds(u, d)
      BY <1>2 DEF Holds, Del
    <2>4. \A d \in Rows : RowLoss(d)'
      BY <1>1, <1>2, <2>1, <2>3, RowLossKept DEF LossInv
    <2> QED
      BY <2>2, <2>4 DEF LossInv
  <1>3. CASE UNCHANGED vars
    BY <1>2, <1>3 DEF vars
  <1>4. CASE \E j \in Rows \X Ids : Add(j) \/ LoseAdd(j) \/ Evict(j) \/ LoseLock(j)
    BY <1>2, <1>4 DEF Add, LoseAdd, Evict, LoseLock
  <1>5. CASE \E g \in Gates : Turn(g)
    BY <1>2, <1>5 DEF Turn
  <1>6. CASE \E w \in Workers : WorkerStep(w)
    BY <1>1, <1>6, LossQuiet, LossIntend, LossMail, LossResult, LossEnds DEF WorkerStep
  <1> QED
    BY <1>1, <1>3, <1>4, <1>5, <1>6, LossRows, LossEnds DEF Next

(* Nobody was missed at first.                                              *)
LEMMA LossInit == Init => LossInv
  <1> SUFFICES ASSUME Init PROVE LossInv
    OBVIOUS
  <1>1. \A d \in Rows : row[d].st = "none" /\ row[d].progress = NoProgress
    BY DEF Init, NoRow
  <1>2. \A w \in Workers : wk[w].pc = "idle"
    BY Constants DEF Init
  <1>3. \A w \in Workers : AttemptLoss(w)
    BY <1>2 DEF AttemptLoss, Active
  <1>4. Few({})
    BY FS_EmptySet DEF Init, Few
  <1>5. \A d \in Rows : Missed(row[d].progress) = {}
    BY <1>1 DEF Missed, Known, NoProgress
  <1>6. \A w \in Workers, d \in Rows : ~Holds(w, d)
    BY <1>2 DEF Holds
  <1>7. \A d \in Rows : RowLoss(d)
    BY <1>1, <1>4, <1>5, <1>6 DEF RowLoss
  <1> QED
    BY <1>3, <1>7 DEF LossInv

(* A delivery that says it was sent has reached everyone, but for one       *)
(* recipient for each crash or failed write, if no attempt outlives its     *)
(* lease: the two writes around a call lose at most the one it was for.     *)
THEOREM LossesAreCounted ==
  ASSUME "slow" \notin Faults
  PROVE  Spec => []OneLossPerFault
  <1>1. TypeInv /\ HeldInv /\ LossInv /\ [Next]_vars => (TypeInv /\ HeldInv /\ LossInv)'
    BY TypeStep, HeldStep, LossStep
  <1>2. Spec => [](TypeInv /\ HeldInv /\ LossInv)
    BY <1>1, TypeInit, HeldInit, LossInit, PTL DEF Spec
  <1>3. TypeInv /\ HeldInv /\ LossInv => OneLossPerFault
    <2> SUFFICES ASSUME TypeInv, HeldInv, LossInv, NEW d \in Rows, row[d].st = "sent"
                 PROVE  Cardinality(Unreached) <= faults
      BY DEF OneLossPerFault
    <2>1. \A w \in Workers : ~Holds(w, d)
      BY DEF HeldInv
    <2>2. Known(row[d].progress) = Recipients /\ Few(Missed(row[d].progress))
      BY <2>1 DEF LossInv, RowLoss
    <2>3. Missed(row[d].progress) = Unreached
      BY <2>2 DEF Missed, Unreached
    <2> QED
      BY <2>2, <2>3 DEF Few
  <1> QED
    BY <1>2, <1>3, PTL

-----------------------------------------------------------------------------
(* No delivery is forgotten.                                                *)

(* An id of a delivery under which a job was added, or is about to be.      *)
Used(d, k) == <<d, k>> \in adding \/ job[<<d, k>>].st # "none"

TickUsed(d) == \E n \in 1..MaxAttempts : Used(d, <<"tick", n>>)

(* A delivery that the tick will take up.                                   *)
Lapsed(d) ==
  row[d].st = "running" /\ (row[d].lease = "over" \/ \A w \in Workers : ~Holds(w, d))

RunsOwn ==
  \A w \in Workers : wk[w].pc # "idle" =>
    job[wk[w].job].st = "active" /\ job[wk[w].job].by = w

FirstStall == faults = 0 => \A j \in Rows \X Ids : ~job[j].stalled

(* A job that the tick or a user adds finds its id free.                    *)
IdsFresh ==
  /\ \A d \in Rows, k \in Ids \ {Base} : <<d, k>> \in adding => job[<<d, k>>].st = "none"
  /\ \A d \in Rows : row[d].st = "none" => \A k \in Ids : ~Used(d, k)
  /\ \A d \in Rows, n \in 1..MaxRetries : n > retries => ~Used(d, <<"user", n>>)

(* One fault lets one lease end at most, and the tick was not there before. *)
OneLapse ==
  /\ faults = 0 => \A d \in Rows : ~Lapsed(d) /\ ~TickUsed(d)
  /\ \A d \in Rows : Lapsed(d) => ~TickUsed(d) /\ \A c \in Rows : Lapsed(c) => c = d

Leased == \A d \in Rows : row[d].st = "running" => row[d].lease # "none"

AllAttended == \A d \in Rows : Unfinished(d) => Attended(d)

CareFact == RunsOwn /\ FirstStall /\ IdsFresh /\ OneLapse /\ Leased /\ AllAttended

CareInv == faults <= 1 => CareFact

(* What is counted and what the ids are.                                    *)
LEMMA CareTypes ==
  ASSUME TypeInv
  PROVE  /\ faults \in Nat /\ retries \in 0..MaxRetries /\ MaxRetries \in Nat
         /\ Base \in Ids
         /\ \A n \in 1..MaxAttempts : <<"tick", n>> \in Ids \ {Base}
         /\ \A n \in 1..MaxRetries : <<"user", n>> \in Ids \ {Base}
         /\ \A n \in 1..MaxRetries, m \in 1..MaxAttempts : <<"user", n>> # <<"tick", m>>
  <1>1. faults \in Nat /\ retries \in 0..MaxRetries /\ MaxRetries \in Nat
    BY DeliveryAssumption DEF TypeInv, TypeOK
  <1>2. /\ \A n \in 1..MaxAttempts : <<"tick", n>> # Base
        /\ \A n \in 1..MaxRetries : <<"user", n>> # Base
        /\ \A n \in 1..MaxRetries, m \in 1..MaxAttempts : <<"user", n>> # <<"tick", m>>
    BY DEF Base
  <1> QED
    BY <1>1, <1>2, Constants

(* A step of an attempt that goes on changes nothing of this.               *)
LEMMA CareGoesOn ==
  ASSUME TypeInv, CareFact, NEW w \in Workers, WorkerStep(w), NEW v \in Worker, Moves(w, v),
         v.pc # "ack", UNCHANGED <<job, adding, retries>>, faults' = 0 => faults = 0
  PROVE  CareFact'
  <1> USE DEF CareFact
  <1>1. wk'[w] = v /\ \A u \in Workers : u # w => wk'[u] = wk[u]
    BY MovesHold
  <1>2. v.job = wk[w].job /\ v.pc \notin {"idle", "ack"} /\ wk[w].pc \notin {"idle", "ack"}
    BY DEF Moves
  <1>3. \A u \in Workers, d \in Rows : Holds(u, d)' <=> Holds(u, d)
    BY <1>1, <1>2 DEF Holds, Del
  <1>4. \A d \in Rows : row'[d].st = row[d].st /\ row'[d].lease = row[d].lease
    BY <1>3, WorkerHolds
  <1>5. \A u \in Workers, d \in Rows : Requeues(u) /\ Del(u) = d => Requeues(u)' /\ Del(u)' = d
    BY <1>1, <1>2 DEF Requeues, Retries, Del
  <1>6. \A d \in Rows : \A k : Used(d, k)' <=> Used(d, k)
    BY DEF Used
  <1>7. \A d \in Rows : (Lapsed(d)' <=> Lapsed(d)) /\ (TickUsed(d)' <=> TickUsed(d))
    BY <1>3, <1>4, <1>6 DEF Lapsed, TickUsed
  <1>8. RunsOwn'
    BY <1>1, <1>2 DEF RunsOwn
  <1>9. FirstStall' /\ OneLapse' /\ Leased'
    BY <1>4, <1>7 DEF FirstStall, OneLapse, Leased
  <1>10. IdsFresh'
    BY <1>4, <1>6 DEF IdsFresh
  <1>11. ASSUME NEW d \in Rows, Unfinished(d)' PROVE Attended(d)'
    <2>1. Attended(d)
      BY <1>4, <1>11 DEF AllAttended, Unfinished
    <2> QED
      BY <1>3, <1>4, <1>5, <2>1 DEF Attended
  <1> QED
    BY <1>8, <1>9, <1>10, <1>11 DEF AllAttended

(* A step of the queue: an id that is not used stays unused, but for the    *)
(* first one of a row.                                                      *)
LEMMA QueueMoves ==
  ASSUME TypeInv, CareFact, NEW d \in Rows, NEW k \in Ids,
         UNCHANGED <<row, wk, retries>>, adding' \subseteq adding,
         \A i \in Rows \X Ids : i # <<d, k>> => job'[i] = job[i],
         job[<<d, k>>].st = "active" => job'[<<d, k>>] = job[<<d, k>>],
         job'[<<d, k>>].stalled => job[<<d, k>>].stalled, faults' = 0 => faults = 0,
         job'[<<d, k>>].st # "none" => Used(d, k) \/ (k = Base /\ row[d].st # "none"),
         k # Base /\ <<d, k>> \in adding' => job'[<<d, k>>].st = "none",
         \A c \in Rows : Unfinished(c) /\ Attended(c) => Attended(c)'
  PROVE  CareFact'
  <1> USE DEF CareFact
  <1> DEFINE j == <<d, k>>
  <1>0. j \in Rows \X Ids /\ \A c \in Rows, i \in Ids : <<c, i>> \in Rows \X Ids
    OBVIOUS
  <1>1. \A u \in Workers, c \in Rows : Holds(u, c)' <=> Holds(u, c)
    BY DEF Holds, Del
  <1>2. \A c \in Rows, i \in Ids :
          Used(c, i)' => Used(c, i) \/ (i = Base /\ row[c].st # "none")
    <2> TAKE c \in Rows, i \in Ids
    <2>1. CASE <<c, i>> = j
      BY <2>1 DEF Used
    <2>2. CASE <<c, i>> # j
      BY <1>0, <2>2 DEF Used
    <2> QED
      BY <2>1, <2>2
  <1>3. \A c \in Rows : TickUsed(c)' => TickUsed(c)
    BY <1>2, CareTypes DEF TickUsed
  <1>4. \A c \in Rows : Lapsed(c)' <=> Lapsed(c)
    BY <1>1 DEF Lapsed
  <1>5. RunsOwn'
    <2>1. ASSUME NEW u \in Workers, wk[u].pc # "idle"
          PROVE  job'[wk[u].job].st = "active" /\ job'[wk[u].job].by = u
      <3>1. wk[u].job \in Rows \X Ids /\ job[wk[u].job].st = "active" /\ job[wk[u].job].by = u
        BY <2>1 DEF RunsOwn, TypeInv, JobKnown
      <3>2. job'[wk[u].job] = job[wk[u].job]
        BY <3>1
      <3> QED
        BY <3>1, <3>2
    <2> QED
      BY <2>1 DEF RunsOwn
  <1>6. FirstStall'
    BY <1>0 DEF FirstStall
  <1>7. OneLapse' /\ Leased'
    BY <1>3, <1>4 DEF OneLapse, Leased
  <1>8. ASSUME NEW c \in Rows, NEW i \in Ids \ {Base}, <<c, i>> \in adding'
        PROVE  job'[<<c, i>>].st = "none"
    <2>1. CASE <<c, i>> = j
      BY <1>8, <2>1
    <2>2. CASE <<c, i>> # j
      BY <1>0, <1>8, <2>2 DEF IdsFresh
    <2> QED
      BY <2>1, <2>2
  <1>9. ASSUME NEW c \in Rows, row[c].st = "none", NEW i \in Ids PROVE ~Used(c, i)'
    BY <1>2, <1>9 DEF IdsFresh
  <1>10. ASSUME NEW c \in Rows, NEW n \in 1..MaxRetries, n > retries PROVE ~Used(c, <<"user", n>>)'
    BY <1>2, <1>10, CareTypes DEF IdsFresh
  <1>11. IdsFresh'
    BY <1>8, <1>9, <1>10 DEF IdsFresh
  <1>12. AllAttended'
    BY DEF AllAttended, Unfinished
  <1> QED
    BY <1>5, <1>6, <1>7, <1>11, <1>12

(* Jobs are added, lost before they are, and evicted when they are done;    *)
(* the tick queues a row again whose first job is not there.                *)
LEMMA CareQueue ==
  ASSUME TypeInv, CareFact, Faults \cap {"lock", "tick", "retry"} = {},
         NEW d \in Rows, NEW k \in Ids,
         Add(<<d, k>>) \/ LoseAdd(<<d, k>>) \/ Evict(<<d, k>>) \/ (k = Base /\ QueueAgain(d))
  PROVE  CareFact'
  <1> DEFINE j == <<d, k>>
  <1>0. j \in Rows \X Ids /\ job \in [Rows \X Ids -> Job] /\ \A c \in Rows, i \in Ids : <<c, i>> \in Rows \X Ids
    BY DEF TypeInv, TypeOK
  <1>1. /\ Waiting.st = "waiting" /\ ~Waiting.stalled /\ NoJob.st = "none" /\ ~NoJob.stalled
    BY DEF Waiting, NoJob
  <1>2. ASSUME NEW v, SetJob(j, v)
        PROVE  job'[j] = v /\ \A i \in Rows \X Ids : i # j => job'[i] = job[i]
    BY <1>0, <1>2 DEF SetJob
  <1>3. ASSUME UNCHANGED <<row, wk>>
        PROVE  \A c \in Rows :
                 /\ (\E w \in Workers : Holds(w, c)) => Attended(c)'
                 /\ row[c].st = "running" /\ row[c].lease # "none" => Attended(c)'
    BY <1>3 DEF Attended, Holds, Del
  <1>4. ASSUME UNCHANGED <<row, wk>>, \A i \in Rows \X Ids : i # j => job'[i] = job[i],
               job[j].st = "active" => job'[j] = job[j]
        PROVE  \A c \in Rows : (\E w \in Workers : Requeues(w) /\ Del(w) = c) => Attended(c)'
    <2>1. ASSUME NEW w \in Workers, Requeues(w) PROVE Requeues(w)'
      <3>1. wk[w].job \in Rows \X Ids /\ job[wk[w].job].st = "active"
        BY <2>1 DEF Requeues, CareFact, RunsOwn, TypeInv, JobKnown
      <3>2. job'[wk[w].job] = job[wk[w].job]
        BY <1>4, <3>1
      <3> QED
        BY <1>4, <2>1, <3>2 DEF Requeues, Retries
    <2> QED
      BY <1>4, <2>1 DEF Attended, Del
  <1>5. CASE Add(j)
    <2>1. /\ SetJob(j, Added(j)) /\ j \in adding /\ adding' = adding \ {j}
          /\ UNCHANGED <<row, wk, faults, retries>>
      BY <1>5 DEF Add
    <2>2. job'[j] = Added(j) /\ \A i \in Rows \X Ids : i # j => job'[i] = job[i]
      BY <1>2, <2>1
    <2>3. /\ job[j].st = "none" => job'[j].st = "waiting" /\ ~job'[j].stalled
          /\ job[j].st # "none" => job'[j] = job[j]
      BY <1>1, <2>2 DEF Added
    <2>4. Used(d, k)
      BY <2>1 DEF Used
    <2>5. ASSUME NEW c \in Rows, Attended(c) PROVE Attended(c)'
      <3>1. CASE \E i \in Ids : job[<<c, i>>].st = "waiting"
        <4>1. PICK i \in Ids : job[<<c, i>>].st = "waiting"
          BY <3>1
        <4>2. job'[<<c, i>>].st = "waiting"
          BY <1>0, <2>2, <2>3, <4>1
        <4> QED
          BY <4>2 DEF Attended
      <3>2. CASE \E i \in Ids \ {Base} : <<c, i>> \in adding /\ job[<<c, i>>].st = "none"
        <4>1. PICK i \in Ids \ {Base} : <<c, i>> \in adding /\ job[<<c, i>>].st = "none"
          BY <3>2
        <4>2. CASE <<c, i>> = j
          BY <2>3, <4>1, <4>2 DEF Attended
        <4>3. CASE <<c, i>> # j
          BY <1>0, <2>1, <2>2, <4>1, <4>3 DEF Attended
        <4> QED
          BY <4>2, <4>3
      <3>3. CASE row[c].st = "queued" /\ job[<<c, Base>>].st = "none"
        <4>1. CASE <<c, Base>> = j
          BY <2>3, <3>3, <4>1, CareTypes DEF Attended
        <4>2. CASE <<c, Base>> # j
          BY <1>0, <2>1, <2>2, <3>3, <4>2, CareTypes DEF Attended
        <4> QED
          BY <4>1, <4>2
      <3> QED
        BY <1>3, <1>4, <2>1, <2>2, <2>3, <2>5, <3>1, <3>2, <3>3 DEF Attended
    <2> QED
      BY <2>1, <2>2, <2>3, <2>4, <2>5, QueueMoves
  <1>6. CASE LoseAdd(j)
    <2>1. j \in adding /\ adding' = adding \ {j} /\ UNCHANGED <<row, job, wk, retries>>
      BY <1>6 DEF LoseAdd
    <2>2. k = Base /\ faults' = faults + 1
      <3>1. k[1] \notin {"tick", "user"}
        BY <1>6 DEF LoseAdd, Fault
      <3> QED
        BY <1>6, <3>1 DEF LoseAdd, Fault, Ids
    <2>3. Used(d, k) /\ faults \in Nat
      BY <2>1, CareTypes DEF Used
    <2>4. ASSUME NEW c \in Rows, Attended(c) PROVE Attended(c)'
      <3>1. \A i \in Ids \ {Base} : <<c, i>> \in adding => <<c, i>> \in adding'
        BY <2>1, <2>2
      <3> QED
        BY <1>3, <1>4, <2>1, <2>4, <3>1 DEF Attended
    <2> QED
      BY <2>1, <2>2, <2>3, <2>4, QueueMoves
  <1>7. CASE Evict(j)
    <2>1. /\ SetJob(j, NoJob) /\ job[j].st = "done"
          /\ UNCHANGED <<row, wk, adding, faults, retries>>
      BY <1>7 DEF Evict
    <2>2. job'[j] = NoJob /\ \A i \in Rows \X Ids : i # j => job'[i] = job[i]
      BY <1>2, <2>1
    <2>3. ASSUME NEW c \in Rows, Attended(c) PROVE Attended(c)'
      <3>1. \A i \in Ids : <<c, i>> # j => job'[<<c, i>>] = job[<<c, i>>]
        BY <1>0, <2>2
      <3>2. \A i \in Ids : job[<<c, i>>].st \in {"waiting", "none"} =>
              job'[<<c, i>>].st = job[<<c, i>>].st
        BY <2>1, <3>1
      <3>3. CASE \E u \in Workers : Holds(u, c) \/ (Requeues(u) /\ Del(u) = c)
        BY <1>3, <1>4, <2>1, <2>2, <3>3
      <3>4. CASE row[c].st = "running" /\ row[c].lease # "none"
        BY <1>3, <2>1, <3>4
      <3>5. CASE \/ \E i \in Ids : job[<<c, i>>].st = "waiting"
                 \/ \E i \in Ids \ {Base} : <<c, i>> \in adding /\ job[<<c, i>>].st = "none"
                 \/ row[c].st = "queued" /\ job[<<c, Base>>].st = "none"
        BY <2>1, <3>2, <3>5, CareTypes DEF Attended
      <3> QED
        BY <2>3, <3>3, <3>4, <3>5 DEF Attended
    <2> QED
      BY <1>1, <2>1, <2>2, <2>3, QueueMoves
  <1>8. CASE k = Base /\ QueueAgain(d)
    <2>1. /\ SetJob(j, Waiting) /\ job[j].st = "none" /\ row[d].st = "queued"
          /\ UNCHANGED <<row, wk, adding, faults, retries>>
      BY <1>8 DEF QueueAgain
    <2>2. job'[j] = Waiting /\ \A i \in Rows \X Ids : i # j => job'[i] = job[i]
      BY <1>2, <2>1
    <2>3. ASSUME NEW c \in Rows, Attended(c) PROVE Attended(c)'
      <3>1. \A i \in Ids : <<c, i>> # j => job'[<<c, i>>] = job[<<c, i>>]
        BY <1>0, <2>2
      <3>2. CASE c = d
        BY <1>1, <2>2, <3>2 DEF Attended
      <3>3. CASE c # d
        <4>1. \A i \in Ids : job'[<<c, i>>] = job[<<c, i>>]
          BY <3>1, <3>3
        <4>2. CASE \E u \in Workers : Holds(u, c) \/ (Requeues(u) /\ Del(u) = c)
          BY <1>3, <1>4, <2>1, <2>2, <4>2
        <4>3. CASE row[c].st = "running" /\ row[c].lease # "none"
          BY <1>3, <2>1, <4>3
        <4>4. CASE \/ \E i \in Ids : job[<<c, i>>].st = "waiting"
                   \/ \E i \in Ids \ {Base} : <<c, i>> \in adding /\ job[<<c, i>>].st = "none"
                   \/ row[c].st = "queued" /\ job[<<c, Base>>].st = "none"
          BY <2>1, <4>1, <4>4, CareTypes DEF Attended
        <4> QED
          BY <2>3, <4>2, <4>3, <4>4 DEF Attended
      <3> QED
        BY <3>2, <3>3
    <2> QED
      BY <1>1, <1>8, <2>1, <2>2, <2>3, QueueMoves
  <1> QED
    BY <1>5, <1>6, <1>7, <1>8

(* A step that sets one row and leaves the jobs and attempts alone.         *)
LEMMA RowMoves ==
  ASSUME TypeInv, CareFact, NEW d \in Rows, NEW r \in Row, SetRow(d, r),
         UNCHANGED <<job, wk>>, adding \subseteq adding', retries <= retries', retries' \in Nat,
         faults' = 0 => faults = 0,
         r.st # "none", r.st = "running" => row[d].st = "running" /\ r.lease # "none",
         \A c \in Rows, k \in Ids : <<c, k>> \in adding' \ adding =>
           /\ c = d /\ ~Used(c, k)
           /\ \A n \in 1..MaxRetries : k = <<"user", n>> => n <= retries',
         OneLapse', Unfinished(d)' => Attended(d)'
  PROVE  CareFact'
  <1> USE DEF CareFact
  <1>1. row'[d] = r /\ \A c \in Rows : c # d => row'[c] = row[c]
    BY RowSet DEF TypeInv
  <1>2. /\ \A u \in Workers, c \in Rows : Holds(u, c)' <=> Holds(u, c)
        /\ \A u \in Workers : (Requeues(u)' <=> Requeues(u)) /\ Del(u)' = Del(u)
    BY DEF Holds, Del, Requeues, Retries
  <1>3. \A c \in Rows, k \in Ids : Used(c, k)' => Used(c, k) \/ (c = d /\ ~Used(c, k) /\ <<c, k>> \in adding' \ adding)
    BY DEF Used
  <1>4. RunsOwn' /\ FirstStall'
    BY DEF RunsOwn, FirstStall
  <1>5. ASSUME NEW c \in Rows, NEW i \in Ids \ {Base}, <<c, i>> \in adding'
        PROVE  job[<<c, i>>].st = "none"
    BY <1>5 DEF IdsFresh, Used
  <1>6. ASSUME NEW c \in Rows, row'[c].st = "none", NEW i \in Ids PROVE ~Used(c, i)'
    BY <1>1, <1>3, <1>6 DEF IdsFresh
  <1>7. ASSUME NEW c \in Rows, NEW n \in 1..MaxRetries, n > retries'
        PROVE  ~Used(c, <<"user", n>>)'
    <2>1. n > retries /\ <<"user", n>> \in Ids /\ ~(n <= retries')
      BY <1>7, CareTypes
    <2>2. ~Used(c, <<"user", n>>)
      BY <2>1 DEF IdsFresh
    <2> QED
      BY <1>3, <2>1, <2>2
  <1>8. IdsFresh'
    BY <1>5, <1>6, <1>7 DEF IdsFresh
  <1>9. Leased'
    BY <1>1 DEF Leased
  <1>10. ASSUME NEW c \in Rows, c # d, Unfinished(c)' PROVE Attended(c)'
    <2>1. Attended(c) /\ row'[c] = row[c]
      BY <1>1, <1>10 DEF AllAttended, Unfinished
    <2> QED
      BY <1>2, <2>1 DEF Attended
  <1>11. AllAttended'
    BY <1>10 DEF AllAttended
  <1> QED
    BY <1>4, <1>8, <1>9, <1>11

(* A step that changes nothing of this.                                     *)
LEMMA CareStays ==
  ASSUME CareFact, UNCHANGED <<row, job, wk, adding, retries, faults>>
  PROVE  CareFact'
  <1> USE DEF CareFact
  <1>1. /\ \A u \in Workers, c \in Rows : Holds(u, c)' <=> Holds(u, c)
        /\ \A u \in Workers : (Requeues(u)' <=> Requeues(u)) /\ Del(u)' = Del(u)
    BY DEF Holds, Del, Requeues, Retries
  <1>2. /\ \A c \in Rows : \A k : Used(c, k)' <=> Used(c, k)
        /\ \A c \in Rows : (Lapsed(c)' <=> Lapsed(c)) /\ (TickUsed(c)' <=> TickUsed(c))
    BY <1>1 DEF Used, Lapsed, TickUsed
  <1>3. RunsOwn' /\ FirstStall' /\ Leased'
    BY DEF RunsOwn, FirstStall, Leased
  <1>4. IdsFresh' /\ OneLapse'
    BY <1>2 DEF IdsFresh, OneLapse
  <1>5. AllAttended'
    BY <1>1 DEF AllAttended, Unfinished, Attended
  <1> QED
    BY <1>3, <1>4, <1>5

(* An event is dispatched: the row is new, and so are its ids.              *)
LEMMA CareDispatch ==
  ASSUME TypeInv, CareFact, NEW e \in Events, Dispatch(e)
  PROVE  CareFact'
  <1>1. UNCHANGED <<job, wk, faults, retries>>
    BY DEF Dispatch
  <1>2. CASE UNCHANGED <<row, adding>>
    BY <1>1, <1>2, CareStays
  <1>3. ASSUME NEW d \in Rows, row[d].st = "none", NEW st \in {"queued", "skipped"}, NEW key \in BOOLEAN,
               Insert(d, st, key),
               \/ adding' = adding \cup {<<d, Base>>}
               \/ UNCHANGED adding
        PROVE  CareFact'
    <2> DEFINE r == [NoRow EXCEPT !.st = st, !.key = key]
    <2>0. st \in Statuses \ {"running"}
      BY DEF Statuses
    <2>1. r \in Row /\ r.st = st /\ SetRow(d, r)
      BY <1>3, <2>0, RowSteps DEF Insert, TypeInv
    <2>2. row'[d] = r /\ \A c \in Rows : c # d => row'[c] = row[c]
      BY <2>1, RowSet DEF TypeInv
    <2>3. \A k \in Ids : ~Used(d, k)
      BY <1>3 DEF CareFact, IdsFresh
    <2>4. job[<<d, Base>>].st = "none"
      BY <2>3, CareTypes DEF Used
    <2>5. Unfinished(d)' => Attended(d)'
      BY <1>1, <1>3, <2>1, <2>2, <2>4 DEF Unfinished, Attended
    <2>6. \A c \in Rows : (Lapsed(c)' => Lapsed(c)) /\ (TickUsed(c)' => TickUsed(c))
      <3>1. \A c \in Rows, n \in 1..MaxAttempts : Used(c, <<"tick", n>>)' => Used(c, <<"tick", n>>)
        <4> TAKE c \in Rows, n \in 1..MaxAttempts
        <4>1. <<c, <<"tick", n>>>> # <<d, Base>>
          BY CareTypes
        <4> QED
          BY <1>1, <1>3, <4>1 DEF Used
      <3>2. \A c \in Rows : Lapsed(c)' => Lapsed(c)
        BY <1>1, <1>3, <2>1, <2>2 DEF Lapsed, Holds, Del
      <3> QED
        BY <3>1, <3>2 DEF TickUsed
    <2>7. OneLapse'
      BY <1>1, <2>6 DEF CareFact, OneLapse
    <2>8. \A c \in Rows, k \in Ids : <<c, k>> \in adding' \ adding => c = d /\ k = Base
      BY <1>3
    <2>9. /\ \A n \in 1..MaxRetries : Base # <<"user", n>>
          /\ retries <= retries' /\ retries' \in Nat /\ ~Used(d, Base)
      BY <1>1, <2>3, CareTypes
    <2> HIDE DEF r
    <2> QED
      BY <1>1, <1>3, <2>1, <2>5, <2>7, <2>8, <2>9, RowMoves
  <1> QED
    BY <1>2, <1>3 DEF Dispatch

(* A user retries: the row is queued under an id that no retry had.         *)
LEMMA CareRetry ==
  ASSUME TypeInv, CareFact, NEW d \in Rows, Retry(d)
  PROVE  CareFact'
  <1> DEFINE r == [row[d] EXCEPT !.st = "queued", !.attempts = 0, !.lease = "none"]
             k == <<"user", retries + 1>>
  <1>1. r \in Row /\ r.st = "queued" /\ SetRow(d, r)
    BY RowSteps DEF Retry, TypeInv
  <1>2. /\ row[d].st \in {"failed", "partial"} /\ retries' = retries + 1
        /\ retries + 1 \in 1..MaxRetries /\ retries \in Nat
        /\ adding' = adding \cup {<<d, k>>} /\ UNCHANGED <<job, wk, faults>>
    BY CareTypes DEF Retry
  <1>3. k \in Ids \ {Base} /\ ~Used(d, k)
    BY <1>2, CareTypes DEF CareFact, IdsFresh
  <1>4. row'[d] = r /\ \A c \in Rows : c # d => row'[c] = row[c]
    BY <1>1, RowSet DEF TypeInv
  <1>5. Attended(d)'
    BY <1>2, <1>3 DEF Attended, Used
  <1>6. \A c \in Rows : (Lapsed(c)' => Lapsed(c)) /\ (TickUsed(c)' => TickUsed(c))
    <2>1. \A c \in Rows, n \in 1..MaxAttempts : Used(c, <<"tick", n>>)' => Used(c, <<"tick", n>>)
      <3> TAKE c \in Rows, n \in 1..MaxAttempts
      <3>1. <<c, <<"tick", n>>>> # <<d, k>>
        OBVIOUS
      <3> QED
        BY <1>2, <3>1 DEF Used
    <2>2. \A c \in Rows : Lapsed(c)' => Lapsed(c)
      BY <1>1, <1>2, <1>4 DEF Lapsed, Holds, Del
    <2> QED
      BY <2>1, <2>2 DEF TickUsed
  <1>7. OneLapse'
    BY <1>2, <1>6 DEF CareFact, OneLapse
  <1>8. \A c \in Rows, i \in Ids : <<c, i>> \in adding' \ adding =>
           c = d /\ i = k /\ \A n \in 1..MaxRetries : i = <<"user", n>> => n <= retries'
    BY <1>2
  <1>9. retries <= retries' /\ retries' \in Nat
    BY <1>2
  <1> HIDE DEF r, k
  <1> QED
    BY <1>1, <1>2, <1>3, <1>5, <1>7, <1>8, <1>9, RowMoves

(* A lease ends: nobody ran the delivery any more, or the fault is counted. *)
LEMMA CareLease ==
  ASSUME TypeInv, CareFact, faults' <= 1, NEW d \in Rows, LeaseEnds(d) \/ Overrun(d)
  PROVE  CareFact'
  <1> DEFINE r == [row[d] EXCEPT !.lease = "over"]
  <1>1. r \in Row /\ r.st = "running" /\ SetRow(d, r) /\ row[d].st = "running"
    BY RowSteps DEF LeaseEnds, Overrun, TypeInv
  <1>2. r.lease = "over"
    BY DEF TypeInv, TypeOK, Row
  <1>3. UNCHANGED <<job, wk, adding, retries>> /\ retries \in Nat
    BY CareTypes DEF LeaseEnds, Overrun
  <1>4. \/ UNCHANGED faults /\ Lapsed(d)
        \/ faults' = faults + 1 /\ faults = 0
    BY CareTypes DEF LeaseEnds, Overrun, Fault, Lapsed
  <1>5. row'[d] = r /\ \A c \in Rows : c # d => row'[c] = row[c]
    BY <1>1, RowSet DEF TypeInv
  <1>6. /\ \A c \in Rows : TickUsed(c)' <=> TickUsed(c)
        /\ \A c \in Rows : c # d => (Lapsed(c)' <=> Lapsed(c))
    BY <1>3, <1>5 DEF TickUsed, Used, Lapsed, Holds, Del
  <1>7. OneLapse'
    BY <1>4, <1>6 DEF CareFact, OneLapse
  <1>8. Attended(d)'
    BY <1>1, <1>2, <1>5 DEF Attended
  <1> HIDE DEF r
  <1> QED
    BY <1>1, <1>2, <1>3, <1>4, <1>7, <1>8, RowMoves

(* The tick takes up a row whose lease ended: it never did before.          *)
LEMMA CareReclaim ==
  ASSUME TypeInv, CareFact, faults <= 1, NEW d \in Rows, Reclaim(d)
  PROVE  CareFact'
  <1>1. /\ UNCHANGED <<job, wk, retries, faults>> /\ retries \in Nat /\ Lapsed(d)
    BY CareTypes DEF Reclaim, Lapsed
  <1>2. faults # 0 /\ ~TickUsed(d) /\ \A c \in Rows : Lapsed(c) => c = d
    BY <1>1 DEF CareFact, OneLapse
  <1>3. ASSUME NEW st \in {"failed", "retrying"}, SetRow(d, [row[d] EXCEPT !.st = st, !.lease = "none"]),
               adding \subseteq adding',
               \A c \in Rows, k \in Ids : <<c, k>> \in adding' \ adding =>
                 c = d /\ ~Used(c, k) /\ \A n \in 1..MaxRetries : k # <<"user", n>>,
               st = "retrying" => Attended(d)'
        PROVE  CareFact'
    <2> DEFINE r == [row[d] EXCEPT !.st = st, !.lease = "none"]
    <2>0. r \in Row /\ r.st = st
      BY RowSteps DEF TypeInv
    <2>1. r \in Row /\ r.st = st /\ SetRow(d, r)
      BY <1>3, <2>0
    <2>2. row'[d] = r /\ \A c \in Rows : c # d => row'[c] = row[c]
      BY <2>1, RowSet DEF TypeInv
    <2>3. \A c \in Rows : ~Lapsed(c)'
      BY <1>1, <1>2, <2>1, <2>2 DEF Lapsed, Holds, Del
    <2>4. OneLapse'
      BY <1>1, <1>2, <2>3 DEF OneLapse
    <2>5. Unfinished(d)' => Attended(d)'
      BY <1>3, <2>1, <2>2 DEF Unfinished
    <2>6. retries <= retries' /\ retries' \in Nat
      BY <1>1
    <2> HIDE DEF r
    <2> QED
      BY <1>1, <1>3, <2>1, <2>4, <2>5, <2>6, RowMoves
  <1>4. CASE row[d].attempts >= MaxAttempts
    BY <1>3, <1>4 DEF Reclaim
  <1>5. CASE ~(row[d].attempts >= MaxAttempts)
    <2> DEFINE k == <<"tick", row[d].attempts>>
    <2>1. row[d].attempts \in 1..MaxAttempts
      <3>1. row[d].attempts \in Nat /\ row[d].attempts > 0 /\ MaxAttempts \in Nat
        BY DeliveryAssumption DEF Reclaim, TypeInv, TypeOK, Row, RunningCounted
      <3> QED
        BY <1>5, <3>1
    <2>2. k \in Ids \ {Base} /\ ~Used(d, k) /\ \A n \in 1..MaxRetries : k # <<"user", n>>
      BY <1>2, <2>1, CareTypes DEF TickUsed
    <2>3. /\ adding' = adding \cup {<<d, k>>}
          /\ SetRow(d, [row[d] EXCEPT !.st = "retrying", !.lease = "none"])
      BY <1>5 DEF Reclaim
    <2>4. Attended(d)'
      BY <1>1, <2>2, <2>3 DEF Attended, Used
    <2> HIDE DEF k
    <2>5. \A c \in Rows, i \in Ids : <<c, i>> \in adding' \ adding => c = d /\ i = k
      BY <2>3
    <2> QED
      BY <1>3, <2>2, <2>3, <2>4, <2>5
  <1> QED
    BY <1>4, <1>5

(* An attempt writes what it came to: when that is not the end, it hands    *)
(* its job back.                                                            *)
LEMMA CareFinish ==
  ASSUME TypeInv, CareFact, NEW w \in Workers, Finish(w)
  PROVE  CareFact'
  <1> USE DEF CareFact
  <1> DEFINE d == Del(w)
             v == [wk[w] EXCEPT !.pc = "ack"]
             st == Status(w)
             key == row[d].key /\ wk[w].out # "freed"
             p == IF wk[w].out \in {"sent", "error"} THEN wk[w].progress ELSE row[d].progress
             r == [row[d] EXCEPT !.st = st, !.lease = "none", !.key = key, !.progress = p]
  <1>1. wk[w] \in Worker /\ wk[w].pc = "finish" /\ d \in Rows /\ row[d] \in Row
    BY DEF Finish, TypeInv, TypeOK, JobKnown, Del
  <1>2. SetWorker(w, v) /\ SetRow(d, r) /\ UNCHANGED <<job, adding, faults, retries>>
    BY DEF Finish
  <1>3. v \in Worker /\ v.pc = "ack" /\ v.job = wk[w].job /\ v.out = wk[w].out /\ v.last = wk[w].last
    BY <1>1 DEF Worker, WorkerPcs
  <1>4. wk'[w] = v /\ \A u \in Workers : u # w => wk'[u] = wk[u]
    BY <1>2, <1>3, WorkerSet DEF TypeInv
  <1>5. st \in Terminal \cup {"retrying"} /\ (st = "retrying" => Retries(w))
    <2>1. wk[w].out \in Outcomes \ {"none"} /\ wk[w].last \in BOOLEAN
      BY <1>1 DEF TypeInv, OutKnown, Worker
    <2> QED
      BY <2>1 DEF Status, Retries, Outcomes, Terminal
  <1>6. row'[d].st = st /\ row'[d].lease = "none" /\ \A c \in Rows : c # d => row'[c] = row[c]
    <2>1. row' = [row EXCEPT ![d] = r]
      BY <1>2 DEF SetRow
    <2>2. row \in [Rows -> Row]
      BY DEF TypeInv, TypeOK
    <2>3. r.st = st /\ r.lease = "none"
      <3> HIDE DEF st, key, p
      <3> QED
        BY <1>1 DEF Row
    <2> HIDE DEF r
    <2> QED
      BY <1>1, <2>1, <2>2, <2>3
  <1> HIDE DEF v, r, st, key, p
  <1>7. "running" \notin Terminal /\ "none" \notin Terminal /\ "queued" \notin Terminal
    BY DEF Terminal
  <1>8. \A u \in Workers, c \in Rows : c # d => (Holds(u, c)' <=> Holds(u, c))
    <2> TAKE u \in Workers, c \in Rows
    <2>1. CASE u = w
      BY <1>1, <1>3, <1>4, <2>1 DEF Holds, Del
    <2>2. CASE u # w
      BY <1>4, <2>2 DEF Holds, Del
    <2> QED
      BY <2>1, <2>2
  <1>9. \A c \in Rows : (TickUsed(c)' <=> TickUsed(c)) /\ (Lapsed(c)' => Lapsed(c))
    <2>1. \A c \in Rows : \A k : Used(c, k)' <=> Used(c, k)
      BY <1>2 DEF Used
    <2>2. ASSUME NEW c \in Rows, Lapsed(c)' PROVE Lapsed(c)
      <3>1. c # d
        BY <1>5, <1>6, <1>7, <2>2 DEF Lapsed
      <3> QED
        BY <1>6, <1>8, <2>2, <3>1 DEF Lapsed
    <2> QED
      BY <2>1, <2>2 DEF TickUsed
  <1>10. RunsOwn'
    BY <1>1, <1>2, <1>3, <1>4 DEF RunsOwn
  <1>11. FirstStall' /\ OneLapse'
    BY <1>2, <1>9 DEF FirstStall, OneLapse
  <1>12. Leased'
    BY <1>5, <1>6, <1>7 DEF Leased
  <1>13. IdsFresh'
    BY <1>2, <1>5, <1>6, <1>7 DEF IdsFresh, Used
  <1>14. ASSUME NEW c \in Rows, Unfinished(c)' PROVE Attended(c)'
    <2>1. CASE c = d
      <3>1. Retries(w) /\ job[wk[w].job].by = w
        BY <1>1, <1>5, <1>6, <1>7, <1>14, <2>1 DEF Unfinished, RunsOwn, Terminal
      <3>2. Requeues(w)' /\ Del(w)' = d
        BY <1>2, <1>3, <1>4, <3>1 DEF Requeues, Retries, Del
      <3> QED
        BY <2>1, <3>2 DEF Attended
    <2>2. CASE c # d
      <3>1. row'[c] = row[c] /\ Attended(c)
        BY <1>6, <1>14, <2>2 DEF AllAttended, Unfinished
      <3>2. \A u \in Workers : Requeues(u) /\ Del(u) = c => Requeues(u)' /\ Del(u)' = c
        BY <1>1, <1>2, <1>4 DEF Requeues, Retries, Del
      <3> QED
        BY <1>2, <1>8, <2>2, <3>1, <3>2 DEF Attended
    <2> QED
      BY <2>1, <2>2
  <1> QED
    BY <1>10, <1>11, <1>12, <1>13, <1>14 DEF AllAttended

(* A worker stops; its job waits again, unless nothing is left to do.       *)
LEMMA CareStops ==
  ASSUME TypeInv, CareFact, NEW w \in Workers, wk[w].pc # "idle", SetWorker(w, Idle),
         NEW v \in Job, SetJob(wk[w].job, v), v.st \in {"waiting", "done"},
         UNCHANGED <<row, adding, retries>>, faults' = 0 => faults = 0 /\ ~v.stalled,
         Holds(w, Del(w)) \/ Requeues(w) => v.st = "waiting",
         (\A c \in Rows : TickUsed(c)' => TickUsed(c)) => OneLapse'
  PROVE  CareFact'
  <1> USE DEF CareFact
  <1> DEFINE j == wk[w].job
  <1>1. j \in Rows \X Ids /\ job[j].st = "active" /\ job[j].by = w
    BY DEF RunsOwn, TypeInv, JobKnown
  <1>2. job'[j] = v /\ \A i \in Rows \X Ids : i # j => job'[i] = job[i]
    BY <1>1, JobSet DEF TypeInv
  <1>3. wk'[w] = Idle /\ \A u \in Workers : u # w => wk'[u] = wk[u]
    BY MovesHold
  <1>4. \A u \in Workers : u # w /\ wk[u].pc # "idle" =>
          wk[u].job # j /\ job'[wk[u].job] = job[wk[u].job]
    BY <1>1, <1>2 DEF RunsOwn, TypeInv, JobKnown
  <1>5. \A c \in Rows, k \in Ids : Used(c, k)' => Used(c, k)
    <2> TAKE c \in Rows, k \in Ids
    <2>1. CASE <<c, k>> = j
      BY <1>1, <2>1 DEF Used
    <2>2. CASE <<c, k>> # j
      <3>1. job'[<<c, k>>] = job[<<c, k>>]
        BY <1>2, <2>2
      <3> QED
        BY <3>1 DEF Used
    <2> QED
      BY <2>1, <2>2
  <1>6. OneLapse'
    BY <1>5, CareTypes DEF TickUsed
  <1>7. RunsOwn'
    BY <1>3, <1>4, Constants DEF RunsOwn
  <1>8. FirstStall'
    BY <1>2 DEF FirstStall
  <1>9. IdsFresh'
    <2>1. ASSUME NEW c \in Rows, NEW k \in Ids \ {Base}, <<c, k>> \in adding
          PROVE  job'[<<c, k>>].st = "none"
      <3>1. job[<<c, k>>].st = "none"
        BY <2>1 DEF IdsFresh
      <3>2. job'[<<c, k>>] = job[<<c, k>>]
        BY <1>1, <1>2, <3>1
      <3> QED
        BY <3>1, <3>2
    <2>2. \A n \in 1..MaxRetries : <<"user", n>> \in Ids
      BY CareTypes
    <2> QED
      BY <1>5, <2>1, <2>2 DEF IdsFresh
  <1>10. Leased'
    BY DEF Leased
  <1>11. ASSUME NEW c \in Rows, Unfinished(c) PROVE Attended(c)'
    <2>1. Attended(c)
      BY <1>11 DEF AllAttended
    <2>2. \A k \in Ids : job[<<c, k>>].st \in {"waiting", "none"} => job'[<<c, k>>] = job[<<c, k>>]
      BY <1>1, <1>2
    <2>3. ASSUME NEW u \in Workers, Holds(u, c) \/ (Requeues(u) /\ Del(u) = c) PROVE Attended(c)'
      <3>1. wk[u].pc # "idle" /\ Del(u) = c
        BY <2>3 DEF Holds, Requeues
      <3>2. CASE u # w
        <4>1. wk'[u] = wk[u] /\ job'[wk[u].job] = job[wk[u].job]
          BY <1>3, <1>4, <3>1, <3>2
        <4>2. \/ Holds(u, c)'
              \/ Requeues(u)' /\ Del(u)' = c
          BY <2>3, <4>1 DEF Holds, Requeues, Retries, Del
        <4> QED
          BY <4>2 DEF Attended
      <3>3. CASE u = w
        <4>1. v.st = "waiting"
          BY <2>3, <3>1, <3>3
        <4>2. PICK k \in Ids : j = <<c, k>>
          BY <1>1, <3>1, <3>3 DEF Del
        <4> QED
          BY <1>2, <4>1, <4>2 DEF Attended
      <3> QED
        BY <3>2, <3>3
    <2> QED
      BY <2>1, <2>2, <2>3, CareTypes DEF Attended
  <1> QED
    BY <1>6, <1>7, <1>8, <1>9, <1>10, <1>11 DEF AllAttended, Unfinished

(* The job returns or is retried.                                           *)
LEMMA CareAck ==
  ASSUME TypeInv, CareFact, NEW w \in Workers, Ack(w)
  PROVE  CareFact'
  <1> DEFINE j == wk[w].job
  <1>1. /\ wk[w].pc = "ack" /\ SetWorker(w, Idle) /\ UNCHANGED <<row, adding, retries, faults>>
    BY DEF Ack
  <1>2. j \in Rows \X Ids /\ job[j].by = w /\ job[j] \in Job
    BY <1>1 DEF CareFact, RunsOwn, TypeInv, TypeOK, JobKnown
  <1>3. ~Holds(w, Del(w))
    BY <1>1 DEF Holds
  <1>4. ASSUME \A c \in Rows : TickUsed(c)' => TickUsed(c) PROVE OneLapse'
    <2>1. wk'[w] = Idle /\ \A u \in Workers : u # w => wk'[u] = wk[u]
      BY <1>1, MovesHold
    <2>2. \A u \in Workers, c \in Rows : Holds(u, c)' <=> Holds(u, c)
      <3> TAKE u \in Workers, c \in Rows
      <3>1. CASE u = w
        BY <1>1, <2>1, <3>1, Constants DEF Holds
      <3>2. CASE u # w
        BY <2>1, <3>2 DEF Holds, Del
      <3> QED
        BY <3>1, <3>2
    <2>3. \A c \in Rows : Lapsed(c)' <=> Lapsed(c)
      BY <1>1, <2>2 DEF Lapsed
    <2> QED
      BY <1>1, <1>4, <2>3 DEF CareFact, OneLapse
  <1>5. CASE Retries(w)
    <2> DEFINE v == [job[j] EXCEPT !.st = "waiting", !.by = NoWorker, !.tries = @ + 1]
    <2>1. SetJob(j, v)
      BY <1>2, <1>5 DEF Ack
    <2>2. job[j].tries + 1 \in 0..(MaxAttempts - 1)
      <3>1. ~wk[w].last
        BY <1>5 DEF Retries
      <3>2. job[j].tries + 1 < MaxAttempts
        BY <1>2, <3>1 DEF TypeInv, JobOwned
      <3>3. job[j].tries \in Nat /\ MaxAttempts \in Nat
        BY <1>2, DeliveryAssumption DEF Job
      <3> QED
        BY <3>2, <3>3
    <2>3. v \in Job /\ v.st = "waiting" /\ v.stalled = job[j].stalled
      BY <1>2, <2>2 DEF Job
    <2>4. faults = 0 => ~job[j].stalled
      BY <1>2 DEF CareFact, FirstStall
    <2> HIDE DEF v
    <2> QED
      BY <1>1, <1>4, <2>1, <2>3, <2>4, CareStops
  <1>6. CASE ~Retries(w)
    <2>1. SetJob(j, Done)
      BY <1>2, <1>6 DEF Ack
    <2>2. Done \in Job /\ Done.st = "done" /\ ~Done.stalled
      BY Constants DEF Done, NoJob
    <2>3. ~Requeues(w)
      BY <1>6 DEF Requeues
    <2> QED
      BY <1>1, <1>3, <1>4, <2>1, <2>2, <2>3, CareStops
  <1> QED
    BY <1>5, <1>6

(* A worker dies, the first fault: its job was never stalled, and its row   *)
(* is the only one whose lease may end.                                     *)
LEMMA CareCrash ==
  ASSUME TypeInv, CareFact, faults' <= 1, NEW w \in Workers, Crash(w)
  PROVE  CareFact'
  <1> DEFINE j == wk[w].job
             v == [job[j] EXCEPT !.st = "waiting", !.by = NoWorker, !.stalled = TRUE]
  <1>1. /\ wk[w].pc # "idle" /\ SetWorker(w, Idle) /\ UNCHANGED <<row, adding, retries>>
        /\ faults' = faults + 1
    BY DEF Crash, Fault
  <1>2. faults = 0 /\ faults' # 0
    BY <1>1, CareTypes
  <1>3. j \in Rows \X Ids /\ job[j].by = w /\ job[j] \in Job /\ ~job[j].stalled
    BY <1>1, <1>2 DEF CareFact, RunsOwn, FirstStall, TypeInv, TypeOK, JobKnown
  <1>4. SetJob(j, v)
    BY <1>3 DEF Crash, Stall
  <1>5. v \in Job /\ v.st = "waiting"
    BY <1>3 DEF Job
  <1> HIDE DEF v
  <1>6. ASSUME \A c \in Rows : TickUsed(c)' => TickUsed(c) PROVE OneLapse'
    <2>1. \A u \in Workers : u # w => wk'[u] = wk[u]
      BY <1>1, MovesHold
    <2>2. \A c \in Rows : Lapsed(c)' => c = Del(w)
      <3> SUFFICES ASSUME NEW c \in Rows, Lapsed(c)', c # Del(w) PROVE FALSE
        OBVIOUS
      <3>1. \A u \in Workers : Holds(u, c) => Holds(u, c)'
        <4> TAKE u \in Workers
        <4>1. CASE u = w
          BY <4>1 DEF Holds
        <4>2. CASE u # w
          BY <2>1, <4>2 DEF Holds, Del
        <4> QED
          BY <4>1, <4>2
      <3>2. Lapsed(c)
        BY <1>1, <3>1 DEF Lapsed
      <3> QED
        BY <1>2, <3>2 DEF CareFact, OneLapse
    <2>3. \A c \in Rows : ~TickUsed(c)'
      BY <1>2, <1>6 DEF CareFact, OneLapse
    <2> QED
      BY <1>2, <2>2, <2>3 DEF OneLapse
  <1> QED
    BY <1>1, <1>2, <1>4, <1>5, <1>6, CareStops

(* A job is taken: its row is claimed, or needs nobody.                     *)
LEMMA CareTake ==
  ASSUME TypeInv, CareFact, NEW w \in Workers, NEW d \in Rows, NEW k \in Ids, Take(w, d, k)
  PROVE  CareFact'
  <1> DEFINE j == <<d, k>>
  <1>1. /\ j \in Rows \X Ids /\ job[j].st = "waiting" /\ wk[w].pc = "idle"
        /\ UNCHANGED <<adding, faults, retries>>
    BY DEF Take
  <1>2. Used(d, k) /\ (k # Base => j \notin adding) /\ row[d].st # "none"
    BY <1>1 DEF CareFact, IdsFresh, Used
  <1>3. \A c \in Rows, i \in Ids : <<c, i>> \in Rows \X Ids
    OBVIOUS
  <1>4. \A u \in Workers : wk[u].pc # "idle" => wk[u].job \in Rows \X Ids /\ wk[u].job # j
    BY <1>1 DEF CareFact, RunsOwn, TypeInv, JobKnown
  <1>5. CASE Noop(d, k)
    <2>1. SetJob(j, Done) /\ UNCHANGED <<row, wk>> /\ ~Claimable(d)
      BY <1>5 DEF Noop
    <2>2. job'[j] = Done /\ \A i \in Rows \X Ids : i # j => job'[i] = job[i]
      BY <1>1, <2>1, Constants, JobSet DEF TypeInv
    <2>3. Done.st = "done" /\ ~Done.stalled
      BY DEF Done, NoJob
    <2>4. ASSUME NEW c \in Rows, Unfinished(c), Attended(c) PROVE Attended(c)'
      <3>1. CASE c = d
        <4>1. row[c].st = "running" /\ row[c].lease # "none"
          BY <2>1, <2>4, <3>1 DEF Claimable, Unfinished, CareFact, Leased
        <4> QED
          BY <2>1, <4>1 DEF Attended
      <3>2. CASE c # d
        <4>1. \A i \in Ids : job'[<<c, i>>] = job[<<c, i>>]
          BY <1>3, <2>2, <3>2
        <4>2. \A u \in Workers : Holds(u, c)' <=> Holds(u, c)
          BY <2>1 DEF Holds, Del
        <4>3. \A u \in Workers : Requeues(u) => Requeues(u)' /\ Del(u)' = Del(u)
          BY <1>4, <2>1, <2>2 DEF Requeues, Retries, Del
        <4> QED
          BY <1>1, <2>1, <2>4, <4>1, <4>2, <4>3, CareTypes DEF Attended
      <3> QED
        BY <3>1, <3>2
    <2> QED
      BY <1>1, <1>2, <2>1, <2>2, <2>3, <2>4, QueueMoves
  <1>6. CASE Claim(w, d, k)
    <2> USE DEF CareFact
    <2>1. PICK v \in Worker, r \in Row :
            /\ SetWorker(w, v) /\ SetRow(d, r) /\ v.pc = "check" /\ v.job = j
            /\ r.st = "running" /\ r.lease = "held"
      BY <1>1, <1>6, ClaimDoes
    <2>2. job' = [job EXCEPT ![j] = [job[j] EXCEPT !.st = "active", !.by = w]]
      BY <1>6 DEF Claim, SetJob
    <2>3. /\ job'[j].st = "active" /\ job'[j].by = w /\ job'[j].stalled = job[j].stalled
          /\ \A i \in Rows \X Ids : i # j => job'[i] = job[i]
      <3>1. job \in [Rows \X Ids -> Job] /\ job[j] \in Job
        BY <1>1 DEF TypeInv, TypeOK
      <3> HIDE DEF j
      <3>2. [job[j] EXCEPT !.st = "active", !.by = w].stalled = job[j].stalled
        BY <3>1 DEF Job
      <3>3. /\ [job[j] EXCEPT !.st = "active", !.by = w].st = "active"
            /\ [job[j] EXCEPT !.st = "active", !.by = w].by = w
        BY <3>1 DEF Job
      <3> QED
        BY <1>1, <2>2, <3>1, <3>2, <3>3
    <2>4. wk'[w] = v /\ \A u \in Workers : u # w => wk'[u] = wk[u]
      BY <2>1, WorkerSet DEF TypeInv
    <2>5. row'[d] = r /\ \A c \in Rows : c # d => row'[c] = row[c]
      BY <2>1, RowSet DEF TypeInv
    <2>6. \A c \in Rows, i \in Ids : Used(c, i)' <=> Used(c, i)
      <3> TAKE c \in Rows, i \in Ids
      <3>1. CASE <<c, i>> = j
        BY <1>1, <2>3, <3>1 DEF Used
      <3>2. CASE <<c, i>> # j
        <4>1. job'[<<c, i>>] = job[<<c, i>>]
          BY <1>3, <2>3, <3>2
        <4> QED
          BY <1>1, <4>1 DEF Used
      <3> QED
        BY <3>1, <3>2
    <2>7. \A u \in Workers, c \in Rows : c # d => (Holds(u, c)' <=> Holds(u, c))
      <3> TAKE u \in Workers, c \in Rows
      <3>1. CASE u = w
        BY <1>1, <2>1, <2>4, <3>1 DEF Holds, Del
      <3>2. CASE u # w
        BY <2>4, <3>2 DEF Holds, Del
      <3> QED
        BY <3>1, <3>2
    <2>8. \A c \in Rows : (Lapsed(c)' => Lapsed(c)) /\ (TickUsed(c)' => TickUsed(c))
      <3>1. ~Lapsed(d)'
        <4>1. Holds(w, d)'
          BY <2>1, <2>4 DEF Holds, Del
        <4> QED
          BY <2>1, <2>5, <4>1 DEF Lapsed
      <3>2. \A c \in Rows : c # d /\ Lapsed(c)' => Lapsed(c)
        BY <2>5, <2>7 DEF Lapsed
      <3>3. \A c \in Rows : TickUsed(c)' => TickUsed(c)
        BY <2>6, CareTypes DEF TickUsed
      <3> QED
        BY <3>1, <3>2, <3>3
    <2>9. RunsOwn'
      BY <1>4, <2>1, <2>3, <2>4 DEF RunsOwn
    <2>10. FirstStall' /\ OneLapse'
      BY <1>1, <2>3, <2>8 DEF FirstStall, OneLapse
    <2>11. Leased'
      BY <2>1, <2>5 DEF Leased
    <2>12. IdsFresh'
      <3>1. ASSUME NEW c \in Rows, NEW i \in Ids \ {Base}, <<c, i>> \in adding'
            PROVE  job'[<<c, i>>].st = "none"
        <4>1. <<c, i>> # j
          BY <1>1, <1>2, <3>1
        <4> QED
          BY <1>1, <1>3, <2>3, <3>1, <4>1 DEF IdsFresh
      <3>2. \A c \in Rows : row'[c].st = "none" => row[c].st = "none"
        BY <2>1, <2>5
      <3>3. \A n \in 1..MaxRetries : <<"user", n>> \in Ids
        BY CareTypes
      <3> QED
        BY <1>1, <2>6, <3>1, <3>2, <3>3 DEF IdsFresh
    <2>13. ASSUME NEW c \in Rows, Unfinished(c)' PROVE Attended(c)'
      <3>1. CASE c = d
        BY <2>1, <2>5, <3>1 DEF Attended
      <3>2. CASE c # d
        <4>1. row'[c] = row[c] /\ Attended(c)
          BY <2>5, <2>13, <3>2 DEF AllAttended, Unfinished
        <4>2. \A i \in Ids : job'[<<c, i>>] = job[<<c, i>>]
          BY <1>3, <2>3, <3>2
        <4>3. \A u \in Workers : Requeues(u) /\ Del(u) = c => Requeues(u)' /\ Del(u)' = c
          <5> TAKE u \in Workers
          <5>1. CASE u = w
            BY <1>1, <5>1 DEF Requeues
          <5>2. CASE wk[u].pc # "idle" /\ u # w
            <6>1. wk'[u] = wk[u] /\ job'[wk[u].job] = job[wk[u].job]
              BY <1>4, <2>3, <2>4, <5>2
            <6> QED
              BY <6>1 DEF Requeues, Retries, Del
          <5> QED
            BY <5>1, <5>2 DEF Requeues
        <4> QED
          BY <1>1, <2>7, <3>2, <4>1, <4>2, <4>3, CareTypes DEF Attended
      <3> QED
        BY <3>1, <3>2
    <2> QED
      BY <2>9, <2>10, <2>11, <2>12, <2>13 DEF AllAttended
  <1> QED
    BY <1>5, <1>6 DEF Take

(* A worker's step.                                                         *)
LEMMA CareWorker ==
  ASSUME TypeInv, CareFact, NEW w \in Workers, WorkerStep(w)
  PROVE  CareFact'
  <1>0. faults \in Nat
    BY CareTypes
  <1>1. CASE Check(w)
    <2>1. PICK v \in Worker : Moves(w, v) /\ v.pc \in {"send", "finish"}
      BY <1>1, CheckDoes
    <2> QED
      BY <1>1, <2>1, CareGoesOn DEF Check
  <1>2. ASSUME NEW x \in Recipients, Intend(w, x) PROVE CareFact'
    <2>1. PICK v \in Worker : Moves(w, v) /\ v.pc # "ack"
      BY <1>2, IntendDoes
    <2>2. UNCHANGED <<job, adding, retries>> /\ (faults' = 0 => faults = 0)
      BY <1>0, <1>2 DEF Intend, Fault
    <2> QED
      BY <2>1, <2>2, CareGoesOn
  <1>3. CASE Mail(w)
    <2>1. PICK v \in Worker : Moves(w, v) /\ v.pc \in {"save", "unsave"}
      BY <1>3, MailDoes
    <2>2. UNCHANGED <<job, adding, retries>> /\ (faults' = 0 => faults = 0)
      BY <1>0, <1>3 DEF Mail, Fault
    <2> QED
      BY <2>1, <2>2, CareGoesOn
  <1>4. CASE SaveSent(w) \/ ClearIntent(w)
    <2>1. PICK v \in Worker, p \in Progress : Moves(w, v) /\ v.pc = "send" /\ Save(w, p)
      BY <1>4, ResultDoes
    <2>2. UNCHANGED <<job, adding, retries>> /\ (faults' = 0 => faults = 0)
      BY <1>0, <1>4, <2>1 DEF SaveSent, ClearIntent, Save, Fault
    <2> QED
      BY <2>1, <2>2, CareGoesOn
  <1>5. CASE EndSending(w)
    <2>1. PICK v \in Worker : Moves(w, v) /\ v.pc = "finish"
      BY <1>5, EndSendingDoes
    <2> QED
      BY <1>5, <2>1, CareGoesOn DEF EndSending
  <1> QED
    BY <1>1, <1>2, <1>3, <1>4, <1>5, CareFinish, CareAck DEF WorkerStep

(* Faults are counted and never forgotten.                                  *)
LEMMA FaultsStay ==
  ASSUME TypeInv, [Next]_vars
  PROVE  faults <= faults'
  <1>1. faults \in Nat
    BY CareTypes
  <1>2. \A kind : Fault(kind) => faults <= faults'
    BY <1>1 DEF Fault
  <1>3. UNCHANGED faults => faults <= faults'
    BY <1>1
  <1>4. CASE \E j \in Rows \X Ids : Add(j) \/ LoseAdd(j) \/ Evict(j) \/ LoseLock(j)
    BY <1>2, <1>3, <1>4 DEF Add, LoseAdd, Evict, LoseLock
  <1>5. CASE (\E e \in Events : Dispatch(e)) \/ (\E g \in Gates : Turn(g))
    BY <1>3, <1>5 DEF Dispatch, Turn
  <1>6. CASE \E d \in Rows : Retry(d) \/ LeaseEnds(d) \/ Overrun(d) \/ Tick(d)
    BY <1>2, <1>3, <1>6 DEF Retry, LeaseEnds, Overrun, Tick, Reclaim, QueueAgain
  <1>7. CASE \E w \in Workers, d \in Rows, k \in Ids : Take(w, d, k)
    BY <1>3, <1>7 DEF Take
  <1>8. CASE \E w \in Workers : WorkerStep(w) \/ Crash(w)
    BY <1>2, <1>3, <1>8
       DEF WorkerStep, Crash, Check, Intend, Mail, SaveSent, ClearIntent, Save, EndSending, Finish, Ack
  <1> QED
    BY <1>3, <1>4, <1>5, <1>6, <1>7, <1>8 DEF Next, vars

LEMMA CareStep ==
  ASSUME TypeInv, CareInv, [Next]_vars, Faults \cap {"lock", "tick", "retry"} = {}
  PROVE  CareInv'
  <1> SUFFICES ASSUME faults' <= 1 PROVE CareFact'
    BY DEF CareInv
  <1>1. faults <= 1 /\ CareFact
    <2>1. faults <= faults' /\ faults \in Nat /\ faults' \in Nat
      <3>1. TypeInv'
        BY TypeStep
      <3> QED
        BY <3>1, FaultsStay, DeliveryAssumption DEF TypeInv, TypeOK
    <2> QED
      BY <2>1 DEF CareInv
  <1>2. CASE UNCHANGED vars
    BY <1>1, <1>2, CareStays DEF vars
  <1>3. ASSUME NEW j \in Rows \X Ids, Add(j) \/ LoseAdd(j) \/ Evict(j) \/ LoseLock(j)
        PROVE  CareFact'
    <2>1. PICK d \in Rows, k \in Ids : j = <<d, k>>
      OBVIOUS
    <2>2. ~LoseLock(j)
      BY DEF LoseLock, Fault
    <2> QED
      BY <1>1, <1>3, <2>1, <2>2, CareQueue
  <1>4. CASE \E e \in Events : Dispatch(e)
    BY <1>1, <1>4, CareDispatch
  <1>5. CASE \E g \in Gates : Turn(g)
    BY <1>1, <1>5, CareStays DEF Turn
  <1>6. ASSUME NEW d \in Rows, Retry(d) \/ LeaseEnds(d) \/ Overrun(d) \/ Tick(d) PROVE CareFact'
    <2>1. CASE QueueAgain(d)
      BY <1>1, <2>1, CareQueue, CareTypes
    <2> QED
      BY <1>1, <1>6, <2>1, CareRetry, CareLease, CareReclaim DEF Tick
  <1>7. ASSUME NEW w \in Workers, NEW d \in Rows, NEW k \in Ids, Take(w, d, k) PROVE CareFact'
    BY <1>1, <1>7, CareTake
  <1>8. ASSUME NEW w \in Workers, WorkerStep(w) \/ Crash(w) PROVE CareFact'
    BY <1>1, <1>8, CareWorker, CareCrash
  <1> QED
    BY <1>2, <1>3, <1>4, <1>5, <1>6, <1>7, <1>8 DEF Next

LEMMA CareInit == Init => CareInv
  <1> SUFFICES ASSUME Init PROVE CareFact
    BY DEF CareInv
  <1>1. /\ \A w \in Workers : wk[w].pc = "idle"
        /\ \A d \in Rows : row[d].st = "none"
        /\ \A j \in Rows \X Ids : job[j].st = "none" /\ ~job[j].stalled
        /\ adding = {}
    BY Constants DEF Init, NoRow, NoJob
  <1>2. \A d \in Rows, k \in Ids : ~Used(d, k)
    BY <1>1 DEF Used
  <1>3. \A d \in Rows : ~Lapsed(d) /\ ~TickUsed(d)
    BY <1>1, <1>2, Constants DEF Lapsed, TickUsed
  <1>4. IdsFresh
    BY <1>1, <1>2, Constants DEF IdsFresh
  <1> QED
    BY <1>1, <1>3, <1>4 DEF CareFact, RunsOwn, FirstStall, OneLapse, Leased, AllAttended, Unfinished

(* After one fault every unfinished delivery is still somebody's: a waiting *)
(* job, a worker, its lease or the tick.  The fault may be a crash, a slow  *)
(* attempt, a write or a call that failed, or a first job that was lost.    *)
THEOREM NothingIsForgotten == Spec => []NothingForgotten
  <1>1. CASE Faults \cap {"lock", "tick", "retry"} = {}
    <2>1. TypeInv /\ CareInv /\ [Next]_vars => (TypeInv /\ CareInv)'
      BY <1>1, TypeStep, CareStep
    <2>2. Spec => [](TypeInv /\ CareInv)
      BY <2>1, TypeInit, CareInit, PTL DEF Spec
    <2>3. CareInv => NothingForgotten
      BY DEF CareInv, CareFact, AllAttended, NothingForgotten
    <2> QED
      BY <2>2, <2>3, PTL
  <1>2. CASE Faults \cap {"lock", "tick", "retry"} # {}
    <2>1. NothingForgotten
      BY <1>2 DEF NothingForgotten
    <2> QED
      BY <2>1, PTL
  <1> QED
    BY <1>1, <1>2
=============================================================================
