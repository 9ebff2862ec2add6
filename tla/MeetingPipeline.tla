--------------------------- MODULE MeetingPipeline ---------------------------
(***************************************************************************)
(* The processing of one meeting by the job worker (lib/jobs/processor.ts, *)
(* lib/jobs/queue.ts): a recording is transcribed, a summary generated,    *)
(* and the generated tasks merged into the tasks people work on            *)
(* (lib/meetings/action-item-merge.ts).  A job has a row in Postgres and   *)
(* an entry in BullMQ.  Its attempts fail and are repeated, the worker's   *)
(* process dies and the entry is taken again as stalled.                   *)
(*                                                                         *)
(* A task is known by the title the model gave it first (original_title).  *)
(* Its id is <<title, 0>>, a hash of meeting and title, where the language *)
(* model generated it: a task that is generated again after it was removed *)
(* has the same id again.  Tasks of people, and those found without a      *)
(* model when none answers, have other ids, <<title, n>>.                  *)
(***************************************************************************)
EXTENDS Naturals, FiniteSets, Functions

CONSTANTS Workers,      \* jobs that may run at a time (MEETSUM_WORKER_CONCURRENCY)
          Jobs,         \* job records
          Requests,     \* names of the jobs that pages ask for
          Titles,       \* normalised titles of tasks
          Nobody,       \* a worker without a job
          MaxAttempts,  \* attempts of a job (MEETSUM_JOB_ATTEMPTS)
          MaxStalls,    \* times a job may stall and be taken again
          MaxFaults,    \* bound: errors of a provider or the database
          MaxCrashes,   \* bound: deaths of the worker's process
          MaxCalls      \* bound: changes of tasks by people

ASSUME PipelineAssumption ==
    /\ MaxAttempts \in Nat \ {0}
    /\ Requests \subseteq {"media.ingest", "artifact.import", "meeting.summarize",
                     "meeting.index"}
    /\ {MaxStalls, MaxFaults, MaxCrashes, MaxCalls} \subseteq Nat
    /\ Nobody \notin Jobs

Processing == {"media.ingest", "artifact.import", "meeting.summarize"}
Names == Processing \cup {"meeting.index"}

VARIABLES meeting,    \* status of the meeting
          items,      \* its tasks by id
          created,    \* number of a title's next task, from 1
          summary,    \* does the meeting have a summary?
          name,       \* name of a job
          row,        \* status of the job's row
          entry,      \* state of the job in BullMQ
          attempts,   \* attempts made before the present one
          stalls,     \* times the job stalled
          run,        \* what each worker does
          calls, faults, crashes,  \* what happened against the bounds
          announced,  \* action_item.created events sent for a creation
          last,       \* how the last processing job ended
          adrift      \* why no job will settle the meeting or a row

jobVars  == <<name, row, entry, attempts, stalls>>
taskVars == <<items, created, summary>>
bounds   == <<calls, faults, crashes>>
vars == <<meeting, taskVars, jobVars, run, bounds, announced, last, adrift>>

Ids  == Titles \X Nat
Item == [orig : Titles, title : Titles, origin : {"ai", "user"},
         edited : BOOLEAN, done : BOOLEAN, nth : Nat]

\* An id and the number of the task that was created under it.
Creations == Ids \X Nat
Settled == {"media_uploaded", "completed", "failed"}
Steps == {"mark", "load", "asr", "import", "sum", "plan", "lock", "commit",
          "announce", "finish", "ack", "told"}

Idle == [job |-> Nobody, pc |-> "idle", previous |-> {}, output |-> {},
         seen |-> <<>>, fresh |-> {}]

TypeOK ==
    /\ meeting \in Settled \cup {"transcribing", "summarizing", "indexing"}
    /\ DOMAIN items \subseteq Ids /\ \A i \in DOMAIN items : items[i] \in Item
    /\ created \in [Titles -> Nat] /\ summary \in BOOLEAN
    /\ name \in [Jobs -> Names \cup {"none"}]
    /\ row \in [Jobs -> {"none", "queued", "active", "completed", "failed"}]
    /\ entry \in [Jobs -> {"none", "waiting", "active", "completed", "failed"}]
    /\ attempts \in [Jobs -> 0..MaxAttempts - 1]
    /\ stalls \in [Jobs -> 0..MaxStalls + 1]
    /\ \A w \in Workers :
          \/ run[w] = Idle
          \/ /\ run[w].job \in Jobs /\ run[w].pc \in Steps
             /\ run[w].previous \subseteq Ids /\ run[w].fresh \subseteq Creations
             /\ run[w].output \subseteq Titles
             /\ DOMAIN run[w].seen \subseteq Ids
    /\ calls \in 0..MaxCalls /\ faults \in 0..MaxFaults /\ crashes \in 0..MaxCrashes
    /\ DOMAIN announced \subseteq Creations
    /\ last \in {"none", "completed", "failed"}
    /\ adrift \subseteq {"stalled", "fallback", "unwritten"}

Init ==
    /\ meeting = "media_uploaded"
    /\ items = <<>> /\ created = [t \in Titles |-> 1] /\ summary = FALSE
    /\ name = [j \in Jobs |-> "none"] /\ row = [j \in Jobs |-> "none"]
    /\ entry = [j \in Jobs |-> "none"]
    /\ attempts = [j \in Jobs |-> 0] /\ stalls = [j \in Jobs |-> 0]
    /\ run = [w \in Workers |-> Idle]
    /\ calls = 0 /\ faults = 0 /\ crashes = 0
    /\ announced = <<>> /\ last = "none" /\ adrift = {}

-----------------------------------------------------------------------------
(* Requests *)

\* A page asks for processing (process, reprocess, intelligence/run and the
\* retry of a job, which all enqueue a new record whatever already runs).  What
\* becomes of an add that Redis does not answer in time is in CaptureIngest.
Request(j, n) ==
    /\ row[j] = "none"
    /\ name' = [name EXCEPT ![j] = n]
    /\ row' = [row EXCEPT ![j] = "queued"]
    /\ entry' = [entry EXCEPT ![j] = "waiting"]
    /\ UNCHANGED <<meeting, taskVars, attempts, stalls, run, bounds,
                   announced, last, adrift>>

-----------------------------------------------------------------------------
(* The steps of a job *)

At(w, pc) == run[w].pc = pc
NameOf(w) == name[run[w].job]
Go(w, r)  == run' = [run EXCEPT ![w] = r]

\* BullMQ hands a waiting job to a free worker.
Take(w) ==
    /\ run[w] = Idle
    /\ \E j \in Jobs :
          /\ entry[j] = "waiting"
          /\ entry' = [entry EXCEPT ![j] = "active"]
          /\ Go(w, [Idle EXCEPT !.job = j, !.pc = "mark"])
    /\ UNCHANGED <<meeting, taskVars, name, row, attempts, stalls, bounds,
                   announced, last, adrift>>

MarkActive(w) ==
    /\ At(w, "mark")
    /\ row' = [row EXCEPT ![run[w].job] = "active"]
    /\ Go(w, [run[w] EXCEPT !.pc = "load"])
    /\ UNCHANGED <<meeting, taskVars, name, entry, attempts, stalls, bounds,
                   announced, last, adrift>>

KnownNone(w) == {}

\* The tasks a job compares with when it announces new ones: those of the
\* meeting's summary, so none before there is one.
Known(w) == IF summary THEN DOMAIN items ELSE {}

\* The meeting is read and its status set, by the name of the job.
Load(w) ==
    /\ At(w, "load")
    /\ \/ /\ NameOf(w) = "media.ingest"
          /\ meeting' = "transcribing"
          /\ Go(w, [run[w] EXCEPT !.pc = "asr", !.previous = Known(w)])
       \/ /\ NameOf(w) = "meeting.summarize"
          /\ meeting' = "summarizing"
          /\ Go(w, [run[w] EXCEPT !.pc = "sum", !.previous = Known(w)])
       \/ /\ NameOf(w) = "artifact.import"
          /\ meeting' = "transcribing"
          /\ Go(w, [run[w] EXCEPT !.pc = "import"])
       \/ /\ NameOf(w) = "meeting.index"
          /\ Go(w, [run[w] EXCEPT !.pc = "finish"])
          /\ UNCHANGED meeting
    /\ UNCHANGED <<taskVars, jobVars, bounds, announced, last, adrift>>

Transcribe(w) ==
    /\ At(w, "asr")
    /\ meeting' = "summarizing"
    /\ Go(w, [run[w] EXCEPT !.pc = "sum"])
    /\ UNCHANGED <<taskVars, jobVars, bounds, announced, last, adrift>>

\* Google's own transcript replaces the recording's; without one the recording
\* is imported, which queues its processing unless it was imported before.
ImportArtifacts(w) ==
    /\ At(w, "import")
    /\ \/ /\ meeting' = "summarizing"
          /\ Go(w, [run[w] EXCEPT !.pc = "sum", !.previous = Known(w)])
          /\ UNCHANGED <<name, row, entry, adrift>>
       \/ /\ \/ \E j \in Jobs :
                   /\ row[j] = "none"
                   /\ name' = [name EXCEPT ![j] = "media.ingest"]
                   /\ row' = [row EXCEPT ![j] = "queued"]
                   /\ entry' = [entry EXCEPT ![j] = "waiting"]
                   /\ UNCHANGED adrift
             \/ /\ adrift' = adrift \cup {"fallback"}
                /\ UNCHANGED <<name, row, entry>>
          /\ Go(w, [run[w] EXCEPT !.pc = "finish"])
          /\ UNCHANGED meeting
    /\ UNCHANGED <<taskVars, attempts, stalls, bounds, announced, last>>

\* The model answers with tasks, one per title.
Summarize(w) ==
    /\ At(w, "sum")
    /\ \E out \in SUBSET Titles :
          Go(w, [run[w] EXCEPT !.pc = "plan", !.output = out])
    /\ meeting' = "indexing"
    /\ UNCHANGED <<taskVars, jobVars, bounds, announced, last, adrift>>

-----------------------------------------------------------------------------
(* The merge of generated tasks *)

\* A task of somebody's: edited, typed in or completed.
isProtected(item) == item.edited \/ item.origin = "user" \/ item.done

\* What a generated title is compared with: what the model called the task.
existingKey(item) == item.orig

LockedNone == {}

\* Rows that a transaction has locked (SELECT ... FOR UPDATE).
Locked == UNION {DOMAIN run[w].seen : w \in {v \in Workers : At(v, "commit")}}

\* The transaction's query sees the tasks of now,
PlanMerge(w) ==
    /\ At(w, "plan")
    /\ Go(w, [run[w] EXCEPT !.pc = "lock", !.seen = items])
    /\ UNCHANGED <<meeting, taskVars, jobVars, bounds, announced, last, adrift>>

\* waits for whoever locks one of them, and returns those that are still there
\* as they are then, but none that were added while it waited.
LockRows(w) ==
    /\ At(w, "lock")
    /\ LET there == DOMAIN run[w].seen \cap DOMAIN items
       IN  /\ there \cap Locked = {}
           /\ Go(w, [run[w] EXCEPT !.pc = "commit", !.seen = Restrict(items, there)])
    /\ UNCHANGED <<meeting, taskVars, jobVars, bounds, announced, last, adrift>>

AnsweredByNone(seen, keep) == {}

\* The titles that tasks of people answer to.
Answered(seen, keep) == {existingKey(seen[i]) : i \in keep}

\* Protected tasks are kept,
Kept(seen) == {i \in DOMAIN seen : isProtected(seen[i])}

Wanted(seen, out) == out \ Answered(seen, Kept(seen))

Match(seen, t) == {i \in DOMAIN seen \ Kept(seen) : existingKey(seen[i]) = t}

\* the others refreshed in place or removed,
Refreshed(seen, out) ==
    {CHOOSE i \in Match(seen, t) : TRUE :
        t \in {u \in Wanted(seen, out) : Match(seen, u) # {}}}

\* A new task has its title's id, unless it was found without a model (local) or
\* a task that was read has that id,
NewId(seen, t, local) ==
    IF local \/ <<t, 0>> \in DOMAIN seen THEN <<t, created[t]>> ELSE <<t, 0>>

\* and titles that no task answers to become new tasks.
Inserted(seen, out, local) ==
    {NewId(seen, t, local) : t \in {u \in Wanted(seen, out) : Match(seen, u) = {}}}

Merged(old, seen, out, local) ==
    LET update == Refreshed(seen, out)
        insert == Inserted(seen, out, local)
        remove == DOMAIN seen \ (Kept(seen) \cup update)
    IN  [i \in (DOMAIN old \ remove) \cup insert |->
            IF i \in update \cup insert
            THEN [orig |-> i[1], title |-> i[1], origin |-> "ai",
                  edited |-> FALSE, done |-> FALSE,
                  nth |-> IF i \in insert THEN created[i[1]] ELSE old[i].nth]
            ELSE old[i]]

\* Another job has added a task that this one is about to add: the insert meets
\* the primary key, and the attempt fails without anything being at fault.
Collides(w) ==
    /\ At(w, "commit")
    /\ Inserted(run[w].seen, run[w].output, FALSE) \cap DOMAIN items # {}

\* The merge, the summary and the status are one transaction.
Persist(w) ==
    /\ At(w, "commit")
    /\ \E local \in BOOLEAN :
          /\ local \/ ~ Collides(w)
          /\ items' = Merged(items, run[w].seen, run[w].output, local)
          /\ created' = [t \in Titles |->
                IF \E i \in Inserted(run[w].seen, run[w].output, local) : i[1] = t
                THEN created[t] + 1 ELSE created[t]]
    /\ summary' = TRUE
    /\ meeting' = "completed"
    /\ Go(w, [run[w] EXCEPT !.pc = "announce", !.seen = <<>>, !.output = {},
                            !.fresh = {<<i, items'[i].nth>> :
                                         i \in DOMAIN items' \ run[w].previous}])
    /\ UNCHANGED <<jobVars, bounds, announced, last, adrift>>

\* summary.created, one action_item.created per new task, meeting.completed.
Announce(w) ==
    /\ At(w, "announce")
    /\ announced' = [c \in DOMAIN announced \cup run[w].fresh |->
                        (IF c \in DOMAIN announced THEN announced[c] ELSE 0)
                        + (IF c \in run[w].fresh THEN 1 ELSE 0)]
    /\ Go(w, [run[w] EXCEPT !.pc = "finish", !.previous = {}, !.fresh = {}])
    /\ UNCHANGED <<meeting, taskVars, jobVars, bounds, last, adrift>>

CompleteJob(w) ==
    /\ At(w, "finish")
    /\ row' = [row EXCEPT ![run[w].job] = "completed"]
    /\ Go(w, [run[w] EXCEPT !.pc = "ack"])
    /\ UNCHANGED <<meeting, taskVars, name, entry, attempts, stalls, bounds,
                   announced, last, adrift>>

Ended(w, how) == IF NameOf(w) \in Processing THEN how ELSE last

\* BullMQ closes the job.
Ack(w) ==
    /\ At(w, "ack")
    /\ entry' = [entry EXCEPT ![run[w].job] = "completed"]
    /\ last' = Ended(w, "completed")
    /\ Go(w, Idle)
    /\ UNCHANGED <<meeting, taskVars, name, row, attempts, stalls, bounds,
                   announced, adrift>>

-----------------------------------------------------------------------------
(* Failures *)

\* Events swallow their errors, so no attempt fails while it announces.
MayFail == {"load", "asr", "import", "sum", "plan", "lock", "commit", "finish"}

LastAttempt(w) == attempts[run[w].job] + 1 >= MaxAttempts

\* n errors; the first of them may be a collision.
Fault(w, n) ==
    /\ faults' = faults + IF Collides(w) THEN n - 1 ELSE n
    /\ faults' <= MaxFaults

\* An attempt that is not the last is repeated after a while; the meeting
\* keeps its state.  The row's update may itself fail, and is then skipped.
Retry(w) ==
    /\ run[w].pc \in MayFail
    /\ ~ LastAttempt(w)
    /\ \/ Fault(w, 1) /\ row' = [row EXCEPT ![run[w].job] = "queued"]
       \/ Fault(w, 2) /\ UNCHANGED row
    /\ entry' = [entry EXCEPT ![run[w].job] = "waiting"]
    /\ attempts' = [attempts EXCEPT ![run[w].job] = @ + 1]
    /\ Go(w, Idle)
    /\ UNCHANGED <<meeting, taskVars, name, stalls, calls, crashes, announced,
                   last, adrift>>

\* The failure reaches the meeting but not the row.
FailJobUntold(w) ==
    /\ run[w].pc \in MayFail /\ Fault(w, 1)
    /\ Go(w, [Idle EXCEPT !.job = run[w].job, !.pc = "told"])
    /\ UNCHANGED <<meeting, taskVars, jobVars, calls, crashes, announced, last, adrift>>

\* The last attempt failed, or any attempt met an error that no repetition can
\* mend (a missing recording, no speech, a provider's bad_input).
FailJob(w) ==
    /\ run[w].pc \in MayFail
    /\ Go(w, [Idle EXCEPT !.job = run[w].job, !.pc = "told"])
    /\ \/ /\ Fault(w, 1)
          /\ row' = [row EXCEPT ![run[w].job] = "failed"]
          /\ UNCHANGED adrift
       \/ /\ Fault(w, 2)                 \* .catch(() => {})
          /\ adrift' = adrift \cup {"unwritten"}
          /\ UNCHANGED row
    /\ UNCHANGED <<meeting, taskVars, name, entry, attempts, stalls, calls,
                   crashes, announced, last>>

FailedStatusAny(w) == "failed"

\* What a job that failed for good does to its meeting.
FailedStatus(w) == IF NameOf(w) \in Processing THEN "failed" ELSE meeting

FailMeeting(w) ==
    /\ At(w, "told")
    /\ \/ /\ meeting' = FailedStatus(w)
          /\ UNCHANGED <<faults, adrift>>
       \/ /\ faults < MaxFaults          \* .catch(() => {})
          /\ faults' = faults + 1
          /\ adrift' = adrift \cup {"unwritten"}
          /\ UNCHANGED meeting
    /\ entry' = [entry EXCEPT ![run[w].job] = "failed"]
    /\ last' = Ended(w, "failed")
    /\ Go(w, Idle)
    /\ UNCHANGED <<taskVars, name, row, attempts, stalls, calls, crashes, announced>>

\* The row is marked before the attempt is guarded: an error there is BullMQ's
\* alone, neither the row nor the meeting hears of it.
MarkFails(w) ==
    /\ At(w, "mark")
    /\ faults < MaxFaults
    /\ faults' = faults + 1
    /\ IF LastAttempt(w)
       THEN /\ entry' = [entry EXCEPT ![run[w].job] = "failed"]
            /\ adrift' = adrift \cup {"unwritten"}
            /\ UNCHANGED attempts
       ELSE /\ entry' = [entry EXCEPT ![run[w].job] = "waiting"]
            /\ attempts' = [attempts EXCEPT ![run[w].job] = @ + 1]
            /\ UNCHANGED adrift
    /\ Go(w, Idle)
    /\ UNCHANGED <<meeting, taskVars, name, row, stalls, calls, crashes, announced, last>>

\* The worker's process dies: its transaction, if any, is rolled back.
Crash(w) ==
    /\ run[w] # Idle
    /\ crashes < MaxCrashes
    /\ crashes' = crashes + 1
    /\ Go(w, Idle)
    /\ UNCHANGED <<meeting, taskVars, jobVars, calls, faults, announced, last, adrift>>

\* An active job whose lock nobody renews is taken again, MaxStalls times; then
\* BullMQ fails it and no code of the program runs.
Stalled(j) ==
    /\ entry[j] = "active"
    /\ \A w \in Workers : run[w].job # j
    /\ stalls' = [stalls EXCEPT ![j] = @ + 1]
    /\ IF stalls[j] < MaxStalls
       THEN /\ entry' = [entry EXCEPT ![j] = "waiting"]
            /\ UNCHANGED adrift
       ELSE /\ entry' = [entry EXCEPT ![j] = "failed"]
            /\ adrift' = adrift \cup {"stalled"}
    /\ UNCHANGED <<meeting, taskVars, name, row, attempts, run, bounds, announced, last>>

-----------------------------------------------------------------------------
(* People and their tasks *)

Call == calls < MaxCalls /\ calls' = calls + 1

CreateItem(t) ==
    /\ Call
    /\ LET id == <<t, created[t]>>
       IN  items' = [i \in DOMAIN items \cup {id} |->
                       IF i = id THEN [orig |-> t, title |-> t, origin |-> "user",
                                       edited |-> TRUE, done |-> FALSE,
                                       nth |-> created[t]]
                       ELSE items[i]]
    /\ created' = [created EXCEPT ![t] = @ + 1]
    /\ UNCHANGED <<meeting, summary, jobVars, run, faults, crashes, announced,
                   last, adrift>>

\* Rows locked by a merge make the update wait.
Rename(i, t) ==
    /\ Call /\ i \notin Locked
    /\ items' = [items EXCEPT ![i].title = t, ![i].edited = TRUE]
    /\ UNCHANGED <<meeting, created, summary, jobVars, run, faults, crashes, announced,
                   last, adrift>>

SetDone(i, done) ==
    /\ Call /\ i \notin Locked
    /\ items' = [items EXCEPT ![i].done = done]
    /\ UNCHANGED <<meeting, created, summary, jobVars, run, faults, crashes, announced,
                   last, adrift>>

DeleteItem(i) ==
    /\ Call /\ i \notin Locked
    /\ items' = Restrict(items, DOMAIN items \ {i})
    /\ UNCHANGED <<meeting, created, summary, jobVars, run, faults, crashes, announced,
                   last, adrift>>

-----------------------------------------------------------------------------
Work(w) ==
    \/ Take(w) \/ MarkActive(w) \/ Load(w) \/ Transcribe(w) \/ ImportArtifacts(w)
    \/ Summarize(w) \/ PlanMerge(w) \/ LockRows(w) \/ Persist(w) \/ Announce(w)
    \/ CompleteJob(w) \/ Ack(w) \/ FailMeeting(w)

People ==
    \/ \E t \in Titles : CreateItem(t)
    \/ \E i \in DOMAIN items :
          \/ \E t \in Titles : Rename(i, t)
          \/ \E done \in BOOLEAN : SetDone(i, done)
          \/ DeleteItem(i)

Faulty(w) == Retry(w) \/ FailJob(w) \/ MarkFails(w) \/ Crash(w)

Next ==
    \/ \E j \in Jobs : (\E n \in Requests : Request(j, n)) \/ Stalled(j)
    \/ \E w \in Workers : Work(w) \/ Faulty(w)
    \/ People

Spec == Init /\ [][Next]_vars

-----------------------------------------------------------------------------
(* Properties *)

\* No job has anything left to do.
Quiet == \A j \in Jobs : entry[j] \notin {"waiting", "active"}

\* What people did to a task is never undone by a job: a task they created,
\* edited or completed changes only by a further call of theirs, whatever the
\* model generated and however many attempts the job took.
UserWorkKept ==
    [][\A i \in DOMAIN items :
          /\ items[i].edited \/ items[i].done \/ items[i].origin = "user"
          /\ calls' = calls
          => i \in DOMAIN items' /\ items'[i] = items[i]]_vars

\* However often a meeting is processed, generation never leaves two tasks of
\* its own for one title: the second of a pair was typed in by somebody.
OneTaskPerTitle ==
    \A i, k \in DOMAIN items :
        i # k /\ items[i].orig = items[k].orig
            => "user" \in {items[i].origin, items[k].origin}

\* Each creation of a task is announced at most once, over retries, stalls and
\* re-runs; a task that is created again, under its old id, is announced again.
AnnouncedOnce == \A c \in DOMAIN announced : announced[c] <= 1

\* Once no job is left, the meeting shows how the last of its processing jobs
\* ended, unless a listed accident left it without one that could say so.
ShowsTheOutcome ==
    Quiet /\ adrift = {} /\ last # "none" => meeting = last

\* A finished job's row says what BullMQ says of it.
RowsAgree ==
    adrift = {} =>
        \A j \in Jobs : entry[j] \in {"completed", "failed"} => row[j] = entry[j]

-----------------------------------------------------------------------------
(* What does not hold *)

\* A meeting without a job left is not shown as in progress.
NeverLeftInProgress == Quiet => meeting \in Settled

\* A generated task that is still there has been announced.
AllAnnounced ==
    Quiet => \A i \in DOMAIN items :
                items[i].origin = "ai" => <<i, items[i].nth>> \in DOMAIN announced

\* No id is announced twice: a task that somebody deleted, or that one answer of
\* the model left out, is generated again under the id that was announced.
AnnouncedOncePerId ==
    AnnouncedOnce /\ \A c, d \in DOMAIN announced : c[1] = d[1] => c = d
=============================================================================
