----------------------------- MODULE BotFinalize -----------------------------
(***************************************************************************)
(* Importing the recording of one completed bot session (lib/bot:          *)
(* finalize, retention, and the parts of lifecycle, reconcile and worker   *)
(* that lead to it).                                                       *)
(*                                                                         *)
(* The job bot.finalize:<session> is added by a webhook, a poll, or the    *)
(* sweep of reconcile.  A run of it claims the session under a row lock,   *)
(* locates the recording at Vexa, streams it into the object store,        *)
(* creates a media asset, and enqueues media.ingest in a transaction that  *)
(* checks the session again.  BullMQ retries a run that threw and hands    *)
(* the job to another worker when its lock runs out, whether or not the    *)
(* first worker is dead.  A claim is given up for lost after 35 minutes.   *)
(* Every call of a run may fail, the ones of its error paths included,     *)
(* whose failures the code swallows.                                       *)
(***************************************************************************)
EXTENDS Naturals, FiniteSets

CONSTANTS
  Runs, NoRun,   \* workers that may run the job, and "nobody"
  Attempts,      \* MEETSUM_BOT_FINALIZE_ATTEMPTS
  MaxStalled,    \* BullMQ: how often a job may lose its lock
  MaxCrashes,    \* bound: runs that die
  MaxFaults,     \* bound: calls that fail
  MaxZombies     \* bound: runs that lose their lock and live on

ASSUME FinalizeAssumption ==
  /\ NoRun \notin Runs
  /\ Attempts \in Nat \ {0} /\ MaxStalled \in Nat
  /\ MaxCrashes \in Nat /\ MaxFaults \in Nat /\ MaxZombies \in Nat

VARIABLES
  rec,        \* bot_sessions.recording_status
  fresh,      \* the claim `importing` is younger than STALE_CLAIM_MS
  ingestJob,  \* bot_sessions.ingest_job_id is set
  locker,     \* the run whose transaction holds the row
  meeting,    \* the meeting's status
  assets,     \* media assets of the recording
  objects,    \* copies of it in the object store
  hollow,     \* assets among them whose object was deleted again
  leaked,     \* objects without an asset whose deletion failed
  vexa,       \* the recording at Vexa
  ingest,     \* the job media.ingest:bot:<session>
  ingests,    \* how many of them were added
  job,        \* the job bot.finalize:<session>
  run,        \* where each run is
  takeovers,  \* claims taken from a run that was alive
  crashes, faults, zombies

vars == <<rec, fresh, ingestJob, locker, meeting, assets, objects, hollow, leaked, vexa,
          ingest, ingests, job, run, takeovers, crashes, faults, zombies>>

session == <<rec, fresh, ingestJob>>
store == <<meeting, assets, objects, hollow, leaked>>
budgets == <<takeovers, crashes, faults, zombies>>

RecordingStatuses == {"none", "pending", "importing", "imported", "missing", "failed"}

Settled == {"imported", "missing", "failed"}

Job == [st : {"none", "waiting", "active", "done", "failed"},
        made : 0..Attempts, stalls : 0..MaxStalled,
        by : Runs \cup {NoRun},
        cut : BOOLEAN]  \* the last attempt ended without writing its answer

Places == {"idle", "load", "meeting", "gone", "claim", "locate", "missing", "find",
           "stream", "look", "mark", "asset", "promote", "half", "undo", "check", "commit",
           "fail", "busy"}

Run == [at : Places, final : BOOLEAN, scheduled : BOOLEAN,
        why : {"none", "pending", "error", "permanent"}]

TypeOK ==
  /\ rec \in RecordingStatuses /\ fresh \in BOOLEAN /\ ingestJob \in BOOLEAN
  /\ locker \in Runs \cup {NoRun}
  /\ meeting \in {"scheduled", "media_found", "media_uploaded", "processed", "deleted"}
  /\ assets \in Nat /\ objects \in Nat /\ hollow \in 0..assets /\ leaked \in 0..faults
  /\ vexa \in {"unknown", "absent", "present", "purged"}
  /\ ingest \in {"none", "queued", "done"} /\ ingests \in Nat
  /\ job \in Job
  /\ run \in [Runs -> Run]
  /\ takeovers \in Nat
  /\ crashes \in 0..MaxCrashes /\ faults \in 0..MaxFaults /\ zombies \in 0..MaxZombies

Idle == [at |-> "idle", final |-> FALSE, scheduled |-> FALSE, why |-> "none"]

NoJob == [st |-> "none", made |-> 0, stalls |-> 0, by |-> NoRun, cut |-> FALSE]

Init ==
  /\ rec = "none" /\ fresh = FALSE /\ ingestJob = FALSE
  /\ locker = NoRun
  /\ meeting \in {"scheduled", "processed"}
  /\ assets = 0 /\ objects = 0 /\ hollow = 0 /\ leaked = 0
  /\ vexa \in {"unknown", "absent", "present"}
  /\ ingest = "none" /\ ingests = 0
  /\ job = NoJob
  /\ run = [w \in Runs |-> Idle]
  /\ takeovers = 0 /\ crashes = 0 /\ faults = 0 /\ zombies = 0

At(w, place) == run[w].at = place

Goto(w, place) == run' = [run EXCEPT ![w].at = place]

Throw(w, why) == run' = [run EXCEPT ![w].at = "fail", ![w].why = why]

Fault == faults < MaxFaults /\ faults' = faults + 1 /\ UNCHANGED <<takeovers, crashes, zombies>>

(* store.update touches updated_at, so only a claim just written is fresh.  *)
SetRec(status) == rec' = status /\ fresh' = (status = "importing")

(* A statement on the row waits for the transaction that holds it.          *)
Unlocked == locker = NoRun

Alive(w) == ~At(w, "idle")

-----------------------------------------------------------------------------
(* The job.  An id that exists, finished or not, makes an add a no-op.      *)

(* Webhook, poll (pendingBotSideEffects) and sweep ask while nothing ran.   *)
Ask ==
  /\ rec = "none" /\ job.st = "none"
  /\ job' = [job EXCEPT !.st = "waiting"]
  /\ UNCHANGED <<session, locker, store, vexa, ingest, ingests, run, budgets>>

(* The back-off before a last attempt, 32 minutes after at least 15 of lock, *)
(* outlasts the claim of a run that died in an earlier attempt, but not the  *)
(* one of a run that just failed to give it up.                              *)
BackoffOver == (job.made > 0 /\ job.made + 1 = Attempts /\ ~job.cut) => ~(rec = "importing" /\ fresh)

Take(w) ==
  /\ job.st = "waiting" /\ At(w, "idle") /\ BackoffOver
  /\ job' = [job EXCEPT !.st = "active", !.by = w]
  /\ run' = [run EXCEPT ![w] = [Idle EXCEPT !.at = "load", !.final = job.made + 1 >= Attempts]]
  /\ UNCHANGED <<session, locker, store, vexa, ingest, ingests, budgets>>

(* The worker reports to the queue, which listens to the owner of the lock. *)
Complete(w) ==
  job' = IF job.by = w THEN [job EXCEPT !.st = "done", !.by = NoRun] ELSE job

Retry(w, permanent, silent) ==
  job' = IF job.by # w THEN job
         ELSE [job EXCEPT !.st = IF permanent \/ run[w].final THEN "failed" ELSE "waiting",
                          !.made = @ + 1, !.by = NoRun, !.cut = silent]

Stop(w) == run' = [run EXCEPT ![w] = Idle]

Crash(w) ==
  /\ Alive(w) /\ crashes < MaxCrashes
  /\ crashes' = crashes + 1
  /\ Stop(w)
  /\ locker' = IF locker = w THEN NoRun ELSE locker
  /\ job' = IF job.by = w THEN [job EXCEPT !.by = NoRun, !.cut = run[w].final] ELSE job
  /\ UNCHANGED <<session, store, vexa, ingest, ingests, takeovers, faults, zombies>>

(* The lock ran out: its owner is dead, or cut off from Redis and alive.    *)
Stall ==
  /\ job.st = "active"
  /\ \/ job.by = NoRun /\ UNCHANGED zombies
     \/ job.by # NoRun /\ zombies < MaxZombies /\ zombies' = zombies + 1
  /\ LET lost == [job EXCEPT !.by = NoRun,
                            !.cut = IF job.by = NoRun THEN @ ELSE run[job.by].final]
     IN job' = IF job.stalls < MaxStalled
               THEN [lost EXCEPT !.st = "waiting", !.stalls = @ + 1]
               ELSE [lost EXCEPT !.st = "failed"]
  /\ UNCHANGED <<session, locker, store, vexa, ingest, ingests, run, takeovers, crashes, faults>>

-----------------------------------------------------------------------------
(* finalizeBotSession                                                       *)

(* The session; an error here is thrown before any claim.                   *)
Load(w) ==
  /\ At(w, "load")
  /\ \/ rec = "imported" /\ ingestJob /\ Stop(w) /\ Complete(w) /\ UNCHANGED budgets
     \/ ~(rec = "imported" /\ ingestJob) /\ Goto(w, "meeting") /\ UNCHANGED <<job, budgets>>
     \/ Fault /\ Goto(w, "busy") /\ UNCHANGED job
  /\ UNCHANGED <<session, locker, store, vexa, ingest, ingests>>

ReadMeeting(w) ==
  /\ At(w, "meeting")
  /\ Goto(w, IF meeting = "deleted" THEN "gone" ELSE "claim")
  /\ UNCHANGED <<session, locker, store, vexa, ingest, ingests, job, budgets>>

Gone(w) ==
  /\ At(w, "gone") /\ Unlocked
  /\ SetRec("missing") /\ Stop(w) /\ Complete(w)
  /\ UNCHANGED <<ingestJob, locker, store, vexa, ingest, ingests, budgets>>

(* Places of a run that holds a claim, as long as nobody took it over.      *)
Importing == {"locate", "missing", "find", "stream", "look", "mark", "asset", "promote",
              "half", "undo", "check", "commit", "fail"}

Claimable == ~(rec = "imported" /\ ingestJob) /\ ~(rec = "importing" /\ fresh)

Claim(w) ==
  /\ At(w, "claim") /\ Unlocked
  /\ \/ /\ rec = "imported" /\ ingestJob
        /\ Stop(w) /\ Complete(w) /\ UNCHANGED <<session, budgets>>
     \/ /\ Claimable
        /\ SetRec("importing") /\ UNCHANGED ingestJob
        /\ takeovers' = IF rec = "importing" /\ ~fresh
                             /\ \E v \in Runs \ {w} : run[v].at \in Importing
                        THEN takeovers + 1 ELSE takeovers
        /\ Goto(w, "locate") /\ UNCHANGED <<job, crashes, faults, zombies>>
     \/ /\ ~Claimable /\ ~(rec = "imported" /\ ingestJob)
        /\ Goto(w, "busy") /\ UNCHANGED <<session, job, budgets>>
  /\ UNCHANGED <<locker, store, vexa, ingest, ingests>>

(* BotFinalizeBusyError, or an error before the claim: nothing is written.  *)
Busy(w) ==
  /\ At(w, "busy")
  /\ Stop(w) /\ Retry(w, FALSE, run[w].final)
  /\ UNCHANGED <<session, locker, store, vexa, ingest, ingests, budgets>>

(* importAndEnqueue: what Vexa has.  A purged meeting is a permanent error. *)
Locate(w) ==
  /\ At(w, "locate")
  /\ \/ /\ vexa \in {"unknown", "absent"}
        /\ IF run[w].final \/ vexa = "unknown" THEN Goto(w, "missing") ELSE Throw(w, "pending")
        /\ UNCHANGED budgets
     \/ vexa = "present" /\ Goto(w, "find") /\ UNCHANGED budgets
     \/ vexa = "purged" /\ Throw(w, "permanent") /\ UNCHANGED budgets
     \/ vexa # "unknown" /\ Fault /\ Throw(w, "error")
  /\ UNCHANGED <<session, locker, store, vexa, ingest, ingests, job>>

Missing(w) ==
  /\ At(w, "missing") /\ Unlocked
  /\ SetRec("missing") /\ Stop(w) /\ Complete(w)
  /\ UNCHANGED <<ingestJob, locker, store, vexa, ingest, ingests, budgets>>

(* Mutant: a retry imports again what an earlier attempt had stored.        *)
FindNothing(w) ==
  /\ At(w, "find")
  /\ Goto(w, "stream")
  /\ UNCHANGED <<session, locker, store, vexa, ingest, ingests, job, budgets>>

(* findMediaAssetBySourceFile                                               *)
Find(w) ==
  /\ At(w, "find")
  /\ Goto(w, IF assets > 0 THEN "check" ELSE "stream")
  /\ UNCHANGED <<session, locker, store, vexa, ingest, ingests, job, budgets>>

(* importRecording: stream into the store.  Too large or no media: for good. *)
Stream(w) ==
  /\ At(w, "stream")
  /\ \/ Goto(w, "look") /\ objects' = objects + 1 /\ UNCHANGED budgets
     \/ \E why \in {"error", "permanent"} : Fault /\ Throw(w, why) /\ UNCHANGED objects
  /\ UNCHANGED <<session, locker, meeting, assets, hollow, leaked, vexa, ingest, ingests, job>>

Look(w) ==
  /\ At(w, "look")
  /\ run' = [run EXCEPT ![w].at = IF meeting = "scheduled" THEN "mark" ELSE "asset"]
  /\ UNCHANGED <<session, locker, store, vexa, ingest, ingests, job, budgets>>

Mark(w) ==
  /\ At(w, "mark")
  /\ \/ /\ meeting # "deleted" /\ meeting' = "media_found" /\ Goto(w, "asset")
     \/ /\ meeting = "deleted" /\ Goto(w, "undo") /\ UNCHANGED meeting
  /\ UNCHANGED <<session, locker, assets, objects, hollow, leaked, vexa, ingest, ingests, job, budgets>>

(* createMediaAsset inserts the row; no unique index covers the source of   *)
(* bot recordings.                                                          *)
Asset(w) ==
  /\ At(w, "asset")
  /\ \/ /\ meeting # "deleted"
        /\ assets' = assets + 1
        /\ Goto(w, "promote") /\ UNCHANGED budgets
     \/ /\ meeting = "deleted" \/ faults < MaxFaults
        /\ IF meeting = "deleted" THEN UNCHANGED budgets ELSE Fault
        /\ Goto(w, "undo") /\ UNCHANGED assets
  /\ UNCHANGED <<session, locker, meeting, objects, hollow, leaked, vexa, ingest, ingests, job>>

(* createMediaAsset moves the meeting on, in a statement of its own.        *)
Promote(w) ==
  /\ At(w, "promote")
  /\ \/ /\ meeting' = IF meeting = "deleted" THEN meeting ELSE "media_uploaded"
        /\ Goto(w, "check") /\ UNCHANGED budgets
     \/ Fault /\ Goto(w, "half") /\ UNCHANGED meeting
  /\ UNCHANGED <<session, locker, assets, objects, hollow, leaked, vexa, ingest, ingests, job>>

(* The object goes although its asset was inserted, and the asset stays; or *)
(* the deletion fails, and the asset is whole after all.                    *)
Half(w) ==
  /\ At(w, "half")
  /\ \/ /\ IF meeting = "deleted" THEN UNCHANGED <<objects, hollow>>
           ELSE objects' = objects - 1 /\ hollow' = hollow + 1
        /\ UNCHANGED budgets
     \/ Fault /\ UNCHANGED <<objects, hollow>>
  /\ Throw(w, "error")
  /\ UNCHANGED <<session, locker, meeting, assets, leaked, vexa, ingest, ingests, job>>

(* Mutant: the stored object of a failed import is left behind.             *)
UndoNothing(w) ==
  /\ At(w, "undo")
  /\ Throw(w, "error")
  /\ UNCHANGED <<session, locker, store, vexa, ingest, ingests, job, budgets>>

(* A failing deletion is swallowed.                                         *)
Undo(w) ==
  /\ At(w, "undo")
  /\ \/ objects' = objects - 1 /\ UNCHANGED <<leaked, budgets>>
     \/ Fault /\ leaked' = leaked + 1 /\ UNCHANGED objects
  /\ Throw(w, "error")
  /\ UNCHANGED <<session, locker, meeting, assets, hollow, vexa, ingest, ingests, job>>

(* Mutant: the ingest is added under an id of its own.                      *)
AddIngestAnew == ingest' = "queued" /\ ingests' = ingests + 1

(* enqueueMeetSumJob under media.ingest:bot:<session>                       *)
AddIngest ==
  IF ingest = "none" THEN ingest' = "queued" /\ ingests' = ingests + 1
  ELSE UNCHANGED <<ingest, ingests>>

(* The transaction around the enqueue: check and add.  An add that timed    *)
(* out may still arrive.                                                    *)
Check(w) ==
  /\ At(w, "check") /\ Unlocked
  /\ \/ /\ ingestJob
        /\ Stop(w) /\ Complete(w) /\ UNCHANGED <<locker, ingest, ingests, budgets>>
     \/ /\ ~ingestJob
        /\ AddIngest /\ locker' = w
        /\ Goto(w, "commit") /\ UNCHANGED <<job, budgets>>
     \/ /\ ~ingestJob /\ Fault
        /\ AddIngest \/ UNCHANGED <<ingest, ingests>>
        /\ Throw(w, "error") /\ UNCHANGED <<locker, job>>
  /\ UNCHANGED <<session, store, vexa>>

(* The same transaction: record.  The session refers to the asset's row.    *)
Commit(w) ==
  /\ At(w, "commit")
  /\ locker' = NoRun
  /\ \/ /\ meeting # "deleted"
        /\ SetRec("imported") /\ ingestJob' = TRUE
        /\ Stop(w) /\ Complete(w)
     \/ /\ meeting = "deleted"
        /\ Throw(w, "error") /\ UNCHANGED <<session, job>>
  /\ UNCHANGED <<store, vexa, ingest, ingests, budgets>>

(* Mutant: the last attempt leaves what a next one would have tried again.  *)
VerdictOpen(w) == IF run[w].why = "permanent" THEN "failed" ELSE "pending"

(* What the catch clause writes, whatever the row says by then.             *)
Verdict(w) ==
  IF run[w].why = "permanent" \/ (run[w].why = "error" /\ run[w].final) THEN "failed" ELSE "pending"

(* A failing write is swallowed: the claim stays.                           *)
Fail(w) ==
  /\ At(w, "fail")
  /\ \/ /\ Unlocked
        /\ SetRec(Verdict(w))
        /\ Retry(w, run[w].why = "permanent", FALSE) /\ UNCHANGED budgets
     \/ /\ Fault
        /\ Retry(w, run[w].why = "permanent", TRUE) /\ UNCHANGED <<rec, fresh>>
  /\ Stop(w)
  /\ UNCHANGED <<ingestJob, locker, store, vexa, ingest, ingests>>

(* A statement on the database fails: before the claim the attempt ends as  *)
(* one that was refused, once the object is stored it is deleted again, and *)
(* the transaction of the ingest is rolled back.                            *)
StoreFails(w) ==
  /\ Fault
  /\ \/ run[w].at \in {"meeting", "gone", "claim"} /\ Goto(w, "busy")
     \/ run[w].at \in {"missing", "find", "commit"} /\ Throw(w, "error")
     \/ run[w].at \in {"look", "mark"} /\ Goto(w, "undo")
  /\ locker' = IF At(w, "commit") THEN NoRun ELSE locker
  /\ UNCHANGED <<session, store, vexa, ingest, ingests, job>>

-----------------------------------------------------------------------------
(* The surroundings                                                         *)

Age ==
  /\ rec = "importing" /\ fresh
  /\ fresh' = FALSE
  /\ UNCHANGED <<rec, ingestJob, locker, store, vexa, ingest, ingests, job, run, budgets>>

(* Vexa publishes the recording some time after the meeting.                *)
Publish ==
  /\ vexa = "absent" /\ vexa' = "present"
  /\ UNCHANGED <<session, locker, store, ingest, ingests, job, run, budgets>>

(* The pipeline runs the ingest and moves the meeting on.                   *)
Process ==
  /\ ingest = "queued" /\ ingest' = "done"
  /\ meeting' = IF meeting = "deleted" THEN meeting ELSE "processed"
  /\ UNCHANGED <<session, locker, assets, objects, hollow, leaked, vexa, ingests, job, run, budgets>>

(* A user deletes the meeting with its assets and their objects.            *)
DeleteMeeting ==
  /\ meeting # "deleted" /\ meeting' = "deleted"
  /\ assets' = 0 /\ hollow' = 0 /\ objects' = objects - (assets - hollow)
  /\ UNCHANGED <<session, locker, leaked, vexa, ingest, ingests, job, run, budgets>>

(* Mutant: a session whose import has not begun counts as one without.      *)
PurgeableEarly == rec \in {"imported", "missing", "failed", "none"}

(* listPurgeable, for a completed session with recording enabled.           *)
Purgeable == rec \in {"imported", "missing", "failed"}

(* runBotRetention, hours after the last attempt.                           *)
Purge ==
  /\ vexa \in {"absent", "present"} /\ Purgeable
  /\ job.st \in {"none", "done", "failed"} /\ \A w \in Runs : ~Alive(w)
  /\ vexa' = "purged"
  /\ UNCHANGED <<session, locker, store, ingest, ingests, job, run, budgets>>

Step(w) ==
  \/ Load(w) \/ ReadMeeting(w) \/ Gone(w) \/ Claim(w) \/ Busy(w)
  \/ Locate(w) \/ Missing(w) \/ Find(w) \/ Stream(w) \/ Look(w) \/ Mark(w) \/ Asset(w)
  \/ Promote(w) \/ Half(w) \/ Undo(w) \/ Check(w) \/ Commit(w) \/ Fail(w) \/ StoreFails(w)

Queue == Ask \/ Stall \/ \E w \in Runs : Take(w)

Next ==
  \/ Queue
  \/ \E w \in Runs : Step(w) \/ Crash(w)
  \/ Age \/ Publish \/ Process \/ DeleteMeeting \/ Purge

(* Workers, the queue and the sweep keep running; time passes.  Users, Vexa *)
(* and the retention owe nothing.                                           *)
Fairness ==
  /\ WF_vars(Ask) /\ WF_vars(\E w \in Runs : Take(w)) /\ WF_vars(Age)
  /\ WF_vars(job.by = NoRun /\ Stall)
  /\ \A w \in Runs : WF_vars(Step(w))

Spec == Init /\ [][Next]_vars

FairSpec == Spec /\ Fairness

-----------------------------------------------------------------------------
(* Two runs hold claims at once only after one was taken over: a claim      *)
(* younger than 35 minutes keeps everybody else out (finalize.ts:247-262).  *)
(* When the meeting is deleted a late run ends the claim of an importer.    *)
OneImporter ==
  meeting # "deleted" => Cardinality({w \in Runs : run[w].at \in Importing}) <= 1 + takeovers

(* A recording has one asset, and one more only for a run that was taken    *)
(* over while it was alive; no retry stores it again (finalize.ts:323).     *)
OneAsset == assets <= 1 + takeovers

(* The assets that still have their object.                                 *)
whole == assets - hollow

(* An object without an asset belongs to a run that is still at it, to one  *)
(* that died before it could create the asset or delete the object, or to a *)
(* deletion that failed (finalize.ts:461-464).                              *)
NoOrphan ==
  objects - whole <=
    crashes + leaked + Cardinality({w \in Runs : run[w].at \in {"look", "mark", "asset", "undo"}})

(* What Vexa erased is either in our store or was given up on, unless the   *)
(* user deleted the meeting (retention.ts:12-16), or an import that failed   *)
(* between its asset and the meeting's status deleted the object it had      *)
(* recorded.                                                                *)
NothingErasedUnheld ==
  vexa = "purged" /\ meeting # "deleted" =>
    whole > 0 \/ hollow > 0 \/ rec \in {"missing", "failed"}

(* A session that says `imported` says so until its meeting is deleted, as  *)
(* long as no claim was taken from a live run.                              *)
ImportedStays ==
  [][rec = "imported" => rec' = "imported" \/ meeting = "deleted" \/ takeovers > 0]_vars

(* The import never moves a meeting back that the pipeline has processed    *)
(* after its ingest, as long as no claim was taken from a live run.         *)
ProcessedStays ==
  [][ingest = "done" /\ meeting = "processed" =>
       meeting' \in {"processed", "deleted"} \/ takeovers > 0]_vars

(* Runs, crashes, take-overs and failures together behave as one ingest.    *)
Promise == INSTANCE IngestOnce WITH
  ingests <- ingests,
  answer <- IF ingestJob THEN "imported"
            ELSE IF rec \in {"missing", "failed"} THEN "given up" ELSE "open"

ImplementsIngestOnce == Promise!Spec

(* The recording of a completed session is imported, missing or failed in   *)
(* the end (finalize.ts:275), unless its last attempt died, threw before    *)
(* its claim or could not write its answer: nothing looks at such a session *)
(* again.  For runs that lose their lock only by dying, and no more often    *)
(* than the queue allows.                                                   *)
RecordingSettles ==
  <>[](\/ rec \in Settled
       \/ job.st = "failed" /\ job.cut
       \/ zombies > 0 \/ crashes > MaxStalled)

(* When the job is over the recording is imported, missing or failed, under *)
(* the conditions of RecordingSettles: no way out of a run, and no retry    *)
(* that the queue gives up, leaves a session that nobody looks at again.    *)
OverIsSettled ==
  job.st \in {"done", "failed"} =>
    \/ rec \in Settled
    \/ job.st = "failed" /\ job.cut
    \/ zombies > 0 \/ crashes > MaxStalled

(* What the proofs need besides.  The ingest is counted once, and is there   *)
(* before a run or the session says so.                                     *)
IngestCounted ==
  /\ ingests \in {0, 1} /\ (ingest = "none" <=> ingests = 0)
  /\ ingestJob => ingests = 1
  /\ \A w \in Runs : At(w, "commit") => ingests = 1

(* A run that enqueues an ingest, and a session that has one, hold an asset. *)
IngestHasAsset ==
  meeting # "deleted" =>
    /\ ingestJob => assets > 0
    /\ \A w \in Runs : run[w].at \in {"promote", "half", "check", "commit"} => assets > 0

ImportedIsRecorded == rec = "imported" => ingestJob

(* Vexa's copy is erased when nothing is left that could still import it.   *)
ErasedAtRest ==
  vexa = "purged" =>
    Purgeable /\ job.st \in {"none", "done", "failed"} /\ \A w \in Runs : ~Alive(w)

Typed ==
  /\ rec \in RecordingStatuses /\ fresh \in BOOLEAN /\ ingestJob \in BOOLEAN
  /\ assets \in Nat /\ hollow \in Nat /\ ingest \in {"none", "queued", "done"}
  /\ run \in [Runs -> Run]

ImportInv ==
  Typed /\ IngestCounted /\ IngestHasAsset /\ ImportedIsRecorded /\ ErasedAtRest

(* Refuted: every completed session settles.                                *)
AlwaysSettles == <>(rec \in Settled)

(* Refuted: `imported` is final.                                            *)
ImportedIsFinal ==
  [][rec = "imported" => rec' = "imported" \/ meeting = "deleted"]_vars

(* Refuted: what Vexa erased is in our store.                               *)
NothingErasedLost ==
  vexa = "purged" /\ meeting # "deleted" => whole > 0 \/ rec \in {"missing", "failed"}

(* Refuted: one asset per recording.                                        *)
OneAssetEver == assets <= 1
=============================================================================
