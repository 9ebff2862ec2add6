---------------------------- MODULE CaptureIngest ----------------------------
(***************************************************************************)
(* Uploads of one capture to POST /api/desktop-capture/ingest (route.ts,   *)
(* lib/capture/desktop-upload.ts, enqueueJob of lib/jobs/queue.ts): the    *)
(* file is streamed to the object store, the capture's meeting is created  *)
(* unless it is there, the object becomes its asset, and a job is recorded *)
(* and put in the queue.  The client sends the capture again until it is   *)
(* answered, and its earlier request may still be running then.            *)
(***************************************************************************)
EXTENDS Naturals, FiniteSets

CONSTANTS
  Requests, NoRequest,  \* uploads of the capture, an object's name being its request
  MaxAccidents          \* bound: queries that fail, adds the queue does not take in time, servers that die

ASSUME IngestAssumption ==
  /\ NoRequest \notin Requests
  /\ MaxAccidents \in Nat

VARIABLES
  meeting,  \* the capture's meeting: which of those created so far, 0 for none
  born,     \* meetings created
  filled,   \* it has a transcript or a summary
  asset,    \* the object its media asset names
  objects,  \* objects in the store
  record,   \* the jobs row of each request
  queued,   \* jobs that are in the queue or were
  req,      \* where each request is
  target,   \* the uploads name a meeting that exists (targetMeetingId)
  overlap,  \* two uploads ran at the same time
  faults, crashes

vars == <<meeting, born, filled, asset, objects, record, queued, req, target, overlap, faults, crashes>>

place == <<meeting, born, filled>>
media == <<asset, objects>>
jobs == <<record, queued>>
ghosts == <<target, overlap, faults, crashes>>

Object == Requests \cup {NoRequest}

Record == [st : {"none", "queued", "failed", "done"}, of : Nat, asset : Object,
           add : {"due", "lost", "never"}]  \* its request adds it, gave the add up, did not come to it

Places == {"new", "meeting", "find", "reuse", "asset", "promote", "record", "add", "error",
           "discard", "cleanup", "answered", "refused", "dead"}

Request == [at : Places, file : {"none", "stored", "skipped"},
            mine : BOOLEAN,   \* it created the meeting
            of : Nat,         \* the meeting it writes to
            asset : Object,   \* the asset it found or created
            cut : BOOLEAN]    \* it created one and does not know

TypeOK ==
  /\ meeting \in Nat /\ born \in Nat /\ meeting <= born /\ filled \in BOOLEAN
  /\ asset \in Object /\ objects \subseteq Requests
  /\ record \in [Requests -> Record] /\ queued \subseteq Requests
  /\ req \in [Requests -> Request]
  /\ target \in BOOLEAN /\ overlap \in BOOLEAN
  /\ faults \in Nat /\ crashes \in Nat
  /\ asset # NoRequest => meeting # 0

NoRecord == [st |-> "none", of |-> 0, asset |-> NoRequest, add |-> "due"]

Init ==
  /\ target \in BOOLEAN
  /\ born = (IF target THEN 1 ELSE 0) /\ meeting = born /\ filled = FALSE
  /\ asset = NoRequest /\ objects = {}
  /\ record = [r \in Requests |-> NoRecord] /\ queued = {}
  /\ req = [r \in Requests |-> [at |-> "new", file |-> "none", mine |-> FALSE, of |-> 0,
                               asset |-> NoRequest, cut |-> FALSE]]
  /\ overlap = FALSE /\ faults = 0 /\ crashes = 0

At(r, where) == req[r].at = where

Goto(r, where) == req' = [req EXCEPT ![r].at = where]

Running == {r \in Requests : req[r].at \notin {"new", "answered", "refused", "dead"}}

Fault == faults + crashes < MaxAccidents /\ faults' = faults + 1 /\ UNCHANGED <<target, overlap, crashes>>

Answered == {r \in Requests : At(r, "answered")}

(* The client sends the capture until it reads an answer, which may be lost.*)
(* resolveKeyPrefix drains a file whose asset is already there.             *)
Arrive(r) ==
  LET stored == asset # NoRequest IN
  /\ At(r, "new")
  /\ objects' = IF stored THEN objects ELSE objects \cup {r}
  /\ req' = [req EXCEPT ![r].at = "meeting", ![r].file = IF stored THEN "skipped" ELSE "stored"]
  /\ overlap' = (overlap \/ Running # {})
  /\ UNCHANGED <<place, asset, jobs, target, faults, crashes>>

(* Mutant: every upload that comes before the first is stored makes its own *)
(* meeting: no unique (workspace_id, external_source, external_id).         *)
MeetingAnew(r) ==
  /\ At(r, "meeting")
  /\ born' = born + 1 /\ meeting' = born' /\ filled' = FALSE /\ asset' = NoRequest
  /\ req' = [req EXCEPT ![r].at = "find", ![r].mine = TRUE, ![r].of = meeting']
  /\ UNCHANGED <<objects, jobs, ghosts>>

(* createMeetingIfAbsent, or the target.                                    *)
Meeting(r) ==
  /\ At(r, "meeting")
  /\ IF meeting # 0 THEN UNCHANGED place ELSE born' = born + 1 /\ meeting' = born' /\ filled' = FALSE
  /\ req' = [req EXCEPT ![r].at = "find", ![r].mine = meeting = 0, ![r].of = meeting']
  /\ UNCHANGED <<media, jobs, ghosts>>

(* The capture's asset of that meeting: an upload that finds it drops its   *)
(* own object.                                                              *)
Visible(r) == meeting = req[r].of

Find(r) ==
  /\ At(r, "find")
  /\ \/ /\ Visible(r) /\ asset # NoRequest
        /\ objects' = IF req[r].file = "stored" THEN objects \ {r} ELSE objects
        /\ req' = [req EXCEPT ![r].at = "reuse", ![r].asset = asset]
     \/ /\ ~Visible(r) \/ asset = NoRequest
        /\ Goto(r, IF req[r].file = "stored" THEN "asset" ELSE "error")
        /\ UNCHANGED objects
  /\ UNCHANGED <<place, asset, jobs, ghosts>>

(* Mutant: the job of an earlier upload is not looked for.                  *)
ReusableNone(r) == FALSE

(* Mutant: a row that was closed because its add was lost is reused too.    *)
ReusableAny(r) == \E q \in Requests : record[q].of = req[r].of /\ record[q].asset = req[r].asset

(* findReusableJob: a job of the meeting for the asset that has not failed. *)
Reusable(r) == \E q \in Requests : /\ record[q].of = req[r].of /\ record[q].asset = req[r].asset
                                   /\ record[q].st \in {"queued", "done"}

Reuse(r) ==
  /\ At(r, "reuse")
  /\ Goto(r, IF Visible(r) /\ Reusable(r) THEN "answered" ELSE "record")
  /\ UNCHANGED <<place, media, jobs, ghosts>>

(* createMediaAsset: one asset of a capture in a meeting, or an error, ...  *)
Asset(r) ==
  /\ At(r, "asset")
  /\ IF Visible(r) /\ asset = NoRequest
     THEN asset' = r /\ Goto(r, "promote")
     ELSE UNCHANGED asset /\ Goto(r, "error")
  /\ UNCHANGED <<place, objects, jobs, ghosts>>

(* ... and the meeting's status.                                            *)
Promote(r) ==
  /\ At(r, "promote")
  /\ req' = [req EXCEPT ![r].at = "record", ![r].asset = r]
  /\ UNCHANGED <<place, media, jobs, ghosts>>

(* When that fails the row is there, and the request does not know.         *)
PromoteFails(r) ==
  /\ At(r, "promote") /\ Fault
  /\ req' = [req EXCEPT ![r].at = "error", ![r].cut = TRUE]
  /\ UNCHANGED <<place, media, jobs>>

(* enqueueJob: the row, which names the meeting if that exists, ...         *)
RecordJob(r) ==
  /\ At(r, "record")
  /\ \E add \in {"due", "never"} :
        /\ record' = [record EXCEPT ![r] = [st |-> "queued", of |-> IF Visible(r) THEN req[r].of ELSE 0,
                                           asset |-> req[r].asset, add |-> add]]
        /\ \/ add = "due" /\ Goto(r, "add") /\ UNCHANGED ghosts
           \/ add = "never" /\ Goto(r, "error") /\ Fault  \* persistJobWorkspace threw
  /\ UNCHANGED <<place, media, queued>>

(* ... then the queue,                                                      *)
Add(r) ==
  /\ At(r, "add")
  /\ queued' = queued \cup {r}
  /\ Goto(r, "answered")
  /\ UNCHANGED <<place, media, record, ghosts>>

(* ... which may not answer in time: the row is closed, if that succeeds.   *)
AddFails(r) ==
  /\ At(r, "add") /\ Fault
  /\ \E st \in {"queued", "failed"} : record' = [record EXCEPT ![r].st = st, ![r].add = "lost"]
  /\ Goto(r, "error")
  /\ UNCHANGED <<place, media, queued>>

(* A query that fails before it wrote anything, or, of those that make the  *)
(* meeting, one after the insert.                                           *)
Fails(r) ==
  /\ req[r].at \in {"meeting", "find", "reuse", "asset", "record"} /\ Fault
  /\ \/ UNCHANGED place
     \/ At(r, "meeting") /\ meeting = 0 /\ born' = born + 1 /\ meeting' = born' /\ filled' = FALSE
  /\ Goto(r, "error")
  /\ UNCHANGED <<media, jobs>>

(* An add that was given up may reach Redis all the same.                   *)
AddLate(r) ==
  /\ record[r].add = "lost" /\ r \notin queued
  /\ queued' = queued \cup {r}
  /\ UNCHANGED <<place, media, record, req, ghosts>>

(* Mutant: the object of a failed upload is left in the store.              *)
ErrorLeaving(r) ==
  /\ At(r, "error")
  /\ Goto(r, IF req[r].mine THEN "discard" ELSE "refused")
  /\ UNCHANGED <<place, media, jobs, ghosts>>

(* An object no asset names goes; a meeting of this request's making too.   *)
Error(r) ==
  /\ At(r, "error")
  /\ objects' = IF req[r].asset = NoRequest THEN objects \ {r} ELSE objects
  /\ Goto(r, IF req[r].mine THEN "discard" ELSE "refused")
  /\ UNCHANGED <<place, asset, jobs, ghosts>>

(* discardMeeting, which spares one with a transcript or a summary, ...     *)
Discard(r) ==
  /\ At(r, "discard")
  /\ IF Visible(r) /\ ~filled
     THEN /\ meeting' = 0 /\ asset' = NoRequest
          /\ record' = [q \in Requests |-> IF record[q].of = meeting THEN [record[q] EXCEPT !.of = 0] ELSE record[q]]
          /\ Goto(r, "cleanup")
     ELSE UNCHANGED <<meeting, asset, record>> /\ Goto(r, "refused")
  /\ UNCHANGED <<born, filled, objects, queued, ghosts>>

(* ... a failing one being swallowed, ...                                   *)
DiscardFails(r) ==
  /\ At(r, "discard") /\ Fault
  /\ Goto(r, "refused")
  /\ UNCHANGED <<place, media, jobs>>

(* ... and then the object.                                                 *)
Cleanup(r) ==
  /\ At(r, "cleanup")
  /\ objects' = objects \ {r}
  /\ Goto(r, "refused")
  /\ UNCHANGED <<place, asset, jobs, ghosts>>

Crash(r) ==
  /\ r \in Running /\ faults + crashes < MaxAccidents /\ crashes' = crashes + 1
  /\ Goto(r, "dead")
  /\ UNCHANGED <<place, media, jobs, target, overlap, faults>>

(* The worker: a job whose meeting and media are there fills the meeting;   *)
(* its row is active, then done, whatever it was.                           *)
Process(r) ==
  /\ r \in queued /\ record[r].st # "done"
  /\ record[r].of = meeting /\ asset = record[r].asset /\ asset \in objects
  /\ filled' = TRUE
  /\ record' = [record EXCEPT ![r].st = "done"]
  /\ UNCHANGED <<meeting, born, media, queued, req, ghosts>>

Step(r) ==
  \/ Arrive(r) \/ Meeting(r) \/ Find(r) \/ Reuse(r) \/ Asset(r) \/ Promote(r) \/ PromoteFails(r)
  \/ RecordJob(r) \/ Add(r) \/ AddFails(r) \/ Fails(r)
  \/ Error(r) \/ Discard(r) \/ DiscardFails(r) \/ Cleanup(r)

Next == \E r \in Requests : Step(r) \/ AddLate(r) \/ Crash(r) \/ Process(r)

Spec == Init /\ [][Next]_vars

FairSpec == Spec /\ \A r \in Requests : WF_vars(Step(r)) /\ WF_vars(Process(r))

-----------------------------------------------------------------------------
(* What holds unless uploads overlap, or, if they name a meeting, anyway.   *)
Apart == ~overlap \/ target

(* The asset's row was inserted by a request that was told it was not, and  *)
(* so deletes the object (desktop-upload.ts, line 244).                     *)
Hollow == asset # NoRequest /\ req[asset].cut

(* A row of the meeting still says queued whose request gave up before the  *)
(* queue had the job (jobs/queue.ts, lines 260 and 280).                    *)
Adrift == \E q \in Requests \ queued : record[q].st = "queued" /\ record[q].add # "due" /\ record[q].of = meeting

(* An upload answered with a 2xx, after which the client deletes its copy,  *)
(* is in the store, as the asset of the meeting it was answered with.       *)
AnsweredIsStored ==
  (Apart /\ ~Hollow) => \A r \in Answered : meeting = req[r].of /\ asset = req[r].asset /\ asset \in objects

(* And a job will process it, unless a server died before it queued one or  *)
(* a row could not be closed.                                               *)
AnsweredIsQueued ==
  (~overlap /\ crashes = 0 /\ ~Adrift) =>
    \A r \in Answered : \E q \in queued : record[q].of = req[r].of /\ record[q].asset = req[r].asset

(* Retries record one job for a capture that has not failed: spooled        *)
(* retries never duplicate jobs (route.ts, lines 65-67).                    *)
Live(q) == record[q].st \in {"queued", "done"}

OneJob ==
  (~overlap /\ faults = 0) => Cardinality({q \in queued : Live(q)}) <= 1

(* Every object in the store is named by the asset or belongs to an upload  *)
(* that is running, or to one whose server died.                            *)
NoOrphan == Apart => \A r \in objects : asset = r \/ r \in Running \/ At(r, "dead")

(* A meeting with a transcript is never discarded, whoever fills it while   *)
(* the request that made it fails.                                          *)
FilledStays == [][filled /\ meeting # 0 => meeting' = meeting]_vars

(* A capture that is sent again and again is answered in the end, and then  *)
(* processed, if no server dies and no failure is swallowed.                *)
Processed == (Answered # {} /\ ~overlap /\ crashes = 0 /\ ~Hollow /\ ~Adrift) ~> filled

-----------------------------------------------------------------------------
(* What does not hold.                                                      *)

(* The row createMediaAsset left behind a deleted object answers a retry,   *)
(* after which the client deletes its copy.                                 *)
AnsweredIsSomewhere == ~overlap => \A r \in Answered : asset \in objects

(* Overlapping uploads of one capture: both look for the job before either  *)
(* records one.                                                             *)
NeverTwoJobs == faults = 0 => Cardinality({q \in queued : Live(q)}) <= 1

(* And the one that made the meeting discards it, on the unique violation   *)
(* of its own asset, with the asset of the one that was answered.           *)
AnsweredIsKept == \A r \in Answered : meeting = req[r].of /\ asset \in objects

(* A row that says queued, whose server died before the add or could not    *)
(* close it after a lost one, answers the retry; nothing adds the job.      *)
AnsweredIsProcessed == Answered # {} ~> filled
=============================================================================
