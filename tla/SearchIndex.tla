----------------------------- MODULE SearchIndex -----------------------------
(***************************************************************************)
(* Keeping the search index of a meeting up to date (lib/search/indexer,   *)
(* index-store, index-trigger, index-sweep).                               *)
(*                                                                         *)
(* An edit of the meeting is committed first, a rename of a speaker in two *)
(* statements without a transaction; then the meeting is marked            *)
(* (search_requested_at) and its one `meeting.index` job is added to the   *)
(* queue, where adding it again while it exists does nothing.  A run of    *)
(* the job reads the meeting in several queries, reads which vectors       *)
(* exist, embeds the others, and writes the index in one transaction.      *)
(* The sweeper queues the job of every meeting that looks stale.           *)
(*                                                                         *)
(* One meeting is modelled: meetings share nothing but the workers and the *)
(* sweeper's batch, which is assumed large enough.  Clocks are not         *)
(* modelled, only whether the mark is later than a run's start, on one     *)
(* clock: search_indexed_at is the start of the run that wrote the index.  *)
(***************************************************************************)
EXTENDS Naturals

CONSTANTS
  Workers, NoWorker,  \* processes that may run the job, and "nobody"
  Editors,            \* requests that change the meeting
  Notes,              \* values of what is indexed besides the transcript
  FirstNotes,         \* the value the meeting starts with
  StartTexts,         \* transcript versions it may start with: 0, no transcript
  NoText, NoDoc,      \* "no version indexed", "no chunks"
  HasVectors,         \* an embedding provider and the vector table exist
  MaxTries,           \* attempts of a job (MEETSUM_JOB_ATTEMPTS)
  Faults,             \* the kinds of AllFaults that may happen
  MaxFaults,          \* bound: how many of them
  MaxEdits            \* bound: edits

AllFaults == {"crash", "lock", "inline", "embed", "enqueue", "mark", "bump"}

ASSUME IndexAssumption ==
  /\ NoWorker \notin Workers
  /\ FirstNotes \in Notes
  /\ StartTexts \subseteq Nat
  /\ NoText \notin Nat
  /\ NoDoc \notin [text : Nat, notes : Notes]
  /\ HasVectors \in BOOLEAN
  /\ MaxTries \in Nat \ {0}
  /\ Faults \subseteq AllFaults
  /\ MaxFaults \in Nat /\ MaxEdits \in Nat

VARIABLES
  meeting,  \* what is to be indexed: transcript and its version, notes
  index,    \* search_* columns of the meeting, and its chunks
  vectors,  \* content hashes in meeting_chunk_embeddings
  job,      \* BullMQ: the job meeting.index-<id>
  run,      \* the run of each worker
  editor,   \* program counters of the requests
  faults, edits

vars == <<meeting, index, vectors, job, run, editor, faults, edits>>

Doc == [text : Nat, notes : Notes]

(* Content hashes: a transcript version and the notes make different chunks. *)
Hash == ({"text"} \X Nat) \cup ({"notes"} \X Notes)

Hashes(doc) ==
  {<<"notes", doc.notes>>} \cup (IF doc.text = 0 THEN {} ELSE {<<"text", doc.text>>})

Meeting == [alive : BOOLEAN, notes : Notes, summary : BOOLEAN,
            text : Nat,      \* the transcript's content, 0 if there is none
            version : Nat]   \* transcript_version

Index == [state : {"pending", "ready", "failed", "skipped"},
          mode : {"none", "lexical", "hybrid"},
          version : Nat \cup {NoText},
          chunks : Doc \cup {NoDoc},
          marked : BOOLEAN,    \* search_requested_at > search_indexed_at
          retry : BOOLEAN]     \* failed, and six hours have passed

Job == [st : {"none", "waiting", "active"}, tries : 0..(MaxTries - 1),
        by : Workers \cup {NoWorker}]

EditorPcs == {"idle", "bump", "mark", "enqueue"}

RunPcs == {"idle", "base", "parts", "have", "embed", "write", "skip", "fail"}

Run == [pc : RunPcs,
        version : Nat,         \* meeting.transcriptVersion as loaded
        doc : Doc,             \* the chunks built
        have : SUBSET Hash,    \* existingHashes
        made : SUBSET Hash,    \* hashes embedded by this run
        marked : BOOLEAN]      \* the meeting was marked since the run began

TypeOK ==
  /\ meeting \in Meeting
  /\ index \in Index
  /\ vectors \in SUBSET Hash
  /\ job \in Job
  /\ run \in [Workers -> Run]
  /\ editor \in [Editors -> EditorPcs]
  /\ faults \in 0..MaxFaults
  /\ edits \in 0..MaxEdits

Idle == [pc |-> "idle", version |-> 0, doc |-> [text |-> 0, notes |-> FirstNotes],
         have |-> {}, made |-> {}, marked |-> FALSE]

NoJob == [st |-> "none", tries |-> 0, by |-> NoWorker]

NoIndex == [state |-> "pending", mode |-> "none", version |-> NoText,
            chunks |-> NoDoc, marked |-> FALSE, retry |-> FALSE]

Init ==
  /\ \E text \in StartTexts :
       meeting = [alive |-> TRUE, notes |-> FirstNotes, summary |-> FALSE,
                  text |-> text, version |-> text]
  /\ index = NoIndex
  /\ vectors = {}
  /\ job = NoJob
  /\ run = [w \in Workers |-> Idle]
  /\ editor = [e \in Editors |-> "idle"]
  /\ faults = 0
  /\ edits = 0

Fault(kind) ==
  /\ kind \in Faults /\ faults < MaxFaults
  /\ faults' = faults + 1

-----------------------------------------------------------------------------
(* The queue.                                                               *)

Waiting(tries) == [st |-> "waiting", tries |-> tries, by |-> NoWorker]

AddJob == job' = IF job.st = "none" THEN Waiting(0) ELSE job

(* Mutant: the finished job is kept under its id.                           *)
CompleteAndKeep(w) ==
  job' = IF job.by = w THEN [job EXCEPT !.by = NoWorker] ELSE job

(* The job is removed when it is done; a worker that lost the lock of the   *)
(* job, or runs without one, does not touch it.                             *)
Complete(w) ==
  job' = IF job.by = w THEN NoJob ELSE job

Throw(w) ==
  job' = IF job.by # w THEN job
         ELSE IF job.tries + 1 < MaxTries THEN Waiting(job.tries + 1)
         ELSE NoJob

-----------------------------------------------------------------------------
(* An edit: commit, mark, enqueue.                                          *)

Edit(e, m, next) ==
  /\ editor[e] = "idle" /\ meeting.alive
  /\ edits < MaxEdits
  /\ edits' = edits + 1
  /\ meeting' = m
  /\ editor' = [editor EXCEPT ![e] = next]
  /\ UNCHANGED <<index, vectors, job, run, faults>>

(* A transcript is written, a segment edited or speakers merged: the new    *)
(* transcript_version is committed with it.                                 *)
EditTranscript(e) ==
  Edit(e, [meeting EXCEPT !.text = @ + 1, !.version = @ + 1], "mark")

(* A speaker or participant gets another name, which the transcript, if     *)
(* there is one, and perhaps the notes show,                                *)
RenameSpeaker(e) ==
  \E n \in Notes :
    Edit(e, [meeting EXCEPT !.text = IF @ = 0 THEN 0 ELSE @ + 1, !.notes = n], "bump")

(* and the version follows in a statement of its own; if that fails, the    *)
(* request ends in an error and marks nothing.                              *)
Bump(e) ==
  /\ editor[e] = "bump"
  /\ \/ /\ meeting' = IF meeting.alive THEN [meeting EXCEPT !.version = @ + 1] ELSE meeting
        /\ editor' = [editor EXCEPT ![e] = "mark"]
        /\ UNCHANGED faults
     \/ /\ Fault("bump")
        /\ editor' = [editor EXCEPT ![e] = "idle"]
        /\ UNCHANGED meeting
  /\ UNCHANGED <<index, vectors, job, run, edits>>

(* Title, tags, participants, rooms, action items; or nothing (admin).      *)
EditNotes(e) ==
  \E n \in Notes : Edit(e, [meeting EXCEPT !.notes = n], "mark")

(* upsertMeetingIntelligence                                                *)
SaveSummary(e) ==
  \E n \in Notes : Edit(e, [meeting EXCEPT !.notes = n, !.summary = TRUE], "mark")

(* requestMeetingReindex: the mark, then the enqueue; a failure of either   *)
(* is only logged.                                                          *)
Mark(e) ==
  /\ editor[e] = "mark"
  /\ editor' = [editor EXCEPT ![e] = "enqueue"]
  /\ \/ /\ index' = IF meeting.alive THEN [index EXCEPT !.marked = TRUE] ELSE index
        /\ run' = [w \in Workers |-> [run[w] EXCEPT !.marked = run[w].pc # "idle"]]
        /\ UNCHANGED faults
     \/ Fault("mark") /\ UNCHANGED <<index, run>>
  /\ UNCHANGED <<meeting, vectors, job, edits>>

Enqueue(e) ==
  /\ editor[e] = "enqueue"
  /\ editor' = [editor EXCEPT ![e] = "idle"]
  /\ \/ AddJob /\ UNCHANGED faults
     \/ Fault("enqueue") /\ UNCHANGED job
  /\ UNCHANGED <<meeting, index, vectors, run, edits>>

(* The meeting is deleted; its chunks and vectors go with it.               *)
Delete ==
  /\ meeting.alive
  /\ meeting' = [meeting EXCEPT !.alive = FALSE]
  /\ index' = NoIndex
  /\ vectors' = {}
  /\ UNCHANGED <<job, run, editor, faults, edits>>

-----------------------------------------------------------------------------
(* A run of the job (indexMeetingWith).                                     *)

SetRun(w, r) == run' = [run EXCEPT ![w] = r]

Start(w) ==
  /\ run[w].pc = "idle"
  /\ SetRun(w, [Idle EXCEPT !.pc = "base"])
  /\ UNCHANGED <<meeting, index, vectors, editor, edits>>

Take(w) ==
  /\ job.st = "waiting"
  /\ job' = [job EXCEPT !.st = "active", !.by = w]
  /\ Start(w)
  /\ UNCHANGED faults

(* scripts/search-backfill.ts --inline indexes a meeting without its job.   *)
RunInline(w) ==
  /\ Fault("inline")
  /\ Start(w)
  /\ UNCHANGED job

(* The run is over: it returned, or it threw.                               *)
Return(w) == SetRun(w, Idle) /\ Complete(w)

Fail(w) == SetRun(w, Idle) /\ Throw(w)

(* getMeeting reads the meetings row, then everything that hangs off it.    *)
LoadBase(w) ==
  /\ run[w].pc = "base"
  /\ IF meeting.alive
     THEN /\ SetRun(w, [run[w] EXCEPT
               !.pc = "parts", !.version = meeting.version,
               !.doc = [text |-> 0, notes |-> meeting.notes]])
          /\ UNCHANGED job
     ELSE Return(w)
  /\ UNCHANGED <<meeting, index, vectors, editor, faults, edits>>

Usable == meeting.text > 0 \/ meeting.summary

(* hasSomethingToIndex decides between the index and `skipped`.             *)
LoadParts(w) ==
  /\ run[w].pc = "parts"
  /\ SetRun(w, [run[w] EXCEPT
       !.pc = IF ~Usable THEN "skip" ELSE IF HasVectors THEN "have" ELSE "write",
       !.doc = [text |-> meeting.text, notes |-> run[w].doc.notes]])
  /\ UNCHANGED <<meeting, index, vectors, job, editor, faults, edits>>

MarkSkipped(w) ==
  /\ run[w].pc = "skip"
  /\ index' = IF meeting.alive
              THEN [state |-> "skipped", mode |-> "none", version |-> meeting.version,
                    chunks |-> NoDoc, marked |-> FALSE, retry |-> FALSE]
              ELSE index
  /\ Return(w)
  /\ UNCHANGED <<meeting, vectors, editor, faults, edits>>

Misses(r) == Hashes(r.doc) \ r.have

(* existingHashes                                                           *)
ReadHashes(w) ==
  /\ run[w].pc = "have"
  /\ SetRun(w, [run[w] EXCEPT
       !.pc = IF Hashes(run[w].doc) \subseteq vectors THEN "write" ELSE "embed",
       !.have = vectors])
  /\ UNCHANGED <<meeting, index, vectors, job, editor, faults, edits>>

Embed(w) ==
  /\ run[w].pc = "embed"
  /\ SetRun(w, [run[w] EXCEPT !.pc = "write", !.made = Misses(run[w])])
  /\ UNCHANGED <<meeting, index, vectors, job, editor, faults, edits>>

(* The provider failed: go on without the misses, unless there is no vector *)
(* at all.                                                                  *)
EmbedFails(w) ==
  /\ run[w].pc = "embed"
  /\ Fault("embed")
  /\ SetRun(w, [run[w] EXCEPT
       !.pc = IF Hashes(run[w].doc) \cap run[w].have = {} THEN "fail" ELSE "write"])
  /\ UNCHANGED <<meeting, index, vectors, job, editor, edits>>

MarkFailed(w) ==
  /\ run[w].pc = "fail"
  /\ index' = IF meeting.alive
              THEN [index EXCEPT !.state = "failed", !.marked = FALSE, !.retry = FALSE]
              ELSE index
  /\ Fail(w)
  /\ UNCHANGED <<meeting, vectors, editor, faults, edits>>

CoversAllChunks(r) == HasVectors /\ Hashes(r.doc) \subseteq r.have \cup r.made

(* Mutant: search_indexed_at is the time of the write.                      *)
IndexedNow(r) ==
  [state |-> "ready",
   mode |-> IF CoversAllChunks(r) THEN "hybrid" ELSE "lexical",
   version |-> r.version, chunks |-> r.doc, marked |-> FALSE, retry |-> FALSE]

Indexed(r) ==
  [state |-> "ready",
   mode |-> IF CoversAllChunks(r) THEN "hybrid" ELSE "lexical",
   version |-> r.version, chunks |-> r.doc, marked |-> r.marked, retry |-> FALSE]

(* writeIndex, one transaction.                                             *)
Store(w) ==
  /\ index' = Indexed(run[w])
  /\ vectors' = IF HasVectors
                THEN (vectors \cup run[w].made) \cap Hashes(run[w].doc)
                ELSE vectors
  /\ Return(w)

(* Mutant: the index is stamped with the version of its write.              *)
WriteStamped(w) ==
  /\ run[w].pc = "write"
  /\ IF ~meeting.alive THEN Return(w) /\ UNCHANGED <<index, vectors>>
     ELSE /\ index' = [Indexed(run[w]) EXCEPT !.version = meeting.version]
          /\ Return(w) /\ UNCHANGED vectors
  /\ UNCHANGED <<meeting, editor, faults, edits>>

(* Mutant: the transcript version is not compared.                          *)
WriteUnchecked(w) ==
  /\ run[w].pc = "write"
  /\ IF ~meeting.alive THEN Return(w) /\ UNCHANGED <<index, vectors>> ELSE Store(w)
  /\ UNCHANGED <<meeting, editor, faults, edits>>

WriteIndex(w) ==
  /\ run[w].pc = "write"
  /\ IF ~meeting.alive THEN Return(w) /\ UNCHANGED <<index, vectors>>
     ELSE IF meeting.version # run[w].version THEN Fail(w) /\ UNCHANGED <<index, vectors>>
     ELSE Store(w)
  /\ UNCHANGED <<meeting, editor, faults, edits>>

-----------------------------------------------------------------------------
(* The sweeper, and what may go wrong around a run.                         *)

Stale ==
  IF index.state = "failed" THEN index.retry
  ELSE \/ index.state = "pending"
       \/ index.version # meeting.version
       \/ index.marked
       \/ HasVectors /\ index.state = "ready" /\ index.mode = "lexical"

Sweep ==
  /\ meeting.alive /\ Usable /\ Stale
  /\ job.st = "none"
  /\ AddJob
  /\ UNCHANGED <<meeting, index, vectors, run, editor, faults, edits>>

(* Six hours have passed since the failure.                                 *)
RetryWindowPasses ==
  /\ index.state = "failed" /\ ~index.retry
  /\ index' = [index EXCEPT !.retry = TRUE]
  /\ UNCHANGED <<meeting, vectors, job, run, editor, faults, edits>>

(* External: BullMQ finds a job without a live lock: run again, or dropped  *)
(* when that happened too often.                                            *)
Release == job' = Waiting(job.tries) \/ job' = NoJob

(* The process dies in the middle of a run.                                 *)
Crash(w) ==
  /\ run[w].pc # "idle"
  /\ Fault("crash")
  /\ SetRun(w, Idle)
  /\ IF job.by = w THEN Release ELSE UNCHANGED job
  /\ UNCHANGED <<meeting, index, vectors, editor, edits>>

(* The lock is lost but the run goes on, so two runs may overlap.           *)
LoseLock ==
  /\ job.st = "active"
  /\ Fault("lock")
  /\ Release
  /\ UNCHANGED <<meeting, index, vectors, run, editor, edits>>

RunStep(w) ==
  \/ LoadBase(w) \/ LoadParts(w) \/ MarkSkipped(w) \/ ReadHashes(w) \/ Embed(w)
  \/ MarkFailed(w) \/ WriteIndex(w)

EditorStep(e) == Bump(e) \/ Mark(e) \/ Enqueue(e)

Next ==
  \/ \E e \in Editors : EditTranscript(e) \/ RenameSpeaker(e) \/ EditNotes(e)
                        \/ SaveSummary(e) \/ EditorStep(e)
  \/ \E w \in Workers : Take(w) \/ RunInline(w) \/ RunStep(w) \/ EmbedFails(w)
                        \/ Crash(w)
  \/ Delete \/ Sweep \/ RetryWindowPasses \/ LoseLock

Spec == Init /\ [][Next]_vars

(* Requests and runs go on, a waiting job is taken, the sweeper runs every  *)
(* ten minutes and time passes.  Nothing makes a user edit or delete.       *)
Fairness ==
  /\ \A e \in Editors : WF_vars(EditorStep(e))
  /\ \A w \in Workers : WF_vars(RunStep(w))
  /\ WF_vars(\E w \in Workers : Take(w))
  /\ WF_vars(Sweep)
  /\ WF_vars(RetryWindowPasses)

FairSpec == Spec /\ Fairness

-----------------------------------------------------------------------------
(* Properties.                                                              *)

Current == [text |-> meeting.text, notes |-> meeting.notes]

Lags == meeting.alive /\ Usable /\ index.chunks # Current

(* A speaker's new name is committed, the version that goes with it is not. *)
Renaming == \E e \in Editors : editor[e] = "bump"

(* A lag never goes unnoticed: while the index is not what the meeting says *)
(* now, the sweeper will select the meeting (a failed one after its retry   *)
(* window), or the request that made the edit is still to mark it.  Left    *)
(* out is a meeting that was skipped because it had nothing to index, which *)
(* one that starts with a transcript never is.                              *)
LagIsSeen ==
  Lags => \/ Stale \/ index.state \in {"failed", "skipped"}
          \/ \E e \in Editors : editor[e] \in {"bump", "mark"}

(* And no skip hides one (index-trigger.ts, line 11).                       *)
SkipHidesNothing ==
  Lags /\ index.state = "skipped" =>
    Stale \/ \E e \in Editors : editor[e] \in {"bump", "mark"}

(* An index that claims the meeting's version has the meeting's transcript, *)
(* although the two are read by different queries and runs overlap; only    *)
(* while a rename is between its statements it may have the names of before *)
(* or after.                                                                *)
VersionIsHonest ==
  index.state = "ready" =>
    /\ index.chunks # NoDoc
    /\ index.version = meeting.version => index.chunks.text = meeting.text \/ Renaming

(* Overlapping runs never put an older transcript back over a newer one,    *)
(* unless a rename is between its statements (whose bump has the meeting    *)
(* indexed again).                                                          *)
TranscriptNeverGoesBack ==
  [][index.chunks # NoDoc /\ index'.chunks # NoDoc /\ ~Renaming
       => index'.chunks.text >= index.chunks.text]_vars

(* Without the exception: a run that read the old names, and the version    *)
(* that is still that of both, overwrites one that read the new.            *)
NamesNeverGoBack ==
  [][index.chunks # NoDoc /\ index'.chunks # NoDoc
       => index'.chunks.text >= index.chunks.text]_vars

(* A meeting listed as hybrid has a vector for every chunk, so semantic     *)
(* search misses none of it.                                                *)
HybridIsCovered ==
  index.mode = "hybrid" => Hashes(index.chunks) \subseteq vectors

(* The same once nothing is going on any more and no sweep will come.       *)
RestingHybridIsCovered ==
  /\ ~Stale
  /\ \A w \in Workers : run[w].pc = "idle"
  /\ \A e \in Editors : editor[e] = "idle"
  => HybridIsCovered

(* Whatever was edited is found by search in the end, a meeting that was    *)
(* skipped (see LagIsSeen) left out.                                        *)
EditsAreIndexed == Lags ~> ~Lags \/ index.state = "skipped"
=============================================================================
