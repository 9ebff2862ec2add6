-------------------------- MODULE SearchIndex_proofs --------------------------
(***************************************************************************)
(* Proofs about SearchIndex, for every number of workers and requests and  *)
(* every bound: types; that an index never claims another version than its *)
(* chunks have; that overlapping runs never put an older transcript back;  *)
(* and that a lag of the index is always seen by the sweeper, when the     *)
(* meeting has a transcript from the start and marks are not lost.         *)
(***************************************************************************)
EXTENDS SearchIndex, TLAPS

(* Hashes of a document are hashes.                                         *)
LEMMA HashesType == \A doc \in Doc : Hashes(doc) \in SUBSET Hash
  <1> SUFFICES ASSUME NEW doc \in Doc PROVE Hashes(doc) \in SUBSET Hash
    OBVIOUS
  <1>1. doc.notes \in Notes /\ doc.text \in Nat
    BY DEF Doc
  <1>2. <<"notes", doc.notes>> \in Hash
    BY <1>1 DEF Hash
  <1>3. <<"text", doc.text>> \in Hash
    BY <1>1 DEF Hash
  <1> QED
    BY <1>2, <1>3 DEF Hashes

(* Setting one worker's run to a run keeps the runs typed.                  *)
LEMMA SetRunType ==
  ASSUME TypeOK, NEW w \in Workers, NEW r \in Run, SetRun(w, r)
  PROVE  run' \in [Workers -> Run]
  BY DEF TypeOK, SetRun

(* The run a worker starts and ends with is a run.                          *)
LEMMA IdleType == Idle \in Run
  BY IndexAssumption DEF Idle, Run, RunPcs, Doc, Hash

(* The job stays a job, whichever way a run ends.                           *)
LEMMA JobSteps ==
  ASSUME TypeOK
  PROVE  /\ AddJob => job' \in Job
         /\ Release => job' \in Job
         /\ \A w \in Workers : Complete(w) \/ Throw(w) => job' \in Job
  <1>1. NoJob \in Job
    BY IndexAssumption DEF NoJob, Job
  <1>2. \A n \in 0..(MaxTries - 1) : Waiting(n) \in Job
    BY DEF Waiting, Job
  <1>3. job.tries \in 0..(MaxTries - 1) /\ job \in Job
    BY DEF TypeOK, Job
  <1>4. 0 \in 0..(MaxTries - 1)
    BY IndexAssumption
  <1>5. job.tries + 1 < MaxTries => job.tries + 1 \in 0..(MaxTries - 1)
    BY <1>3, IndexAssumption
  <1>6. AddJob => job' \in Job
    BY <1>2, <1>3, <1>4 DEF AddJob
  <1>7. Release => job' \in Job
    BY <1>1, <1>2, <1>3 DEF Release
  <1>8. \A w \in Workers : Complete(w) => job' \in Job
    BY <1>1, <1>3 DEF Complete
  <1>9. \A w \in Workers : Throw(w) => job' \in Job
    BY <1>1, <1>2, <1>3, <1>5 DEF Throw
  <1> QED
    BY <1>6, <1>7, <1>8, <1>9

(* Init is well typed.                                                      *)
LEMMA TypeInit == Init => TypeOK
  BY IdleType, IndexAssumption
     DEF Init, TypeOK, Meeting, Index, Doc, Hash, Job, NoJob, NoIndex, EditorPcs

(* The records the index is set to are typed.                               *)
LEMMA IndexSteps ==
  ASSUME TypeOK
  PROVE  /\ NoIndex \in Index
         /\ \A w \in Workers : Indexed(run[w]) \in Index
  <1>1. NoIndex \in Index
    BY DEF NoIndex, Index
  <1>2. ASSUME NEW w \in Workers PROVE Indexed(run[w]) \in Index
    <2>1. run[w] \in Run
      BY DEF TypeOK
    <2> DEFINE mode == IF CoversAllChunks(run[w]) THEN "hybrid" ELSE "lexical"
    <2>2. mode \in {"none", "lexical", "hybrid"}
      OBVIOUS
    <2>3. Indexed(run[w]) = [state |-> "ready", mode |-> mode, version |-> run[w].version,
             chunks |-> run[w].doc, marked |-> run[w].marked, retry |-> FALSE]
      BY DEF Indexed
    <2> HIDE DEF mode
    <2> QED
      BY <2>1, <2>2, <2>3 DEF Run, Index
  <1> QED
    BY <1>1, <1>2

(* A request's steps keep the types.                                        *)
LEMMA TypeEditor ==
  ASSUME TypeOK, NEW e \in Editors
  PROVE  EditTranscript(e) \/ RenameSpeaker(e) \/ EditNotes(e) \/ SaveSummary(e)
           \/ EditorStep(e) => TypeOK'
  <1> USE DEF EditorPcs
  <1>1. ASSUME NEW m \in Meeting, NEW next \in EditorPcs, Edit(e, m, next) PROVE TypeOK'
    <2>1. edits' \in 0..MaxEdits
      BY <1>1, IndexAssumption DEF Edit, TypeOK
    <2>2. editor' \in [Editors -> EditorPcs]
      BY <1>1 DEF Edit, TypeOK
    <2> QED
      BY <1>1, <2>1, <2>2 DEF Edit, TypeOK
  <1>0. meeting \in Meeting /\ meeting.text + 1 \in Nat /\ meeting.version + 1 \in Nat
    BY DEF TypeOK, Meeting
  <1>2. [meeting EXCEPT !.text = meeting.text + 1, !.version = meeting.version + 1]
          \in Meeting
    BY <1>0 DEF Meeting
  <1>3. \A n \in Notes : /\ [meeting EXCEPT !.text = IF meeting.text = 0 THEN 0 ELSE meeting.text + 1,
                                             !.notes = n] \in Meeting
                         /\ [meeting EXCEPT !.notes = n] \in Meeting
                         /\ [meeting EXCEPT !.notes = n, !.summary = TRUE] \in Meeting
    BY <1>0 DEF Meeting
  <1>4. ASSUME Mark(e) PROVE TypeOK'
    <2>1. [index EXCEPT !.marked = TRUE] \in Index
      BY DEF TypeOK, Index
    <2>2. \A w \in Workers : [run[w] EXCEPT !.marked = run[w].pc # "idle"] \in Run
      BY DEF TypeOK, Run
    <2>3. run' \in [Workers -> Run] /\ index' \in Index
      BY <1>4, <2>1, <2>2 DEF Mark, TypeOK
    <2>4. faults' \in 0..MaxFaults
      BY <1>4, IndexAssumption DEF Mark, Fault, TypeOK
    <2>5. editor' \in [Editors -> EditorPcs]
      BY <1>4 DEF Mark, TypeOK
    <2> QED
      BY <1>4, <2>3, <2>4, <2>5 DEF Mark, TypeOK
  <1>5. ASSUME Enqueue(e) PROVE TypeOK'
    <2>1. job' \in Job
      BY <1>5, JobSteps DEF Enqueue, TypeOK
    <2>2. faults' \in 0..MaxFaults
      BY <1>5, IndexAssumption DEF Enqueue, Fault, TypeOK
    <2>3. editor' \in [Editors -> EditorPcs]
      BY <1>5 DEF Enqueue, TypeOK
    <2> QED
      BY <1>5, <2>1, <2>2, <2>3 DEF Enqueue, TypeOK
  <1>6. ASSUME Bump(e) PROVE TypeOK'
    <2>1. meeting' \in Meeting
      BY <1>6 DEF Bump, TypeOK, Meeting
    <2>2. faults' \in 0..MaxFaults
      BY <1>6, IndexAssumption DEF Bump, Fault, TypeOK
    <2>3. editor' \in [Editors -> EditorPcs]
      BY <1>6 DEF Bump, TypeOK
    <2> QED
      BY <1>6, <2>1, <2>2, <2>3 DEF Bump, TypeOK
  <1>7. EditTranscript(e) \/ RenameSpeaker(e) \/ EditNotes(e) \/ SaveSummary(e) => TypeOK'
    BY <1>1, <1>2, <1>3 DEF EditTranscript, RenameSpeaker, EditNotes, SaveSummary
  <1> QED
    BY <1>4, <1>5, <1>6, <1>7 DEF EditorStep

(* Where a run is after each of its steps.                                  *)
LEMMA RunSteps ==
  ASSUME TypeOK, NEW w \in Workers
  PROVE  /\ [Idle EXCEPT !.pc = "base"] \in Run
         /\ [run[w] EXCEPT !.pc = "parts", !.version = meeting.version,
              !.doc = [text |-> 0, notes |-> meeting.notes]] \in Run
         /\ \A pc \in RunPcs :
              /\ [run[w] EXCEPT !.pc = pc,
                   !.doc = [text |-> meeting.text, notes |-> run[w].doc.notes]] \in Run
              /\ [run[w] EXCEPT !.pc = pc, !.have = vectors] \in Run
              /\ [run[w] EXCEPT !.pc = pc, !.made = Misses(run[w])] \in Run
              /\ [run[w] EXCEPT !.pc = pc] \in Run
  <1>1. run[w] \in Run /\ vectors \in SUBSET Hash /\ meeting \in Meeting
    BY DEF TypeOK
  <1>2. run[w].doc \in Doc
    BY <1>1 DEF Run
  <1>3. Misses(run[w]) \in SUBSET Hash
    BY <1>2, HashesType DEF Misses
  <1>4. \A t \in Nat, n \in Notes : [text |-> t, notes |-> n] \in Doc
    BY DEF Doc
  <1>5. /\ meeting.text \in Nat /\ meeting.version \in Nat
        /\ meeting.notes \in Notes /\ run[w].doc.notes \in Notes
    BY <1>1, <1>2 DEF Meeting, Doc
  <1>6. "base" \in RunPcs /\ "parts" \in RunPcs
    BY DEF RunPcs
  <1>7. [Idle EXCEPT !.pc = "base"] \in Run
    BY IdleType, <1>6 DEF Run
  <1>8. 0 \in Nat
    OBVIOUS
  <1>9. [run[w] EXCEPT !.pc = "parts", !.version = meeting.version,
              !.doc = [text |-> 0, notes |-> meeting.notes]] \in Run
    BY <1>1, <1>4, <1>5, <1>6, <1>8 DEF Run
  <1>10. \A pc \in RunPcs :
           /\ [run[w] EXCEPT !.pc = pc,
                !.doc = [text |-> meeting.text, notes |-> run[w].doc.notes]] \in Run
           /\ [run[w] EXCEPT !.pc = pc, !.have = vectors] \in Run
           /\ [run[w] EXCEPT !.pc = pc] \in Run
    BY <1>1, <1>4, <1>5 DEF Run
  <1>11. \A pc \in RunPcs : [run[w] EXCEPT !.pc = pc, !.made = Misses(run[w])] \in Run
    <2> DEFINE ms == Misses(run[w])
    <2>1. ms \in SUBSET Hash
      BY <1>3
    <2> HIDE DEF ms
    <2>2. \A pc \in RunPcs : [run[w] EXCEPT !.pc = pc, !.made = ms] \in Run
      BY <1>1, <2>1 DEF Run
    <2> QED
      BY <2>2 DEF ms
  <1> QED
    BY <1>7, <1>9, <1>10, <1>11

(* The steps of a run that only change the run.                             *)
LEMMA TypeRunning ==
  ASSUME TypeOK, NEW w \in Workers
  PROVE  LoadParts(w) \/ ReadHashes(w) \/ Embed(w) \/ EmbedFails(w) => TypeOK'
  <1>1. {"skip", "have", "write", "embed", "fail"} \subseteq RunPcs
    BY DEF RunPcs
  <1>2. ASSUME LoadParts(w) PROVE run' \in [Workers -> Run]
    BY <1>1, <1>2, RunSteps, SetRunType DEF LoadParts
  <1>3. ASSUME ReadHashes(w) PROVE run' \in [Workers -> Run]
    BY <1>1, <1>3, RunSteps, SetRunType DEF ReadHashes
  <1>4. ASSUME Embed(w) PROVE run' \in [Workers -> Run]
    BY <1>1, <1>4, RunSteps, SetRunType DEF Embed
  <1>5. ASSUME EmbedFails(w) PROVE run' \in [Workers -> Run] /\ faults' \in 0..MaxFaults
    <2>1. run' \in [Workers -> Run]
      BY <1>1, <1>5, RunSteps, SetRunType DEF EmbedFails
    <2>2. faults' \in 0..MaxFaults
      BY <1>5, IndexAssumption DEF EmbedFails, Fault, TypeOK
    <2> QED
      BY <2>1, <2>2
  <1> QED
    BY <1>2, <1>3, <1>4, <1>5 DEF LoadParts, ReadHashes, Embed, EmbedFails, TypeOK

(* The steps that begin or end a run.                                       *)
LEMMA TypeRunEnds ==
  ASSUME TypeOK, NEW w \in Workers
  PROVE  Take(w) \/ RunInline(w) \/ LoadBase(w) \/ MarkSkipped(w) \/ MarkFailed(w)
           \/ WriteIndex(w) \/ Crash(w) => TypeOK'
  <1>1. ASSUME Return(w) \/ Fail(w)
        PROVE  run' \in [Workers -> Run] /\ job' \in Job
    BY <1>1, IdleType, SetRunType, JobSteps DEF Return, Fail
  <1>2. ASSUME Start(w) PROVE run' \in [Workers -> Run]
    BY <1>2, RunSteps, SetRunType DEF Start
  <1>3. ASSUME Take(w) PROVE TypeOK'
    <2>1. [job EXCEPT !.st = "active", !.by = w] \in Job
      BY DEF TypeOK, Job
    <2> QED
      BY <1>2, <1>3, <2>1 DEF Take, Start, TypeOK
  <1>4. ASSUME RunInline(w) PROVE TypeOK'
    <2>1. faults' \in 0..MaxFaults
      BY <1>4, IndexAssumption DEF RunInline, Fault, TypeOK
    <2> QED
      BY <1>2, <1>4, <2>1 DEF RunInline, Start, TypeOK
  <1>5. ASSUME LoadBase(w) PROVE TypeOK'
    <2>1. run' \in [Workers -> Run] /\ job' \in Job
      <3>1. CASE meeting.alive
        BY <1>5, <3>1, RunSteps, SetRunType DEF LoadBase, TypeOK
      <3>2. CASE ~meeting.alive
        BY <1>1, <1>5, <3>2 DEF LoadBase
      <3> QED
        BY <3>1, <3>2
    <2> QED
      BY <1>5, <2>1 DEF LoadBase, TypeOK
  <1>6. ASSUME MarkSkipped(w) PROVE TypeOK'
    <2>1. [state |-> "skipped", mode |-> "none", version |-> meeting.version,
           chunks |-> NoDoc, marked |-> FALSE, retry |-> FALSE] \in Index
      BY DEF TypeOK, Index, Meeting
    <2> QED
      BY <1>1, <1>6, <2>1 DEF MarkSkipped, TypeOK
  <1>7. ASSUME MarkFailed(w) PROVE TypeOK'
    <2>1. [index EXCEPT !.state = "failed", !.marked = FALSE, !.retry = FALSE] \in Index
      BY DEF TypeOK, Index
    <2> QED
      BY <1>1, <1>7, <2>1 DEF MarkFailed, TypeOK
  <1>8. ASSUME WriteIndex(w) PROVE TypeOK'
    <2>1. run[w].made \in SUBSET Hash /\ vectors \in SUBSET Hash
      BY DEF TypeOK, Run
    <2>2. index' \in Index /\ vectors' \in SUBSET Hash
      BY <1>8, <2>1, IndexSteps DEF WriteIndex, Store, TypeOK
    <2>3. run' \in [Workers -> Run] /\ job' \in Job
      BY <1>1, <1>8 DEF WriteIndex, Store
    <2> QED
      BY <1>8, <2>2, <2>3 DEF WriteIndex, TypeOK
  <1>9. ASSUME Crash(w) PROVE TypeOK'
    <2>1. faults' \in 0..MaxFaults
      BY <1>9, IndexAssumption DEF Crash, Fault, TypeOK
    <2>2. run' \in [Workers -> Run]
      BY <1>9, IdleType, SetRunType DEF Crash
    <2>3. job' \in Job
      BY <1>9, JobSteps DEF Crash, TypeOK
    <2> QED
      BY <1>9, <2>1, <2>2, <2>3 DEF Crash, TypeOK
  <1> QED
    BY <1>3, <1>4, <1>5, <1>6, <1>7, <1>8, <1>9

(* The steps of nobody in particular.                                       *)
LEMMA TypeRest ==
  ASSUME TypeOK
  PROVE  Delete \/ Sweep \/ RetryWindowPasses \/ LoseLock => TypeOK'
  <1>1. ASSUME Delete PROVE TypeOK'
    <2>1. [meeting EXCEPT !.alive = FALSE] \in Meeting
      BY DEF TypeOK, Meeting
    <2> QED
      BY <1>1, <2>1, IndexSteps DEF Delete, TypeOK
  <1>2. ASSUME Sweep PROVE TypeOK'
    BY <1>2, JobSteps DEF Sweep, TypeOK
  <1>3. ASSUME RetryWindowPasses PROVE TypeOK'
    <2>1. [index EXCEPT !.retry = TRUE] \in Index
      BY DEF TypeOK, Index
    <2> QED
      BY <1>3, <2>1 DEF RetryWindowPasses, TypeOK
  <1>4. ASSUME LoseLock PROVE TypeOK'
    <2>1. faults' \in 0..MaxFaults
      BY <1>4, IndexAssumption DEF LoseLock, Fault, TypeOK
    <2> QED
      BY <1>4, <2>1, JobSteps DEF LoseLock, TypeOK
  <1> QED
    BY <1>1, <1>2, <1>3, <1>4

(* Every step keeps the types.                                              *)
LEMMA TypeNext == TypeOK /\ [Next]_vars => TypeOK'
  <1> SUFFICES ASSUME TypeOK, [Next]_vars PROVE TypeOK'
    OBVIOUS
  <1>1. CASE UNCHANGED vars
    BY <1>1 DEF vars, TypeOK
  <1>2. CASE Next
    BY <1>2, TypeEditor, TypeRunning, TypeRunEnds, TypeRest DEF Next, RunStep
  <1> QED
    BY <1>1, <1>2

(* Every reachable state of the index protocol is well typed.               *)
THEOREM TypeCorrect == Spec => []TypeOK
  BY TypeInit, TypeNext, PTL DEF Spec

-----------------------------------------------------------------------------
(* What a run has read is never ahead of the meeting.  The version is read  *)
(* before the transcript, so while the meeting still has that version, the  *)
(* transcript that was read is the meeting's, unless a rename is between    *)
(* its statements: an edit brings a new version with it, a rename before it *)
(* leaves.  So a write that finds the version still current writes the      *)
(* transcript of that version.                                              *)

Past == {"parts", "have", "embed", "write", "skip", "fail"}

Loaded == {"have", "embed", "write", "skip", "fail"}

(* The version says nothing: a rename is on its way, or nobody asks.        *)
Open == Renaming \/ ~meeting.alive

HonestRun(r, text, version, open) ==
  /\ r.pc \in Past => r.version <= version
  /\ r.pc \in Loaded => /\ r.doc.text <= text
                        /\ r.version = version => r.doc.text = text \/ open

HonestRuns == \A w \in Workers : HonestRun(run[w], meeting.text, meeting.version, Open)

HonestIndex ==
  /\ VersionIsHonest
  /\ index.chunks # NoDoc => index.chunks.text <= meeting.text
  /\ index.state = "ready" =>
       meeting.alive /\ index.version \in Nat /\ index.version <= meeting.version

HonestInv == TypeOK /\ HonestRuns /\ HonestIndex

(* What was read stays behind a meeting that gains versions: one that keeps *)
(* its version has its transcript still, or a rename began.                 *)
LEMMA HonestLater ==
  ASSUME NEW r \in Run, NEW t \in Nat, NEW t2 \in Nat, NEW v \in Nat, NEW v2 \in Nat,
         NEW open \in BOOLEAN, NEW open2 \in BOOLEAN,
         t <= t2, v <= v2, v2 = v => (t2 = t /\ (open => open2)) \/ open2,
         HonestRun(r, t, v, open)
  PROVE  HonestRun(r, t2, v2, open2)
  <1>1. r.version \in Nat /\ r.doc.text \in Nat
    BY DEF Run, Doc
  <1>2. r.pc \in Past => r.version <= v2
    BY <1>1 DEF HonestRun
  <1>3. ASSUME r.pc \in Loaded
        PROVE  r.doc.text <= t2 /\ (r.version = v2 => r.doc.text = t2 \/ open2)
    <2>1. r.version <= v /\ r.doc.text <= t /\ (r.version = v => r.doc.text = t \/ open)
      BY <1>3 DEF HonestRun, Loaded, Past
    <2>2. r.version = v2 => v2 = v
      BY <1>1, <2>1
    <2>3. r.doc.text <= t2
      BY <1>1, <2>1
    <2> QED
      BY <2>1, <2>2, <2>3
  <1> QED
    BY <1>2, <1>3 DEF HonestRun

(* One worker's run set to an honest one, the meeting as it was.            *)
LEMMA SetHonest ==
  ASSUME TypeOK, HonestRuns, NEW w \in Workers, NEW r,
         HonestRun(r, meeting.text, meeting.version, Open),
         SetRun(w, r), UNCHANGED <<meeting, editor>>
  PROVE  HonestRuns'
  <1>1. Open' = Open
    BY DEF Open, Renaming
  <1>2. ASSUME NEW d \in Workers
        PROVE  HonestRun(run'[d], meeting.text, meeting.version, Open)
    BY DEF HonestRuns, SetRun, TypeOK
  <1> QED
    BY <1>1, <1>2 DEF HonestRuns

(* A run that has not read anything is honest.                              *)
LEMMA HonestStart ==
  /\ \A t, v, open : HonestRun(Idle, t, v, open)
  /\ \A t, v, open : HonestRun([Idle EXCEPT !.pc = "base"], t, v, open)
  <1>1. Idle.pc = "idle" /\ [Idle EXCEPT !.pc = "base"].pc = "base"
    BY DEF Idle
  <1> QED
    BY <1>1 DEF HonestRun, Past, Loaded

(* The steps of a run keep every run honest.                                *)
LEMMA HonestRunning ==
  ASSUME TypeOK, HonestRuns, NEW w \in Workers
  PROVE  RunStep(w) \/ EmbedFails(w) => HonestRuns'
  <1>1. run[w] \in Run /\ meeting.text \in Nat /\ meeting.version \in Nat
        /\ HonestRun(run[w], meeting.text, meeting.version, Open)
    BY DEF TypeOK, Meeting, HonestRuns
  <1>2. ASSUME Return(w) \/ Fail(w), UNCHANGED <<meeting, editor>> PROVE HonestRuns'
    BY <1>2, HonestStart, SetHonest DEF Return, Fail
  <1>3. ASSUME LoadBase(w) PROVE HonestRuns'
    <2> DEFINE r == [run[w] EXCEPT !.pc = "parts", !.version = meeting.version,
                       !.doc = [text |-> 0, notes |-> meeting.notes]]
    <2>1. r.pc = "parts" /\ r.version = meeting.version
      BY <1>1 DEF Run
    <2>2. HonestRun(r, meeting.text, meeting.version, Open)
      BY <2>1, <1>1 DEF HonestRun, Loaded
    <2>3. CASE meeting.alive
      <3>1. SetRun(w, r) /\ UNCHANGED <<meeting, editor>>
        BY <1>3, <2>3 DEF LoadBase
      <3> HIDE DEF r
      <3> QED
        BY <2>2, <3>1, SetHonest
    <2>4. CASE ~meeting.alive
      BY <1>2, <1>3, <2>4 DEF LoadBase
    <2> QED
      BY <2>3, <2>4
  <1>4. ASSUME LoadParts(w) PROVE HonestRuns'
    <2> DEFINE r == [run[w] EXCEPT
                 !.pc = IF ~Usable THEN "skip" ELSE IF HasVectors THEN "have" ELSE "write",
                 !.doc = [text |-> meeting.text, notes |-> run[w].doc.notes]]
    <2>1. r.version = run[w].version /\ r.doc.text = meeting.text
      BY <1>1 DEF Run
    <2>2. run[w].version <= meeting.version
      BY <1>1, <1>4 DEF LoadParts, HonestRun, Past
    <2>3. SetRun(w, r) /\ UNCHANGED <<meeting, editor>>
      BY <1>4 DEF LoadParts
    <2> HIDE DEF r
    <2>4. HonestRun(r, meeting.text, meeting.version, Open)
      BY <2>1, <2>2, <1>1 DEF HonestRun
    <2> QED
      BY <2>3, <2>4, SetHonest
  <1>5. ASSUME NEW r, r.pc \in Loaded, r.version = run[w].version, r.doc = run[w].doc,
               run[w].pc \in Loaded, SetRun(w, r), UNCHANGED <<meeting, editor>>
        PROVE  HonestRuns'
    <2>1. HonestRun(r, meeting.text, meeting.version, Open)
      BY <1>1, <1>5 DEF HonestRun, Loaded, Past
    <2> QED
      BY <1>5, <2>1, SetHonest
  <1>6. ASSUME ReadHashes(w) PROVE HonestRuns'
    <2> DEFINE r == [run[w] EXCEPT
                 !.pc = IF Hashes(run[w].doc) \subseteq vectors THEN "write" ELSE "embed",
                 !.have = vectors]
    <2>1. r.pc \in Loaded /\ r.version = run[w].version /\ r.doc = run[w].doc
      BY <1>1 DEF Run, Loaded
    <2>2. SetRun(w, r) /\ UNCHANGED <<meeting, editor>> /\ run[w].pc \in Loaded
      BY <1>6 DEF ReadHashes, Loaded
    <2> HIDE DEF r
    <2> QED
      BY <1>5, <2>1, <2>2
  <1>7. ASSUME Embed(w) PROVE HonestRuns'
    <2> DEFINE ms == Misses(run[w])
               r == [run[w] EXCEPT !.pc = "write", !.made = ms]
    <2>1. SetRun(w, r) /\ UNCHANGED <<meeting, editor>> /\ run[w].pc \in Loaded
      BY <1>7 DEF Embed, Loaded
    <2> HIDE DEF ms
    <2>2. r.pc \in Loaded /\ r.version = run[w].version /\ r.doc = run[w].doc
      BY <1>1 DEF Run, Loaded
    <2> HIDE DEF r
    <2> QED
      BY <1>5, <2>1, <2>2
  <1>8. ASSUME EmbedFails(w) PROVE HonestRuns'
    <2> DEFINE pc == IF Hashes(run[w].doc) \cap run[w].have = {} THEN "fail" ELSE "write"
               r == [run[w] EXCEPT !.pc = pc]
    <2>1. SetRun(w, r) /\ UNCHANGED <<meeting, editor>> /\ run[w].pc \in Loaded
      BY <1>8 DEF EmbedFails, Loaded
    <2>2. pc \in Loaded
      BY DEF Loaded
    <2> HIDE DEF pc
    <2>3. r.pc \in Loaded /\ r.version = run[w].version /\ r.doc = run[w].doc
      BY <1>1, <2>2 DEF Run
    <2> HIDE DEF r
    <2> QED
      BY <1>5, <2>1, <2>3
  <1>9. ASSUME MarkSkipped(w) \/ MarkFailed(w) \/ WriteIndex(w) PROVE HonestRuns'
    BY <1>2, <1>9 DEF MarkSkipped, MarkFailed, WriteIndex, Store
  <1> QED
    BY <1>3, <1>4, <1>6, <1>7, <1>8, <1>9 DEF RunStep

(* Requests leave each other where they are.                                *)
LEMMA EditorMoves ==
  ASSUME TypeOK, [Next]_vars, "bump" \notin Faults
  PROVE  \/ UNCHANGED editor
         \/ \E e \in Editors :
              /\ \A d \in Editors : d # e => editor'[d] = editor[d]
              /\ \/ \E m : Edit(e, m, "mark") \/ Edit(e, m, "bump")
                 \/ Bump(e) /\ editor'[e] = "mark"
                 \/ Mark(e)
                 \/ Enqueue(e)
  <1>1. ASSUME NEW e \in Editors,
               EditTranscript(e) \/ RenameSpeaker(e) \/ EditNotes(e) \/ SaveSummary(e)
        PROVE  \E m : Edit(e, m, "mark") \/ Edit(e, m, "bump")
    BY <1>1 DEF EditTranscript, RenameSpeaker, EditNotes, SaveSummary
  <1>2. ASSUME NEW e \in Editors, NEW m, NEW next, Edit(e, m, next)
        PROVE  \A d \in Editors : d # e => editor'[d] = editor[d]
    BY <1>2 DEF Edit, TypeOK
  <1>3. ASSUME NEW e \in Editors, EditorStep(e)
        PROVE  \A d \in Editors : d # e => editor'[d] = editor[d]
    BY <1>3 DEF EditorStep, Bump, Mark, Enqueue, TypeOK
  <1>4. ASSUME NEW e \in Editors, Bump(e) PROVE editor'[e] = "mark"
    BY <1>4 DEF Bump, Fault, TypeOK
  <1>5. \/ UNCHANGED editor
        \/ \E e \in Editors : \/ EditTranscript(e) \/ RenameSpeaker(e) \/ EditNotes(e)
                              \/ SaveSummary(e) \/ EditorStep(e)
    BY DEF Next, vars, Take, RunInline, Start, RunStep, LoadBase, LoadParts, MarkSkipped,
       ReadHashes, Embed, EmbedFails, MarkFailed, WriteIndex, Crash, Delete, Sweep,
       RetryWindowPasses, LoseLock
  <1>6. ASSUME NEW e \in Editors,
               EditTranscript(e) \/ RenameSpeaker(e) \/ EditNotes(e) \/ SaveSummary(e)
        PROVE  \E c \in Editors :
              /\ \A d \in Editors : d # c => editor'[d] = editor[d]
              /\ \E m : Edit(c, m, "mark") \/ Edit(c, m, "bump")
    BY <1>1, <1>2, <1>6
  <1>7. ASSUME NEW e \in Editors, EditorStep(e)
        PROVE  \E c \in Editors :
              /\ \A d \in Editors : d # c => editor'[d] = editor[d]
              /\ (Bump(c) /\ editor'[c] = "mark") \/ Mark(c) \/ Enqueue(c)
    BY <1>3, <1>4, <1>7 DEF EditorStep
  <1> QED
    BY <1>5, <1>6, <1>7

(* A rename is on its way until its bump.                                   *)
LEMMA RenamingStays ==
  ASSUME TypeOK, [Next]_vars, "bump" \notin Faults, Renaming
  PROVE  Renaming' \/ \E e \in Editors : Bump(e) /\ editor'[e] = "mark"
  <1>1. PICK d \in Editors : editor[d] = "bump"
    BY DEF Renaming
  <1>2. UNCHANGED editor => Renaming'
    BY <1>1 DEF Renaming
  <1>3. ASSUME NEW e \in Editors, \A c \in Editors : c # e => editor'[c] = editor[c],
               editor[e] # "bump"
        PROVE  Renaming'
    BY <1>1, <1>3 DEF Renaming
  <1>4. ASSUME NEW e \in Editors, (\E m, next : Edit(e, m, next)) \/ Mark(e) \/ Enqueue(e)
        PROVE  editor[e] # "bump"
    BY <1>4 DEF Edit, Mark, Enqueue
  <1> QED
    BY <1>2, <1>3, <1>4, EditorMoves

(* How a step may change the meeting.                                       *)
LEMMA MeetingSteps ==
  ASSUME TypeOK, [Next]_vars
  PROVE  \/ UNCHANGED meeting
         \/ \E e \in Editors : \/ EditTranscript(e) \/ RenameSpeaker(e) \/ EditNotes(e)
                               \/ SaveSummary(e) \/ Bump(e)
         \/ Delete
  BY DEF Next, vars, EditorStep, Mark, Enqueue, Take, RunInline, Start, RunStep, LoadBase,
     LoadParts, MarkSkipped, ReadHashes, Embed, EmbedFails, MarkFailed, WriteIndex, Crash,
     Sweep, RetryWindowPasses, LoseLock

(* What every step does to the meeting.                                     *)
Grown ==
  /\ meeting'.text \in Nat /\ meeting'.version \in Nat
  /\ meeting'.text >= meeting.text /\ meeting'.version >= meeting.version
  /\ meeting'.version = meeting.version =>
       (meeting'.text = meeting.text /\ (Open => Open')) \/ Open'

(* Transcript and version never go back, and a transcript that changes and  *)
(* keeps its version has a rename on its way.                               *)
LEMMA MeetingGrows ==
  ASSUME TypeOK, [Next]_vars, "bump" \notin Faults
  PROVE  Grown
  <1>1. meeting \in Meeting /\ meeting.text \in Nat /\ meeting.version \in Nat
    BY DEF TypeOK, Meeting
  <1>2. ASSUME meeting'.text = meeting.text, meeting'.version = meeting.version,
               meeting'.alive = meeting.alive, ~\E e \in Editors : Bump(e) /\ meeting.alive
        PROVE  Grown
    <2>1. Open => Open'
      BY <1>2, RenamingStays DEF Open
    <2> QED
      BY <1>1, <1>2, <2>1 DEF Grown
  <1>3. ASSUME NEW e \in Editors, EditTranscript(e) PROVE Grown
    <2>1. meeting'.text = meeting.text + 1 /\ meeting'.version = meeting.version + 1
      BY <1>1, <1>3 DEF EditTranscript, Edit, Meeting
    <2> QED
      BY <1>1, <2>1 DEF Grown
  <1>4. ASSUME NEW e \in Editors, RenameSpeaker(e) PROVE Grown
    <2>1. /\ meeting'.text = meeting.text \/ meeting'.text = meeting.text + 1
          /\ meeting'.version = meeting.version
      BY <1>1, <1>4 DEF RenameSpeaker, Edit, Meeting
    <2>2. editor'[e] = "bump"
      BY <1>4 DEF RenameSpeaker, Edit, TypeOK
    <2> QED
      BY <1>1, <2>1, <2>2 DEF Grown, Open, Renaming
  <1>5. ASSUME NEW e \in Editors, EditNotes(e) \/ SaveSummary(e) PROVE Grown
    <2>1. PICK n \in Notes : \/ meeting' = [meeting EXCEPT !.notes = n]
                            \/ meeting' = [meeting EXCEPT !.notes = n, !.summary = TRUE]
      BY <1>5 DEF EditNotes, SaveSummary, Edit
    <2>2. /\ meeting'.text = meeting.text /\ meeting'.version = meeting.version
          /\ meeting'.alive = meeting.alive
      BY <1>1, <2>1 DEF Meeting
    <2>3. editor'[e] = "mark" /\ editor[e] = "idle"
          /\ \A d \in Editors : d # e => editor'[d] = editor[d]
      BY <1>5 DEF EditNotes, SaveSummary, Edit, TypeOK
    <2>4. Renaming => Renaming'
      BY <2>3 DEF Renaming
    <2> QED
      BY <1>1, <2>2, <2>4 DEF Grown, Open
  <1>6. ASSUME NEW e \in Editors, Bump(e) PROVE Grown
    <2>1. CASE meeting.alive
      <3>1. meeting' = [meeting EXCEPT !.version = @ + 1]
        BY <1>6, <2>1 DEF Bump, Fault
      <3>2. meeting'.text = meeting.text /\ meeting'.version = meeting.version + 1
        BY <1>1, <3>1 DEF Meeting
      <3> QED
        BY <1>1, <3>2 DEF Grown
    <2>2. CASE ~meeting.alive
      <3>1. UNCHANGED meeting
        BY <1>6, <2>2 DEF Bump
      <3> QED
        BY <1>2, <2>2, <3>1
    <2> QED
      BY <2>1, <2>2
  <1>7. CASE Delete
    <2>1. /\ meeting'.text = meeting.text /\ meeting'.version = meeting.version
          /\ ~meeting'.alive
      BY <1>1, <1>7 DEF Delete, Meeting
    <2> QED
      BY <1>1, <2>1 DEF Grown, Open
  <1>8. ASSUME UNCHANGED meeting, ~\E e \in Editors : Bump(e) PROVE Grown
    BY <1>2, <1>8
  <1> QED
    BY <1>3, <1>4, <1>5, <1>6, <1>7, <1>8, MeetingSteps

(* Only a deletion ends a meeting, and it takes the index with it.          *)
LEMMA AliveStays ==
  ASSUME TypeOK, [Next]_vars, index'.state = "ready"
  PROVE  meeting'.alive = meeting.alive
  <1>1. meeting \in Meeting
    BY DEF TypeOK
  <1>2. ~Delete
    BY DEF Delete, NoIndex
  <1>3. ASSUME NEW e \in Editors,
               EditTranscript(e) \/ RenameSpeaker(e) \/ EditNotes(e) \/ SaveSummary(e) \/ Bump(e)
        PROVE  meeting'.alive = meeting.alive
    BY <1>1, <1>3 DEF EditTranscript, RenameSpeaker, EditNotes, SaveSummary, Edit, Bump, Meeting
  <1> QED
    BY <1>2, <1>3, MeetingSteps

(* Every step keeps every run honest.                                       *)
LEMMA HonestRunsNext ==
  ASSUME TypeOK, HonestRuns, [Next]_vars, "bump" \notin Faults
  PROVE  HonestRuns'
  <1>1. Grown /\ meeting.text \in Nat /\ meeting.version \in Nat
    BY MeetingGrows DEF TypeOK, Meeting
  <1>2. ASSUME UNCHANGED run PROVE HonestRuns'
    <2> SUFFICES ASSUME NEW w \in Workers
                 PROVE  HonestRun(run[w], meeting'.text, meeting'.version, Open')
      BY <1>2 DEF HonestRuns
    <2>1. run[w] \in Run /\ HonestRun(run[w], meeting.text, meeting.version, Open)
      BY DEF TypeOK, HonestRuns
    <2>2. Open \in BOOLEAN /\ Open' \in BOOLEAN
      BY DEF Open, Renaming
    <2> QED
      BY <1>1, <2>1, <2>2, HonestLater DEF Grown
  <1>3. ASSUME NEW e \in Editors, Mark(e) PROVE HonestRuns'
    <2>1. CASE UNCHANGED run
      BY <1>2, <2>1
    <2>2. CASE run' = [w \in Workers |-> [run[w] EXCEPT !.marked = run[w].pc # "idle"]]
      <3> SUFFICES ASSUME NEW w \in Workers
                   PROVE  HonestRun(run'[w], meeting'.text, meeting'.version, Open')
        BY DEF HonestRuns
      <3>1. run[w] \in Run /\ HonestRun(run[w], meeting.text, meeting.version, Open)
        BY DEF TypeOK, HonestRuns
      <3>4. Open \in BOOLEAN /\ Open' \in BOOLEAN
        BY DEF Open, Renaming
      <3>5. HonestRun(run[w], meeting'.text, meeting'.version, Open')
        BY <1>1, <3>1, <3>4, HonestLater DEF Grown
      <3>2. run'[w] = [run[w] EXCEPT !.marked = run[w].pc # "idle"]
        BY <2>2
      <3>3. run'[w].pc = run[w].pc /\ run'[w].version = run[w].version
              /\ run'[w].doc = run[w].doc
        BY <3>1, <3>2 DEF Run
      <3> QED
        BY <3>3, <3>5 DEF HonestRun
    <2> QED
      BY <1>3, <2>1, <2>2 DEF Mark
  <1>4. ASSUME NEW w \in Workers, Take(w) \/ RunInline(w) PROVE HonestRuns'
    BY <1>4, HonestStart, SetHonest DEF Take, RunInline, Start
  <1>5. ASSUME NEW w \in Workers, Crash(w) PROVE HonestRuns'
    BY <1>5, HonestStart, SetHonest DEF Crash
  <1>6. ASSUME NEW w \in Workers, RunStep(w) \/ EmbedFails(w) PROVE HonestRuns'
    BY <1>6, HonestRunning
  <1>7. ASSUME NEW e \in Editors,
               EditTranscript(e) \/ RenameSpeaker(e) \/ EditNotes(e) \/ SaveSummary(e)
                 \/ Bump(e) \/ Enqueue(e)
        PROVE  HonestRuns'
    BY <1>2, <1>7 DEF EditTranscript, RenameSpeaker, EditNotes, SaveSummary, Edit, Bump, Enqueue
  <1>8. ASSUME Delete \/ Sweep \/ RetryWindowPasses \/ LoseLock \/ UNCHANGED vars
        PROVE  HonestRuns'
    BY <1>2, <1>8 DEF Delete, Sweep, RetryWindowPasses, LoseLock, vars
  <1> QED
    BY <1>3, <1>4, <1>5, <1>6, <1>7, <1>8 DEF Next, EditorStep

(* How a step may change what the index holds.                              *)
LEMMA IndexChanges ==
  ASSUME TypeOK, [Next]_vars
  PROVE  \/ /\ index'.chunks = index.chunks /\ index'.version = index.version
            /\ index'.state = "ready" => index.state = "ready"
         \/ index'.chunks = NoDoc /\ index'.state # "ready"
         \/ \E w \in Workers :
              /\ run[w].pc = "write" /\ run[w].version = meeting.version /\ meeting.alive
              /\ index' = Indexed(run[w])
              /\ UNCHANGED <<meeting, editor>>
  <1> DEFINE Same == /\ index'.chunks = index.chunks /\ index'.version = index.version
                     /\ index'.state = "ready" => index.state = "ready"
             Gone == index'.chunks = NoDoc /\ index'.state # "ready"
  <1>1. index \in Index
    BY DEF TypeOK
  <1>2. ASSUME UNCHANGED index PROVE Same
    BY <1>2
  <1>3. ASSUME NEW e \in Editors, Mark(e) PROVE Same
    BY <1>1, <1>3 DEF Mark, Index
  <1>4. ASSUME RetryWindowPasses PROVE Same
    BY <1>1, <1>4 DEF RetryWindowPasses, Index
  <1>5. ASSUME NEW w \in Workers, MarkFailed(w) PROVE Same
    BY <1>1, <1>5 DEF MarkFailed, Index
  <1>6. ASSUME Delete PROVE Gone
    BY <1>6 DEF Delete, NoIndex
  <1>7. ASSUME NEW w \in Workers, MarkSkipped(w) PROVE Same \/ Gone
    BY <1>7 DEF MarkSkipped
  <1>8. ASSUME NEW w \in Workers, WriteIndex(w)
        PROVE  \/ Same
               \/ /\ run[w].pc = "write" /\ run[w].version = meeting.version /\ meeting.alive
                  /\ index' = Indexed(run[w])
                  /\ UNCHANGED <<meeting, editor>>
    BY <1>8 DEF WriteIndex, Store
  <1>9. ASSUME NEW w \in Workers,
               Take(w) \/ RunInline(w) \/ LoadBase(w) \/ LoadParts(w) \/ ReadHashes(w)
                 \/ Embed(w) \/ EmbedFails(w) \/ Crash(w)
        PROVE  UNCHANGED index
    BY <1>9 DEF Take, RunInline, Start, LoadBase, LoadParts, ReadHashes, Embed, EmbedFails,
       Crash
  <1>10. ASSUME NEW e \in Editors,
                EditTranscript(e) \/ RenameSpeaker(e) \/ EditNotes(e) \/ SaveSummary(e)
                  \/ Bump(e) \/ Enqueue(e)
         PROVE  UNCHANGED index
    BY <1>10 DEF EditTranscript, RenameSpeaker, EditNotes, SaveSummary, Edit, Bump, Enqueue
  <1>11. ASSUME Sweep \/ LoseLock \/ UNCHANGED vars PROVE UNCHANGED index
    BY <1>11 DEF Sweep, LoseLock, vars
  <1> HIDE DEF Same, Gone
  <1>12. \/ Same \/ Gone
         \/ \E w \in Workers :
              /\ run[w].pc = "write" /\ run[w].version = meeting.version /\ meeting.alive
              /\ index' = Indexed(run[w])
              /\ UNCHANGED <<meeting, editor>>
    BY <1>2, <1>3, <1>4, <1>5, <1>6, <1>7, <1>8, <1>9, <1>10, <1>11
       DEF Next, EditorStep, RunStep
  <1> QED
    BY <1>12 DEF Same, Gone

(* A transcript that is written is the meeting's, or a rename is on its way.*)
LEMMA WritesCurrent ==
  ASSUME TypeOK, HonestRuns, NEW w \in Workers, run[w].pc = "write",
         run[w].version = meeting.version, meeting.alive
  PROVE  /\ Indexed(run[w]).state = "ready"
         /\ Indexed(run[w]).chunks = run[w].doc
         /\ Indexed(run[w]).version = meeting.version
         /\ run[w].doc \in Doc /\ run[w].doc # NoDoc /\ run[w].doc.text <= meeting.text
         /\ run[w].doc.text = meeting.text \/ Renaming
  <1>1. run[w].doc \in Doc
    BY DEF TypeOK, Run
  <1>2. run[w].doc # NoDoc
    BY <1>1, IndexAssumption DEF Doc
  <1>3. run[w].doc.text <= meeting.text /\ (run[w].doc.text = meeting.text \/ Renaming)
    BY DEF HonestRuns, HonestRun, Loaded, Open
  <1> DEFINE mode == IF CoversAllChunks(run[w]) THEN "hybrid" ELSE "lexical"
  <1>6. Indexed(run[w]) = [state |-> "ready", mode |-> mode, version |-> run[w].version,
           chunks |-> run[w].doc, marked |-> run[w].marked, retry |-> FALSE]
    BY DEF Indexed
  <1> HIDE DEF mode
  <1> QED
    BY <1>1, <1>2, <1>3, <1>6

(* Every step keeps the index honest, and takes its transcript back only    *)
(* when a rename is on its way.                                             *)
LEMMA HonestIndexNext ==
  ASSUME HonestInv, [Next]_vars, "bump" \notin Faults
  PROVE  /\ HonestIndex'
         /\ index.chunks # NoDoc /\ index'.chunks # NoDoc /\ ~Renaming
              => index'.chunks.text >= index.chunks.text
  <1> USE DEF HonestInv
  <1>1. Grown /\ meeting.text \in Nat /\ meeting.version \in Nat
    BY MeetingGrows DEF TypeOK, Meeting
  <1>2. index.chunks # NoDoc => index.chunks.text \in Nat
    BY DEF TypeOK, Index, Doc
  <1>3. CASE /\ index'.chunks = index.chunks /\ index'.version = index.version
             /\ index'.state = "ready" => index.state = "ready"
    <2>1. index'.chunks # NoDoc => index'.chunks.text <= meeting'.text
      BY <1>1, <1>2, <1>3 DEF HonestIndex, Grown
    <2>2. ASSUME index'.state = "ready"
          PROVE  /\ meeting'.alive /\ index'.version \in Nat
                 /\ index'.version <= meeting'.version
                 /\ index'.chunks # NoDoc
                 /\ index'.version = meeting'.version
                      => index'.chunks.text = meeting'.text \/ Renaming'
      <3>1. /\ meeting.alive /\ meeting'.alive
            /\ index.version \in Nat /\ index.version <= meeting.version
        BY <1>3, <2>2, AliveStays DEF HonestIndex
      <3>2. /\ index.chunks # NoDoc
            /\ index.version = meeting.version
                 => index.chunks.text = meeting.text \/ Renaming
        BY <1>3, <2>2 DEF HonestIndex, VersionIsHonest
      <3>3. index.version <= meeting'.version
        BY <1>1, <3>1 DEF Grown
      <3>4. ASSUME index.version = meeting'.version
            PROVE  index.chunks.text = meeting'.text \/ Renaming'
        <4>1. index.version = meeting.version /\ meeting'.version = meeting.version
          BY <1>1, <3>1, <3>4 DEF Grown
        <4> QED
          BY <1>1, <3>1, <3>2, <4>1 DEF Grown, Open
      <3> QED
        BY <1>3, <3>1, <3>2, <3>3, <3>4
    <2>3. VersionIsHonest'
      BY <2>2 DEF VersionIsHonest
    <2>4. index.chunks # NoDoc => index'.chunks.text >= index.chunks.text
      BY <1>2, <1>3
    <2> QED
      BY <2>1, <2>2, <2>3, <2>4 DEF HonestIndex
  <1>4. CASE index'.chunks = NoDoc /\ index'.state # "ready"
    BY <1>4 DEF HonestIndex, VersionIsHonest
  <1>5. ASSUME NEW w \in Workers, run[w].pc = "write", run[w].version = meeting.version,
               meeting.alive, index' = Indexed(run[w]), UNCHANGED <<meeting, editor>>
        PROVE  /\ HonestIndex'
               /\ index.chunks # NoDoc /\ ~Renaming => index'.chunks.text >= index.chunks.text
    <2>1. /\ index'.state = "ready" /\ index'.chunks = run[w].doc
          /\ index'.version = meeting.version
          /\ run[w].doc # NoDoc /\ run[w].doc.text <= meeting.text
          /\ run[w].doc.text = meeting.text \/ Renaming
      BY <1>5, WritesCurrent
    <2>2. index.chunks # NoDoc => index.chunks.text <= meeting.text
      BY DEF HonestIndex
    <2>3. Renaming' = Renaming /\ meeting' = meeting
      BY <1>5 DEF Renaming
    <2>4. VersionIsHonest'
      BY <2>1, <2>3 DEF VersionIsHonest
    <2>5. HonestIndex'
      BY <1>1, <1>5, <2>1, <2>3, <2>4 DEF HonestIndex
    <2> QED
      BY <1>1, <1>2, <2>1, <2>2, <2>5
  <1> QED
    BY <1>3, <1>4, <1>5, IndexChanges

(* The honest states are closed under every step.                           *)
LEMMA HonestNext ==
  ASSUME "bump" \notin Faults
  PROVE  HonestInv /\ [Next]_vars => HonestInv'
  BY TypeNext, HonestRunsNext, HonestIndexNext DEF HonestInv

(* The initial state is honest.                                             *)
LEMMA HonestInit == Init => HonestInv
  <1> SUFFICES ASSUME Init PROVE HonestInv
    OBVIOUS
  <1>1. \A w \in Workers : run[w] = Idle
    BY DEF Init
  <1>2. HonestRuns
    BY <1>1, HonestStart DEF HonestRuns
  <1>3. HonestIndex
    BY DEF Init, NoIndex, HonestIndex, VersionIsHonest
  <1> QED
    BY <1>2, <1>3, TypeInit DEF HonestInv

(* An index that claims the meeting's version has the meeting's transcript, *)
(* for any number of overlapping runs, unless a rename is between its two   *)
(* statements, or failed between them once.                                 *)
THEOREM IndexIsHonest ==
  ASSUME "bump" \notin Faults
  PROVE  Spec => []VersionIsHonest
  <1>1. HonestInv => VersionIsHonest
    BY DEF HonestInv, HonestIndex
  <1> QED
    BY <1>1, HonestInit, HonestNext, PTL DEF Spec

(* Overlapping runs never put an older transcript back over a newer one,    *)
(* with the same exception.                                                 *)
THEOREM NeverBack ==
  ASSUME "bump" \notin Faults
  PROVE  Spec => TranscriptNeverGoesBack
  <1>1. HonestInv /\ [Next]_vars
          => [index.chunks # NoDoc /\ index'.chunks # NoDoc /\ ~Renaming
                => index'.chunks.text >= index.chunks.text]_vars
    BY HonestIndexNext
  <1> QED
    BY <1>1, HonestInit, HonestNext, PTL DEF Spec, TranscriptNeverGoesBack

-----------------------------------------------------------------------------
(* When the meeting has a transcript from the start and no mark is lost, a  *)
(* run or an index whose notes are not the meeting's is marked, or is about *)
(* to be: the edit that made the difference marks after it commits, and a   *)
(* run copies into the index every mark that came after its start.          *)

MarkDue == \E e \in Editors : editor[e] \in {"bump", "mark"}

SeenRun(r, notes, due) ==
  /\ r.pc # "skip"
  /\ r.pc \in Past /\ r.doc.notes # notes => r.marked \/ due

SeenRuns == \A w \in Workers : SeenRun(run[w], meeting.notes, MarkDue)

SeenIndex ==
  /\ index.state # "skipped"
  /\ meeting.alive /\ index.state = "ready" /\ index.chunks.notes # meeting.notes
       => index.marked \/ MarkDue

SeenInv == HonestInv /\ meeting.text > 0 /\ SeenRuns /\ SeenIndex

(* The invariant says what the property asks for.                           *)
LEMMA SeenImplies == SeenInv => LagIsSeen /\ SkipHidesNothing
  <1> SUFFICES ASSUME SeenInv, Lags, ~Stale, index.state # "failed" PROVE MarkDue
    BY DEF LagIsSeen, SkipHidesNothing, MarkDue
  <1>1. index.state = "ready" /\ index.version = meeting.version /\ ~index.marked
    BY DEF Stale, SeenInv, SeenIndex, HonestInv, TypeOK, Index
  <1>2. index.chunks # NoDoc /\ (index.chunks.text = meeting.text \/ MarkDue)
    BY <1>1 DEF SeenInv, HonestInv, HonestIndex, VersionIsHonest, Renaming, MarkDue
  <1>3. index.chunks \in Doc /\ meeting \in Meeting
    BY <1>2 DEF SeenInv, HonestInv, TypeOK, Index
  <1>4. index.chunks.notes # meeting.notes \/ MarkDue
    <2> SUFFICES ASSUME index.chunks.notes = meeting.notes, ~MarkDue PROVE FALSE
      OBVIOUS
    <2>1. index.chunks = Current
      BY <1>2, <1>3 DEF Doc, Current
    <2> QED
      BY <2>1 DEF Lags
  <1> QED
    BY <1>1, <1>4 DEF SeenInv, SeenIndex, Lags

(* One worker's run set to a seen one, meeting and requests as they were.   *)
LEMMA SetSeen ==
  ASSUME TypeOK, SeenRuns, NEW w \in Workers, NEW r, SeenRun(r, meeting.notes, MarkDue),
         SetRun(w, r), UNCHANGED <<meeting, editor>>
  PROVE  SeenRuns'
  BY DEF SeenRuns, SetRun, TypeOK, MarkDue

(* A run that has not read anything lags behind nothing.                    *)
LEMMA SeenStart ==
  \A n, due : SeenRun(Idle, n, due) /\ SeenRun([Idle EXCEPT !.pc = "base"], n, due)
  <1>1. Idle.pc = "idle" /\ [Idle EXCEPT !.pc = "base"].pc = "base"
    BY DEF Idle
  <1> QED
    BY <1>1 DEF SeenRun, Past

(* The steps of a run keep every run seen.                                  *)
LEMMA SeenRunning ==
  ASSUME SeenInv, NEW w \in Workers
  PROVE  RunStep(w) \/ EmbedFails(w) => SeenRuns'
  <1>1. /\ TypeOK /\ SeenRuns
        /\ run[w] \in Run /\ meeting.text > 0 /\ SeenRun(run[w], meeting.notes, MarkDue)
    BY DEF SeenInv, HonestInv, TypeOK, SeenRuns
  <1>2. ASSUME Return(w) \/ Fail(w), UNCHANGED <<meeting, editor>> PROVE SeenRuns'
    BY <1>1, <1>2, SeenStart, SetSeen DEF Return, Fail
  <1>3. ASSUME LoadBase(w) PROVE SeenRuns'
    <2> DEFINE r == [run[w] EXCEPT !.pc = "parts", !.version = meeting.version,
                       !.doc = [text |-> 0, notes |-> meeting.notes]]
    <2>1. r.pc = "parts" /\ r.doc = [text |-> 0, notes |-> meeting.notes]
      BY <1>1 DEF Run
    <2>2. CASE meeting.alive
      <3>1. SetRun(w, r) /\ UNCHANGED <<meeting, editor>>
        BY <1>3, <2>2 DEF LoadBase
      <3> HIDE DEF r
      <3>2. SeenRun(r, meeting.notes, MarkDue)
        BY <2>1 DEF SeenRun
      <3> QED
        BY <1>1, <3>1, <3>2, SetSeen
    <2>3. CASE ~meeting.alive
      BY <1>2, <1>3, <2>3 DEF LoadBase
    <2> QED
      BY <2>2, <2>3
  <1>4. ASSUME NEW r, r.pc # "skip", r.doc.notes = run[w].doc.notes,
               r.marked = run[w].marked, run[w].pc \in Past, SetRun(w, r),
               UNCHANGED <<meeting, editor>>
        PROVE  SeenRuns'
    <2>1. SeenRun(r, meeting.notes, MarkDue)
      BY <1>1, <1>4 DEF SeenRun
    <2> QED
      BY <1>1, <1>4, <2>1, SetSeen
  <1>5. ASSUME LoadParts(w) PROVE SeenRuns'
    <2> DEFINE pc == IF ~Usable THEN "skip" ELSE IF HasVectors THEN "have" ELSE "write"
               doc == [text |-> meeting.text, notes |-> run[w].doc.notes]
               r == [run[w] EXCEPT !.pc = pc, !.doc = doc]
    <2>1. pc # "skip" /\ doc.notes = run[w].doc.notes
      BY <1>1 DEF Usable
    <2>2. SetRun(w, r) /\ UNCHANGED <<meeting, editor>> /\ run[w].pc \in Past
      BY <1>5 DEF LoadParts, Past
    <2> HIDE DEF pc, doc
    <2>3. r.pc # "skip" /\ r.doc.notes = run[w].doc.notes /\ r.marked = run[w].marked
      BY <1>1, <2>1 DEF Run
    <2> HIDE DEF r
    <2> QED
      BY <1>4, <2>2, <2>3
  <1>6. ASSUME ReadHashes(w) PROVE SeenRuns'
    <2> DEFINE r == [run[w] EXCEPT
                 !.pc = IF Hashes(run[w].doc) \subseteq vectors THEN "write" ELSE "embed",
                 !.have = vectors]
    <2>1. r.pc # "skip" /\ r.doc.notes = run[w].doc.notes /\ r.marked = run[w].marked
      BY <1>1 DEF Run
    <2>2. SetRun(w, r) /\ UNCHANGED <<meeting, editor>> /\ run[w].pc \in Past
      BY <1>6 DEF ReadHashes, Past
    <2> HIDE DEF r
    <2> QED
      BY <1>4, <2>1, <2>2
  <1>7. ASSUME Embed(w) PROVE SeenRuns'
    <2> DEFINE ms == Misses(run[w])
               r == [run[w] EXCEPT !.pc = "write", !.made = ms]
    <2>1. SetRun(w, r) /\ UNCHANGED <<meeting, editor>> /\ run[w].pc \in Past
      BY <1>7 DEF Embed, Past
    <2> HIDE DEF ms
    <2>2. r.pc # "skip" /\ r.doc.notes = run[w].doc.notes /\ r.marked = run[w].marked
      BY <1>1 DEF Run
    <2> HIDE DEF r
    <2> QED
      BY <1>4, <2>1, <2>2
  <1>8. ASSUME EmbedFails(w) PROVE SeenRuns'
    <2> DEFINE pc == IF Hashes(run[w].doc) \cap run[w].have = {} THEN "fail" ELSE "write"
               r == [run[w] EXCEPT !.pc = pc]
    <2>1. SetRun(w, r) /\ UNCHANGED <<meeting, editor>> /\ run[w].pc \in Past
      BY <1>8 DEF EmbedFails, Past
    <2>2. pc # "skip"
      OBVIOUS
    <2> HIDE DEF pc
    <2>3. r.pc # "skip" /\ r.doc.notes = run[w].doc.notes /\ r.marked = run[w].marked
      BY <1>1, <2>2 DEF Run
    <2> HIDE DEF r
    <2> QED
      BY <1>4, <2>1, <2>3
  <1>9. ASSUME MarkSkipped(w) \/ MarkFailed(w) \/ WriteIndex(w) PROVE SeenRuns'
    BY <1>2, <1>9 DEF MarkSkipped, MarkFailed, WriteIndex, Store
  <1> QED
    BY <1>3, <1>5, <1>6, <1>7, <1>8, <1>9 DEF RunStep

(* Only a mark ends an edit's need to mark.                                 *)
LEMMA DueStays ==
  ASSUME TypeOK, [Next]_vars, "bump" \notin Faults, MarkDue
  PROVE  MarkDue' \/ \E e \in Editors : Mark(e)
  <1>1. PICK d \in Editors : editor[d] \in {"bump", "mark"}
    BY DEF MarkDue
  <1>2. UNCHANGED editor => MarkDue'
    BY <1>1 DEF MarkDue
  <1>3. ASSUME NEW e \in Editors, \A c \in Editors : c # e => editor'[c] = editor[c],
               editor'[e] = "mark" \/ editor[e] \notin {"bump", "mark"}
        PROVE  MarkDue'
    BY <1>1, <1>3 DEF MarkDue
  <1>4. ASSUME NEW e \in Editors, (\E m, next : Edit(e, m, next)) \/ Enqueue(e)
        PROVE  editor[e] \notin {"bump", "mark"}
    BY <1>4 DEF Edit, Enqueue
  <1> QED
    BY <1>2, <1>3, <1>4, EditorMoves

(* An edit is followed by a mark.                                           *)
LEMMA EditIsDue ==
  ASSUME TypeOK, NEW e \in Editors,
         EditTranscript(e) \/ RenameSpeaker(e) \/ EditNotes(e) \/ SaveSummary(e)
  PROVE  MarkDue' /\ UNCHANGED <<run, index>>
  <1>1. PICK m : Edit(e, m, "bump") \/ Edit(e, m, "mark")
    BY DEF EditTranscript, RenameSpeaker, EditNotes, SaveSummary
  <1>2. editor'[e] \in {"bump", "mark"}
    BY <1>1 DEF Edit, TypeOK
  <1> QED
    BY <1>1, <1>2 DEF MarkDue, Edit

(* Nothing but an edit changes the notes or brings a meeting to life.       *)
LEMMA NotesStay ==
  ASSUME TypeOK, [Next]_vars
  PROVE  \/ \E e \in Editors : EditTranscript(e) \/ RenameSpeaker(e) \/ EditNotes(e) \/ SaveSummary(e)
         \/ meeting'.notes = meeting.notes /\ (meeting'.alive => meeting.alive)
  <1>1. meeting \in Meeting
    BY DEF TypeOK
  <1>2. Delete => meeting'.notes = meeting.notes /\ ~meeting'.alive
    BY <1>1 DEF Delete, Meeting
  <1>3. ASSUME NEW e \in Editors, Bump(e)
        PROVE  meeting'.notes = meeting.notes /\ (meeting'.alive => meeting.alive)
    BY <1>1, <1>3 DEF Bump, Meeting
  <1> QED
    BY <1>2, <1>3, MeetingSteps

(* A mark that is not lost marks every run that reads, and the index.       *)
LEMMA MarkReaches ==
  ASSUME TypeOK, NEW e \in Editors, Mark(e), Faults \cap {"mark", "bump"} = {}
  PROVE  /\ \A w \in Workers : /\ run'[w].pc = run[w].pc
                               /\ run[w].pc # "idle" => run'[w].marked
         /\ index'.state = index.state
         /\ meeting.alive => index'.marked
         /\ UNCHANGED meeting
  <1>1. /\ index' = IF meeting.alive THEN [index EXCEPT !.marked = TRUE] ELSE index
        /\ run' = [w \in Workers |-> [run[w] EXCEPT !.marked = run[w].pc # "idle"]]
        /\ UNCHANGED meeting
    BY DEF Mark, Fault
  <1>2. index \in Index
    BY DEF TypeOK
  <1>3. index'.state = index.state /\ (meeting.alive => index'.marked)
    BY <1>1, <1>2 DEF Index
  <1>4. ASSUME NEW w \in Workers
        PROVE  run'[w].pc = run[w].pc /\ (run[w].pc # "idle" => run'[w].marked)
    <2>1. run[w] \in Run
      BY DEF TypeOK
    <2>2. run'[w] = [run[w] EXCEPT !.marked = run[w].pc # "idle"]
      BY <1>1
    <2>3. run'[w].pc = run[w].pc /\ run'[w].marked = (run[w].pc # "idle")
      BY <2>1, <2>2 DEF Run
    <2> QED
      BY <2>3
  <1> QED
    BY <1>1, <1>3, <1>4

(* Every step keeps the runs seen.                                          *)
LEMMA SeenRunsNext ==
  ASSUME SeenInv, [Next]_vars, Faults \cap {"mark", "bump"} = {}
  PROVE  SeenRuns'
  <1>1. TypeOK /\ SeenRuns
    BY DEF SeenInv, HonestInv
  <1>2. ASSUME NEW e \in Editors, EditTranscript(e) \/ RenameSpeaker(e) \/ EditNotes(e) \/ SaveSummary(e)
        PROVE  SeenRuns'
    <2>1. MarkDue' /\ UNCHANGED run
      BY <1>1, <1>2, EditIsDue
    <2> QED
      BY <1>1, <2>1 DEF SeenRuns, SeenRun
  <1>3. ASSUME NEW e \in Editors, Mark(e) PROVE SeenRuns'
    <2> SUFFICES ASSUME NEW w \in Workers
                 PROVE  SeenRun(run'[w], meeting'.notes, MarkDue')
      BY DEF SeenRuns
    <2>1. /\ run'[w].pc = run[w].pc
          /\ run[w].pc # "idle" => run'[w].marked
      BY <1>1, <1>3, MarkReaches
    <2>2. run[w].pc # "skip"
      BY <1>1 DEF SeenRuns, SeenRun
    <2> QED
      BY <2>1, <2>2 DEF SeenRun, Past
  <1>4. ASSUME NEW w \in Workers, Take(w) \/ RunInline(w) PROVE SeenRuns'
    BY <1>1, <1>4, SeenStart, SetSeen DEF Take, RunInline, Start
  <1>5. ASSUME NEW w \in Workers, Crash(w) PROVE SeenRuns'
    BY <1>1, <1>5, SeenStart, SetSeen DEF Crash
  <1>6. ASSUME NEW w \in Workers, RunStep(w) \/ EmbedFails(w) PROVE SeenRuns'
    BY <1>6, SeenRunning
  <1>7. ASSUME UNCHANGED run, meeting'.notes = meeting.notes, MarkDue => MarkDue'
        PROVE  SeenRuns'
    BY <1>1, <1>7 DEF SeenRuns, SeenRun
  <1>8. ASSUME NEW e \in Editors, Enqueue(e) PROVE SeenRuns'
    <2>1. MarkDue => MarkDue'
      BY <1>1, <1>8 DEF Enqueue, MarkDue, TypeOK
    <2> QED
      BY <1>7, <1>8, <2>1 DEF Enqueue
  <1>10. ASSUME NEW e \in Editors, Bump(e) PROVE SeenRuns'
    <2>1. editor' = [editor EXCEPT ![e] = "mark"]
      BY <1>10 DEF Bump, Fault
    <2>3. MarkDue'
      BY <1>1, <2>1 DEF MarkDue, TypeOK
    <2>2. UNCHANGED run /\ meeting'.notes = meeting.notes
      BY <1>1, <1>10 DEF Bump, TypeOK, Meeting
    <2> QED
      BY <1>7, <2>3, <2>2
  <1>9. ASSUME Delete \/ Sweep \/ RetryWindowPasses \/ LoseLock \/ UNCHANGED vars
        PROVE  SeenRuns'
    <2>1. UNCHANGED run /\ UNCHANGED editor
      BY <1>9 DEF Delete, Sweep, RetryWindowPasses, LoseLock, vars
    <2>2. meeting'.notes = meeting.notes
      BY <1>1, <1>9 DEF Delete, Sweep, RetryWindowPasses, LoseLock, vars, TypeOK, Meeting
    <2> QED
      BY <1>7, <2>1, <2>2 DEF MarkDue
  <1> QED
    BY <1>2, <1>3, <1>4, <1>5, <1>6, <1>8, <1>9, <1>10 DEF Next, EditorStep

(* How a step may change whether the index lags unseen.                     *)
LEMMA SeenIndexChanges ==
  ASSUME TypeOK, [Next]_vars, \A w \in Workers : run[w].pc # "skip"
  PROVE  \/ \E e \in Editors : EditTranscript(e) \/ RenameSpeaker(e) \/ EditNotes(e) \/ SaveSummary(e)
         \/ \E e \in Editors : Mark(e)
         \/ index'.state \notin {"ready", "skipped"}
         \/ index' = index
         \/ index'.state = index.state /\ index'.state # "ready"
         \/ \E w \in Workers :
              run[w].pc = "write" /\ index' = Indexed(run[w]) /\ UNCHANGED <<meeting, editor>>
  <1>1. index \in Index
    BY DEF TypeOK
  <1>2. RetryWindowPasses => index'.state \notin {"ready", "skipped"}
    BY <1>1 DEF RetryWindowPasses, Index
  <1>3. ASSUME NEW w \in Workers, MarkFailed(w)
        PROVE  index'.state \notin {"ready", "skipped"} \/ index' = index
    BY <1>1, <1>3 DEF MarkFailed, Index
  <1>4. Delete => index'.state \notin {"ready", "skipped"}
    BY DEF Delete, NoIndex
  <1>5. ASSUME NEW w \in Workers PROVE ~MarkSkipped(w)
    BY DEF MarkSkipped
  <1>6. ASSUME NEW w \in Workers, WriteIndex(w)
        PROVE  \/ index' = index
               \/ run[w].pc = "write" /\ index' = Indexed(run[w])
                    /\ UNCHANGED <<meeting, editor>>
    BY <1>6 DEF WriteIndex, Store
  <1>7. ASSUME NEW w \in Workers,
               Take(w) \/ RunInline(w) \/ LoadBase(w) \/ LoadParts(w) \/ ReadHashes(w)
                 \/ Embed(w) \/ EmbedFails(w) \/ Crash(w)
        PROVE  UNCHANGED index
    BY <1>7 DEF Take, RunInline, Start, LoadBase, LoadParts, ReadHashes, Embed, EmbedFails,
       Crash
  <1>8. \A e \in Editors : Bump(e) \/ Enqueue(e) => UNCHANGED index
    BY DEF Bump, Enqueue
  <1>9. Sweep \/ LoseLock \/ UNCHANGED vars => UNCHANGED index
    BY DEF Sweep, LoseLock, vars
  <1> QED
    BY <1>2, <1>3, <1>4, <1>5, <1>6, <1>7, <1>8, <1>9 DEF Next, EditorStep, RunStep

(* Every step keeps the index seen.                                         *)
LEMMA SeenIndexNext ==
  ASSUME SeenInv, [Next]_vars, Faults \cap {"mark", "bump"} = {}
  PROVE  SeenIndex'
  <1>1. TypeOK /\ SeenRuns /\ SeenIndex
    BY DEF SeenInv, HonestInv
  <1>2. \A w \in Workers : run[w].pc # "skip"
    BY <1>1 DEF SeenRuns, SeenRun
  <1>3. ASSUME NEW e \in Editors, EditTranscript(e) \/ RenameSpeaker(e) \/ EditNotes(e) \/ SaveSummary(e)
        PROVE  SeenIndex'
    <2>1. MarkDue' /\ UNCHANGED index
      BY <1>1, <1>3, EditIsDue
    <2> QED
      BY <1>1, <2>1 DEF SeenIndex
  <1>4. ASSUME NEW e \in Editors, Mark(e) PROVE SeenIndex'
    <2>1. /\ index'.state = index.state
          /\ meeting.alive => index'.marked
          /\ UNCHANGED meeting
      BY <1>1, <1>4, MarkReaches
    <2> QED
      BY <1>1, <2>1 DEF SeenIndex
  <1>5. CASE index'.state \notin {"ready", "skipped"}
    BY <1>5 DEF SeenIndex
  <1>6. CASE index' = index
    <2>1. CASE \E e \in Editors : EditTranscript(e) \/ RenameSpeaker(e) \/ EditNotes(e) \/ SaveSummary(e)
      BY <1>3, <2>1
    <2>2. CASE \E e \in Editors : Mark(e)
      BY <1>4, <2>2
    <2>3. CASE /\ meeting'.notes = meeting.notes /\ (meeting'.alive => meeting.alive)
               /\ ~\E e \in Editors : Mark(e)
      <3>1. MarkDue => MarkDue'
        BY <1>1, <2>3, DueStays
      <3> QED
        BY <1>1, <1>6, <2>3, <3>1 DEF SeenIndex
    <2> QED
      BY <1>1, <2>1, <2>2, <2>3, NotesStay
  <1>7. CASE index'.state = index.state /\ index'.state # "ready"
    BY <1>1, <1>7 DEF SeenIndex
  <1>8. ASSUME NEW w \in Workers, run[w].pc = "write", index' = Indexed(run[w]),
               UNCHANGED <<meeting, editor>>
        PROVE  SeenIndex'
    <2> DEFINE mode == IF CoversAllChunks(run[w]) THEN "hybrid" ELSE "lexical"
    <2>1. Indexed(run[w]) = [state |-> "ready", mode |-> mode, version |-> run[w].version,
             chunks |-> run[w].doc, marked |-> run[w].marked, retry |-> FALSE]
      BY DEF Indexed
    <2> HIDE DEF mode
    <2>2. /\ index'.state = "ready" /\ index'.chunks = run[w].doc
          /\ index'.marked = run[w].marked
      BY <1>8, <2>1
    <2>3. run[w].doc.notes # meeting.notes => run[w].marked \/ MarkDue
      BY <1>1, <1>8 DEF SeenRuns, SeenRun, Past
    <2>4. MarkDue' = MarkDue
      BY <1>8 DEF MarkDue
    <2> QED
      BY <1>8, <2>2, <2>3, <2>4 DEF SeenIndex
  <1> QED
    BY <1>1, <1>2, <1>3, <1>4, <1>5, <1>6, <1>7, <1>8, SeenIndexChanges

(* The index of a meeting that starts with a transcript never lags unseen,  *)
(* unless the mark of an edit is lost: at every moment the sweeper would    *)
(* select the meeting, or its indexing failed and waits, or the request     *)
(* that edited it is about to mark it.                                      *)
THEOREM LagNeverUnseen ==
  ASSUME 0 \notin StartTexts, Faults \cap {"mark", "bump"} = {}
  PROVE  Spec => [](LagIsSeen /\ SkipHidesNothing)
  <1>1. Init => SeenInv
    <2> SUFFICES ASSUME Init PROVE SeenInv
      OBVIOUS
    <2>1. \A w \in Workers : run[w] = Idle
      BY DEF Init
    <2>2. SeenRuns
      BY <2>1, SeenStart DEF SeenRuns
    <2>3. meeting.text > 0 /\ SeenIndex
      BY IndexAssumption DEF Init, NoIndex, SeenIndex
    <2> QED
      BY <2>2, <2>3, HonestInit DEF SeenInv
  <1>2. SeenInv /\ [Next]_vars => SeenInv'
    <2> SUFFICES ASSUME SeenInv, [Next]_vars PROVE SeenInv'
      OBVIOUS
    <2>1. HonestInv'
      BY HonestNext DEF SeenInv
    <2>2. meeting'.text > 0
      BY MeetingGrows DEF SeenInv, HonestInv, Grown, TypeOK, Meeting
    <2> QED
      BY <2>1, <2>2, SeenRunsNext, SeenIndexNext DEF SeenInv
  <1> QED
    BY <1>1, <1>2, SeenImplies, PTL DEF Spec
=============================================================================
