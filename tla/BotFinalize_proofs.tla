-------------------------- MODULE BotFinalize_proofs --------------------------
(***************************************************************************)
(* Proofs about BotFinalize, for any number of workers, attempts, stalls,  *)
(* crashes, faults and workers that outlive their lock: the import is one  *)
(* ingest (it implements IngestOnce); what is erased at Vexa is held or    *)
(* was given up on; assets, claims and stored objects are counted; what    *)
(* was imported or processed stays so while no claim is taken over; and    *)
(* a job that is over left an answer.                                      *)
(***************************************************************************)
EXTENDS BotFinalize, FiniteSetTheorems, TLAPS

(* Wherever a worker goes, its run stays a run.                             *)
LEMMA MovesType ==
  ASSUME Typed, NEW w \in Runs
  PROVE  /\ \A place \in Places : Goto(w, place) => run' \in [Runs -> Run]
         /\ \A why \in {"pending", "error", "permanent"} : Throw(w, why) => run' \in [Runs -> Run]
         /\ Stop(w) => run' \in [Runs -> Run]
  <1>1. run \in [Runs -> Run] /\ run[w] \in Run
    BY DEF Typed
  <1>2. "fail" \in Places /\ "idle" \in Places
    BY DEF Places
  <1>3. ASSUME NEW place \in Places, Goto(w, place) PROVE run' \in [Runs -> Run]
    <2>1. [run[w] EXCEPT !.at = place] \in Run
      BY <1>1 DEF Run
    <2> QED
      BY <1>1, <1>3, <2>1 DEF Goto
  <1>4. ASSUME NEW why \in {"pending", "error", "permanent"}, Throw(w, why)
        PROVE  run' \in [Runs -> Run]
    <2>1. [run[w] EXCEPT !.at = "fail", !.why = why] \in Run
      BY <1>1, <1>2 DEF Run
    <2> QED
      BY <1>1, <1>4, <2>1 DEF Throw
  <1>5. ASSUME Stop(w) PROVE run' \in [Runs -> Run]
    <2>1. Idle \in Run
      BY <1>2 DEF Idle, Run
    <2> QED
      BY <1>1, <1>5, <2>1 DEF Stop
  <1> QED
    BY <1>3, <1>4, <1>5

(* Where the others are does not change when a worker moves.                *)
LEMMA MovesOne ==
  ASSUME Typed, NEW w \in Runs
  PROVE  /\ \A place : Goto(w, place) => \A v \in Runs : run'[v].at = IF v = w THEN place ELSE run[v].at
         /\ \A why : Throw(w, why) => \A v \in Runs : run'[v].at = IF v = w THEN "fail" ELSE run[v].at
         /\ Stop(w) => \A v \in Runs : run'[v].at = IF v = w THEN "idle" ELSE run[v].at
  <1>1. run \in [Runs -> Run] /\ run[w] \in Run
    BY DEF Typed
  <1> QED
    BY <1>1 DEF Goto, Throw, Stop, Idle, Run

(* Types are kept.                                                          *)
LEMMA TypedStep ==
  ASSUME Typed, [Next]_vars
  PROVE  Typed'
  <1>1. CASE Queue
    <2>1. CASE Ask \/ Stall
      BY <2>1 DEF Typed, Ask, Stall, session, store
    <2>2. ASSUME NEW w \in Runs, Take(w) PROVE Typed'
      <3>1. \A final \in BOOLEAN : [Idle EXCEPT !.at = "load", !.final = final] \in Run
        BY DEF Idle, Run, Places
      <3>2. (job.made + 1 >= Attempts) \in BOOLEAN
        OBVIOUS
      <3> QED
        BY <2>2, <3>1, <3>2 DEF Typed, Take, session, store
    <2> QED
      BY <1>1, <2>1, <2>2 DEF Queue
  <1>2. ASSUME NEW w \in Runs, Step(w) PROVE Typed'
    <2>1. /\ \A place \in Places : Goto(w, place) => run' \in [Runs -> Run]
          /\ \A why \in {"pending", "error", "permanent"} : Throw(w, why) => run' \in [Runs -> Run]
          /\ Stop(w) => run' \in [Runs -> Run]
      BY MovesType
    <2>2. \A place \in {"meeting", "gone", "claim", "locate", "missing", "find", "stream", "look", "mark", "asset", "promote", "half", "undo", "check", "commit", "fail", "busy"} : place \in Places
      BY DEF Places
    <2>3. CASE Load(w)
      BY <2>3, <2>1, <2>2 DEF Typed, Load, session, store
    <2>4. CASE ReadMeeting(w)
      BY <2>4, <2>1, <2>2 DEF Typed, ReadMeeting, session, store
    <2>5. CASE Gone(w)
      BY <2>5, <2>1, <2>2 DEF Typed, Gone, SetRec, session, store, RecordingStatuses
    <2>6. CASE Claim(w)
      BY <2>6, <2>1, <2>2 DEF Typed, Claim, SetRec, session, store, RecordingStatuses
    <2>7. CASE Busy(w)
      BY <2>7, <2>1, <2>2 DEF Typed, Busy, session, store
    <2>8. CASE Locate(w)
      BY <2>8, <2>1, <2>2 DEF Typed, Locate, session, store
    <2>9. CASE Missing(w)
      BY <2>9, <2>1, <2>2 DEF Typed, Missing, SetRec, session, store, RecordingStatuses
    <2>10. CASE Find(w)
      BY <2>10, <2>1, <2>2 DEF Typed, Find, session, store
    <2>11. CASE Stream(w)
      BY <2>11, <2>1, <2>2 DEF Typed, Stream, session, store
    <2>12. CASE Look(w)
      <3>1. Goto(w, IF meeting = "scheduled" THEN "mark" ELSE "asset")
        BY <2>12 DEF Look, Goto
      <3> QED
        BY <2>12, <2>1, <2>2, <3>1 DEF Typed, Look, session, store
    <2>13. CASE Mark(w)
      BY <2>13, <2>1, <2>2 DEF Typed, Mark, session, store
    <2>14. CASE Asset(w)
      BY <2>14, <2>1, <2>2 DEF Typed, Asset, session, store
    <2>15. CASE Undo(w)
      BY <2>15, <2>1, <2>2 DEF Typed, Undo, session, store
    <2>16. CASE Check(w)
      BY <2>16, <2>1, <2>2 DEF Typed, Check, AddIngest, session, store
    <2>17. CASE Commit(w)
      BY <2>17, <2>1, <2>2 DEF Typed, Commit, SetRec, session, store, RecordingStatuses
    <2>18. CASE Fail(w)
      BY <2>18, <2>1, <2>2 DEF Typed, Fail, SetRec, Verdict, session, store, RecordingStatuses
    <2>19. CASE Promote(w)
      BY <2>19, <2>1, <2>2 DEF Typed, Promote, session, store
    <2>20. CASE Half(w)
      BY <2>20, <2>1, <2>2 DEF Typed, Half, session, store
    <2>21. CASE StoreFails(w)
      BY <2>21, <2>1, <2>2 DEF Typed, StoreFails, session, store
    <2> QED
      BY <1>2, <2>3, <2>4, <2>5, <2>6, <2>7, <2>8, <2>9, <2>10, <2>11, <2>12, <2>13, <2>14, <2>15, <2>16, <2>17, <2>18, <2>19, <2>20, <2>21 DEF Step
  <1>3. ASSUME NEW w \in Runs, Crash(w) PROVE Typed'
    <2>1. Stop(w)
      BY <1>3 DEF Crash
    <2>2. run' \in [Runs -> Run]
      BY <2>1, MovesType
    <2> QED
      BY <1>3, <2>2 DEF Typed, Crash, session, store
  <1>4. CASE Age \/ Publish \/ Process \/ DeleteMeeting \/ Purge
    <2>1. CASE Age
      BY <2>1 DEF Typed, Age, store
    <2>2. CASE Publish
      BY <2>2 DEF Typed, Publish, session, store
    <2>3. CASE Process
      BY <2>3 DEF Typed, Process, session
    <2>4. CASE DeleteMeeting
      BY <2>4 DEF Typed, DeleteMeeting, session
    <2>5. CASE Purge
      BY <2>5 DEF Typed, Purge, session, store
    <2> QED
      BY <1>4, <2>1, <2>2, <2>3, <2>4, <2>5
  <1>5. CASE UNCHANGED vars
    BY <1>5 DEF Typed, vars, session, store
  <1> QED
    BY <1>1, <1>2, <1>3, <1>4, <1>5 DEF Next

(* The ingest is counted once, and recorded when it is there.               *)
LEMMA CountedStep ==
  ASSUME Typed, IngestCounted, [Next]_vars
  PROVE  IngestCounted'
  <1>1. CASE Queue
    <2>1. CASE Ask \/ Stall
      BY <2>1 DEF IngestCounted, Ask, Stall, session, store, At
    <2>2. ASSUME NEW w \in Runs, Take(w) PROVE IngestCounted'
      <3>1. \A v \in Runs : run'[v].at = IF v = w THEN "load" ELSE run[v].at
        BY <2>2 DEF Typed, Take, Idle
      <3> QED
        BY <2>2, <3>1 DEF IngestCounted, Take, session, store, At
    <2> QED
      BY <1>1, <2>1, <2>2 DEF Queue
  <1>2. ASSUME NEW w \in Runs, Step(w) PROVE IngestCounted'
    <2>1. /\ \A place : Goto(w, place) => \A v \in Runs : run'[v].at = IF v = w THEN place ELSE run[v].at
          /\ \A why : Throw(w, why) => \A v \in Runs : run'[v].at = IF v = w THEN "fail" ELSE run[v].at
          /\ Stop(w) => \A v \in Runs : run'[v].at = IF v = w THEN "idle" ELSE run[v].at
      BY MovesOne
    <2>2. CASE Load(w)
      BY <2>2, <2>1 DEF IngestCounted, Load, session, store, At
    <2>3. CASE ReadMeeting(w)
      BY <2>3, <2>1 DEF IngestCounted, ReadMeeting, session, store, At
    <2>4. CASE Gone(w)
      BY <2>4, <2>1 DEF IngestCounted, Gone, SetRec, session, store, At
    <2>5. CASE Claim(w)
      BY <2>5, <2>1 DEF IngestCounted, Claim, SetRec, session, store, At
    <2>6. CASE Busy(w)
      BY <2>6, <2>1 DEF IngestCounted, Busy, session, store, At
    <2>7. CASE Locate(w)
      BY <2>7, <2>1 DEF IngestCounted, Locate, session, store, At
    <2>8. CASE Missing(w)
      BY <2>8, <2>1 DEF IngestCounted, Missing, SetRec, session, store, At
    <2>9. CASE Find(w)
      BY <2>9, <2>1 DEF IngestCounted, Find, session, store, At
    <2>10. CASE Stream(w)
      BY <2>10, <2>1 DEF IngestCounted, Stream, session, store, At
    <2>11. CASE Look(w)
      <3>1. Goto(w, IF meeting = "scheduled" THEN "mark" ELSE "asset")
        BY <2>11 DEF Look, Goto
      <3> QED
        BY <2>11, <2>1, <3>1 DEF IngestCounted, Look, session, store, At
    <2>12. CASE Mark(w)
      BY <2>12, <2>1 DEF IngestCounted, Mark, session, store, At
    <2>13. CASE Asset(w)
      BY <2>13, <2>1 DEF IngestCounted, Asset, session, store, At
    <2>14. CASE Undo(w)
      BY <2>14, <2>1 DEF IngestCounted, Undo, session, store, At
    <2>15. CASE Check(w)
      BY <2>15, <2>1 DEF IngestCounted, Check, AddIngest, session, store, At
    <2>16. CASE Commit(w)
      BY <2>16, <2>1 DEF IngestCounted, Commit, SetRec, session, store, At
    <2>17. CASE Fail(w)
      BY <2>17, <2>1 DEF IngestCounted, Fail, SetRec, Verdict, session, store, At
    <2>18. CASE Promote(w)
      BY <2>18, <2>1 DEF IngestCounted, Promote, session, store, At
    <2>19. CASE Half(w)
      BY <2>19, <2>1 DEF IngestCounted, Half, session, store, At
    <2>20. CASE StoreFails(w)
      BY <2>20, <2>1 DEF IngestCounted, StoreFails, session, store, At
    <2> QED
      BY <1>2, <2>2, <2>3, <2>4, <2>5, <2>6, <2>7, <2>8, <2>9, <2>10, <2>11, <2>12, <2>13, <2>14, <2>15, <2>16, <2>17, <2>18, <2>19, <2>20 DEF Step
  <1>3. ASSUME NEW w \in Runs, Crash(w) PROVE IngestCounted'
    <2>1. \A v \in Runs : run'[v].at = IF v = w THEN "idle" ELSE run[v].at
      BY <1>3, MovesOne DEF Crash
    <2> QED
      BY <1>3, <2>1 DEF IngestCounted, Crash, session, store, At
  <1>4. CASE Age \/ Publish \/ Process \/ DeleteMeeting \/ Purge
    <2>1. CASE Age
      BY <2>1 DEF IngestCounted, Age, session, store, At
    <2>2. CASE Publish
      BY <2>2 DEF IngestCounted, Publish, session, store, At
    <2>3. CASE Process
      BY <2>3 DEF IngestCounted, Process, session, store, At
    <2>4. CASE DeleteMeeting
      BY <2>4 DEF IngestCounted, DeleteMeeting, session, store, At
    <2>5. CASE Purge
      BY <2>5 DEF IngestCounted, Purge, Purgeable, Alive, session, store, At
    <2> QED
      BY <1>4, <2>1, <2>2, <2>3, <2>4, <2>5
  <1>5. CASE UNCHANGED vars
    BY <1>5 DEF IngestCounted, vars, session, store, At
  <1> QED
    BY <1>1, <1>2, <1>3, <1>4, <1>5 DEF Next

(* A run that has found or made an asset keeps it, or the meeting is gone.  *)
LEMMA HasAssetStep ==
  ASSUME Typed, IngestHasAsset, [Next]_vars
  PROVE  IngestHasAsset'
  <1>1. CASE Queue
    <2>1. CASE Ask \/ Stall
      BY <2>1 DEF Typed, IngestHasAsset, Ask, Stall, session, store, At
    <2>2. ASSUME NEW w \in Runs, Take(w) PROVE IngestHasAsset'
      <3>1. \A v \in Runs : run'[v].at = IF v = w THEN "load" ELSE run[v].at
        BY <2>2 DEF Typed, Take, Idle
      <3> QED
        BY <2>2, <3>1 DEF Typed, IngestHasAsset, Take, session, store, At
    <2> QED
      BY <1>1, <2>1, <2>2 DEF Queue
  <1>2. ASSUME NEW w \in Runs, Step(w) PROVE IngestHasAsset'
    <2>1. /\ \A place : Goto(w, place) => \A v \in Runs : run'[v].at = IF v = w THEN place ELSE run[v].at
          /\ \A why : Throw(w, why) => \A v \in Runs : run'[v].at = IF v = w THEN "fail" ELSE run[v].at
          /\ Stop(w) => \A v \in Runs : run'[v].at = IF v = w THEN "idle" ELSE run[v].at
      BY MovesOne
    <2>2. CASE Load(w)
      BY <2>2, <2>1 DEF Typed, IngestHasAsset, Load, session, store, At
    <2>3. CASE ReadMeeting(w)
      BY <2>3, <2>1 DEF Typed, IngestHasAsset, ReadMeeting, session, store, At
    <2>4. CASE Gone(w)
      BY <2>4, <2>1 DEF Typed, IngestHasAsset, Gone, SetRec, session, store, At
    <2>5. CASE Claim(w)
      BY <2>5, <2>1 DEF Typed, IngestHasAsset, Claim, SetRec, session, store, At
    <2>6. CASE Busy(w)
      BY <2>6, <2>1 DEF Typed, IngestHasAsset, Busy, session, store, At
    <2>7. CASE Locate(w)
      BY <2>7, <2>1 DEF Typed, IngestHasAsset, Locate, session, store, At
    <2>8. CASE Missing(w)
      BY <2>8, <2>1 DEF Typed, IngestHasAsset, Missing, SetRec, session, store, At
    <2>9. CASE Find(w)
      BY <2>9, <2>1 DEF Typed, IngestHasAsset, Find, session, store, At
    <2>10. CASE Stream(w)
      BY <2>10, <2>1 DEF Typed, IngestHasAsset, Stream, session, store, At
    <2>11. CASE Look(w)
      <3>1. Goto(w, IF meeting = "scheduled" THEN "mark" ELSE "asset")
        BY <2>11 DEF Look, Goto
      <3> QED
        BY <2>11, <2>1, <3>1 DEF Typed, IngestHasAsset, Look, session, store, At
    <2>12. CASE Mark(w)
      BY <2>12, <2>1 DEF Typed, IngestHasAsset, Mark, session, store, At
    <2>13. CASE Asset(w)
      BY <2>13, <2>1 DEF Typed, IngestHasAsset, Asset, session, store, At
    <2>14. CASE Undo(w)
      BY <2>14, <2>1 DEF Typed, IngestHasAsset, Undo, session, store, At
    <2>15. CASE Check(w)
      BY <2>15, <2>1 DEF Typed, IngestHasAsset, Check, AddIngest, session, store, At
    <2>16. CASE Commit(w)
      BY <2>16, <2>1 DEF Typed, IngestHasAsset, Commit, SetRec, session, store, At
    <2>17. CASE Fail(w)
      BY <2>17, <2>1 DEF Typed, IngestHasAsset, Fail, SetRec, Verdict, session, store, At
    <2>18. CASE Promote(w)
      BY <2>18, <2>1 DEF Typed, IngestHasAsset, Promote, session, store, At
    <2>19. CASE Half(w)
      BY <2>19, <2>1 DEF Typed, IngestHasAsset, Half, session, store, At
    <2>20. CASE StoreFails(w)
      BY <2>20, <2>1 DEF Typed, IngestHasAsset, StoreFails, session, store, At
    <2> QED
      BY <1>2, <2>2, <2>3, <2>4, <2>5, <2>6, <2>7, <2>8, <2>9, <2>10, <2>11, <2>12, <2>13, <2>14, <2>15, <2>16, <2>17, <2>18, <2>19, <2>20 DEF Step
  <1>3. ASSUME NEW w \in Runs, Crash(w) PROVE IngestHasAsset'
    <2>1. \A v \in Runs : run'[v].at = IF v = w THEN "idle" ELSE run[v].at
      BY <1>3, MovesOne DEF Crash
    <2> QED
      BY <1>3, <2>1 DEF Typed, IngestHasAsset, Crash, session, store, At
  <1>4. CASE Age \/ Publish \/ Process \/ DeleteMeeting \/ Purge
    <2>1. CASE Age
      BY <2>1 DEF Typed, IngestHasAsset, Age, session, store, At
    <2>2. CASE Publish
      BY <2>2 DEF Typed, IngestHasAsset, Publish, session, store, At
    <2>3. CASE Process
      BY <2>3 DEF Typed, IngestHasAsset, Process, session, store, At
    <2>4. CASE DeleteMeeting
      BY <2>4 DEF Typed, IngestHasAsset, DeleteMeeting, session, store, At
    <2>5. CASE Purge
      BY <2>5 DEF Typed, IngestHasAsset, Purge, Purgeable, Alive, session, store, At
    <2> QED
      BY <1>4, <2>1, <2>2, <2>3, <2>4, <2>5
  <1>5. CASE UNCHANGED vars
    BY <1>5 DEF Typed, IngestHasAsset, vars, session, store, At
  <1> QED
    BY <1>1, <1>2, <1>3, <1>4, <1>5 DEF Next

(* A session that says `imported` has its ingest recorded.                  *)
LEMMA RecordedStep ==
  ASSUME Typed, ImportedIsRecorded, [Next]_vars
  PROVE  ImportedIsRecorded'
  <1>1. CASE Queue
    <2>1. CASE Ask \/ Stall
      BY <2>1 DEF Typed, ImportedIsRecorded, Ask, Stall, session, store, At
    <2>2. ASSUME NEW w \in Runs, Take(w) PROVE ImportedIsRecorded'
      <3>1. \A v \in Runs : run'[v].at = IF v = w THEN "load" ELSE run[v].at
        BY <2>2 DEF Typed, Take, Idle
      <3> QED
        BY <2>2, <3>1 DEF Typed, ImportedIsRecorded, Take, session, store, At
    <2> QED
      BY <1>1, <2>1, <2>2 DEF Queue
  <1>2. ASSUME NEW w \in Runs, Step(w) PROVE ImportedIsRecorded'
    <2>1. /\ \A place : Goto(w, place) => \A v \in Runs : run'[v].at = IF v = w THEN place ELSE run[v].at
          /\ \A why : Throw(w, why) => \A v \in Runs : run'[v].at = IF v = w THEN "fail" ELSE run[v].at
          /\ Stop(w) => \A v \in Runs : run'[v].at = IF v = w THEN "idle" ELSE run[v].at
      BY MovesOne
    <2>2. CASE Load(w)
      BY <2>2, <2>1 DEF Typed, ImportedIsRecorded, Load, session, store, At
    <2>3. CASE ReadMeeting(w)
      BY <2>3, <2>1 DEF Typed, ImportedIsRecorded, ReadMeeting, session, store, At
    <2>4. CASE Gone(w)
      BY <2>4, <2>1 DEF Typed, ImportedIsRecorded, Gone, SetRec, session, store, At
    <2>5. CASE Claim(w)
      BY <2>5, <2>1 DEF Typed, ImportedIsRecorded, Claim, SetRec, session, store, At
    <2>6. CASE Busy(w)
      BY <2>6, <2>1 DEF Typed, ImportedIsRecorded, Busy, session, store, At
    <2>7. CASE Locate(w)
      BY <2>7, <2>1 DEF Typed, ImportedIsRecorded, Locate, session, store, At
    <2>8. CASE Missing(w)
      BY <2>8, <2>1 DEF Typed, ImportedIsRecorded, Missing, SetRec, session, store, At
    <2>9. CASE Find(w)
      BY <2>9, <2>1 DEF Typed, ImportedIsRecorded, Find, session, store, At
    <2>10. CASE Stream(w)
      BY <2>10, <2>1 DEF Typed, ImportedIsRecorded, Stream, session, store, At
    <2>11. CASE Look(w)
      <3>1. Goto(w, IF meeting = "scheduled" THEN "mark" ELSE "asset")
        BY <2>11 DEF Look, Goto
      <3> QED
        BY <2>11, <2>1, <3>1 DEF Typed, ImportedIsRecorded, Look, session, store, At
    <2>12. CASE Mark(w)
      BY <2>12, <2>1 DEF Typed, ImportedIsRecorded, Mark, session, store, At
    <2>13. CASE Asset(w)
      BY <2>13, <2>1 DEF Typed, ImportedIsRecorded, Asset, session, store, At
    <2>14. CASE Undo(w)
      BY <2>14, <2>1 DEF Typed, ImportedIsRecorded, Undo, session, store, At
    <2>15. CASE Check(w)
      BY <2>15, <2>1 DEF Typed, ImportedIsRecorded, Check, AddIngest, session, store, At
    <2>16. CASE Commit(w)
      BY <2>16, <2>1 DEF Typed, ImportedIsRecorded, Commit, SetRec, session, store, At
    <2>17. CASE Fail(w)
      BY <2>17, <2>1 DEF Typed, ImportedIsRecorded, Fail, SetRec, Verdict, session, store, At
    <2>18. CASE Promote(w)
      BY <2>18, <2>1 DEF Typed, ImportedIsRecorded, Promote, session, store, At
    <2>19. CASE Half(w)
      BY <2>19, <2>1 DEF Typed, ImportedIsRecorded, Half, session, store, At
    <2>20. CASE StoreFails(w)
      BY <2>20, <2>1 DEF Typed, ImportedIsRecorded, StoreFails, session, store, At
    <2> QED
      BY <1>2, <2>2, <2>3, <2>4, <2>5, <2>6, <2>7, <2>8, <2>9, <2>10, <2>11, <2>12, <2>13, <2>14, <2>15, <2>16, <2>17, <2>18, <2>19, <2>20 DEF Step
  <1>3. ASSUME NEW w \in Runs, Crash(w) PROVE ImportedIsRecorded'
    <2>1. \A v \in Runs : run'[v].at = IF v = w THEN "idle" ELSE run[v].at
      BY <1>3, MovesOne DEF Crash
    <2> QED
      BY <1>3, <2>1 DEF Typed, ImportedIsRecorded, Crash, session, store, At
  <1>4. CASE Age \/ Publish \/ Process \/ DeleteMeeting \/ Purge
    <2>1. CASE Age
      BY <2>1 DEF Typed, ImportedIsRecorded, Age, session, store, At
    <2>2. CASE Publish
      BY <2>2 DEF Typed, ImportedIsRecorded, Publish, session, store, At
    <2>3. CASE Process
      BY <2>3 DEF Typed, ImportedIsRecorded, Process, session, store, At
    <2>4. CASE DeleteMeeting
      BY <2>4 DEF Typed, ImportedIsRecorded, DeleteMeeting, session, store, At
    <2>5. CASE Purge
      BY <2>5 DEF Typed, ImportedIsRecorded, Purge, Purgeable, Alive, session, store, At
    <2> QED
      BY <1>4, <2>1, <2>2, <2>3, <2>4, <2>5
  <1>5. CASE UNCHANGED vars
    BY <1>5 DEF Typed, ImportedIsRecorded, vars, session, store, At
  <1> QED
    BY <1>1, <1>2, <1>3, <1>4, <1>5 DEF Next

(* After the erasure nothing of the import moves.                           *)
LEMMA ErasedStep ==
  ASSUME Typed, ErasedAtRest, [Next]_vars
  PROVE  ErasedAtRest'
  <1> SUFFICES ASSUME vexa' = "purged"
               PROVE  /\ Purgeable' /\ job'.st \in {"none", "done", "failed"}
                      /\ \A w \in Runs : ~Alive(w)'
    BY DEF ErasedAtRest
  <1>1. CASE vexa = "purged"
    <2>1. Purgeable /\ job.st \in {"none", "done", "failed"} /\ \A w \in Runs : ~Alive(w)
      BY <1>1 DEF ErasedAtRest
    <2>2. \A w \in Runs : At(w, "idle")
      BY <2>1 DEF Alive
    <2>3. \A w \in Runs : ~Step(w)
      <3> SUFFICES ASSUME NEW w \in Runs PROVE ~Step(w)
        OBVIOUS
      <3>1. run[w].at = "idle"
        BY <2>2 DEF At
      <3>2. ~(Load(w) \/ ReadMeeting(w) \/ Gone(w) \/ Claim(w) \/ Busy(w) \/ Locate(w)
                \/ Missing(w) \/ Find(w) \/ Stream(w) \/ Look(w))
        BY <3>1 DEF At, Load, ReadMeeting, Gone, Claim, Busy, Locate, Missing, Find, Stream, Look
      <3>3. ~(Mark(w) \/ Asset(w) \/ Promote(w) \/ Half(w) \/ Undo(w) \/ Check(w)
                \/ Commit(w) \/ Fail(w) \/ StoreFails(w))
        BY <3>1 DEF At, Mark, Asset, Promote, Half, Undo, Check, Commit, Fail, StoreFails
      <3> QED
        BY <3>2, <3>3 DEF Step
    <2>4. ~Queue
      BY <2>1 DEF Queue, Purgeable, Ask, Stall, Take
    <2>5. CASE Age \/ Publish \/ Process \/ DeleteMeeting \/ Purge \/ UNCHANGED vars
      <3>1. UNCHANGED <<rec, job, run>>
        BY <1>1, <2>1, <2>5 DEF Purgeable, Age, Publish, Process, DeleteMeeting, Purge, vars, session
      <3> QED
        BY <2>1, <3>1 DEF Purgeable, Alive, At
    <2> QED
      BY <2>1, <2>3, <2>4, <2>5 DEF Next, Crash
  <1>2. CASE vexa # "purged"
    <2>1. Purge
      <3>1. ASSUME NEW w \in Runs, Step(w) PROVE vexa' = vexa
        <4>1. CASE Load(w) \/ ReadMeeting(w) \/ Gone(w) \/ Claim(w) \/ Busy(w) \/ Locate(w)
                     \/ Missing(w) \/ Find(w) \/ Stream(w) \/ Look(w)
          BY <4>1 DEF Load, ReadMeeting, Gone, Claim, Busy, Locate, Missing, Find, Stream, Look
        <4>2. CASE Mark(w) \/ Asset(w) \/ Promote(w) \/ Half(w) \/ Undo(w) \/ Check(w)
                     \/ Commit(w) \/ Fail(w) \/ StoreFails(w)
          BY <4>2 DEF Mark, Asset, Promote, Half, Undo, Check, Commit, Fail, StoreFails
        <4> QED
          BY <3>1, <4>1, <4>2 DEF Step
      <3>2. Queue \/ (\E w \in Runs : Crash(w)) \/ Age \/ Process \/ DeleteMeeting \/ UNCHANGED vars
              => vexa' = vexa
        BY DEF Queue, Ask, Stall, Take, Crash, Age, Process, DeleteMeeting, vars
      <3>3. Publish => vexa' = "present"
        BY DEF Publish
      <3> QED
        BY <1>2, <3>1, <3>2, <3>3 DEF Next
    <2> QED
      BY <2>1 DEF Purge, Purgeable, Alive, At, session
  <1> QED
    BY <1>1, <1>2

(* Everything together is kept by every step.                               *)
THEOREM ImportInvariant == Spec => []ImportInv
  <1>1. Init => ImportInv
    <2>1. Idle \in Run /\ Idle.at = "idle"
      BY DEF Idle, Run, Places
    <2>2. Init => Typed
      <3>1. [w \in Runs |-> Idle] \in [Runs -> Run]
        BY <2>1
      <3>2. Init => fresh \in BOOLEAN /\ ingestJob \in BOOLEAN
        BY Zenon DEF Init
      <3>3. Init => rec \in RecordingStatuses /\ assets \in Nat /\ hollow \in Nat /\ ingest \in {"none", "queued", "done"}
        BY DEF Init, RecordingStatuses
      <3> QED
        BY <3>1, <3>2, <3>3 DEF Init, Typed
    <2>3. Init => \A w \in Runs : run[w].at = "idle"
      BY <2>1 DEF Init
    <2>4. Init => IngestCounted /\ IngestHasAsset
      BY <2>3 DEF Init, IngestCounted, IngestHasAsset, At
    <2>5. Init => ImportedIsRecorded /\ ErasedAtRest
      BY DEF Init, ImportedIsRecorded, ErasedAtRest
    <2> QED
      BY <2>2, <2>4, <2>5 DEF ImportInv
  <1>2. ImportInv /\ [Next]_vars => ImportInv'
    BY TypedStep, CountedStep, HasAssetStep, RecordedStep, ErasedStep DEF ImportInv
  <1> QED
    BY <1>1, <1>2, PTL DEF Spec

(* What Vexa erased is held or was given up on, unless the user deleted the *)
(* meeting (retention.ts, finalize.ts): when the erasure runs the session   *)
(* is imported, which means recorded, which means with an asset, or missing *)
(* or failed, and nothing can change that afterwards.                       *)
THEOREM ErasedIsHeld == Spec => []NothingErasedUnheld
  <1>1. ImportInv => NothingErasedUnheld
    <2>1. ImportInv /\ vexa = "purged" /\ meeting # "deleted" /\ rec \notin {"missing", "failed"} => assets > 0
      BY DEF ImportInv, ErasedAtRest, Purgeable, ImportedIsRecorded, IngestHasAsset
    <2>2. ImportInv /\ assets > 0 => whole > 0 \/ hollow > 0
      BY DEF ImportInv, Typed, whole
    <2> QED
      BY <2>1, <2>2 DEF NothingErasedUnheld
  <1> QED
    BY <1>1, ImportInvariant, PTL

(* The import refines IngestOnce: however many runs import, die, stall, are *)
(* taken over and try again, one media.ingest is added, before the session  *)
(* says so, which is said for good.                                         *)
THEOREM ImportIsOneIngest == Spec => ImplementsIngestOnce
  <1> DEFINE answer == IF ingestJob THEN "imported"
                       ELSE IF rec \in {"missing", "failed"} THEN "given up" ELSE "open"
  <1>1. Init => Promise!Init
    BY DEF Init, Promise!Init
  <1>2. ImportInv /\ [Next]_vars => [Promise!Next]_(Promise!vars)
    <2> SUFFICES ASSUME ImportInv, [Next]_vars PROVE [Promise!Next]_(Promise!vars)
      OBVIOUS
    <2> USE DEF Promise!Next, Promise!vars, Promise!Ingest, Promise!Record, Promise!GiveUp, Promise!TryAgain
    <2>1. IngestCounted /\ Typed
      BY DEF ImportInv
    <2>2. ASSUME UNCHANGED <<ingests, ingestJob>> PROVE [Promise!Next]_(Promise!vars)
      BY <2>2
    <2>3. ASSUME NEW w \in Runs, Check(w) PROVE [Promise!Next]_(Promise!vars)
      <3>1. UNCHANGED <<rec, ingestJob>>
        BY <2>3 DEF Check, session
      <3>2. CASE ingestJob
        BY <2>3, <3>1, <3>2 DEF Check
      <3>3. CASE ~ingestJob /\ AddIngest
        BY <2>1, <3>1, <3>3 DEF AddIngest, IngestCounted
      <3>4. CASE ~ingestJob /\ UNCHANGED ingests
        BY <3>1, <3>4
      <3> QED
        BY <2>3, <3>2, <3>3, <3>4 DEF Check
    <2>4. ASSUME NEW w \in Runs, Commit(w) PROVE [Promise!Next]_(Promise!vars)
      <3>1. ingests = 1 /\ ingests' = ingests
        BY <2>1, <2>4 DEF Commit, IngestCounted
      <3>2. ingestJob' = TRUE \/ UNCHANGED <<rec, ingestJob>>
        BY <2>4 DEF Commit, session
      <3> QED
        BY <2>1, <3>1, <3>2 DEF Typed
    <2>5. ASSUME NEW w \in Runs, Step(w), ~Check(w), ~Commit(w) PROVE UNCHANGED <<ingests, ingestJob>>
      BY <2>5 DEF Step, Load, ReadMeeting, Gone, Claim, Busy, Locate, Missing, Find,
                  Stream, Look, Mark, Asset, Promote, Half, Undo, Fail, StoreFails, session
    <2>6. ASSUME Queue \/ (\E w \in Runs : Crash(w)) \/ Age \/ Publish \/ Process \/ DeleteMeeting
                 \/ Purge \/ UNCHANGED vars
          PROVE UNCHANGED <<ingests, ingestJob>>
      BY <2>6 DEF Queue, Ask, Stall, Take, Crash, Age, Publish, Process, DeleteMeeting, Purge, vars, session
    <2> QED
      BY <2>2, <2>3, <2>4, <2>5, <2>6 DEF Next
  <1> QED
    BY <1>1, <1>2, ImportInvariant, PTL DEF Spec, ImplementsIngestOnce, Promise!Spec

-----------------------------------------------------------------------------
(* Counting the runs that are in some places.                               *)
InPlaces(S) == {v \in Runs : run[v].at \in S}

Storing == {"stream", "look", "mark", "asset"}   \* found no asset
Holding == {"look", "mark", "asset", "undo"}     \* has an object and no asset

Importers == Cardinality(InPlaces(Importing))
Storers == Cardinality(InPlaces(Storing))
Holders == Cardinality(InPlaces(Holding))

(* Nobody but w moves.                                                      *)
Alone(w) == \A v \in Runs : v # w => run'[v].at = run[v].at

(* A count before and after somebody moves in, out, or neither.             *)
Shift(old, new, before, after) ==
  /\ (before <=> after) => new = old
  /\ before /\ ~after => new + 1 = old
  /\ ~before /\ after => new = old + 1

LEMMA CountMoves ==
  ASSUME NEW S, NEW w \in Runs, Alone(w), IsFiniteSet(InPlaces(S))
  PROVE  /\ IsFiniteSet(InPlaces(S)') /\ Cardinality(InPlaces(S)) \in Nat
         /\ Cardinality(InPlaces(S)') \in Nat
         /\ Shift(Cardinality(InPlaces(S)), Cardinality(InPlaces(S)'),
                  run[w].at \in S, run'[w].at \in S)
  <1>1. Cardinality(InPlaces(S)) \in Nat /\ (w \in InPlaces(S) <=> run[w].at \in S)
    BY FS_CardinalityType DEF InPlaces
  <1>2. CASE run'[w].at \in S
    <2>1. InPlaces(S)' = InPlaces(S) \cup {w}
      BY <1>2 DEF InPlaces, Alone
    <2>2. /\ IsFiniteSet(InPlaces(S)')
          /\ run[w].at \in S => Cardinality(InPlaces(S)') = Cardinality(InPlaces(S))
          /\ run[w].at \notin S => Cardinality(InPlaces(S)') = Cardinality(InPlaces(S)) + 1
      BY <1>1, <2>1, FS_AddElement
    <2> QED
      BY <1>1, <1>2, <2>2 DEF Shift
  <1>3. CASE run'[w].at \notin S
    <2>1. InPlaces(S)' = InPlaces(S) \ {w}
      BY <1>3 DEF InPlaces, Alone
    <2>2. IsFiniteSet(InPlaces(S)') /\ Cardinality(InPlaces(S)') \in Nat
      BY <2>1, FS_RemoveElement, FS_CardinalityType
    <2>3. /\ run[w].at \notin S => Cardinality(InPlaces(S)') = Cardinality(InPlaces(S))
          /\ run[w].at \in S => Cardinality(InPlaces(S)') = Cardinality(InPlaces(S)) - 1
      BY <1>1, <2>1, FS_RemoveElement
    <2> QED
      BY <1>1, <1>3, <2>2, <2>3 DEF Shift
  <1> QED
    BY <1>2, <1>3

(* How the three counts change when w moves.                                *)
LEMMA Counts ==
  ASSUME IsFiniteSet(InPlaces(Importing)), NEW w \in Runs, Alone(w)
  PROVE  /\ IsFiniteSet(InPlaces(Importing)') /\ Storers <= Importers
         /\ Importers \in Nat /\ Importers' \in Nat /\ Storers \in Nat /\ Storers' \in Nat
         /\ Holders \in Nat /\ Holders' \in Nat
         /\ Shift(Importers, Importers', run[w].at \in Importing, run'[w].at \in Importing)
         /\ Shift(Storers, Storers', run[w].at \in Storing, run'[w].at \in Storing)
         /\ Shift(Holders, Holders', run[w].at \in Holding, run'[w].at \in Holding)
  <1>1. /\ InPlaces(Storing) \subseteq InPlaces(Importing)
        /\ InPlaces(Holding) \subseteq InPlaces(Importing)
    BY DEF InPlaces, Storing, Holding, Importing
  <1>2. /\ IsFiniteSet(InPlaces(Storing)) /\ IsFiniteSet(InPlaces(Holding))
        /\ Storers <= Importers
    BY <1>1, FS_Subset DEF Storers, Importers
  <1>3. /\ IsFiniteSet(InPlaces(Importing)') /\ Importers \in Nat /\ Importers' \in Nat
        /\ Shift(Importers, Importers', run[w].at \in Importing, run'[w].at \in Importing)
    BY CountMoves DEF Importers
  <1>4. /\ Storers \in Nat /\ Storers' \in Nat
        /\ Shift(Storers, Storers', run[w].at \in Storing, run'[w].at \in Storing)
    BY <1>2, CountMoves DEF Storers
  <1>5. /\ Holders \in Nat /\ Holders' \in Nat
        /\ Shift(Holders, Holders', run[w].at \in Holding, run'[w].at \in Holding)
    BY <1>2, CountMoves DEF Holders
  <1> QED
    BY <1>2, <1>3, <1>4, <1>5

(* Objects without an asset are in the hands of a run, or of one that died, *)
(* or were left by a deletion that failed.                                  *)
ObjectsHeld ==
  objects >= whole + Holders /\ objects <= whole + Holders + crashes + leaked

(* A claim is of one run, and of one more for each that was taken over.     *)
ClaimsCounted ==
  meeting # "deleted" => /\ Importers <= 1 + takeovers
                         /\ rec # "importing" => Importers <= takeovers

(* Only a run that found no asset makes one, and it found none before any   *)
(* was there.                                                               *)
AssetsCounted == assets > 0 => assets + Storers <= 1 + takeovers

GoneIsDeleted ==
  /\ \A w \in Runs : At(w, "gone") => meeting = "deleted"
  /\ meeting = "deleted" => assets = 0

CountInv ==
  /\ takeovers \in Nat /\ crashes \in Nat /\ leaked \in Nat
  /\ objects \in Int
  /\ IsFiniteSet(InPlaces(Importing))
  /\ ObjectsHeld /\ ClaimsCounted /\ AssetsCounted /\ GoneIsDeleted

LEMMA CountInit == Init => CountInv
  <1> SUFFICES ASSUME Init PROVE CountInv
    OBVIOUS
  <1>1. \A w \in Runs : run[w].at = "idle"
    BY DEF Init, Idle
  <1>2. /\ InPlaces(Importing) = {} /\ InPlaces(Storing) = {} /\ InPlaces(Holding) = {}
    BY <1>1 DEF InPlaces, Importing, Storing, Holding
  <1>3. /\ IsFiniteSet(InPlaces(Importing))
        /\ Importers = 0 /\ Storers = 0 /\ Holders = 0
    BY <1>2, FS_EmptySet DEF Importers, Storers, Holders
  <1>4. /\ takeovers = 0 /\ crashes = 0 /\ leaked = 0
        /\ objects = 0 /\ assets = 0 /\ hollow = 0
    BY DEF Init
  <1> QED
    BY <1>1, <1>3, <1>4 DEF CountInv, ObjectsHeld, whole, ClaimsCounted, AssetsCounted, GoneIsDeleted, At

LEMMA NobodyMoves ==
  ASSUME \A v \in Runs : run'[v].at = run[v].at
  PROVE  /\ InPlaces(Importing)' = InPlaces(Importing)
         /\ Importers' = Importers /\ Storers' = Storers /\ Holders' = Holders
  BY DEF InPlaces, Importers, Storers, Holders

(* Arithmetic.                                                              *)
LEMMA Sums ==
  /\ \A t \in Nat : 1 <= 1 + t
  /\ \A r, s \in Nat : r = s \/ r + 1 = s => r <= s
  /\ \A i, t, u \in Nat : i <= t /\ t <= u => i + 1 <= 1 + u
  /\ \A a, s, t, u \in Nat : a + s <= 1 + t /\ t <= u => a + s <= 1 + u
  /\ \A a, s, r, t \in Nat : r <= s /\ a + s <= 1 + t => a + r <= 1 + t
  /\ \A r, s, i, t \in Nat : r + 1 = s /\ s <= i /\ i <= 1 + t => 1 + r <= 1 + t
  /\ \A a, s, r, t \in Nat : r + 1 = s /\ a + s <= 1 + t => (a + 1) + r <= 1 + t
  OBVIOUS

LEMMA Spares ==
  /\ \A o, a \in Int, h, g, c, l \in Nat :
       g + 1 = h /\ o >= a + h /\ o <= a + h + c + l =>
         /\ o - 1 >= a + g /\ o - 1 <= a + g + c + l
         /\ o >= a + g /\ o <= a + g + c + (l + 1)
  /\ \A o, a \in Int, h, g, c, l \in Nat :
       (g = h \/ g + 1 = h) /\ o >= a + h /\ o <= a + h + c + l =>
         o >= a + g /\ o <= a + g + (c + 1) + l
  /\ \A o, a \in Int, h, c, l \in Nat :
       o >= a + h /\ o <= a + h + c + l => o - 1 >= (a - 1) + h /\ o - 1 <= (a - 1) + h + c + l
  OBVIOUS

(* A step of a run that leaves assets and objects alone, and the session    *)
(* too unless the meeting is deleted or the run gives its claim back.       *)
LEMMA MoveCounts ==
  ASSUME Typed, CountInv, NEW w \in Runs, Alone(w),
         UNCHANGED <<assets, objects, hollow, leaked, takeovers, crashes>>,
         meeting = "deleted" <=> meeting' = "deleted",
         run'[w].at = "gone" => meeting = "deleted",
         run'[w].at \in Importing => run[w].at \in Importing,
         run'[w].at \in Storing => run[w].at \in Storing \/ assets = 0,
         run'[w].at \in Holding <=> run[w].at \in Holding,
         rec' = rec \/ meeting = "deleted" \/ (run[w].at \in Importing /\ run'[w].at = "idle")
  PROVE  CountInv'
  <1>1. UNCHANGED <<assets, objects, hollow, leaked, takeovers, crashes>>
    OBVIOUS
  <1>2. takeovers \in Nat /\ crashes \in Nat /\ objects \in Int /\ assets \in Nat
    BY DEF CountInv, Typed
  <1>3. /\ IsFiniteSet(InPlaces(Importing)') /\ Storers <= Importers
        /\ Importers \in Nat /\ Importers' \in Nat /\ Storers \in Nat /\ Storers' \in Nat
        /\ Holders \in Nat /\ Holders' \in Nat
        /\ Shift(Importers, Importers', run[w].at \in Importing, run'[w].at \in Importing)
        /\ Shift(Storers, Storers', run[w].at \in Storing, run'[w].at \in Storing)
        /\ Shift(Holders, Holders', run[w].at \in Holding, run'[w].at \in Holding)
    BY Counts DEF CountInv
  <1>4. ObjectsHeld'
    <2>1. Holders' = Holders
      BY <1>3 DEF Shift
    <2> QED
      BY <1>1, <2>1 DEF CountInv, ObjectsHeld, whole
  <1>5. ClaimsCounted'
    <2>1. CASE rec' = rec
      <3>1. Importers' = Importers \/ Importers' + 1 = Importers
        BY <1>3 DEF Shift
      <3>2. Importers' <= Importers
        BY <1>3, <3>1, Sums
      <3> QED
        BY <1>1, <1>2, <1>3, <2>1, <3>2 DEF CountInv, ClaimsCounted
    <2>2. CASE meeting = "deleted"
      BY <1>1, <2>2 DEF ClaimsCounted
    <2>3. CASE run[w].at \in Importing /\ run'[w].at = "idle"
      <3>1. Importers' + 1 = Importers
        BY <1>3, <2>3 DEF Importing, Shift
      <3>2. meeting # "deleted" => Importers <= 1 + takeovers
        BY DEF CountInv, ClaimsCounted
      <3>3. meeting # "deleted" => Importers' <= takeovers
        BY <1>2, <1>3, <3>1, <3>2
      <3>4. Importers' <= takeovers => Importers' <= 1 + takeovers
        BY <1>2, <1>3
      <3> QED
        BY <1>1, <3>3, <3>4 DEF ClaimsCounted
    <2> QED
      BY <2>1, <2>2, <2>3
  <1>6. AssetsCounted'
    <2> SUFFICES ASSUME assets > 0 PROVE assets + Storers' <= 1 + takeovers
      BY <1>1 DEF AssetsCounted
    <2>1. run'[w].at \in Storing => run[w].at \in Storing
      BY <1>2
    <2>2. Storers' <= Storers
      <3>1. /\ Storers \in Nat /\ Storers' \in Nat
            /\ Storers' = Storers \/ Storers' + 1 = Storers
        BY <1>3, <2>1 DEF Shift
      <3> QED
        BY <3>1, Sums
    <2>3. assets + Storers <= 1 + takeovers
      BY DEF CountInv, AssetsCounted
    <2> QED
      BY <1>2, <1>3, <2>2, <2>3, Sums
  <1>7. GoneIsDeleted'
    BY <1>1 DEF CountInv, GoneIsDeleted, At, Alone
  <1> QED
    BY <1>1, <1>3, <1>4, <1>5, <1>6, <1>7 DEF CountInv

LEMMA ClaimCounts ==
  ASSUME Typed, CountInv, NEW w \in Runs, Claim(w)
  PROVE  CountInv'
  <1>1. At(w, "claim") /\ UNCHANGED store
    BY DEF Claim
  <1>2. CASE UNCHANGED <<session, budgets>> /\ (Stop(w) \/ Goto(w, "busy"))
    <2>1. Alone(w) /\ run'[w].at \in {"idle", "busy"}
      BY <1>2, MovesOne DEF Alone
    <2> QED
      BY <1>1, <1>2, <2>1, MoveCounts DEF session, store, budgets, At, Importing, Storing, Holding
  <1>3. CASE /\ Claimable /\ SetRec("importing")
             /\ takeovers' = IF rec = "importing" /\ ~fresh
                                  /\ \E v \in Runs \ {w} : run[v].at \in Importing
                             THEN takeovers + 1 ELSE takeovers
             /\ Goto(w, "locate") /\ UNCHANGED crashes
    <2>1. Alone(w) /\ run'[w].at = "locate"
      BY <1>3, MovesOne DEF Alone
    <2>2. /\ IsFiniteSet(InPlaces(Importing)') /\ Storers <= Importers
          /\ Importers \in Nat /\ Storers \in Nat /\ Holders \in Nat
          /\ Importers' = Importers + 1 /\ Storers' = Storers /\ Holders' = Holders
      BY <1>1, <2>1, Counts DEF CountInv, At, Importing, Storing, Holding, Shift
    <2>3. rec' = "importing" /\ UNCHANGED <<meeting, assets, objects, hollow, leaked, crashes>>
      BY <1>1, <1>3 DEF SetRec, store
    <2>4. takeovers \in Nat /\ takeovers' \in Nat /\ takeovers' >= takeovers /\ assets \in Nat
      BY <1>3 DEF CountInv, Typed
    <2>5. ClaimsCounted'
      <3>0. /\ meeting # "deleted" => Importers <= 1 + takeovers
            /\ meeting # "deleted" /\ rec # "importing" => Importers <= takeovers
        BY DEF CountInv, ClaimsCounted
      <3>1. CASE rec # "importing"
        <4>1. Importers <= takeovers => Importers' <= 1 + takeovers'
          BY <2>2, <2>4, Sums
        <4> QED
          BY <2>3, <3>0, <3>1, <4>1 DEF ClaimsCounted
      <3>2. CASE rec = "importing" /\ \E v \in Runs \ {w} : run[v].at \in Importing
        <4>1. takeovers' = takeovers + 1
          BY <1>3, <3>2 DEF Claimable, Typed
        <4>2. Importers <= 1 + takeovers => Importers' <= 1 + takeovers'
          BY <2>2, <2>4, <4>1
        <4> QED
          BY <2>3, <3>0, <4>2 DEF ClaimsCounted
      <3>3. CASE ~\E v \in Runs \ {w} : run[v].at \in Importing
        <4>1. InPlaces(Importing) = {}
          BY <1>1, <3>3 DEF InPlaces, At, Importing
        <4>2. Importers = 0
          BY <4>1, FS_EmptySet DEF Importers
        <4>3. Importers' = 1
          BY <2>2, <4>2
        <4>4. Importers' <= 1 + takeovers'
          BY <2>4, <4>3, Sums
        <4> QED
          BY <2>3, <4>4 DEF ClaimsCounted
      <3> QED
        BY <3>1, <3>2, <3>3
    <2>6. AssetsCounted' /\ ObjectsHeld'
      <3>1. AssetsCounted /\ ObjectsHeld
        BY DEF CountInv
      <3>2. ObjectsHeld'
        BY <2>2, <2>3, <3>1 DEF ObjectsHeld, whole
      <3>3. assets + Storers <= 1 + takeovers => assets' + Storers' <= 1 + takeovers'
        BY <2>2, <2>3, <2>4, Sums
      <3> QED
        BY <2>3, <3>1, <3>2, <3>3 DEF AssetsCounted
    <2>7. GoneIsDeleted'
      BY <2>1, <2>3 DEF CountInv, GoneIsDeleted, At, Alone
    <2> QED
      BY <2>2, <2>3, <2>4, <2>5, <2>6, <2>7 DEF CountInv
  <1> QED
    BY <1>2, <1>3 DEF Claim

LEMMA StreamCounts ==
  ASSUME Typed, CountInv, NEW w \in Runs, Stream(w)
  PROVE  CountInv'
  <1>1. /\ At(w, "stream") /\ UNCHANGED <<meeting, assets, hollow, leaked, rec>>
        /\ Alone(w) /\ UNCHANGED <<takeovers, crashes>>
    BY MovesOne DEF Stream, Alone, session, Fault, budgets
  <1>2. CASE run'[w].at = "look" /\ objects' = objects + 1
    <2>1. /\ IsFiniteSet(InPlaces(Importing)') /\ Storers \in Nat /\ Holders \in Nat
          /\ Importers' = Importers /\ Storers' = Storers /\ Holders' = Holders + 1
      BY <1>1, <1>2, Counts DEF CountInv, At, Importing, Storing, Holding, Shift
    <2>2. ObjectsHeld'
      <3>1. /\ objects \in Int /\ crashes \in Nat /\ leaked \in Nat /\ whole \in Int
            /\ objects >= whole + Holders /\ objects <= whole + Holders + crashes + leaked
        BY DEF CountInv, Typed, ObjectsHeld, whole
      <3>2. whole' = whole /\ objects' = objects + 1 /\ crashes' = crashes /\ leaked' = leaked
        BY <1>1, <1>2 DEF whole
      <3>3. Holders' = Holders + 1 /\ Holders \in Nat
        BY <2>1
      <3> QED
        BY <3>1, <3>2, <3>3 DEF ObjectsHeld
    <2>3. ClaimsCounted' /\ AssetsCounted'
      BY <1>1, <2>1 DEF CountInv, ClaimsCounted, AssetsCounted
    <2>4. GoneIsDeleted'
      BY <1>1, <1>2 DEF CountInv, GoneIsDeleted, At, Alone
    <2>5. objects' \in Int
      BY <1>2 DEF CountInv
    <2> QED
      BY <1>1, <2>1, <2>2, <2>3, <2>4, <2>5 DEF CountInv
  <1>3. CASE run'[w].at = "fail" /\ UNCHANGED objects
    BY <1>1, <1>3, MoveCounts DEF store, At, Importing, Storing, Holding
  <1> QED
    <2>1. \/ run'[w].at = "look" /\ objects' = objects + 1
          \/ run'[w].at = "fail" /\ UNCHANGED objects
      BY MovesOne DEF Stream
    <2> QED
      BY <1>2, <1>3, <2>1

LEMMA AssetCounts ==
  ASSUME Typed, CountInv, NEW w \in Runs, Asset(w)
  PROVE  CountInv'
  <1>1. /\ At(w, "asset") /\ UNCHANGED <<objects, hollow, leaked, rec>>
        /\ Alone(w) /\ UNCHANGED <<takeovers, crashes>>
        /\ \/ /\ meeting # "deleted" /\ assets' = assets + 1 /\ meeting' # "deleted"
              /\ run'[w].at = "promote"
           \/ UNCHANGED <<assets, meeting>> /\ run'[w].at = "undo"
    BY MovesOne DEF Asset, Alone, session, Fault, budgets
  <1>2. CASE run'[w].at = "undo" /\ UNCHANGED <<assets, meeting>>
    BY <1>1, <1>2, MoveCounts DEF store, At, Importing, Storing, Holding
  <1>3. CASE meeting # "deleted" /\ assets' = assets + 1 /\ meeting' # "deleted" /\ run'[w].at = "promote"
    <2>1. /\ IsFiniteSet(InPlaces(Importing)') /\ Storers <= Importers
          /\ Importers \in Nat /\ Storers \in Nat /\ Storers' \in Nat /\ Holders' \in Nat
          /\ Importers' = Importers /\ Storers' + 1 = Storers /\ Holders' + 1 = Holders
      BY <1>1, <1>3, Counts DEF CountInv, At, Importing, Storing, Holding, Shift
    <2>2. /\ takeovers \in Nat /\ crashes \in Nat /\ leaked \in Nat
          /\ assets \in Nat /\ objects \in Int /\ hollow \in Int
      BY DEF CountInv, Typed
    <2>3. ObjectsHeld'
      <3>1. objects >= whole + Holders /\ objects <= whole + Holders + crashes + leaked
        BY DEF CountInv, ObjectsHeld
      <3>2. /\ whole' = whole + 1 /\ whole \in Int
            /\ objects' = objects /\ crashes' = crashes /\ leaked' = leaked
        BY <1>1, <1>3, <2>2 DEF whole
      <3>3. whole' + Holders' = whole + Holders
        BY <2>1, <2>2, <3>2
      <3> QED
        BY <3>1, <3>2, <3>3 DEF ObjectsHeld
    <2>4. ClaimsCounted' /\ Importers <= 1 + takeovers
      BY <1>1, <1>3, <2>1 DEF CountInv, ClaimsCounted
    <2>5. AssetsCounted'
      <3>1. CASE assets > 0
        <4>1. assets + Storers <= 1 + takeovers
          BY <3>1 DEF CountInv, AssetsCounted
        <4>2. assets' + Storers' <= 1 + takeovers'
          BY <1>1, <1>3, <2>1, <2>2, <4>1, Sums
        <4> QED
          BY <4>2 DEF AssetsCounted
      <3>2. CASE ~(assets > 0)
        <4>1. assets' = 1
          BY <1>3, <2>2, <3>2
        <4>2. Importers <= 1 + takeovers => 1 + Storers' <= 1 + takeovers
          BY <2>1, <2>2, Sums
        <4>3. assets' + Storers' <= 1 + takeovers'
          BY <1>1, <2>4, <4>1, <4>2
        <4> QED
          BY <4>3 DEF AssetsCounted
      <3> QED
        BY <3>1, <3>2
    <2>6. GoneIsDeleted'
      BY <1>1, <1>3 DEF CountInv, GoneIsDeleted, At, Alone
    <2> QED
      BY <1>1, <2>1, <2>2, <2>3, <2>4, <2>5, <2>6 DEF CountInv
  <1> QED
    BY <1>1, <1>2, <1>3

(* A deletion: of an object that has no asset, or of one that has.          *)
LEMMA UndoCounts ==
  ASSUME Typed, CountInv, NEW w \in Runs, Undo(w)
  PROVE  CountInv'
  <1>1. /\ At(w, "undo") /\ run'[w].at = "fail" /\ Alone(w)
        /\ UNCHANGED <<meeting, assets, hollow, rec, takeovers, crashes>>
        /\ \/ objects' = objects - 1 /\ leaked' = leaked
           \/ objects' = objects /\ leaked' = leaked + 1
    BY MovesOne DEF Undo, Alone, Fault, session, budgets
  <1>2. /\ IsFiniteSet(InPlaces(Importing)') /\ Storers \in Nat
        /\ Holders \in Nat /\ Holders' \in Nat
        /\ Importers' = Importers /\ Storers' = Storers /\ Holders' + 1 = Holders
    BY <1>1, Counts DEF CountInv, At, Importing, Storing, Holding, Shift
  <1>3. /\ crashes \in Nat /\ leaked \in Nat /\ objects \in Int
        /\ whole \in Int /\ whole' = whole /\ leaked' \in Nat
    BY <1>1 DEF CountInv, Typed, whole
  <1>4. ObjectsHeld' /\ objects' \in Int
    <2>1. objects >= whole + Holders /\ objects <= whole + Holders + crashes + leaked
      BY DEF CountInv, ObjectsHeld
    <2>2. crashes' = crashes
      BY <1>1
    <2>4. /\ objects - 1 >= whole + Holders' /\ objects - 1 <= whole + Holders' + crashes + leaked
          /\ objects >= whole + Holders' /\ objects <= whole + Holders' + crashes + (leaked + 1)
      BY <1>2, <1>3, <2>1, Spares
    <2>3. objects' >= whole' + Holders' /\ objects' <= whole' + Holders' + crashes' + leaked'
      <3>1. CASE objects' = objects - 1 /\ leaked' = leaked
        BY <1>3, <2>2, <2>4, <3>1
      <3>2. CASE objects' = objects /\ leaked' = leaked + 1
        BY <1>3, <2>2, <2>4, <3>2
      <3> QED
        BY <1>1, <3>1, <3>2
    <2>5. objects' \in Int
      BY <1>1, <1>3
    <2> QED
      BY <2>3, <2>5 DEF ObjectsHeld
  <1>5. ClaimsCounted' /\ AssetsCounted'
    BY <1>1, <1>2 DEF CountInv, ClaimsCounted, AssetsCounted
  <1>6. GoneIsDeleted'
    BY <1>1 DEF CountInv, GoneIsDeleted, At, Alone
  <1> QED
    BY <1>1, <1>2, <1>3, <1>4, <1>5, <1>6 DEF CountInv

LEMMA HalfCounts ==
  ASSUME Typed, CountInv, NEW w \in Runs, Half(w)
  PROVE  CountInv'
  <1>1. /\ At(w, "half") /\ run'[w].at = "fail" /\ Alone(w)
        /\ UNCHANGED <<meeting, assets, leaked, rec, takeovers, crashes>>
        /\ \/ objects' = objects - 1 /\ hollow' = hollow + 1
           \/ objects' = objects /\ hollow' = hollow
    BY MovesOne DEF Half, Alone, Fault, session, budgets
  <1>2. /\ IsFiniteSet(InPlaces(Importing)') /\ Storers \in Nat
        /\ Holders \in Nat /\ Holders' \in Nat
        /\ Importers' = Importers /\ Storers' = Storers /\ Holders' = Holders
    BY <1>1, Counts DEF CountInv, At, Importing, Storing, Holding, Shift
  <1>3. /\ crashes \in Nat /\ leaked \in Nat /\ objects \in Int /\ hollow \in Int
        /\ whole \in Int
        /\ \/ objects' = objects - 1 /\ whole' = whole - 1
           \/ objects' = objects /\ whole' = whole
    BY <1>1 DEF CountInv, Typed, whole
  <1>4. ObjectsHeld' /\ objects' \in Int
    <2>1. objects >= whole + Holders /\ objects <= whole + Holders + crashes + leaked
      BY DEF CountInv, ObjectsHeld
    <2>2. crashes' = crashes /\ leaked' = leaked /\ objects' \in Int
      BY <1>1, <1>3
    <2>3. objects' >= whole' + Holders' /\ objects' <= whole' + Holders' + crashes' + leaked'
      BY <1>2, <1>3, <2>1, <2>2, Spares
    <2> QED
      BY <2>2, <2>3 DEF ObjectsHeld
  <1>5. ClaimsCounted' /\ AssetsCounted'
    BY <1>1, <1>2 DEF CountInv, ClaimsCounted, AssetsCounted
  <1>6. GoneIsDeleted'
    BY <1>1, <1>3 DEF CountInv, GoneIsDeleted, At, Alone
  <1> QED
    BY <1>1, <1>2, <1>3, <1>4, <1>5, <1>6 DEF CountInv

LEMMA CrashCounts ==
  ASSUME Typed, CountInv, NEW w \in Runs, Crash(w)
  PROVE  CountInv'
  <1>1. /\ run'[w].at = "idle" /\ Alone(w) /\ crashes' = crashes + 1
        /\ UNCHANGED <<meeting, assets, objects, hollow, leaked, rec, takeovers>>
    BY MovesOne DEF Crash, Alone, session, store
  <1>2. /\ takeovers \in Nat /\ crashes \in Nat /\ leaked \in Nat
        /\ assets \in Nat /\ objects \in Int /\ whole \in Int
    BY DEF CountInv, Typed, whole
  <1>3. /\ IsFiniteSet(InPlaces(Importing)') /\ Importers \in Nat /\ Importers' \in Nat
        /\ Storers \in Nat /\ Storers' \in Nat /\ Holders \in Nat /\ Holders' \in Nat
        /\ Importers' <= Importers /\ Storers' <= Storers
        /\ Holders' = Holders \/ Holders' + 1 = Holders
    BY <1>1, Counts DEF CountInv, Importing, Storing, Holding, Shift
  <1>4. ObjectsHeld'
    <2>1. ObjectsHeld
      BY DEF CountInv
    <2>2. whole' = whole /\ leaked' = leaked /\ objects' = objects
      BY <1>1 DEF whole
    <2>3. /\ objects >= whole + Holders'
          /\ objects <= whole + Holders' + (crashes + 1) + leaked
      BY <1>2, <1>3, <2>1, Spares DEF ObjectsHeld
    <2> QED
      BY <1>1, <2>2, <2>3 DEF ObjectsHeld
  <1>5. ClaimsCounted'
    <2>1. \A n \in Nat : Importers <= n => Importers' <= n
      BY <1>3
    <2>2. 1 + takeovers \in Nat
      BY <1>2
    <2> QED
      BY <1>1, <1>2, <2>1, <2>2 DEF CountInv, ClaimsCounted
  <1>6. AssetsCounted'
    <2>1. assets + Storers <= 1 + takeovers => assets + Storers' <= 1 + takeovers
      BY <1>2, <1>3, Sums
    <2> QED
      BY <1>1, <2>1 DEF CountInv, AssetsCounted
  <1>7. GoneIsDeleted'
    BY <1>1 DEF CountInv, GoneIsDeleted, At, Alone
  <1>8. crashes' \in Nat
    BY <1>1, <1>2
  <1> QED
    BY <1>1, <1>2, <1>3, <1>4, <1>5, <1>6, <1>7, <1>8 DEF CountInv

(* Nobody moves, and a meeting that is deleted stays so.                    *)
LEMMA OutsideCounts ==
  ASSUME Typed, CountInv, \A v \in Runs : run'[v].at = run[v].at,
         Queue \/ Age \/ Publish \/ Process \/ DeleteMeeting \/ Purge \/ UNCHANGED vars
  PROVE  CountInv'
  <1>1. /\ InPlaces(Importing)' = InPlaces(Importing)
        /\ Importers' = Importers /\ Storers' = Storers /\ Holders' = Holders
    BY NobodyMoves
  <1>2. CASE DeleteMeeting
    <2>1. /\ meeting' = "deleted" /\ assets' = 0 /\ hollow' = 0 /\ objects' = objects - whole
          /\ UNCHANGED <<leaked, takeovers, crashes>>
      BY <1>2 DEF DeleteMeeting, budgets, whole
    <2>2. /\ crashes \in Nat /\ leaked \in Nat /\ whole \in Int /\ objects \in Int
          /\ ObjectsHeld /\ Holders \in Nat
      <3>1. InPlaces(Holding) \subseteq InPlaces(Importing)
        BY DEF InPlaces, Holding, Importing
      <3>2. IsFiniteSet(InPlaces(Holding))
        BY <3>1, FS_Subset DEF CountInv
      <3> QED
        BY <3>2, FS_CardinalityType DEF CountInv, Typed, Holders, whole
    <2>3. ObjectsHeld' /\ objects' \in Int
      <3>1. whole' = 0
        BY <2>1 DEF whole
      <3> QED
        BY <1>1, <2>1, <2>2, <3>1 DEF ObjectsHeld
    <2>4. ClaimsCounted' /\ AssetsCounted' /\ GoneIsDeleted'
      BY <2>1 DEF ClaimsCounted, AssetsCounted, GoneIsDeleted
    <2> QED
      BY <1>1, <2>1, <2>3, <2>4 DEF CountInv
  <1>3. CASE ~DeleteMeeting
    <2>1. /\ UNCHANGED <<assets, objects, hollow, leaked, rec, takeovers, crashes>>
          /\ meeting = "deleted" <=> meeting' = "deleted"
      BY <1>3 DEF Queue, Ask, Stall, Take, Age, Publish, Process, Purge, vars, session, store, budgets
    <2>2. ObjectsHeld' /\ ClaimsCounted' /\ AssetsCounted'
      BY <1>1, <2>1 DEF CountInv, ObjectsHeld, whole, ClaimsCounted, AssetsCounted
    <2>3. GoneIsDeleted'
      BY <2>1 DEF CountInv, GoneIsDeleted, At
    <2> QED
      BY <1>1, <2>1, <2>2, <2>3 DEF CountInv
  <1> QED
    BY <1>2, <1>3

(* The counts are kept by every step.                                       *)
LEMMA CountStep ==
  ASSUME Typed, CountInv, [Next]_vars
  PROVE  CountInv'
  <1>1. ASSUME NEW w \in Runs, Step(w) PROVE CountInv'
    <2> USE DEF store, Alone, At, Importing, Storing, Holding
    <2>1. CASE Load(w) \/ ReadMeeting(w) \/ Busy(w)
      <3>1. /\ Alone(w) /\ UNCHANGED <<store, takeovers, crashes, rec>>
            /\ run'[w].at \in {"idle", "meeting", "busy", "gone", "claim"}
            /\ run'[w].at = "gone" => meeting = "deleted"
        <4>1. CASE Load(w)
          BY <4>1, MovesOne DEF Load, session, budgets, Fault
        <4>2. CASE ReadMeeting(w)
          BY <4>2, MovesOne DEF ReadMeeting, session, budgets
        <4>3. CASE Busy(w)
          BY <4>3, MovesOne DEF Busy, session, budgets
        <4> QED
          BY <2>1, <4>1, <4>2, <4>3
      <3>2. run[w].at \in {"load", "meeting", "busy"}
        BY <2>1 DEF Load, ReadMeeting, Busy
      <3> QED
        BY <3>1, <3>2, MoveCounts
    <2>2. CASE Gone(w)
      <3>1. At(w, "gone") /\ meeting = "deleted" /\ Alone(w) /\ run'[w].at = "idle"
        BY <2>2, MovesOne DEF Gone, CountInv, GoneIsDeleted
      <3> QED
        BY <2>2, <3>1, MoveCounts DEF Gone, budgets
    <2>3. CASE Locate(w)
      <3>1. /\ At(w, "locate") /\ Alone(w) /\ run'[w].at \in {"missing", "fail", "find"}
            /\ UNCHANGED <<store, takeovers, crashes, rec>>
        BY <2>3, MovesOne DEF Locate, session, budgets, Fault
      <3> QED
        BY <3>1, MoveCounts
    <2>4. CASE Missing(w) \/ Fail(w)
      <3>1. /\ run[w].at \in {"missing", "fail"} /\ Alone(w) /\ run'[w].at = "idle"
            /\ UNCHANGED <<store, takeovers, crashes>>
        BY <2>4, MovesOne DEF Missing, Fail, Fault, budgets
      <3> QED
        BY <3>1, MoveCounts
    <2>5. CASE Find(w)
      <3>1. /\ At(w, "find") /\ Alone(w) /\ UNCHANGED <<store, takeovers, crashes, rec>>
            /\ run'[w].at = IF assets > 0 THEN "check" ELSE "stream"
        BY <2>5, MovesOne DEF Find, session, budgets
      <3>2. assets > 0 \/ assets = 0
        BY DEF Typed
      <3> QED
        BY <3>1, <3>2, MoveCounts
    <2>6. CASE Look(w)
      <3>1. Goto(w, IF meeting = "scheduled" THEN "mark" ELSE "asset")
        BY <2>6 DEF Look, Goto
      <3>2. /\ At(w, "look") /\ Alone(w) /\ UNCHANGED <<store, takeovers, crashes, rec>>
            /\ run'[w].at \in {"mark", "asset"}
        BY <2>6, <3>1, MovesOne DEF Look, session, budgets
      <3> QED
        BY <3>2, MoveCounts
    <2>7. CASE Mark(w)
      <3>1. /\ At(w, "mark") /\ Alone(w) /\ run'[w].at \in {"asset", "undo"}
            /\ UNCHANGED <<assets, objects, hollow, leaked, takeovers, crashes, rec>>
            /\ (meeting = "deleted" <=> meeting' = "deleted")
        BY <2>7, MovesOne DEF Mark, session, budgets
      <3> QED
        BY <3>1, MoveCounts
    <2>8. CASE Check(w)
      <3>1. /\ At(w, "check") /\ Alone(w) /\ run'[w].at \in {"idle", "commit", "fail"}
            /\ UNCHANGED <<store, takeovers, crashes, rec>>
        BY <2>8, MovesOne DEF Check, session, budgets, Fault
      <3> QED
        BY <3>1, MoveCounts
    <2>9. CASE Commit(w)
      <3>1. /\ At(w, "commit") /\ Alone(w) /\ UNCHANGED <<store, takeovers, crashes>>
            /\ run'[w].at = "idle" \/ (run'[w].at = "fail" /\ rec' = rec)
        BY <2>9, MovesOne DEF Commit, session, budgets
      <3> QED
        BY <3>1, MoveCounts
    <2>10. CASE Promote(w)
      <3>1. /\ At(w, "promote") /\ Alone(w) /\ run'[w].at \in {"check", "half"}
            /\ UNCHANGED <<assets, objects, hollow, leaked, takeovers, crashes, rec>>
            /\ (meeting = "deleted" <=> meeting' = "deleted")
        BY <2>10, MovesOne DEF Promote, session, budgets, Fault
      <3> QED
        BY <3>1, MoveCounts
    <2>11. CASE StoreFails(w)
      <3>1. /\ Alone(w) /\ UNCHANGED <<store, takeovers, crashes, rec>>
            /\ \/ run[w].at \in {"meeting", "gone", "claim"} /\ run'[w].at = "busy"
               \/ run[w].at \in {"missing", "find", "commit"} /\ run'[w].at = "fail"
               \/ run[w].at \in {"look", "mark"} /\ run'[w].at = "undo"
        BY <2>11, MovesOne DEF StoreFails, session, Fault
      <3> QED
        BY <3>1, MoveCounts
    <2> QED
      BY <1>1, <2>1, <2>2, <2>3, <2>4, <2>5, <2>6, <2>7, <2>8, <2>9, <2>10, <2>11, ClaimCounts,
         StreamCounts, AssetCounts, UndoCounts, HalfCounts DEF Step
  <1>2. ASSUME NEW w \in Runs, Take(w) PROVE CountInv'
    <2>1. /\ run[w].at = "idle" /\ run'[w].at = "load" /\ Alone(w)
          /\ UNCHANGED <<store, takeovers, crashes, rec>>
      BY <1>2 DEF Take, Typed, Idle, At, Alone, session, budgets
    <2> QED
      BY <2>1, MoveCounts DEF store, Importing, Storing, Holding
  <1>3. CASE Ask \/ Stall \/ Age \/ Publish \/ Process \/ DeleteMeeting \/ Purge \/ UNCHANGED vars
    <2>1. run' = run
      BY <1>3 DEF Ask, Stall, Age, Publish, Process, DeleteMeeting, Purge, vars
    <2> QED
      BY <1>3, <2>1, OutsideCounts DEF Queue
  <1> QED
    BY <1>1, <1>2, <1>3, CrashCounts DEF Next, Queue

LEMMA CountInvariant == Spec => [](Typed /\ CountInv)
  <1>1. ImportInv => Typed
    BY DEF ImportInv
  <1> QED
    BY <1>1, ImportInvariant, CountInit, CountStep, PTL DEF Spec

(* A recording has one asset, and one more for each claim that was taken    *)
(* from a run that lived on: only a claim leads to an asset, and a run that *)
(* finds one makes none.                                                    *)
THEOREM OneAssetPerClaim == Spec => []OneAsset
  <1>1. Typed /\ CountInv => OneAsset
    <2> SUFFICES ASSUME Typed, CountInv PROVE assets <= 1 + takeovers
      BY DEF OneAsset
    <2>1. takeovers \in Nat /\ assets \in Nat /\ Storers \in Nat
      <3>1. InPlaces(Storing) \subseteq InPlaces(Importing)
        BY DEF InPlaces, Storing, Importing
      <3>2. IsFiniteSet(InPlaces(Storing))
        BY <3>1, FS_Subset DEF CountInv
      <3> QED
        BY <3>2, FS_CardinalityType DEF CountInv, Typed, Storers
    <2>2. CASE assets > 0
      <3>1. assets + Storers <= 1 + takeovers
        BY <2>2 DEF CountInv, AssetsCounted
      <3>2. \A a, s, t \in Nat : a + s <= 1 + t => a <= 1 + t
        OBVIOUS
      <3> QED
        BY <2>1, <3>1, <3>2
    <2>3. CASE ~(assets > 0)
      BY <2>1, <2>3
    <2> QED
      BY <2>2, <2>3
  <1> QED
    BY <1>1, CountInvariant, PTL

(* No object is left in the store without an asset, but those of runs that  *)
(* died holding one and those whose deletion failed: every other way out of *)
(* an import deletes it, or has made it an asset.                           *)
THEOREM ObjectsAreHeld == Spec => []NoOrphan
  <1>1. Typed /\ CountInv => NoOrphan
    <2> SUFFICES ASSUME Typed, CountInv PROVE objects - whole <= crashes + leaked + Holders
      BY DEF NoOrphan, Holders, InPlaces, Holding
    <2>1. InPlaces(Holding) \subseteq InPlaces(Importing)
      BY DEF InPlaces, Holding, Importing
    <2>2. IsFiniteSet(InPlaces(Holding))
      BY <2>1, FS_Subset DEF CountInv
    <2>3. /\ objects \in Int /\ whole \in Int /\ crashes \in Nat /\ leaked \in Nat
          /\ Holders \in Nat /\ objects <= whole + Holders + crashes + leaked
      BY <2>2, FS_CardinalityType DEF CountInv, ObjectsHeld, Typed, Holders, whole
    <2> QED
      BY <2>3
  <1> QED
    BY <1>1, CountInvariant, PTL

(* As long as its meeting is there, a recording has one importer, and one   *)
(* more for each claim that was taken from a run that lived on.             *)
THEOREM ClaimsExclude == Spec => []OneImporter
  <1>1. Typed /\ CountInv => OneImporter
    BY DEF CountInv, ClaimsCounted, OneImporter, Importers, InPlaces
  <1> QED
    BY <1>1, CountInvariant, PTL

-----------------------------------------------------------------------------
(* What is imported stays so.                                               *)
NoneImporting ==
  \A w \in Runs : run[w].at \notin Importing

LEMMA NobodyImports ==
  ASSUME Typed, CountInv, meeting # "deleted", takeovers = 0, rec # "importing"
  PROVE  NoneImporting
  <1>1. Importers <= 0 /\ Importers \in Nat /\ IsFiniteSet(InPlaces(Importing))
    BY FS_CardinalityType DEF CountInv, ClaimsCounted, Importers
  <1>2. InPlaces(Importing) = {}
    <2>1. Importers = 0
      BY <1>1
    <2> QED
      BY <1>1, <2>1, FS_EmptySet DEF Importers
  <1> QED
    BY <1>2 DEF InPlaces, NoneImporting

(* Who writes the status of the recording.                                  *)
LEMMA StatusWriters ==
  ASSUME Typed, GoneIsDeleted, [Next]_vars, rec' # rec
  PROVE  \/ meeting = "deleted"
         \/ ~(rec = "imported" /\ ingestJob) /\ \E w \in Runs : Claim(w)
         \/ rec' = "imported"
         \/ \E w \in Runs : run[w].at \in Importing
  <1>1. ASSUME NEW w \in Runs, Gone(w) PROVE meeting = "deleted"
    BY <1>1 DEF Gone, GoneIsDeleted
  <1>2. ASSUME NEW w \in Runs, Missing(w) \/ Fail(w) PROVE run[w].at \in Importing
    BY <1>2 DEF Missing, Fail, At, Importing
  <1>3. ASSUME NEW w \in Runs, Commit(w) PROVE run[w].at \in Importing
    BY <1>3 DEF Commit, At, Importing
  <1>4. ASSUME NEW w \in Runs, Claim(w), rec' # rec PROVE ~(rec = "imported" /\ ingestJob)
    BY <1>4 DEF Claim, Claimable, session
  <1>5. ASSUME NEW w \in Runs,
               \/ Load(w) \/ ReadMeeting(w) \/ Busy(w) \/ Locate(w) \/ Find(w) \/ Stream(w)
               \/ Look(w) \/ Mark(w) \/ Asset(w) \/ Promote(w) \/ Half(w) \/ Undo(w) \/ Check(w)
               \/ StoreFails(w) \/ Crash(w)
        PROVE  rec' = rec
    BY <1>5 DEF Load, ReadMeeting, Busy, Locate, Find, Stream, Look, Mark, Asset, Promote, Half,
                Undo, Check, StoreFails, Crash, session
  <1>6. Queue \/ Age \/ Publish \/ Process \/ DeleteMeeting \/ Purge \/ UNCHANGED vars => rec' = rec
    BY DEF Queue, Ask, Stall, Take, Age, Publish, Process, DeleteMeeting, Purge, vars, session
  <1> QED
    BY <1>1, <1>2, <1>3, <1>4, <1>5, <1>6 DEF Next, Step

(* A session that says `imported` says so until its meeting is deleted, as  *)
(* long as no claim was taken from a live run: a run that could write       *)
(* another answer would still be importing, and there is none.              *)
THEOREM ImportedStaysImported == Spec => ImportedStays
  <1>1. ImportInv /\ CountInv /\ [Next]_vars =>
          [rec = "imported" => rec' = "imported" \/ meeting = "deleted" \/ takeovers > 0]_vars
    <2> SUFFICES ASSUME ImportInv, CountInv, [Next]_vars, rec = "imported", rec' # "imported",
                        meeting # "deleted", ~(takeovers > 0)
                 PROVE  FALSE
      OBVIOUS
    <2>1. takeovers = 0 /\ Typed /\ ingestJob
      BY DEF ImportInv, CountInv, ImportedIsRecorded
    <2>2. NoneImporting
      BY <2>1, NobodyImports
    <2> QED
      BY <2>1, <2>2, StatusWriters DEF CountInv, NoneImporting
  <1> QED
    BY <1>1, ImportInvariant, CountInvariant, PTL DEF Spec, ImportedStays

(* A meeting whose recording was ingested has it.                           *)
IngestedHasAsset == meeting # "deleted" /\ ingest # "none" => assets > 0

(* Who adds the ingest, and who takes assets away.                          *)
LEMMA IngestedStep ==
  ASSUME Typed, IngestHasAsset, IngestedHasAsset, [Next]_vars
  PROVE  IngestedHasAsset'
  <1>1. assets \in Nat
    BY DEF Typed
  <1>2. ASSUME NEW w \in Runs, Check(w) PROVE IngestedHasAsset'
    <2>1. meeting # "deleted" => assets > 0
      BY <1>2 DEF Check, At, IngestHasAsset
    <2> QED
      BY <1>2, <2>1 DEF Check, store, IngestedHasAsset
  <1>3. ASSUME NEW w \in Runs, Asset(w) PROVE IngestedHasAsset'
    BY <1>1, <1>3 DEF Asset, IngestedHasAsset
  <1>4. ASSUME NEW w \in Runs, Mark(w) \/ Promote(w) PROVE IngestedHasAsset'
    BY <1>4 DEF Mark, Promote, IngestedHasAsset
  <1>5. ASSUME NEW w \in Runs,
               \/ Load(w) \/ ReadMeeting(w) \/ Gone(w) \/ Claim(w) \/ Busy(w) \/ Locate(w)
               \/ Missing(w) \/ Find(w) \/ Stream(w) \/ Look(w) \/ Half(w) \/ Undo(w)
               \/ Commit(w) \/ Fail(w) \/ StoreFails(w) \/ Crash(w)
        PROVE  IngestedHasAsset'
    <2>1. UNCHANGED <<meeting, assets, ingest>>
      BY <1>5 DEF Load, ReadMeeting, Gone, Claim, Busy, Locate, Missing, Find, Stream, Look,
                  Half, Undo, Commit, Fail, StoreFails, Crash, store
    <2> QED
      BY <2>1 DEF IngestedHasAsset
  <1>6. CASE Queue \/ Age \/ Publish \/ Purge \/ UNCHANGED vars
    <2>1. UNCHANGED <<meeting, assets, ingest>>
      BY <1>6 DEF Queue, Ask, Stall, Take, Age, Publish, Purge, vars, store
    <2> QED
      BY <2>1 DEF IngestedHasAsset
  <1>7. CASE Process \/ DeleteMeeting
    BY <1>7 DEF Process, DeleteMeeting, IngestedHasAsset
  <1> QED
    BY <1>2, <1>3, <1>4, <1>5, <1>6, <1>7 DEF Next, Step

(* A run that is about to move the meeting on made the first asset, and the *)
(* ingest is added by somebody who holds a claim.                           *)
PromotesFirst ==
  meeting # "deleted" /\ takeovers = 0 =>
    \A w \in Runs : At(w, "promote") => ingest = "none"

LEMMA OneHolds ==
  ASSUME CountInv, meeting # "deleted", takeovers = 0, NEW v \in Runs, NEW w \in Runs, v # w,
         run[v].at \in Importing
  PROVE  run[w].at \notin Importing
  <1> SUFFICES ASSUME run[w].at \in Importing PROVE FALSE
    OBVIOUS
  <1>1. Importers <= 1 /\ Importers \in Nat /\ IsFiniteSet(InPlaces(Importing))
    BY FS_CardinalityType DEF CountInv, ClaimsCounted, Importers
  <1>2. {v, w} \subseteq InPlaces(Importing)
    BY DEF InPlaces
  <1>3. IsFiniteSet({v}) /\ Cardinality({v}) = 1
    BY FS_Singleton
  <1>4. {v} \cup {w} = {v, w} /\ w \notin {v}
    OBVIOUS
  <1>5. IsFiniteSet({v, w}) /\ Cardinality({v, w}) = 2
    <2>1. IsFiniteSet({v} \cup {w}) /\ Cardinality({v} \cup {w}) = Cardinality({v}) + 1
      BY <1>3, <1>4, FS_AddElement
    <2> QED
      BY <1>3, <1>4, <2>1
  <1>6. 2 <= Importers
    BY <1>1, <1>2, <1>5, FS_Subset DEF Importers
  <1> QED
    BY <1>1, <1>6

LEMMA PromotesStep ==
  ASSUME Typed, CountInv, IngestedHasAsset, PromotesFirst, [Next]_vars
  PROVE  PromotesFirst'
  <1>1. takeovers' = 0 => takeovers = 0
    <2>1. \A w \in Runs : Claim(w) => takeovers' \in {takeovers, takeovers + 1}
      <3> SUFFICES ASSUME NEW w \in Runs, Claim(w) PROVE takeovers' \in {takeovers, takeovers + 1}
        OBVIOUS
      <3>1. \/ UNCHANGED budgets \/ takeovers' = takeovers + 1 \/ takeovers' = takeovers
        BY DEF Claim
      <3> QED
        BY <3>1 DEF budgets
    <2>2. \A w \in Runs : Step(w) /\ ~Claim(w) => takeovers' = takeovers
      <3> SUFFICES ASSUME NEW w \in Runs, Step(w), ~Claim(w) PROVE takeovers' = takeovers
        OBVIOUS
      <3>1. Fault \/ UNCHANGED budgets => takeovers' = takeovers
        BY DEF Fault, budgets
      <3>2. CASE Load(w) \/ ReadMeeting(w) \/ Gone(w) \/ Busy(w) \/ Locate(w) \/ Missing(w)
                   \/ Find(w) \/ Stream(w) \/ Look(w)
        BY <3>1, <3>2 DEF Load, ReadMeeting, Gone, Busy, Locate, Missing, Find, Stream, Look
      <3>3. CASE Mark(w) \/ Asset(w) \/ Promote(w) \/ Half(w) \/ Undo(w) \/ Check(w)
                   \/ Commit(w) \/ Fail(w) \/ StoreFails(w)
        BY <3>1, <3>3 DEF Mark, Asset, Promote, Half, Undo, Check, Commit, Fail, StoreFails
      <3> QED
        BY <3>2, <3>3 DEF Step
    <2>3. ~(\E w \in Runs : Step(w)) => takeovers' = takeovers
      BY DEF Next, Queue, Ask, Stall, Take, Crash, Age, Publish, Process, DeleteMeeting, Purge,
             vars, budgets
    <2> QED
      BY <2>1, <2>2, <2>3 DEF CountInv
  <1>2. meeting' # "deleted" => meeting # "deleted"
    <2>1. ASSUME NEW w \in Runs, Step(w) PROVE meeting' = meeting \/ meeting # "deleted"
      <3>1. CASE Load(w) \/ ReadMeeting(w) \/ Gone(w) \/ Claim(w) \/ Busy(w) \/ Locate(w)
                   \/ Missing(w) \/ Find(w) \/ Stream(w) \/ Look(w)
        BY <3>1 DEF Load, ReadMeeting, Gone, Claim, Busy, Locate, Missing, Find, Stream, Look, store
      <3>2. CASE Mark(w) \/ Asset(w) \/ Promote(w) \/ Half(w) \/ Undo(w) \/ Check(w)
                   \/ Commit(w) \/ Fail(w) \/ StoreFails(w)
        BY <3>2 DEF Mark, Asset, Promote, Half, Undo, Check, Commit, Fail, StoreFails, store
      <3> QED
        BY <2>1, <3>1, <3>2 DEF Step
    <2>2. ~(\E w \in Runs : Step(w)) => meeting' \in {meeting, "deleted"} \/ meeting # "deleted"
      BY DEF Next, Queue, Ask, Stall, Take, Crash, Age, Publish, Process, DeleteMeeting, Purge,
             vars, store
    <2> QED
      BY <2>1, <2>2
  <1> SUFFICES ASSUME meeting # "deleted", takeovers = 0, NEW w \in Runs, At(w, "promote")'
               PROVE  ingest' = "none"
    BY <1>1, <1>2 DEF PromotesFirst
  <1>3. ASSUME NEW v \in Runs, Step(v) PROVE ingest' = "none"
    <2>1. \A place : Goto(v, place) => run'[w].at = IF v = w THEN place ELSE run[w].at
      BY MovesOne
    <2>2. \A why : Throw(v, why) => run'[w].at = IF v = w THEN "fail" ELSE run[w].at
      BY MovesOne
    <2>3. Stop(v) => run'[w].at = IF v = w THEN "idle" ELSE run[w].at
      BY MovesOne
    <2>4. CASE Asset(v)
      <3>1. ingest' = ingest
        BY <2>4 DEF Asset
      <3>2. CASE At(w, "promote")
        BY <3>1, <3>2 DEF PromotesFirst
      <3>3. CASE ~At(w, "promote")
        <4>1. v = w
          BY <2>1, <2>4, <3>3 DEF Asset, At
        <4>2. w \in InPlaces(Storing)
          BY <2>4, <4>1 DEF Asset, At, InPlaces, Storing
        <4>3. InPlaces(Storing) \subseteq InPlaces(Importing)
          BY DEF InPlaces, Storing, Importing
        <4>4. IsFiniteSet(InPlaces(Storing)) /\ Storers \in Nat
          BY <4>3, FS_Subset, FS_CardinalityType DEF CountInv, Storers
        <4>5. Storers # 0
          BY <4>2, <4>4, FS_EmptySet DEF Storers
        <4>6. assets > 0 => assets + Storers <= 1
          BY DEF CountInv, AssetsCounted
        <4>7. ~(assets > 0)
          BY <4>4, <4>5, <4>6 DEF Typed
        <4> QED
          BY <3>1, <4>7 DEF IngestedHasAsset
      <3> QED
        BY <3>2, <3>3
    <2>5. CASE Check(v)
      <3>1. At(v, "check") /\ v # w /\ At(w, "promote")
        BY <2>1, <2>2, <2>3, <2>5 DEF Check, At
      <3>2. run[w].at \in Importing /\ run[v].at \in Importing
        BY <3>1 DEF At, Importing
      <3> QED
        BY <3>1, <3>2, OneHolds
    <2>6. CASE Look(v)
      <3>1. Goto(v, IF meeting = "scheduled" THEN "mark" ELSE "asset")
        BY <2>6 DEF Look, Goto
      <3>2. At(w, "promote") /\ ingest' = ingest
        BY <2>1, <2>6, <3>1 DEF Look, At
      <3> QED
        BY <3>2 DEF PromotesFirst
    <2>7. CASE Step(v) /\ ~Asset(v) /\ ~Check(v) /\ ~Look(v)
      <3>1. v # w => At(w, "promote")
        <4>1. v # w => run'[w].at = run[w].at
          BY <2>1, <2>2, <2>3, <2>7 DEF Step, Load, ReadMeeting, Gone, Claim, Busy, Locate, Missing,
             Find, Stream, Mark, Promote, Half, Undo, Commit, Fail, StoreFails
        <4> QED
          BY <4>1 DEF At
      <3>2. v # w
        <4>1. /\ \A place : Goto(v, place) => run'[v].at = place
              /\ \A why : Throw(v, why) => run'[v].at = "fail"
              /\ Stop(v) => run'[v].at = "idle"
          BY MovesOne
        <4>2. CASE Load(v) \/ ReadMeeting(v) \/ Gone(v) \/ Claim(v) \/ Busy(v) \/ Locate(v)
                     \/ Missing(v)
          <5>1. run'[v].at # "promote"
            BY <4>1, <4>2 DEF Load, ReadMeeting, Gone, Claim, Busy, Locate, Missing
          <5> QED
            BY <5>1 DEF At
        <4>3. CASE Find(v) \/ Stream(v) \/ Mark(v) \/ Promote(v) \/ Half(v) \/ Undo(v)
                     \/ Commit(v) \/ Fail(v) \/ StoreFails(v)
          <5>1. run'[v].at # "promote"
            BY <4>1, <4>3 DEF Find, Stream, Mark, Promote, Half, Undo, Commit, Fail, StoreFails
          <5> QED
            BY <5>1 DEF At
        <4> QED
          BY <2>7, <4>2, <4>3 DEF Step
      <3>3. ingest' = ingest
        BY <2>7 DEF Step, Load, ReadMeeting, Gone, Claim, Busy, Locate, Missing,
           Find, Stream, Mark, Promote, Half, Undo, Commit, Fail, StoreFails
      <3> QED
        BY <3>1, <3>2, <3>3 DEF PromotesFirst
    <2> QED
      BY <1>3, <2>4, <2>5, <2>6, <2>7
  <1>4. ASSUME NEW v \in Runs, Crash(v) PROVE ingest' = "none"
    <2>1. At(w, "promote") /\ ingest' = ingest
      BY <1>4, MovesOne DEF Crash, At
    <2> QED
      BY <2>1 DEF PromotesFirst
  <1>5. ASSUME NEW v \in Runs, Take(v) PROVE ingest' = "none"
    <2>1. \A u \in Runs : run'[u].at = IF u = v THEN "load" ELSE run[u].at
      BY <1>5 DEF Typed, Take, Idle
    <2>2. At(w, "promote")
      BY <2>1 DEF At
    <2>3. ingest' = ingest
      BY <1>5 DEF Take
    <2> QED
      BY <2>2, <2>3 DEF PromotesFirst
  <1>6. CASE Ask \/ Stall \/ Age \/ Publish \/ Process \/ DeleteMeeting \/ Purge \/ UNCHANGED vars
    <2>1. At(w, "promote")
      BY <1>6 DEF Ask, Stall, Age, Publish, Process, DeleteMeeting, Purge, vars, At
    <2>2. ingest = "none"
      BY <2>1 DEF PromotesFirst
    <2> QED
      BY <1>6, <2>2 DEF Ask, Stall, Age, Publish, Process, DeleteMeeting, Purge, vars
  <1> QED
    BY <1>3, <1>4, <1>5, <1>6 DEF Next, Queue

(* A meeting that the pipeline processed after its ingest is moved back by  *)
(* no import, as long as no claim was taken from a live run: an asset is    *)
(* there, and a run that found none before it was made is not left.         *)
THEOREM ProcessedStaysProcessed == Spec => ProcessedStays
  <1>1. ImportInv /\ CountInv /\ IngestedHasAsset /\ PromotesFirst /\ [Next]_vars =>
          [ingest = "done" /\ meeting = "processed" =>
             meeting' \in {"processed", "deleted"} \/ takeovers > 0]_vars
    <2> SUFFICES ASSUME ImportInv, CountInv, IngestedHasAsset, PromotesFirst, [Next]_vars, ingest = "done",
                        meeting = "processed", meeting' \notin {"processed", "deleted"},
                        ~(takeovers > 0)
                 PROVE  FALSE
      OBVIOUS
    <2>1. takeovers = 0 /\ assets \in Nat /\ assets > 0
      BY DEF ImportInv, Typed, CountInv, IngestedHasAsset
    <2>2. InPlaces(Storing) = {}
      <3>1. InPlaces(Storing) \subseteq InPlaces(Importing)
        BY DEF InPlaces, Storing, Importing
      <3>2. IsFiniteSet(InPlaces(Storing)) /\ Storers \in Nat
        BY <3>1, FS_Subset, FS_CardinalityType DEF CountInv, Storers
      <3>3. assets + Storers <= 1
        BY <2>1 DEF CountInv, AssetsCounted
      <3>4. Storers = 0
        BY <2>1, <3>2, <3>3
      <3> QED
        BY <3>2, <3>4, FS_EmptySet DEF Storers
    <2>3. \A w \in Runs : ~Mark(w) /\ ~Asset(w) /\ ~Promote(w)
      BY <2>1, <2>2 DEF InPlaces, Storing, Mark, Asset, Promote, PromotesFirst, At
    <2>4. \A w \in Runs : Step(w) \/ Crash(w) => meeting' = meeting
      <3> SUFFICES ASSUME NEW w \in Runs, Step(w) \/ Crash(w) PROVE meeting' = meeting
        OBVIOUS
      <3> QED
        BY <2>3 DEF Step, Load, ReadMeeting, Gone, Claim, Busy, Locate, Missing, Find, Stream,
                    Look, Half, Undo, Check, Commit, Fail, StoreFails, Crash, store
    <2>5. Queue \/ Age \/ Publish \/ Purge \/ UNCHANGED vars => meeting' = meeting
      BY DEF Queue, Ask, Stall, Take, Age, Publish, Purge, vars, store
    <2>6. Process \/ DeleteMeeting => meeting' \in {"processed", "deleted"}
      BY DEF Process, DeleteMeeting
    <2> QED
      BY <2>4, <2>5, <2>6 DEF Next
  <1>2. Init => IngestedHasAsset /\ PromotesFirst
    BY DEF Init, IngestedHasAsset, PromotesFirst
  <1>3. ImportInv /\ CountInv /\ IngestedHasAsset /\ PromotesFirst /\ [Next]_vars =>
          IngestedHasAsset' /\ PromotesFirst'
    BY IngestedStep, PromotesStep DEF ImportInv
  <1> QED
    BY <1>1, <1>2, <1>3, ImportInvariant, CountInvariant, PTL DEF Spec, ProcessedStays

-----------------------------------------------------------------------------
(* When the job is over, the recording is settled.                          *)
AnyJob == [st : {"none", "waiting", "active", "done", "failed"}, made : Nat, stalls : Nat,
           by : Runs \cup {NoRun}, cut : BOOLEAN]

(* What a failed run will write: the last attempt never says `pending`.     *)
FailKnown(w) ==
  At(w, "fail") =>
    run[w].why \in {"pending", "error", "permanent"} /\ (run[w].why = "pending" => ~run[w].final)

Unowned == job.st = "active" /\ job.by = NoRun

(* As long as locks are lost by dying only, a run that is alive owns the    *)
(* job, a stall is counted by a crash, and a job that is over left an       *)
(* answer.                                                                  *)
QuietFact ==
  /\ \A w \in Runs : Alive(w) => job.st = "active" /\ job.by = w
  /\ job.stalls <= crashes /\ (Unowned => job.stalls + 1 <= crashes)
  /\ ingestJob => job.st = "done" /\ rec = "imported"
  /\ crashes <= MaxStalled /\ job.st \in {"done", "failed"} =>
       rec \in Settled \/ (job.st = "failed" /\ job.cut)

SettleInv ==
  /\ job \in AnyJob /\ zombies \in Nat /\ crashes \in Nat
  /\ \A w \in Runs : FailKnown(w)
  /\ zombies = 0 => QuietFact

(* Nobody but w changes.                                                    *)
Lonely(w) ==
  /\ run' \in [Runs -> Run]
  /\ \A v \in Runs : v # w => run'[v] = run[v]

LEMMA LonelyMoves ==
  ASSUME Typed, NEW w \in Runs
  PROVE  /\ \A place \in Places : Goto(w, place) => Lonely(w) /\ run'[w].at = place
         /\ \A why \in {"pending", "error", "permanent"} :
              Throw(w, why) => Lonely(w) /\ run'[w].at = "fail" /\ run'[w].why = why
                                 /\ run'[w].final = run[w].final
         /\ Stop(w) => Lonely(w) /\ run'[w] = Idle
  <1>1. run \in [Runs -> Run] /\ run[w] \in Run
    BY DEF Typed
  <1>2. ASSUME NEW place \in Places, Goto(w, place) PROVE Lonely(w) /\ run'[w].at = place
    <2>1. run' \in [Runs -> Run]
      BY <1>2, MovesType
    <2> QED
      BY <1>1, <1>2, <2>1 DEF Lonely, Goto, Run
  <1>3. ASSUME NEW why \in {"pending", "error", "permanent"}, Throw(w, why)
        PROVE  /\ Lonely(w) /\ run'[w].at = "fail" /\ run'[w].why = why
               /\ run'[w].final = run[w].final
    <2>1. run' \in [Runs -> Run]
      BY <1>3, MovesType
    <2> QED
      BY <1>1, <1>3, <2>1 DEF Lonely, Throw, Run
  <1>4. ASSUME Stop(w) PROVE Lonely(w) /\ run'[w] = Idle
    <2>1. run' \in [Runs -> Run]
      BY <1>4, MovesType
    <2> QED
      BY <1>1, <1>4, <2>1 DEF Lonely, Stop
  <1> QED
    BY <1>2, <1>3, <1>4

(* A step of a run that goes on.                                            *)
LEMMA GoesOn ==
  ASSUME SettleInv, NEW w \in Runs, Alive(w), Lonely(w), Alive(w)', FailKnown(w)',
         UNCHANGED <<job, ingestJob, crashes, zombies>>
  PROVE  SettleInv'
  <1>1. \A v \in Runs : FailKnown(v)'
    BY DEF Lonely, SettleInv, FailKnown, At
  <1>2. ASSUME zombies = 0 PROVE QuietFact'
    <2>1. QuietFact /\ job.st = "active" /\ ~ingestJob
      BY <1>2 DEF SettleInv, QuietFact
    <2>2. \A v \in Runs : Alive(v)' => Alive(v)
      BY DEF Lonely, Alive, At
    <2> QED
      BY <2>1, <2>2 DEF QuietFact, Unowned
  <1> QED
    BY <1>1, <1>2 DEF SettleInv

(* The last step of a run.                                                  *)
LEMMA OthersRest ==
  ASSUME Typed, SettleInv, NEW w \in Runs, Alive(w), Stop(w)
  PROVE  /\ \A v \in Runs : FailKnown(v)'
         /\ zombies = 0 => /\ job.st = "active" /\ job.by = w /\ w # NoRun
                           /\ \A v \in Runs : ~Alive(v)'
  <1>1. Lonely(w) /\ run'[w] = Idle
    BY LonelyMoves
  <1>2. \A v \in Runs : FailKnown(v)'
    BY <1>1 DEF Lonely, SettleInv, FailKnown, At, Idle
  <1>3. zombies = 0 => \A v \in Runs : Alive(v) => job.st = "active" /\ job.by = v
    BY DEF SettleInv, QuietFact
  <1>4. \A v \in Runs : Alive(v)' => v # w /\ Alive(v)
    BY <1>1 DEF Lonely, Alive, At, Idle
  <1> QED
    BY <1>2, <1>3, <1>4, FinalizeAssumption

LEMMA Completes ==
  ASSUME Typed, SettleInv, NEW w \in Runs, Alive(w), Stop(w), Complete(w), UNCHANGED <<crashes, zombies>>,
         zombies = 0 => rec' \in Settled /\ (ingestJob' => rec' = "imported")
  PROVE  SettleInv'
  <1>1. /\ \A v \in Runs : FailKnown(v)'
        /\ zombies = 0 => job.by = w /\ \A v \in Runs : ~Alive(v)'
    BY OthersRest
  <1>2. job' \in AnyJob /\ job'.stalls = job.stalls
        /\ (job.by = w => job'.st = "done")
    BY DEF Complete, SettleInv, AnyJob
  <1>3. ASSUME zombies = 0 PROVE QuietFact'
    BY <1>1, <1>2, <1>3 DEF QuietFact, SettleInv, Unowned
  <1> QED
    BY <1>1, <1>2, <1>3 DEF SettleInv

LEMMA Retries ==
  ASSUME Typed, SettleInv, NEW w \in Runs, Alive(w), Stop(w), NEW permanent \in BOOLEAN,
         NEW silent \in BOOLEAN, Retry(w, permanent, silent),
         UNCHANGED <<ingestJob, crashes, zombies>>,
         permanent \/ run[w].final => rec' \in Settled \/ silent
  PROVE  SettleInv'
  <1>1. /\ \A v \in Runs : FailKnown(v)'
        /\ zombies = 0 => /\ job.st = "active" /\ job.by = w /\ w # NoRun
                          /\ \A v \in Runs : ~Alive(v)'
    BY OthersRest
  <1>2. run[w].final \in BOOLEAN
    BY DEF Typed, Run
  <1>3. /\ job' \in AnyJob /\ job'.stalls = job.stalls
        /\ job.by = w => /\ job'.st = IF permanent \/ run[w].final THEN "failed" ELSE "waiting"
                         /\ job'.cut = silent
    <2>1. CASE job.by # w
      BY <2>1 DEF Retry, SettleInv
    <2>2. CASE job.by = w
      <3> DEFINE st == IF permanent \/ run[w].final THEN "failed" ELSE "waiting"
      <3>1. job' = [job EXCEPT !.st = st, !.made = @ + 1, !.by = NoRun, !.cut = silent]
        BY <2>2 DEF Retry
      <3>2. st \in {"failed", "waiting"}
        BY <1>2
      <3> HIDE DEF st
      <3>3. /\ job \in AnyJob /\ job.made + 1 \in Nat /\ NoRun \in Runs \cup {NoRun}
        BY DEF SettleInv, AnyJob
      <3>4. job' = [st |-> st, made |-> job.made + 1, stalls |-> job.stalls, by |-> NoRun, cut |-> silent]
        BY <3>1, <3>3 DEF AnyJob
      <3>5. job'.stalls = job.stalls /\ job'.st = st /\ job'.cut = silent
        BY <3>4
      <3>6. st \in {"none", "waiting", "active", "done", "failed"} /\ job.stalls \in Nat
        BY <3>2, <3>3 DEF AnyJob
      <3>7. job' \in AnyJob
        BY <3>2, <3>3, <3>4, <3>6 DEF AnyJob
      <3> QED
        BY <3>5, <3>7 DEF st
    <2> QED
      BY <2>1, <2>2
  <1>4. ASSUME zombies = 0 PROVE QuietFact'
    <2>1. QuietFact /\ ~ingestJob
      BY <1>1, <1>4 DEF SettleInv, QuietFact
    <2>2. job'.st \in {"failed", "waiting"}
      BY <1>1, <1>3, <1>4
    <2>3. job'.st = "failed" => rec' \in Settled \/ job'.cut
      BY <1>1, <1>3, <1>4
    <2> QED
      BY <1>1, <1>3, <1>4, <2>1, <2>2, <2>3 DEF QuietFact, Unowned
  <1> QED
    BY <1>1, <1>3, <1>4 DEF SettleInv

LEMMA SettleStep ==
  ASSUME Typed, SettleInv, NEW w \in Runs, Step(w)
  PROVE  SettleInv'
  <1>0. /\ zombies = 0 /\ Alive(w) => ~ingestJob
        /\ run[w] \in Run /\ \A u \in {"idle"} : u \in Places
    BY DEF SettleInv, QuietFact, Typed, Places
  <1>1. ASSUME NEW place \in Places \ {"idle", "fail"}, Alive(w), Goto(w, place),
               UNCHANGED <<job, ingestJob, crashes, zombies>>
        PROVE  SettleInv'
    <2>1. Lonely(w) /\ run'[w].at = place
      BY <1>1, LonelyMoves
    <2> QED
      BY <1>1, <2>1, GoesOn DEF Alive, At, FailKnown
  <1>2. ASSUME NEW why \in {"pending", "error", "permanent"}, Alive(w), Throw(w, why),
               why = "pending" => ~run[w].final, UNCHANGED <<job, ingestJob, crashes, zombies>>
        PROVE  SettleInv'
    <2>1. Lonely(w) /\ run'[w].at = "fail" /\ run'[w].why = why /\ run'[w].final = run[w].final
      BY <1>2, LonelyMoves
    <2> QED
      BY <1>2, <2>1, GoesOn DEF Alive, At, FailKnown
  <1>3. \A place \in {"meeting", "gone", "claim", "locate", "missing", "find", "stream", "look",
                      "mark", "asset", "promote", "half", "undo", "check", "commit", "busy"} :
          place \in Places \ {"idle", "fail"}
    BY DEF Places
  <1>4. CASE Load(w)
    <2>1. Alive(w)
      BY <1>4 DEF Load, Alive, At
    <2>2. UNCHANGED <<rec, ingestJob, crashes, zombies>>
      BY <1>4 DEF Load, Fault, session, budgets
    <2>3. CASE rec = "imported" /\ ingestJob /\ Stop(w) /\ Complete(w)
      BY <1>0, <2>1, <2>2, <2>3, Completes
    <2>4. CASE UNCHANGED job /\ (Goto(w, "meeting") \/ Goto(w, "busy"))
      BY <1>1, <1>3, <2>1, <2>2, <2>4
    <2> QED
      BY <1>4, <2>3, <2>4 DEF Load
  <1>5. CASE ReadMeeting(w)
    BY <1>1, <1>3, <1>5 DEF ReadMeeting, Alive, At, session, budgets
  <1>6. CASE Gone(w)
    BY <1>0, <1>6, Completes DEF Gone, SetRec, Alive, At, Settled, budgets
  <1>7. CASE Claim(w)
    <2>1. Alive(w)
      BY <1>7 DEF Claim, Alive, At
    <2>2. CASE rec = "imported" /\ ingestJob
      BY <1>0, <1>7, <2>1, <2>2, Completes DEF Claim, Claimable, session, budgets
    <2>3. CASE ~(rec = "imported" /\ ingestJob)
      <3>1. (Goto(w, "locate") \/ Goto(w, "busy")) /\ UNCHANGED <<job, ingestJob, crashes, zombies>>
        BY <1>7, <2>3 DEF Claim, session, budgets
      <3> QED
        BY <1>1, <1>3, <2>1, <3>1
    <2> QED
      BY <2>2, <2>3
  <1>8. CASE Busy(w)
    <2>1. run[w].final \in BOOLEAN
      BY DEF Typed, Run
    <2>2. /\ Alive(w) /\ Stop(w) /\ Retry(w, FALSE, run[w].final)
          /\ UNCHANGED <<ingestJob, crashes, zombies>>
      BY <1>8 DEF Busy, Alive, At, session, budgets
    <2> QED
      BY <2>1, <2>2, Retries
  <1>9. CASE Locate(w)
    <2>1. Alive(w) /\ UNCHANGED <<job, ingestJob, crashes, zombies>>
      BY <1>9 DEF Locate, Alive, At, Fault, session, budgets
    <2>2. \/ Goto(w, "missing") \/ Goto(w, "find") \/ Throw(w, "permanent") \/ Throw(w, "error")
          \/ Throw(w, "pending") /\ ~run[w].final
      BY <1>9 DEF Locate
    <2> QED
      BY <1>1, <1>2, <1>3, <2>1, <2>2
  <1>10. CASE Missing(w)
    BY <1>0, <1>10, Completes DEF Missing, SetRec, Alive, At, Settled, budgets
  <1>11. CASE Find(w)
    BY <1>1, <1>3, <1>11 DEF Find, Alive, At, session, budgets
  <1>12. CASE Stream(w)
    <2>1. Alive(w) /\ UNCHANGED <<job, ingestJob, crashes, zombies>>
      BY <1>12 DEF Stream, Alive, At, Fault, session, budgets
    <2>2. Goto(w, "look") \/ Throw(w, "permanent") \/ Throw(w, "error")
      BY <1>12 DEF Stream
    <2> QED
      BY <1>1, <1>2, <1>3, <2>1, <2>2
  <1>13. CASE Look(w)
    <2>1. Goto(w, IF meeting = "scheduled" THEN "mark" ELSE "asset")
      BY <1>13 DEF Look, Goto
    <2> QED
      BY <1>1, <1>3, <1>13, <2>1 DEF Look, Alive, At, session, budgets
  <1>14. CASE Mark(w)
    BY <1>1, <1>3, <1>14 DEF Mark, Alive, At, session, budgets
  <1>15. CASE Asset(w)
    BY <1>1, <1>3, <1>15 DEF Asset, Alive, At, Fault, session, budgets
  <1>16. CASE Undo(w)
    BY <1>2, <1>16 DEF Undo, Alive, At, Fault, session, budgets
  <1>17. CASE Check(w)
    <2>1. Alive(w) /\ UNCHANGED <<rec, ingestJob, crashes, zombies>>
      BY <1>17 DEF Check, Alive, At, Fault, session, budgets
    <2>2. CASE ingestJob /\ Stop(w) /\ Complete(w)
      BY <1>0, <2>1, <2>2, Completes
    <2>3. CASE UNCHANGED job /\ (Goto(w, "commit") \/ Throw(w, "error"))
      BY <1>1, <1>2, <1>3, <2>1, <2>3
    <2> QED
      BY <1>17, <2>2, <2>3 DEF Check
  <1>18. CASE Commit(w)
    <2>1. Alive(w) /\ UNCHANGED <<crashes, zombies>>
      BY <1>18 DEF Commit, Alive, At, budgets
    <2>2. CASE rec' = "imported" /\ Stop(w) /\ Complete(w)
      BY <2>1, <2>2, Completes DEF Settled
    <2>3. CASE Throw(w, "error") /\ UNCHANGED <<session, job>>
      BY <1>2, <2>1, <2>3 DEF session
    <2> QED
      BY <1>18, <2>2, <2>3 DEF Commit, SetRec
  <1>19. CASE Fail(w)
    <2>1. /\ Alive(w) /\ Stop(w) /\ At(w, "fail") /\ (run[w].why = "permanent") \in BOOLEAN
          /\ UNCHANGED <<ingestJob, crashes, zombies>>
          /\ \/ rec' = Verdict(w) /\ Retry(w, run[w].why = "permanent", FALSE)
             \/ Retry(w, run[w].why = "permanent", TRUE)
      BY <1>19 DEF Fail, SetRec, Fault, Alive, At, budgets
    <2>2. FailKnown(w)
      BY DEF SettleInv
    <2>3. rec' = Verdict(w) /\ (run[w].why = "permanent" \/ run[w].final) => rec' \in Settled
      BY <2>1, <2>2 DEF Verdict, Settled, FailKnown
    <2>4. CASE Retry(w, run[w].why = "permanent", TRUE)
      BY <2>1, <2>4, Retries
    <2>5. CASE rec' = Verdict(w) /\ Retry(w, run[w].why = "permanent", FALSE)
      BY <2>1, <2>3, <2>5, Retries
    <2> QED
      BY <2>1, <2>4, <2>5
  <1>20. CASE Promote(w)
    BY <1>1, <1>3, <1>20 DEF Promote, Alive, At, Fault, session, budgets
  <1>21. CASE Half(w)
    BY <1>2, <1>21 DEF Half, Alive, At, Fault, session, budgets
  <1>22. CASE StoreFails(w)
    <2>1. Alive(w) /\ UNCHANGED <<job, ingestJob, crashes, zombies>>
      BY <1>22 DEF StoreFails, Alive, At, Fault, session
    <2>2. Goto(w, "busy") \/ Goto(w, "undo") \/ Throw(w, "error")
      BY <1>22 DEF StoreFails
    <2> QED
      BY <1>1, <1>2, <1>3, <2>1, <2>2
  <1> QED
    BY <1>4, <1>5, <1>6, <1>7, <1>8, <1>9, <1>10, <1>11, <1>12, <1>13, <1>14, <1>15, <1>16,
       <1>17, <1>18, <1>19, <1>20, <1>21, <1>22 DEF Step

LEMMA Released ==
  ASSUME NEW j \in AnyJob, NEW c \in BOOLEAN, NEW k, k = [j EXCEPT !.by = NoRun, !.cut = c]
  PROVE  k = [st |-> j.st, made |-> j.made, stalls |-> j.stalls, by |-> NoRun, cut |-> c]
  BY DEF AnyJob

LEMMA SettleKept ==
  ASSUME Typed, SettleInv, [Next]_vars
  PROVE  SettleInv'
  <1>0. MaxStalled \in Nat /\ NoRun \notin Runs
    BY FinalizeAssumption
  <1>1. CASE Ask
    <2>1. /\ UNCHANGED <<run, rec, ingestJob, crashes, zombies>>
          /\ job' = [job EXCEPT !.st = "waiting"] /\ job.st = "none"
      BY <1>1 DEF Ask, session, budgets
    <2>2. job' \in AnyJob /\ job'.st = "waiting" /\ job'.stalls = job.stalls
      BY <2>1 DEF SettleInv, AnyJob
    <2> QED
      BY <2>1, <2>2 DEF SettleInv, QuietFact, FailKnown, Alive, At, Unowned
  <1>2. CASE Stall
    <2>1. /\ UNCHANGED <<run, rec, ingestJob, crashes>> /\ job.st = "active"
          /\ zombies' \in Nat /\ (zombies' = 0 => zombies = 0 /\ job.by = NoRun)
      BY <1>2 DEF Stall, session, SettleInv
    <2>2. /\ job' \in AnyJob /\ job'.st \in {"waiting", "failed"} /\ job'.stalls <= job.stalls + 1
          /\ job'.st = "failed" => job.stalls >= MaxStalled
      <3> DEFINE cut == IF job.by = NoRun THEN job.cut ELSE run[job.by].final
                 lost == [job EXCEPT !.by = NoRun, !.cut = cut]
      <3>1. /\ job \in AnyJob /\ job.stalls \in Nat /\ job.made \in Nat /\ NoRun \in Runs \cup {NoRun}
            /\ job.by \in Runs \cup {NoRun} /\ job.cut \in BOOLEAN
        BY DEF SettleInv, AnyJob
      <3>2. cut \in BOOLEAN
        BY <3>1 DEF Typed, Run
      <3>3. job' = IF job.stalls < MaxStalled
                   THEN [lost EXCEPT !.st = "waiting", !.stalls = @ + 1]
                   ELSE [lost EXCEPT !.st = "failed"]
        BY <1>2 DEF Stall
      <3> HIDE DEF cut
      <3>4. lost = [st |-> job.st, made |-> job.made, stalls |-> job.stalls, by |-> NoRun, cut |-> cut]
        <4>1. PICK k : k = [job EXCEPT !.by = NoRun, !.cut = cut]
          OBVIOUS
        <4>2. k = [st |-> job.st, made |-> job.made, stalls |-> job.stalls, by |-> NoRun, cut |-> cut]
          BY <3>1, <3>2, <4>1, Released
        <4> QED
          BY <4>1, <4>2
      <3>5. CASE job.stalls < MaxStalled
        <4>1. job' = [lost EXCEPT !.st = "waiting", !.stalls = @ + 1]
          BY <3>3, <3>5
        <4> HIDE DEF lost
        <4>2. job' = [st |-> "waiting", made |-> job.made, stalls |-> job.stalls + 1, by |-> NoRun, cut |-> cut]
          BY <3>4, <4>1
        <4>3. job'.st = "waiting" /\ job'.stalls = job.stalls + 1
          BY <4>2
        <4>4. job.stalls + 1 \in Nat
          BY <3>1
        <4>5. job' \in AnyJob
          BY <3>1, <3>2, <4>2, <4>4 DEF AnyJob
        <4> QED
          BY <3>1, <4>3, <4>5
      <3>6. CASE ~(job.stalls < MaxStalled)
        <4>1. job' = [lost EXCEPT !.st = "failed"]
          BY <3>3, <3>6
        <4> HIDE DEF lost
        <4>2. job' = [st |-> "failed", made |-> job.made, stalls |-> job.stalls, by |-> NoRun, cut |-> cut]
          BY <3>4, <4>1
        <4>3. job'.st = "failed" /\ job'.stalls = job.stalls
          BY <4>2
        <4>4. job' \in AnyJob
          BY <3>1, <3>2, <4>2 DEF AnyJob
        <4> QED
          BY <1>0, <3>1, <3>6, <4>3, <4>4
      <3> QED
        BY <3>5, <3>6
    <2>3. \A v \in Runs : FailKnown(v)'
      BY <2>1 DEF SettleInv, FailKnown, At
    <2>4. ASSUME zombies' = 0 PROVE QuietFact'
      <3>1. QuietFact /\ Unowned
        BY <2>1, <2>4 DEF SettleInv, Unowned
      <3>2. \A v \in Runs : ~Alive(v)
        BY <1>0, <3>1 DEF QuietFact, Unowned
      <3>3. job.stalls + 1 <= crashes /\ job.stalls \in Nat /\ crashes \in Nat /\ job'.stalls \in Nat
        BY <2>2, <3>1 DEF QuietFact, SettleInv, AnyJob
      <3>4. job'.st = "failed" => ~(crashes <= MaxStalled)
        BY <1>0, <2>2, <3>3
      <3>5. job'.stalls <= crashes
        BY <2>2, <3>3
      <3>6. \A v \in Runs : ~Alive(v)'
        BY <2>1, <3>2 DEF Alive, At
      <3> QED
        BY <2>1, <2>2, <3>1, <3>4, <3>5, <3>6 DEF QuietFact, Unowned
    <2> QED
      BY <2>1, <2>2, <2>3, <2>4 DEF SettleInv
  <1>3. ASSUME NEW w \in Runs, Take(w) PROVE SettleInv'
    <2> DEFINE r == [Idle EXCEPT !.at = "load", !.final = job.made + 1 >= Attempts]
    <2>1. /\ UNCHANGED <<rec, ingestJob, crashes, zombies>> /\ job.st = "waiting"
          /\ job' = [job EXCEPT !.st = "active", !.by = w] /\ run' = [run EXCEPT ![w] = r]
      BY <1>3 DEF Take, session, budgets
    <2>2. /\ job' \in AnyJob /\ job'.st = "active" /\ job'.by = w /\ job'.stalls = job.stalls
      BY <2>1 DEF SettleInv, AnyJob
    <2>3. r.at = "load"
      BY DEF Idle
    <2>4. run'[w] = r /\ \A v \in Runs : v # w => run'[v] = run[v]
      <3> HIDE DEF r
      <3> QED
        BY <2>1 DEF Typed
    <2>5. \A v \in Runs : FailKnown(v)'
      <3> HIDE DEF r
      <3> QED
        BY <2>3, <2>4 DEF SettleInv, FailKnown, At
    <2>6. ASSUME zombies' = 0 PROVE QuietFact'
      <3>1. QuietFact /\ \A v \in Runs : ~Alive(v)
        BY <2>1, <2>6 DEF SettleInv, QuietFact
      <3>2. \A v \in Runs : Alive(v)' => v = w
        BY <2>4, <3>1 DEF Alive, At
      <3> QED
        BY <1>0, <2>1, <2>2, <3>1, <3>2 DEF QuietFact, Unowned
    <2> QED
      BY <2>1, <2>2, <2>5, <2>6 DEF SettleInv
  <1>4. ASSUME NEW w \in Runs, Crash(w) PROVE SettleInv'
    <2>1. /\ Alive(w) /\ crashes' = crashes + 1 /\ Stop(w) /\ UNCHANGED <<rec, ingestJob, zombies>>
          /\ job' = IF job.by = w THEN [job EXCEPT !.by = NoRun, !.cut = run[w].final] ELSE job
      BY <1>4 DEF Crash, session
    <2>2. run[w].final \in BOOLEAN
      BY DEF Typed, Run
    <2>3. job' \in AnyJob /\ job'.st = job.st /\ job'.stalls = job.stalls
      BY <2>1, <2>2 DEF SettleInv, AnyJob
    <2>4. /\ \A v \in Runs : FailKnown(v)'
          /\ zombies = 0 => job.st = "active" /\ \A v \in Runs : ~Alive(v)'
      BY <2>1, OthersRest
    <2>5. crashes' \in Nat /\ (job.stalls <= crashes => job.stalls <= crashes' /\ job.stalls + 1 <= crashes')
      BY <2>1 DEF SettleInv, AnyJob
    <2>6. ASSUME zombies = 0 PROVE QuietFact'
      BY <2>1, <2>3, <2>4, <2>5, <2>6 DEF SettleInv, QuietFact, Unowned
    <2> QED
      BY <2>1, <2>3, <2>4, <2>5, <2>6 DEF SettleInv
  <1>5. CASE Age
    <2>1. rec = "importing" /\ UNCHANGED <<rec, ingestJob, run, job, crashes, zombies>>
      BY <1>5 DEF Age, budgets
    <2> QED
      BY <2>1 DEF SettleInv, QuietFact, FailKnown, Alive, At, Unowned
  <1>6. CASE Publish \/ Process \/ DeleteMeeting \/ Purge \/ UNCHANGED vars
    <2>1. UNCHANGED <<rec, ingestJob, run, job, crashes, zombies>>
      BY <1>6 DEF Publish, Process, DeleteMeeting, Purge, vars, session, budgets
    <2> QED
      BY <2>1 DEF SettleInv, QuietFact, FailKnown, Alive, At, Unowned
  <1> QED
    BY <1>1, <1>2, <1>3, <1>4, <1>5, <1>6, SettleStep DEF Next, Queue

(* When the job is over the recording is imported, missing or failed: every *)
(* way out of a run writes an answer or leaves the job to be retried, and   *)
(* the last attempt never says `pending`.  The exceptions are inside the    *)
(* property.  With fairness, the job is over in time; TLC checks the rest.  *)
THEOREM TheEndIsAnAnswer == Spec => []OverIsSettled
  <1>1. Init => SettleInv
    <2>1. Init => \A w \in Runs : run[w].at = "idle"
      BY DEF Init, Idle
    <2> QED
      BY <2>1 DEF Init, SettleInv, QuietFact, NoJob, AnyJob, FailKnown, Alive, At, Unowned
  <1>2. ImportInv => Typed
    BY DEF ImportInv
  <1>3. SettleInv => OverIsSettled
    <2> SUFFICES ASSUME SettleInv, job.st \in {"done", "failed"}, ~(zombies > 0), ~(crashes > MaxStalled)
                 PROVE  rec \in Settled \/ (job.st = "failed" /\ job.cut)
      BY DEF OverIsSettled
    <2>1. zombies = 0 /\ crashes <= MaxStalled
      BY FinalizeAssumption DEF SettleInv
    <2> QED
      BY <2>1 DEF SettleInv, QuietFact
  <1> QED
    BY <1>1, <1>2, <1>3, SettleKept, ImportInvariant, PTL DEF Spec
=============================================================================
