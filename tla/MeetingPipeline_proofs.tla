------------------------ MODULE MeetingPipeline_proofs ------------------------
(***************************************************************************)
(* Proofs about MeetingPipeline, for every number of jobs, titles, workers *)
(* and every bound: types, that no job undoes what people did to a task,   *)
(* and that a finished job's row says so; and, where one job runs at a     *)
(* time, that generation leaves one task per title, that a task is         *)
(* announced at most once and that the meeting shows the last outcome.     *)
(***************************************************************************)
EXTENDS MeetingPipeline, TLAPS

(* Tasks by id, and what a worker may be doing.                             *)
TaskMaps == UNION {[D -> Item] : D \in SUBSET Ids}

Attempt == [job : Jobs \cup {Nobody}, pc : Steps \cup {"idle"},
            previous : SUBSET Ids, output : SUBSET Titles,
            seen : TaskMaps, fresh : SUBSET Creations]

Busy(w) == run[w].pc # "idle"

TypeInv ==
  /\ meeting \in Settled \cup {"transcribing", "summarizing", "indexing"}
  /\ items \in TaskMaps
  /\ created \in [Titles -> Nat] /\ summary \in BOOLEAN
  /\ name \in [Jobs -> Names \cup {"none"}]
  /\ row \in [Jobs -> {"none", "queued", "active", "completed", "failed"}]
  /\ entry \in [Jobs -> {"none", "waiting", "active", "completed", "failed"}]
  /\ attempts \in [Jobs -> 0..MaxAttempts - 1]
  /\ stalls \in [Jobs -> 0..MaxStalls + 1]
  /\ run \in [Workers -> Attempt]
  /\ \A w \in Workers : run[w] = Idle \/ (Busy(w) /\ run[w].job \in Jobs)
  /\ calls \in 0..MaxCalls /\ faults \in 0..MaxFaults /\ crashes \in 0..MaxCrashes
  /\ DOMAIN announced \subseteq Creations /\ \A c \in DOMAIN announced : announced[c] \in Nat
  /\ last \in {"none", "completed", "failed"}
  /\ adrift \subseteq {"stalled", "fallback", "unwritten"}

(* A job that stalled once too often is given up.                           *)
StallsInv ==
  \A j \in Jobs : entry[j] \in {"none", "waiting", "active"} => stalls[j] <= MaxStalls

(* A job that the queue knows has a row and a name.                         *)
RowsHave == \A j \in Jobs : entry[j] # "none" => row[j] # "none" /\ name[j] # "none"

(* Tasks and their ids are older than the next ones of their title.         *)
IdsInv ==
  /\ \A i \in DOMAIN items :
       i[2] < created[i[1]] /\ items[i].nth < created[i[1]] /\ items[i].orig = i[1]
  /\ \A t \in Titles : 0 < created[t]

-----------------------------------------------------------------------------
(* Tasks.                                                                   *)

LEMMA EmptyMap == DOMAIN <<>> = {} /\ <<>> \in TaskMaps
  <1>1. DOMAIN <<>> = {} /\ <<>> \in [{} -> Item]
    OBVIOUS
  <1> QED
    BY <1>1 DEF TaskMaps

LEMMA MapParts ==
  ASSUME NEW f \in TaskMaps
  PROVE  DOMAIN f \in SUBSET Ids /\ \A i \in DOMAIN f : f[i] \in Item
  BY DEF TaskMaps

LEMMA MapMade ==
  ASSUME NEW D \in SUBSET Ids, NEW f \in [D -> Item]
  PROVE  f \in TaskMaps
  BY DEF TaskMaps

(* What is older than the next task of a title stays so.                    *)
Grows == created' \in [Titles -> Nat] /\ \A t \in Titles : created[t] <= created'[t]

LEMMA StaysOlder ==
  ASSUME TypeInv, Grows, NEW t \in Titles, NEW n \in Nat, n < created[t]
  PROVE  n < created'[t]
  <1>1. created[t] \in Nat /\ created'[t] \in Nat /\ created[t] <= created'[t]
    BY DEF TypeInv, Grows
  <1>2. \A a, b \in Nat : n < a /\ a <= b => n < b
    OBVIOUS
  <1> QED
    BY <1>1, <1>2

(* The task that is refreshed for a title, and what it and a new one become. *)
Chosen(seen, t) == CHOOSE i \in Match(seen, t) : TRUE

Generated(t, n) ==
  [orig |-> t, title |-> t, origin |-> "ai", edited |-> FALSE, done |-> FALSE, nth |-> n]

MergedItem(old, ins, i) == Generated(i[1], IF i \in ins THEN created[i[1]] ELSE old[i].nth)

LEMMA MergedIs ==
  ASSUME NEW old, NEW seen, NEW out, NEW local
  PROVE  Merged(old, seen, out, local) =
           [i \in (DOMAIN old \ (DOMAIN seen \ (Kept(seen) \cup Refreshed(seen, out))))
                    \cup Inserted(seen, out, local) |->
              IF i \in Refreshed(seen, out) \cup Inserted(seen, out, local)
              THEN MergedItem(old, Inserted(seen, out, local), i) ELSE old[i]]
  BY DEF Merged, MergedItem, Generated

(* A refreshed task was nobody's own, and the only one refreshed for its    *)
(* title; a new one has its title's id, or the next one, and no task that   *)
(* was read answers to the title.                                           *)
LEMMA MergeParts ==
  ASSUME NEW seen, NEW out, NEW local
  PROVE  /\ \A i \in Refreshed(seen, out) :
              /\ i \in DOMAIN seen \ Kept(seen)
              /\ seen[i].orig \in Wanted(seen, out)
              /\ i = Chosen(seen, seen[i].orig)
         /\ \A i \in Inserted(seen, out, local) :
              /\ i = NewId(seen, i[1], local)
              /\ i[1] \in Wanted(seen, out) /\ Match(seen, i[1]) = {}
         /\ Wanted(seen, out) \subseteq out
         /\ \A i \in Kept(seen) : seen[i].orig \notin Wanted(seen, out)
  <1>1. ASSUME NEW i \in Refreshed(seen, out)
        PROVE  /\ i \in DOMAIN seen \ Kept(seen)
               /\ seen[i].orig \in Wanted(seen, out)
               /\ i = Chosen(seen, seen[i].orig)
    <2>1. PICK t \in Wanted(seen, out) : Match(seen, t) # {} /\ i = Chosen(seen, t)
      BY <1>1 DEF Refreshed, Chosen
    <2>2. i \in Match(seen, t)
      BY <2>1 DEF Chosen
    <2>3. seen[i].orig = t /\ i \in DOMAIN seen \ Kept(seen)
      BY <2>2 DEF Match, existingKey
    <2> QED
      BY <2>1, <2>3
  <1>2. ASSUME NEW i \in Inserted(seen, out, local)
        PROVE  /\ i = NewId(seen, i[1], local)
               /\ i[1] \in Wanted(seen, out) /\ Match(seen, i[1]) = {}
    <2>1. PICK t \in Wanted(seen, out) : Match(seen, t) = {} /\ i = NewId(seen, t, local)
      BY <1>2 DEF Inserted
    <2>2. i[1] = t
      BY <2>1 DEF NewId
    <2> QED
      BY <2>1, <2>2
  <1>3. \A i \in Kept(seen) : seen[i].orig \in Answered(seen, Kept(seen))
    BY DEF Answered, existingKey
  <1> QED
    BY <1>1, <1>2, <1>3 DEF Wanted

-----------------------------------------------------------------------------
(* What each step does.                                                     *)

(* A worker's step changes what that worker does only.                      *)
LEMMA GoDoes ==
  ASSUME TypeInv, NEW w \in Workers, NEW r \in Attempt, Go(w, r)
  PROVE  /\ run' \in [Workers -> Attempt]
         /\ run'[w] = r
         /\ \A v \in Workers : v # w => run'[v] = run[v]
  BY DEF TypeInv, Go

LEMMA IdleIs ==
  /\ Idle \in Attempt /\ Idle.pc = "idle" /\ Idle.job = Nobody
  /\ \A j \in Jobs, pc \in Steps :
       /\ [Idle EXCEPT !.job = j, !.pc = pc] \in Attempt
       /\ [Idle EXCEPT !.job = j, !.pc = pc].job = j
       /\ [Idle EXCEPT !.job = j, !.pc = pc].pc = pc
  BY EmptyMap DEF Idle, Attempt

(* A worker at a step of a job has that job.                                *)
LEMMA BusyHas ==
  ASSUME TypeInv, NEW w \in Workers
  PROVE  /\ run[w] \in Attempt
         /\ Busy(w) => run[w].job \in Jobs /\ run[w].pc \in Steps
         /\ ~Busy(w) => run[w] = Idle /\ run[w].job = Nobody
         /\ \A pc \in Steps : At(w, pc) => Busy(w)
  <1>1. run[w] \in Attempt
    BY DEF TypeInv
  <1>2. "idle" \notin Steps
    BY DEF Steps
  <1>3. run[w] = Idle \/ (Busy(w) /\ run[w].job \in Jobs)
    BY DEF TypeInv
  <1>4. run[w].pc \in Steps \cup {"idle"}
    BY <1>1 DEF Attempt
  <1>5. Busy(w) => run[w].job \in Jobs /\ run[w].pc \in Steps
    BY <1>3, <1>4, IdleIs DEF Busy
  <1>6. ~Busy(w) => run[w] = Idle /\ run[w].job = Nobody
    BY <1>3, IdleIs
  <1>7. \A pc \in Steps : At(w, pc) => Busy(w)
    BY <1>2 DEF Busy, At
  <1> QED
    BY <1>1, <1>5, <1>6, <1>7

(* A worker that is busy before the step is so after it, with the same job. *)
Moves(w, r) == r \in Attempt /\ Go(w, r) /\ Busy(w) /\ r.pc \in Steps /\ r.job = run[w].job

(* The attempts that the steps of a job go on with: at a further step, with *)
(* the tasks read, the model's answer, the rows locked, or new tasks.       *)
ToStep(w, pc) == [run[w] EXCEPT !.pc = pc]
ToRead(w, pc) == [run[w] EXCEPT !.pc = pc, !.previous = Known(w)]
ToPlan(w, out) == [run[w] EXCEPT !.pc = "plan", !.output = out]
ToLock(w) == [run[w] EXCEPT !.pc = "lock", !.seen = items]
There(w) == Restrict(items, DOMAIN run[w].seen \cap DOMAIN items)
ToCommit(w) == [run[w] EXCEPT !.pc = "commit", !.seen = There(w)]
ToAnnounce(w, new) ==
  [run[w] EXCEPT !.pc = "announce", !.seen = <<>>, !.output = {}, !.fresh = new]
ToFinish(w) == [run[w] EXCEPT !.pc = "finish", !.previous = {}, !.fresh = {}]
ToTold(w) == [Idle EXCEPT !.job = run[w].job, !.pc = "told"]

LEMMA Goes ==
  ASSUME TypeInv, NEW w \in Workers, Busy(w)
  PROVE  /\ \A pc \in Steps :
              /\ ToStep(w, pc) \in Attempt
              /\ ToStep(w, pc).pc = pc /\ ToStep(w, pc).job = run[w].job
              /\ ToStep(w, pc).previous = run[w].previous
         /\ \A pc \in Steps :
              /\ ToRead(w, pc) \in Attempt
              /\ ToRead(w, pc).pc = pc /\ ToRead(w, pc).job = run[w].job
              /\ ToRead(w, pc).previous = Known(w)
         /\ \A out \in SUBSET Titles :
              /\ ToPlan(w, out) \in Attempt
              /\ ToPlan(w, out).pc = "plan" /\ ToPlan(w, out).job = run[w].job
              /\ ToPlan(w, out).previous = run[w].previous
         /\ /\ ToLock(w) \in Attempt
            /\ ToLock(w).pc = "lock" /\ ToLock(w).job = run[w].job
            /\ ToLock(w).previous = run[w].previous /\ ToLock(w).seen = items
         /\ /\ ToCommit(w) \in Attempt
            /\ ToCommit(w).pc = "commit" /\ ToCommit(w).job = run[w].job
            /\ ToCommit(w).previous = run[w].previous /\ ToCommit(w).seen = There(w)
         /\ \A new \in SUBSET Creations :
              /\ ToAnnounce(w, new) \in Attempt
              /\ ToAnnounce(w, new).pc = "announce" /\ ToAnnounce(w, new).job = run[w].job
              /\ ToAnnounce(w, new).fresh = new
         /\ /\ ToFinish(w) \in Attempt
            /\ ToFinish(w).pc = "finish" /\ ToFinish(w).job = run[w].job
         /\ /\ ToTold(w) \in Attempt
            /\ ToTold(w).pc = "told" /\ ToTold(w).job = run[w].job
  <1>1. /\ run[w] \in Attempt /\ items \in TaskMaps /\ DOMAIN items \in SUBSET Ids
        /\ Known(w) \in SUBSET Ids
    BY BusyHas, MapParts DEF TypeInv, Known
  <1>0. There(w) \in TaskMaps
    <2> DEFINE D == DOMAIN run[w].seen \cap DOMAIN items
    <2>1. There(w) = [i \in D |-> items[i]] /\ D \in SUBSET Ids
      BY <1>1 DEF There, Restrict
    <2>2. \A i \in D : items[i] \in Item
      BY <1>1, MapParts
    <2> HIDE DEF D
    <2>3. There(w) \in [D -> Item]
      BY <2>1, <2>2
    <2> QED
      BY <2>1, <2>3, MapMade
  <1>2. {"plan", "lock", "commit", "announce", "finish", "told"} \subseteq Steps
    BY DEF Steps
  <1>3. ToTold(w) \in Attempt /\ ToTold(w).pc = "told" /\ ToTold(w).job = run[w].job
    BY <1>2, BusyHas, IdleIs, ZenonT(60) DEF ToTold
  <1>4. \A pc \in Steps :
        /\ ToStep(w, pc) \in Attempt /\ ToStep(w, pc).pc = pc /\ ToStep(w, pc).job = run[w].job
        /\ ToStep(w, pc).previous = run[w].previous
    BY <1>1, <1>2, EmptyMap DEF Attempt, ToStep
  <1>5. \A pc \in Steps :
        /\ ToRead(w, pc) \in Attempt /\ ToRead(w, pc).pc = pc /\ ToRead(w, pc).job = run[w].job
        /\ ToRead(w, pc).previous = Known(w)
    BY <1>1, <1>2, EmptyMap DEF Attempt, ToRead
  <1>6. \A out \in SUBSET Titles :
        /\ ToPlan(w, out) \in Attempt /\ ToPlan(w, out).pc = "plan" /\ ToPlan(w, out).job = run[w].job
        /\ ToPlan(w, out).previous = run[w].previous
    BY <1>1, <1>2, EmptyMap DEF Attempt, ToPlan
  <1>7. /\ ToCommit(w) \in Attempt /\ ToCommit(w).pc = "commit" /\ ToCommit(w).job = run[w].job
        /\ ToCommit(w).previous = run[w].previous /\ ToCommit(w).seen = There(w)
    BY <1>0, <1>1, <1>2, EmptyMap DEF Attempt, ToCommit
  <1>10. /\ ToLock(w) \in Attempt /\ ToLock(w).pc = "lock" /\ ToLock(w).job = run[w].job
         /\ ToLock(w).previous = run[w].previous /\ ToLock(w).seen = items
    BY <1>1, <1>2, EmptyMap DEF Attempt, ToLock
  <1>8. \A new \in SUBSET Creations :
        /\ ToAnnounce(w, new) \in Attempt /\ ToAnnounce(w, new).pc = "announce" /\ ToAnnounce(w, new).job = run[w].job
        /\ ToAnnounce(w, new).fresh = new
    BY <1>1, <1>2, EmptyMap DEF Attempt, ToAnnounce
  <1>9. /\ ToFinish(w) \in Attempt /\ ToFinish(w).pc = "finish" /\ ToFinish(w).job = run[w].job
    BY <1>1, <1>2, EmptyMap DEF Attempt, ToFinish
  <1> QED
    BY <1>3, <1>4, <1>5, <1>6, <1>7, <1>8, <1>9, <1>10

LEMMA StepDoes ==
  ASSUME TypeInv, NEW w \in Workers
  PROVE  /\ MarkActive(w) => \E r : Moves(w, r) /\ r.pc = "load"
         /\ Load(w) => \E r :
              /\ Moves(w, r)
              /\ \/ r.pc \in {"asr", "sum"} /\ r.previous = Known(w)
                 \/ r.pc = "import"
                 \/ r.pc = "finish"
              /\ r.pc = "finish" <=> NameOf(w) = "meeting.index"
              /\ r.pc # "finish" => NameOf(w) \in Processing
         /\ Transcribe(w) => \E r :
              Moves(w, r) /\ r.pc = "sum" /\ r.previous = run[w].previous
         /\ ImportArtifacts(w) => \E r :
              /\ Moves(w, r)
              /\ \/ r.pc = "sum" /\ r.previous = Known(w)
                    /\ UNCHANGED <<name, row, entry, adrift>>
                 \/ r.pc = "finish"
         /\ Summarize(w) => \E r :
              Moves(w, r) /\ r.pc = "plan" /\ r.previous = run[w].previous
         /\ PlanMerge(w) => \E r :
              /\ Moves(w, r) /\ r.pc = "lock" /\ r.previous = run[w].previous
              /\ r.seen = items
         /\ LockRows(w) => \E r :
              /\ Moves(w, r) /\ r.pc = "commit" /\ r.previous = run[w].previous
              /\ r.seen = There(w)
         /\ Announce(w) => \E r : Moves(w, r) /\ r.pc = "finish"
         /\ CompleteJob(w) => \E r : Moves(w, r) /\ r.pc = "ack"
         /\ FailJob(w) => \E r : Moves(w, r) /\ r.pc = "told"
  <1>1. {"mark", "load", "asr", "import", "sum", "plan", "lock", "commit",
          "announce", "finish", "ack", "told"} \subseteq Steps
    BY DEF Steps
  <1>2. \A pc \in Steps : At(w, pc) => Busy(w)
    BY BusyHas
  <1>3. MarkActive(w) => Busy(w) /\ Go(w, ToStep(w, "load"))
    BY <1>1, <1>2 DEF MarkActive, ToStep
  <1>4. Load(w) =>
          /\ Busy(w)
          /\ \/ NameOf(w) = "media.ingest" /\ Go(w, ToRead(w, "asr"))
             \/ NameOf(w) = "meeting.summarize" /\ Go(w, ToRead(w, "sum"))
             \/ NameOf(w) = "artifact.import" /\ Go(w, ToStep(w, "import"))
             \/ NameOf(w) = "meeting.index" /\ Go(w, ToStep(w, "finish"))
    BY <1>1, <1>2 DEF Load, ToRead, ToStep
  <1>5. Transcribe(w) => Busy(w) /\ Go(w, ToStep(w, "sum"))
    BY <1>1, <1>2 DEF Transcribe, ToStep
  <1>6. ImportArtifacts(w) =>
          /\ Busy(w)
          /\ \/ Go(w, ToRead(w, "sum")) /\ UNCHANGED <<name, row, entry, adrift>>
             \/ Go(w, ToStep(w, "finish"))
    BY <1>1, <1>2 DEF ImportArtifacts, ToRead, ToStep
  <1>7. Summarize(w) => Busy(w) /\ \E out \in SUBSET Titles : Go(w, ToPlan(w, out))
    BY <1>1, <1>2 DEF Summarize, ToPlan
  <1>8. PlanMerge(w) => Busy(w) /\ Go(w, ToLock(w))
    BY <1>1, <1>2 DEF PlanMerge, ToLock
  <1>22. LockRows(w) => Busy(w) /\ Go(w, ToCommit(w))
    BY <1>1, <1>2 DEF LockRows, ToCommit, There
  <1>9. Announce(w) => Busy(w) /\ Go(w, ToFinish(w))
    BY <1>1, <1>2 DEF Announce, ToFinish
  <1>10. CompleteJob(w) => Busy(w) /\ Go(w, ToStep(w, "ack"))
    BY <1>1, <1>2 DEF CompleteJob, ToStep
  <1>11. FailJob(w) => Busy(w) /\ Go(w, ToTold(w))
    <2>1. \A pc \in MayFail : pc \in Steps
      BY DEF MayFail, Steps
    <2> QED
      BY <1>2, <2>1 DEF FailJob, At, ToTold
  <1>12. /\ \A pc \in Steps : Busy(w) /\ Go(w, ToStep(w, pc)) => Moves(w, ToStep(w, pc))
         /\ \A pc \in Steps : Busy(w) /\ Go(w, ToRead(w, pc)) => Moves(w, ToRead(w, pc))
         /\ \A out \in SUBSET Titles :
              Busy(w) /\ Go(w, ToPlan(w, out)) => Moves(w, ToPlan(w, out))
         /\ Busy(w) /\ Go(w, ToLock(w)) => Moves(w, ToLock(w))
         /\ Busy(w) /\ Go(w, ToCommit(w)) => Moves(w, ToCommit(w))
         /\ Busy(w) /\ Go(w, ToFinish(w)) => Moves(w, ToFinish(w))
         /\ Busy(w) /\ Go(w, ToTold(w)) => Moves(w, ToTold(w))
    BY <1>1, Goes DEF Moves
  <1>13. MarkActive(w) => \E r : Moves(w, r) /\ r.pc = "load"
    BY <1>1, <1>3, <1>12, Goes
  <1>14. Load(w) => \E r :
           /\ Moves(w, r)
           /\ \/ r.pc \in {"asr", "sum"} /\ r.previous = Known(w)
              \/ r.pc = "import"
              \/ r.pc = "finish"
           /\ r.pc = "finish" <=> NameOf(w) = "meeting.index"
           /\ r.pc # "finish" => NameOf(w) \in Processing
    BY <1>1, <1>4, <1>12, Goes DEF Processing
  <1>15. Transcribe(w) => \E r :
           Moves(w, r) /\ r.pc = "sum" /\ r.previous = run[w].previous
    BY <1>1, <1>5, <1>12, Goes
  <1>16. ImportArtifacts(w) => \E r :
           /\ Moves(w, r)
           /\ \/ r.pc = "sum" /\ r.previous = Known(w)
                 /\ UNCHANGED <<name, row, entry, adrift>>
              \/ r.pc = "finish"
    BY <1>1, <1>6, <1>12, Goes
  <1>17. Summarize(w) => \E r :
           Moves(w, r) /\ r.pc = "plan" /\ r.previous = run[w].previous
    BY <1>1, <1>7, <1>12, Goes
  <1>18. PlanMerge(w) => \E r :
           /\ Moves(w, r) /\ r.pc = "lock" /\ r.previous = run[w].previous
           /\ r.seen = items
    BY <1>1, <1>8, <1>12, Goes
  <1>23. LockRows(w) => \E r :
           /\ Moves(w, r) /\ r.pc = "commit" /\ r.previous = run[w].previous
           /\ r.seen = There(w)
    BY <1>1, <1>12, <1>22, Goes
  <1>19. Announce(w) => \E r : Moves(w, r) /\ r.pc = "finish"
    BY <1>1, <1>9, <1>12, Goes
  <1>20. CompleteJob(w) => \E r : Moves(w, r) /\ r.pc = "ack"
    BY <1>1, <1>10, <1>12, Goes
  <1>21. FailJob(w) => \E r : Moves(w, r) /\ r.pc = "told"
    BY <1>1, <1>11, <1>12, Goes
  <1> QED
    BY <1>13, <1>14, <1>15, <1>16, <1>17, <1>18, <1>19, <1>20, <1>21, <1>23

(* Steps after which the worker has no job.                                 *)
LEMMA LeaveDoes ==
  ASSUME TypeInv, NEW w \in Workers,
         Ack(w) \/ Retry(w) \/ FailMeeting(w) \/ MarkFails(w) \/ Crash(w)
  PROVE  /\ Go(w, Idle) /\ Busy(w) /\ UNCHANGED <<items, created, summary, name, announced>>
         /\ run[w].job \in Jobs
  <1>1. {"mark", "ack", "told"} \cup MayFail \subseteq Steps
    BY DEF Steps, MayFail
  <1>2. Busy(w)
    <2>1. CASE Ack(w) \/ FailMeeting(w) \/ MarkFails(w)
      BY <1>1, <2>1, BusyHas DEF Ack, FailMeeting, MarkFails
    <2>2. CASE Retry(w)
      BY <1>1, <2>2, BusyHas DEF Retry, At
    <2>3. CASE Crash(w)
      BY <2>3, BusyHas DEF Crash
    <2> QED
      BY <2>1, <2>2, <2>3
  <1> QED
    BY <1>2, BusyHas DEF Ack, Retry, FailMeeting, MarkFails, Crash, taskVars, jobVars

(* What a persisted merge has inserted, and the tasks that result.          *)
MergeDone(w, ins) ==
  LET seen == run[w].seen
      out == run[w].output
  IN  /\ \E local \in BOOLEAN : ins = Inserted(seen, out, local)
      /\ items' \in TaskMaps
      /\ DOMAIN items' = (DOMAIN items \ (DOMAIN seen \ (Kept(seen) \cup Refreshed(seen, out))))
                           \cup ins
      /\ \A i \in DOMAIN items' :
           items'[i] = IF i \in Refreshed(seen, out) \cup ins
                       THEN MergedItem(items, ins, i) ELSE items[i]
      /\ Grows /\ summary'
      /\ \A i \in ins :
           /\ i \in Ids /\ i \notin DOMAIN items
           /\ i[2] < created'[i[1]] /\ created[i[1]] < created'[i[1]]
           /\ items'[i].nth = created[i[1]]
      /\ \E r : /\ Moves(w, r) /\ r.pc = "announce"
                /\ r.fresh = {<<i, items'[i].nth>> : i \in DOMAIN items' \ run[w].previous}

LEMMA PersistDoes ==
  ASSUME TypeInv, IdsInv, NEW w \in Workers, Persist(w)
  PROVE  \E ins : MergeDone(w, ins)
  <1> DEFINE seen == run[w].seen
             out == run[w].output
  <1>0. PICK local \in BOOLEAN :
          /\ local \/ ~Collides(w)
          /\ items' = Merged(items, seen, out, local)
          /\ created' = [t \in Titles |-> IF \E i \in Inserted(seen, out, local) : i[1] = t
                                         THEN created[t] + 1 ELSE created[t]]
    BY DEF Persist
  <1> DEFINE ins == Inserted(seen, out, local)
             D == (DOMAIN items \ (DOMAIN seen \ (Kept(seen) \cup Refreshed(seen, out)))) \cup ins
             G == Refreshed(seen, out) \cup ins
  <1>1. Busy(w) /\ run[w] \in Attempt
    BY BusyHas DEF Persist, Steps
  <1>2. seen \in TaskMaps /\ out \in SUBSET Titles /\ DOMAIN seen \in SUBSET Ids
    BY <1>1, MapParts DEF Attempt
  <1>3. created \in [Titles -> Nat] /\ items \in TaskMaps
    BY DEF TypeInv
  <1>4. DOMAIN items \in SUBSET Ids /\ \A i \in DOMAIN items : items[i] \in Item
    BY <1>3, MapParts
  <1>5. \A t \in Titles, n \in Nat : Generated(t, n) \in Item /\ Generated(t, n).nth = n
    BY DEF Generated, Item
  <1>6. \A i \in Ids : i = <<i[1], i[2]>> /\ i[1] \in Titles /\ i[2] \in Nat
    BY DEF Ids
  <1>7. ASSUME NEW i \in ins
        PROVE  /\ i[1] \in Titles /\ i \in Ids /\ i \notin DOMAIN items
               /\ i[2] <= created[i[1]]
    <2>1. i = NewId(seen, i[1], local) /\ i[1] \in Titles
      BY <1>2, <1>7, MergeParts
    <2>2. created[i[1]] \in Nat
      BY <1>3, <2>1
    <2>3. CASE i = <<i[1], created[i[1]]>>
      <3>1. i \in Ids /\ i[2] = created[i[1]]
        BY <2>1, <2>2, <2>3 DEF Ids
      <3>2. ~(i[2] < created[i[1]])
        BY <2>2, <3>1
      <3> QED
        BY <2>1, <2>2, <3>1, <3>2 DEF IdsInv
    <2>4. CASE ~local /\ i = <<i[1], 0>>
      <3>1. i \in Ids /\ i[2] = 0
        BY <2>1, <2>4 DEF Ids
      <3>2. i \in Inserted(seen, out, FALSE)
        BY <1>7, <2>4
      <3>3. i \notin DOMAIN items
        BY <1>0, <2>4, <3>2 DEF Collides, Persist
      <3> QED
        BY <2>1, <2>2, <3>1, <3>3
    <2> QED
      BY <2>1, <2>3, <2>4 DEF NewId
  <1>8. items' = [i \in D |-> IF i \in G THEN MergedItem(items, ins, i) ELSE items[i]]
    BY <1>0, MergedIs
  <1>9. D \in SUBSET Ids
    BY <1>4, <1>7
  <1>10. \A i \in D : i \notin ins => i \in DOMAIN items
    OBVIOUS
  <1>17. ins \subseteq D /\ ins \subseteq G
    OBVIOUS
  <1> HIDE DEF D, G, ins
  <1>18. ASSUME NEW i \in D
         PROVE  /\ MergedItem(items, ins, i) \in Item
                /\ i \in ins => MergedItem(items, ins, i).nth = created[i[1]]
    <2>1. i[1] \in Titles /\ created[i[1]] \in Nat
      BY <1>3, <1>6, <1>9, <1>18
    <2>2. i \notin ins => items[i].nth \in Nat
      BY <1>4, <1>10, <1>18 DEF Item
    <2>3. (IF i \in ins THEN created[i[1]] ELSE items[i].nth) \in Nat
      BY <2>1, <2>2
    <2> QED
      BY <1>5, <2>1, <2>3 DEF MergedItem
  <1>11. items' \in [D -> Item]
    <2>1. \A i \in D : (IF i \in G THEN MergedItem(items, ins, i) ELSE items[i]) \in Item
      BY <1>4, <1>10, <1>17, <1>18
    <2> QED
      BY <1>8, <2>1
  <1>12. items' \in TaskMaps /\ DOMAIN items' = D
    BY <1>8, <1>9, <1>11, MapMade
  <1>13. ASSUME NEW t \in Titles
         PROVE  /\ created'[t] \in Nat /\ created[t] <= created'[t]
                /\ (\E i \in ins : i[1] = t) => created'[t] = created[t] + 1
    <2>1. created'[t] = IF \E i \in ins : i[1] = t THEN created[t] + 1 ELSE created[t]
      BY <1>0 DEF ins
    <2>2. created[t] \in Nat
      BY <1>3
    <2> QED
      BY <2>1, <2>2
  <1>14. Grows
    <2>1. created' = [t \in Titles |-> created'[t]]
      BY <1>0
    <2> QED
      BY <1>13, <2>1 DEF Grows
  <1>15. ASSUME NEW i \in ins
         PROVE  /\ i[2] < created'[i[1]] /\ created[i[1]] < created'[i[1]]
                /\ items'[i].nth = created[i[1]]
    <2>1. i[1] \in Titles /\ i[2] \in Nat /\ i[2] <= created[i[1]] /\ created[i[1]] \in Nat
      BY <1>3, <1>6, <1>7, <1>15
    <2>2. created'[i[1]] = created[i[1]] + 1
      BY <1>13, <1>15, <2>1
    <2>3. items'[i] = MergedItem(items, ins, i)
      BY <1>8, <1>15, <1>17
    <2> QED
      BY <1>15, <1>17, <1>18, <2>1, <2>2, <2>3
  <1>16. \E r : /\ Moves(w, r) /\ r.pc = "announce"
                /\ r.fresh = {<<i, items'[i].nth>> : i \in DOMAIN items' \ run[w].previous}
    <2> DEFINE new == {<<i, items'[i].nth>> : i \in DOMAIN items' \ run[w].previous}
    <2>1. Go(w, ToAnnounce(w, new))
      BY DEF Persist, ToAnnounce
    <2>2. \A i \in DOMAIN items' : i \in Ids /\ items'[i].nth \in Nat
      BY <1>9, <1>11, <1>12 DEF Item
    <2>3. new \in SUBSET Creations
      BY <2>2 DEF Creations
    <2> HIDE DEF new
    <2>4. Moves(w, ToAnnounce(w, new)) /\ ToAnnounce(w, new).pc = "announce"
          /\ ToAnnounce(w, new).fresh = new
      BY <1>1, <2>1, <2>3, Goes DEF Moves, Steps
    <2> QED
      BY <2>4 DEF new
  <1>19. summary'
    BY DEF Persist
  <1>20. \A i \in DOMAIN items' :
           items'[i] = IF i \in Refreshed(seen, out) \cup ins
                       THEN MergedItem(items, ins, i) ELSE items[i]
    BY <1>8, <1>12 DEF G
  <1>21. \E l \in BOOLEAN : ins = Inserted(seen, out, l)
    BY DEF ins
  <1>22. DOMAIN items' = (DOMAIN items \ (DOMAIN seen \ (Kept(seen) \cup Refreshed(seen, out))))
                           \cup ins
    BY <1>12 DEF D
  <1> HIDE DEF seen, out
  <1> QED
    BY <1>7, <1>12, <1>14, <1>15, <1>16, <1>19, <1>20, <1>21, <1>22 DEF MergeDone, seen, out

LEMMA PersistMoves ==
  ASSUME TypeInv, IdsInv, NEW w \in Workers, Persist(w)
  PROVE  \E r : Moves(w, r) /\ r.pc = "announce"
  BY PersistDoes DEF MergeDone

-----------------------------------------------------------------------------
(* Types.                                                                   *)

(* The invariant of types, of what the queue knows and of the tasks' ids.   *)
BaseInv == TypeInv /\ StallsInv /\ RowsHave /\ IdsInv

LEMMA TypeInit == Init => BaseInv
  <1> SUFFICES ASSUME Init PROVE BaseInv
    OBVIOUS
  <1>1. MaxAttempts \in Nat \ {0} /\ MaxStalls \in Nat /\ MaxFaults \in Nat
        /\ MaxCrashes \in Nat /\ MaxCalls \in Nat
    BY PipelineAssumption
  <1>2. /\ attempts \in [Jobs -> 0..MaxAttempts - 1] /\ stalls \in [Jobs -> 0..MaxStalls + 1]
        /\ calls \in 0..MaxCalls /\ faults \in 0..MaxFaults /\ crashes \in 0..MaxCrashes
    BY <1>1 DEF Init
  <1>3. run \in [Workers -> Attempt] /\ \A w \in Workers : run[w] = Idle
    BY IdleIs DEF Init
  <1>4. items \in TaskMaps /\ DOMAIN items = {} /\ DOMAIN announced = {}
    BY EmptyMap DEF Init
  <1>5. TypeInv
    BY <1>2, <1>3, <1>4 DEF Init, TypeInv, Settled
  <1>6. StallsInv
    BY <1>1 DEF Init, StallsInv
  <1>7. RowsHave /\ IdsInv
    BY <1>4 DEF Init, RowsHave, IdsInv
  <1> QED
    BY <1>5, <1>6, <1>7 DEF BaseInv

(* Jobs: their names, rows and entries.                                     *)
LEMMA JobSets ==
  ASSUME TypeInv, NEW j \in Jobs
  PROVE  /\ \A s \in {"queued", "active", "completed", "failed"} :
              row' = [row EXCEPT ![j] = s] =>
                /\ row' \in [Jobs -> {"none", "queued", "active", "completed", "failed"}]
                /\ row'[j] = s /\ \A i \in Jobs : i # j => row'[i] = row[i]
         /\ \A s \in {"waiting", "active", "completed", "failed"} :
              entry' = [entry EXCEPT ![j] = s] =>
                /\ entry' \in [Jobs -> {"none", "waiting", "active", "completed", "failed"}]
                /\ entry'[j] = s /\ \A i \in Jobs : i # j => entry'[i] = entry[i]
         /\ \A n \in Names :
              name' = [name EXCEPT ![j] = n] =>
                /\ name' \in [Jobs -> Names \cup {"none"}]
                /\ name'[j] = n /\ \A i \in Jobs : i # j => name'[i] = name[i]
  BY DEF TypeInv

(* What a step does to a worker keeps its type.                             *)
LEMMA RunTyped ==
  ASSUME TypeInv, NEW w \in Workers,
         Go(w, Idle) \/ \E r \in Attempt : Go(w, r) /\ r.pc \in Steps /\ r.job \in Jobs
  PROVE  /\ run' \in [Workers -> Attempt]
         /\ \A v \in Workers : run'[v] = Idle \/ (Busy(v)' /\ run'[v].job \in Jobs)
  <1>1. "idle" \notin Steps
    BY DEF Steps
  <1>2. PICK r \in Attempt : Go(w, r) /\ (r = Idle \/ (r.pc \in Steps /\ r.job \in Jobs))
    BY IdleIs
  <1>3. /\ run' \in [Workers -> Attempt] /\ run'[w] = r
        /\ \A v \in Workers : v # w => run'[v] = run[v]
    BY <1>2, GoDoes
  <1>4. \A v \in Workers : run[v] = Idle \/ (Busy(v) /\ run[v].job \in Jobs)
    BY DEF TypeInv
  <1> QED
    BY <1>1, <1>2, <1>3, <1>4 DEF Busy

LEMMA RunMoves ==
  ASSUME TypeInv, NEW w \in Workers, NEW r, Moves(w, r)
  PROVE  /\ run' \in [Workers -> Attempt]
         /\ \A v \in Workers : run'[v] = Idle \/ (Busy(v)' /\ run'[v].job \in Jobs)
         /\ run[w].job \in Jobs /\ r.job \in Jobs
         /\ run'[w] = r /\ \A v \in Workers : v # w => run'[v] = run[v]
  <1>1. run[w].job \in Jobs /\ r.job \in Jobs /\ r \in Attempt /\ Go(w, r) /\ r.pc \in Steps
    BY BusyHas DEF Moves
  <1> QED
    BY <1>1, RunTyped, GoDoes

(* Requests and stalled jobs.                                               *)
LEMMA TypeJobs ==
  ASSUME BaseInv, NEW j \in Jobs
  PROVE  /\ \A n \in Requests : Request(j, n) => BaseInv'
         /\ Stalled(j) => BaseInv'
  <1> USE DEF BaseInv
  <1>1. ASSUME NEW n \in Requests, Request(j, n) PROVE BaseInv'
    <2>1. n \in Names /\ n # "none"
      BY PipelineAssumption DEF Names, Processing
    <2>2. /\ name' \in [Jobs -> Names \cup {"none"}]
          /\ row' \in [Jobs -> {"none", "queued", "active", "completed", "failed"}]
          /\ entry' \in [Jobs -> {"none", "waiting", "active", "completed", "failed"}]
      BY <1>1, <2>1, JobSets DEF Request
    <2>3. TypeInv'
      BY <1>1, <2>2 DEF Request, TypeInv, taskVars, bounds, Busy
    <2>4. IdsInv'
      BY <1>1 DEF Request, IdsInv, taskVars
    <2>5. entry' = [entry EXCEPT ![j] = "waiting"] /\ UNCHANGED stalls
      BY <1>1 DEF Request
    <2>6. stalls[j] <= MaxStalls /\ \A i \in Jobs : i # j => entry'[i] = entry[i]
      <3>1. entry[j] = "none"
        BY <1>1 DEF Request, RowsHave
      <3> QED
        BY <2>5, <3>1, JobSets DEF StallsInv
    <2>7. RowsHave'
      <3>1. name' = [name EXCEPT ![j] = n] /\ row' = [row EXCEPT ![j] = "queued"]
            /\ entry' = [entry EXCEPT ![j] = "waiting"]
        BY <1>1 DEF Request
      <3>2. /\ name'[j] = n /\ \A i \in Jobs : i # j => name'[i] = name[i]
            /\ row'[j] = "queued" /\ \A i \in Jobs : i # j => row'[i] = row[i]
            /\ \A i \in Jobs : i # j => entry'[i] = entry[i]
        BY <2>1, <3>1, JobSets
      <3> QED
        BY <2>1, <3>2 DEF RowsHave
    <2>8. StallsInv'
      BY <2>5, <2>6 DEF StallsInv
    <2> QED
      BY <2>3, <2>4, <2>7, <2>8
  <1>2. ASSUME Stalled(j) PROVE BaseInv'
    <2>1. entry' = [entry EXCEPT ![j] = "waiting"] \/ entry' = [entry EXCEPT ![j] = "failed"]
      BY <1>2 DEF Stalled
    <2>2. entry' \in [Jobs -> {"none", "waiting", "active", "completed", "failed"}]
      BY <2>1, JobSets
    <2>3. stalls[j] <= MaxStalls /\ stalls[j] \in Nat /\ MaxStalls \in Nat
      BY <1>2, PipelineAssumption DEF Stalled, StallsInv, TypeInv
    <2>4. stalls[j] + 1 \in 0..MaxStalls + 1
      BY <2>3
    <2>5. /\ stalls' \in [Jobs -> 0..MaxStalls + 1]
          /\ stalls'[j] = stalls[j] + 1 /\ \A i \in Jobs : i # j => stalls'[i] = stalls[i]
      BY <1>2, <2>4 DEF Stalled, TypeInv
    <2>9. adrift' \subseteq {"stalled", "fallback", "unwritten"}
      BY <1>2 DEF Stalled, TypeInv
    <2>6. TypeInv'
      BY <1>2, <2>2, <2>5, <2>9 DEF Stalled, TypeInv, taskVars, bounds, Busy
    <2>7. IdsInv'
      BY <1>2 DEF Stalled, IdsInv, taskVars
    <2>8. ASSUME NEW i \in Jobs, entry'[i] \in {"none", "waiting", "active"}
          PROVE  stalls'[i] <= MaxStalls
      <3>1. CASE i = j
        <4>1. stalls[j] < MaxStalls
          BY <1>2, <2>8, <3>1 DEF Stalled, TypeInv
        <4> QED
          BY <2>3, <2>5, <3>1, <4>1
      <3>2. CASE i # j
        BY <2>1, <2>5, <2>8, <3>2, JobSets DEF StallsInv
      <3> QED
        BY <3>1, <3>2
    <2>10. RowsHave'
      BY <1>2, <2>1, JobSets DEF Stalled, RowsHave
    <2> QED
      BY <2>6, <2>7, <2>8, <2>10 DEF StallsInv
  <1> QED
    BY <1>1, <1>2

(* A job's row, once there, is not taken away, nor is its name; an entry    *)
(* that is not the queue's any more does not come back.                     *)
LEMMA JobsKept ==
  ASSUME BaseInv, NEW j \in Jobs, row[j] # "none",
         UNCHANGED <<name, stalls>>,
         UNCHANGED row \/ \E s \in {"queued", "active", "completed", "failed"} :
                            row' = [row EXCEPT ![j] = s],
         \/ UNCHANGED entry
         \/ /\ entry[j] \in {"waiting", "active"}
            /\ \E s \in {"waiting", "active", "completed", "failed"} :
                 entry' = [entry EXCEPT ![j] = s]
  PROVE  /\ row' \in [Jobs -> {"none", "queued", "active", "completed", "failed"}]
         /\ entry' \in [Jobs -> {"none", "waiting", "active", "completed", "failed"}]
         /\ StallsInv' /\ RowsHave'
  <1> USE DEF BaseInv
  <1>1. /\ row' \in [Jobs -> {"none", "queued", "active", "completed", "failed"}]
        /\ row'[j] # "none" /\ \A i \in Jobs : i # j => row'[i] = row[i]
    BY JobSets DEF TypeInv
  <1>2. /\ entry' \in [Jobs -> {"none", "waiting", "active", "completed", "failed"}]
        /\ \A i \in Jobs : i # j => entry'[i] = entry[i]
        /\ entry'[j] = entry[j] \/ entry[j] \in {"waiting", "active"}
    BY JobSets DEF TypeInv
  <1>3. RowsHave'
    BY <1>1, <1>2 DEF RowsHave
  <1>4. StallsInv'
    BY <1>2 DEF StallsInv
  <1> QED
    BY <1>1, <1>2, <1>3, <1>4

(* A worker's job is one that the queue handed out.                         *)
Owned == \A w \in Workers : Busy(w) => entry[run[w].job] = "active"

LEMMA OwnedHas ==
  ASSUME BaseInv, Owned, NEW w \in Workers, Busy(w)
  PROVE  /\ run[w].job \in Jobs /\ entry[run[w].job] = "active"
         /\ row[run[w].job] # "none" /\ NameOf(w) \in Names
  BY BusyHas DEF BaseInv, Owned, RowsHave, NameOf, TypeInv

(* Faults are counted within their bound.                                   *)
LEMMA FaultsTyped ==
  ASSUME TypeInv
  PROVE  /\ faults < MaxFaults => faults + 1 \in 0..MaxFaults
         /\ \A w \in Workers, n \in 1..2 : Fault(w, n) => faults' \in 0..MaxFaults
  <1>1. faults \in Nat /\ MaxFaults \in Nat /\ faults <= MaxFaults
    BY PipelineAssumption DEF TypeInv
  <1>2. ASSUME NEW w \in Workers, NEW n \in 1..2, Fault(w, n) PROVE faults' \in 0..MaxFaults
    <2>1. \E k \in Nat : faults' = faults + k /\ faults' <= MaxFaults
      <3>1. CASE Collides(w)
        BY <1>2, <3>1 DEF Fault
      <3>2. CASE ~Collides(w)
        BY <1>2, <3>2 DEF Fault
      <3> QED
        BY <3>1, <3>2
    <2> QED
      BY <1>1, <2>1
  <1> QED
    BY <1>1, <1>2

(* The steps of a job that fails nowhere.                                   *)
LEMMA TypeWork ==
  ASSUME BaseInv, Owned, NEW w \in Workers, Work(w), ~Persist(w)
  PROVE  BaseInv'
  <1> USE DEF BaseInv
  <1>1. ASSUME NEW r, Moves(w, r), UNCHANGED <<items, created, summary, name, row, entry, attempts,
                 stalls, calls, faults, crashes, last, adrift, announced>>,
               meeting' \in Settled \cup {"transcribing", "summarizing", "indexing"}
        PROVE  BaseInv'
    <2>1. TypeInv'
      BY <1>1, RunMoves DEF TypeInv
    <2> QED
      BY <1>1, <2>1 DEF StallsInv, RowsHave, IdsInv
  <1>2. meeting \in Settled \cup {"transcribing", "summarizing", "indexing"}
    BY DEF TypeInv
  <1> USE DEF taskVars, jobVars, bounds
  <1>3. CASE Take(w)
    <2>1. PICK j \in Jobs : /\ entry[j] = "waiting"
                            /\ entry' = [entry EXCEPT ![j] = "active"]
                            /\ Go(w, [Idle EXCEPT !.job = j, !.pc = "mark"])
      BY <1>3 DEF Take
    <2> DEFINE r == [Idle EXCEPT !.job = j, !.pc = "mark"]
    <2>2. r \in Attempt /\ r.pc \in Steps /\ r.job \in Jobs
      BY IdleIs, ZenonT(60) DEF Steps
    <2>3. Go(w, r)
      BY <2>1
    <2> HIDE DEF r
    <2>4. /\ run' \in [Workers -> Attempt]
          /\ \A v \in Workers : run'[v] = Idle \/ (Busy(v)' /\ run'[v].job \in Jobs)
      BY <2>2, <2>3, RunTyped
    <2>5. row[j] # "none" /\ UNCHANGED <<name, stalls, row>>
      BY <1>3, <2>1 DEF Take, RowsHave
    <2>6. /\ entry' \in [Jobs -> {"none", "waiting", "active", "completed", "failed"}]
          /\ StallsInv' /\ RowsHave'
      BY <2>1, <2>5, JobsKept
    <2>7. TypeInv'
      BY <1>3, <2>4, <2>6 DEF Take, TypeInv
    <2> QED
      BY <1>3, <2>6, <2>7 DEF Take, IdsInv
  <1>4. CASE MarkActive(w)
    <2>1. PICK r : Moves(w, r)
      BY <1>4, StepDoes
    <2>2. run[w].job \in Jobs /\ row[run[w].job] # "none"
      BY <2>1, OwnedHas DEF Moves
    <2>3. /\ row' \in [Jobs -> {"none", "queued", "active", "completed", "failed"}]
          /\ StallsInv' /\ RowsHave'
      BY <1>4, <2>2, JobsKept DEF MarkActive
    <2>4. TypeInv'
      BY <1>4, <2>1, <2>3, RunMoves DEF MarkActive, TypeInv
    <2> QED
      BY <1>4, <2>3, <2>4 DEF MarkActive, IdsInv
  <1>5. CASE CompleteJob(w)
    <2>1. PICK r : Moves(w, r)
      BY <1>5, StepDoes
    <2>2. run[w].job \in Jobs /\ row[run[w].job] # "none"
      BY <2>1, OwnedHas DEF Moves
    <2>3. /\ row' \in [Jobs -> {"none", "queued", "active", "completed", "failed"}]
          /\ StallsInv' /\ RowsHave'
      BY <1>5, <2>2, JobsKept DEF CompleteJob
    <2>4. TypeInv'
      BY <1>5, <2>1, <2>3, RunMoves DEF CompleteJob, TypeInv
    <2> QED
      BY <1>5, <2>3, <2>4 DEF CompleteJob, IdsInv
  <1>6. CASE Load(w)
    <2>1. PICK r : Moves(w, r)
      BY <1>6, StepDoes
    <2> QED
      BY <1>1, <1>2, <1>6, <2>1 DEF Load
  <1>7. CASE Transcribe(w)
    <2>1. PICK r : Moves(w, r)
      BY <1>7, StepDoes
    <2> QED
      BY <1>1, <1>7, <2>1 DEF Transcribe
  <1>8. CASE Summarize(w)
    <2>1. PICK r : Moves(w, r)
      BY <1>8, StepDoes
    <2> QED
      BY <1>1, <1>8, <2>1 DEF Summarize
  <1>9. CASE PlanMerge(w)
    <2>1. PICK r : Moves(w, r)
      BY <1>9, StepDoes
    <2> QED
      BY <1>1, <1>2, <1>9, <2>1 DEF PlanMerge
  <1>13. CASE LockRows(w)
    <2>1. PICK r : Moves(w, r)
      BY <1>13, StepDoes
    <2> QED
      BY <1>1, <1>2, <1>13, <2>1 DEF LockRows
  <1>10. CASE ImportArtifacts(w)
    <2>1. PICK r : Moves(w, r)
      BY <1>10, StepDoes
    <2>2. CASE UNCHANGED <<name, row, entry>>
      <3>1. /\ meeting' \in Settled \cup {"transcribing", "summarizing", "indexing"}
            /\ adrift' \subseteq {"stalled", "fallback", "unwritten"}
            /\ UNCHANGED <<items, created, summary, attempts, stalls, calls, faults, crashes, announced, last>>
        BY <1>2, <1>10 DEF ImportArtifacts, TypeInv
      <3>2. TypeInv'
        BY <2>1, <2>2, <3>1, RunMoves DEF TypeInv
      <3> QED
        BY <2>2, <3>1, <3>2 DEF StallsInv, RowsHave, IdsInv
    <2>3. ASSUME NEW j \in Jobs, row[j] = "none",
                 name' = [name EXCEPT ![j] = "media.ingest"],
                 row' = [row EXCEPT ![j] = "queued"],
                 entry' = [entry EXCEPT ![j] = "waiting"],
                 UNCHANGED <<meeting, adrift>>
          PROVE  BaseInv'
      <3>1. UNCHANGED <<items, created, summary, attempts, stalls, calls, faults, crashes, announced, last>>
        BY <1>10 DEF ImportArtifacts
      <3>2. "media.ingest" \in Names
        BY DEF Names, Processing
      <3>3. /\ name' \in [Jobs -> Names \cup {"none"}] /\ name'[j] = "media.ingest"
            /\ \A i \in Jobs : i # j => name'[i] = name[i]
        BY <2>3, <3>2, JobSets
      <3>4. /\ row' \in [Jobs -> {"none", "queued", "active", "completed", "failed"}]
            /\ row'[j] = "queued" /\ \A i \in Jobs : i # j => row'[i] = row[i]
        BY <2>3, JobSets
      <3>5. /\ entry' \in [Jobs -> {"none", "waiting", "active", "completed", "failed"}]
            /\ \A i \in Jobs : i # j => entry'[i] = entry[i]
        BY <2>3, JobSets
      <3>6. entry[j] = "none" /\ stalls[j] <= MaxStalls
        BY <2>3 DEF RowsHave, StallsInv
      <3>7. TypeInv'
        BY <2>1, <2>3, <3>1, <3>3, <3>4, <3>5, RunMoves DEF TypeInv
      <3>8. StallsInv' /\ RowsHave'
        BY <3>1, <3>3, <3>4, <3>5, <3>6 DEF StallsInv, RowsHave
      <3> QED
        BY <3>1, <3>7, <3>8 DEF IdsInv
    <2> QED
      BY <1>10, <2>2, <2>3 DEF ImportArtifacts
  <1>11. CASE Announce(w)
    <2>1. PICK r : Moves(w, r)
      BY <1>11, StepDoes
    <2>2. run[w].fresh \subseteq Creations /\ \A i \in DOMAIN announced : announced[i] \in Nat
      BY BusyHas DEF Attempt, TypeInv
    <2>3. announced' = [i \in DOMAIN announced \cup run[w].fresh |->
                          (IF i \in DOMAIN announced THEN announced[i] ELSE 0)
                          + (IF i \in run[w].fresh THEN 1 ELSE 0)]
      BY <1>11 DEF Announce
    <2>4. \A n \in Nat : n + 0 \in Nat /\ n + 1 \in Nat
      OBVIOUS
    <2>5. \A i \in DOMAIN announced' : announced'[i] \in Nat
      <3>1. ASSUME NEW i \in DOMAIN announced' PROVE announced'[i] \in Nat
        <4> DEFINE a == IF i \in DOMAIN announced THEN announced[i] ELSE 0
                   b == IF i \in run[w].fresh THEN 1 ELSE 0
        <4>1. announced'[i] = a + b
          BY <2>3, <3>1
        <4>2. a \in Nat /\ b \in {0, 1}
          BY <2>2
        <4> HIDE DEF a, b
        <4> QED
          BY <4>1, <4>2
      <3> QED
        BY <3>1
    <2>6. DOMAIN announced' \subseteq Creations
      BY <2>2, <2>3 DEF TypeInv
    <2>7. UNCHANGED <<meeting, items, created, summary, name, row, entry, attempts,
                 stalls, calls, faults, crashes, last, adrift>>
      BY <1>11 DEF Announce
    <2>8. TypeInv'
      BY <2>1, <2>5, <2>6, <2>7, RunMoves DEF TypeInv
    <2> QED
      BY <2>7, <2>8 DEF StallsInv, RowsHave, IdsInv
  <1>12. CASE Ack(w) \/ FailMeeting(w)
    <2>1. Go(w, Idle) /\ Busy(w) /\ UNCHANGED <<items, created, summary, name, announced>>
          /\ run[w].job \in Jobs
      BY <1>12, LeaveDoes
    <2>2. entry[run[w].job] = "active" /\ row[run[w].job] # "none" /\ NameOf(w) \in Names
      BY <2>1, OwnedHas
    <2>3. /\ \E s \in {"completed", "failed"} : entry' = [entry EXCEPT ![run[w].job] = s]
          /\ UNCHANGED <<row, stalls, attempts, calls, crashes>>
      BY <1>12 DEF Ack, FailMeeting
    <2>4. /\ entry' \in [Jobs -> {"none", "waiting", "active", "completed", "failed"}]
          /\ StallsInv' /\ RowsHave'
      BY <2>1, <2>2, <2>3, JobsKept
    <2>5. /\ run' \in [Workers -> Attempt]
          /\ \A v \in Workers : run'[v] = Idle \/ (Busy(v)' /\ run'[v].job \in Jobs)
      BY <2>1, RunTyped
    <2>6. faults' \in 0..MaxFaults
      BY <1>12, FaultsTyped DEF Ack, FailMeeting, TypeInv
    <2>7. adrift' \subseteq {"stalled", "fallback", "unwritten"}
      BY <1>12, ZenonT(60) DEF Ack, FailMeeting, TypeInv
    <2>8. last' \in {"none", "completed", "failed"}
      BY <1>12 DEF Ack, FailMeeting, Ended, TypeInv
    <2>9. meeting' \in Settled \cup {"transcribing", "summarizing", "indexing"}
      BY <1>12 DEF Ack, FailMeeting, FailedStatus, TypeInv, Settled
    <2>10. TypeInv'
      BY <2>1, <2>3, <2>4, <2>5, <2>6, <2>7, <2>8, <2>9 DEF TypeInv
    <2> QED
      BY <2>1, <2>4, <2>10 DEF IdsInv
  <1> QED
    BY <1>3, <1>4, <1>5, <1>6, <1>7, <1>8, <1>9, <1>10, <1>11, <1>12, <1>13 DEF Work

(* The merge keeps the types, and gives each new task the next id of its    *)
(* title.                                                                   *)
LEMMA TypePersist ==
  ASSUME BaseInv, NEW w \in Workers, Persist(w)
  PROVE  BaseInv'
  <1> USE DEF BaseInv
  <1> DEFINE seen == run[w].seen
             out == run[w].output
  <1>0. PICK ins : MergeDone(w, ins)
    BY PersistDoes
  <1>1. /\ items' \in TaskMaps
        /\ \A i \in DOMAIN items' : i \in DOMAIN items \/ i \in ins
        /\ \A i \in DOMAIN items' :
             items'[i] = IF i \in Refreshed(seen, out) \cup ins
                         THEN MergedItem(items, ins, i) ELSE items[i]
        /\ Grows /\ summary'
        /\ \A i \in ins :
             /\ i[2] < created'[i[1]] /\ created[i[1]] < created'[i[1]]
             /\ items'[i].nth = created[i[1]]
    BY <1>0 DEF MergeDone
  <1>2. PICK r : Moves(w, r)
    BY <1>0 DEF MergeDone
  <1>3. UNCHANGED <<name, row, entry, attempts, stalls, calls, faults, crashes,
                    announced, last, adrift>>
        /\ meeting' = "completed"
    BY DEF Persist, jobVars, bounds
  <1> HIDE DEF seen, out
  <1>4. TypeInv'
    <2>1. summary' \in BOOLEAN
      BY <1>1
    <2> QED
      BY <1>1, <1>2, <1>3, <2>1, RunMoves DEF TypeInv, Settled, Grows
  <1>5. ASSUME NEW i \in DOMAIN items'
        PROVE  i[2] < created'[i[1]] /\ items'[i].nth < created'[i[1]] /\ items'[i].orig = i[1]
    <2>1. CASE i \in ins
      <3>1. /\ i[2] < created'[i[1]] /\ items'[i].nth < created'[i[1]]
            /\ items'[i] = MergedItem(items, ins, i)
        BY <1>1, <2>1, <1>5
      <3> QED
        BY <3>1 DEF MergedItem, Generated
    <2>2. CASE i \notin ins
      <3>1. i \in DOMAIN items
        BY <1>1, <1>5, <2>2
      <3>2. i[1] \in Titles /\ i[2] \in Nat /\ items[i].nth \in Nat
        BY <3>1, MapParts DEF TypeInv, Ids, Item
      <3>3. i[2] < created'[i[1]] /\ items[i].nth < created'[i[1]]
        BY <1>1, <3>1, <3>2, StaysOlder DEF IdsInv
      <3>4. items'[i] = IF i \in Refreshed(seen, out) THEN MergedItem(items, ins, i) ELSE items[i]
        BY <1>1, <1>5, <2>2
      <3>5. /\ items[i].orig = i[1]
            /\ MergedItem(items, ins, i).orig = i[1]
            /\ MergedItem(items, ins, i).nth = items[i].nth
        BY <2>2, <3>1 DEF IdsInv, MergedItem, Generated
      <3> QED
        BY <3>3, <3>4, <3>5
    <2> QED
      BY <2>1, <2>2
  <1>6. \A t \in Titles : 0 < created'[t]
    BY <1>1, StaysOlder DEF IdsInv
  <1> QED
    BY <1>3, <1>4, <1>5, <1>6 DEF StallsInv, RowsHave, IdsInv

(* Failures keep the types.                                                 *)
LEMMA TypeFaulty ==
  ASSUME BaseInv, Owned, NEW w \in Workers, Faulty(w)
  PROVE  BaseInv'
  <1> USE DEF BaseInv
  <1>1. /\ faults < MaxFaults => faults + 1 \in 0..MaxFaults
        /\ \A n \in 1..2 : Fault(w, n) => faults' \in 0..MaxFaults
    BY FaultsTyped
  <1>2. CASE FailJob(w)
    <2>1. PICK r : Moves(w, r)
      BY <1>2, StepDoes
    <2>2. run[w].job \in Jobs /\ row[run[w].job] # "none"
      BY <2>1, OwnedHas DEF Moves
    <2>3. /\ UNCHANGED <<meeting, items, created, summary, name, entry, attempts, stalls, calls,
                         crashes, announced, last>>
          /\ UNCHANGED row \/ row' = [row EXCEPT ![run[w].job] = "failed"]
      BY <1>2 DEF FailJob, taskVars
    <2>4. /\ row' \in [Jobs -> {"none", "queued", "active", "completed", "failed"}]
          /\ StallsInv' /\ RowsHave'
      BY <2>2, <2>3, JobsKept
    <2>5. faults' \in 0..MaxFaults
      <3>1. Fault(w, 1) \/ Fault(w, 2)
        BY <1>2 DEF FailJob
      <3> QED
        BY <1>1, <3>1
    <2>6. adrift' \subseteq {"stalled", "fallback", "unwritten"}
      BY <1>2 DEF FailJob, TypeInv
    <2>7. TypeInv'
      BY <2>1, <2>3, <2>4, <2>5, <2>6, RunMoves DEF TypeInv
    <2> QED
      BY <2>3, <2>4, <2>7 DEF IdsInv
  <1>3. CASE Retry(w) \/ MarkFails(w) \/ Crash(w)
    <2>1. Go(w, Idle) /\ Busy(w) /\ UNCHANGED <<items, created, summary, name, announced>>
          /\ run[w].job \in Jobs
      BY <1>3, LeaveDoes
    <2>2. entry[run[w].job] = "active" /\ row[run[w].job] # "none"
      BY <2>1, OwnedHas
    <2>3. /\ \/ UNCHANGED entry
             \/ \E s \in {"waiting", "failed"} : entry' = [entry EXCEPT ![run[w].job] = s]
          /\ UNCHANGED row \/ row' = [row EXCEPT ![run[w].job] = "queued"]
          /\ UNCHANGED <<meeting, stalls, calls, last>>
      BY <1>3 DEF Retry, MarkFails, Crash, jobVars
    <2>4. /\ row' \in [Jobs -> {"none", "queued", "active", "completed", "failed"}]
          /\ entry' \in [Jobs -> {"none", "waiting", "active", "completed", "failed"}]
          /\ StallsInv' /\ RowsHave'
      BY <2>1, <2>2, <2>3, JobsKept
    <2>5. /\ run' \in [Workers -> Attempt]
          /\ \A v \in Workers : run'[v] = Idle \/ (Busy(v)' /\ run'[v].job \in Jobs)
      BY <2>1, RunTyped
    <2>6. faults' \in 0..MaxFaults
      <3>1. \/ Fault(w, 1) \/ Fault(w, 2)
            \/ faults < MaxFaults /\ faults' = faults + 1
            \/ UNCHANGED faults
        BY <1>3 DEF Retry, MarkFails, Crash
      <3> QED
        BY <1>1, <3>1 DEF TypeInv
    <2>7. adrift' \subseteq {"stalled", "fallback", "unwritten"}
      BY <1>3 DEF Retry, MarkFails, Crash, TypeInv
    <2>8. crashes' \in 0..MaxCrashes
      BY <1>3, PipelineAssumption DEF Retry, MarkFails, Crash, TypeInv
    <2>9. attempts' \in [Jobs -> 0..MaxAttempts - 1]
      <3>1. attempts[run[w].job] \in 0..MaxAttempts - 1 /\ MaxAttempts \in Nat
        BY <2>1, PipelineAssumption DEF TypeInv
      <3>2. ~LastAttempt(w) => attempts[run[w].job] + 1 \in 0..MaxAttempts - 1
        BY <3>1 DEF LastAttempt
      <3>3. \/ UNCHANGED attempts
            \/ ~LastAttempt(w) /\ attempts' = [attempts EXCEPT ![run[w].job] = @ + 1]
        BY <1>3 DEF Retry, MarkFails, Crash, jobVars
      <3> QED
        BY <3>2, <3>3 DEF TypeInv
    <2>10. TypeInv'
      BY <2>1, <2>3, <2>4, <2>5, <2>6, <2>7, <2>8, <2>9 DEF TypeInv
    <2> QED
      BY <2>1, <2>4, <2>10 DEF IdsInv
  <1> QED
    BY <1>2, <1>3 DEF Faulty

(* What people do to tasks.                                                 *)
LEMMA PeopleDo ==
  ASSUME BaseInv, People
  PROVE  /\ calls' = calls + 1 /\ calls' \in 0..MaxCalls
         /\ UNCHANGED <<meeting, summary, name, row, entry, attempts, stalls, run, faults,
                        crashes, announced, last, adrift>>
         /\ items' \in TaskMaps /\ Grows
         /\ \A i \in DOMAIN items' :
              \/ i \in DOMAIN items /\ items'[i] = items[i]
              \/ /\ i \in DOMAIN items /\ i \notin Locked
                 /\ items'[i].orig = items[i].orig /\ items'[i].origin = items[i].origin
                 /\ items'[i].nth = items[i].nth
              \/ /\ i[1] \in Titles /\ i = <<i[1], created[i[1]]>>
                 /\ created'[i[1]] = created[i[1]] + 1 /\ items'[i].nth = created[i[1]]
                 /\ items'[i].orig = i[1] /\ items'[i].origin = "user"
         /\ \A i \in DOMAIN items : i \in Locked => i \in DOMAIN items'
  <1> USE DEF BaseInv
  <1>1. calls' = calls + 1 /\ calls' \in 0..MaxCalls
    <2>1. Call
      BY DEF People, CreateItem, Rename, SetDone, DeleteItem
    <2>2. calls \in 0..MaxCalls /\ MaxCalls \in Nat
      BY PipelineAssumption DEF TypeInv
    <2>3. calls < MaxCalls /\ calls' = calls + 1
      BY <2>1 DEF Call
    <2> QED
      BY <2>2, <2>3
  <1>2. UNCHANGED <<meeting, summary, name, row, entry, attempts, stalls, run, faults, crashes,
                    announced, last, adrift>>
    BY DEF People, CreateItem, Rename, SetDone, DeleteItem, jobVars
  <1>3. items \in TaskMaps /\ created \in [Titles -> Nat]
    BY DEF TypeInv
  <1>4. DOMAIN items \in SUBSET Ids /\ \A i \in DOMAIN items : items[i] \in Item
    BY <1>3, MapParts
  <1>5. \A n \in Nat : n <= n /\ n <= n + 1 /\ n + 1 \in Nat
    OBVIOUS
  <1>6. ASSUME NEW t \in Titles, CreateItem(t)
        PROVE  /\ items' \in TaskMaps /\ Grows
               /\ \A i \in DOMAIN items' :
                    \/ i \in DOMAIN items /\ items'[i] = items[i]
                    \/ /\ i[1] \in Titles /\ i = <<i[1], created[i[1]]>>
                       /\ created'[i[1]] = created[i[1]] + 1
                       /\ items'[i].nth = created[i[1]]
                       /\ items'[i].orig = i[1] /\ items'[i].origin = "user"
               /\ \A i \in DOMAIN items : i \in DOMAIN items'
    <2> DEFINE id == <<t, created[t]>>
               new == [orig |-> t, title |-> t, origin |-> "user", edited |-> TRUE,
                       done |-> FALSE, nth |-> created[t]]
    <2>1. items' = [i \in DOMAIN items \cup {id} |-> IF i = id THEN new ELSE items[i]]
      BY <1>6 DEF CreateItem
    <2>2. created' = [created EXCEPT ![t] = @ + 1]
      BY <1>6 DEF CreateItem
    <2>3. id \in Ids /\ id[1] = t /\ new \in Item /\ new.orig = t /\ new.origin = "user"
          /\ new.nth = created[t]
      BY <1>3 DEF Ids, Item
    <2> HIDE DEF new
    <2>4. Grows
      BY <1>3, <1>5, <2>2 DEF Grows
    <2>5. created'[t] = created[t] + 1
      BY <1>3, <2>2
    <2>6. items' \in [DOMAIN items \cup {id} -> Item]
      BY <1>4, <2>1, <2>3
    <2>7. items' \in TaskMaps
      BY <1>4, <2>3, <2>6, MapMade
    <2> QED
      BY <2>1, <2>3, <2>4, <2>5, <2>7
  <1>7. ASSUME NEW k \in DOMAIN items, k \notin Locked, NEW f,
               items' = [items EXCEPT ![k] = f], f \in Item,
               f.orig = items[k].orig, f.origin = items[k].origin, f.nth = items[k].nth,
               UNCHANGED created
        PROVE  /\ items' \in TaskMaps /\ Grows
               /\ \A i \in DOMAIN items' :
                    \/ i \in DOMAIN items /\ items'[i] = items[i]
                    \/ /\ i \in DOMAIN items /\ i \notin Locked
                       /\ items'[i].orig = items[i].orig /\ items'[i].origin = items[i].origin
                       /\ items'[i].nth = items[i].nth
               /\ \A i \in DOMAIN items : i \in Locked => i \in DOMAIN items'
    <2>1. items' \in [DOMAIN items -> Item] /\ items'[k] = f
          /\ \A i \in DOMAIN items : i # k => items'[i] = items[i]
      BY <1>4, <1>7
    <2>2. items' \in TaskMaps
      BY <1>4, <2>1, MapMade
    <2> QED
      BY <1>3, <1>5, <1>7, <2>1, <2>2 DEF Grows
  <1>8. ASSUME NEW k \in DOMAIN items, NEW t \in Titles, Rename(k, t)
        PROVE  \E f \in Item : /\ items' = [items EXCEPT ![k] = f] /\ k \notin Locked
                               /\ f.orig = items[k].orig /\ f.origin = items[k].origin
                               /\ f.nth = items[k].nth /\ UNCHANGED created
    <2> DEFINE f == [items[k] EXCEPT !.title = t, !.edited = TRUE]
    <2>1. f \in Item /\ f.orig = items[k].orig /\ f.origin = items[k].origin
          /\ f.nth = items[k].nth
      BY <1>4 DEF Item
    <2>2. items' = [items EXCEPT ![k] = f] /\ k \notin Locked /\ UNCHANGED created
      BY <1>8 DEF Rename
    <2> HIDE DEF f
    <2> QED
      BY <2>1, <2>2
  <1>9. ASSUME NEW k \in DOMAIN items, NEW done \in BOOLEAN, SetDone(k, done)
        PROVE  \E f \in Item : /\ items' = [items EXCEPT ![k] = f] /\ k \notin Locked
                               /\ f.orig = items[k].orig /\ f.origin = items[k].origin
                               /\ f.nth = items[k].nth /\ UNCHANGED created
    <2> DEFINE f == [items[k] EXCEPT !.done = done]
    <2>1. f \in Item /\ f.orig = items[k].orig /\ f.origin = items[k].origin
          /\ f.nth = items[k].nth
      BY <1>4 DEF Item
    <2>2. items' = [items EXCEPT ![k] = f] /\ k \notin Locked /\ UNCHANGED created
      BY <1>9 DEF SetDone
    <2> HIDE DEF f
    <2> QED
      BY <2>1, <2>2
  <1>10. ASSUME NEW k \in DOMAIN items, DeleteItem(k)
         PROVE  /\ items' \in TaskMaps /\ Grows
                /\ \A i \in DOMAIN items' : i \in DOMAIN items /\ items'[i] = items[i]
                /\ \A i \in DOMAIN items : i \in Locked => i \in DOMAIN items'
    <2>1. items' = [i \in DOMAIN items \ {k} |-> items[i]] /\ k \notin Locked
          /\ UNCHANGED created
      BY <1>10 DEF DeleteItem, Restrict
    <2>2. items' \in [DOMAIN items \ {k} -> Item] /\ DOMAIN items \ {k} \in SUBSET Ids
      BY <1>4, <2>1
    <2>3. items' \in TaskMaps
      BY <2>2, MapMade
    <2> QED
      BY <1>3, <1>5, <2>1, <2>3 DEF Grows
  <1> QED
    BY <1>1, <1>2, <1>6, <1>7, <1>8, <1>9, <1>10 DEF People

LEMMA TypePeople ==
  ASSUME BaseInv, People
  PROVE  BaseInv'
  <1> USE DEF BaseInv
  <1>1. TypeInv'
    BY PeopleDo, ZenonT(60) DEF TypeInv, Busy, Grows
  <1>2. StallsInv' /\ RowsHave'
    BY PeopleDo DEF StallsInv, RowsHave
  <1>3. ASSUME NEW i \in DOMAIN items'
        PROVE  i[2] < created'[i[1]] /\ items'[i].nth < created'[i[1]] /\ items'[i].orig = i[1]
    <2>1. /\ items' \in TaskMaps /\ Grows
          /\ \/ /\ i \in DOMAIN items /\ items'[i].orig = items[i].orig
                /\ items'[i].nth = items[i].nth
             \/ /\ i[1] \in Titles /\ i = <<i[1], created[i[1]]>>
                /\ created'[i[1]] = created[i[1]] + 1 /\ items'[i].nth = created[i[1]]
                /\ items'[i].orig = i[1]
      BY <1>3, PeopleDo
    <2>2. i[1] \in Titles /\ i[2] \in Nat /\ items'[i].nth \in Nat
      BY <1>3, <2>1, MapParts DEF Ids, Item
    <2>3. created[i[1]] \in Nat
      BY <2>2 DEF TypeInv
    <2>5. CASE /\ i \in DOMAIN items /\ items'[i].orig = items[i].orig
               /\ items'[i].nth = items[i].nth
      BY <2>1, <2>2, <2>5, StaysOlder DEF IdsInv
    <2>6. CASE /\ i = <<i[1], created[i[1]]>>
               /\ created'[i[1]] = created[i[1]] + 1 /\ items'[i].nth = created[i[1]]
               /\ items'[i].orig = i[1]
      <3>1. i[2] = created[i[1]]
        BY <2>6
      <3> QED
        BY <2>3, <2>6, <3>1
    <2> QED
      BY <2>1, <2>5, <2>6
  <1>4. \A t \in Titles : 0 < created'[t]
    BY PeopleDo, StaysOlder DEF IdsInv
  <1> QED
    BY <1>1, <1>2, <1>3, <1>4 DEF IdsInv

-----------------------------------------------------------------------------
(* Jobs and their rows.                                                     *)

(* No two workers have the same job.                                        *)
Apart ==
  \A v, w \in Workers : Busy(v) /\ Busy(w) /\ run[v].job = run[w].job => v = w

(* The row of a job that ended, or that its worker is about to close, says  *)
(* how it ended.                                                            *)
RowInv ==
  adrift = {} =>
    /\ \A j \in Jobs : entry[j] \in {"completed", "failed"} => row[j] = entry[j]
    /\ \A w \in Workers : At(w, "ack") => row[run[w].job] = "completed"
    /\ \A w \in Workers : At(w, "told") => row[run[w].job] = "failed"

JobInv == BaseInv /\ Owned /\ Apart /\ RowInv

LEMMA JobInit == Init => JobInv
  <1> SUFFICES ASSUME Init PROVE JobInv
    OBVIOUS
  <1>1. \A w \in Workers : run[w].pc = "idle"
    BY IdleIs DEF Init
  <1>2. \A j \in Jobs : entry[j] = "none"
    BY DEF Init
  <1> QED
    BY <1>1, <1>2, TypeInit DEF JobInv, Owned, Apart, RowInv, Busy, At

(* A worker that goes on with its job leaves the others theirs.             *)
LEMMA OwnMoves ==
  ASSUME JobInv, NEW w \in Workers, NEW r, Moves(w, r),
         \A j \in Jobs : entry[j] = "active" => entry'[j] = "active"
  PROVE  Owned' /\ Apart'
  <1>1. /\ run'[w] = r /\ \A v \in Workers : v # w => run'[v] = run[v]
        /\ Busy(w) /\ r.job = run[w].job
    BY RunMoves DEF Moves, JobInv, BaseInv
  <1>2. \A v \in Workers : Busy(v)' => Busy(v) /\ run'[v].job = run[v].job
    BY <1>1 DEF Busy
  <1>3. \A v \in Workers : Busy(v) => run[v].job \in Jobs
    BY BusyHas DEF JobInv, BaseInv
  <1>4. Owned'
    BY <1>2, <1>3 DEF JobInv, Owned
  <1>5. Apart'
    BY <1>2 DEF JobInv, Apart
  <1> QED
    BY <1>4, <1>5

LEMMA RowMoves ==
  ASSUME JobInv, NEW w \in Workers, NEW r, Moves(w, r),
         adrift' = {} => adrift = {},
         \A j \in Jobs : entry'[j] \in {entry[j], "waiting"},
         \A j \in Jobs : j # run[w].job /\ row[j] # "none" => row'[j] = row[j],
         adrift' = {} /\ r.pc = "ack" => row'[run[w].job] = "completed",
         adrift' = {} /\ r.pc = "told" => row'[run[w].job] = "failed"
  PROVE  RowInv'
  <1> SUFFICES ASSUME adrift' = {} PROVE RowInv'
    BY DEF RowInv
  <1>1. /\ run'[w] = r /\ \A v \in Workers : v # w => run'[v] = run[v]
        /\ Busy(w) /\ r.job = run[w].job
    BY RunMoves DEF Moves, JobInv, BaseInv
  <1>2. \A v \in Workers :
          Busy(v) => run[v].job \in Jobs /\ entry[run[v].job] = "active"
                     /\ row[run[v].job] # "none"
    BY OwnedHas DEF JobInv
  <1>3. \A v \in Workers : v # w /\ Busy(v) => run[v].job # run[w].job
    BY <1>1 DEF JobInv, Apart
  <1>4. ASSUME NEW j \in Jobs, entry'[j] \in {"completed", "failed"}
        PROVE  row'[j] = entry'[j]
    <2>1. entry'[j] = entry[j]
      BY <1>4
    <2>2. j # run[w].job /\ row[j] # "none" /\ row[j] = entry[j]
      BY <1>1, <1>2, <1>4, <2>1 DEF JobInv, BaseInv, RowsHave, RowInv
    <2> QED
      BY <2>1, <2>2
  <1>5. ASSUME NEW v \in Workers
        PROVE  /\ At(v, "ack")' => row'[run'[v].job] = "completed"
               /\ At(v, "told")' => row'[run'[v].job] = "failed"
    <2>1. CASE v = w
      BY <1>1, <2>1 DEF At
    <2>2. CASE v # w
      <3>1. Busy(v) => row'[run[v].job] = row[run[v].job]
        BY <1>2, <1>3, <2>2
      <3>2. run'[v] = run[v] /\ (At(v, "ack") \/ At(v, "told") => Busy(v))
        BY <1>1, <2>2 DEF At, Busy
      <3> QED
        BY <3>1, <3>2 DEF JobInv, RowInv, At
    <2> QED
      BY <2>1, <2>2
  <1> QED
    BY <1>4, <1>5 DEF RowInv

(* A worker that leaves its job leaves the others theirs.                   *)
LEMMA JobLeaves ==
  ASSUME JobInv, NEW w \in Workers, Go(w, Idle), Busy(w),
         adrift' = {} => adrift = {},
         \A j \in Jobs : j # run[w].job => entry'[j] = entry[j] /\ row'[j] = row[j],
         adrift' = {} /\ entry'[run[w].job] \in {"completed", "failed"}
           => row'[run[w].job] = entry'[run[w].job]
  PROVE  Owned' /\ Apart' /\ RowInv'
  <1>1. /\ run'[w] = Idle /\ \A v \in Workers : v # w => run'[v] = run[v]
    BY GoDoes, IdleIs DEF JobInv, BaseInv
  <1>2. \A v \in Workers :
          Busy(v) => run[v].job \in Jobs /\ entry[run[v].job] = "active"
    BY OwnedHas DEF JobInv
  <1>3. \A v \in Workers : v # w /\ Busy(v) => run[v].job # run[w].job
    BY DEF JobInv, Apart
  <1>4. \A v \in Workers : Busy(v)' => v # w /\ Busy(v) /\ run'[v] = run[v]
    BY <1>1, IdleIs DEF Busy
  <1>5. Owned'
    BY <1>2, <1>3, <1>4 DEF Owned
  <1>6. Apart'
    BY <1>4 DEF JobInv, Apart
  <1>7. ASSUME adrift' = {} PROVE RowInv'
    <2>1. \A j \in Jobs : entry'[j] \in {"completed", "failed"} => row'[j] = entry'[j]
      BY <1>7 DEF JobInv, RowInv
    <2>2. \A v \in Workers : At(v, "ack")' \/ At(v, "told")' => Busy(v)'
      BY DEF At, Busy
    <2>3. \A v \in Workers : Busy(v)' => row'[run'[v].job] = row[run[v].job]
      BY <1>2, <1>3, <1>4
    <2>4. \A v \in Workers :
            /\ At(v, "ack")' => row'[run'[v].job] = "completed"
            /\ At(v, "told")' => row'[run'[v].job] = "failed"
      BY <1>4, <1>7, <2>2, <2>3 DEF JobInv, RowInv, At
    <2> QED
      BY <2>1, <2>4 DEF RowInv
  <1> QED
    BY <1>5, <1>6, <1>7 DEF RowInv

(* A job that is added, or taken again as stalled, is no worker's.          *)
LEMMA JobArrives ==
  ASSUME JobInv, NEW j \in Jobs, UNCHANGED run,
         adrift' = {} => adrift = {},
         \A w \in Workers : Busy(w) => run[w].job # j,
         \A i \in Jobs : i # j => entry'[i] = entry[i] /\ row'[i] = row[i],
         adrift' = {} => entry'[j] \notin {"completed", "failed"}
  PROVE  Owned' /\ Apart' /\ RowInv'
  <1>1. \A v \in Workers : Busy(v) => run[v].job \in Jobs /\ run[v].job # j
    BY OwnedHas DEF JobInv
  <1>2. Owned'
    BY <1>1 DEF JobInv, Owned, Busy
  <1>3. Apart'
    BY DEF JobInv, Apart, Busy
  <1>4. RowInv'
    <2> SUFFICES ASSUME adrift' = {} PROVE RowInv'
      BY DEF RowInv
    <2>1. \A i \in Jobs : entry'[i] \in {"completed", "failed"} => row'[i] = entry'[i]
      BY DEF JobInv, RowInv
    <2>2. \A v \in Workers : Busy(v) => row'[run[v].job] = row[run[v].job]
      BY <1>1
    <2>3. \A v \in Workers : At(v, "ack") \/ At(v, "told") => Busy(v)
      BY DEF At, Busy
    <2> QED
      BY <2>1, <2>2, <2>3 DEF JobInv, RowInv, At
  <1> QED
    BY <1>2, <1>3, <1>4

LEMMA JobKept == JobInv /\ UNCHANGED <<run, row, entry, adrift>> => Owned' /\ Apart' /\ RowInv'
  BY DEF JobInv, Owned, Apart, RowInv, Busy, At

(* Requests for processing, and jobs that stalled.                          *)
LEMMA JobAsked ==
  ASSUME JobInv, NEW j \in Jobs,
         Stalled(j) \/ \E n \in Requests : Request(j, n)
  PROVE  Owned' /\ Apart' /\ RowInv'
  <1>1. CASE Stalled(j)
    <2>1. /\ UNCHANGED <<run, row>> /\ \A w \in Workers : run[w].job # j
          /\ adrift' = {} => adrift = {}
          /\ \/ entry' = [entry EXCEPT ![j] = "waiting"]
             \/ entry' = [entry EXCEPT ![j] = "failed"] /\ adrift' # {}
      <3>1. /\ UNCHANGED <<run, row>> /\ \A w \in Workers : run[w].job # j
            /\ \/ entry' = [entry EXCEPT ![j] = "waiting"] /\ UNCHANGED adrift
               \/ /\ entry' = [entry EXCEPT ![j] = "failed"]
                  /\ adrift' = adrift \cup {"stalled"}
        BY <1>1 DEF Stalled
      <3>2. adrift \cup {"stalled"} # {}
        OBVIOUS
      <3> QED
        BY <3>1, <3>2
    <2>2. /\ \A i \in Jobs : i # j => entry'[i] = entry[i]
          /\ adrift' = {} => entry'[j] = "waiting"
      BY <2>1, JobSets DEF JobInv, BaseInv
    <2> QED
      BY <2>1, <2>2, JobArrives
  <1>2. CASE \E n \in Requests : Request(j, n)
    <2>1. /\ UNCHANGED <<run, adrift>> /\ row[j] = "none"
          /\ entry' = [entry EXCEPT ![j] = "waiting"]
          /\ row' = [row EXCEPT ![j] = "queued"]
      BY <1>2 DEF Request
    <2>2. /\ \A i \in Jobs : i # j => entry'[i] = entry[i] /\ row'[i] = row[i]
          /\ entry'[j] = "waiting"
      BY <2>1, JobSets DEF JobInv, BaseInv
    <2>3. \A w \in Workers : Busy(w) => run[w].job # j
      BY <2>1, OwnedHas DEF JobInv
    <2> QED
      BY <2>1, <2>2, <2>3, JobArrives
  <1> QED
    BY <1>1, <1>2

(* A worker takes a job that waits, and that nobody has.                    *)
LEMMA JobTaken ==
  ASSUME JobInv, NEW w \in Workers, Take(w)
  PROVE  Owned' /\ Apart' /\ RowInv'
  <1>1. PICK j \in Jobs : /\ entry[j] = "waiting"
                          /\ entry' = [entry EXCEPT ![j] = "active"]
                          /\ Go(w, [Idle EXCEPT !.job = j, !.pc = "mark"])
    BY DEF Take
  <1> DEFINE r == [Idle EXCEPT !.job = j, !.pc = "mark"]
  <1>2. r \in Attempt /\ r.pc = "mark" /\ r.job = j /\ Go(w, r)
    BY <1>1, IdleIs DEF Steps
  <1> HIDE DEF r
  <1>3. run'[w] = r /\ \A v \in Workers : v # w => run'[v] = run[v]
    BY <1>2, GoDoes DEF JobInv, BaseInv
  <1>4. entry'[j] = "active" /\ \A i \in Jobs : i # j => entry'[i] = entry[i]
    BY <1>1, JobSets DEF JobInv, BaseInv
  <1>5. UNCHANGED <<row, adrift>>
    BY DEF Take
  <1>6. \A v \in Workers :
          Busy(v) => run[v].job \in Jobs /\ run[v].job # j /\ entry[run[v].job] = "active"
    BY <1>1, OwnedHas DEF JobInv
  <1>7. Owned'
    BY <1>2, <1>3, <1>4, <1>6 DEF Owned, Busy
  <1>8. Apart'
    BY <1>2, <1>3, <1>6 DEF JobInv, Apart, Busy
  <1>9. RowInv'
    <2> SUFFICES ASSUME adrift' = {} PROVE RowInv'
      BY DEF RowInv
    <2>1. \A i \in Jobs : entry'[i] \in {"completed", "failed"} => row'[i] = entry'[i]
      BY <1>4, <1>5 DEF JobInv, RowInv
    <2> QED
      BY <1>2, <1>3, <1>5, <2>1 DEF JobInv, RowInv, At
  <1> QED
    BY <1>7, <1>8, <1>9

(* A job's steps.                                                           *)
LEMMA JobWorks ==
  ASSUME JobInv, NEW w \in Workers, Work(w)
  PROVE  Owned' /\ Apart' /\ RowInv'
  <1> USE DEF JobInv, BaseInv
  <1>1. ASSUME NEW r, Moves(w, r), UNCHANGED <<row, entry, adrift>>, r.pc \notin {"ack", "told"}
        PROVE  Owned' /\ Apart' /\ RowInv'
    <2>1. Owned' /\ Apart'
      BY <1>1, OwnMoves
    <2>2. RowInv'
      BY <1>1, RowMoves
    <2> QED
      BY <2>1, <2>2
  <1>2. CASE Take(w)
    BY <1>2, JobTaken
  <1>3. CASE Load(w)
    <2>1. PICK r : Moves(w, r) /\ r.pc \in {"asr", "sum", "import", "finish"}
      BY <1>3, StepDoes
    <2> QED
      BY <1>1, <1>3, <2>1 DEF Load, jobVars
  <1>4. CASE Transcribe(w)
    <2>1. PICK r : Moves(w, r) /\ r.pc = "sum"
      BY <1>4, StepDoes
    <2> QED
      BY <1>1, <1>4, <2>1 DEF Transcribe, jobVars
  <1>5. CASE Summarize(w)
    <2>1. PICK r : Moves(w, r) /\ r.pc = "plan"
      BY <1>5, StepDoes
    <2> QED
      BY <1>1, <1>5, <2>1 DEF Summarize, jobVars
  <1>6. CASE PlanMerge(w) \/ LockRows(w)
    <2>1. PICK r : Moves(w, r) /\ r.pc \in {"lock", "commit"}
      BY <1>6, StepDoes
    <2> QED
      BY <1>1, <1>6, <2>1 DEF PlanMerge, LockRows, jobVars
  <1>7. CASE Persist(w)
    <2>1. PICK r : Moves(w, r) /\ r.pc = "announce"
      BY <1>7, PersistMoves
    <2> QED
      BY <1>1, <1>7, <2>1 DEF Persist, jobVars
  <1>8. CASE Announce(w)
    <2>1. PICK r : Moves(w, r) /\ r.pc = "finish"
      BY <1>8, StepDoes
    <2> QED
      BY <1>1, <1>8, <2>1 DEF Announce, jobVars
  <1>9. CASE MarkActive(w)
    <2>1. PICK r : Moves(w, r) /\ r.pc = "load"
      BY <1>9, StepDoes
    <2>2. UNCHANGED <<entry, adrift>> /\ run[w].job \in Jobs
          /\ row' = [row EXCEPT ![run[w].job] = "active"]
      BY <1>9, <2>1, RunMoves DEF MarkActive
    <2>3. \A j \in Jobs : j # run[w].job => row'[j] = row[j]
      BY <2>2, JobSets
    <2>4. Owned' /\ Apart'
      BY <2>1, <2>2, OwnMoves
    <2>5. RowInv'
      BY <2>1, <2>2, <2>3, RowMoves
    <2> QED
      BY <2>4, <2>5
  <1>10. CASE CompleteJob(w)
    <2>1. PICK r : Moves(w, r) /\ r.pc = "ack"
      BY <1>10, StepDoes
    <2>2. UNCHANGED <<entry, adrift>> /\ run[w].job \in Jobs
          /\ row' = [row EXCEPT ![run[w].job] = "completed"]
      BY <1>10, <2>1, RunMoves DEF CompleteJob
    <2>3. row'[run[w].job] = "completed"
          /\ \A j \in Jobs : j # run[w].job => row'[j] = row[j]
      BY <2>2, JobSets
    <2>4. Owned' /\ Apart'
      BY <2>1, <2>2, OwnMoves
    <2>5. RowInv'
      BY <2>1, <2>2, <2>3, RowMoves
    <2> QED
      BY <2>4, <2>5
  <1>11. CASE ImportArtifacts(w)
    <2>1. PICK r : Moves(w, r) /\ r.pc \in {"sum", "finish"}
      BY <1>11, StepDoes
    <2>2. CASE UNCHANGED <<row, entry>>
      <3>1. adrift' = {} => adrift = {}
        BY <1>11 DEF ImportArtifacts
      <3>2. Owned' /\ Apart'
        BY <2>1, <2>2, OwnMoves
      <3>3. RowInv'
        BY <2>1, <2>2, <3>1, RowMoves
      <3> QED
        BY <3>2, <3>3
    <2>3. ASSUME NEW j \in Jobs, row[j] = "none",
                 row' = [row EXCEPT ![j] = "queued"],
                 entry' = [entry EXCEPT ![j] = "waiting"], UNCHANGED adrift
          PROVE  Owned' /\ Apart' /\ RowInv'
      <3>1. \A i \in Jobs : row[i] # "none" => row'[i] = row[i]
        BY <2>3, JobSets
      <3>2. entry[j] = "none" /\ entry'[j] = "waiting"
            /\ \A i \in Jobs : i # j => entry'[i] = entry[i]
        BY <2>3, JobSets DEF RowsHave
      <3>3. \A i \in Jobs : entry'[i] \in {entry[i], "waiting"}
                           /\ (entry[i] = "active" => entry'[i] = "active")
        BY <3>2
      <3>4. Owned' /\ Apart'
        BY <2>1, <3>3, OwnMoves
      <3>5. RowInv'
        BY <2>1, <2>3, <3>1, <3>3, RowMoves
      <3> QED
        BY <3>4, <3>5
    <2>4. \/ UNCHANGED <<row, entry>>
          \/ \E j \in Jobs : /\ row[j] = "none"
                             /\ row' = [row EXCEPT ![j] = "queued"]
                             /\ entry' = [entry EXCEPT ![j] = "waiting"]
                             /\ UNCHANGED adrift
      BY <1>11 DEF ImportArtifacts
    <2> QED
      BY <2>2, <2>3, <2>4
  <1>12. CASE Ack(w)
    <2>1. Go(w, Idle) /\ Busy(w) /\ run[w].job \in Jobs
      BY <1>12, LeaveDoes
    <2>2. entry' = [entry EXCEPT ![run[w].job] = "completed"] /\ UNCHANGED <<row, adrift>>
          /\ At(w, "ack")
      BY <1>12 DEF Ack
    <2>3. /\ entry'[run[w].job] = "completed"
          /\ \A j \in Jobs : j # run[w].job => entry'[j] = entry[j]
      BY <2>1, <2>2, JobSets
    <2>4. adrift' = {} => row'[run[w].job] = "completed"
      BY <2>2 DEF RowInv
    <2> QED
      BY <2>1, <2>2, <2>3, <2>4, JobLeaves
  <1>13. CASE FailMeeting(w)
    <2>1. Go(w, Idle) /\ Busy(w) /\ run[w].job \in Jobs
      BY <1>13, LeaveDoes
    <2>2. entry' = [entry EXCEPT ![run[w].job] = "failed"] /\ UNCHANGED row
          /\ (adrift' = {} => adrift = {}) /\ At(w, "told")
      BY <1>13 DEF FailMeeting
    <2>3. /\ entry'[run[w].job] = "failed"
          /\ \A j \in Jobs : j # run[w].job => entry'[j] = entry[j]
      BY <2>1, <2>2, JobSets
    <2>4. adrift' = {} => row'[run[w].job] = "failed"
      BY <2>2 DEF RowInv
    <2> QED
      BY <2>1, <2>2, <2>3, <2>4, JobLeaves
  <1> QED
    BY <1>2, <1>3, <1>4, <1>5, <1>6, <1>7, <1>8, <1>9, <1>10, <1>11, <1>12, <1>13 DEF Work

(* Failures.                                                                *)
LEMMA JobFails ==
  ASSUME JobInv, NEW w \in Workers, Faulty(w)
  PROVE  Owned' /\ Apart' /\ RowInv'
  <1> USE DEF JobInv, BaseInv
  <1>1. CASE FailJob(w)
    <2>1. PICK r : Moves(w, r) /\ r.pc = "told"
      BY <1>1, StepDoes
    <2>2. /\ UNCHANGED entry /\ run[w].job \in Jobs
          /\ \/ UNCHANGED row /\ adrift' # {}
             \/ row' = [row EXCEPT ![run[w].job] = "failed"] /\ UNCHANGED adrift
      BY <1>1, <2>1, RunMoves DEF FailJob
    <2>3. /\ adrift' = {} => adrift = {} /\ row'[run[w].job] = "failed"
          /\ \A j \in Jobs : j # run[w].job => row'[j] = row[j]
      BY <2>2, JobSets
    <2>4. Owned' /\ Apart'
      BY <2>1, <2>2, OwnMoves
    <2>5. RowInv'
      BY <2>1, <2>2, <2>3, RowMoves
    <2> QED
      BY <2>4, <2>5
  <1>2. CASE Retry(w) \/ MarkFails(w) \/ Crash(w)
    <2>1. Go(w, Idle) /\ Busy(w) /\ run[w].job \in Jobs
      BY <1>2, LeaveDoes
    <2>2. entry[run[w].job] = "active"
      BY <2>1, OwnedHas
    <2>3. /\ \/ UNCHANGED entry
             \/ entry' = [entry EXCEPT ![run[w].job] = "waiting"]
             \/ entry' = [entry EXCEPT ![run[w].job] = "failed"] /\ adrift' # {}
          /\ UNCHANGED row \/ row' = [row EXCEPT ![run[w].job] = "queued"]
          /\ adrift' = {} => adrift = {}
      BY <1>2 DEF Retry, MarkFails, Crash, jobVars
    <2>4. /\ \A j \in Jobs : j # run[w].job => entry'[j] = entry[j] /\ row'[j] = row[j]
          /\ adrift' = {} => entry'[run[w].job] \in {"active", "waiting"}
      BY <2>1, <2>2, <2>3, JobSets
    <2> QED
      BY <2>1, <2>3, <2>4, JobLeaves
  <1> QED
    BY <1>1, <1>2 DEF Faulty

LEMMA JobStep ==
  ASSUME JobInv, [Next]_vars
  PROVE  JobInv'
  <1>1. CASE UNCHANGED vars
    <2>1. BaseInv'
      BY <1>1 DEF JobInv, BaseInv, TypeInv, StallsInv, RowsHave, IdsInv, vars, taskVars,
                  jobVars, bounds, Busy
    <2> QED
      BY <1>1, <2>1, JobKept DEF JobInv, vars, jobVars
  <1>2. ASSUME NEW j \in Jobs, Stalled(j) \/ \E n \in Requests : Request(j, n)
        PROVE  JobInv'
    BY <1>2, TypeJobs, JobAsked DEF JobInv
  <1>3. ASSUME NEW w \in Workers, Work(w) PROVE JobInv'
    BY <1>3, TypeWork, TypePersist, JobWorks DEF JobInv
  <1>4. ASSUME NEW w \in Workers, Faulty(w) PROVE JobInv'
    BY <1>4, TypeFaulty, JobFails DEF JobInv
  <1>5. CASE People
    BY <1>5, TypePeople, PeopleDo, JobKept DEF JobInv
  <1> QED
    BY <1>1, <1>2, <1>3, <1>4, <1>5 DEF Next

LEMMA JobHolds == Spec => []JobInv
  BY JobInit, JobStep, PTL DEF Spec

(* Every variable keeps its type.                                           *)
THEOREM TypeCorrect == Spec => []TypeOK
  <1>1. JobInv => TypeOK
    <2> SUFFICES ASSUME JobInv PROVE TypeOK
      OBVIOUS
    <2>1. TypeInv
      BY DEF JobInv, BaseInv
    <2>2. DOMAIN items \subseteq Ids /\ \A i \in DOMAIN items : items[i] \in Item
      BY <2>1, MapParts DEF TypeInv
    <2>3. ASSUME NEW w \in Workers
          PROVE  \/ run[w] = Idle
                 \/ /\ run[w].job \in Jobs /\ run[w].pc \in Steps
                    /\ run[w].previous \subseteq Ids /\ run[w].fresh \subseteq Creations
                    /\ run[w].output \subseteq Titles
                    /\ DOMAIN run[w].seen \subseteq Ids
      <3>1. run[w] \in Attempt /\ (run[w] = Idle \/ (run[w].job \in Jobs /\ run[w].pc \in Steps))
        BY <2>1, BusyHas
      <3>2. run[w].seen \in TaskMaps
        BY <3>1 DEF Attempt
      <3> QED
        BY <3>1, <3>2, MapParts DEF Attempt
    <2> QED
      BY <2>1, <2>2, <2>3 DEF TypeInv, TypeOK
  <1> QED
    BY <1>1, JobHolds, PTL

(* The row of a finished job says what BullMQ says of it: a worker closes a *)
(* job only after the row was written, nobody else has it meanwhile, and    *)
(* what skips the row is named in adrift.                                   *)
THEOREM FinishedRowsAgree == Spec => []RowsAgree
  <1>1. JobInv => RowsAgree
    BY DEF JobInv, RowInv, RowsAgree
  <1> QED
    BY <1>1, JobHolds, PTL

-----------------------------------------------------------------------------
(* What people did to a task.                                               *)

(* A worker's step concerns its own attempt, and no task unless it merges.  *)
(* Before the merge an attempt has the tasks that it read.                  *)
LEMMA StepIs ==
  ASSUME JobInv, NEW w \in Workers, Work(w) \/ Faulty(w)
  PROVE  /\ \A v \in Workers : v # w => run'[v] = run[v]
         /\ ~Persist(w) => UNCHANGED <<items, created, summary>>
         /\ UNCHANGED calls
         /\ ~Announce(w) => UNCHANGED announced
         /\ At(w, "lock")' => PlanMerge(w) /\ run'[w].seen = items
         /\ At(w, "commit")' => LockRows(w) /\ run'[w].seen = There(w)
         /\ At(w, "announce")' => Persist(w)
         /\ \A pc \in {"asr", "sum", "plan", "lock", "commit"} :
              At(w, pc)' =>
                \/ run'[w].previous = Known(w)
                \/ /\ run'[w].previous = run[w].previous
                   /\ run[w].pc \in {"asr", "sum", "plan", "lock"}
  <1> USE DEF JobInv, BaseInv
  <1>1. UNCHANGED calls
    BY DEF Work, Faulty, Take, MarkActive, Load, Transcribe, ImportArtifacts, Summarize,
           PlanMerge, LockRows, Persist, Announce, CompleteJob, Ack, FailMeeting, Retry, FailJob,
           MarkFails, Crash, bounds
  <1>2. ~Persist(w) => UNCHANGED <<items, created, summary>>
    BY DEF Work, Faulty, Take, MarkActive, Load, Transcribe, ImportArtifacts, Summarize,
           PlanMerge, LockRows, Announce, CompleteJob, Ack, FailMeeting, Retry, FailJob,
           MarkFails, Crash, taskVars
  <1>3. ~Announce(w) => UNCHANGED announced
    BY DEF Work, Faulty, Take, MarkActive, Load, Transcribe, ImportArtifacts, Summarize,
           PlanMerge, LockRows, Persist, CompleteJob, Ack, FailMeeting, Retry, FailJob,
           MarkFails, Crash
  <1> DEFINE Shape(r) ==
               /\ r.pc = "lock" => PlanMerge(w) /\ r.seen = items
               /\ r.pc = "commit" => LockRows(w) /\ r.seen = There(w)
               /\ r.pc = "announce" => Persist(w)
               /\ r.pc \in {"asr", "sum", "plan", "lock", "commit"} =>
                    \/ r.previous = Known(w)
                    \/ r.previous = run[w].previous /\ run[w].pc \in {"asr", "sum", "plan", "lock"}
  <1>4. \E r \in Attempt : Go(w, r) /\ Shape(r)
    <2>1. ASSUME NEW r, Moves(w, r), Shape(r)
          PROVE  \E q \in Attempt : Go(w, q) /\ Shape(q)
      <3> HIDE DEF Shape
      <3> QED
        BY <2>1 DEF Moves
    <2>2. Go(w, Idle) => \E q \in Attempt : Go(w, q) /\ Shape(q)
      BY IdleIs
    <2>3. CASE Take(w)
      <3>1. PICK j \in Jobs : Go(w, [Idle EXCEPT !.job = j, !.pc = "mark"])
        BY <2>3 DEF Take
      <3> DEFINE r == [Idle EXCEPT !.job = j, !.pc = "mark"]
      <3>2. r \in Attempt /\ r.pc = "mark" /\ Go(w, r)
        BY <3>1, IdleIs, ZenonT(60) DEF Steps
      <3> HIDE DEF r
      <3> QED
        BY <3>2
    <2>4. CASE MarkActive(w) \/ CompleteJob(w) \/ FailJob(w) \/ Announce(w)
      <3>1. PICK r : Moves(w, r) /\ r.pc \in {"load", "ack", "told", "finish"}
        BY <2>4, StepDoes
      <3> QED
        BY <2>1, <3>1
    <2>5. CASE Load(w)
      <3>1. PICK r : /\ Moves(w, r)
                     /\ \/ r.pc \in {"asr", "sum"} /\ r.previous = Known(w)
                        \/ r.pc \in {"import", "finish"}
        BY <2>5, StepDoes
      <3> QED
        BY <2>1, <3>1
    <2>6. CASE Transcribe(w)
      <3>1. PICK r : Moves(w, r) /\ r.pc = "sum" /\ r.previous = run[w].previous
        BY <2>6, StepDoes
      <3>2. run[w].pc = "asr"
        BY <2>6 DEF Transcribe, At
      <3> QED
        BY <2>1, <3>1, <3>2
    <2>7. CASE ImportArtifacts(w)
      <3>1. PICK r : /\ Moves(w, r)
                     /\ \/ r.pc = "sum" /\ r.previous = Known(w)
                        \/ r.pc = "finish"
        BY <2>7, StepDoes
      <3> QED
        BY <2>1, <3>1
    <2>8. CASE Summarize(w)
      <3>1. PICK r : Moves(w, r) /\ r.pc = "plan" /\ r.previous = run[w].previous
        BY <2>8, StepDoes
      <3>2. run[w].pc = "sum"
        BY <2>8 DEF Summarize, At
      <3> QED
        BY <2>1, <3>1, <3>2
    <2>9. CASE PlanMerge(w)
      <3>1. PICK r : Moves(w, r) /\ r.pc = "lock" /\ r.previous = run[w].previous
                     /\ r.seen = items
        BY <2>9, StepDoes
      <3>2. run[w].pc = "plan"
        BY <2>9 DEF PlanMerge, At
      <3> QED
        BY <2>1, <2>9, <3>1, <3>2
    <2>12. CASE LockRows(w)
      <3>1. PICK r : Moves(w, r) /\ r.pc = "commit" /\ r.previous = run[w].previous
                     /\ r.seen = There(w)
        BY <2>12, StepDoes
      <3>2. run[w].pc = "lock"
        BY <2>12 DEF LockRows, At
      <3> QED
        BY <2>1, <2>12, <3>1, <3>2
    <2>10. CASE Persist(w)
      <3>1. PICK r : Moves(w, r) /\ r.pc = "announce"
        BY <2>10, PersistMoves
      <3> QED
        BY <2>1, <2>10, <3>1
    <2>11. CASE Ack(w) \/ FailMeeting(w) \/ Retry(w) \/ MarkFails(w) \/ Crash(w)
      <3>1. Go(w, Idle)
        BY <2>11, LeaveDoes
      <3> QED
        BY <2>2, <3>1
    <2> QED
      BY <2>3, <2>4, <2>5, <2>6, <2>7, <2>8, <2>9, <2>10, <2>11, <2>12 DEF Work, Faulty
  <1>5. PICK r \in Attempt : Go(w, r) /\ Shape(r)
    BY <1>4
  <1>6. run'[w] = r /\ \A v \in Workers : v # w => run'[v] = run[v]
    BY <1>5, GoDoes
  <1> QED
    BY <1>1, <1>2, <1>3, <1>5, <1>6 DEF At

(* What a transaction has read is locked: it is what the tasks still are,   *)
(* and no other transaction has read it.                                    *)
LockInv ==
  /\ \A w \in Workers : At(w, "commit") =>
        \A i \in DOMAIN run[w].seen : i \in DOMAIN items /\ items[i] = run[w].seen[i]
  /\ \A v, w \in Workers : At(v, "commit") /\ At(w, "commit") /\ v # w =>
        DOMAIN run[v].seen \cap DOMAIN run[w].seen = {}

LEMMA LockedIs ==
  ASSUME NEW w \in Workers, At(w, "commit"), NEW i \in DOMAIN run[w].seen
  PROVE  i \in Locked
  BY DEF Locked

(* A merge leaves alone what its transaction did not read, and what it read *)
(* as somebody's own.                                                       *)
LEMMA MergeSpares ==
  ASSUME JobInv, LockInv, NEW w \in Workers, Persist(w), NEW i \in DOMAIN items,
         i \in DOMAIN run[w].seen => isProtected(items[i])
  PROVE  i \in DOMAIN items' /\ items'[i] = items[i]
  <1> DEFINE seen == run[w].seen
             out == run[w].output
  <1>0. PICK ins : MergeDone(w, ins)
    BY PersistDoes DEF JobInv, BaseInv
  <1>1. /\ DOMAIN items' = (DOMAIN items \ (DOMAIN seen \ (Kept(seen) \cup Refreshed(seen, out))))
                             \cup ins
        /\ \A k \in DOMAIN items' :
             items'[k] = IF k \in Refreshed(seen, out) \cup ins
                         THEN MergedItem(items, ins, k) ELSE items[k]
        /\ \A k \in ins : k \notin DOMAIN items
    BY <1>0 DEF MergeDone
  <1>2. i \in DOMAIN seen => i \in Kept(seen)
    BY DEF LockInv, Persist, Kept
  <1> HIDE DEF seen, out
  <1>3. i \notin Refreshed(seen, out)
    BY <1>2, MergeParts
  <1> QED
    BY <1>1, <1>2, <1>3

(* People leave alone the tasks that a transaction has read.                *)
LEMMA PeopleSpare ==
  ASSUME JobInv, People, NEW i \in DOMAIN items, i \in Locked
  PROVE  i \in DOMAIN items' /\ items'[i] = items[i]
  <1>1. i \in DOMAIN items'
    BY PeopleDo DEF JobInv
  <1>2. /\ i[2] < created[i[1]]
        /\ \/ items'[i] = items[i]
           \/ i[1] \in Titles /\ i = <<i[1], created[i[1]]>>
    BY <1>1, PeopleDo DEF JobInv, BaseInv, IdsInv
  <1>3. i[1] \in Titles => i # <<i[1], created[i[1]]>>
    <2> SUFFICES ASSUME i[1] \in Titles, i = <<i[1], created[i[1]]>> PROVE FALSE
      OBVIOUS
    <2>1. created[i[1]] \in Nat /\ i[2] = created[i[1]]
      BY DEF JobInv, BaseInv, TypeInv
    <2> QED
      BY <1>2, <2>1
  <1> QED
    BY <1>1, <1>2, <1>3

LEMMA LockStep ==
  ASSUME JobInv, LockInv, [Next]_vars
  PROVE  LockInv'
  <1>1. CASE UNCHANGED <<items, run>>
    BY <1>1 DEF LockInv, At
  <1>2. CASE People
    <2>1. UNCHANGED run
      BY <1>2, PeopleDo DEF JobInv
    <2>2. \A w \in Workers : At(w, "commit") =>
            \A i \in DOMAIN run[w].seen : i \in DOMAIN items' /\ items'[i] = run[w].seen[i]
      BY <1>2, PeopleSpare, LockedIs DEF LockInv
    <2> QED
      BY <2>1, <2>2 DEF LockInv, At
  <1>3. ASSUME NEW w \in Workers, Persist(w), Work(w) PROVE LockInv'
    <2>1. ~At(w, "commit")' /\ \A v \in Workers : v # w => run'[v] = run[v]
      <3>1. ~LockRows(w)
        BY <1>3 DEF Persist, LockRows, At
      <3> QED
        BY <1>3, <3>1, StepIs
    <2>2. ASSUME NEW v \in Workers, At(v, "commit"), v # w, NEW i \in DOMAIN run[v].seen
          PROVE  i \in DOMAIN items' /\ items'[i] = run[v].seen[i]
      <3>1. At(w, "commit")
        BY <1>3 DEF Persist
      <3>2. i \notin DOMAIN run[w].seen /\ i \in DOMAIN items /\ items[i] = run[v].seen[i]
        BY <2>2, <3>1 DEF LockInv
      <3> QED
        BY <1>3, <3>2, MergeSpares
    <2> QED
      BY <2>1, <2>2 DEF LockInv, At
  <1>4. ASSUME NEW w \in Workers, Work(w) \/ Faulty(w), ~Persist(w) PROVE LockInv'
    <2>1. /\ \A v \in Workers : v # w => run'[v] = run[v]
          /\ UNCHANGED items
          /\ At(w, "commit")' => LockRows(w) /\ run'[w].seen = There(w)
      BY <1>4, StepIs
    <2>6. /\ DOMAIN There(w) = DOMAIN run[w].seen \cap DOMAIN items
          /\ \A i \in DOMAIN There(w) : There(w)[i] = items[i]
      BY DEF There, Restrict
    <2>2. LockRows(w) => \A v \in Workers : At(v, "commit") =>
                            DOMAIN run[v].seen \cap DOMAIN There(w) = {}
      BY <2>6, LockedIs DEF LockRows
    <2>3. \A v \in Workers : v # w => At(v, "commit")' = At(v, "commit")
      BY <2>1 DEF At
    <2>4. \A v \in Workers : At(v, "commit")' =>
            \A i \in DOMAIN run'[v].seen : i \in DOMAIN items' /\ items'[i] = run'[v].seen[i]
      BY <2>1, <2>3, <2>6 DEF LockInv
    <2>5. \A u, v \in Workers : At(u, "commit")' /\ At(v, "commit")' /\ u # v =>
            DOMAIN run'[u].seen \cap DOMAIN run'[v].seen = {}
      BY <2>1, <2>2, <2>3, ZenonT(60) DEF LockInv
    <2> QED
      BY <2>4, <2>5 DEF LockInv
  <1>5. ASSUME NEW j \in Jobs, Stalled(j) \/ \E n \in Requests : Request(j, n)
        PROVE  UNCHANGED <<items, run>>
    BY <1>5 DEF Stalled, Request, taskVars
  <1> QED
    BY <1>1, <1>2, <1>3, <1>4, <1>5 DEF Next, vars, taskVars, Work

LEMMA LockInit == Init => LockInv
  BY IdleIs DEF Init, LockInv, At

LEMMA LockHolds == Spec => [](JobInv /\ LockInv)
  BY JobInit, JobStep, LockInit, LockStep, PTL DEF Spec

(* No job undoes what people did to a task: the merge decides on tasks that *)
(* its transaction has locked, so that what it takes for nobody's own is so *)
(* when it writes, and the ids it gives are new.                            *)
THEOREM NoJobUndoesPeople == Spec => UserWorkKept
  <1> DEFINE Safe ==
        \A i \in DOMAIN items :
          /\ items[i].edited \/ items[i].done \/ items[i].origin = "user"
          /\ calls' = calls
          => i \in DOMAIN items' /\ items'[i] = items[i]
  <1>1. ASSUME JobInv, LockInv, [Next]_vars PROVE [Safe]_vars
    <2>1. UNCHANGED items => Safe
      OBVIOUS
    <2>2. ASSUME NEW w \in Workers, Persist(w) PROVE Safe
      <3>1. \A i \in DOMAIN items :
              items[i].edited \/ items[i].done \/ items[i].origin = "user"
                => i \in DOMAIN items' /\ items'[i] = items[i]
        BY <1>1, <2>2, MergeSpares DEF isProtected
      <3> QED
        BY <3>1
    <2>3. CASE People
      <3>1. calls' = calls + 1 /\ calls \in Nat
        BY <1>1, <2>3, PeopleDo DEF JobInv, BaseInv, TypeInv
      <3>2. calls' # calls
        BY <3>1
      <3> QED
        BY <3>2
    <2>4. ASSUME NEW w \in Workers, Work(w) \/ Faulty(w), ~Persist(w) PROVE UNCHANGED items
      BY <1>1, <2>4, StepIs
    <2>5. ASSUME NEW j \in Jobs, Stalled(j) \/ \E n \in Requests : Request(j, n)
          PROVE  UNCHANGED items
      BY <2>5 DEF Stalled, Request, taskVars
    <2> HIDE DEF Safe
    <2> QED
      BY <1>1, <2>1, <2>2, <2>3, <2>4, <2>5 DEF Next
  <1>2. Spec => [][Safe]_vars
    BY <1>1, LockHolds, PTL DEF Spec
  <1> QED
    BY <1>2 DEF UserWorkKept

-----------------------------------------------------------------------------
(* One job at a time.  Two jobs of a meeting may merge one after the other  *)
(* what both have generated, and announce it twice: the next three theorems *)
(* are about the worker that runs one job at a time.                        *)
OneWorker == \A v, w \in Workers : v = w

(* What a transaction has not read was typed in by somebody since.          *)
TitleInv ==
  /\ OneTaskPerTitle
  /\ \A w \in Workers : run[w].pc \in {"lock", "commit"} =>
        \A i \in DOMAIN items : i \notin DOMAIN run[w].seen => items[i].origin = "user"

(* Two generated tasks are not left for one title: of the tasks that were   *)
(* nobody's own one is refreshed and the others go, and a new one is made   *)
(* only where nothing that was read answers to the title.                   *)
LEMMA MergeTitles ==
  ASSUME JobInv, JobInv', LockInv, TitleInv, NEW w \in Workers, Persist(w)
  PROVE  OneTaskPerTitle'
  <1> DEFINE seen == run[w].seen
             out == run[w].output
  <1>0. PICK ins : MergeDone(w, ins)
    BY PersistDoes DEF JobInv, BaseInv
  <1>1. /\ DOMAIN items' = (DOMAIN items \ (DOMAIN seen \ (Kept(seen) \cup Refreshed(seen, out))))
                             \cup ins
        /\ \A k \in DOMAIN items' :
             items'[k] = IF k \in Refreshed(seen, out) \cup ins
                         THEN MergedItem(items, ins, k) ELSE items[k]
    BY <1>0 DEF MergeDone
  <1>10. PICK local \in BOOLEAN : ins = Inserted(seen, out, local)
    BY <1>0 DEF MergeDone
  <1>2. \A k \in DOMAIN seen : k \in DOMAIN items /\ items[k] = seen[k] /\ seen[k].orig = k[1]
    BY DEF LockInv, Persist, JobInv, BaseInv, IdsInv
  <1>3. \A k \in DOMAIN items' : items'[k].orig = k[1]
    BY DEF JobInv, BaseInv, IdsInv
  <1>4. \A k \in DOMAIN items : k \notin DOMAIN seen => items[k].origin = "user"
    BY DEF TitleInv, Persist, At
  <1>5. \A k \in DOMAIN items : items[k].orig = k[1]
    BY DEF JobInv, BaseInv, IdsInv
  <1> HIDE DEF seen, out
  <1>6. ASSUME NEW k \in DOMAIN items', items'[k].origin # "user",
               k \notin Refreshed(seen, out), k \notin ins
        PROVE  /\ k \in DOMAIN items /\ items'[k] = items[k]
               /\ k \in Kept(seen) /\ k[1] \notin Wanted(seen, out)
    <2>1. k \in DOMAIN items /\ items'[k] = items[k]
      BY <1>1, <1>6
    <2>2. k \in DOMAIN seen
      BY <1>4, <1>6, <2>1
    <2>3. k \in Kept(seen)
      BY <1>1, <1>6, <2>1, <2>2
    <2>4. seen[k].orig \notin Wanted(seen, out)
      BY <2>3, MergeParts
    <2> QED
      BY <1>2, <2>1, <2>2, <2>3, <2>4
  <1>7. ASSUME NEW i \in Refreshed(seen, out)
        PROVE  i[1] \in Wanted(seen, out) /\ i = Chosen(seen, i[1]) /\ i \in Match(seen, i[1])
    <2>1. /\ i \in DOMAIN seen \ Kept(seen) /\ seen[i].orig \in Wanted(seen, out)
          /\ i = Chosen(seen, seen[i].orig)
      BY <1>7, MergeParts
    <2>2. seen[i].orig = i[1]
      BY <1>2, <2>1
    <2> QED
      BY <2>1, <2>2 DEF Match, existingKey
  <1>8. ASSUME NEW i \in ins
        PROVE  i[1] \in Wanted(seen, out) /\ i = NewId(seen, i[1], local)
               /\ Match(seen, i[1]) = {}
    BY <1>8, <1>10, MergeParts
  <1>9. ASSUME NEW i \in DOMAIN items', NEW k \in DOMAIN items', i # k, i[1] = k[1],
               items'[i].origin # "user", items'[k].origin # "user"
        PROVE  FALSE
    <2>1. CASE i \in Refreshed(seen, out)
      BY <1>6, <1>7, <1>8, <1>9, <2>1
    <2>2. CASE i \in ins
      BY <1>6, <1>7, <1>8, <1>9, <2>2
    <2>3. CASE i \notin Refreshed(seen, out) /\ i \notin ins
      <3>1. i \in DOMAIN items /\ items'[i] = items[i] /\ i[1] \notin Wanted(seen, out)
        BY <1>6, <1>9, <2>3
      <3>2. k \notin Refreshed(seen, out) /\ k \notin ins
        BY <1>7, <1>8, <1>9, <3>1
      <3>3. k \in DOMAIN items /\ items'[k] = items[k]
        BY <1>6, <1>9, <3>2
      <3>4. items[i].orig = items[k].orig
        BY <1>5, <1>9, <3>1, <3>3
      <3> QED
        BY <1>9, <3>1, <3>3, <3>4 DEF TitleInv, OneTaskPerTitle
    <2> QED
      BY <2>1, <2>2, <2>3
  <1> QED
    BY <1>3, <1>9 DEF OneTaskPerTitle

LEMMA TitleStep ==
  ASSUME OneWorker, JobInv, JobInv', LockInv, TitleInv, [Next]_vars
  PROVE  TitleInv'
  <1>1. CASE UNCHANGED <<items, run>>
    BY <1>1 DEF TitleInv, OneTaskPerTitle, At
  <1>2. CASE People
    <2>1. UNCHANGED run
      BY <1>2, PeopleDo DEF JobInv
    <2>2. \A i \in DOMAIN items' :
            \/ items'[i].origin = "user"
            \/ /\ i \in DOMAIN items /\ items'[i].orig = items[i].orig
               /\ items'[i].origin = items[i].origin
      BY <1>2, PeopleDo DEF JobInv
    <2>3. OneTaskPerTitle'
      BY <2>2 DEF TitleInv, OneTaskPerTitle
    <2> QED
      BY <2>1, <2>2, <2>3 DEF TitleInv, At
  <1>3. ASSUME NEW w \in Workers, Work(w), Persist(w) PROVE TitleInv'
    <2>1. ~LockRows(w) /\ ~PlanMerge(w)
      BY <1>3 DEF Persist, LockRows, PlanMerge, At
    <2>2. ~(run'[w].pc \in {"lock", "commit"})
      BY <1>3, <2>1, StepIs DEF At
    <2>3. OneTaskPerTitle'
      BY <1>3, MergeTitles
    <2> QED
      BY <2>2, <2>3 DEF TitleInv, OneWorker
  <1>4. ASSUME NEW w \in Workers, Work(w) \/ Faulty(w), ~Persist(w) PROVE TitleInv'
    <2>1. /\ UNCHANGED items
          /\ At(w, "lock")' => run'[w].seen = items
          /\ At(w, "commit")' => LockRows(w) /\ run'[w].seen = There(w)
      BY <1>4, StepIs
    <2>3. DOMAIN There(w) = DOMAIN run[w].seen \cap DOMAIN items
      BY DEF There, Restrict
    <2>4. ASSUME run'[w].pc \in {"lock", "commit"}, NEW i \in DOMAIN items, i \notin DOMAIN run'[w].seen
          PROVE  items[i].origin = "user"
      <3>1. run[w].pc = "lock" /\ i \notin DOMAIN run[w].seen
        BY <2>1, <2>3, <2>4 DEF LockRows, At
      <3> QED
        BY <3>1 DEF TitleInv
    <2>2. OneTaskPerTitle'
      BY <2>1 DEF TitleInv, OneTaskPerTitle
    <2> QED
      BY <2>1, <2>2, <2>4 DEF TitleInv, OneWorker
  <1>5. ASSUME NEW j \in Jobs, Stalled(j) \/ \E n \in Requests : Request(j, n)
        PROVE  UNCHANGED <<items, run>>
    BY <1>5 DEF Stalled, Request, taskVars
  <1> QED
    BY <1>1, <1>2, <1>3, <1>4, <1>5 DEF Next, vars, taskVars, Work

(* However often a meeting is processed, generation leaves no two tasks of  *)
(* its own for one title.                                                   *)
THEOREM GeneratedOnce ==
  ASSUME \A v, w \in Workers : v = w
  PROVE  Spec => []OneTaskPerTitle
  <1>1. OneWorker
    BY DEF OneWorker
  <1>2. Init => TitleInv
    BY EmptyMap, IdleIs DEF Init, TitleInv, OneTaskPerTitle, At
  <1>3. JobInv /\ LockInv /\ TitleInv /\ JobInv' /\ [Next]_vars => TitleInv'
    BY <1>1, TitleStep
  <1>4. Spec => []TitleInv
    BY <1>2, <1>3, LockHolds, PTL DEF Spec
  <1>5. TitleInv => OneTaskPerTitle
    BY DEF TitleInv
  <1> QED
    BY <1>4, <1>5, PTL

(* Announced tasks are old ones: an attempt that has read its tasks knows   *)
(* which are still there, or none was announced yet, and what it is about   *)
(* to announce is none of them.                                             *)
Given(c) == c[2] < created[c[1][1]]

AnnounceInv ==
  /\ \A c \in DOMAIN announced : announced[c] <= 1 /\ Given(c)
  /\ summary \/ DOMAIN announced = {}
  /\ \A w \in Workers : run[w].pc \in {"asr", "sum", "plan", "lock", "commit"} =>
        \A i \in DOMAIN items :
           <<i, items[i].nth>> \in DOMAIN announced => i \in run[w].previous
  /\ \A w \in Workers : At(w, "announce") =>
        summary /\ \A c \in run[w].fresh : c \notin DOMAIN announced /\ Given(c)

(* A task that was created stays older than the next of its title.          *)
LEMMA StaysGiven ==
  ASSUME TypeInv, Grows, NEW c \in Creations, Given(c)
  PROVE  Given(c)'
  <1>1. c[1][1] \in Titles /\ c[2] \in Nat
    BY DEF Creations, Ids
  <1> QED
    BY <1>1, StaysOlder DEF Given

(* The next task of a title was not announced yet.                          *)
LEMMA NextIsNew ==
  ASSUME TypeInv, AnnounceInv, NEW i, i[1] \in Titles
  PROVE  <<i, created[i[1]]>> \notin DOMAIN announced
  <1>1. created[i[1]] \in Nat
    BY DEF TypeInv
  <1>2. ~(created[i[1]] < created[i[1]])
    BY <1>1
  <1> QED
    BY <1>2 DEF AnnounceInv, Given

LEMMA AnnounceMerge ==
  ASSUME OneWorker, JobInv, JobInv', AnnounceInv, NEW w \in Workers, Work(w), Persist(w)
  PROVE  AnnounceInv'
  <1> USE DEF JobInv, BaseInv
  <1> DEFINE seen == run[w].seen
             out == run[w].output
  <1>0. PICK ins : MergeDone(w, ins)
    BY PersistDoes
  <1>1. /\ \A i \in DOMAIN items' : i \in DOMAIN items \/ i \in ins
        /\ \A i \in DOMAIN items' :
             items'[i] = IF i \in Refreshed(seen, out) \cup ins
                         THEN MergedItem(items, ins, i) ELSE items[i]
        /\ Grows /\ summary'
        /\ \A i \in ins : i \in Ids /\ items'[i].nth = created[i[1]]
    BY <1>0 DEF MergeDone
  <1>2. PICK r : /\ Moves(w, r) /\ r.pc = "announce"
                 /\ r.fresh = {<<i, items'[i].nth>> : i \in DOMAIN items' \ run[w].previous}
    BY <1>0 DEF MergeDone
  <1>3. run'[w] = r
    BY <1>2, RunMoves
  <1>4. UNCHANGED announced /\ At(w, "commit")
    BY DEF Persist
  <1> HIDE DEF seen, out
  <1>5. ASSUME NEW i \in DOMAIN items', i \notin run[w].previous
        PROVE  <<i, items'[i].nth>> \notin DOMAIN announced
    <2>1. CASE i \in ins
      <3>1. i[1] \in Titles /\ items'[i].nth = created[i[1]]
        BY <1>1, <2>1 DEF Ids
      <3> QED
        BY <3>1, NextIsNew
    <2>2. CASE i \notin ins
      <3>1. i \in DOMAIN items
        BY <1>1, <1>5, <2>2
      <3>2. items'[i].nth = items[i].nth
        BY <1>1, <1>5, <2>2 DEF MergedItem, Generated
      <3> QED
        BY <1>4, <1>5, <3>1, <3>2 DEF AnnounceInv, At
    <2> QED
      BY <2>1, <2>2
  <1>6. \A c \in DOMAIN announced : announced[c] <= 1 /\ Given(c)'
    BY <1>1, StaysGiven DEF AnnounceInv, TypeInv
  <1>7. \A i \in DOMAIN items' : \A c : c = <<i, items'[i].nth>> => Given(c)'
    BY DEF IdsInv, Given
  <1>8. ASSUME NEW c \in r.fresh PROVE c \notin DOMAIN announced /\ Given(c)'
    <2>1. PICK i \in DOMAIN items' \ run[w].previous : c = <<i, items'[i].nth>>
      BY <1>2
    <2> QED
      BY <1>5, <1>7, <2>1
  <1>9. \A v \in Workers : v = w
    BY DEF OneWorker
  <1> QED
    BY <1>1, <1>2, <1>3, <1>4, <1>6, <1>8, <1>9 DEF AnnounceInv, At

LEMMA AnnounceStep ==
  ASSUME OneWorker, JobInv, JobInv', AnnounceInv, [Next]_vars
  PROVE  AnnounceInv'
  <1> USE DEF JobInv, BaseInv
  <1>1. CASE UNCHANGED <<items, created, summary, announced, run>>
    BY <1>1 DEF AnnounceInv, At, Given
  <1>2. CASE People
    <2>1. UNCHANGED <<run, announced, summary>> /\ Grows
      BY <1>2, PeopleDo
    <2>2. \A c \in Creations : Given(c) => Given(c)'
      BY <2>1, StaysGiven
    <2>3. \A c \in DOMAIN announced : announced[c] <= 1 /\ Given(c)'
      BY <2>2 DEF AnnounceInv, TypeInv
    <2>4. ASSUME NEW i \in DOMAIN items', <<i, items'[i].nth>> \in DOMAIN announced
          PROVE  i \in DOMAIN items /\ items'[i].nth = items[i].nth
      <3>1. \/ i \in DOMAIN items /\ items'[i].nth = items[i].nth
            \/ i[1] \in Titles /\ items'[i].nth = created[i[1]]
        BY <1>2, <2>4, PeopleDo
      <3> QED
        BY <2>4, <3>1, NextIsNew
    <2>5. \A w \in Workers : run[w].fresh \subseteq Creations
      BY BusyHas DEF Attempt
    <2>6. \A w \in Workers : At(w, "announce") =>
            summary /\ \A c \in run[w].fresh : c \notin DOMAIN announced /\ Given(c)'
      BY <2>2, <2>5 DEF AnnounceInv
    <2>7. \A w \in Workers : run[w].pc \in {"asr", "sum", "plan", "lock", "commit"} =>
            \A i \in DOMAIN items' :
               <<i, items'[i].nth>> \in DOMAIN announced => i \in run[w].previous
      BY <2>4 DEF AnnounceInv
    <2> QED
      BY <2>1, <2>3, <2>6, <2>7 DEF AnnounceInv, At
  <1>3. ASSUME NEW w \in Workers, Announce(w) PROVE AnnounceInv'
    <2>1. /\ At(w, "announce") /\ UNCHANGED <<items, created, summary>>
          /\ announced' = [c \in DOMAIN announced \cup run[w].fresh |->
                             (IF c \in DOMAIN announced THEN announced[c] ELSE 0)
                             + (IF c \in run[w].fresh THEN 1 ELSE 0)]
      BY <1>3 DEF Announce, taskVars
    <2>2. PICK r : Moves(w, r) /\ r.pc = "finish"
      BY <1>3, StepDoes
    <2>3. run'[w].pc = "finish"
      BY <2>2, RunMoves
    <2>4. DOMAIN announced' = DOMAIN announced \cup run[w].fresh
      BY <2>1
    <2>5. summary /\ \A c \in run[w].fresh : c \notin DOMAIN announced /\ Given(c)
      BY <2>1 DEF AnnounceInv
    <2>6. ASSUME NEW c \in DOMAIN announced' PROVE announced'[c] <= 1
      <3>1. CASE c \in run[w].fresh
        <4>1. announced'[c] = 0 + 1
          BY <2>1, <2>5, <3>1
        <4> QED
          BY <4>1
      <3>2. CASE c \notin run[w].fresh
        <4>1. announced'[c] = announced[c] + 0 /\ announced[c] \in Nat /\ announced[c] <= 1
          BY <2>1, <2>4, <2>6, <3>2 DEF AnnounceInv, TypeInv
        <4> QED
          BY <4>1
      <3> QED
        BY <3>1, <3>2
    <2>7. \A c \in DOMAIN announced' : Given(c)'
      BY <2>1, <2>4, <2>5 DEF AnnounceInv, Given
    <2>8. \A v \in Workers : run'[v].pc = "finish"
      BY <2>3 DEF OneWorker
    <2> QED
      BY <2>1, <2>5, <2>6, <2>7, <2>8 DEF AnnounceInv, At
  <1>4. ASSUME NEW w \in Workers, Work(w) \/ Faulty(w), ~Persist(w), ~Announce(w)
        PROVE  AnnounceInv'
    <2>1. UNCHANGED <<items, created, summary, announced>>
      BY <1>4, StepIs
    <2>2. ~At(w, "announce")'
      BY <1>4, StepIs
    <2>3. ASSUME run'[w].pc \in {"asr", "sum", "plan", "lock", "commit"}
          PROVE  \A i \in DOMAIN items :
                   <<i, items[i].nth>> \in DOMAIN announced => i \in run'[w].previous
      <3>1. \/ run'[w].previous = Known(w)
            \/ run'[w].previous = run[w].previous /\ run[w].pc \in {"asr", "sum", "plan", "lock"}
        BY <1>4, <2>3, StepIs DEF At
      <3>2. summary => Known(w) = DOMAIN items
        BY DEF Known
      <3> QED
        BY <3>1, <3>2 DEF AnnounceInv
    <2>4. \A v \in Workers : v = w
      BY DEF OneWorker
    <2> QED
      BY <2>1, <2>2, <2>3, <2>4 DEF AnnounceInv, At, Given
  <1>5. ASSUME NEW j \in Jobs, Stalled(j) \/ \E n \in Requests : Request(j, n)
        PROVE  UNCHANGED <<items, created, summary, announced, run>>
    BY <1>5 DEF Stalled, Request, taskVars
  <1> QED
    BY <1>1, <1>2, <1>3, <1>4, <1>5, AnnounceMerge DEF Next, vars, taskVars, Work

(* Each creation of a task is announced at most once, over retries, re-runs *)
(* and deaths of the process: an attempt announces what was created since   *)
(* it began, and before the first summary nothing was announced.            *)
THEOREM AnnouncedAtMostOnce ==
  ASSUME \A v, w \in Workers : v = w
  PROVE  Spec => []AnnouncedOnce
  <1>1. OneWorker
    BY DEF OneWorker
  <1>2. Init => AnnounceInv
    BY EmptyMap, IdleIs DEF Init, AnnounceInv, At
  <1>3. JobInv /\ AnnounceInv /\ JobInv' /\ [Next]_vars => AnnounceInv'
    BY <1>1, AnnounceStep
  <1>4. Spec => []AnnounceInv
    BY <1>2, <1>3, JobHolds, PTL DEF Spec
  <1>5. AnnounceInv => AnnouncedOnce
    BY DEF AnnounceInv, AnnouncedOnce
  <1> QED
    BY <1>4, <1>5, PTL

(* A processing job that is not done.                                       *)
Pending(j) == name[j] \in Processing /\ entry[j] \in {"waiting", "active"}

(* Without a pending job the meeting shows the last outcome.                *)
Shows == last # "none" /\ (\A j \in Jobs : ~Pending(j)) => meeting = last

(* What a worker's attempt has made of the meeting: a processing job that   *)
(* merged has completed it; one that is to be closed as completed has, or   *)
(* has left the meeting to a job that waits.                                *)
WorkShown(w) ==
  /\ run[w].pc \in {"asr", "import", "sum", "plan", "lock", "commit", "announce"} =>
        NameOf(w) \in Processing
  /\ At(w, "announce") => meeting = "completed"
  /\ run[w].pc \in {"finish", "ack"} /\ NameOf(w) \in Processing =>
        \/ meeting = "completed"
        \/ \E j \in Jobs : name[j] \in Processing /\ entry[j] = "waiting"

ShowInv == adrift = {} => Shows /\ \A w \in Workers : WorkShown(w)

(* Jobs that were pending still are, or one is.                             *)
LEMMA ShowsKept ==
  ASSUME Shows,
         \/ \E j \in Jobs : Pending(j)'
         \/ /\ UNCHANGED <<meeting, last>>
            /\ \A j \in Jobs : Pending(j) => Pending(j)'
  PROVE  Shows'
  BY DEF Shows

(* The worker's processing job is pending until it is closed.               *)
LEMMA WorksPending ==
  ASSUME JobInv, NEW w \in Workers, Busy(w), NameOf(w) \in Processing,
         UNCHANGED <<name, entry>>
  PROVE  \E j \in Jobs : Pending(j)'
  BY OwnedHas DEF JobInv, Pending, NameOf

(* Jobs that are added leave those that were there what they were.          *)
LEMMA PendingKept ==
  ASSUME JobInv, NEW j \in Jobs, row[j] = "none", NEW n \in Names,
         name' = [name EXCEPT ![j] = n], entry' = [entry EXCEPT ![j] = "waiting"]
  PROVE  /\ name'[j] = n /\ entry'[j] = "waiting"
         /\ \A i \in Jobs : i # j => name'[i] = name[i] /\ entry'[i] = entry[i]
         /\ \A i \in Jobs : Pending(i) => Pending(i)' /\ i # j
         /\ \A i \in Jobs : entry[i] = "waiting" => i # j
         /\ \A w \in Workers : Busy(w) => run[w].job \in Jobs \ {j}
  <1>1. /\ name'[j] = n /\ entry'[j] = "waiting"
        /\ \A i \in Jobs : i # j => name'[i] = name[i] /\ entry'[i] = entry[i]
    BY JobSets DEF JobInv, BaseInv
  <1>2. entry[j] = "none"
    BY DEF JobInv, BaseInv, RowsHave
  <1>3. \A i \in Jobs : Pending(i) => Pending(i)' /\ i # j
    BY <1>1, <1>2 DEF Pending
  <1>4. \A w \in Workers : Busy(w) => run[w].job \in Jobs \ {j}
    BY <1>2, OwnedHas DEF JobInv
  <1> QED
    BY <1>1, <1>2, <1>3, <1>4

(* Requests for processing, and jobs that stalled.                          *)
LEMMA ShowAsked ==
  ASSUME JobInv, ShowInv, NEW j \in Jobs,
         Stalled(j) \/ \E n \in Requests : Request(j, n)
  PROVE  ShowInv'
  <1> SUFFICES ASSUME adrift' = {} PROVE Shows' /\ \A w \in Workers : WorkShown(w)'
    BY DEF ShowInv
  <1>1. UNCHANGED <<meeting, last, run>> /\ adrift = {}
    BY DEF Stalled, Request
  <1>2. Shows /\ \A w \in Workers : WorkShown(w)
    BY <1>1 DEF ShowInv
  <1>3. /\ \A i \in Jobs : Pending(i) => Pending(i)'
        /\ \A i \in Jobs : name[i] \in Processing /\ entry[i] = "waiting" =>
             name'[i] \in Processing /\ entry'[i] = "waiting"
        /\ \A w \in Workers : Busy(w) => name'[run[w].job] = name[run[w].job]
    <2>1. CASE Stalled(j)
      <3>1. entry[j] = "active" /\ UNCHANGED name
            /\ (entry' = [entry EXCEPT ![j] = "waiting"] \/ adrift' = adrift \cup {"stalled"})
        BY <2>1 DEF Stalled
      <3>2. entry' = [entry EXCEPT ![j] = "waiting"]
        BY <3>1
      <3>3. entry'[j] = "waiting" /\ \A i \in Jobs : i # j => entry'[i] = entry[i]
        BY <3>2, JobSets DEF JobInv, BaseInv
      <3> QED
        BY <3>1, <3>3 DEF Pending
    <2>2. ASSUME NEW n \in Requests, Request(j, n)
          PROVE  /\ \A i \in Jobs : Pending(i) => Pending(i)'
                 /\ \A i \in Jobs : name[i] \in Processing /\ entry[i] = "waiting" =>
                      name'[i] \in Processing /\ entry'[i] = "waiting"
                 /\ \A w \in Workers : Busy(w) => name'[run[w].job] = name[run[w].job]
      <3>1. n \in Names
        BY PipelineAssumption DEF Names, Processing
      <3>2. /\ row[j] = "none" /\ name' = [name EXCEPT ![j] = n]
            /\ entry' = [entry EXCEPT ![j] = "waiting"]
        BY <2>2 DEF Request
      <3> QED
        BY <3>1, <3>2, PendingKept
    <2> QED
      BY <2>1, <2>2
  <1>4. Shows'
    BY <1>1, <1>2, <1>3, ShowsKept
  <1>5. ASSUME NEW w \in Workers PROVE WorkShown(w)'
    <2>1. ~Busy(w) => WorkShown(w)'
      BY <1>1 DEF WorkShown, Busy, At
    <2>2. Busy(w) => NameOf(w)' = NameOf(w)
      BY <1>1, <1>3 DEF NameOf
    <2> QED
      BY <1>1, <1>2, <1>3, <2>1, <2>2 DEF WorkShown, At
  <1> QED
    BY <1>4, <1>5

(* An attempt that is left without closing its job.                         *)
LEMMA ShowLeft ==
  ASSUME OneWorker, JobInv, ShowInv, NEW w \in Workers,
         Retry(w) \/ MarkFails(w) \/ Crash(w)
  PROVE  ShowInv'
  <1> SUFFICES ASSUME adrift' = {} PROVE Shows' /\ \A v \in Workers : WorkShown(v)'
    BY DEF ShowInv
  <1>1. Go(w, Idle) /\ Busy(w) /\ run[w].job \in Jobs /\ UNCHANGED name
    BY LeaveDoes DEF JobInv, BaseInv
  <1>2. run'[w].pc = "idle"
    BY <1>1, IdleIs, GoDoes DEF JobInv, BaseInv
  <1>3. /\ UNCHANGED <<meeting, last>>
        /\ \/ UNCHANGED <<entry, adrift>>
           \/ entry' = [entry EXCEPT ![run[w].job] = "waiting"] /\ UNCHANGED adrift
           \/ adrift' = adrift \cup {"unwritten"}
    BY DEF Retry, MarkFails, Crash, jobVars
  <1>4. /\ adrift = {}
        /\ UNCHANGED entry \/ entry' = [entry EXCEPT ![run[w].job] = "waiting"]
    BY <1>3
  <1>5. \A i \in Jobs : entry[i] \in {"waiting", "active"} => entry'[i] \in {"waiting", "active"}
    BY <1>1, <1>4, JobSets DEF JobInv, BaseInv
  <1>6. \A i \in Jobs : Pending(i) => Pending(i)'
    BY <1>1, <1>5 DEF Pending
  <1>7. Shows'
    BY <1>3, <1>4, <1>6, ShowsKept DEF ShowInv
  <1>8. \A v \in Workers : WorkShown(v)'
    BY <1>2 DEF OneWorker, WorkShown, At
  <1> QED
    BY <1>7, <1>8

(* A job that is closed.                                                    *)
LEMMA ShowClosed ==
  ASSUME OneWorker, JobInv, ShowInv, NEW w \in Workers, Ack(w) \/ FailMeeting(w)
  PROVE  ShowInv'
  <1> SUFFICES ASSUME adrift' = {} PROVE Shows' /\ \A v \in Workers : WorkShown(v)'
    BY DEF ShowInv
  <1>1. Go(w, Idle) /\ Busy(w) /\ run[w].job \in Jobs /\ UNCHANGED name
    BY LeaveDoes DEF JobInv, BaseInv
  <1>2. run'[w].pc = "idle"
    BY <1>1, IdleIs, GoDoes DEF JobInv, BaseInv
  <1>3. \A v \in Workers : WorkShown(v)'
    BY <1>2 DEF OneWorker, WorkShown, At
  <1>4. /\ adrift = {}
        /\ \/ /\ At(w, "ack") /\ UNCHANGED meeting /\ last' = Ended(w, "completed")
              /\ entry' = [entry EXCEPT ![run[w].job] = "completed"]
           \/ /\ meeting' = FailedStatus(w) /\ last' = Ended(w, "failed")
              /\ entry' = [entry EXCEPT ![run[w].job] = "failed"]
    <2>1. adrift' = adrift \cup {"unwritten"} => FALSE
      OBVIOUS
    <2> QED
      BY <2>1 DEF Ack, FailMeeting
  <1>5. \A i \in Jobs : i # run[w].job => entry'[i] = entry[i]
    BY <1>1, <1>4, JobSets DEF JobInv, BaseInv
  <1>6. Shows /\ WorkShown(w)
    BY <1>4 DEF ShowInv
  <1>7. CASE NameOf(w) \notin Processing
    <2>1. UNCHANGED <<meeting, last>>
      BY <1>4, <1>7 DEF Ended, FailedStatus
    <2>2. \A i \in Jobs : Pending(i) => Pending(i)'
      BY <1>1, <1>5, <1>7 DEF Pending, NameOf
    <2> QED
      BY <1>3, <1>6, <2>1, <2>2, ShowsKept
  <1>8. CASE NameOf(w) \in Processing /\ At(w, "ack") /\ UNCHANGED meeting
             /\ last' = Ended(w, "completed")
    <2>1. last' = "completed"
      BY <1>8 DEF Ended
    <2>2. \/ meeting = "completed"
          \/ \E j \in Jobs : name[j] \in Processing /\ entry[j] = "waiting"
      BY <1>6, <1>8 DEF WorkShown, At
    <2>3. entry[run[w].job] = "active"
      BY <1>1, OwnedHas DEF JobInv
    <2>4. meeting' = "completed" \/ \E j \in Jobs : Pending(j)'
      BY <1>1, <1>5, <1>8, <2>2, <2>3 DEF Pending
    <2> QED
      BY <1>3, <2>1, <2>4 DEF Shows
  <1>9. CASE NameOf(w) \in Processing /\ meeting' = FailedStatus(w)
             /\ last' = Ended(w, "failed")
    BY <1>3, <1>9 DEF Ended, FailedStatus, Shows
  <1> QED
    BY <1>4, <1>7, <1>8, <1>9

(* A step of a job's attempt after which its worker still has it.           *)
LEMMA ShowWorks ==
  ASSUME OneWorker, JobInv, ShowInv, NEW w \in Workers,
         Work(w), ~Take(w), ~Ack(w), ~FailMeeting(w)
  PROVE  ShowInv'
  <1> USE DEF JobInv, BaseInv
  <1> SUFFICES ASSUME adrift' = {} PROVE Shows' /\ \A v \in Workers : WorkShown(v)'
    BY DEF ShowInv
  <1>1. adrift' = adrift \/ adrift' = adrift \cup {"fallback"}
    BY DEF Work, MarkActive, Load, Transcribe, ImportArtifacts, Summarize, PlanMerge,
           LockRows, Persist, Announce, CompleteJob
  <1>2. adrift = {} /\ Shows /\ WorkShown(w)
    BY <1>1 DEF ShowInv
  <1>3. WorkShown(w)' => \A v \in Workers : WorkShown(v)'
    BY DEF OneWorker
  (* Steps that leave the jobs alone: either the meeting too, or the job is *)
  (* a processing job, which is pending.                                    *)
  <1>4. ASSUME NEW r, Moves(w, r), UNCHANGED <<name, entry, last>>,
               UNCHANGED meeting \/ NameOf(w) \in Processing,
               r.pc \in {"asr", "import", "sum", "plan", "lock", "commit", "announce"} =>
                 NameOf(w) \in Processing,
               r.pc = "announce" => meeting' = "completed",
               r.pc \in {"finish", "ack"} /\ NameOf(w) \in Processing =>
                 \/ meeting' = "completed"
                 \/ \E j \in Jobs : name[j] \in Processing /\ entry[j] = "waiting"
        PROVE  Shows' /\ WorkShown(w)'
    <2>1. run'[w] = r /\ r.job = run[w].job /\ Busy(w)
      BY <1>4, RunMoves DEF Moves
    <2>2. NameOf(w)' = NameOf(w)
      BY <1>4, <2>1 DEF NameOf
    <2>3. WorkShown(w)'
      BY <1>4, <2>1, <2>2 DEF WorkShown, At
    <2>4. \A j \in Jobs : Pending(j) => Pending(j)'
      BY <1>4 DEF Pending
    <2>5. Shows'
      BY <1>2, <1>4, <2>1, <2>4, WorksPending, ShowsKept
    <2> QED
      BY <2>3, <2>5
  <1>5. CASE MarkActive(w)
    <2>1. PICK r : Moves(w, r) /\ r.pc = "load"
      BY <1>5, StepDoes
    <2> QED
      BY <1>3, <1>4, <1>5, <2>1 DEF MarkActive
  <1>6. CASE Load(w)
    <2>1. PICK r : /\ Moves(w, r)
                   /\ r.pc \in {"asr", "sum", "import", "finish"}
                   /\ r.pc = "finish" <=> NameOf(w) = "meeting.index"
                   /\ r.pc # "finish" => NameOf(w) \in Processing
      BY <1>6, StepDoes
    <2>2. "meeting.index" \notin Processing
      BY DEF Processing
    <2>3. UNCHANGED meeting \/ NameOf(w) \in Processing
      BY <1>6 DEF Load, Processing
    <2>4. r.pc = "finish" => NameOf(w) \notin Processing
      BY <2>1, <2>2
    <2>5. UNCHANGED <<name, entry, last>>
      BY <1>6 DEF Load, jobVars
    <2> QED
      BY <1>3, <1>4, <2>1, <2>3, <2>4, <2>5
  <1>7. CASE Transcribe(w)
    <2>1. PICK r : Moves(w, r) /\ r.pc = "sum"
      BY <1>7, StepDoes
    <2>2. NameOf(w) \in Processing /\ UNCHANGED <<name, entry, last>>
      BY <1>2, <1>7 DEF Transcribe, WorkShown, At, jobVars
    <2> QED
      BY <1>3, <1>4, <2>1, <2>2
  <1>8. CASE Summarize(w)
    <2>1. PICK r : Moves(w, r) /\ r.pc = "plan"
      BY <1>8, StepDoes
    <2>2. NameOf(w) \in Processing /\ UNCHANGED <<name, entry, last>>
      BY <1>2, <1>8 DEF Summarize, WorkShown, At, jobVars
    <2> QED
      BY <1>3, <1>4, <2>1, <2>2
  <1>9. CASE PlanMerge(w) \/ LockRows(w)
    <2>1. PICK r : Moves(w, r) /\ r.pc \in {"lock", "commit"}
      BY <1>9, StepDoes
    <2>2. NameOf(w) \in Processing /\ UNCHANGED <<name, entry, last>>
      BY <1>2, <1>9 DEF PlanMerge, LockRows, WorkShown, At, jobVars
    <2> QED
      BY <1>3, <1>4, <2>1, <2>2
  <1>10. CASE Persist(w)
    <2>1. PICK r : Moves(w, r) /\ r.pc = "announce"
      BY <1>10, PersistMoves
    <2>2. NameOf(w) \in Processing /\ UNCHANGED <<name, entry, last>> /\ meeting' = "completed"
      BY <1>2, <1>10 DEF Persist, WorkShown, At, jobVars
    <2> QED
      BY <1>3, <1>4, <2>1, <2>2
  <1>11. CASE Announce(w)
    <2>1. PICK r : Moves(w, r) /\ r.pc = "finish"
      BY <1>11, StepDoes
    <2>2. UNCHANGED <<name, entry, last, meeting>> /\ meeting = "completed"
      BY <1>2, <1>11 DEF Announce, WorkShown, At, jobVars
    <2> QED
      BY <1>3, <1>4, <2>1, <2>2
  <1>12. CASE CompleteJob(w)
    <2>1. PICK r : Moves(w, r) /\ r.pc = "ack"
      BY <1>12, StepDoes
    <2>2. /\ UNCHANGED <<name, entry, last, meeting>>
          /\ NameOf(w) \in Processing =>
               \/ meeting = "completed"
               \/ \E j \in Jobs : name[j] \in Processing /\ entry[j] = "waiting"
      BY <1>2, <1>12 DEF CompleteJob, WorkShown, At
    <2> QED
      BY <1>3, <1>4, <2>1, <2>2
  <1>13. CASE ImportArtifacts(w)
    <2>1. PICK r : /\ Moves(w, r)
                   /\ \/ r.pc = "sum" /\ UNCHANGED <<name, row, entry, adrift>>
                      \/ r.pc = "finish"
      BY <1>13, StepDoes
    <2>2. NameOf(w) \in Processing /\ UNCHANGED last
      BY <1>2, <1>13 DEF ImportArtifacts, WorkShown, At
    <2>3. CASE r.pc = "sum"
      BY <1>3, <1>4, <2>1, <2>2, <2>3
    <2>4. CASE r.pc = "finish"
      <3>1. run'[w] = r
        BY <2>1, RunMoves
      <3>2. ~Go(w, ToRead(w, "sum"))
        <4>1. Busy(w)
          BY <2>1 DEF Moves
        <4>2. ToRead(w, "sum") \in Attempt /\ ToRead(w, "sum").pc = "sum"
          BY <4>1, Goes DEF Steps
        <4> QED
          BY <2>4, <3>1, <4>2, GoDoes
      <3>3. \/ \E j \in Jobs :
                 /\ row[j] = "none" /\ name' = [name EXCEPT ![j] = "media.ingest"]
                 /\ entry' = [entry EXCEPT ![j] = "waiting"]
            \/ adrift' = adrift \cup {"fallback"}
        BY <1>13, <3>2 DEF ImportArtifacts, ToRead
      <3>4. PICK j \in Jobs :
              /\ row[j] = "none" /\ name' = [name EXCEPT ![j] = "media.ingest"]
              /\ entry' = [entry EXCEPT ![j] = "waiting"]
        BY <3>3
      <3>5. "media.ingest" \in Names /\ "media.ingest" \in Processing
        BY DEF Names, Processing
      <3>6. name'[j] \in Processing /\ entry'[j] = "waiting"
        BY <3>4, <3>5, PendingKept
      <3>7. Shows'
        BY <1>2, <3>6, ShowsKept DEF Pending
      <3>8. WorkShown(w)'
        BY <2>4, <3>1, <3>6 DEF WorkShown, At
      <3> QED
        BY <1>3, <3>7, <3>8
    <2> QED
      BY <2>1, <2>3, <2>4
  <1> QED
    BY <1>5, <1>6, <1>7, <1>8, <1>9, <1>10, <1>11, <1>12, <1>13 DEF Work

(* A job that is taken is pending as before; one that fails is too, until   *)
(* its meeting was told.                                                    *)
LEMMA ShowTaken ==
  ASSUME OneWorker, JobInv, ShowInv, NEW w \in Workers, Take(w) \/ FailJob(w)
  PROVE  ShowInv'
  <1> USE DEF JobInv, BaseInv
  <1> SUFFICES ASSUME adrift' = {} PROVE Shows' /\ \A v \in Workers : WorkShown(v)'
    BY DEF ShowInv
  <1>1. UNCHANGED <<meeting, last, name>>
        /\ (UNCHANGED adrift \/ adrift' = adrift \cup {"unwritten"})
    BY DEF Take, FailJob
  <1>2. Shows
    BY <1>1 DEF ShowInv
  <1>3. (\A j \in Jobs : Pending(j) => Pending(j)') /\ run'[w].pc \in {"mark", "told"}
    <2>1. CASE Take(w)
      <3>1. PICK j \in Jobs : /\ entry[j] = "waiting"
                              /\ entry' = [entry EXCEPT ![j] = "active"]
                              /\ Go(w, [Idle EXCEPT !.job = j, !.pc = "mark"])
        BY <2>1 DEF Take
      <3> DEFINE r == [Idle EXCEPT !.job = j, !.pc = "mark"]
      <3>2. r \in Attempt /\ r.pc = "mark" /\ Go(w, r)
        BY <3>1, IdleIs DEF Steps
      <3> HIDE DEF r
      <3>3. run'[w].pc = "mark"
        BY <3>2, GoDoes
      <3>4. \A i \in Jobs : entry'[i] = IF i = j THEN "active" ELSE entry[i]
        BY <3>1, JobSets, ZenonT(60)
      <3> QED
        BY <1>1, <3>1, <3>3, <3>4 DEF Pending
    <2>2. CASE FailJob(w)
      <3>1. PICK r : Moves(w, r) /\ r.pc = "told"
        BY <2>2, StepDoes
      <3>2. run'[w].pc = "told"
        BY <3>1, RunMoves
      <3>3. UNCHANGED entry
        BY <2>2 DEF FailJob
      <3> QED
        BY <1>1, <3>2, <3>3 DEF Pending
    <2> QED
      BY <2>1, <2>2
  <1>4. Shows'
    BY <1>1, <1>2, <1>3, ShowsKept
  <1>5. \A v \in Workers : WorkShown(v)'
    BY <1>3 DEF OneWorker, WorkShown, At
  <1> QED
    BY <1>4, <1>5

LEMMA ShowStep ==
  ASSUME OneWorker, JobInv, ShowInv, [Next]_vars
  PROVE  ShowInv'
  <1>1. CASE UNCHANGED <<meeting, name, entry, run, last, adrift>>
    BY <1>1 DEF ShowInv, Shows, Pending, WorkShown, At, NameOf
  <1>2. CASE UNCHANGED vars
    BY <1>1, <1>2 DEF vars, jobVars
  <1>3. CASE People
    BY <1>1, <1>3, PeopleDo DEF JobInv
  <1>4. ASSUME NEW j \in Jobs, Stalled(j) \/ \E n \in Requests : Request(j, n) PROVE ShowInv'
    BY <1>4, ShowAsked
  <1>5. ASSUME NEW w \in Workers, Work(w) PROVE ShowInv'
    BY <1>5, ShowTaken, ShowClosed, ShowWorks
  <1>6. ASSUME NEW w \in Workers, Faulty(w) PROVE ShowInv'
    BY <1>6, ShowTaken, ShowLeft DEF Faulty
  <1> QED
    BY <1>2, <1>3, <1>4, <1>5, <1>6 DEF Next

(* Once no job is left the meeting shows how its last processing job ended: *)
(* whatever an attempt made of the meeting, its job is pending until the    *)
(* meeting was told of the end, or another job waits that will tell it.     *)
THEOREM LastOutcomeShown ==
  ASSUME \A v, w \in Workers : v = w
  PROVE  Spec => []ShowsTheOutcome
  <1>1. OneWorker
    BY DEF OneWorker
  <1>2. Init => ShowInv
    BY IdleIs DEF Init, ShowInv, Shows, WorkShown, At
  <1>3. JobInv /\ ShowInv /\ [Next]_vars => ShowInv'
    BY <1>1, ShowStep
  <1>4. Spec => []ShowInv
    BY <1>2, <1>3, JobHolds, PTL DEF Spec
  <1>5. ShowInv => ShowsTheOutcome
    BY DEF ShowInv, Shows, Pending, ShowsTheOutcome, Quiet
  <1> QED
    BY <1>4, <1>5, PTL
=============================================================================
