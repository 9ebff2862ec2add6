--------------------------- MODULE Capture_proofs ---------------------------
(***************************************************************************)
(* Proofs about a capture on both sides of the upload: the queue in the    *)
(* browser (RecordingQueue) and the route that takes the upload            *)
(* (CaptureIngest).  The two share no state; a theorem is about one of     *)
(* them, for every value of its constants.                                 *)
(*                                                                         *)
(* The queue: types; that a chunk once written is in the browser or at the *)
(* server; that what is uploaded is the whole recording; and that what     *)
(* left the browser does not come back.  The route: types; that an upload  *)
(* answered is stored and queued; that retries record one job; and that no *)
(* object is left in the store that nothing names.                         *)
(***************************************************************************)
EXTENDS CaptureIngest, RecordingQueue, FiniteSetTheorems, TLAPS

-----------------------------------------------------------------------------
(* The queue in the browser.                                                *)

(* Where a capture's audio is once its chunks may go.                       *)
Safe(c) == Queued(c) \/ stored[c] # {} \/ c \in attached \cup discarded

(* A recording has chunks once it began, and runs in an open tab.           *)
RecorderFact(c) ==
  /\ rec[c] = "unused" <=> made[c] = 0
  /\ rec[c] = "unused" => chunks[c] = {}
  /\ rec[c] = "recording" => home[c] \in open

(* What is in the browser or at the server is the whole of a recording.     *)
CaptureFact(c) ==
  c \notin raced =>
    /\ chunks[c] = 1..made[c] \/ (chunks[c] = {} /\ rec[c] = "over" /\ Safe(c))
    /\ Queued(c) => rec[c] = "over" /\ item[c].blob = 1..made[c]
    /\ stored[c] # {} => rec[c] = "over" /\ stored[c] = 1..made[c]
    /\ c \in attached \cup discarded => rec[c] = "over"

(* A capture that a tab may recover: ended, or another tab's.               *)
Recoverable(t, c) == rec[c] = "over" \/ (rec[c] = "recording" /\ home[c] # t)

(* What a task read before its next step, a later step has not undone.     *)
TaskFact(t, k) ==
  LET w == task[t][k] IN
  /\ w.at # "idle" => w.c \in Captures /\ t \in open
  /\ \A c \in w.todo : Recoverable(t, c)
  /\ w.at \in {"get", "list"} => Recoverable(t, w.c)
  /\ w.at \in {"put", "drop", "direct"} => w.c \in raced \/ rec[w.c] = "over"
  /\ w.at = "put" => w.c \in raced \/ w.got = 1..made[w.c]
  /\ w.at = "drop" => w.c \in raced \/ Safe(w.c)
  /\ w.at \in {"erase", "wipe"} => w.c \in attached \cup discarded

(* An upload under way carries the whole of a recording, and what was       *)
(* answered is stored.                                                      *)
FlushFact(t) ==
  LET f == flush[t] IN
  /\ f.at # "off" => t \in open
  /\ f.at \in {"sent", "answered", "drop"} =>
       /\ f.c \in Captures
       /\ f.c \notin raced =>
            /\ rec[f.c] = "over"
            /\ f.at # "drop" => f.copy = 1..made[f.c]
            /\ f.at # "sent" => stored[f.c] # {}

(* The inductive invariant of the queue.                                    *)
RecordingInv ==
  /\ RecordingTypeOK
  /\ \A c \in Captures : RecorderFact(c) /\ CaptureFact(c)
  /\ \A t \in Tabs : FlushFact(t) /\ \A k \in Tasks : TaskFact(t, k)

-----------------------------------------------------------------------------
(* Types of the pieces.                                                     *)
LEMMA RestTypes == Idle \in Task /\ NoFlush \in Flushing
  BY DEF Idle, Task, NoFlush, Flushing, Blob

(* A step of one task, and a task that only moves on.                       *)
TasksOnly(t, k) ==
  /\ task' \in [Tabs -> [Tasks -> Task]]
  /\ \A s \in Tabs, j \in Tasks : (s # t \/ j # k) => task'[s][j] = task[s][j]

MovesOn(t, k, where) ==
  /\ TasksOnly(t, k)
  /\ task'[t][k].at = where /\ task'[t][k].c = task[t][k].c
  /\ task'[t][k].todo = task[t][k].todo /\ task'[t][k].got = task[t][k].got

TaskPlaces == {"idle", "get", "list", "put", "drop", "direct", "erase", "wipe"}

LEMMA TaskSet ==
  ASSUME RecordingTypeOK, NEW t \in Tabs, NEW k \in Tasks, NEW w \in Task,
         task' = [task EXCEPT ![t][k] = w]
  PROVE  TasksOnly(t, k) /\ task'[t][k] = w
  BY DEF RecordingTypeOK, TasksOnly

LEMMA TaskMoves ==
  ASSUME RecordingTypeOK, NEW t \in Tabs, NEW k \in Tasks, NEW where \in TaskPlaces,
         TaskTo(t, k, where)
  PROVE  MovesOn(t, k, where)
  <1> DEFINE w == [task[t][k] EXCEPT !.at = where]
  <1>1. task[t][k] \in Task
    BY DEF RecordingTypeOK
  <1>2. w \in Task /\ w.at = where /\ w.c = task[t][k].c /\ w.todo = task[t][k].todo
        /\ w.got = task[t][k].got
    BY <1>1 DEF Task, TaskPlaces
  <1>3. task' = [task EXCEPT ![t][k] = w]
    BY DEF TaskTo
  <1> QED
    BY <1>2, <1>3, TaskSet, ZenonT(60) DEF MovesOn

(* A flush of a tab begins, goes on or ends, or is left alone.              *)
FlushRests(t) ==
  /\ flush' \in [Tabs -> Flushing] /\ timer' \subseteq open \cup {t}
  /\ \A s \in Tabs : flush'[s] = flush[s] \/ (s = t /\ flush'[s].at \in {"off", "pick"})

LEMMA NotifyTypes ==
  ASSUME RecordingTypeOK, NEW t \in Tabs, Notify(t)
  PROVE  timer' \subseteq open \cup {t}
  BY DEF RecordingTypeOK, Notify

LEMMA ContinueRests ==
  ASSUME RecordingTypeOK, NEW t \in Tabs, NEW force \in BOOLEAN,
         NEW left \in SUBSET Captures, Continue(t, force, left)
  PROVE  FlushRests(t)
  <1>1. CASE left = {}
    <2>1. flush' = [flush EXCEPT ![t] = NoFlush] /\ Notify(t)
      BY <1>1 DEF Continue
    <2> QED
      BY <2>1, RestTypes, NotifyTypes DEF RecordingTypeOK, FlushRests, NoFlush
  <1>2. CASE left # {}
    <2> DEFINE f == [NoFlush EXCEPT !.at = "pick", !.force = force, !.todo = left]
    <2>1. flush' = [flush EXCEPT ![t] = f] /\ timer' = timer
      BY <1>2 DEF Continue
    <2>2. f \in Flushing /\ f.at = "pick"
      BY RestTypes DEF Flushing, NoFlush
    <2> QED
      BY <2>1, <2>2 DEF RecordingTypeOK, FlushRests
  <1> QED
    BY <1>1, <1>2

LEMMA StartRests ==
  ASSUME RecordingTypeOK, NEW t \in Tabs, NEW force \in BOOLEAN,
         StartFlush(t, force)
  PROVE  FlushRests(t)
  <1>1. Listed(force) \in SUBSET Captures
    BY DEF Listed
  <1>2. CASE flush[t].at = "off"
    BY <1>1, <1>2, ContinueRests DEF StartFlush
  <1>3. CASE flush[t].at # "off"
    BY <1>3 DEF StartFlush, FlushRests, RecordingTypeOK
  <1> QED
    BY <1>2, <1>3

LEMMA LeaveRests ==
  ASSUME RecordingTypeOK, NEW t \in Tabs, NEW c \in Captures, Leave(t, c)
  PROVE  FlushRests(t)
  <1> DEFINE left == IF item'[c] # NoItem /\ item'[c].st = "paused-auth" THEN {} ELSE flush[t].todo \ {c}
  <1>1. flush[t].force \in BOOLEAN /\ left \in SUBSET Captures
    BY DEF RecordingTypeOK, Flushing
  <1>2. Continue(t, flush[t].force, left)
    BY DEF Leave
  <1> QED
    BY <1>1, <1>2, ContinueRests

(* The end of an assembly: on to the meeting, the next capture, or a flush. *)
AssembledTo(t, k) ==
  /\ TasksOnly(t, k)
  /\ \/ task'[t][k].at = "direct" /\ task'[t][k].c = task[t][k].c /\ task'[t][k].todo = task[t][k].todo
     \/ task'[t][k].at = "get" /\ task'[t][k].c \in task[t][k].todo
        /\ task'[t][k].todo \subseteq task[t][k].todo
     \/ task'[t][k] = Idle

LEMMA AssembleTo ==
  ASSUME RecordingTypeOK, NEW t \in Tabs, NEW k \in Tasks, NEW found \in SUBSET Captures,
         Assemble(t, k, found)
  PROVE  /\ TasksOnly(t, k) /\ task'[t][k].at = "get" /\ task'[t][k].c \in found
         /\ task'[t][k].todo \subseteq found
  <1>1. PICK c \in found : task' = [task EXCEPT ![t][k] = [Idle EXCEPT !.at = "get", !.c = c, !.todo = found \ {c}]]
    BY DEF Assemble
  <1> DEFINE w == [Idle EXCEPT !.at = "get", !.c = c, !.todo = found \ {c}]
  <1>2. w \in Task /\ w.at = "get" /\ w.c = c /\ w.todo = found \ {c}
    BY RestTypes DEF Idle, Task
  <1>3. TasksOnly(t, k) /\ task'[t][k] = w
    <2>1. task' = [task EXCEPT ![t][k] = w]
      BY <1>1
    <2> HIDE DEF w
    <2> QED
      BY <1>2, <2>1, TaskSet, ZenonT(60)
  <1> QED
    BY <1>2, <1>3

LEMMA AssembledEffect ==
  ASSUME RecordingTypeOK, NEW t \in Tabs, NEW k \in Tasks, Assembled(t, k)
  PROVE  AssembledTo(t, k) /\ FlushRests(t)
  <1>1. CASE k = "stop" /\ task[t][k].c \in Direct
    <2>1. TaskTo(t, k, "direct") /\ UNCHANGED flush /\ Notify(t)
      BY <1>1 DEF Assembled
    <2>2. MovesOn(t, k, "direct")
      BY <2>1, TaskMoves DEF TaskPlaces
    <2> QED
      BY <2>1, <2>2, NotifyTypes DEF MovesOn, AssembledTo, FlushRests, RecordingTypeOK
  <1>2. CASE k = "mount" /\ task[t][k].todo # {}
    <2>1. Assemble(t, k, task[t][k].todo) /\ UNCHANGED flush /\ Notify(t)
      BY <1>2 DEF Assembled
    <2>2. task[t][k].todo \in SUBSET Captures
      BY DEF RecordingTypeOK, Task
    <2> QED
      BY <2>1, <2>2, AssembleTo, NotifyTypes DEF AssembledTo, FlushRests, RecordingTypeOK
  <1>3. CASE /\ ~(k = "stop" /\ task[t][k].c \in Direct)
             /\ ~(k = "mount" /\ task[t][k].todo # {})
    <2>1. task' = [task EXCEPT ![t][k] = Idle] /\ StartFlush(t, k = "stop")
      BY <1>3 DEF Assembled
    <2>2. (k = "stop") \in BOOLEAN
      OBVIOUS
    <2> QED
      BY <2>1, <2>2, RestTypes, TaskSet, StartRests, ZenonT(60) DEF AssembledTo
  <1> QED
    BY <1>1, <1>2, <1>3

-----------------------------------------------------------------------------
(* What no step takes back.                                                 *)
Ages ==
  /\ home' = home /\ raced \subseteq raced'
  /\ attached \subseteq attached' /\ discarded \subseteq discarded'
  /\ \A c \in Captures :
       /\ rec[c] = "over" => rec'[c] = "over" /\ made'[c] = made[c]
       /\ rec[c] = "recording" => rec'[c] \in {"recording", "over"}
       /\ stored[c] # {} => stored'[c] = stored[c]
       /\ c \notin raced /\ Safe(c) => Safe(c)'

LEMMA TaskStays ==
  ASSUME RecordingTypeOK, Ages, NEW t \in Tabs, NEW k \in Tasks, TaskFact(t, k),
         task'[t][k] = task[t][k], task[t][k].at # "idle" => t \in open'
  PROVE  TaskFact(t, k)'
  <1>1. task[t][k].todo \subseteq Captures
    BY DEF RecordingTypeOK, Task
  <1>2. \A c \in Captures : Recoverable(t, c) => Recoverable(t, c)'
    BY DEF Ages, Recoverable
  <1> QED
    BY <1>1, <1>2, ZenonT(60) DEF Ages, TaskFact

LEMMA FlushStays ==
  ASSUME Ages, NEW t \in Tabs, FlushFact(t), flush'[t] = flush[t],
         flush[t].at # "off" => t \in open'
  PROVE  FlushFact(t)'
  BY DEF Ages, FlushFact

LEMMA FlushesRest ==
  ASSUME RecordingInv, Ages, NEW t \in Tabs, t \in open', FlushRests(t), open \subseteq open'
  PROVE  \A s \in Tabs : FlushFact(s)'
  <1> SUFFICES ASSUME NEW s \in Tabs PROVE FlushFact(s)'
    OBVIOUS
  <1>1. CASE flush'[s] = flush[s]
    BY <1>1, FlushStays DEF RecordingInv, FlushFact
  <1>2. CASE s = t /\ flush'[s].at \in {"off", "pick"}
    BY <1>2 DEF FlushFact
  <1> QED
    BY <1>1, <1>2 DEF FlushRests

LEMMA OtherTasksStay ==
  ASSUME RecordingInv, Ages, NEW t \in Tabs, NEW k \in Tasks, TasksOnly(t, k),
         TaskFact(t, k)', open \subseteq open'
  PROVE  \A s \in Tabs, j \in Tasks : TaskFact(s, j)'
  <1> SUFFICES ASSUME NEW s \in Tabs, NEW j \in Tasks, s # t \/ j # k PROVE TaskFact(s, j)'
    OBVIOUS
  <1>1. task'[s][j] = task[s][j] /\ TaskFact(s, j) /\ RecordingTypeOK
    BY DEF TasksOnly, RecordingInv
  <1>2. task[s][j].at # "idle" => s \in open'
    BY <1>1 DEF TaskFact
  <1> QED
    BY <1>1, <1>2, TaskStays

(* A step that leaves recordings, storage and server alone.                 *)
Same ==
  /\ UNCHANGED <<chunks, item, rec, home, made, stored, attached, discarded>>
  /\ raced \subseteq raced' /\ open \subseteq open'

LEMMA SameAges ==
  ASSUME RecordingInv, Same
  PROVE  Ages /\ \A c \in Captures : RecorderFact(c)' /\ CaptureFact(c)'
  <1>1. Ages
    BY DEF Same, Ages, Safe, Queued
  <1>2. ASSUME NEW c \in Captures PROVE RecorderFact(c)' /\ CaptureFact(c)'
    <2>1. RecorderFact(c) /\ CaptureFact(c)
      BY DEF RecordingInv
    <2> QED
      BY <2>1 DEF Same, RecorderFact, CaptureFact, Safe, Queued
  <1> QED
    BY <1>1, <1>2

-----------------------------------------------------------------------------
(* A flush.                                                                 *)
LEMMA PickStep ==
  ASSUME RecordingInv, NEW t \in Tabs, NEW c \in Captures, Pick(t, c)
  PROVE  RecordingInv'
  <1>1. /\ flush[t].at = "pick" /\ t \in open /\ RecordingTypeOK
        /\ UNCHANGED <<chunks, item, rec, home, made, open, task, signedIn, stored, attached,
                       discarded, raced, mishaps>>
    BY DEF Pick, RecordingInv, FlushFact, recorder, server, history
  <1>2. Ages /\ \A d \in Captures : RecorderFact(d)' /\ CaptureFact(d)'
    BY <1>1, SameAges DEF Same
  <1>3. \A s \in Tabs, k \in Tasks : TaskFact(s, k)'
    BY <1>1, <1>2, TaskStays DEF RecordingInv, TaskFact
  <1>4. CASE Due(c, flush[t].force)
    <2> DEFINE f == [flush[t] EXCEPT !.at = "sent", !.c = c, !.copy = item[c].blob]
    <2>1. flush' = [flush EXCEPT ![t] = f] /\ Notify(t)
      BY <1>4 DEF Pick
    <2>2. Queued(c) /\ item[c] \in Item
      BY <1>1, <1>4 DEF Due, Queued, RecordingTypeOK
    <2>3. f \in Flushing /\ f.at = "sent" /\ f.c = c /\ f.copy = item[c].blob
      <3>1. flush[t] \in Flushing /\ item[c].blob \in Blob
        BY <1>1, <2>2 DEF RecordingTypeOK, Item
      <3> QED
        BY <3>1 DEF Flushing
    <2>4. flush' \in [Tabs -> Flushing] /\ flush'[t] = f /\ \A s \in Tabs : s # t => flush'[s] = flush[s]
      BY <1>1, <2>1, <2>3 DEF RecordingTypeOK
    <2>5. RecordingTypeOK'
      BY <1>1, <2>1, <2>4, NotifyTypes DEF RecordingTypeOK
    <2>6. c \notin raced => rec[c] = "over" /\ item[c].blob = 1..made[c]
      BY <2>2 DEF RecordingInv, CaptureFact
    <2>7. FlushFact(t)'
      BY <1>1, <2>3, <2>4, <2>6 DEF FlushFact
    <2>8. \A s \in Tabs : s # t => FlushFact(s)'
      BY <1>1, <1>2, <2>4, FlushStays DEF RecordingInv, FlushFact
    <2> QED
      BY <1>2, <1>3, <2>5, <2>7, <2>8 DEF RecordingInv
  <1>5. CASE ~Due(c, flush[t].force)
    <2>1. FlushRests(t)
      BY <1>1, <1>5, LeaveRests DEF Pick
    <2>2. RecordingTypeOK'
      BY <1>1, <2>1 DEF RecordingTypeOK, FlushRests
    <2>3. \A s \in Tabs : FlushFact(s)'
      BY <1>1, <1>2, <2>1, FlushesRest
    <2> QED
      BY <1>2, <1>3, <2>2, <2>3 DEF RecordingInv
  <1> QED
    BY <1>4, <1>5

(* What a flush that is at the server knows of its capture.                 *)
LEMMA Flushed ==
  ASSUME RecordingInv, NEW t \in Tabs, flush[t].at \in {"sent", "answered", "drop"}
  PROVE  /\ t \in open /\ flush[t] \in Flushing /\ flush[t].c \in Captures
         /\ flush[t].c \notin raced =>
              /\ rec[flush[t].c] = "over"
              /\ flush[t].at # "drop" => flush[t].copy = 1..made[flush[t].c]
              /\ flush[t].at # "sent" => stored[flush[t].c] # {}
  BY DEF RecordingInv, FlushFact, RecordingTypeOK

LEMMA MadeSome ==
  ASSUME RecordingInv, NEW c \in Captures, rec[c] # "unused"
  PROVE  made[c] \in Nat /\ 1..made[c] # {}
  <1>1. made[c] \in Nat /\ made[c] # 0
    BY QueueAssumption DEF RecordingInv, RecorderFact, RecordingTypeOK
  <1>2. 1 \in 1..made[c]
    BY <1>1
  <1> QED
    BY <1>1, <1>2

LEMMA AcceptStep ==
  ASSUME RecordingInv, NEW t \in Tabs, Accept(t)
  PROVE  RecordingInv'
  <1> DEFINE c == flush[t].c
             f == [flush[t] EXCEPT !.at = "answered"]
  <1>1. /\ flush[t].at = "sent" /\ RecordingTypeOK
        /\ stored' = [stored EXCEPT ![c] = IF @ = {} THEN flush[t].copy ELSE @]
        /\ flush' = [flush EXCEPT ![t] = f]
        /\ UNCHANGED <<chunks, item, rec, home, made, open, task, timer, signedIn, attached,
                       discarded, raced, mishaps>>
    BY DEF Accept, RecordingInv, recorder, history
  <1>2. /\ t \in open /\ flush[t] \in Flushing /\ c \in Captures
        /\ c \notin raced => rec[c] = "over" /\ flush[t].copy = 1..made[c]
    BY <1>1, Flushed
  <1>3. f \in Flushing /\ f.at = "answered" /\ f.c = c /\ f.copy = flush[t].copy
    BY <1>2 DEF Flushing
  <1>4. flush' \in [Tabs -> Flushing] /\ flush'[t] = f /\ \A s \in Tabs : s # t => flush'[s] = flush[s]
    BY <1>1, <1>3 DEF RecordingTypeOK
  <1>5. /\ stored' \in [Captures -> Blob]
        /\ stored'[c] = IF stored[c] = {} THEN flush[t].copy ELSE stored[c]
        /\ \A d \in Captures : d # c => stored'[d] = stored[d]
    <2>1. flush[t].copy \in Blob
      BY <1>2 DEF Flushing
    <2> QED
      BY <1>1, <1>2, <2>1 DEF RecordingTypeOK
  <1>6. RecordingTypeOK'
    BY <1>1, <1>4, <1>5 DEF RecordingTypeOK
  <1>7. c \notin raced => stored'[c] = 1..made[c] /\ stored'[c] # {}
    <2>1. c \notin raced /\ stored[c] # {} => stored[c] = 1..made[c]
      BY <1>2 DEF RecordingInv, CaptureFact
    <2>2. c \notin raced => 1..made[c] # {}
      BY <1>2, MadeSome
    <2> QED
      BY <1>2, <1>5, <2>1, <2>2
  <1>8. Ages
    BY <1>1, <1>5 DEF Ages, Safe, Queued
  <1>9. ASSUME NEW d \in Captures PROVE RecorderFact(d)' /\ CaptureFact(d)'
    <2>1. RecorderFact(d) /\ CaptureFact(d)
      BY DEF RecordingInv
    <2>2. CASE d = c
      BY <1>1, <1>2, <1>7, <2>1, <2>2 DEF RecorderFact, CaptureFact, Safe, Queued
    <2>3. CASE d # c
      BY <1>1, <1>5, <2>1, <2>3 DEF RecorderFact, CaptureFact, Safe, Queued
    <2> QED
      BY <2>2, <2>3
  <1>10. \A s \in Tabs, k \in Tasks : TaskFact(s, k)'
    BY <1>1, <1>8, TaskStays DEF RecordingInv, TaskFact
  <1>11. FlushFact(t)'
    BY <1>1, <1>2, <1>3, <1>4, <1>7 DEF FlushFact
  <1>12. \A s \in Tabs : s # t => FlushFact(s)'
    BY <1>1, <1>4, <1>8, FlushStays DEF RecordingInv, FlushFact
  <1> QED
    BY <1>6, <1>9, <1>10, <1>11, <1>12 DEF RecordingInv

(* An outcome that is written back: the copy is the whole recording.        *)
LEMMA KeepStep ==
  ASSUME RecordingInv, NEW t \in Tabs, flush[t].at \in {"sent", "answered"},
         NEW status \in {"pending", "paused-auth", "failed-permanent"},
         NEW next \in {"none", "later", "due"},
         Keep(t, status, next), mishaps' \in 0..MaxMishaps,
         UNCHANGED <<chunks, recorder, open, task, signedIn, server, history>>
  PROVE  RecordingInv'
  <1> DEFINE c == flush[t].c
             i == [blob |-> flush[t].copy, st |-> status, next |-> next]
  <1>1. /\ RecordingTypeOK
        /\ UNCHANGED <<chunks, rec, home, made, open, task, signedIn, stored, attached,
                       discarded, raced>>
    BY DEF RecordingInv, recorder, server, history
  <1>2. /\ t \in open /\ flush[t] \in Flushing /\ c \in Captures
        /\ c \notin raced => rec[c] = "over" /\ flush[t].copy = 1..made[c]
    BY Flushed
  <1>3. i \in Item /\ i # NoItem /\ i.blob = flush[t].copy
    BY <1>2, NullAssumption DEF Flushing, Item
  <1>4. item' = [item EXCEPT ![c] = i] /\ FlushRests(t)
    BY <1>1, <1>2, LeaveRests DEF Keep
  <1>5. /\ item' \in [Captures -> Item \cup {NoItem}] /\ item'[c] = i
        /\ \A d \in Captures : d # c => item'[d] = item[d]
    BY <1>1, <1>2, <1>3, <1>4 DEF RecordingTypeOK
  <1>6. RecordingTypeOK'
    BY <1>1, <1>2, <1>4, <1>5 DEF RecordingTypeOK, FlushRests
  <1>7. Ages
    BY <1>1, <1>3, <1>5 DEF Ages, Safe, Queued
  <1>8. ASSUME NEW d \in Captures PROVE RecorderFact(d)' /\ CaptureFact(d)'
    <2>1. RecorderFact(d) /\ CaptureFact(d)
      BY DEF RecordingInv
    <2>2. CASE d = c
      BY <1>1, <1>2, <1>3, <1>5, <2>1, <2>2 DEF RecorderFact, CaptureFact, Safe, Queued
    <2>3. CASE d # c
      BY <1>1, <1>5, <2>1, <2>3 DEF RecorderFact, CaptureFact, Safe, Queued
    <2> QED
      BY <2>2, <2>3
  <1>9. \A s \in Tabs, k \in Tasks : TaskFact(s, k)'
    BY <1>1, <1>7, TaskStays DEF RecordingInv, TaskFact
  <1>10. \A s \in Tabs : FlushFact(s)'
    BY <1>1, <1>2, <1>4, <1>7, FlushesRest
  <1> QED
    BY <1>6, <1>8, <1>9, <1>10 DEF RecordingInv

LEMMA MishapTypes ==
  ASSUME RecordingTypeOK, Mishap \/ UNCHANGED mishaps
  PROVE  mishaps' \in 0..MaxMishaps
  BY QueueAssumption DEF RecordingTypeOK, Mishap

LEMMA RefuseStep ==
  ASSUME RecordingInv, NEW t \in Tabs, Refuse(t)
  PROVE  RecordingInv'
  <1>1. UNCHANGED <<chunks, recorder, open, task, signedIn, server, history>>
    BY DEF Refuse
  <1>2. RecordingTypeOK
    BY DEF RecordingInv
  <1>3. CASE flush[t].at = "sent" /\ Keep(t, "paused-auth", "none") /\ UNCHANGED mishaps
    BY <1>1, <1>2, <1>3, MishapTypes, KeepStep
  <1>4. CASE flush[t].at = "sent" /\ Mishap /\ Keep(t, "failed-permanent", "none")
    BY <1>1, <1>2, <1>4, MishapTypes, KeepStep
  <1>5. CASE flush[t].at \in {"sent", "answered"} /\ Mishap /\ Keep(t, "pending", "later")
    BY <1>1, <1>2, <1>5, MishapTypes, KeepStep
  <1> QED
    BY <1>3, <1>4, <1>5 DEF Refuse

(* Once the server has a capture, its item and its chunks may go.           *)
LEMMA DropItemStep ==
  ASSUME RecordingInv, NEW t \in Tabs, DropItem(t)
  PROVE  RecordingInv'
  <1> DEFINE c == flush[t].c
             f == [flush[t] EXCEPT !.at = "drop"]
  <1>1. /\ flush[t].at = "answered" /\ RecordingTypeOK
        /\ item' = [item EXCEPT ![c] = NoItem]
        /\ flush' = [flush EXCEPT ![t] = f]
        /\ UNCHANGED <<chunks, rec, home, made, open, task, timer, signedIn, stored, attached,
                       discarded, raced, mishaps>>
    BY DEF DropItem, RecordingInv, recorder, server, history
  <1>2. /\ t \in open /\ flush[t] \in Flushing /\ c \in Captures
        /\ c \notin raced => rec[c] = "over" /\ stored[c] # {}
    BY <1>1, Flushed
  <1>3. f \in Flushing /\ f.at = "drop" /\ f.c = c
    BY <1>2 DEF Flushing
  <1>4. flush' \in [Tabs -> Flushing] /\ flush'[t] = f /\ \A s \in Tabs : s # t => flush'[s] = flush[s]
    BY <1>1, <1>3 DEF RecordingTypeOK
  <1>5. /\ item' \in [Captures -> Item \cup {NoItem}] /\ item'[c] = NoItem
        /\ \A d \in Captures : d # c => item'[d] = item[d]
    BY <1>1, <1>2 DEF RecordingTypeOK
  <1>6. RecordingTypeOK'
    BY <1>1, <1>4, <1>5 DEF RecordingTypeOK
  <1>7. Ages
    BY <1>1, <1>2, <1>5 DEF Ages, Safe, Queued
  <1>8. ASSUME NEW d \in Captures PROVE RecorderFact(d)' /\ CaptureFact(d)'
    <2>1. RecorderFact(d) /\ CaptureFact(d)
      BY DEF RecordingInv
    <2>2. CASE d = c
      BY <1>1, <1>2, <1>5, <2>1, <2>2 DEF RecorderFact, CaptureFact, Safe, Queued
    <2>3. CASE d # c
      BY <1>1, <1>5, <2>1, <2>3 DEF RecorderFact, CaptureFact, Safe, Queued
    <2> QED
      BY <2>2, <2>3
  <1>9. \A s \in Tabs, k \in Tasks : TaskFact(s, k)'
    BY <1>1, <1>7, TaskStays DEF RecordingInv, TaskFact
  <1>10. FlushFact(t)'
    BY <1>1, <1>2, <1>3, <1>4 DEF FlushFact
  <1>11. \A s \in Tabs : s # t => FlushFact(s)'
    BY <1>1, <1>4, <1>7, FlushStays DEF RecordingInv, FlushFact
  <1> QED
    BY <1>6, <1>8, <1>9, <1>10, <1>11 DEF RecordingInv

(* Chunks that go: of a capture that is over and safe, or that was raced.   *)
LEMMA ChunksGo ==
  ASSUME RecordingInv, NEW c \in Captures, chunks' = [chunks EXCEPT ![c] = {}],
         c \notin raced => rec[c] = "over" /\ Safe(c),
         UNCHANGED <<item, rec, home, made, open, signedIn, stored, attached, discarded, raced,
                     mishaps>>
  PROVE  /\ Ages /\ chunks' \in [Captures -> Blob]
         /\ \A d \in Captures : RecorderFact(d)' /\ CaptureFact(d)'
  <1>1. chunks' \in [Captures -> Blob] /\ chunks'[c] = {} /\ \A d \in Captures : d # c => chunks'[d] = chunks[d]
    BY DEF RecordingInv, RecordingTypeOK, Blob
  <1>2. Ages
    BY DEF Ages, Safe, Queued
  <1>3. ASSUME NEW d \in Captures PROVE RecorderFact(d)' /\ CaptureFact(d)'
    <2>1. RecorderFact(d) /\ CaptureFact(d)
      BY DEF RecordingInv
    <2>2. CASE d = c
      BY <1>1, <2>1, <2>2 DEF RecorderFact, CaptureFact, Safe, Queued
    <2>3. CASE d # c
      BY <1>1, <2>1, <2>3 DEF RecorderFact, CaptureFact, Safe, Queued
    <2> QED
      BY <2>2, <2>3
  <1> QED
    BY <1>1, <1>2, <1>3

LEMMA DropChunksStep ==
  ASSUME RecordingInv, NEW t \in Tabs, DropChunks(t)
  PROVE  RecordingInv'
  <1> DEFINE c == flush[t].c
  <1>1. /\ flush[t].at = "drop" /\ RecordingTypeOK /\ Leave(t, c)
        /\ chunks' = [chunks EXCEPT ![c] = {}]
        /\ UNCHANGED <<item, rec, home, made, open, task, signedIn, stored, attached,
                       discarded, raced, mishaps>>
    BY DEF DropChunks, RecordingInv, recorder, server, history
  <1>2. t \in open /\ c \in Captures /\ (c \notin raced => rec[c] = "over" /\ stored[c] # {})
    BY <1>1, Flushed
  <1>3. /\ Ages /\ chunks' \in [Captures -> Blob]
        /\ \A d \in Captures : RecorderFact(d)' /\ CaptureFact(d)'
    BY <1>1, <1>2, ChunksGo DEF Safe
  <1>4. FlushRests(t)
    BY <1>1, <1>2, LeaveRests
  <1>5. RecordingTypeOK'
    BY <1>1, <1>2, <1>3, <1>4 DEF RecordingTypeOK, FlushRests
  <1>6. \A s \in Tabs, k \in Tasks : TaskFact(s, k)'
    BY <1>1, <1>3, TaskStays DEF RecordingInv, TaskFact
  <1>7. \A s \in Tabs : FlushFact(s)'
    BY <1>1, <1>2, <1>3, <1>4, FlushesRest
  <1> QED
    BY <1>3, <1>5, <1>6, <1>7 DEF RecordingInv

-----------------------------------------------------------------------------
(* A storage task.                                                          *)
LEMMA Tasked ==
  ASSUME RecordingInv, NEW t \in Tabs, NEW k \in Tasks, task[t][k].at # "idle"
  PROVE  /\ RecordingTypeOK /\ t \in open /\ task[t][k] \in Task /\ task[t][k].c \in Captures
         /\ TaskFact(t, k)
  BY DEF RecordingInv, TaskFact, RecordingTypeOK

LEMMA GetStep ==
  ASSUME RecordingInv, NEW t \in Tabs, NEW k \in Tasks, Get(t, k)
  PROVE  RecordingInv'
  <1> DEFINE c == task[t][k].c
             where == IF Queued(c) THEN "drop" ELSE "list"
  <1>1. /\ task[t][k].at = "get" /\ TaskTo(t, k, where)
        /\ UNCHANGED <<chunks, item, rec, home, made, open, flush, timer, signedIn, stored,
                       attached, discarded, raced, mishaps>>
    BY DEF Get, TaskAt, recorder, server, history
  <1>2. RecordingTypeOK /\ t \in open /\ c \in Captures /\ TaskFact(t, k)
    BY <1>1, Tasked
  <1>3. MovesOn(t, k, where)
    BY <1>1, <1>2, TaskMoves DEF TaskPlaces
  <1>4. Ages /\ \A d \in Captures : RecorderFact(d)' /\ CaptureFact(d)'
    BY <1>1, SameAges DEF Same
  <1>5. RecordingTypeOK'
    BY <1>1, <1>2, <1>3 DEF RecordingTypeOK, MovesOn, TasksOnly
  <1>6. TaskFact(t, k)'
    <2>1. CaptureFact(c)
      BY <1>2 DEF RecordingInv
    <2>2. task[t][k].todo \subseteq Captures
      BY <1>2 DEF RecordingTypeOK, Task
    <2>3. \A d \in Captures : Recoverable(t, d) => Recoverable(t, d)'
      BY <1>1 DEF Recoverable
    <2>4. Recoverable(t, c)
      BY <1>1, <1>2 DEF TaskFact
    <2>5. CASE Queued(c)
      BY <1>1, <1>2, <1>3, <2>1, <2>2, <2>3, <2>5
      DEF TaskFact, MovesOn, CaptureFact, Safe, Queued
    <2>6. CASE ~Queued(c)
      BY <1>1, <1>2, <1>3, <2>2, <2>3, <2>4, <2>6 DEF TaskFact, MovesOn
    <2> QED
      BY <2>5, <2>6
  <1>7. \A s \in Tabs, j \in Tasks : TaskFact(s, j)'
    BY <1>1, <1>3, <1>4, <1>6, OtherTasksStay DEF MovesOn
  <1>8. \A s \in Tabs : FlushFact(s)'
    BY <1>1, <1>4, FlushStays DEF RecordingInv, FlushFact
  <1> QED
    BY <1>4, <1>5, <1>7, <1>8 DEF RecordingInv

(* The end of an assembly keeps what is known of tasks and flushes.         *)
LEMMA AssembledKeeps ==
  ASSUME RecordingInv, NEW t \in Tabs, NEW k \in Tasks, task[t][k].at # "idle",
         Assembled(t, k), Ages, open' = open, home' = home,
         task[t][k].c \in raced' \/ rec[task[t][k].c] = "over"
  PROVE  /\ task' \in [Tabs -> [Tasks -> Task]]
         /\ flush' \in [Tabs -> Flushing] /\ timer' \subseteq open'
         /\ \A s \in Tabs : FlushFact(s)' /\ \A j \in Tasks : TaskFact(s, j)'
  <1> DEFINE c == task[t][k].c
  <1>1. RecordingTypeOK /\ t \in open /\ c \in Captures /\ TaskFact(t, k) /\ task[t][k] \in Task
    BY Tasked
  <1>2. AssembledTo(t, k) /\ FlushRests(t)
    BY <1>1, AssembledEffect
  <1>3. task[t][k].todo \subseteq Captures
    BY <1>1 DEF Task
  <1>4. \A d \in Captures : Recoverable(t, d) => Recoverable(t, d)'
    BY DEF Ages, Recoverable
  <1>5. TaskFact(t, k)'
    <2>1. \A d \in task[t][k].todo : Recoverable(t, d)'
      BY <1>1, <1>3, <1>4 DEF TaskFact
    <2>2. CASE task'[t][k].at = "direct" /\ task'[t][k].c = c /\ task'[t][k].todo = task[t][k].todo
      BY <1>1, <2>1, <2>2 DEF Ages, TaskFact
    <2>3. CASE task'[t][k].at = "get" /\ task'[t][k].c \in task[t][k].todo
               /\ task'[t][k].todo \subseteq task[t][k].todo
      BY <1>1, <1>3, <2>1, <2>3 DEF TaskFact
    <2>4. CASE task'[t][k] = Idle
      BY <2>4 DEF Idle, TaskFact
    <2> QED
      BY <1>2, <2>2, <2>3, <2>4 DEF AssembledTo
  <1>6. \A s \in Tabs, j \in Tasks : TaskFact(s, j)'
    BY <1>2, <1>5, OtherTasksStay DEF AssembledTo
  <1>7. \A s \in Tabs : FlushFact(s)'
    BY <1>1, <1>2, FlushesRest
  <1> QED
    BY <1>1, <1>2, <1>6, <1>7 DEF AssembledTo, TasksOnly, FlushRests

LEMMA ListStep ==
  ASSUME RecordingInv, NEW t \in Tabs, NEW k \in Tasks, List(t, k)
  PROVE  RecordingInv'
  <1> DEFINE c == task[t][k].c
  <1>1. /\ task[t][k].at = "list"
        /\ raced' = IF rec[c] = "recording" /\ home[c] # t THEN raced \cup {c} ELSE raced
        /\ UNCHANGED <<chunks, item, rec, home, made, open, signedIn, stored, attached,
                       discarded, mishaps>>
    BY DEF List, TaskAt, recorder, server
  <1>2. RecordingTypeOK /\ t \in open /\ c \in Captures /\ TaskFact(t, k) /\ task[t][k] \in Task
    BY <1>1, Tasked
  <1>3. Ages /\ \A d \in Captures : RecorderFact(d)' /\ CaptureFact(d)'
    BY <1>1, SameAges DEF Same
  <1>4. c \in raced' \/ rec[c] = "over"
    BY <1>1, <1>2 DEF TaskFact, Recoverable
  <1>5. raced' \subseteq Captures
    BY <1>1, <1>2 DEF RecordingTypeOK
  <1>6. CASE chunks[c] = {}
    <2>1. Assembled(t, k)
      BY <1>6 DEF List
    <2>2. /\ task' \in [Tabs -> [Tasks -> Task]]
          /\ flush' \in [Tabs -> Flushing] /\ timer' \subseteq open'
          /\ \A s \in Tabs : FlushFact(s)' /\ \A j \in Tasks : TaskFact(s, j)'
      BY <1>1, <1>3, <1>4, <2>1, AssembledKeeps
    <2>3. RecordingTypeOK'
      BY <1>1, <1>2, <1>5, <2>2 DEF RecordingTypeOK
    <2> QED
      BY <1>3, <2>2, <2>3 DEF RecordingInv
  <1>7. CASE chunks[c] # {}
    <2> DEFINE w == [task[t][k] EXCEPT !.at = "put", !.got = chunks[c]]
    <2>1. task' = [task EXCEPT ![t][k] = w] /\ UNCHANGED <<flush, timer>>
      <3>1. /\ task' = [task EXCEPT ![t][k].at = "put", ![t][k].got = chunks[c]]
            /\ UNCHANGED <<flush, timer>>
        BY <1>7 DEF List
      <3> QED
        BY <1>2, <3>1 DEF RecordingTypeOK, Task
    <2>2. /\ w \in Task /\ w.at = "put" /\ w.got = chunks[c] /\ w.c = c
          /\ w.todo = task[t][k].todo
      BY <1>2 DEF RecordingTypeOK, Task
    <2>3. TasksOnly(t, k) /\ task'[t][k] = w
      <3> HIDE DEF w
      <3> QED
        BY <1>2, <2>1, <2>2, TaskSet
    <2>4. RecordingTypeOK'
      BY <1>1, <1>2, <1>5, <2>1, <2>3 DEF RecordingTypeOK, TasksOnly
    <2>5. c \notin raced => chunks[c] = 1..made[c]
      BY <1>2, <1>7 DEF RecordingInv, CaptureFact
    <2>6. TaskFact(t, k)'
      <3>1. \A d \in Captures : Recoverable(t, d) => Recoverable(t, d)'
        BY <1>1 DEF Recoverable
      <3>2. w.todo \subseteq Captures
        BY <2>2 DEF Task
      <3> HIDE DEF w
      <3> QED
        BY <1>1, <1>2, <1>4, <2>2, <2>3, <2>5, <3>1, <3>2 DEF TaskFact
    <2>7. \A s \in Tabs, j \in Tasks : TaskFact(s, j)'
      BY <1>1, <1>3, <2>3, <2>6, OtherTasksStay
    <2>8. \A s \in Tabs : FlushFact(s)'
      BY <1>1, <1>3, <2>1, FlushStays DEF RecordingInv, FlushFact
    <2> QED
      BY <1>3, <2>4, <2>7, <2>8 DEF RecordingInv
  <1> QED
    BY <1>6, <1>7

LEMMA PutStep ==
  ASSUME RecordingInv, NEW t \in Tabs, NEW k \in Tasks, Put(t, k)
  PROVE  RecordingInv'
  <1> DEFINE c == task[t][k].c
             i == [blob |-> task[t][k].got, st |-> "pending", next |-> "none"]
  <1>1. /\ task[t][k].at = "put" /\ TaskTo(t, k, "drop")
        /\ item' = [item EXCEPT ![c] = i]
        /\ UNCHANGED <<chunks, rec, home, made, open, flush, timer, signedIn, stored,
                       attached, discarded, raced, mishaps>>
    BY DEF Put, TaskAt, recorder, server, history
  <1>2. RecordingTypeOK /\ t \in open /\ c \in Captures /\ TaskFact(t, k) /\ task[t][k] \in Task
    BY <1>1, Tasked
  <1>3. MovesOn(t, k, "drop")
    BY <1>1, <1>2, TaskMoves DEF TaskPlaces
  <1>4. i \in Item /\ i # NoItem /\ i.blob = task[t][k].got
    BY <1>2, NullAssumption DEF Task, Item
  <1>5. /\ item' \in [Captures -> Item \cup {NoItem}] /\ item'[c] = i
        /\ \A d \in Captures : d # c => item'[d] = item[d]
    BY <1>1, <1>2, <1>4 DEF RecordingTypeOK
  <1>6. RecordingTypeOK'
    BY <1>1, <1>2, <1>3, <1>5 DEF RecordingTypeOK, MovesOn, TasksOnly
  <1>7. Ages
    BY <1>1, <1>4, <1>5 DEF Ages, Safe, Queued
  <1>8. c \notin raced => rec[c] = "over" /\ i.blob = 1..made[c]
    BY <1>1, <1>2, <1>4 DEF TaskFact
  <1>9. ASSUME NEW d \in Captures PROVE RecorderFact(d)' /\ CaptureFact(d)'
    <2>1. RecorderFact(d) /\ CaptureFact(d)
      BY DEF RecordingInv
    <2> HIDE DEF i
    <2>2. CASE d = c
      BY <1>1, <1>4, <1>5, <1>8, <2>1, <2>2 DEF RecorderFact, CaptureFact, Safe, Queued
    <2>3. CASE d # c
      BY <1>1, <1>5, <2>1, <2>3 DEF RecorderFact, CaptureFact, Safe, Queued
    <2> QED
      BY <2>2, <2>3
  <1>10. TaskFact(t, k)'
    <2>1. \A d \in Captures : Recoverable(t, d) => Recoverable(t, d)'
      BY <1>1 DEF Recoverable
    <2>2. task[t][k].todo \subseteq Captures
      BY <1>2 DEF Task
    <2> HIDE DEF i
    <2> QED
      BY <1>1, <1>2, <1>3, <1>4, <1>5, <2>1, <2>2 DEF TaskFact, MovesOn, Safe, Queued
  <1>11. \A s \in Tabs, j \in Tasks : TaskFact(s, j)'
    BY <1>1, <1>3, <1>7, <1>10, OtherTasksStay DEF MovesOn
  <1>12. \A s \in Tabs : FlushFact(s)'
    BY <1>1, <1>7, FlushStays DEF RecordingInv, FlushFact
  <1> QED
    BY <1>6, <1>9, <1>11, <1>12 DEF RecordingInv

LEMMA DropStep ==
  ASSUME RecordingInv, NEW t \in Tabs, NEW k \in Tasks, Drop(t, k)
  PROVE  RecordingInv'
  <1> DEFINE c == task[t][k].c
  <1>1. /\ task[t][k].at = "drop" /\ Assembled(t, k)
        /\ chunks' = [chunks EXCEPT ![c] = {}]
        /\ UNCHANGED <<item, rec, home, made, open, signedIn, stored, attached,
                       discarded, raced, mishaps>>
    BY DEF Drop, TaskAt, recorder, server, history
  <1>2. RecordingTypeOK /\ c \in Captures /\ TaskFact(t, k)
    BY <1>1, Tasked
  <1>3. c \in raced \/ (rec[c] = "over" /\ Safe(c))
    BY <1>1, <1>2 DEF TaskFact
  <1>4. /\ Ages /\ chunks' \in [Captures -> Blob]
        /\ \A d \in Captures : RecorderFact(d)' /\ CaptureFact(d)'
    BY <1>1, <1>2, <1>3, ChunksGo
  <1>5. /\ task' \in [Tabs -> [Tasks -> Task]]
        /\ flush' \in [Tabs -> Flushing] /\ timer' \subseteq open'
        /\ \A s \in Tabs : FlushFact(s)' /\ \A j \in Tasks : TaskFact(s, j)'
    BY <1>1, <1>3, <1>4, AssembledKeeps
  <1>6. RecordingTypeOK'
    BY <1>1, <1>2, <1>4, <1>5 DEF RecordingTypeOK
  <1> QED
    BY <1>4, <1>5, <1>6 DEF RecordingInv

LEMMA EraseStep ==
  ASSUME RecordingInv, NEW t \in Tabs, NEW k \in Tasks, Erase(t, k)
  PROVE  RecordingInv'
  <1> DEFINE c == task[t][k].c
  <1>1. /\ task[t][k].at = "erase" /\ TaskTo(t, k, "wipe")
        /\ item' = [item EXCEPT ![c] = NoItem]
        /\ UNCHANGED <<chunks, rec, home, made, open, flush, timer, signedIn, stored,
                       attached, discarded, raced, mishaps>>
    BY DEF Erase, TaskAt, recorder, server, history
  <1>2. RecordingTypeOK /\ t \in open /\ c \in Captures /\ TaskFact(t, k) /\ task[t][k] \in Task
    BY <1>1, Tasked
  <1>3. MovesOn(t, k, "wipe")
    BY <1>1, <1>2, TaskMoves DEF TaskPlaces
  <1>4. /\ item' \in [Captures -> Item \cup {NoItem}] /\ item'[c] = NoItem
        /\ \A d \in Captures : d # c => item'[d] = item[d]
    BY <1>1, <1>2 DEF RecordingTypeOK
  <1>5. RecordingTypeOK'
    BY <1>1, <1>2, <1>3, <1>4 DEF RecordingTypeOK, MovesOn, TasksOnly
  <1>6. c \in attached \cup discarded
    BY <1>1, <1>2 DEF TaskFact
  <1>7. Ages
    BY <1>1, <1>4, <1>6 DEF Ages, Safe, Queued
  <1>8. ASSUME NEW d \in Captures PROVE RecorderFact(d)' /\ CaptureFact(d)'
    <2>1. RecorderFact(d) /\ CaptureFact(d)
      BY DEF RecordingInv
    <2>2. CASE d = c
      BY <1>1, <1>4, <1>6, <2>1, <2>2 DEF RecorderFact, CaptureFact, Safe, Queued
    <2>3. CASE d # c
      BY <1>1, <1>4, <2>1, <2>3 DEF RecorderFact, CaptureFact, Safe, Queued
    <2> QED
      BY <2>2, <2>3
  <1>9. TaskFact(t, k)'
    <2>1. \A d \in Captures : Recoverable(t, d) => Recoverable(t, d)'
      BY <1>1 DEF Recoverable
    <2>2. task[t][k].todo \subseteq Captures
      BY <1>2 DEF Task
    <2> QED
      BY <1>1, <1>2, <1>3, <1>6, <2>1, <2>2 DEF TaskFact, MovesOn
  <1>10. \A s \in Tabs, j \in Tasks : TaskFact(s, j)'
    BY <1>1, <1>3, <1>7, <1>9, OtherTasksStay DEF MovesOn
  <1>11. \A s \in Tabs : FlushFact(s)'
    BY <1>1, <1>7, FlushStays DEF RecordingInv, FlushFact
  <1> QED
    BY <1>5, <1>8, <1>10, <1>11 DEF RecordingInv

LEMMA WipeStep ==
  ASSUME RecordingInv, NEW t \in Tabs, NEW k \in Tasks, Wipe(t, k)
  PROVE  RecordingInv'
  <1> DEFINE c == task[t][k].c
  <1>1. /\ task[t][k].at = "wipe" /\ task' = [task EXCEPT ![t][k] = Idle] /\ Notify(t)
        /\ chunks' = [chunks EXCEPT ![c] = {}]
        /\ UNCHANGED <<item, rec, home, made, open, flush, signedIn, stored, attached,
                       discarded, raced, mishaps>>
    BY DEF Wipe, TaskAt, recorder, server, history
  <1>2. RecordingTypeOK /\ t \in open /\ c \in Captures /\ TaskFact(t, k)
    BY <1>1, Tasked
  <1>3. c \in attached \cup discarded
    BY <1>1, <1>2 DEF TaskFact
  <1>4. c \notin raced => rec[c] = "over" /\ Safe(c)
    BY <1>2, <1>3 DEF RecordingInv, CaptureFact, Safe
  <1>5. /\ Ages /\ chunks' \in [Captures -> Blob]
        /\ \A d \in Captures : RecorderFact(d)' /\ CaptureFact(d)'
    BY <1>1, <1>2, <1>4, ChunksGo
  <1>6. TasksOnly(t, k) /\ task'[t][k] = Idle
    BY <1>1, <1>2, RestTypes, TaskSet
  <1>7. RecordingTypeOK'
    BY <1>1, <1>2, <1>5, <1>6, NotifyTypes DEF RecordingTypeOK, TasksOnly
  <1>8. TaskFact(t, k)'
    BY <1>6 DEF TaskFact, Idle
  <1>9. \A s \in Tabs, j \in Tasks : TaskFact(s, j)'
    BY <1>1, <1>5, <1>6, <1>8, OtherTasksStay
  <1>10. \A s \in Tabs : FlushFact(s)'
    BY <1>1, <1>5, FlushStays DEF RecordingInv, FlushFact
  <1> QED
    BY <1>5, <1>7, <1>9, <1>10 DEF RecordingInv

-----------------------------------------------------------------------------
(* The recorder and its hand-off.                                           *)
LEMMA RecordChunkStep ==
  ASSUME RecordingInv, NEW c \in Captures, RecordChunk(c)
  PROVE  RecordingInv'
  <1>1. /\ home[c] \in open /\ rec[c] \in {"unused", "recording"} /\ made[c] < MaxChunks
        /\ rec' = [rec EXCEPT ![c] = "recording"]
        /\ made' = [made EXCEPT ![c] = @ + 1]
        /\ chunks' = [chunks EXCEPT ![c] = @ \cup {made'[c]}]
        /\ UNCHANGED <<item, home, open, task, flush, timer, signedIn, stored, attached,
                       discarded, raced, mishaps>>
    BY DEF RecordChunk, server, history
  <1>2. RecordingTypeOK /\ RecorderFact(c) /\ CaptureFact(c)
    BY DEF RecordingInv
  <1>3. made[c] \in Nat /\ MaxChunks \in Nat /\ made[c] \in 0..MaxChunks /\ chunks[c] \in Blob
    BY <1>2, QueueAssumption DEF RecordingTypeOK
  <1>4. /\ made'[c] = made[c] + 1 /\ rec'[c] = "recording"
        /\ chunks'[c] = chunks[c] \cup {made[c] + 1}
        /\ \A d \in Captures : d # c => made'[d] = made[d] /\ rec'[d] = rec[d] /\ chunks'[d] = chunks[d]
    BY <1>1, <1>2 DEF RecordingTypeOK
  <1>5. made[c] + 1 \in 1..MaxChunks /\ made[c] + 1 \in 0..MaxChunks
    BY <1>1, <1>3
  <1>6. RecordingTypeOK'
    <2>1. made' \in [Captures -> 0..MaxChunks] /\ rec' \in [Captures -> {"unused", "recording", "over"}]
      BY <1>1, <1>2, <1>4, <1>5 DEF RecordingTypeOK
    <2>2. chunks[c] \cup {made[c] + 1} \in Blob
      BY <1>3, <1>5 DEF Blob
    <2>3. chunks' \in [Captures -> Blob]
      BY <1>1, <1>2, <1>4, <2>2 DEF RecordingTypeOK
    <2> QED
      BY <1>1, <1>2, <2>1, <2>3 DEF RecordingTypeOK
  <1>7. Ages
    BY <1>1, <1>4 DEF Ages, Safe, Queued
  <1>8. RecorderFact(c)'
    BY <1>1, <1>3, <1>4 DEF RecorderFact
  <1>9. CaptureFact(c)'
    <2>1. ASSUME c \notin raced PROVE chunks'[c] = 1..made'[c]
      <3>1. chunks[c] = 1..made[c]
        BY <1>1, <1>2, <2>1 DEF CaptureFact
      <3>2. 1..(made[c] + 1) = 1..made[c] \cup {made[c] + 1}
        BY <1>3
      <3> QED
        BY <1>4, <3>1, <3>2
    <2> QED
      BY <1>1, <1>2, <2>1 DEF CaptureFact, Queued
  <1>10. \A d \in Captures : d # c => RecorderFact(d)' /\ CaptureFact(d)'
    BY <1>1, <1>4 DEF RecordingInv, RecorderFact, CaptureFact, Safe, Queued
  <1>11. \A s \in Tabs, k \in Tasks : TaskFact(s, k)'
    BY <1>1, <1>7, TaskStays DEF RecordingInv, TaskFact
  <1>12. \A s \in Tabs : FlushFact(s)'
    BY <1>1, <1>7, FlushStays DEF RecordingInv, FlushFact
  <1> QED
    BY <1>6, <1>8, <1>9, <1>10, <1>11, <1>12 DEF RecordingInv

(* Recordings that end, with their storage and the server left alone.       *)
LEMMA SomeEnd ==
  ASSUME RecordingInv,
         \A c \in Captures : rec'[c] = rec[c] \/ (rec[c] = "recording" /\ rec'[c] = "over"),
         \A c \in Captures : rec'[c] = "recording" => home[c] \in open',
         UNCHANGED <<chunks, item, home, made, stored, attached, discarded, raced>>
  PROVE  Ages /\ \A c \in Captures : RecorderFact(c)' /\ CaptureFact(c)'
  <1>1. Ages
    BY DEF Ages, Safe, Queued
  <1>2. ASSUME NEW c \in Captures PROVE RecorderFact(c)' /\ CaptureFact(c)'
    <2>1. RecorderFact(c) /\ CaptureFact(c)
      BY DEF RecordingInv
    <2> QED
      BY <2>1 DEF RecorderFact, CaptureFact, Safe, Queued
  <1> QED
    BY <1>1, <1>2

LEMMA StopRecordingStep ==
  ASSUME RecordingInv, NEW c \in Captures, StopRecording(c)
  PROVE  RecordingInv'
  <1>0. PICK t \in Tabs : t = home[c]
    BY DEF RecordingInv, RecordingTypeOK
  <1> DEFINE w == [Idle EXCEPT !.at = "get", !.c = c]
  <1>1. /\ rec[c] = "recording" /\ rec' = [rec EXCEPT ![c] = "over"]
        /\ task' = [task EXCEPT ![t]["stop"] = w]
        /\ UNCHANGED <<chunks, item, home, made, open, flush, timer, signedIn, stored, attached,
                       discarded, raced, mishaps>>
    BY <1>0 DEF StopRecording, server, history
  <1>2. RecordingTypeOK /\ t \in open /\ "stop" \in Tasks
    BY <1>0, <1>1 DEF RecordingInv, RecorderFact, RecordingTypeOK, Tasks
  <1>3. w \in Task /\ w.at = "get" /\ w.c = c /\ w.todo = {}
    BY RestTypes DEF Idle, Task
  <1>4. TasksOnly(t, "stop") /\ task'[t]["stop"] = w
    <2> HIDE DEF w
    <2> QED
      BY <1>1, <1>2, <1>3, TaskSet
  <1>5. rec'[c] = "over" /\ \A d \in Captures : d # c => rec'[d] = rec[d]
    BY <1>1, <1>2 DEF RecordingTypeOK
  <1>6. Ages /\ \A d \in Captures : RecorderFact(d)' /\ CaptureFact(d)'
    <2>1. \A d \in Captures : rec'[d] = rec[d] \/ (rec[d] = "recording" /\ rec'[d] = "over")
      BY <1>1, <1>5
    <2>2. \A d \in Captures : rec'[d] = "recording" => home[d] \in open'
      BY <1>1, <1>5 DEF RecordingInv, RecorderFact
    <2> QED
      BY <1>1, <2>1, <2>2, SomeEnd
  <1>7. RecordingTypeOK'
    <2>1. rec' \in [Captures -> {"unused", "recording", "over"}]
      BY <1>1, <1>2 DEF RecordingTypeOK
    <2> QED
      BY <1>1, <1>2, <1>4, <2>1 DEF RecordingTypeOK, TasksOnly
  <1>8. TaskFact(t, "stop")'
    BY <1>1, <1>2, <1>3, <1>4, <1>5 DEF TaskFact, Recoverable
  <1>9. \A s \in Tabs, k \in Tasks : TaskFact(s, k)'
    <2> HIDE DEF w
    <2> QED
      BY <1>1, <1>2, <1>4, <1>6, <1>8, OtherTasksStay
  <1>10. \A s \in Tabs : FlushFact(s)'
    BY <1>1, <1>6, FlushStays DEF RecordingInv, FlushFact
  <1> QED
    BY <1>6, <1>7, <1>9, <1>10 DEF RecordingInv

(* A capture that is handed over or thrown away had ended.                  *)
LEMMA Marked ==
  ASSUME RecordingInv, NEW c \in Captures, c \in raced \/ rec[c] = "over",
         attached' \in SUBSET (attached \cup {c}), attached \subseteq attached',
         discarded' \in SUBSET (discarded \cup {c}), discarded \subseteq discarded',
         UNCHANGED <<chunks, item, rec, home, made, open, stored, raced>>
  PROVE  /\ Ages /\ attached' \subseteq Captures /\ discarded' \subseteq Captures
         /\ \A d \in Captures : RecorderFact(d)' /\ CaptureFact(d)'
  <1>1. Ages
    BY DEF Ages, Safe, Queued
  <1>2. attached' \subseteq Captures /\ discarded' \subseteq Captures
    BY DEF RecordingInv, RecordingTypeOK
  <1>3. ASSUME NEW d \in Captures PROVE RecorderFact(d)' /\ CaptureFact(d)'
    <2>1. RecorderFact(d) /\ CaptureFact(d)
      BY DEF RecordingInv
    <2> QED
      BY <2>1 DEF RecorderFact, CaptureFact, Safe, Queued
  <1> QED
    BY <1>1, <1>2, <1>3

LEMMA AttachStep ==
  ASSUME RecordingInv, NEW t \in Tabs, Attach(t)
  PROVE  RecordingInv'
  <1> DEFINE c == task[t]["stop"].c
  <1>1. /\ task[t]["stop"].at = "direct" /\ attached' = attached \cup {c}
        /\ TaskTo(t, "stop", "erase")
        /\ UNCHANGED <<chunks, item, rec, home, made, open, flush, timer, signedIn, stored,
                       discarded, raced, mishaps>>
    BY DEF Attach, TaskAt, recorder, history
  <1>2. "stop" \in Tasks /\ RecordingTypeOK /\ c \in Captures /\ TaskFact(t, "stop")
    BY <1>1, Tasked DEF Tasks
  <1>3. MovesOn(t, "stop", "erase")
    BY <1>1, <1>2, TaskMoves DEF TaskPlaces
  <1>4. c \in raced \/ rec[c] = "over"
    BY <1>1, <1>2 DEF TaskFact
  <1>5. /\ Ages /\ attached' \subseteq Captures
        /\ \A d \in Captures : RecorderFact(d)' /\ CaptureFact(d)'
    BY <1>1, <1>2, <1>4, Marked
  <1>6. RecordingTypeOK'
    BY <1>1, <1>2, <1>3, <1>5 DEF RecordingTypeOK, MovesOn, TasksOnly
  <1>7. TaskFact(t, "stop")'
    <2>1. \A d \in Captures : Recoverable(t, d) => Recoverable(t, d)'
      BY <1>1 DEF Recoverable
    <2>2. task[t]["stop"].todo \subseteq Captures
      BY <1>2 DEF RecordingTypeOK, Task
    <2> QED
      BY <1>1, <1>2, <1>3, <2>1, <2>2 DEF TaskFact, MovesOn
  <1>8. \A s \in Tabs, k \in Tasks : TaskFact(s, k)'
    BY <1>1, <1>2, <1>3, <1>5, <1>7, OtherTasksStay DEF MovesOn
  <1>9. \A s \in Tabs : FlushFact(s)'
    BY <1>1, <1>5, FlushStays DEF RecordingInv, FlushFact
  <1> QED
    BY <1>5, <1>6, <1>8, <1>9 DEF RecordingInv

LEMMA AttachFailsStep ==
  ASSUME RecordingInv, NEW t \in Tabs, AttachFails(t)
  PROVE  RecordingInv'
  <1> DEFINE c == task[t]["stop"].c
  <1>1. /\ task[t]["stop"].at = "direct" /\ StartFlush(t, TRUE)
        /\ attached' = attached \/ attached' = attached \cup {c}
        /\ Mishap \/ UNCHANGED mishaps
        /\ task' = [task EXCEPT ![t]["stop"] = Idle]
        /\ UNCHANGED <<chunks, item, rec, home, made, open, signedIn, stored, discarded, raced>>
    BY DEF AttachFails, TaskAt, recorder, history
  <1>2. "stop" \in Tasks /\ RecordingTypeOK /\ c \in Captures /\ t \in open /\ TaskFact(t, "stop")
    BY <1>1, Tasked DEF Tasks
  <1>3. TasksOnly(t, "stop") /\ task'[t]["stop"] = Idle
    BY <1>1, <1>2, RestTypes, TaskSet
  <1>4. c \in raced \/ rec[c] = "over"
    BY <1>1, <1>2 DEF TaskFact
  <1>5. /\ Ages /\ attached' \subseteq Captures
        /\ \A d \in Captures : RecorderFact(d)' /\ CaptureFact(d)'
    BY <1>1, <1>2, <1>4, Marked
  <1>6. FlushRests(t)
    BY <1>1, <1>2, StartRests
  <1>7. RecordingTypeOK'
    BY <1>1, <1>2, <1>3, <1>5, <1>6, MishapTypes DEF RecordingTypeOK, TasksOnly, FlushRests
  <1>8. TaskFact(t, "stop")'
    BY <1>3 DEF TaskFact, Idle
  <1>9. \A s \in Tabs, k \in Tasks : TaskFact(s, k)'
    BY <1>1, <1>2, <1>3, <1>5, <1>8, OtherTasksStay
  <1>10. \A s \in Tabs : FlushFact(s)'
    BY <1>1, <1>2, <1>5, <1>6, FlushesRest
  <1> QED
    BY <1>5, <1>7, <1>9, <1>10 DEF RecordingInv

LEMMA RemoveStep ==
  ASSUME RecordingInv, NEW t \in Tabs, NEW c \in Captures, Remove(t, c)
  PROVE  RecordingInv'
  <1> DEFINE w == [Idle EXCEPT !.at = "erase", !.c = c]
  <1>1. /\ t \in open /\ Queued(c) /\ discarded' = discarded \cup {c}
        /\ task' = [task EXCEPT ![t]["user"] = w]
        /\ UNCHANGED <<chunks, item, rec, home, made, open, flush, timer, signedIn, stored,
                       attached, raced, mishaps>>
    BY DEF Remove, recorder, server
  <1>2. "user" \in Tasks /\ RecordingTypeOK /\ CaptureFact(c)
    BY DEF RecordingInv, Tasks
  <1>3. w \in Task /\ w.at = "erase" /\ w.c = c /\ w.todo = {}
    BY RestTypes DEF Idle, Task
  <1>4. TasksOnly(t, "user") /\ task'[t]["user"] = w
    <2> HIDE DEF w
    <2> QED
      BY <1>1, <1>2, <1>3, TaskSet, ZenonT(60)
  <1>5. c \in raced \/ rec[c] = "over"
    BY <1>1, <1>2 DEF CaptureFact
  <1>6. /\ Ages /\ discarded' \subseteq Captures
        /\ \A d \in Captures : RecorderFact(d)' /\ CaptureFact(d)'
    BY <1>1, <1>5, Marked
  <1>7. RecordingTypeOK'
    BY <1>1, <1>2, <1>4, <1>6 DEF RecordingTypeOK, TasksOnly
  <1>8. TaskFact(t, "user")'
    <2>1. t \in open' /\ c \in Captures /\ c \in discarded'
      BY <1>1
    <2> HIDE DEF w
    <2> QED
      BY <1>3, <1>4, <2>1 DEF TaskFact
  <1>9. \A s \in Tabs, k \in Tasks : TaskFact(s, k)'
    <2> HIDE DEF w
    <2> QED
      BY <1>1, <1>2, <1>4, <1>6, <1>8, OtherTasksStay
  <1>10. \A s \in Tabs : FlushFact(s)'
    BY <1>1, <1>6, FlushStays DEF RecordingInv, FlushFact
  <1> QED
    BY <1>6, <1>7, <1>9, <1>10 DEF RecordingInv

-----------------------------------------------------------------------------
(* Tabs that open, ask, wait and close.                                     *)
LEMMA MountStep ==
  ASSUME RecordingInv, NEW t \in Tabs, Mount(t), t \in open',
         open' \subseteq Tabs, open \subseteq open', open' \subseteq open \cup {t},
         task[t]["mount"].at = "idle"
  PROVE  RecordingInv'
  <1> DEFINE found == {c \in Captures : chunks[c] # {}} \ Active(t)
  <1>1. /\ UNCHANGED <<chunks, item, rec, home, made, signedIn, stored, attached, discarded,
                       raced, mishaps>>
        /\ RecordingTypeOK /\ "mount" \in Tasks
    BY DEF Mount, recorder, server, history, RecordingInv, Tasks
  <1>2. Ages /\ \A d \in Captures : RecorderFact(d)' /\ CaptureFact(d)'
    BY <1>1, SameAges DEF Same
  <1>3. \A c \in found : Recoverable(t, c)
    <2> SUFFICES ASSUME NEW c \in found PROVE Recoverable(t, c)
      OBVIOUS
    <2>1. c \in Captures /\ chunks[c] # {} /\ c \notin Active(t)
      OBVIOUS
    <2>2. rec[c] \in {"recording", "over"}
      BY <1>1, <2>1 DEF RecordingInv, RecorderFact, RecordingTypeOK
    <2> QED
      BY <2>1, <2>2 DEF Recoverable, Active
  <1>4. /\ task' \in [Tabs -> [Tasks -> Task]]
        /\ flush' \in [Tabs -> Flushing] /\ timer' \subseteq open'
        /\ \A s \in Tabs : FlushFact(s)' /\ \A j \in Tasks : TaskFact(s, j)'
    <2>1. CASE found = {}
      <3>1. StartFlush(t, FALSE) /\ task' = task
        BY <2>1 DEF Mount
      <3>2. FlushRests(t)
        BY <1>1, <3>1, StartRests
      <3>3. \A s \in Tabs : FlushFact(s)'
        BY <1>2, <3>2, FlushesRest
      <3>4. \A s \in Tabs, j \in Tasks : TaskFact(s, j)'
        BY <1>1, <1>2, <3>1, TaskStays DEF RecordingInv, TaskFact
      <3> QED
        BY <1>1, <3>1, <3>2, <3>3, <3>4 DEF FlushRests, RecordingTypeOK
    <2>2. CASE found # {}
      <3>1. Assemble(t, "mount", found) /\ flush' = flush /\ timer' = timer
        BY <2>2 DEF Mount
      <3>2. found \in SUBSET Captures
        OBVIOUS
      <3>3. /\ TasksOnly(t, "mount") /\ task'[t]["mount"].at = "get"
            /\ task'[t]["mount"].c \in found /\ task'[t]["mount"].todo \subseteq found
        <4> HIDE DEF found
        <4> QED
          BY <1>1, <3>1, <3>2, AssembleTo
      <3>4. \A c \in found : Recoverable(t, c)'
        BY <1>1, <1>3 DEF Recoverable
      <3>5. TaskFact(t, "mount")'
        <4> HIDE DEF found
        <4> QED
          BY <3>2, <3>3, <3>4 DEF TaskFact
      <3>6. \A s \in Tabs, j \in Tasks : TaskFact(s, j)'
        BY <1>1, <1>2, <3>3, <3>5, OtherTasksStay
      <3>7. \A s \in Tabs : FlushFact(s)'
        BY <1>1, <1>2, <3>1, FlushStays DEF RecordingInv, FlushFact
      <3> QED
        BY <1>1, <3>1, <3>3, <3>6, <3>7 DEF TasksOnly, RecordingTypeOK
    <2> QED
      BY <2>1, <2>2
  <1>5. RecordingTypeOK'
    BY <1>1, <1>4 DEF RecordingTypeOK
  <1> QED
    BY <1>2, <1>4, <1>5 DEF RecordingInv

LEMMA ClosedIsIdle ==
  ASSUME RecordingInv, NEW t \in Tabs, t \notin open
  PROVE  \A k \in Tasks : task[t][k].at = "idle"
  BY DEF RecordingInv, TaskFact

LEMMA OpenStep ==
  ASSUME RecordingInv, NEW t \in Tabs, Open(t) \/ Navigate(t)
  PROVE  RecordingInv'
  <1>1. open \subseteq Tabs /\ "mount" \in Tasks
    BY DEF RecordingInv, RecordingTypeOK, Tasks
  <1>2. CASE Open(t)
    BY <1>1, <1>2, ClosedIsIdle, MountStep DEF Open
  <1>3. CASE Navigate(t)
    BY <1>1, <1>3, MountStep DEF Navigate, TaskAt
  <1> QED
    BY <1>2, <1>3

LEMMA CloseStep ==
  ASSUME RecordingInv, NEW t \in Tabs, Close(t)
  PROVE  RecordingInv'
  <1>1. /\ Mishap /\ open' = open \ {t} /\ timer' = timer \ {t}
        /\ task' = [task EXCEPT ![t] = [k \in Tasks |-> Idle]]
        /\ flush' = [flush EXCEPT ![t] = NoFlush]
        /\ rec' = [c \in Captures |-> IF home[c] = t /\ rec[c] = "recording" THEN "over" ELSE rec[c]]
        /\ UNCHANGED <<chunks, item, home, made, signedIn, stored, attached, discarded, raced>>
        /\ RecordingTypeOK
    BY DEF Close, server, history, RecordingInv
  <1>2. \A c \in Captures : rec'[c] = rec[c] \/ (rec[c] = "recording" /\ rec'[c] = "over")
    BY <1>1
  <1>3. \A c \in Captures : rec'[c] = "recording" => home[c] \in open'
    BY <1>1 DEF RecordingInv, RecorderFact
  <1>4. Ages /\ \A c \in Captures : RecorderFact(c)' /\ CaptureFact(c)'
    BY <1>1, <1>2, <1>3, SomeEnd
  <1>5. /\ task' \in [Tabs -> [Tasks -> Task]] /\ task'[t] = [k \in Tasks |-> Idle]
        /\ \A s \in Tabs : s # t => task'[s] = task[s]
    BY <1>1, RestTypes DEF RecordingTypeOK
  <1>6. /\ flush' \in [Tabs -> Flushing] /\ flush'[t] = NoFlush
        /\ \A s \in Tabs : s # t => flush'[s] = flush[s]
    BY <1>1, RestTypes DEF RecordingTypeOK
  <1>7. RecordingTypeOK'
    <2>1. rec' \in [Captures -> {"unused", "recording", "over"}]
      BY <1>1 DEF RecordingTypeOK
    <2> QED
      BY <1>1, <1>5, <1>6, <2>1, MishapTypes DEF RecordingTypeOK
  <1>8. ASSUME NEW s \in Tabs, NEW k \in Tasks PROVE TaskFact(s, k)'
    <2>1. CASE s = t
      BY <1>5, <2>1 DEF TaskFact, Idle
    <2>2. CASE s # t
      BY <1>1, <1>4, <1>5, <2>2, TaskStays DEF RecordingInv, TaskFact
    <2> QED
      BY <2>1, <2>2
  <1>9. ASSUME NEW s \in Tabs PROVE FlushFact(s)'
    <2>1. CASE s = t
      BY <1>6, <2>1 DEF FlushFact, NoFlush
    <2>2. CASE s # t
      BY <1>1, <1>4, <1>6, <2>2, FlushStays DEF RecordingInv, FlushFact
    <2> QED
      BY <2>1, <2>2
  <1> QED
    BY <1>4, <1>7, <1>8, <1>9 DEF RecordingInv

LEMMA AskStep ==
  ASSUME RecordingInv, NEW t \in open, NEW force \in BOOLEAN, StartFlush(t, force),
         UNCHANGED <<chunks, item, recorder, open, task, signedIn, server, history, mishaps>>
  PROVE  RecordingInv'
  <1>1. /\ UNCHANGED <<chunks, item, rec, home, made, open, task, signedIn, stored, attached,
                       discarded, raced, mishaps>>
        /\ RecordingTypeOK /\ t \in Tabs
    BY DEF recorder, server, history, RecordingInv, RecordingTypeOK
  <1>2. Ages /\ \A c \in Captures : RecorderFact(c)' /\ CaptureFact(c)'
    BY <1>1, SameAges DEF Same
  <1>3. FlushRests(t)
    BY <1>1, StartRests
  <1>4. RecordingTypeOK'
    BY <1>1, <1>3 DEF RecordingTypeOK, FlushRests
  <1>5. \A s \in Tabs, k \in Tasks : TaskFact(s, k)'
    BY <1>1, <1>2, TaskStays DEF RecordingInv, TaskFact
  <1>6. \A s \in Tabs : FlushFact(s)'
    BY <1>1, <1>2, <1>3, FlushesRest
  <1> QED
    BY <1>2, <1>4, <1>5, <1>6 DEF RecordingInv

LEMMA WakeStep ==
  ASSUME RecordingInv, NEW t \in Tabs, Wake(t) \/ Timer(t)
  PROVE  RecordingInv'
  <1>1. CASE Wake(t)
    BY <1>1, AskStep DEF Wake, Show, Retry, Ask
  <1>2. CASE Timer(t)
    <2>1. t \in open
      BY <1>2 DEF Timer, RecordingInv, RecordingTypeOK
    <2> QED
      BY <1>2, <2>1, AskStep DEF Timer
  <1> QED
    BY <1>1, <1>2

LEMMA ElapseStep ==
  ASSUME RecordingInv, NEW c \in Captures, Elapse(c)
  PROVE  RecordingInv'
  <1> DEFINE i == [item[c] EXCEPT !.next = "due"]
  <1>1. /\ Queued(c) /\ item' = [item EXCEPT ![c] = i] /\ RecordingTypeOK
        /\ UNCHANGED <<chunks, rec, home, made, open, task, flush, timer, signedIn, stored,
                       attached, discarded, raced, mishaps>>
    BY DEF Elapse, recorder, server, history, RecordingInv
  <1>2. item[c] \in Item
    BY <1>1 DEF RecordingTypeOK, Queued
  <1>3. i \in Item /\ i # NoItem /\ i.blob = item[c].blob
    BY <1>2, NullAssumption DEF Item
  <1>4. /\ item' \in [Captures -> Item \cup {NoItem}] /\ item'[c] = i
        /\ \A d \in Captures : d # c => item'[d] = item[d]
    <2> HIDE DEF i
    <2> QED
      BY <1>1, <1>3 DEF RecordingTypeOK
  <1>5. RecordingTypeOK'
    BY <1>1, <1>4 DEF RecordingTypeOK
  <1>6. Ages
    BY <1>1, <1>3, <1>4 DEF Ages, Safe, Queued
  <1>7. ASSUME NEW d \in Captures PROVE RecorderFact(d)' /\ CaptureFact(d)'
    <2>1. RecorderFact(d) /\ CaptureFact(d)
      BY DEF RecordingInv
    <2> HIDE DEF i
    <2>2. CASE d = c
      BY <1>1, <1>3, <1>4, <2>1, <2>2 DEF RecorderFact, CaptureFact, Safe, Queued
    <2>3. CASE d # c
      BY <1>1, <1>4, <2>1, <2>3 DEF RecorderFact, CaptureFact, Safe, Queued
    <2> QED
      BY <2>2, <2>3
  <1>8. \A s \in Tabs, k \in Tasks : TaskFact(s, k)'
    BY <1>1, <1>6, TaskStays DEF RecordingInv, TaskFact
  <1>9. \A s \in Tabs : FlushFact(s)'
    BY <1>1, <1>6, FlushStays DEF RecordingInv, FlushFact
  <1> QED
    BY <1>5, <1>7, <1>8, <1>9 DEF RecordingInv

LEMMA SessionStep ==
  ASSUME RecordingInv, SignOut \/ SignIn \/ UNCHANGED recordingVars
  PROVE  RecordingInv'
  <1>1. /\ UNCHANGED <<chunks, item, rec, home, made, open, task, flush, timer, stored,
                       attached, discarded, raced>>
        /\ signedIn' \in BOOLEAN /\ (Mishap \/ UNCHANGED mishaps) /\ RecordingTypeOK
    BY DEF SignOut, SignIn, recordingVars, recorder, server, history, RecordingInv, RecordingTypeOK
  <1>2. Ages /\ \A c \in Captures : RecorderFact(c)' /\ CaptureFact(c)'
    BY <1>1, SameAges DEF Same
  <1>3. RecordingTypeOK'
    BY <1>1, MishapTypes DEF RecordingTypeOK
  <1>4. \A s \in Tabs, k \in Tasks : TaskFact(s, k)'
    BY <1>1, <1>2, TaskStays DEF RecordingInv, TaskFact
  <1>5. \A s \in Tabs : FlushFact(s)'
    BY <1>1, <1>2, FlushStays DEF RecordingInv, FlushFact
  <1> QED
    BY <1>2, <1>3, <1>4, <1>5 DEF RecordingInv

-----------------------------------------------------------------------------
LEMMA RecordingStarts == RecordingInit => RecordingInv
  <1> SUFFICES ASSUME RecordingInit PROVE RecordingInv
    OBVIOUS
  <1>1. {} \in Blob /\ 0 \in 0..MaxChunks /\ 0 \in 0..MaxMishaps
    BY QueueAssumption DEF Blob
  <1>2. RecordingTypeOK
    BY <1>1, RestTypes DEF RecordingInit, RecordingTypeOK
  <1>3. ASSUME NEW c \in Captures PROVE RecorderFact(c) /\ CaptureFact(c)
    <2>1. 1..0 = {}
      OBVIOUS
    <2> QED
      BY <2>1 DEF RecordingInit, RecorderFact, CaptureFact, Queued
  <1>4. ASSUME NEW t \in Tabs, NEW k \in Tasks PROVE TaskFact(t, k)
    BY DEF RecordingInit, TaskFact, Idle
  <1>5. ASSUME NEW t \in Tabs PROVE FlushFact(t)
    BY DEF RecordingInit, FlushFact, NoFlush
  <1> QED
    BY <1>2, <1>3, <1>4, <1>5 DEF RecordingInv

LEMMA RecordingStep == RecordingInv /\ [RecordingNext]_recordingVars => RecordingInv'
  <1> SUFFICES ASSUME RecordingInv, [RecordingNext]_recordingVars PROVE RecordingInv'
    OBVIOUS
  <1>1. ASSUME NEW t \in Tabs, Upload(t) PROVE RecordingInv'
    BY <1>1, PickStep, AcceptStep, RefuseStep, DropItemStep, DropChunksStep DEF Upload
  <1>2. ASSUME NEW t \in Tabs, Hand(t) PROVE RecordingInv'
    BY <1>2, AttachStep, AttachFailsStep DEF Hand
  <1>3. ASSUME NEW t \in Tabs, Open(t) \/ Navigate(t) PROVE RecordingInv'
    BY <1>3, OpenStep
  <1>4. ASSUME NEW t \in Tabs, Close(t) PROVE RecordingInv'
    BY <1>4, CloseStep
  <1>5. ASSUME NEW t \in Tabs, Wake(t) \/ Timer(t) PROVE RecordingInv'
    BY <1>5, WakeStep
  <1>6. ASSUME NEW t \in Tabs, NEW k \in Tasks, Save(t, k) PROVE RecordingInv'
    BY <1>6, GetStep, ListStep, PutStep, DropStep, EraseStep, WipeStep DEF Save
  <1>7. ASSUME NEW t \in Tabs, NEW c \in Captures, Remove(t, c) PROVE RecordingInv'
    BY <1>7, RemoveStep
  <1>8. ASSUME NEW c \in Captures, Capture(c) \/ Elapse(c) PROVE RecordingInv'
    BY <1>8, RecordChunkStep, StopRecordingStep, ElapseStep DEF Capture
  <1>9. CASE SignOut \/ SignIn \/ UNCHANGED recordingVars
    BY <1>9, SessionStep
  <1> QED
    BY <1>1, <1>2, <1>3, <1>4, <1>5, <1>6, <1>7, <1>8, <1>9 DEF RecordingNext

LEMMA RecordingHolds == RecordingSpec => []RecordingInv
  BY RecordingStarts, RecordingStep, PTL DEF RecordingSpec

(* Every variable of the queue keeps its type.                              *)
THEOREM RecordingTypes == RecordingSpec => []RecordingTypeOK
  <1>1. RecordingInv => RecordingTypeOK
    BY DEF RecordingInv
  <1> QED
    BY <1>1, RecordingHolds, PTL

(* A chunk once written is in the browser or at the server until the user   *)
(* discards the recording, for every number of tabs, captures, chunks and   *)
(* faults, unless another tab recovered it while it was recorded.           *)
THEOREM NothingIsLost == RecordingSpec => []Kept
  <1>1. RecordingInv => Kept
    <2> SUFFICES ASSUME RecordingInv, NEW c \in Captures \ (discarded \cup raced)
                 PROVE  1..made[c] \subseteq Held(c)
      BY DEF Kept
    <2>1. CaptureFact(c)
      BY DEF RecordingInv
    <2> QED
      BY <2>1 DEF CaptureFact, Safe, Held
  <1> QED
    BY <1>1, RecordingHolds, PTL

(* The server is sent, and an item carries, the whole of a recording that   *)
(* ended: the first upload, the one the server keeps, is never of a part.    *)
THEOREM UploadsAreWhole == RecordingSpec => [](StoredWhole /\ ItemWhole)
  <1>1. RecordingInv => StoredWhole /\ ItemWhole
    BY DEF RecordingInv, CaptureFact, StoredWhole, ItemWhole
  <1> QED
    BY <1>1, RecordingHolds, PTL
-----------------------------------------------------------------------------
(* What an action does to a recording that is gone: no upload or assembly   *)
(* of it begins, and none of the writes makes an item or chunks of it.      *)
LEMMA StillGone ==
  ASSUME NEW c \in Captures, Gone(c), rec'[c] = "over", chunks'[c] = {}, item'[c] = NoItem,
         \A t \in Tabs : flush'[t] = flush[t] \/ flush'[t].c # c
                           \/ flush'[t].at \notin {"sent", "answered"},
         \A t \in Tabs, k \in Tasks : task'[t][k] = task[t][k] \/ task'[t][k].c # c
                                        \/ task'[t][k].at # "put"
  PROVE  Gone(c)'
  BY DEF Gone, Queued, TaskAt

(* An item that another capture's upload or assembly writes.                *)
LEMMA OtherItem ==
  ASSUME RecordingTypeOK, NEW c \in Captures, Gone(c), NEW d, NEW i,
         item' = [item EXCEPT ![d] = i], d # c \/ i = NoItem
  PROVE  item'[c] = NoItem
  BY DEF RecordingTypeOK, Gone, Queued

LEMMA UploadLeavesGone ==
  ASSUME RecordingInv, NEW t \in Tabs, Upload(t), NEW c \in Captures, Gone(c)
  PROVE  Gone(c)'
  <1>0. RecordingTypeOK /\ chunks \in [Captures -> Blob] /\ flush \in [Tabs -> Flushing]
    BY DEF RecordingInv, RecordingTypeOK
  <1>1. rec[c] = "over" /\ chunks[c] = {} /\ item[c] = NoItem
        /\ ~(flush[t].c = c /\ flush[t].at \in {"sent", "answered"})
    BY DEF Gone, Queued
  <1>2. ASSUME NEW d \in Captures, Pick(t, d) PROVE Gone(c)'
    <2>1. UNCHANGED <<chunks, item, rec, task>>
      BY <1>2 DEF Pick, recorder
    <2>2. CASE Due(d, flush[t].force)
      <3>1. flush' = [flush EXCEPT ![t].at = "sent", ![t].c = d, ![t].copy = item[d].blob]
        BY <1>2, <2>2 DEF Pick
      <3>2. d # c
        BY <1>1, <2>2 DEF Due, Queued
      <3>3. \A s \in Tabs : flush'[s] = flush[s] \/ flush'[s].c # c
        BY <1>0, <3>1, <3>2 DEF Flushing
      <3> QED
        BY <1>1, <2>1, <3>3, StillGone
    <2>3. CASE ~Due(d, flush[t].force)
      <3>1. FlushRests(t)
        BY <1>0, <1>2, <2>3, LeaveRests DEF Pick
      <3> QED
        BY <1>1, <2>1, <3>1, StillGone DEF FlushRests
    <2> QED
      BY <2>2, <2>3
  <1>3. CASE Accept(t)
    <2>1. /\ UNCHANGED <<chunks, item, rec, task>>
          /\ flush[t].at = "sent" /\ flush' = [flush EXCEPT ![t].at = "answered"]
      BY <1>3 DEF Accept, recorder
    <2>2. \A s \in Tabs : flush'[s] = flush[s] \/ flush'[s].c # c
      BY <1>0, <1>1, <2>1 DEF Flushing
    <2> QED
      BY <1>1, <2>1, <2>2, StillGone
  <1>4. CASE Refuse(t)
    <2>1. flush[t].at \in {"sent", "answered"} /\ flush[t].c # c /\ UNCHANGED <<chunks, rec, task>>
      BY <1>1, <1>4 DEF Refuse, recorder
    <2>2. PICK status, next : Keep(t, status, next)
      BY <1>4 DEF Refuse
    <2>3. item'[c] = NoItem
      BY <1>0, <2>1, <2>2, OtherItem DEF Keep
    <2>4. FlushRests(t)
      BY <1>0, <2>1, <2>2, Flushed, LeaveRests DEF Keep
    <2> QED
      BY <1>1, <2>1, <2>3, <2>4, StillGone DEF FlushRests
  <1>5. CASE DropItem(t)
    <2>1. /\ UNCHANGED <<chunks, rec, task>> /\ item' = [item EXCEPT ![flush[t].c] = NoItem]
          /\ flush' = [flush EXCEPT ![t].at = "drop"]
      BY <1>5 DEF DropItem, recorder
    <2>2. \A s \in Tabs : flush'[s] = flush[s] \/ flush'[s].at = "drop"
      BY <1>0, <2>1 DEF Flushing
    <2>3. item'[c] = NoItem
      BY <1>0, <2>1, OtherItem
    <2> QED
      BY <1>1, <2>1, <2>2, <2>3, StillGone
  <1>6. CASE DropChunks(t)
    <2>1. /\ UNCHANGED <<item, rec, task>> /\ chunks' = [chunks EXCEPT ![flush[t].c] = {}]
          /\ flush[t].at = "drop" /\ Leave(t, flush[t].c)
      BY <1>6 DEF DropChunks, recorder
    <2>2. chunks'[c] = {}
      BY <1>0, <1>1, <2>1
    <2>3. FlushRests(t)
      BY <1>0, <2>1, Flushed, LeaveRests
    <2> QED
      BY <1>1, <2>1, <2>2, <2>3, StillGone DEF FlushRests
  <1> QED
    BY <1>2, <1>3, <1>4, <1>5, <1>6 DEF Upload

LEMMA SaveLeavesGone ==
  ASSUME RecordingInv, NEW t \in Tabs, NEW k \in Tasks, Save(t, k), NEW c \in Captures, Gone(c)
  PROVE  Gone(c)'
  <1>0. RecordingTypeOK /\ chunks \in [Captures -> Blob]
    BY DEF RecordingInv, RecordingTypeOK
  <1>1. rec[c] = "over" /\ chunks[c] = {} /\ item[c] = NoItem
        /\ ~(task[t][k].c = c /\ task[t][k].at = "put")
    BY DEF Gone, Queued, TaskAt
  <1>2. CASE Get(t, k)
    <2> DEFINE where == IF Queued(task[t][k].c) THEN "drop" ELSE "list"
    <2>1. UNCHANGED <<chunks, item, rec, flush>> /\ TaskTo(t, k, where)
      BY <1>2 DEF Get, recorder
    <2>2. MovesOn(t, k, where)
      BY <1>0, <2>1, TaskMoves DEF TaskPlaces
    <2> QED
      BY <1>1, <2>1, <2>2, StillGone DEF MovesOn, TasksOnly
  <1>3. CASE List(t, k)
    <2>1. UNCHANGED <<chunks, item, rec>>
      BY <1>3 DEF List, recorder
    <2>2. CASE chunks[task[t][k].c] = {}
      <3>1. AssembledTo(t, k) /\ FlushRests(t)
        BY <1>0, <1>3, <2>2, AssembledEffect DEF List
      <3> QED
        BY <1>1, <2>1, <3>1, StillGone DEF AssembledTo, TasksOnly, FlushRests, Idle
    <2>3. CASE chunks[task[t][k].c] # {}
      <3> DEFINE w == [task[t][k] EXCEPT !.at = "put", !.got = chunks[task[t][k].c]]
      <3>1. task' = [task EXCEPT ![t][k] = w] /\ flush' = flush
        <4>1. /\ task' = [task EXCEPT ![t][k].at = "put", ![t][k].got = chunks[task[t][k].c]]
              /\ flush' = flush
          BY <1>3, <2>3 DEF List
        <4> QED
          BY <1>0, <4>1 DEF RecordingTypeOK, Task
      <3>2. task[t][k] \in Task /\ task[t][k].c # c /\ w.c = task[t][k].c
        BY <1>0, <1>1, <2>3 DEF RecordingTypeOK, Task
      <3>3. \A s \in Tabs, j \in Tasks : task'[s][j] = task[s][j] \/ task'[s][j].c # c
        <4> HIDE DEF w
        <4> QED
          BY <1>0, <3>1, <3>2 DEF RecordingTypeOK
      <3> QED
        BY <1>1, <2>1, <3>1, <3>3, StillGone
    <2> QED
      BY <2>2, <2>3
  <1>4. CASE Put(t, k)
    <2>1. /\ UNCHANGED <<chunks, rec, flush>> /\ TaskTo(t, k, "drop") /\ task[t][k].at = "put"
          /\ item' = [item EXCEPT ![task[t][k].c] = [blob |-> task[t][k].got, st |-> "pending", next |-> "none"]]
      BY <1>4 DEF Put, recorder, TaskAt
    <2>2. MovesOn(t, k, "drop")
      BY <1>0, <2>1, TaskMoves DEF TaskPlaces
    <2>3. item'[c] = NoItem
      BY <1>0, <1>1, <2>1, OtherItem
    <2> QED
      BY <1>1, <2>1, <2>2, <2>3, StillGone DEF MovesOn, TasksOnly
  <1>5. CASE Drop(t, k)
    <2>1. /\ UNCHANGED <<item, rec>> /\ chunks' = [chunks EXCEPT ![task[t][k].c] = {}] /\ Assembled(t, k)
      BY <1>5 DEF Drop, recorder
    <2>2. chunks'[c] = {}
      BY <1>0, <1>1, <2>1
    <2>3. AssembledTo(t, k) /\ FlushRests(t)
      BY <1>0, <2>1, AssembledEffect
    <2> QED
      BY <1>1, <2>1, <2>2, <2>3, StillGone DEF AssembledTo, TasksOnly, FlushRests, Idle
  <1>6. CASE Erase(t, k)
    <2>1. /\ UNCHANGED <<chunks, rec, flush>> /\ TaskTo(t, k, "wipe")
          /\ item' = [item EXCEPT ![task[t][k].c] = NoItem]
      BY <1>6 DEF Erase, recorder
    <2>2. MovesOn(t, k, "wipe")
      BY <1>0, <2>1, TaskMoves DEF TaskPlaces
    <2>3. item'[c] = NoItem
      BY <1>0, <2>1, OtherItem
    <2> QED
      BY <1>1, <2>1, <2>2, <2>3, StillGone DEF MovesOn, TasksOnly
  <1>7. CASE Wipe(t, k)
    <2>1. /\ UNCHANGED <<item, rec, flush>> /\ chunks' = [chunks EXCEPT ![task[t][k].c] = {}]
          /\ task' = [task EXCEPT ![t][k] = Idle]
      BY <1>7 DEF Wipe, recorder
    <2>2. TasksOnly(t, k) /\ task'[t][k] = Idle
      BY <1>0, <2>1, RestTypes, TaskSet
    <2>3. chunks'[c] = {}
      BY <1>0, <1>1, <2>1
    <2> QED
      BY <1>1, <2>1, <2>2, <2>3, StillGone DEF TasksOnly, Idle
  <1> QED
    BY <1>2, <1>3, <1>4, <1>5, <1>6, <1>7 DEF Save

LEMMA HandLeavesGone ==
  ASSUME RecordingInv, NEW t \in Tabs, Hand(t), NEW c \in Captures, Gone(c)
  PROVE  Gone(c)'
  <1>0. RecordingTypeOK /\ "stop" \in Tasks
    BY DEF RecordingInv, Tasks
  <1>1. rec[c] = "over" /\ chunks[c] = {} /\ item[c] = NoItem
    BY DEF Gone, Queued
  <1>2. CASE Attach(t)
    <2>1. UNCHANGED <<chunks, item, rec, flush>> /\ TaskTo(t, "stop", "erase")
      BY <1>2 DEF Attach, recorder
    <2>2. MovesOn(t, "stop", "erase")
      BY <1>0, <2>1, TaskMoves DEF TaskPlaces
    <2> QED
      BY <1>1, <2>1, <2>2, StillGone DEF MovesOn, TasksOnly
  <1>3. CASE AttachFails(t)
    <2>1. /\ UNCHANGED <<chunks, item, rec>> /\ task' = [task EXCEPT ![t]["stop"] = Idle]
          /\ StartFlush(t, TRUE)
      BY <1>3 DEF AttachFails, recorder
    <2>2. TasksOnly(t, "stop") /\ task'[t]["stop"] = Idle
      BY <1>0, <2>1, RestTypes, TaskSet
    <2>3. FlushRests(t)
      BY <1>0, <2>1, StartRests
    <2> QED
      BY <1>1, <2>1, <2>2, <2>3, StillGone DEF TasksOnly, FlushRests, Idle
  <1> QED
    BY <1>2, <1>3 DEF Hand

LEMMA RecorderLeavesGone ==
  ASSUME RecordingInv, NEW d \in Captures, Capture(d) \/ Elapse(d), NEW c \in Captures, Gone(c)
  PROVE  Gone(c)'
  <1>0. RecordingTypeOK /\ chunks \in [Captures -> Blob] /\ "stop" \in Tasks /\ home[d] \in Tabs
    BY DEF RecordingInv, RecordingTypeOK, Tasks
  <1>1. rec[c] = "over" /\ chunks[c] = {} /\ item[c] = NoItem
    BY DEF Gone, Queued
  <1>2. CASE RecordChunk(d)
    <2>1. /\ UNCHANGED <<item, task, flush>> /\ rec[d] # "over"
          /\ rec' = [rec EXCEPT ![d] = "recording"]
          /\ chunks' = [chunks EXCEPT ![d] = @ \cup {made'[d]}]
      BY <1>2 DEF RecordChunk
    <2>2. rec'[c] = "over" /\ chunks'[c] = {}
      BY <1>0, <1>1, <2>1 DEF RecordingTypeOK
    <2> QED
      BY <1>1, <2>1, <2>2, StillGone
  <1>3. CASE StopRecording(d)
    <2> DEFINE w == [Idle EXCEPT !.at = "get", !.c = d]
    <2>1. /\ UNCHANGED <<chunks, item, flush>> /\ rec' = [rec EXCEPT ![d] = "over"]
          /\ task' = [task EXCEPT ![home[d]]["stop"] = w]
      BY <1>3 DEF StopRecording
    <2>2. rec'[c] = "over"
      BY <1>0, <1>1, <2>1 DEF RecordingTypeOK
    <2>3. w \in Task /\ w.at = "get"
      BY RestTypes DEF Idle, Task
    <2>4. TasksOnly(home[d], "stop") /\ task'[home[d]]["stop"] = w
      <3> HIDE DEF w
      <3> QED
        BY <1>0, <2>1, <2>3, TaskSet
    <2> HIDE DEF w
    <2> QED
      BY <1>1, <2>1, <2>2, <2>3, <2>4, StillGone DEF TasksOnly
  <1>4. CASE Elapse(d)
    <2>1. /\ UNCHANGED <<chunks, rec, task, flush>> /\ Queued(d)
          /\ item' = [item EXCEPT ![d] = [item[d] EXCEPT !.next = "due"]]
      BY <1>4 DEF Elapse, recorder
    <2>2. item'[c] = NoItem
      BY <1>0, <1>1, <2>1, OtherItem DEF Queued
    <2> QED
      BY <1>1, <2>1, <2>2, StillGone
  <1> QED
    BY <1>2, <1>3, <1>4 DEF Capture

LEMMA PageLeavesGone ==
  ASSUME RecordingInv, NEW t \in Tabs,
         Open(t) \/ Navigate(t) \/ Wake(t) \/ Timer(t) \/ Close(t) \/ \E d \in Captures : Remove(t, d),
         NEW c \in Captures, Gone(c)
  PROVE  Gone(c)'
  <1>0. RecordingTypeOK /\ "mount" \in Tasks /\ "user" \in Tasks
    BY DEF RecordingInv, Tasks
  <1>1. rec[c] = "over" /\ chunks[c] = {} /\ item[c] = NoItem
    BY DEF Gone, Queued
  <1>2. CASE Mount(t)
    <2> DEFINE found == {d \in Captures : chunks[d] # {}} \ Active(t)
    <2>1. UNCHANGED <<chunks, item, rec>>
      BY <1>2 DEF Mount, recorder
    <2>2. CASE found = {}
      <3>1. FlushRests(t) /\ task' = task
        BY <1>0, <1>2, <2>2, StartRests DEF Mount
      <3> QED
        BY <1>1, <2>1, <3>1, StillGone DEF FlushRests
    <2>3. CASE found # {}
      <3>1. Assemble(t, "mount", found) /\ flush' = flush /\ found \in SUBSET Captures
        BY <1>2, <2>3 DEF Mount
      <3>2. TasksOnly(t, "mount") /\ task'[t]["mount"].at = "get"
        <4> HIDE DEF found
        <4> QED
          BY <1>0, <3>1, AssembleTo
      <3> QED
        BY <1>1, <2>1, <3>1, <3>2, StillGone DEF TasksOnly
    <2> QED
      BY <2>2, <2>3
  <1>3. ASSUME NEW force \in BOOLEAN, StartFlush(t, force), UNCHANGED <<chunks, item, rec, task>>
        PROVE  Gone(c)'
    BY <1>0, <1>1, <1>3, StartRests, StillGone DEF FlushRests
  <1>4. CASE Wake(t) \/ Timer(t)
    BY <1>3, <1>4 DEF Wake, Show, Retry, Ask, Timer, recorder
  <1>5. CASE Close(t)
    <2>1. /\ UNCHANGED <<chunks, item>>
          /\ rec' = [d \in Captures |-> IF home[d] = t /\ rec[d] = "recording" THEN "over" ELSE rec[d]]
          /\ task' = [task EXCEPT ![t] = [k \in Tasks |-> Idle]]
          /\ flush' = [flush EXCEPT ![t] = NoFlush]
      BY <1>5 DEF Close
    <2>2. rec'[c] = "over"
      BY <1>1, <2>1
    <2>3. \A s \in Tabs : flush'[s] = flush[s] \/ flush'[s].at = "off"
      BY <1>0, <2>1 DEF RecordingTypeOK, NoFlush
    <2>4. \A s \in Tabs, k \in Tasks : task'[s][k] = task[s][k] \/ task'[s][k].at = "idle"
      BY <1>0, <2>1 DEF RecordingTypeOK, Idle
    <2> QED
      BY <1>1, <2>1, <2>2, <2>3, <2>4, StillGone
  <1>6. ASSUME NEW d \in Captures, Remove(t, d) PROVE Gone(c)'
    <2> DEFINE w == [Idle EXCEPT !.at = "erase", !.c = d]
    <2>1. UNCHANGED <<chunks, item, rec, flush>> /\ task' = [task EXCEPT ![t]["user"] = w]
      BY <1>6 DEF Remove, recorder
    <2>2. w \in Task /\ w.at = "erase"
      BY RestTypes DEF Idle, Task
    <2> HIDE DEF w
    <2>3. TasksOnly(t, "user") /\ task'[t]["user"] = w
      BY <1>0, <2>1, <2>2, TaskSet, ZenonT(60)
    <2> QED
      BY <1>1, <2>1, <2>2, <2>3, StillGone DEF TasksOnly
  <1> QED
    BY <1>2, <1>4, <1>5, <1>6 DEF Open, Navigate

(* What left the browser does not come back, for every number of tabs,      *)
(* captures, chunks and faults: only an upload or an assembly under way     *)
(* writes an item from what it read before.                                 *)
THEOREM GoneStaysGone == RecordingSpec => GoneForGood
  <1>1. RecordingInv /\ [RecordingNext]_recordingVars =>
          [\A c \in Captures : Gone(c) => Gone(c)']_recordingVars
    <2> SUFFICES ASSUME RecordingInv, RecordingNext, NEW c \in Captures, Gone(c) PROVE Gone(c)'
      OBVIOUS
    <2>1. CASE SignOut \/ SignIn
      <3>1. UNCHANGED <<chunks, item, rec, task, flush>>
        BY <2>1 DEF SignOut, SignIn, recorder
      <3> QED
        BY <3>1 DEF Gone, Queued, TaskAt
    <2> QED
      BY <2>1, UploadLeavesGone, SaveLeavesGone, HandLeavesGone, RecorderLeavesGone, PageLeavesGone
         DEF RecordingNext
  <1> QED
    BY <1>1, RecordingHolds, PTL DEF RecordingSpec, GoneForGood

-----------------------------------------------------------------------------
(* The route that takes an upload.                                          *)

(* Places past the creation of the meeting, which is then known.            *)
Past == {"find", "reuse", "asset", "promote", "record", "add", "answered"}

(* Places before a job is recorded.                                         *)
Early == {"new", "meeting", "find", "reuse", "asset", "promote", "record"}

MeetingKnown == \A r \in Requests : req[r].at \in Past => req[r].of # 0

TypeInv == TypeOK /\ MeetingKnown

(* Uploads that never overlapped run one at a time.                         *)
Lone == ~overlap => \A r, s \in Running : r = s

(* The meeting that uploads name is there, and none of them made it.        *)
TargetKept == target => meeting # 0 /\ \A r \in Requests : ~req[r].mine

-----------------------------------------------------------------------------
(* What each action does to its request.                                    *)
Only(r) ==
  /\ req' \in [Requests -> Request]
  /\ \A s \in Requests : s # r => req'[s] = req[s]

Goes(r, where) ==
  /\ Only(r) /\ req'[r].at = where
  /\ req'[r].file = req[r].file /\ req'[r].mine = req[r].mine
  /\ req'[r].of = req[r].of /\ req'[r].asset = req[r].asset /\ req'[r].cut = req[r].cut

LEMMA PlacesThere ==
  /\ "new" \in Places /\ "meeting" \in Places /\ "find" \in Places /\ "reuse" \in Places
  /\ "asset" \in Places /\ "promote" \in Places /\ "record" \in Places /\ "add" \in Places /\ "error" \in Places
  /\ "discard" \in Places /\ "cleanup" \in Places /\ "answered" \in Places
  /\ "refused" \in Places /\ "dead" \in Places
  BY DEF Places

LEMMA GoesByGoto ==
  ASSUME TypeOK, NEW r \in Requests, NEW where \in Places, Goto(r, where)
  PROVE  Goes(r, where)
  BY DEF TypeOK, Goto, Request, Goes, Only

LEMMA ArriveEffect ==
  ASSUME TypeOK, NEW r \in Requests, Arrive(r)
  PROVE  /\ Only(r) /\ At(r, "new") /\ req'[r].at = "meeting"
         /\ req'[r].mine = req[r].mine /\ req'[r].of = req[r].of /\ req'[r].asset = req[r].asset
         /\ req'[r].cut = req[r].cut
         /\ IF asset # NoRequest
            THEN req'[r].file = "skipped" /\ UNCHANGED objects
            ELSE req'[r].file = "stored" /\ objects' = objects \cup {r}
         /\ overlap' = (overlap \/ Running # {})
         /\ UNCHANGED <<meeting, born, filled, asset, record, queued, target, faults, crashes>>
  <1>1. CASE asset # NoRequest
    BY <1>1, PlacesThere, ZenonT(60) DEF TypeOK, Arrive, Request, Only, place, jobs
  <1>2. CASE asset = NoRequest
    BY <1>2, PlacesThere, ZenonT(60) DEF TypeOK, Arrive, Request, Only, place, jobs
  <1> QED
    BY <1>1, <1>2

LEMMA MeetingEffect ==
  ASSUME TypeOK, NEW r \in Requests, Meeting(r)
  PROVE  /\ Only(r) /\ At(r, "meeting") /\ req'[r].at = "find"
         /\ req'[r].file = req[r].file /\ req'[r].asset = req[r].asset /\ req'[r].cut = req[r].cut
         /\ req'[r].of = meeting' /\ meeting' \in Nat /\ meeting' # 0
         /\ req'[r].mine = (meeting = 0)
         /\ born' \in Nat /\ meeting' <= born' /\ filled' \in BOOLEAN
         /\ meeting # 0 => meeting' = meeting
         /\ UNCHANGED <<asset, objects, record, queued, target, overlap, faults, crashes>>
  <1>1. UNCHANGED <<asset, objects, record, queued, target, overlap, faults, crashes>>
    BY DEF Meeting, media, jobs, ghosts
  <1>2. /\ At(r, "meeting")
        /\ meeting' \in Nat /\ meeting' # 0 /\ born' \in Nat /\ meeting' <= born'
        /\ filled' \in BOOLEAN /\ (meeting # 0 => meeting' = meeting)
    <2>1. CASE meeting # 0
      BY <2>1 DEF TypeOK, Meeting, place
    <2>2. CASE meeting = 0
      <3>1. born' = born + 1 /\ meeting' = born' /\ filled' = FALSE /\ At(r, "meeting")
        BY <2>2 DEF Meeting
      <3>2. born \in Nat
        BY DEF TypeOK
      <3>3. meeting' \in Nat /\ meeting' # 0 /\ born' \in Nat /\ meeting' <= born'
        BY <3>1, <3>2
      <3> QED
        BY <2>2, <3>1, <3>3
    <2> QED
      BY <2>1, <2>2
  <1>3. (meeting = 0) \in BOOLEAN
    OBVIOUS
  <1>4. Only(r) /\ req'[r].at = "find" /\ req'[r].file = req[r].file /\ req'[r].of = meeting'
        /\ req'[r].mine = (meeting = 0) /\ req'[r].asset = req[r].asset /\ req'[r].cut = req[r].cut
    BY <1>2, <1>3, PlacesThere, ZenonT(60) DEF TypeOK, Meeting, Request, Only
  <1> QED
    BY <1>1, <1>2, <1>4

LEMMA FindEffect ==
  ASSUME TypeOK, NEW r \in Requests, Find(r)
  PROVE  /\ Only(r) /\ At(r, "find")
         /\ req'[r].file = req[r].file /\ req'[r].mine = req[r].mine /\ req'[r].of = req[r].of
         /\ req'[r].cut = req[r].cut
         /\ \/ /\ Visible(r) /\ asset # NoRequest
               /\ objects' = IF req[r].file = "stored" THEN objects \ {r} ELSE objects
               /\ req'[r].at = "reuse" /\ req'[r].asset = asset
            \/ /\ ~Visible(r) \/ asset = NoRequest
               /\ req'[r].at = IF req[r].file = "stored" THEN "asset" ELSE "error"
               /\ req'[r].asset = req[r].asset /\ UNCHANGED objects
         /\ UNCHANGED <<meeting, born, filled, asset, record, queued, target, overlap, faults, crashes>>
  <1>1. /\ At(r, "find")
        /\ UNCHANGED <<meeting, born, filled, asset, record, queued, target, overlap, faults, crashes>>
    BY DEF Find, place, jobs, ghosts
  <1>2. CASE /\ Visible(r) /\ asset # NoRequest
             /\ objects' = IF req[r].file = "stored" THEN objects \ {r} ELSE objects
             /\ req' = [req EXCEPT ![r].at = "reuse", ![r].asset = asset]
    BY <1>1, <1>2, PlacesThere, ZenonT(60) DEF TypeOK, Request, Only
  <1>3. CASE /\ ~Visible(r) \/ asset = NoRequest
             /\ Goto(r, IF req[r].file = "stored" THEN "asset" ELSE "error")
             /\ UNCHANGED objects
    <2>1. (IF req[r].file = "stored" THEN "asset" ELSE "error") \in Places
      BY PlacesThere
    <2> QED
      BY <1>1, <1>3, <2>1, GoesByGoto DEF Goes
  <1> QED
    BY <1>2, <1>3 DEF Find

LEMMA ReuseEffect ==
  ASSUME TypeOK, NEW r \in Requests, Reuse(r)
  PROVE  /\ At(r, "reuse")
         /\ Goes(r, IF Visible(r) /\ Reusable(r) THEN "answered" ELSE "record")
         /\ UNCHANGED <<meeting, born, filled, asset, objects, record, queued, target, overlap,
                        faults, crashes>>
  BY GoesByGoto, PlacesThere DEF Reuse, place, media, jobs, ghosts

LEMMA AssetEffect ==
  ASSUME TypeOK, NEW r \in Requests, Asset(r)
  PROVE  /\ At(r, "asset")
         /\ IF Visible(r) /\ asset = NoRequest
            THEN asset' = r /\ Goes(r, "promote")
            ELSE UNCHANGED asset /\ Goes(r, "error")
         /\ UNCHANGED <<meeting, born, filled, objects, record, queued, target, overlap, faults, crashes>>
  BY PlacesThere, GoesByGoto DEF Asset, place, jobs, ghosts

LEMMA PromoteEffect ==
  ASSUME TypeOK, NEW r \in Requests, Promote(r)
  PROVE  /\ Only(r) /\ At(r, "promote") /\ req'[r].at = "record" /\ req'[r].asset = r
         /\ req'[r].file = req[r].file /\ req'[r].mine = req[r].mine /\ req'[r].of = req[r].of
         /\ req'[r].cut = req[r].cut
         /\ UNCHANGED <<meeting, born, filled, asset, objects, record, queued, target, overlap,
                        faults, crashes>>
  <1>1. r \in Object
    BY DEF Object
  <1> QED
    BY <1>1, PlacesThere DEF Promote, TypeOK, Request, Only, At, place, media, jobs, ghosts

LEMMA FaultEffect ==
  ASSUME TypeOK, Fault
  PROVE  faults' \in Nat /\ faults' > 0 /\ UNCHANGED <<target, overlap, crashes>>
  BY DEF TypeOK, Fault

LEMMA PromoteFailsEffect ==
  ASSUME TypeOK, NEW r \in Requests, PromoteFails(r)
  PROVE  /\ Only(r) /\ At(r, "promote") /\ req'[r].at = "error" /\ req'[r].asset = req[r].asset
         /\ req'[r].file = req[r].file /\ req'[r].mine = req[r].mine /\ req'[r].of = req[r].of
         /\ req'[r].cut /\ faults' \in Nat /\ faults' > 0
         /\ UNCHANGED <<meeting, born, filled, asset, objects, record, queued, target, overlap, crashes>>
  BY FaultEffect, PlacesThere DEF PromoteFails, TypeOK, Request, Only, At, place, media, jobs

LEMMA RecordEffect ==
  ASSUME TypeOK, NEW r \in Requests, RecordJob(r)
  PROVE  /\ At(r, "record") /\ record' \in [Requests -> Record]
         /\ record'[r].st = "queued" /\ record'[r].asset = req[r].asset
         /\ Visible(r) => record'[r].of = req[r].of
         /\ \A q \in Requests : q # r => record'[q] = record[q]
         /\ \/ record'[r].add = "due" /\ Goes(r, "add") /\ UNCHANGED faults
            \/ record'[r].add # "due" /\ Goes(r, "error") /\ faults' \in Nat /\ faults' > 0
         /\ UNCHANGED <<meeting, born, filled, asset, objects, queued, target, overlap, crashes>>
  <1> DEFINE row(add) == [st |-> "queued", of |-> IF Visible(r) THEN req[r].of ELSE 0,
                          asset |-> req[r].asset, add |-> add]
  <1>1. PICK add \in {"due", "never"} :
          /\ record' = [record EXCEPT ![r] = row(add)]
          /\ \/ add = "due" /\ Goto(r, "add") /\ UNCHANGED ghosts
             \/ add = "never" /\ Goto(r, "error") /\ Fault
    BY DEF RecordJob
  <1>2. /\ row(add) \in Record /\ row(add).st = "queued" /\ row(add).asset = req[r].asset
        /\ row(add).add = add /\ (Visible(r) => row(add).of = req[r].of)
    BY <1>1 DEF TypeOK, Request, Record
  <1> HIDE DEF row
  <1>3. /\ record' \in [Requests -> Record] /\ record'[r] = row(add)
        /\ \A q \in Requests : q # r => record'[q] = record[q]
    BY <1>1, <1>2 DEF TypeOK
  <1>4. /\ \/ add = "due" /\ Goes(r, "add") /\ UNCHANGED faults
           \/ add = "never" /\ Goes(r, "error") /\ faults' \in Nat /\ faults' > 0
        /\ UNCHANGED <<target, overlap, crashes>>
    BY <1>1, GoesByGoto, PlacesThere, FaultEffect DEF ghosts
  <1>5. At(r, "record") /\ UNCHANGED <<meeting, born, filled, asset, objects, queued>>
    BY DEF RecordJob, place, media
  <1> QED
    BY <1>2, <1>3, <1>4, <1>5

LEMMA FailsEffect ==
  ASSUME TypeOK, NEW r \in Requests, Fails(r)
  PROVE  /\ req[r].at \in {"meeting", "find", "reuse", "asset", "record"} /\ Goes(r, "error")
         /\ \/ UNCHANGED <<meeting, born, filled>>
            \/ At(r, "meeting") /\ meeting = 0
         /\ meeting' \in Nat /\ born' \in Nat /\ meeting' <= born' /\ filled' \in BOOLEAN
         /\ meeting # 0 => meeting' = meeting
         /\ faults' \in Nat /\ faults' > 0
         /\ UNCHANGED <<asset, objects, record, queued, target, overlap, crashes>>
  <1>1. /\ req[r].at \in {"meeting", "find", "reuse", "asset", "record"} /\ Goes(r, "error")
        /\ faults' \in Nat /\ faults' > 0
        /\ UNCHANGED <<asset, objects, record, queued, target, overlap, crashes>>
    BY FaultEffect, GoesByGoto, PlacesThere DEF Fails, media, jobs
  <1>2. CASE UNCHANGED place
    BY <1>1, <1>2 DEF place, TypeOK
  <1>3. CASE At(r, "meeting") /\ meeting = 0 /\ born' = born + 1 /\ meeting' = born' /\ filled' = FALSE
    <2>1. born \in Nat
      BY DEF TypeOK
    <2>2. born' = born + 1 /\ meeting' = born'
      BY <1>3
    <2>3. meeting' \in Nat /\ born' \in Nat /\ meeting' <= born'
      BY <2>1, <2>2
    <2>4. meeting' \in Nat /\ born' \in Nat /\ meeting' <= born' /\ filled' \in BOOLEAN
      BY <1>3, <2>3, Zenon
    <2> QED
      BY <1>1, <1>3, <2>4
  <1> QED
    BY <1>2, <1>3 DEF Fails

LEMMA AddEffect ==
  ASSUME TypeOK, NEW r \in Requests, Add(r)
  PROVE  /\ At(r, "add") /\ Goes(r, "answered") /\ queued' = queued \cup {r}
         /\ UNCHANGED <<meeting, born, filled, asset, objects, record, target, overlap, faults, crashes>>
  BY GoesByGoto, PlacesThere DEF Add, place, media, ghosts

LEMMA AddFailsEffect ==
  ASSUME TypeOK, NEW r \in Requests, AddFails(r)
  PROVE  /\ At(r, "add") /\ Goes(r, "error") /\ faults' \in Nat /\ faults' > 0
         /\ record' \in [Requests -> Record]
         /\ record'[r].st \in {"queued", "failed"} /\ record'[r].add = "lost"
         /\ record'[r].of = record[r].of /\ record'[r].asset = record[r].asset
         /\ \A q \in Requests : q # r => record'[q] = record[q]
         /\ UNCHANGED <<meeting, born, filled, asset, objects, queued, target, overlap, crashes>>
  <1>1. PICK st \in {"queued", "failed"} : record' = [record EXCEPT ![r].st = st, ![r].add = "lost"]
    BY DEF AddFails
  <1>2. /\ record' \in [Requests -> Record]
        /\ record'[r].st = st /\ record'[r].add = "lost" /\ record'[r].of = record[r].of
        /\ record'[r].asset = record[r].asset
        /\ \A q \in Requests : q # r => record'[q] = record[q]
    BY <1>1 DEF TypeOK, Record
  <1>3. Fault /\ At(r, "add") /\ Goto(r, "error") /\ UNCHANGED <<meeting, born, filled, asset, objects, queued>>
    BY DEF AddFails, place, media
  <1> QED
    BY <1>1, <1>2, <1>3, FaultEffect, GoesByGoto, PlacesThere

LEMMA ErrorEffect ==
  ASSUME TypeOK, NEW r \in Requests, Error(r)
  PROVE  /\ At(r, "error") /\ Goes(r, IF req[r].mine THEN "discard" ELSE "refused")
         /\ objects' = IF req[r].asset = NoRequest THEN objects \ {r} ELSE objects
         /\ UNCHANGED <<meeting, born, filled, asset, record, queued, target, overlap, faults, crashes>>
  BY GoesByGoto, PlacesThere DEF Error, place, jobs, ghosts

LEMMA DiscardEffect ==
  ASSUME TypeOK, NEW r \in Requests, Discard(r)
  PROVE  /\ At(r, "discard")
         /\ \/ /\ Visible(r) /\ meeting' = 0 /\ asset' = NoRequest /\ Goes(r, "cleanup")
               /\ record' \in [Requests -> Record]
               /\ \A q \in Requests : /\ record'[q].st = record[q].st /\ record'[q].asset = record[q].asset
                                      /\ record'[q].add = record[q].add
            \/ UNCHANGED <<meeting, asset, record>> /\ Goes(r, "refused")
         /\ UNCHANGED <<born, filled, objects, queued, target, overlap, faults, crashes>>
  <1>1. UNCHANGED <<born, filled, objects, queued, target, overlap, faults, crashes>>
    BY DEF Discard, ghosts
  <1>2. CASE Visible(r) /\ ~filled
    <2>1. record' = [q \in Requests |-> IF record[q].of = meeting THEN [record[q] EXCEPT !.of = 0]
                                                                   ELSE record[q]]
      BY <1>2 DEF Discard
    <2>2. ASSUME NEW q \in Requests
          PROVE  /\ record'[q] \in Record /\ record'[q].st = record[q].st
                 /\ record'[q].asset = record[q].asset /\ record'[q].add = record[q].add
      BY <2>1 DEF TypeOK, Record
    <2>3. record' \in [Requests -> Record]
      BY <2>1, <2>2
    <2> QED
      BY <1>1, <1>2, <2>2, <2>3, GoesByGoto, PlacesThere DEF Discard
  <1>3. CASE ~(Visible(r) /\ ~filled)
    BY <1>1, <1>3, GoesByGoto, PlacesThere DEF Discard
  <1> QED
    BY <1>2, <1>3

LEMMA DiscardFailsEffect ==
  ASSUME TypeOK, NEW r \in Requests, DiscardFails(r)
  PROVE  /\ At(r, "discard") /\ Goes(r, "refused") /\ faults' \in Nat /\ faults' > 0
         /\ UNCHANGED <<meeting, born, filled, asset, objects, record, queued, target, overlap, crashes>>
  BY GoesByGoto, PlacesThere, FaultEffect DEF DiscardFails, place, media, jobs

LEMMA CleanupEffect ==
  ASSUME TypeOK, NEW r \in Requests, Cleanup(r)
  PROVE  /\ At(r, "cleanup") /\ Goes(r, "refused") /\ objects' = objects \ {r}
         /\ UNCHANGED <<meeting, born, filled, asset, record, queued, target, overlap, faults, crashes>>
  BY GoesByGoto, PlacesThere DEF Cleanup, place, jobs, ghosts

LEMMA CrashEffect ==
  ASSUME TypeOK, NEW r \in Requests, Crash(r)
  PROVE  /\ r \in Running /\ Goes(r, "dead") /\ crashes' \in Nat /\ crashes' > 0
         /\ UNCHANGED <<meeting, born, filled, asset, objects, record, queued, target, overlap, faults>>
  <1>1. crashes' \in Nat /\ crashes' > 0
    BY DEF Crash, TypeOK
  <1> QED
    BY <1>1, GoesByGoto, PlacesThere DEF Crash, place, media, jobs

LEMMA LateEffect ==
  ASSUME TypeOK, NEW r \in Requests, AddLate(r)
  PROVE  /\ record[r].add = "lost" /\ queued' = queued \cup {r}
         /\ UNCHANGED <<meeting, born, filled, asset, objects, record, req, target, overlap,
                        faults, crashes>>
  BY DEF AddLate, place, media, ghosts

LEMMA ProcessEffect ==
  ASSUME TypeOK, NEW r \in Requests, Process(r)
  PROVE  /\ r \in queued /\ record[r].of = meeting /\ asset = record[r].asset /\ asset \in objects
         /\ filled' = TRUE /\ record' \in [Requests -> Record]
         /\ record'[r].st = "done" /\ record'[r].of = record[r].of
         /\ record'[r].asset = record[r].asset /\ record'[r].add = record[r].add
         /\ \A q \in Requests : q # r => record'[q] = record[q]
         /\ UNCHANGED <<meeting, born, asset, objects, queued, req, target, overlap, faults, crashes>>
  <1>1. /\ record' \in [Requests -> Record]
        /\ record'[r].st = "done" /\ record'[r].of = record[r].of
        /\ record'[r].asset = record[r].asset /\ record'[r].add = record[r].add
        /\ \A q \in Requests : q # r => record'[q] = record[q]
    BY DEF Process, TypeOK, Record
  <1> QED
    BY <1>1 DEF Process, media, ghosts

-----------------------------------------------------------------------------
(* Types.                                                                   *)
LEMMA TypeInit == Init => TypeInv
  <1> SUFFICES ASSUME Init PROVE TypeInv
    OBVIOUS
  <1>1. NoRecord \in Record
    BY DEF NoRecord, Record, Object
  <1>2. [at |-> "new", file |-> "none", mine |-> FALSE, of |-> 0,
        asset |-> NoRequest, cut |-> FALSE] \in Request
    BY PlacesThere DEF Request, Object
  <1>3. born \in Nat /\ meeting \in Nat /\ meeting <= born
    BY DEF Init
  <1>4. record \in [Requests -> Record] /\ req \in [Requests -> Request]
    BY <1>1, <1>2 DEF Init
  <1>5. TypeOK
    <2>1. filled \in BOOLEAN /\ target \in BOOLEAN /\ overlap \in BOOLEAN
      BY DEF Init
    <2>2. asset \in Object /\ objects \subseteq Requests /\ queued \subseteq Requests
      BY DEF Init, Object
    <2>3. faults \in Nat /\ crashes \in Nat
      BY DEF Init
    <2>4. asset = NoRequest
      BY DEF Init
    <2> QED
      BY <1>3, <1>4, <2>1, <2>2, <2>3, <2>4 DEF TypeOK
  <1>6. MeetingKnown
    BY DEF Init, MeetingKnown, Past
  <1> QED
    BY <1>5, <1>6 DEF TypeInv

LEMMA TypeStep == TypeInv /\ [Next]_vars => TypeInv'
  <1> SUFFICES ASSUME TypeInv, [Next]_vars PROVE TypeInv'
    OBVIOUS
  <1>1. TypeOK
    BY DEF TypeInv
  <1> USE DEF TypeInv, MeetingKnown, Past, At
  <1>2. ASSUME NEW r \in Requests, Arrive(r) PROVE TypeInv'
    BY <1>1, <1>2, ArriveEffect, ZenonT(60) DEF TypeOK, Only
  <1>3. ASSUME NEW r \in Requests, Meeting(r) PROVE TypeInv'
    BY <1>1, <1>3, MeetingEffect DEF TypeOK, Only
  <1>4. ASSUME NEW r \in Requests, Find(r) PROVE TypeInv'
    BY <1>1, <1>4, FindEffect DEF TypeOK, Only
  <1>5. ASSUME NEW r \in Requests, Reuse(r) PROVE TypeInv'
    BY <1>1, <1>5, ReuseEffect DEF TypeOK, Goes, Only
  <1>6. ASSUME NEW r \in Requests, Asset(r) PROVE TypeInv'
    <2>1. asset' \in Object /\ (asset' # NoRequest => meeting' # 0)
      BY <1>1, <1>6, AssetEffect DEF TypeOK, Visible, Object
    <2> QED
      BY <1>1, <1>6, <2>1, AssetEffect DEF TypeOK, Goes, Only
  <1>7. ASSUME NEW r \in Requests, RecordJob(r) PROVE TypeInv'
    BY <1>1, <1>7, RecordEffect, ZenonT(60) DEF TypeOK, Goes, Only
  <1>8. ASSUME NEW r \in Requests, Add(r) PROVE TypeInv'
    BY <1>1, <1>8, AddEffect DEF TypeOK, Goes, Only
  <1>9. ASSUME NEW r \in Requests, AddFails(r) PROVE TypeInv'
    BY <1>1, <1>9, AddFailsEffect DEF TypeOK, Goes, Only
  <1>10. ASSUME NEW r \in Requests, Error(r) PROVE TypeInv'
    BY <1>1, <1>10, ErrorEffect DEF TypeOK, Goes, Only
  <1>11. ASSUME NEW r \in Requests, Discard(r) PROVE TypeInv'
    BY <1>1, <1>11, DiscardEffect DEF TypeOK, Goes, Only, Object
  <1>12. ASSUME NEW r \in Requests, Cleanup(r) PROVE TypeInv'
    BY <1>1, <1>12, CleanupEffect DEF TypeOK, Goes, Only
  <1>13. ASSUME NEW r \in Requests, Crash(r) PROVE TypeInv'
    BY <1>1, <1>13, CrashEffect DEF TypeOK, Goes, Only
  <1>14. ASSUME NEW r \in Requests, AddLate(r) PROVE TypeInv'
    BY <1>1, <1>14, LateEffect DEF TypeOK
  <1>15. ASSUME NEW r \in Requests, Process(r) PROVE TypeInv'
    BY <1>1, <1>15, ProcessEffect DEF TypeOK
  <1>16. ASSUME NEW r \in Requests, Promote(r) \/ PromoteFails(r) PROVE TypeInv'
    <2>1. /\ Only(r) /\ req'[r].at \in {"record", "error"}
          /\ req'[r].of = req[r].of /\ req[r].at = "promote" /\ faults' \in Nat
          /\ UNCHANGED <<meeting, born, filled, asset, objects, record, queued, target, overlap, crashes>>
      BY <1>1, <1>16, PromoteEffect, PromoteFailsEffect DEF TypeOK
    <2> QED
      BY <1>1, <2>1 DEF TypeOK, Only
  <1>17. ASSUME NEW r \in Requests, Fails(r) PROVE TypeInv'
    <2>1. /\ Goes(r, "error") /\ UNCHANGED <<asset, objects, record, queued, target, overlap, crashes>>
          /\ meeting' \in Nat /\ born' \in Nat /\ meeting' <= born' /\ filled' \in BOOLEAN
          /\ faults' \in Nat /\ (meeting # 0 => meeting' = meeting)
      BY <1>1, <1>17, FailsEffect
    <2> QED
      BY <1>1, <2>1 DEF TypeOK, Goes, Only
  <1>18. ASSUME NEW r \in Requests, DiscardFails(r) PROVE TypeInv'
    BY <1>1, <1>18, DiscardFailsEffect DEF TypeOK, Goes, Only
  <1>19. CASE UNCHANGED vars
    BY <1>19 DEF vars, TypeOK, place, media, jobs, ghosts
  <1> QED
    BY <1>2, <1>3, <1>4, <1>5, <1>6, <1>7, <1>8, <1>9, <1>10, <1>11, <1>12, <1>13, <1>14, <1>15,
       <1>16, <1>17, <1>18, <1>19 DEF Next, Step

(* The variables keep their types; an asset is of a meeting that is there.  *)
THEOREM TypeCorrect == Spec => []TypeInv
  <1> QED
    BY TypeInit, TypeStep, PTL DEF Spec

-----------------------------------------------------------------------------
(* One at a time, and the target.                                           *)

Runs(r) == req[r].at \notin {"new", "answered", "refused", "dead"}

LEMMA RunningIs == \A r \in Requests : r \in Running <=> Runs(r)
  BY DEF Running, Runs

LEMMA LoneInit == Init => Lone /\ TargetKept
  BY DEF Init, Lone, TargetKept, Running

(* Every action but an arrival is of a request that runs.                   *)
LEMMA RunStep ==
  ASSUME TypeOK, NEW r \in Requests, Step(r) \/ Crash(r), ~Arrive(r)
  PROVE  Runs(r) /\ Only(r) /\ overlap' = overlap
  <1> USE DEF Runs, At
  <1>1. ASSUME Meeting(r) \/ Find(r) \/ Promote(r) \/ PromoteFails(r)
        PROVE  Runs(r) /\ Only(r) /\ overlap' = overlap
    BY <1>1, MeetingEffect, FindEffect, PromoteEffect, PromoteFailsEffect
  <1>4. ASSUME Asset(r) \/ Fails(r) \/ DiscardFails(r)
        PROVE  Runs(r) /\ Only(r) /\ overlap' = overlap
    BY <1>4, AssetEffect, FailsEffect, DiscardFailsEffect DEF Goes
  <1>2. ASSUME Reuse(r) \/ RecordJob(r) \/ Add(r) \/ AddFails(r)
        PROVE  Runs(r) /\ Only(r) /\ overlap' = overlap
    BY <1>2, ReuseEffect, RecordEffect, AddEffect, AddFailsEffect DEF Goes
  <1>3. ASSUME Error(r) \/ Discard(r) \/ Cleanup(r) \/ Crash(r)
        PROVE  Runs(r) /\ Only(r) /\ overlap' = overlap
    BY <1>3, ErrorEffect, DiscardEffect, CleanupEffect, CrashEffect, RunningIs DEF Goes
  <1> QED
    BY <1>1, <1>2, <1>3, <1>4 DEF Step

LEMMA LoneStep == TypeInv /\ Lone /\ [Next]_vars => Lone'
  <1> SUFFICES ASSUME TypeInv, Lone, [Next]_vars, ~overlap',
                      NEW r \in Requests, NEW s \in Requests, Runs(r)', Runs(s)'
               PROVE  r = s
    BY DEF Lone, Running, Runs
  <1>1. TypeOK
    BY DEF TypeInv
  <1> USE DEF Runs, At
  <1>2. \A p, q \in Requests : ~overlap /\ Runs(p) /\ Runs(q) => p = q
    BY RunningIs DEF Lone
  <1>3. ASSUME NEW q \in Requests, Arrive(q) PROVE r = s
    <2>1. Running = {}
      BY <1>1, <1>3, ArriveEffect
    <2>2. \A p \in Requests : p # q => ~Runs(p)'
      BY <1>1, <1>3, <2>1, ArriveEffect, RunningIs DEF Only
    <2> QED
      BY <2>2
  <1>4. ASSUME NEW q \in Requests, Step(q) \/ Crash(q), ~Arrive(q) PROVE r = s
    <2>1. Runs(q) /\ Only(q) /\ overlap' = overlap
      BY <1>1, <1>4, RunStep
    <2>2. \A p \in Requests : Runs(p)' => Runs(p)
      BY <2>1 DEF Only
    <2> QED
      BY <1>2, <2>1, <2>2
  <1>5. ASSUME NEW q \in Requests, AddLate(q) \/ Process(q) PROVE r = s
    <2>1. UNCHANGED <<req, overlap>>
      BY <1>1, <1>5, LateEffect, ProcessEffect
    <2> QED
      BY <1>2, <2>1
  <1>6. CASE UNCHANGED vars
    BY <1>2, <1>6 DEF vars
  <1> QED
    BY <1>3, <1>4, <1>5, <1>6 DEF Next

-----------------------------------------------------------------------------
(* What a request knows of the meeting, the asset and its object, unless    *)
(* uploads without a target overlapped.                                     *)
MeetingFact(r) ==
  /\ req[r].at \in Past => req[r].of = meeting
  /\ req[r].at \in {"discard", "cleanup"} => req[r].mine
  /\ At(r, "new") => ~req[r].mine
  /\ r \in Running /\ req[r].mine => asset \in {NoRequest, r} /\ Answered = {}

AssetFact(r) ==
  /\ req[r].at \in {"reuse", "record", "add", "answered"} => req[r].asset = asset /\ asset # NoRequest
  /\ req[r].at \in {"new", "meeting", "find", "asset", "promote"} => req[r].asset = NoRequest
  /\ asset = r => req[r].asset = r \/ req[r].cut \/ req[r].at \in {"promote", "dead"}
  /\ At(r, "promote") => asset = r
  /\ req[r].cut => req[r].at \in {"error", "discard", "cleanup", "refused", "dead"}
  /\ At(r, "cleanup") => asset = NoRequest
  /\ req[r].at \in {"meeting", "find"} /\ req[r].file # "stored" => asset # NoRequest

ObjectFact(r) ==
  /\ At(r, "new") => r \notin objects
  /\ req[r].at \in {"meeting", "find"} => (r \in objects <=> req[r].file = "stored")
  /\ req[r].at \in {"asset", "promote"} => r \in objects
  /\ req[r].at \in {"reuse", "record", "add", "answered", "refused", "discard"} /\ r \in objects =>
       asset = r
  /\ At(r, "error") /\ r \in objects => asset = r \/ req[r].asset = NoRequest

Facts(r) == MeetingFact(r) /\ AssetFact(r) /\ ObjectFact(r)

ApartInv ==
  Apart => /\ asset # NoRequest => asset \in objects \/ req[asset].cut
           /\ \A r \in Requests : Facts(r)

LEMMA ApartInit == Init => ApartInv
  <1> SUFFICES ASSUME Init PROVE ApartInv
    OBVIOUS
  <1>1. asset = NoRequest
    BY DEF Init
  <1>2. ASSUME NEW r \in Requests PROVE Facts(r)
    BY <1>1, <1>2, IngestAssumption
       DEF Init, Facts, MeetingFact, AssetFact, ObjectFact, Past, At, Running
  <1> QED
    BY <1>1, <1>2 DEF ApartInv

(* The set of the answered, by its members.                                 *)
LEMMA AnsweredIs ==
  /\ Answered = {} <=> \A r \in Requests : ~At(r, "answered")
  /\ Answered' = {} <=> \A r \in Requests : ~At(r, "answered")'
  BY DEF Answered, At

(* A request that made the meeting runs alone.                              *)
LEMMA MakerIsAlone ==
  ASSUME TargetKept, Lone, Apart, NEW r \in Requests, r \in Running, req[r].mine
  PROVE  \A s \in Requests : s \in Running => s = r
  BY DEF TargetKept, Lone, Apart

(* An action of one request, that changes at most that request, its object  *)
(* and its answer, keeps the facts of the others, if meeting and asset stay.*)
LEMMA OthersKeep ==
  ASSUME TypeInv, TargetKept, Lone, ApartInv, Apart, NEW r \in Requests, Only(r), Facts(r)',
         r \in Running, UNCHANGED <<meeting, asset>>,
         \A s \in Requests : s # r => (s \in objects' <=> s \in objects),
         req[r].cut => req'[r].cut,
         asset # r \/ (r \in objects' <=> r \in objects) \/ req'[r].cut
  PROVE  ApartInv'
  <1>1. ASSUME NEW s \in Requests, s # r PROVE Facts(s)'
    <2>1. Facts(s) /\ req'[s] = req[s]
      BY <1>1 DEF ApartInv, Only
    <2>2. MeetingFact(s)'
      <3>1. s \in Running' => s \in Running
        BY <2>1 DEF Running
      <3>2. s \in Running /\ req[s].mine => FALSE
        BY <1>1, MakerIsAlone
      <3> QED
        BY <2>1, <3>1, <3>2 DEF Facts, MeetingFact, At
    <2>3. AssetFact(s)' /\ ObjectFact(s)'
      BY <1>1, <2>1 DEF Facts, AssetFact, ObjectFact, At
    <2> QED
      BY <2>2, <2>3 DEF Facts
  <1>2. asset' # NoRequest => asset' \in objects' \/ req'[asset'].cut
    <2>1. asset \in Requests \cup {NoRequest} /\ (asset # NoRequest => asset \in objects \/ req[asset].cut)
      BY DEF ApartInv, TypeInv, TypeOK, Object
    <2>2. CASE asset = r
      BY <2>1, <2>2
    <2>3. CASE asset # r
      BY <2>1, <2>3 DEF Only
    <2> QED
      BY <2>2, <2>3
  <1> QED
    BY <1>1, <1>2 DEF ApartInv

(* Whether uploads ran apart is decided for good when they do not.          *)
LEMMA ApartBefore ==
  ASSUME TypeInv, [Next]_vars
  PROVE  (Apart' => Apart) /\ target' = target
  <1>1. TypeOK
    BY DEF TypeInv
  <1>3. ASSUME NEW r \in Requests, Arrive(r) PROVE target' = target /\ (overlap => overlap')
    BY <1>1, <1>3, ArriveEffect
  <1>4. ASSUME NEW r \in Requests, \/ Promote(r) \/ PromoteFails(r) \/ Fails(r) \/ DiscardFails(r)
                                    \/ Find(r) \/ Meeting(r) \/ Asset(r) \/ Reuse(r)
        PROVE  target' = target /\ overlap' = overlap
    BY <1>1, <1>4, PromoteEffect, PromoteFailsEffect, FailsEffect, DiscardFailsEffect, FindEffect,
       MeetingEffect, AssetEffect, ReuseEffect
  <1>5. ASSUME NEW r \in Requests, \/ RecordJob(r) \/ Add(r) \/ AddFails(r) \/ Error(r) \/ Discard(r)
                                    \/ Cleanup(r) \/ Crash(r) \/ AddLate(r) \/ Process(r)
        PROVE  target' = target /\ overlap' = overlap
    BY <1>1, <1>5, RecordEffect, AddEffect, AddFailsEffect, ErrorEffect, DiscardEffect, CleanupEffect,
       CrashEffect, LateEffect, ProcessEffect
  <1>2. target' = target /\ (overlap => overlap')
    BY <1>3, <1>4, <1>5 DEF Next, Step, vars
  <1> QED
    BY <1>2 DEF Apart

LEMMA TargetStep == TypeInv /\ TargetKept /\ Lone /\ ApartInv /\ [Next]_vars => TargetKept'
  <1> SUFFICES ASSUME TypeInv, TargetKept, Lone, ApartInv, [Next]_vars, target'
               PROVE  meeting' # 0 /\ \A r \in Requests : ~req'[r].mine
    BY DEF TargetKept
  <1>1. TypeOK /\ target /\ meeting # 0 /\ Apart /\ \A r \in Requests : ~req[r].mine
    BY ApartBefore DEF TypeInv, TargetKept, Apart
  <1>2. ASSUME NEW r \in Requests, Step(r) \/ Crash(r), ~Discard(r)
        PROVE  meeting' # 0 /\ ~req'[r].mine /\ Only(r)
    <2>1. CASE Arrive(r) \/ Meeting(r) \/ Find(r) \/ Promote(r) \/ PromoteFails(r)
      BY <1>1, <2>1, ArriveEffect, MeetingEffect, FindEffect, PromoteEffect, PromoteFailsEffect, ZenonT(60)
    <2>2. CASE Asset(r) \/ Fails(r) \/ DiscardFails(r) \/ Reuse(r) \/ RecordJob(r)
      BY <1>1, <2>2, AssetEffect, FailsEffect, DiscardFailsEffect, ReuseEffect, RecordEffect, ZenonT(60)
         DEF Goes
    <2>3. CASE Add(r) \/ AddFails(r) \/ Error(r) \/ Cleanup(r) \/ Crash(r)
      BY <1>1, <2>3, AddEffect, AddFailsEffect, ErrorEffect, CleanupEffect, CrashEffect, ZenonT(60) DEF Goes
    <2> QED
      BY <1>2, <2>1, <2>2, <2>3 DEF Step
  <1>3. ASSUME NEW r \in Requests, Discard(r) PROVE FALSE
    BY <1>1, <1>3, DiscardEffect DEF ApartInv, Facts, MeetingFact, At
  <1>4. ASSUME NEW r \in Requests, AddLate(r) \/ Process(r)
        PROVE  meeting' # 0 /\ \A s \in Requests : ~req'[s].mine
    BY <1>1, <1>4, LateEffect, ProcessEffect
  <1>5. CASE UNCHANGED vars
    BY <1>1, <1>5 DEF vars, place
  <1>6. ASSUME NEW r \in Requests, Step(r) \/ Crash(r)
        PROVE  meeting' # 0 /\ \A s \in Requests : ~req'[s].mine
    BY <1>1, <1>2, <1>3, <1>6 DEF Only
  <1> QED
    BY <1>4, <1>5, <1>6 DEF Next

-----------------------------------------------------------------------------
(* Each action keeps the facts.                                             *)
LEMMA MakerGoesOn ==
  ASSUME NEW r \in Requests, Only(r), ~At(r, "answered")', Answered = {}
  PROVE  Answered' = {}
  BY DEF Answered, At, Only

LEMMA FindKeeps ==
  ASSUME TypeInv, TargetKept, Lone, ApartInv, Apart, NEW r \in Requests, Find(r)
  PROVE  ApartInv'
  <1>1. TypeOK /\ Facts(r) /\ At(r, "find") /\ r \in Running
    BY FindEffect, RunningIs DEF TypeInv, ApartInv, At, Runs
  <1>2. /\ Only(r) /\ UNCHANGED <<meeting, asset>>
        /\ req'[r].file = req[r].file /\ req'[r].mine = req[r].mine /\ req'[r].of = req[r].of
        /\ req'[r].cut = req[r].cut /\ ~req[r].cut
    BY <1>1, FindEffect DEF Facts, AssetFact, At
  <1>3. \/ /\ Visible(r) /\ asset # NoRequest
           /\ objects' = IF req[r].file = "stored" THEN objects \ {r} ELSE objects
           /\ req'[r].at = "reuse" /\ req'[r].asset = asset
        \/ /\ ~Visible(r) \/ asset = NoRequest
           /\ req'[r].at = IF req[r].file = "stored" THEN "asset" ELSE "error"
           /\ req'[r].asset = req[r].asset /\ UNCHANGED objects
    BY <1>1, FindEffect
  <1>4. asset # r
    BY <1>1, IngestAssumption DEF Facts, AssetFact, At
  <1>5. MeetingFact(r)'
    <2>1. ~At(r, "answered")' /\ req'[r].at \notin {"discard", "cleanup"}
      BY <1>3 DEF At
    <2>2. req'[r].of = meeting'
      BY <1>1, <1>2 DEF Facts, MeetingFact, At, Past
    <2>3. req'[r].mine => asset' \in {NoRequest, r} /\ Answered' = {}
      BY <1>1, <1>2, <2>1, MakerGoesOn DEF Facts, MeetingFact
    <2> QED
      BY <1>3, <2>1, <2>2, <2>3 DEF MeetingFact, At
  <1>6. AssetFact(r)'
    BY <1>1, <1>2, <1>3, <1>4 DEF Facts, AssetFact, At
  <1>7. ObjectFact(r)'
    <2>1. CASE Visible(r) /\ asset # NoRequest
      BY <1>1, <1>2, <1>3, <2>1 DEF Facts, ObjectFact, At
    <2>2. CASE ~(Visible(r) /\ asset # NoRequest)
      <3>1. Visible(r)
        BY <1>1 DEF Facts, MeetingFact, Visible, At, Past
      <3>2. req[r].file = "stored"
        BY <1>1, <2>2, <3>1 DEF Facts, AssetFact, At
      <3> QED
        BY <1>1, <1>3, <2>2, <3>2 DEF Facts, ObjectFact, At
    <2> QED
      BY <2>1, <2>2
  <1>8. \A s \in Requests : s # r => (s \in objects' <=> s \in objects)
    BY <1>3
  <1> QED
    BY <1>1, <1>2, <1>4, <1>5, <1>6, <1>7, <1>8, OthersKeep DEF Facts

(* Steps that only move the request on, its object being left alone.        *)
LEMMA MoveKeeps ==
  ASSUME TypeInv, TargetKept, Lone, ApartInv, Apart, NEW r \in Requests, NEW where \in Places,
         r \in Running, Goes(r, where), UNCHANGED <<meeting, asset, objects>>,
         \/ At(r, "reuse") /\ where \in {"answered", "record"}
         \/ At(r, "record") /\ where = "add"
         \/ At(r, "add") /\ where = "answered"
         \/ req[r].at \in {"meeting", "find", "reuse", "asset", "record", "add"} /\ where = "error"
         \/ At(r, "discard") /\ where = "refused"
         \/ where = "dead"
  PROVE  ApartInv'
  <1>1. Facts(r)
    BY DEF ApartInv
  <1>2. MeetingFact(r)'
    <2>1. req'[r].at \in Past => req'[r].of = meeting'
      BY <1>1 DEF Facts, MeetingFact, At, Goes, Past
    <2>2. req'[r].at \notin {"discard", "cleanup"}
      BY DEF Goes
    <2>3. r \in Running' /\ req'[r].mine => asset' \in {NoRequest, r} /\ Answered' = {}
      <3>1. r \in Running' => ~At(r, "answered")'
        BY DEF Running, At
      <3> QED
        BY <1>1, <3>1, MakerGoesOn DEF Facts, MeetingFact, Goes
    <2> QED
      BY <1>1, <2>1, <2>2, <2>3 DEF Facts, MeetingFact, At, Goes
  <1>3. AssetFact(r)'
    BY <1>1 DEF Facts, AssetFact, At, Goes
  <1>4. ObjectFact(r)'
    BY <1>1 DEF Facts, AssetFact, ObjectFact, At, Goes
  <1> QED
    BY <1>2, <1>3, <1>4, OthersKeep DEF Facts, Goes

LEMMA ErrorKeeps ==
  ASSUME TypeInv, TargetKept, Lone, ApartInv, Apart, NEW r \in Requests, Error(r)
  PROVE  ApartInv'
  <1>1. /\ TypeOK /\ Facts(r) /\ At(r, "error") /\ r \in Running
        /\ Goes(r, IF req[r].mine THEN "discard" ELSE "refused")
        /\ objects' = IF req[r].asset = NoRequest THEN objects \ {r} ELSE objects
        /\ UNCHANGED <<meeting, asset>>
    BY ErrorEffect, RunningIs DEF TypeInv, ApartInv, At, Runs
  <1>2. MeetingFact(r)'
    <2>1. ~At(r, "answered")'
      BY <1>1 DEF At, Goes
    <2> QED
      BY <1>1, <2>1, MakerGoesOn DEF Facts, MeetingFact, At, Goes, Past, Running
  <1>3. AssetFact(r)'
    BY <1>1 DEF Facts, AssetFact, At, Goes
  <1>4. ObjectFact(r)'
    BY <1>1 DEF Facts, ObjectFact, At, Goes
  <1>5. asset # r \/ (r \in objects' <=> r \in objects) \/ req'[r].cut
    BY <1>1, IngestAssumption DEF Facts, AssetFact, At, Goes
  <1> QED
    BY <1>1, <1>2, <1>3, <1>4, <1>5, OthersKeep DEF Facts, Goes

LEMMA CleanupKeeps ==
  ASSUME TypeInv, TargetKept, Lone, ApartInv, Apart, NEW r \in Requests, Cleanup(r)
  PROVE  ApartInv'
  <1>1. /\ TypeOK /\ Facts(r) /\ At(r, "cleanup") /\ r \in Running
        /\ Goes(r, "refused") /\ objects' = objects \ {r} /\ UNCHANGED <<meeting, asset>>
    BY CleanupEffect, RunningIs DEF TypeInv, ApartInv, At, Runs
  <1>2. asset # r
    BY <1>1, IngestAssumption DEF Facts, AssetFact
  <1>3. Facts(r)'
    BY <1>1, <1>2 DEF Facts, MeetingFact, AssetFact, ObjectFact, At, Goes, Past, Running
  <1> QED
    BY <1>1, <1>2, <1>3, OthersKeep DEF Goes

(* A meeting is created: nobody has seen one before.                        *)
LEMMA CreateKeeps ==
  ASSUME TypeInv, ApartInv, Apart, NEW r \in Requests, meeting = 0, Only(r),
         At(r, "meeting"), req'[r].at \in {"find", "error"}, req'[r].file = req[r].file,
         req'[r].at = "find" => req'[r].of = meeting',
         req'[r].asset = req[r].asset, req'[r].cut = req[r].cut, UNCHANGED <<asset, objects>>
  PROVE  ApartInv'
  <1>1. asset = NoRequest
    BY DEF TypeInv, TypeOK
  <1>2. \A s \in Requests : req[s].at \notin Past
    BY DEF ApartInv, Facts, MeetingFact, TypeInv, MeetingKnown
  <1>3. Answered' = {}
    BY <1>2, AnsweredIs DEF Only, At, Past
  <1>4. Facts(r)
    BY DEF ApartInv
  <1>5. MeetingFact(r)'
    BY <1>1, <1>3 DEF MeetingFact, At, Past
  <1>6. AssetFact(r)' /\ ObjectFact(r)'
    BY <1>1, <1>4, IngestAssumption DEF Facts, AssetFact, ObjectFact, At
  <1>7. ASSUME NEW s \in Requests, s # r PROVE Facts(s)'
    <2>1. Facts(s) /\ req'[s] = req[s] /\ req[s].at \notin Past
      BY <1>2, <1>7 DEF ApartInv, Only
    <2>2. MeetingFact(s)'
      BY <1>1, <1>3, <2>1 DEF Facts, MeetingFact, At
    <2> QED
      BY <2>1, <2>2 DEF Facts, AssetFact, ObjectFact, At
  <1> QED
    BY <1>1, <1>5, <1>6, <1>7 DEF ApartInv, Facts

LEMMA MeetingKeeps ==
  ASSUME TypeInv, TargetKept, Lone, ApartInv, Apart, NEW r \in Requests, Meeting(r)
  PROVE  ApartInv'
  <1>1. /\ TypeOK /\ Facts(r) /\ At(r, "meeting") /\ r \in Running
        /\ Only(r) /\ req'[r].at = "find" /\ req'[r].file = req[r].file
        /\ req'[r].asset = req[r].asset /\ req'[r].of = meeting' /\ req'[r].mine = (meeting = 0)
        /\ req'[r].cut = req[r].cut
        /\ (meeting # 0 => meeting' = meeting) /\ UNCHANGED <<asset, objects>>
    BY MeetingEffect, RunningIs DEF TypeInv, ApartInv, At, Runs
  <1>2. CASE meeting # 0
    <2>1. MeetingFact(r)'
      BY <1>1, <1>2 DEF MeetingFact, At
    <2>2. AssetFact(r)' /\ ObjectFact(r)'
      BY <1>1 DEF Facts, AssetFact, ObjectFact, At
    <2> QED
      BY <1>1, <1>2, <2>1, <2>2, OthersKeep DEF Facts
  <1>3. CASE meeting = 0
    BY <1>1, <1>3, CreateKeeps
  <1> QED
    BY <1>2, <1>3

LEMMA FailsKeeps ==
  ASSUME TypeInv, TargetKept, Lone, ApartInv, Apart, NEW r \in Requests, Fails(r)
  PROVE  ApartInv'
  <1>1. /\ req[r].at \in {"meeting", "find", "reuse", "asset", "record"} /\ Goes(r, "error")
        /\ (UNCHANGED <<meeting, born, filled>> \/ (At(r, "meeting") /\ meeting = 0))
        /\ UNCHANGED <<asset, objects>> /\ r \in Running
    BY FailsEffect, RunningIs DEF TypeInv, Runs
  <1>2. CASE UNCHANGED meeting
    BY <1>1, <1>2, MoveKeeps, PlacesThere
  <1>3. CASE At(r, "meeting") /\ meeting = 0
    BY <1>1, <1>3, CreateKeeps DEF Goes
  <1> QED
    BY <1>1, <1>2, <1>3

(* The row of the asset is there: the request learns of it, or not.         *)
LEMMA PromoteKeeps ==
  ASSUME TypeInv, TargetKept, Lone, ApartInv, Apart, NEW r \in Requests,
         Promote(r) \/ PromoteFails(r)
  PROVE  ApartInv'
  <1>1. /\ TypeOK /\ Facts(r) /\ At(r, "promote") /\ r \in Running /\ asset = r /\ r # NoRequest
        /\ Only(r) /\ UNCHANGED <<meeting, asset, objects>>
        /\ req'[r].mine = req[r].mine /\ req'[r].of = req[r].of
        /\ \/ req'[r].at = "record" /\ req'[r].asset = r /\ req'[r].cut = req[r].cut
           \/ req'[r].at = "error" /\ req'[r].asset = NoRequest /\ req'[r].cut
    BY PromoteEffect, PromoteFailsEffect, RunningIs, IngestAssumption
       DEF TypeInv, ApartInv, Facts, AssetFact, At, Runs
  <1>2. MeetingFact(r)'
    <2>1. ~At(r, "answered")'
      BY <1>1 DEF At
    <2> QED
      BY <1>1, <2>1, MakerGoesOn DEF Facts, MeetingFact, At, Past
  <1>3. AssetFact(r)' /\ ObjectFact(r)'
    BY <1>1 DEF Facts, AssetFact, ObjectFact, At
  <1>4. req[r].cut => req'[r].cut
    BY <1>1
  <1> QED
    BY <1>1, <1>2, <1>3, <1>4, OthersKeep DEF Facts

LEMMA AssetKeeps ==
  ASSUME TypeInv, TargetKept, Lone, ApartInv, Apart, NEW r \in Requests, Asset(r)
  PROVE  ApartInv'
  <1>1. /\ TypeOK /\ Facts(r) /\ At(r, "asset") /\ r \in Running
        /\ Only(r) /\ UNCHANGED <<meeting, objects>>
        /\ req'[r].file = req[r].file /\ req'[r].mine = req[r].mine /\ req'[r].of = req[r].of
        /\ req'[r].asset = req[r].asset /\ req'[r].cut = req[r].cut
    BY AssetEffect, RunningIs DEF TypeInv, ApartInv, At, Runs, Goes
  <1>2. CASE Visible(r) /\ asset = NoRequest
    <2>1. asset' = r /\ req'[r].at = "promote" /\ r # NoRequest
      BY <1>1, <1>2, AssetEffect, IngestAssumption DEF Goes
    <2>2. Facts(r)'
      <3>1. ~At(r, "answered")'
        BY <2>1 DEF At
      <3>2. MeetingFact(r)'
        BY <1>1, <2>1, <3>1, MakerGoesOn DEF Facts, MeetingFact, At, Past
      <3> QED
        BY <1>1, <2>1, <3>2 DEF Facts, AssetFact, ObjectFact, At
    <2>3. ASSUME NEW s \in Requests, s # r PROVE Facts(s)'
      <3>1. Facts(s) /\ req'[s] = req[s] /\ s # NoRequest
        BY <1>1, <2>3, IngestAssumption DEF ApartInv, Only
      <3>2. ~(s \in Running /\ req[s].mine)
        BY <1>1, <2>3, MakerIsAlone
      <3>3. MeetingFact(s)'
        BY <1>1, <3>1, <3>2 DEF Facts, MeetingFact, At, Running
      <3>4. ~At(s, "cleanup")
        BY <3>1, <3>2 DEF Facts, MeetingFact, At, Running
      <3>5. AssetFact(s)'
        BY <1>2, <2>1, <2>3, <3>1, <3>4 DEF Facts, AssetFact, At
      <3>6. ObjectFact(s)'
        BY <1>1, <1>2, <3>1 DEF Facts, ObjectFact, At
      <3> QED
        BY <3>3, <3>5, <3>6 DEF Facts
    <2>4. r \in objects'
      BY <1>1 DEF Facts, ObjectFact, At
    <2> QED
      BY <2>1, <2>2, <2>3, <2>4 DEF ApartInv
  <1>3. CASE ~(Visible(r) /\ asset = NoRequest)
    BY <1>1, <1>3, AssetEffect, MoveKeeps, PlacesThere DEF Goes, At
  <1> QED
    BY <1>2, <1>3

LEMMA DiscardKeeps ==
  ASSUME TypeInv, TargetKept, Lone, ApartInv, Apart, NEW r \in Requests, Discard(r)
  PROVE  ApartInv'
  <1>1. TypeOK /\ Facts(r) /\ At(r, "discard") /\ r \in Running /\ UNCHANGED objects
    BY DiscardEffect, RunningIs DEF TypeInv, ApartInv, At, Runs
  <1>2. CASE UNCHANGED <<meeting, asset>> /\ Goes(r, "refused")
    BY <1>1, <1>2, MoveKeeps, PlacesThere
  <1>3. CASE /\ Visible(r) /\ meeting' = 0 /\ asset' = NoRequest /\ Goes(r, "cleanup")
    <2>1. req[r].mine /\ asset \in {NoRequest, r} /\ Answered = {}
      BY <1>1 DEF Facts, MeetingFact, At
    <2>2. ~At(r, "answered")' /\ Only(r)
      BY <1>3 DEF At, Goes
    <2>3. Answered' = {}
      BY <2>1, <2>2, MakerGoesOn
    <2>4. Facts(r)'
      BY <1>3, <2>1, <2>3, IngestAssumption
         DEF Facts, MeetingFact, AssetFact, ObjectFact, At, Goes, Past
    <2>5. ASSUME NEW s \in Requests, s # r PROVE Facts(s)'
      <3>1. Facts(s) /\ req'[s] = req[s] /\ s # NoRequest
        BY <2>2, <2>5, IngestAssumption DEF ApartInv, Only
      <3>2. s \notin Running /\ ~At(s, "answered")
        BY <1>1, <2>1, <2>5, MakerIsAlone, AnsweredIs
      <3>3. req[s].at \in {"new", "refused", "dead"}
        BY <3>2 DEF Running, At
      <3>4. MeetingFact(s)'
        BY <3>1, <3>3 DEF Facts, MeetingFact, At, Running, Past
      <3>5. AssetFact(s)' /\ ObjectFact(s)'
        BY <1>1, <1>3, <2>1, <2>5, <3>1, <3>3 DEF Facts, AssetFact, ObjectFact, At
      <3> QED
        BY <3>4, <3>5 DEF Facts
    <2> QED
      BY <1>3, <2>4, <2>5 DEF ApartInv
  <1> QED
    BY <1>1, <1>2, <1>3, DiscardEffect

LEMMA ArriveKeeps ==
  ASSUME TypeInv, TargetKept, Lone, ApartInv, Apart, Apart', NEW r \in Requests, Arrive(r)
  PROVE  ApartInv'
  <1>1. /\ TypeOK /\ Facts(r) /\ At(r, "new")
        /\ Only(r) /\ req'[r].at = "meeting"
        /\ req'[r].mine = req[r].mine /\ req'[r].of = req[r].of /\ req'[r].asset = req[r].asset
        /\ req'[r].cut = req[r].cut
        /\ overlap' = (overlap \/ Running # {}) /\ UNCHANGED <<meeting, asset, target>>
    BY ArriveEffect DEF TypeInv, ApartInv
  <1>2. IF asset # NoRequest
        THEN req'[r].file = "skipped" /\ UNCHANGED objects
        ELSE req'[r].file = "stored" /\ objects' = objects \cup {r}
    BY <1>1, ArriveEffect
  <1>3. Facts(r)'
    <2>1. MeetingFact(r)'
      BY <1>1 DEF Facts, MeetingFact, At, Past
    <2>2. AssetFact(r)' /\ ObjectFact(r)'
      BY <1>1, <1>2, IngestAssumption DEF Facts, AssetFact, ObjectFact, At
    <2> QED
      BY <2>1, <2>2 DEF Facts
  <1>4. ASSUME NEW s \in Requests, s # r PROVE Facts(s)'
    <2>1. Facts(s) /\ req'[s] = req[s]
      BY <1>1, <1>4 DEF ApartInv, Only
    <2>2. ~(s \in Running /\ req[s].mine)
      BY <1>1 DEF Apart, TargetKept
    <2>3. MeetingFact(s)'
      BY <1>1, <2>1, <2>2 DEF Facts, MeetingFact, At, Running
    <2>4. s \in objects' <=> s \in objects
      BY <1>2, <1>4
    <2>5. AssetFact(s)' /\ ObjectFact(s)'
      BY <1>1, <2>1, <2>4 DEF Facts, AssetFact, ObjectFact, At
    <2> QED
      BY <2>3, <2>5 DEF Facts
  <1>5. asset' # NoRequest => asset' \in objects' \/ req'[asset'].cut
    <2>1. asset # NoRequest => asset \in Requests
      BY <1>1 DEF TypeOK, Object
    <2>2. asset # NoRequest => req'[asset].cut = req[asset].cut
      BY <1>1, <2>1 DEF Only
    <2> QED
      BY <1>1, <1>2, <2>2 DEF ApartInv
  <1> QED
    BY <1>3, <1>4, <1>5 DEF ApartInv

LEMMA ApartStep == TypeInv /\ TargetKept /\ Lone /\ ApartInv /\ [Next]_vars => ApartInv'
  <1> SUFFICES ASSUME TypeInv, TargetKept, Lone, ApartInv, [Next]_vars, Apart'
               PROVE  ApartInv'
    BY DEF ApartInv
  <1>1. Apart /\ TypeOK
    BY ApartBefore DEF TypeInv
  <1>2. ASSUME NEW r \in Requests, Arrive(r) \/ Meeting(r) \/ Find(r) \/ Asset(r) PROVE ApartInv'
    BY <1>1, <1>2, ArriveKeeps, MeetingKeeps, FindKeeps, AssetKeeps
  <1>10. ASSUME NEW r \in Requests, Promote(r) \/ PromoteFails(r) \/ Fails(r) PROVE ApartInv'
    BY <1>1, <1>10, PromoteKeeps, FailsKeeps
  <1>11. ASSUME NEW r \in Requests, DiscardFails(r) PROVE ApartInv'
    <2>1. r \in Running
      BY <1>1, <1>11, DiscardFailsEffect, RunningIs DEF Runs, At
    <2> QED
      BY <1>1, <1>11, <2>1, DiscardFailsEffect, MoveKeeps, PlacesThere
  <1>3. ASSUME NEW r \in Requests, Error(r) \/ Discard(r) \/ Cleanup(r) PROVE ApartInv'
    BY <1>1, <1>3, ErrorKeeps, DiscardKeeps, CleanupKeeps
  <1>4. ASSUME NEW r \in Requests, Reuse(r) PROVE ApartInv'
    <2>1. r \in Running
      BY <1>1, <1>4, ReuseEffect, RunningIs DEF Runs, At
    <2> QED
      BY <1>1, <1>4, <2>1, ReuseEffect, MoveKeeps, PlacesThere
  <1>5. ASSUME NEW r \in Requests, RecordJob(r) \/ Add(r) \/ AddFails(r) PROVE ApartInv'
    <2>1. r \in Running
      BY <1>1, <1>5, RecordEffect, AddEffect, AddFailsEffect, RunningIs DEF Runs, At
    <2>2. CASE RecordJob(r)
      BY <1>1, <2>1, <2>2, RecordEffect, MoveKeeps, PlacesThere DEF At
    <2>3. CASE Add(r)
      BY <1>1, <2>1, <2>3, AddEffect, MoveKeeps, PlacesThere
    <2>4. CASE AddFails(r)
      BY <1>1, <2>1, <2>4, AddFailsEffect, MoveKeeps, PlacesThere DEF At
    <2> QED
      BY <1>5, <2>2, <2>3, <2>4
  <1>6. ASSUME NEW r \in Requests, Crash(r) PROVE ApartInv'
    BY <1>1, <1>6, CrashEffect, MoveKeeps, PlacesThere
  <1>7. ASSUME UNCHANGED <<meeting, asset, objects, req, overlap, target>> PROVE ApartInv'
    BY <1>1, <1>7 DEF ApartInv, Facts, MeetingFact, AssetFact, ObjectFact, At, Running, Answered
  <1>8. ASSUME NEW r \in Requests, AddLate(r) \/ Process(r) PROVE ApartInv'
    BY <1>1, <1>7, <1>8, LateEffect, ProcessEffect
  <1>9. CASE UNCHANGED vars
    BY <1>7, <1>9 DEF vars
  <1> QED
    BY <1>2, <1>3, <1>4, <1>5, <1>6, <1>8, <1>9, <1>10, <1>11 DEF Next, Step

(* An upload that was answered, after which the client deletes its copy, is *)
(* in the store as the asset of the meeting it was answered with, if no     *)
(* uploads of a capture without a target overlapped and the asset's row is  *)
(* not one whose request was told that it had failed.                       *)
THEOREM AnsweredKeepTheirFile == Spec => []AnsweredIsStored
  <1>1. ApartInv => AnsweredIsStored
    BY DEF ApartInv, Facts, MeetingFact, AssetFact, AnsweredIsStored, Hollow, Answered, At, Past
  <1> QED
    BY <1>1, TypeInit, TypeStep, LoneInit, LoneStep, TargetStep, ApartInit, ApartStep, PTL DEF Spec

(* No object is left in the store by a request that was answered or refused *)
(* unless it is the asset, under the same condition.                        *)
THEOREM ObjectsAreNamed == Spec => []NoOrphan
  <1>1. ApartInv /\ TypeInv => NoOrphan
    BY RunningIs DEF ApartInv, TypeInv, TypeOK, Facts, ObjectFact, NoOrphan, At, Runs
  <1> QED
    BY <1>1, TypeInit, TypeStep, LoneInit, LoneStep, TargetStep, ApartInit, ApartStep, PTL DEF Spec

-----------------------------------------------------------------------------
(* One job for a capture whose uploads ran one at a time and whose adds the *)
(* queue took: then no request fails after it made the asset or the row.    *)
Quick == ~overlap /\ faults = 0

NobodyFails == \A q \in Requests : /\ record[q].st # "failed" /\ record[q].add = "due"
                                   /\ req[q].at \notin {"error", "discard", "cleanup"}

RowFact(q) ==
  /\ Live(q) => record[q].asset = asset /\ record[q].of = meeting /\ asset # NoRequest
  /\ record[q].st = "none" => record[q].asset = NoRequest
  /\ At(q, "asset") => asset = NoRequest
  /\ At(q, "record") \/ At(q, "promote") => \A s \in Requests : ~Live(s)
  /\ \A s \in Requests : Live(q) /\ Live(s) => q = s

JobInv == Quick => NobodyFails /\ \A q \in Requests : RowFact(q)

LEMMA JobInit == Init => JobInv
  <1> SUFFICES ASSUME Init PROVE JobInv
    OBVIOUS
  <1>1. ASSUME NEW q \in Requests
        PROVE  /\ record[q].st = "none" /\ record[q].asset = NoRequest /\ record[q].add = "due"
               /\ req[q].at = "new"
    BY <1>1 DEF Init, NoRecord
  <1> QED
    BY <1>1 DEF JobInv, NobodyFails, RowFact, Live, At

(* A request that goes on alone, with the rows and the asset as they are.   *)
LEMMA RowsKept ==
  ASSUME JobInv, Quick, NEW r \in Requests, Only(r), UNCHANGED <<record, asset>>,
         req'[r].at \notin {"error", "discard", "cleanup"},
         meeting' = meeting \/ asset = NoRequest,
         req'[r].at = "asset" => asset = NoRequest,
         req'[r].at \in {"record", "promote"} => \A s \in Requests : ~Live(s)
  PROVE  JobInv'
  <1>1. NobodyFails'
    BY DEF JobInv, NobodyFails, Only
  <1>2. \A s \in Requests : Live(s)' = Live(s)
    BY DEF Live
  <1>3. ASSUME NEW q \in Requests PROVE RowFact(q)'
    <2>1. RowFact(q)
      BY DEF JobInv
    <2>2. CASE q = r
      BY <1>2, <2>1, <2>2 DEF RowFact, At
    <2>3. CASE q # r
      BY <1>2, <2>1, <2>3 DEF RowFact, At, Only
    <2> QED
      BY <2>2, <2>3
  <1> QED
    BY <1>1, <1>3 DEF JobInv

Failing(r) == PromoteFails(r) \/ AddFails(r) \/ Fails(r) \/ DiscardFails(r)

LEMMA QuickBefore ==
  ASSUME TypeInv, [Next]_vars, Quick'
  PROVE  Quick /\ Apart /\ \A r \in Requests : ~Failing(r)
  <1>1. TypeOK
    BY DEF TypeInv
  <1>2. \A r \in Requests : ~Failing(r)
    BY <1>1, AddFailsEffect, PromoteFailsEffect, FailsEffect, DiscardFailsEffect DEF Quick, Failing
  <1>3. ASSUME NEW r \in Requests, \/ Arrive(r) \/ Meeting(r) \/ Find(r) \/ Reuse(r) \/ Asset(r)
                                    \/ Promote(r) \/ Add(r)
        PROVE  faults' = faults /\ (overlap => overlap')
    BY <1>1, <1>3, ArriveEffect, MeetingEffect, FindEffect, ReuseEffect, AssetEffect, PromoteEffect,
       AddEffect
  <1>4. ASSUME NEW r \in Requests, \/ Error(r) \/ Discard(r) \/ Cleanup(r) \/ Crash(r) \/ AddLate(r)
                                    \/ Process(r)
        PROVE  faults' = faults /\ (overlap => overlap')
    BY <1>1, <1>4, ErrorEffect, DiscardEffect, CleanupEffect, CrashEffect, LateEffect, ProcessEffect
  <1>5. ASSUME NEW r \in Requests, RecordJob(r)
        PROVE  faults' = faults /\ (overlap => overlap')
    BY <1>1, <1>5, RecordEffect DEF Quick
  <1>6. faults' = faults /\ (overlap => overlap')
    BY <1>2, <1>3, <1>4, <1>5 DEF Next, Step, vars, Failing
  <1> QED
    BY <1>2, <1>6 DEF Quick, Apart

LEMMA JobStep == TypeInv /\ TargetKept /\ Lone /\ ApartInv /\ JobInv /\ [Next]_vars => JobInv'
  <1> SUFFICES ASSUME TypeInv, TargetKept, Lone, ApartInv, JobInv, [Next]_vars, Quick'
               PROVE  JobInv'
    BY DEF JobInv
  <1>1. /\ TypeOK /\ Quick /\ Apart /\ NobodyFails
        /\ \A r \in Requests : ~Failing(r) /\ Facts(r) /\ RowFact(r)
    BY QuickBefore DEF TypeInv, JobInv, ApartInv
  <1>2. ASSUME NEW r \in Requests, Arrive(r) PROVE JobInv'
    BY <1>1, <1>2, ArriveEffect, RowsKept
  <1>3. ASSUME NEW r \in Requests, Meeting(r) PROVE JobInv'
    BY <1>1, <1>3, MeetingEffect, RowsKept DEF TypeOK
  <1>4. ASSUME NEW r \in Requests, Find(r) PROVE JobInv'
    <2>1. Visible(r) /\ (req[r].file # "stored" => asset # NoRequest)
      BY <1>1, <1>4, FindEffect DEF Facts, MeetingFact, AssetFact, At, Past, Visible
    <2>2. /\ Only(r) /\ UNCHANGED <<record, asset, meeting>>
          /\ \/ req'[r].at = "reuse"
             \/ asset = NoRequest /\ req'[r].at = IF req[r].file = "stored" THEN "asset" ELSE "error"
      BY <1>1, <1>4, <2>1, FindEffect
    <2> QED
      BY <1>1, <2>1, <2>2, RowsKept
  <1>5. ASSUME NEW r \in Requests, Reuse(r) PROVE JobInv'
    <2>1. /\ Visible(r) /\ req[r].asset = asset /\ UNCHANGED <<record, asset, meeting>>
          /\ Only(r) /\ req'[r].at = IF Visible(r) /\ Reusable(r) THEN "answered" ELSE "record"
      BY <1>1, <1>5, ReuseEffect DEF Facts, MeetingFact, AssetFact, At, Past, Visible, Goes
    <2>2. ~Reusable(r) => \A s \in Requests : ~Live(s)
      BY <1>1, <2>1 DEF RowFact, Reusable, Live, Visible
    <2> QED
      BY <1>1, <2>1, <2>2, RowsKept
  <1>6. ASSUME NEW r \in Requests, Asset(r) PROVE JobInv'
    <2>1. Visible(r) /\ asset = NoRequest /\ At(r, "asset") /\ r \in Running
      BY <1>1, <1>6, AssetEffect, RunningIs
         DEF RowFact, Facts, MeetingFact, At, Past, Visible, Runs
    <2>2. /\ Only(r) /\ asset' = r /\ req'[r].at = "promote" /\ UNCHANGED <<record, meeting>>
      BY <1>1, <1>6, <2>1, AssetEffect DEF Goes
    <2>3. \A s \in Requests : ~Live(s) /\ ~Live(s)'
      BY <1>1, <2>1, <2>2 DEF RowFact, Live
    <2>4. \A s \in Requests : s # r => s \notin Running
      BY <1>1, <2>1 DEF Quick, Lone
    <2>5. \A s \in Requests : ~At(s, "asset")'
      BY <2>2, <2>4 DEF Only, At, Running
    <2>6. NobodyFails'
      BY <1>1, <2>2 DEF NobodyFails, Only
    <2> QED
      BY <1>1, <2>2, <2>3, <2>5, <2>6 DEF JobInv, RowFact
  <1>7. ASSUME NEW r \in Requests, RecordJob(r) PROVE JobInv'
    <2>1. Visible(r) /\ req[r].asset = asset /\ asset # NoRequest /\ At(r, "record") /\ r \in Running
      BY <1>1, <1>7, RecordEffect, RunningIs
         DEF Facts, MeetingFact, AssetFact, At, Past, Visible, Runs
    <2>2. /\ Only(r) /\ req'[r].at = "add" /\ UNCHANGED <<asset, meeting>>
          /\ record'[r].st = "queued" /\ record'[r].of = req[r].of /\ record'[r].asset = req[r].asset
          /\ record'[r].add = "due"
          /\ \A q \in Requests : q # r => record'[q] = record[q]
      BY <1>1, <1>7, <2>1, RecordEffect DEF Goes, Quick
    <2>3. \A s \in Requests : ~Live(s) /\ (s # r => ~Live(s)')
      BY <1>1, <2>1, <2>2 DEF RowFact, Live
    <2>4. \A s \in Requests : s # r => s \notin Running
      BY <1>1, <2>1 DEF Quick, Lone
    <2>5. \A s \in Requests : ~At(s, "asset")' /\ ~At(s, "record")' /\ ~At(s, "promote")'
      BY <2>2, <2>4 DEF Only, At, Running
    <2>6. NobodyFails'
      BY <1>1, <2>2 DEF NobodyFails, Only
    <2>7. record'[r].asset = asset' /\ record'[r].of = meeting' /\ record'[r].st = "queued"
      BY <2>1, <2>2 DEF Visible
    <2>8. ASSUME NEW q \in Requests PROVE RowFact(q)'
      <3>1. CASE q = r
        BY <2>1, <2>2, <2>3, <2>5, <2>7, <3>1 DEF RowFact
      <3>2. CASE q # r
        BY <1>1, <2>2, <2>3, <2>5, <3>2 DEF RowFact
      <3> QED
        BY <3>1, <3>2
    <2> QED
      BY <2>6, <2>8 DEF JobInv
  <1>8. ASSUME NEW r \in Requests, Add(r) PROVE JobInv'
    BY <1>1, <1>8, AddEffect, RowsKept DEF Goes
  <1>9. ASSUME NEW r \in Requests, Crash(r) PROVE JobInv'
    BY <1>1, <1>9, CrashEffect, RowsKept DEF Goes
  <1>10. ASSUME NEW r \in Requests, Failing(r) \/ Error(r) \/ Discard(r) \/ Cleanup(r) PROVE JobInv'
    BY <1>1, <1>10, ErrorEffect, DiscardEffect, CleanupEffect DEF NobodyFails, At
  <1>14. ASSUME NEW r \in Requests, Promote(r) PROVE JobInv'
    <2>1. \A s \in Requests : ~Live(s)
      BY <1>1, <1>14, PromoteEffect DEF RowFact
    <2> QED
      BY <1>1, <1>14, <2>1, PromoteEffect, RowsKept
  <1>11. ASSUME NEW r \in Requests, AddLate(r) PROVE JobInv'
    BY <1>1, <1>11, LateEffect DEF NobodyFails
  <1>12. ASSUME NEW r \in Requests, Process(r) PROVE JobInv'
    <2>1. /\ record[r].asset = asset /\ asset \in objects /\ UNCHANGED <<req, asset, meeting>>
          /\ record'[r].st = "done" /\ record'[r].of = record[r].of
          /\ record'[r].asset = record[r].asset /\ record'[r].add = record[r].add
          /\ \A q \in Requests : q # r => record'[q] = record[q]
      BY <1>1, <1>12, ProcessEffect
    <2>2. asset # NoRequest /\ record[r].st \in {"none", "queued", "failed", "done"}
      BY <1>1, <2>1, IngestAssumption DEF TypeOK, Record
    <2>3. Live(r) /\ Live(r)'
      BY <1>1, <2>1, <2>2 DEF RowFact, NobodyFails, Live
    <2>4. \A q \in Requests : Live(q)' = Live(q)
      BY <2>1, <2>3 DEF Live
    <2>5. NobodyFails'
      BY <1>1, <2>1 DEF NobodyFails
    <2>6. ASSUME NEW q \in Requests PROVE RowFact(q)'
      <3>1. RowFact(q)
        BY <1>1
      <3>2. CASE q = r
        BY <2>1, <2>3, <2>4, <3>1, <3>2 DEF RowFact, At
      <3>3. CASE q # r
        BY <2>1, <2>4, <3>1, <3>3 DEF RowFact, At
      <3> QED
        BY <3>2, <3>3
    <2> QED
      BY <2>5, <2>6 DEF JobInv
  <1>13. CASE UNCHANGED vars
    BY <1>1, <1>13 DEF vars, place, media, jobs, JobInv, NobodyFails, RowFact, Live, At
  <1> QED
    BY <1>2, <1>3, <1>4, <1>5, <1>6, <1>7, <1>8, <1>9, <1>10, <1>11, <1>12, <1>13,
       <1>14 DEF Next, Step, Failing

LEMMA AtMostOne ==
  ASSUME NEW S, \A x, y \in S : x = y
  PROVE  Cardinality(S) <= 1
  <1>1. CASE S = {}
    BY <1>1, FS_EmptySet
  <1>2. CASE S # {}
    <2>1. PICK x \in S : TRUE
      BY <1>2
    <2>2. S = {x}
      BY <2>1
    <2> QED
      BY <2>2, FS_Singleton
  <1> QED
    BY <1>1, <1>2

(* Retries of a capture that do not overlap record one job, if the queue    *)
(* takes what is added to it in time.                                       *)
THEOREM RetriesRecordOneJob == Spec => []OneJob
  <1>1. JobInv /\ TypeInv => OneJob
    <2> SUFFICES ASSUME JobInv, TypeInv, Quick
                 PROVE  Cardinality({q \in queued : Live(q)}) <= 1
      BY DEF OneJob, Quick
    <2>1. queued \subseteq Requests
      BY DEF TypeInv, TypeOK
    <2>2. \A q, s \in {x \in queued : Live(x)} : q = s
      BY <2>1 DEF JobInv, RowFact
    <2> QED
      BY <2>2, AtMostOne
  <1> QED
    BY <1>1, TypeInit, TypeStep, LoneInit, LoneStep, TargetStep, ApartInit, ApartStep,
       JobInit, JobStep, PTL DEF Spec

-----------------------------------------------------------------------------
(* The job of an answered upload.  Where a request is tells what became of  *)
(* its row, if no server died; the row of a job that is to be processed is  *)
(* in the queue, or its request is about to put it there.                   *)
Served == ~overlap /\ crashes = 0

Matches(q, r) == record[q].of = req[r].of /\ record[q].asset = req[r].asset

(* A row left as it is by a request that gave its add up.                   *)
Stray(p) == record[p].st = "queued" /\ record[p].add # "due"

PlaceFact(q) ==
  /\ ~At(q, "dead")
  /\ Live(q) => q \in queued \/ At(q, "add") \/ Stray(q)
  /\ req[q].at \in Early => q \notin queued /\ record[q].st = "none" /\ record[q].add = "due"
  /\ At(q, "add") => Matches(q, q) /\ record[q].add = "due"
  /\ At(q, "answered") => \E p \in Requests : Matches(p, q) /\ (p \in queued \/ Stray(p))

QueueInv == Served => \A q \in Requests : PlaceFact(q)

LEMMA QueueInit == Init => QueueInv
  <1> SUFFICES ASSUME Init, NEW q \in Requests PROVE PlaceFact(q)
    BY DEF QueueInv
  <1>1. req[q].at = "new" /\ record[q].st = "none" /\ record[q].add = "due" /\ queued = {}
    BY DEF Init, NoRecord
  <1> QED
    BY <1>1 DEF PlaceFact, At, Live, Early

LEMMA ServedBefore ==
  ASSUME TypeInv, [Next]_vars, Served'
  PROVE  Served /\ Apart /\ \A r \in Requests : ~Crash(r)
  <1>1. TypeOK
    BY DEF TypeInv
  <1>2. \A r \in Requests : ~Crash(r)
    BY <1>1, CrashEffect DEF Served
  <1>3. ASSUME NEW r \in Requests, \/ Arrive(r) \/ Meeting(r) \/ Find(r) \/ Reuse(r) \/ Asset(r)
                                    \/ Promote(r) \/ PromoteFails(r) \/ Fails(r) \/ Add(r)
        PROVE  crashes' = crashes /\ (overlap => overlap')
    BY <1>1, <1>3, ArriveEffect, MeetingEffect, FindEffect, ReuseEffect, AssetEffect, PromoteEffect,
       PromoteFailsEffect, FailsEffect, AddEffect
  <1>4. ASSUME NEW r \in Requests, \/ RecordJob(r) \/ AddFails(r) \/ DiscardFails(r) \/ Error(r)
                                    \/ Discard(r) \/ Cleanup(r) \/ AddLate(r) \/ Process(r)
        PROVE  crashes' = crashes /\ (overlap => overlap')
    BY <1>1, <1>4, RecordEffect, AddFailsEffect, DiscardFailsEffect, ErrorEffect, DiscardEffect,
       CleanupEffect, LateEffect, ProcessEffect
  <1>5. crashes' = crashes /\ (overlap => overlap')
    BY <1>2, <1>3, <1>4 DEF Next, Step, vars
  <1> QED
    BY <1>2, <1>5 DEF Served, Apart

(* A request that goes on, rows and queue being left alone.                 *)
LEMMA PlacesKept ==
  ASSUME \A q \in Requests : PlaceFact(q), NEW r \in Requests, Only(r), UNCHANGED <<record, queued>>,
         ~At(r, "add"), req'[r].at \notin {"dead", "add", "answered"},
         req'[r].at \in Early => At(r, "new") \/ At(r, "meeting") \/ At(r, "find") \/ At(r, "reuse")
                                 \/ At(r, "asset") \/ At(r, "promote")
  PROVE  QueueInv'
  <1> SUFFICES ASSUME NEW q \in Requests PROVE PlaceFact(q)'
    BY DEF QueueInv
  <1>1. PlaceFact(q)
    OBVIOUS
  <1>2. CASE q = r
    BY <1>1, <1>2 DEF PlaceFact, At, Live, Stray, Early
  <1>3. CASE q # r
    BY <1>1, <1>3 DEF PlaceFact, At, Live, Stray, Early, Only, Matches
  <1> QED
    BY <1>2, <1>3

LEMMA QueueStep == TypeInv /\ TargetKept /\ Lone /\ ApartInv /\ QueueInv /\ [Next]_vars => QueueInv'
  <1> SUFFICES ASSUME TypeInv, TargetKept, Lone, ApartInv, QueueInv, [Next]_vars, Served'
               PROVE  QueueInv'
    BY DEF QueueInv
  <1>1. /\ TypeOK /\ Served /\ Apart /\ queued \subseteq Requests
        /\ \A r \in Requests : ~Crash(r) /\ Facts(r) /\ PlaceFact(r)
    BY ServedBefore DEF TypeInv, TypeOK, QueueInv, ApartInv
  <1>2. \A r, q \in Requests : r \in Running /\ q \in Running => r = q
    BY <1>1 DEF Served, Lone
  <1>3. ASSUME NEW r \in Requests, Arrive(r) \/ Meeting(r) \/ Find(r) \/ Asset(r) PROVE QueueInv'
    <2>1. CASE Arrive(r)
      BY <1>1, <2>1, ArriveEffect, PlacesKept DEF At
    <2>2. CASE Meeting(r)
      BY <1>1, <2>2, MeetingEffect, PlacesKept DEF At
    <2>3. CASE Find(r)
      <3>1. /\ Only(r) /\ At(r, "find") /\ UNCHANGED <<record, queued>>
            /\ req'[r].at \in {"reuse", "asset", "error"}
        BY <1>1, <2>3, FindEffect
      <3> QED
        BY <1>1, <3>1, PlacesKept DEF At
    <2>4. CASE Asset(r)
      <3>1. /\ Only(r) /\ At(r, "asset") /\ UNCHANGED <<record, queued>>
            /\ req'[r].at \in {"promote", "error"}
        BY <1>1, <2>4, AssetEffect DEF Goes
      <3> QED
        BY <1>1, <3>1, PlacesKept DEF At
    <2> QED
      BY <1>3, <2>1, <2>2, <2>3, <2>4
  <1>4. ASSUME NEW r \in Requests, Reuse(r) PROVE QueueInv'
    <2>1. /\ Goes(r, IF Visible(r) /\ Reusable(r) THEN "answered" ELSE "record")
          /\ At(r, "reuse") /\ r \in Running /\ UNCHANGED <<record, queued>>
      BY <1>1, <1>4, ReuseEffect, RunningIs DEF Runs, At
    <2>2. CASE ~(Visible(r) /\ Reusable(r))
      BY <1>1, <2>1, <2>2, PlacesKept DEF Goes, At
    <2>3. CASE Visible(r) /\ Reusable(r)
      <3>1. PICK p \in Requests : Live(p) /\ Matches(p, r)
        BY <2>3 DEF Reusable, Live, Matches
      <3>2. ~At(p, "add")
        BY <1>2, <2>1 DEF Running, At
      <3>3. p \in queued \/ Stray(p)
        BY <1>1, <3>1, <3>2 DEF PlaceFact
      <3>4. ASSUME NEW q \in Requests PROVE PlaceFact(q)'
        <4>1. PlaceFact(q)
          BY <1>1
        <4>2. CASE q = r
          <5>1. Matches(p, r)' /\ (p \in queued' \/ Stray(p)') /\ req'[r].at = "answered"
            BY <2>1, <2>3, <3>1, <3>3 DEF Goes, Matches, Stray
          <5> QED
            BY <2>1, <4>1, <4>2, <5>1 DEF PlaceFact, At, Live, Stray, Early
        <4>3. CASE q # r
          BY <2>1, <4>1, <4>3 DEF PlaceFact, At, Live, Stray, Early, Only, Goes, Matches
        <4> QED
          BY <4>2, <4>3
      <3> QED
        BY <3>4 DEF QueueInv
    <2> QED
      BY <2>2, <2>3
  <1>5. ASSUME NEW r \in Requests, RecordJob(r) PROVE QueueInv'
    <2>1. At(r, "record") /\ r \in Running
      BY <1>1, <1>5, RecordEffect, RunningIs DEF Runs, At
    <2>2. Visible(r)
      BY <1>1, <2>1 DEF Facts, MeetingFact, Visible, At, Past
    <2>3. /\ record'[r].st = "queued" /\ record'[r].of = req[r].of /\ record'[r].asset = req[r].asset
          /\ \/ record'[r].add = "due" /\ Goes(r, "add")
             \/ record'[r].add # "due" /\ Goes(r, "error")
          /\ UNCHANGED queued /\ Only(r)
          /\ \A q \in Requests : q # r => record'[q] = record[q]
      BY <1>1, <1>5, <2>2, RecordEffect DEF Goes
    <2>4. r \notin queued /\ record[r].st = "none"
      BY <1>1, <2>1 DEF PlaceFact, At, Early
    <2>5. ASSUME NEW q \in Requests PROVE PlaceFact(q)'
      <3>1. CASE q = r
        BY <2>3, <3>1 DEF PlaceFact, At, Live, Stray, Early, Goes, Matches
      <3>2. CASE q # r
        <4>1. PlaceFact(q) /\ req'[q] = req[q] /\ record'[q] = record[q]
          BY <1>1, <2>3, <3>2 DEF Only
        <4>2. \A p \in Requests : p \in queued \/ Stray(p) => record'[p] = record[p]
          BY <2>3, <2>4 DEF Stray
        <4> QED
          BY <2>3, <4>1, <4>2 DEF PlaceFact, At, Live, Stray, Early, Matches
      <3> QED
        BY <3>1, <3>2
    <2> QED
      BY <2>5 DEF QueueInv
  <1>6. ASSUME NEW r \in Requests, Add(r) PROVE QueueInv'
    <2>1. At(r, "add") /\ Goes(r, "answered") /\ queued' = queued \cup {r} /\ UNCHANGED record
      BY <1>1, <1>6, AddEffect
    <2>2. ASSUME NEW q \in Requests PROVE PlaceFact(q)'
      <3>1. PlaceFact(q)
        BY <1>1
      <3>2. CASE q = r
        <4>1. Matches(r, r)' /\ r \in queued'
          BY <2>1, <3>1, <3>2 DEF PlaceFact, Matches, Goes
        <4> QED
          BY <2>1, <3>2, <4>1 DEF PlaceFact, At, Early, Goes, Stray, Live
      <3>3. CASE q # r
        BY <2>1, <3>1, <3>3 DEF PlaceFact, At, Live, Stray, Early, Goes, Only, Matches
      <3> QED
        BY <3>2, <3>3
    <2> QED
      BY <2>2 DEF QueueInv
  <1>7. ASSUME NEW r \in Requests, AddFails(r) PROVE QueueInv'
    <2>1. /\ At(r, "add") /\ Goes(r, "error") /\ UNCHANGED queued
          /\ record'[r].st \in {"queued", "failed"} /\ record'[r].add = "lost"
          /\ record'[r].of = record[r].of /\ record'[r].asset = record[r].asset
          /\ \A q \in Requests : q # r => record'[q] = record[q]
      BY <1>1, <1>7, AddFailsEffect
    <2>2. \A q \in Requests : record'[q].of = record[q].of /\ record'[q].asset = record[q].asset
      BY <2>1
    <2>3. ~Stray(r)
      BY <1>1, <2>1 DEF PlaceFact, Stray
    <2>4. ASSUME NEW q \in Requests PROVE PlaceFact(q)'
      <3>1. PlaceFact(q)
        BY <1>1
      <3>2. CASE q = r
        BY <2>1, <3>2 DEF PlaceFact, At, Live, Stray, Early, Goes
      <3>3. CASE q # r
        <4>1. \A p \in Requests : Stray(p) => Stray(p)'
          BY <2>1, <2>3 DEF Stray
        <4> QED
          BY <1>1, <2>1, <2>2, <3>1, <3>3, <4>1 DEF PlaceFact, At, Live, Stray, Early, Goes, Only, Matches
      <3> QED
        BY <3>2, <3>3
    <2> QED
      BY <2>4 DEF QueueInv
  <1>8. ASSUME NEW r \in Requests, Error(r) \/ Cleanup(r) PROVE QueueInv'
    <2>1. CASE Error(r)
      <3>1. /\ Only(r) /\ At(r, "error") /\ UNCHANGED <<record, queued>>
            /\ req'[r].at \in {"discard", "refused"}
        BY <1>1, <2>1, ErrorEffect DEF Goes
      <3> QED
        BY <1>1, <3>1, PlacesKept DEF At, Early
    <2>2. CASE Cleanup(r)
      BY <1>1, <2>2, CleanupEffect, PlacesKept DEF At, Goes, Early
    <2> QED
      BY <1>8, <2>1, <2>2
  <1>9. ASSUME NEW r \in Requests, Discard(r) PROVE QueueInv'
    <2>1. At(r, "discard") /\ r \in Running /\ UNCHANGED queued
      BY <1>1, <1>9, DiscardEffect, RunningIs DEF Runs, At
    <2>2. CASE UNCHANGED <<meeting, asset, record>> /\ Goes(r, "refused")
      BY <1>1, <2>1, <2>2, PlacesKept DEF At, Goes, Early
    <2>3. CASE /\ Goes(r, "cleanup")
               /\ \A q \in Requests : /\ record'[q].st = record[q].st /\ record'[q].asset = record[q].asset
                                      /\ record'[q].add = record[q].add
      <3>1. Answered = {}
        BY <1>1, <2>1 DEF Facts, MeetingFact, At
      <3>2. ASSUME NEW q \in Requests PROVE PlaceFact(q)'
        <4>1. PlaceFact(q) /\ ~At(q, "answered")
          BY <1>1, <3>1, AnsweredIs
        <4>2. CASE q = r
          BY <2>1, <2>3, <4>1, <4>2 DEF PlaceFact, At, Live, Stray, Early, Goes
        <4>3. CASE q # r
          <5>1. ~At(q, "add") /\ req'[q] = req[q]
            BY <1>2, <2>1, <2>3, <4>3 DEF Running, At, Goes, Only
          <5> QED
            BY <2>1, <2>3, <4>1, <5>1 DEF PlaceFact, At, Live, Stray, Early
        <4> QED
          BY <4>2, <4>3
      <3> QED
        BY <3>2 DEF QueueInv
    <2> QED
      BY <1>1, <1>9, <2>2, <2>3, DiscardEffect
  <1>10. ASSUME NEW r \in Requests, AddLate(r) PROVE QueueInv'
    <2>1. record[r].add = "lost" /\ queued' = queued \cup {r} /\ UNCHANGED <<req, record>>
      BY <1>1, <1>10, LateEffect
    <2>2. ASSUME NEW q \in Requests PROVE PlaceFact(q)'
      <3>1. PlaceFact(q)
        BY <1>1
      <3> QED
        BY <2>1, <3>1 DEF PlaceFact, At, Live, Stray, Early, Matches
    <2> QED
      BY <2>2 DEF QueueInv
  <1>11. ASSUME NEW r \in Requests, Process(r) PROVE QueueInv'
    <2>1. /\ r \in queued /\ UNCHANGED <<req, queued>>
          /\ record'[r].st = "done" /\ record'[r].of = record[r].of
          /\ record'[r].asset = record[r].asset /\ record'[r].add = record[r].add
          /\ \A q \in Requests : q # r => record'[q] = record[q]
      BY <1>1, <1>11, ProcessEffect
    <2>2. \A q \in Requests : record'[q].of = record[q].of /\ record'[q].asset = record[q].asset
      BY <2>1
    <2>3. ASSUME NEW q \in Requests PROVE PlaceFact(q)'
      <3>1. PlaceFact(q)
        BY <1>1
      <3>2. CASE q = r
        BY <1>1, <2>1, <2>2, <3>1, <3>2 DEF PlaceFact, At, Live, Stray, Early, Matches
      <3>3. CASE q # r
        BY <1>1, <2>1, <2>2, <3>1, <3>3 DEF PlaceFact, At, Live, Stray, Early, Matches
      <3> QED
        BY <3>2, <3>3
    <2> QED
      BY <2>3 DEF QueueInv
  <1>13. ASSUME NEW r \in Requests, Promote(r) \/ PromoteFails(r) PROVE QueueInv'
    <2>1. /\ Only(r) /\ At(r, "promote") /\ UNCHANGED <<record, queued>>
          /\ req'[r].at \in {"record", "error"}
      BY <1>1, <1>13, PromoteEffect, PromoteFailsEffect
    <2> QED
      BY <1>1, <2>1, PlacesKept DEF At
  <1>14. ASSUME NEW r \in Requests, Fails(r) \/ DiscardFails(r) PROVE QueueInv'
    <2>1. /\ Only(r) /\ ~At(r, "add") /\ UNCHANGED <<record, queued>>
          /\ req'[r].at \in {"error", "refused"}
      BY <1>1, <1>14, FailsEffect, DiscardFailsEffect DEF Goes, At
    <2> QED
      BY <1>1, <2>1, PlacesKept DEF Early
  <1>12. CASE UNCHANGED vars
    BY <1>1, <1>12 DEF vars, jobs, ghosts, Served, QueueInv, PlaceFact, At, Live, Stray, Early, Matches
  <1> QED
    BY <1>1, <1>3, <1>4, <1>5, <1>6, <1>7, <1>8, <1>9, <1>10, <1>11, <1>12,
       <1>13, <1>14 DEF Next, Step

(* Behind an answer there is a job in the queue, for the asset and meeting  *)
(* it was given for, unless uploads overlapped, a server died between the   *)
(* row and the add, or a request could not close a row it did not add.      *)
THEOREM AnsweredHaveAJob == Spec => []AnsweredIsQueued
  <1>1. QueueInv /\ ApartInv => AnsweredIsQueued
    <2> SUFFICES ASSUME QueueInv, ApartInv, Served, ~Adrift, NEW r \in Requests, At(r, "answered")
                 PROVE  \E q \in queued : record[q].of = req[r].of /\ record[q].asset = req[r].asset
      BY DEF AnsweredIsQueued, Served, Answered, At
    <2>1. PICK p \in Requests : Matches(p, r) /\ (p \in queued \/ Stray(p))
      BY DEF QueueInv, PlaceFact
    <2>2. req[r].of = meeting
      BY DEF ApartInv, Apart, Served, Facts, MeetingFact, At, Past
    <2> QED
      BY <2>1, <2>2 DEF Adrift, Stray, Matches
  <1> QED
    BY <1>1, TypeInit, TypeStep, LoneInit, LoneStep, TargetStep, ApartInit, ApartStep,
       QueueInit, QueueStep, PTL DEF Spec

-----------------------------------------------------------------------------
(* A meeting that was filled is never discarded, whoever fills it while the *)
(* request that made it fails.                                              *)
THEOREM FilledMeetingStays == Spec => FilledStays
  <1>1. ASSUME TypeInv, [Next]_vars PROVE [filled /\ meeting # 0 => meeting' = meeting]_vars
    <2>1. TypeOK
      BY <1>1 DEF TypeInv
    <2>2. CASE \E r \in Requests : Discard(r)
      BY <2>2 DEF Discard
    <2>3. CASE ~\E r \in Requests : Discard(r)
      <3>1. ASSUME NEW r \in Requests, \/ Arrive(r) \/ Meeting(r) \/ Find(r) \/ Reuse(r) \/ Asset(r)
                                        \/ Promote(r) \/ PromoteFails(r) \/ Fails(r) \/ Add(r)
            PROVE  meeting # 0 => meeting' = meeting
        BY <2>1, <3>1, ArriveEffect, MeetingEffect, FindEffect, ReuseEffect, AssetEffect, PromoteEffect,
           PromoteFailsEffect, FailsEffect, AddEffect
      <3>2. ASSUME NEW r \in Requests, \/ RecordJob(r) \/ AddFails(r) \/ DiscardFails(r) \/ Error(r)
                                        \/ Cleanup(r) \/ Crash(r) \/ AddLate(r) \/ Process(r)
            PROVE  meeting # 0 => meeting' = meeting
        BY <2>1, <3>2, RecordEffect, AddFailsEffect, DiscardFailsEffect, ErrorEffect, CleanupEffect,
           CrashEffect, LateEffect, ProcessEffect
      <3> QED
        BY <1>1, <2>3, <3>1, <3>2 DEF Next, Step, vars
    <2> QED
      BY <2>2, <2>3
  <1> QED
    BY <1>1, TypeInit, TypeStep, PTL DEF Spec, FilledStays
=============================================================================
