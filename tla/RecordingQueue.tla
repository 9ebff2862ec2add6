--------------------------- MODULE RecordingQueue ---------------------------
(***************************************************************************)
(* The offline recorder (lib/client/upload-queue, use-browser-recorder,    *)
(* upload-queue-provider, handleBrowserRecording): one user's recordings   *)
(* in the IndexedDB that the tabs of a browser share.                      *)
(*                                                                         *)
(* A recorder stores chunks while it runs; at stop they are assembled into *)
(* an item, which a flush uploads.  A tab that mounts assembles what it    *)
(* finds (recover).  Every storage call is a transaction of its own, so    *)
(* the calls of two tabs, and of one tab's tasks, interleave.              *)
(***************************************************************************)
EXTENDS Naturals, FiniteSets

CONSTANTS
  Tabs, Captures,
  Direct,        \* captures recorded for a meeting: uploaded to it directly
  NoCapture, NoItem,
  MaxChunks,     \* bound: chunks of a recording
  MaxMishaps,     \* bound: uploads that fail, sign-outs and tabs that close
  MaxDiscards    \* bound: recordings the user discards

ASSUME QueueAssumption ==
  /\ Direct \subseteq Captures /\ NoCapture \notin Captures
  /\ MaxChunks \in Nat \ {0} /\ MaxMishaps \in Nat /\ MaxDiscards \in Nat

Blob == SUBSET (1..MaxChunks)

Item == [blob : Blob,
         st : {"pending", "paused-auth", "failed-permanent"},
         next : {"none", "later", "due"}]  \* nextAttemptAt: null, ahead, past

Tasks == {"stop", "mount", "user"}  \* what may change the storage beside a flush

Task == [at : {"idle", "get", "list", "put", "drop", "direct", "erase", "wipe"},
         c : Captures \cup {NoCapture}, got : Blob,
         todo : SUBSET Captures]

Flushing == [at : {"off", "pick", "sent", "answered", "drop"}, force : BOOLEAN,
             todo : SUBSET Captures, c : Captures \cup {NoCapture}, copy : Blob]

ASSUME NullAssumption == NoItem \notin Item

VARIABLES
  chunks,     \* stored chunks of each capture
  item,       \* its queued item
  rec,        \* how far its recording is
  home,       \* the tab that records it (activeCaptureIds)
  made,       \* chunks it wrote
  open,       \* tabs that are open
  task,       \* storage tasks of a tab
  flush,      \* the one flush of a tab
  timer,      \* tabs whose retry timer is set
  signedIn,
  stored,     \* what the server holds of a capture: the first upload it took
  attached,   \* captures whose direct upload the server took
  discarded,  \* captures the user threw away
  raced,      \* captures recovered by one tab while another recorded them
  mishaps

recordingVars == <<chunks, item, rec, home, made, open, task, flush, timer, signedIn,
          stored, attached, discarded, raced, mishaps>>

recorder == <<rec, home, made>>
server == <<stored, attached>>
history == <<discarded, raced>>

RecordingTypeOK ==
  /\ chunks \in [Captures -> Blob]
  /\ item \in [Captures -> Item \cup {NoItem}]
  /\ rec \in [Captures -> {"unused", "recording", "over"}]
  /\ home \in [Captures -> Tabs]
  /\ made \in [Captures -> 0..MaxChunks]
  /\ open \subseteq Tabs
  /\ task \in [Tabs -> [Tasks -> Task]]
  /\ flush \in [Tabs -> Flushing]
  /\ timer \subseteq open
  /\ signedIn \in BOOLEAN
  /\ stored \in [Captures -> Blob]
  /\ attached \subseteq Captures /\ discarded \subseteq Captures /\ raced \subseteq Captures
  /\ mishaps \in 0..MaxMishaps

Idle == [at |-> "idle", c |-> NoCapture, got |-> {}, todo |-> {}]

NoFlush == [at |-> "off", force |-> FALSE, todo |-> {}, c |-> NoCapture,
            copy |-> {}]

RecordingInit ==
  /\ chunks = [c \in Captures |-> {}] /\ item = [c \in Captures |-> NoItem]
  /\ rec = [c \in Captures |-> "unused"] /\ home \in [Captures -> Tabs]
  /\ made = [c \in Captures |-> 0]
  /\ open = {} /\ task = [t \in Tabs |-> [k \in Tasks |-> Idle]]
  /\ flush = [t \in Tabs |-> NoFlush] /\ timer = {}
  /\ signedIn = TRUE
  /\ stored = [c \in Captures |-> {}] /\ attached = {}
  /\ discarded = {} /\ raced = {} /\ mishaps = 0

Queued(c) == item[c] # NoItem

Is(c, status) == Queued(c) /\ item[c].st = status

(* A recording is in its tab's activeCaptureIds until the hand-off.         *)
Active(t) == {c \in Captures : home[c] = t /\
                (rec[c] = "recording" \/ (task[t]["stop"].c = c /\ task[t]["stop"].at \in {"get", "list", "put", "drop"}))}

Mishap == mishaps < MaxMishaps /\ mishaps' = mishaps + 1

-----------------------------------------------------------------------------
(* A snapshot sets the retry timer for the items that wait for a later try. *)
Notify(t) ==
  timer' = IF \E c \in Captures : item'[c] # NoItem /\ item'[c].st = "pending" /\ item'[c].next # "none"
           THEN timer \cup {t} ELSE timer \ {t}

(* A flush goes on with the captures left, or ends with a snapshot.         *)
Continue(t, force, left) ==
  IF left = {} THEN flush' = [flush EXCEPT ![t] = NoFlush] /\ Notify(t)
  ELSE flush' = [flush EXCEPT ![t] = [NoFlush EXCEPT !.at = "pick", !.force = force, !.todo = left]] /\ UNCHANGED timer

(* Mutant: nothing lifts the pause after a 401.                             *)
ListedPending(force) == {c \in Captures : Is(c, "pending")}

(* A 401 pauses every flush that is not forced.                             *)
Listed(force) ==
  IF ~force /\ \E c \in Captures : Is(c, "paused-auth") THEN {}
  ELSE {c \in Captures : Is(c, "pending") \/ (force /\ Is(c, "paused-auth"))}

(* flush: one at a time in a tab; a later caller shares the one under way,  *)
(* whatever it asked for, and the list that one took when it began.         *)
StartFlush(t, force) ==
  IF flush[t].at = "off" THEN Continue(t, force, Listed(force)) ELSE UNCHANGED <<flush, timer>>

(* uploadOne under the capture's Web Lock: the item is read again.          *)
Free(c) == \A t \in Tabs : flush[t].c # c

Due(c, force) == Queued(c) /\ ~Is(c, "failed-permanent") /\ (force \/ item[c].next # "later")

(* After each item the flush reads it once more, and stops at a 401.        *)
Leave(t, c) ==
  Continue(t, flush[t].force,
           IF item'[c] # NoItem /\ item'[c].st = "paused-auth" THEN {} ELSE flush[t].todo \ {c})

Pick(t, c) ==
  /\ flush[t].at = "pick" /\ c \in flush[t].todo /\ Free(c)
  /\ UNCHANGED item
  /\ IF Due(c, flush[t].force)
     THEN /\ flush' = [flush EXCEPT ![t].at = "sent", ![t].c = c, ![t].copy = item[c].blob]
          /\ Notify(t)
     ELSE Leave(t, c)
  /\ UNCHANGED <<chunks, recorder, open, task, signedIn, server, history, mishaps>>

(* /api/desktop-capture/ingest: it keeps the first upload of a capture.     *)
Accept(t) ==
  LET c == flush[t].c IN
  /\ flush[t].at = "sent" /\ signedIn
  /\ stored' = [stored EXCEPT ![c] = IF @ = {} THEN flush[t].copy ELSE @]
  /\ flush' = [flush EXCEPT ![t].at = "answered"]
  /\ UNCHANGED <<chunks, item, recorder, open, task, timer, signedIn, attached, history, mishaps>>

(* Mutant: a failed upload takes the item with it.                          *)
KeepNothing(t, status, next) ==
  /\ item' = [item EXCEPT ![flush[t].c] = NoItem]
  /\ Leave(t, flush[t].c)

(* The copy that was sent is written back with what came of it.             *)
Keep(t, status, next) ==
  /\ item' = [item EXCEPT ![flush[t].c] = [blob |-> flush[t].copy, st |-> status, next |-> next]]
  /\ Leave(t, flush[t].c)

(* What classifyUploadResponse reads in a status, or in no answer at all.   *)
Refuse(t) ==
  /\ \/ flush[t].at = "sent" /\ ~signedIn /\ Keep(t, "paused-auth", "none") /\ UNCHANGED mishaps
     \/ flush[t].at = "sent" /\ signedIn /\ Mishap /\ Keep(t, "failed-permanent", "none")
     \/ flush[t].at \in {"sent", "answered"} /\ Mishap /\ Keep(t, "pending", "later")
  /\ UNCHANGED <<chunks, recorder, open, task, signedIn, server, history>>

(* Mutant: what was uploaded stays in the queue.                            *)
DropNothing(t) ==
  /\ flush[t].at = "answered"
  /\ flush' = [flush EXCEPT ![t].at = "drop"]
  /\ UNCHANGED <<chunks, item, recorder, open, task, timer, signedIn, server, history, mishaps>>

(* A 2xx that names a meeting: the item goes, then the chunks.              *)
DropItem(t) ==
  /\ flush[t].at = "answered"
  /\ item' = [item EXCEPT ![flush[t].c] = NoItem]
  /\ flush' = [flush EXCEPT ![t].at = "drop"]
  /\ UNCHANGED <<chunks, recorder, open, task, timer, signedIn, server, history, mishaps>>

DropChunks(t) ==
  /\ flush[t].at = "drop"
  /\ chunks' = [chunks EXCEPT ![flush[t].c] = {}]
  /\ UNCHANGED item
  /\ Leave(t, flush[t].c)
  /\ UNCHANGED <<recorder, open, task, signedIn, server, history, mishaps>>

-----------------------------------------------------------------------------
(* assemble, for the tab's recorder at stop and for each capture that a     *)
(* mounting tab finds: the item first, then the chunks are dropped.         *)
TaskAt(t, k, place) == task[t][k].at = place

TaskTo(t, k, place) == task' = [task EXCEPT ![t][k].at = place]

(* After the stop: the recording is handed to the meeting it was made for,  *)
(* or to the queue.  After a mount: whatever is queued is flushed.          *)
Assemble(t, k, found) ==
  \E c \in found : task' = [task EXCEPT ![t][k] = [Idle EXCEPT !.at = "get", !.c = c, !.todo = found \ {c}]]

Assembled(t, k) ==
  CASE k = "stop" /\ task[t][k].c \in Direct -> TaskTo(t, k, "direct") /\ UNCHANGED flush /\ Notify(t)
    [] k = "mount" /\ task[t][k].todo # {} -> Assemble(t, k, task[t][k].todo) /\ UNCHANGED flush /\ Notify(t)
    [] OTHER -> task' = [task EXCEPT ![t][k] = Idle] /\ StartFlush(t, k = "stop")

Get(t, k) ==
  /\ TaskAt(t, k, "get")
  /\ TaskTo(t, k, IF Queued(task[t][k].c) THEN "drop" ELSE "list")
  /\ UNCHANGED <<chunks, item, recorder, open, flush, timer, signedIn, server, history, mishaps>>

(* Mutant: an assembly stores what it read, chunks or none.                 *)
ListBlindly(t, k) ==
  /\ TaskAt(t, k, "list")
  /\ task' = [task EXCEPT ![t][k].at = "put", ![t][k].got = chunks[task[t][k].c]]
  /\ UNCHANGED <<chunks, item, recorder, open, flush, timer, signedIn, server, history, mishaps>>

List(t, k) ==
  LET c == task[t][k].c IN
  /\ TaskAt(t, k, "list")
  /\ UNCHANGED <<chunks, item>>
  /\ IF chunks[c] = {} THEN Assembled(t, k)
     ELSE task' = [task EXCEPT ![t][k].at = "put", ![t][k].got = chunks[c]] /\ UNCHANGED <<flush, timer>>
  /\ raced' = IF rec[c] = "recording" /\ home[c] # t THEN raced \cup {c} ELSE raced
  /\ UNCHANGED <<recorder, open, signedIn, server, discarded, mishaps>>

Put(t, k) ==
  /\ TaskAt(t, k, "put")
  /\ item' = [item EXCEPT ![task[t][k].c] = [blob |-> task[t][k].got, st |-> "pending", next |-> "none"]]
  /\ TaskTo(t, k, "drop")
  /\ UNCHANGED <<chunks, recorder, open, flush, timer, signedIn, server, history, mishaps>>

Drop(t, k) ==
  /\ TaskAt(t, k, "drop")
  /\ chunks' = [chunks EXCEPT ![task[t][k].c] = {}]
  /\ UNCHANGED item
  /\ Assembled(t, k)
  /\ UNCHANGED <<recorder, open, signedIn, server, history, mishaps>>

-----------------------------------------------------------------------------
(* The recorder.  Its last chunk is written before the stop is handled.     *)
RecordChunk(c) ==
  /\ home[c] \in open /\ rec[c] \in {"unused", "recording"} /\ made[c] < MaxChunks
  /\ rec[c] = "unused" => Active(home[c]) = {} /\ TaskAt(home[c], "stop", "idle")
  /\ rec' = [rec EXCEPT ![c] = "recording"]
  /\ made' = [made EXCEPT ![c] = @ + 1]
  /\ chunks' = [chunks EXCEPT ![c] = @ \cup {made'[c]}]
  /\ UNCHANGED <<item, home, open, task, flush, timer, signedIn, server, history, mishaps>>

StopRecording(c) ==
  /\ rec[c] = "recording"
  /\ rec' = [rec EXCEPT ![c] = "over"]
  /\ task' = [task EXCEPT ![home[c]]["stop"] = [Idle EXCEPT !.at = "get", !.c = c]]
  /\ UNCHANGED <<chunks, item, home, made, open, flush, timer, signedIn, server, history, mishaps>>

(* A recording made for a meeting: uploaded to it, then out of the queue.   *)
Attach(t) ==
  /\ TaskAt(t, "stop", "direct") /\ signedIn
  /\ attached' = attached \cup {task[t]["stop"].c}
  /\ TaskTo(t, "stop", "erase")
  /\ UNCHANGED <<chunks, item, recorder, open, flush, timer, signedIn, stored, history, mishaps>>

(* It failed, or its answer was lost: the queued copy uploads.              *)
AttachFails(t) ==
  /\ TaskAt(t, "stop", "direct")
  /\ \/ ~signedIn /\ UNCHANGED <<attached, mishaps>>
     \/ Mishap /\ UNCHANGED attached
     \/ signedIn /\ Mishap /\ attached' = attached \cup {task[t]["stop"].c}
  /\ task' = [task EXCEPT ![t]["stop"] = Idle]
  /\ UNCHANGED item
  /\ StartFlush(t, TRUE)
  /\ UNCHANGED <<chunks, recorder, open, signedIn, stored, history>>

(* remove: the item, then the chunks, without the lock of the upload.       *)
Remove(t, c) ==
  /\ t \in open /\ Queued(c) /\ TaskAt(t, "user", "idle")
  /\ Cardinality(discarded \cup {c}) <= MaxDiscards
  /\ discarded' = discarded \cup {c}
  /\ task' = [task EXCEPT ![t]["user"] = [Idle EXCEPT !.at = "erase", !.c = c]]
  /\ UNCHANGED <<chunks, item, recorder, open, flush, timer, signedIn, server, raced, mishaps>>

Erase(t, k) ==
  /\ TaskAt(t, k, "erase")
  /\ item' = [item EXCEPT ![task[t][k].c] = NoItem]
  /\ TaskTo(t, k, "wipe")
  /\ UNCHANGED <<chunks, recorder, open, flush, timer, signedIn, server, history, mishaps>>

Wipe(t, k) ==
  /\ TaskAt(t, k, "wipe")
  /\ chunks' = [chunks EXCEPT ![task[t][k].c] = {}]
  /\ task' = [task EXCEPT ![t][k] = Idle]
  /\ UNCHANGED item
  /\ Notify(t)
  /\ UNCHANGED <<recorder, open, flush, signedIn, server, history, mishaps>>

-----------------------------------------------------------------------------
(* The provider mounts: recover, then flush.                                *)
Mount(t) ==
  LET found == {c \in Captures : chunks[c] # {}} \ Active(t) IN
  /\ UNCHANGED item
  /\ IF found = {} THEN StartFlush(t, FALSE) /\ UNCHANGED task
     ELSE Assemble(t, "mount", found) /\ UNCHANGED <<flush, timer>>
  /\ UNCHANGED <<chunks, recorder, signedIn, server, history, mishaps>>

Open(t) == t \notin open /\ open' = open \cup {t} /\ Mount(t)

(* A navigation within the page; a recording may still be on its way.       *)
Navigate(t) == t \in open /\ TaskAt(t, "mount", "idle") /\ UNCHANGED open /\ Mount(t)

(* A tab is closed or killed: what it stored stays.                         *)
Close(t) ==
  /\ t \in open /\ Mishap
  /\ open' = open \ {t} /\ timer' = timer \ {t}
  /\ task' = [task EXCEPT ![t] = [k \in Tasks |-> Idle]]
  /\ flush' = [flush EXCEPT ![t] = NoFlush]
  /\ rec' = [c \in Captures |-> IF home[c] = t /\ rec[c] = "recording" THEN "over" ELSE rec[c]]
  /\ UNCHANGED <<chunks, item, home, made, signedIn, server, history>>

(* The page is shown, the worker or another part of it asks; or the user   *)
(* presses retry, or the browser is online again.                           *)
Ask(t, force) ==
  /\ t \in open /\ flush[t].at = "off"
  /\ UNCHANGED item
  /\ StartFlush(t, force)
  /\ UNCHANGED <<chunks, recorder, open, task, signedIn, server, history, mishaps>>

Show(t) == Ask(t, FALSE)

Retry(t) == Ask(t, TRUE)

(* The timer was set for the earliest of the items that waited.  A flush    *)
(* under way sets it again when it ends.                                    *)
Timer(t) ==
  /\ t \in timer /\ flush[t].at = "off"
  /\ \/ \E c \in Captures : Is(c, "pending") /\ item[c].next = "due"
     \/ \A c \in Captures : Is(c, "pending") => item[c].next = "none"
  /\ UNCHANGED item
  /\ StartFlush(t, FALSE)
  /\ UNCHANGED <<chunks, recorder, open, task, signedIn, server, history, mishaps>>

Elapse(c) ==
  /\ Queued(c) /\ item[c].next = "later"
  /\ item' = [item EXCEPT ![c].next = "due"]
  /\ UNCHANGED <<chunks, recorder, open, task, flush, timer, signedIn, server, history, mishaps>>

SignOut ==
  /\ signedIn /\ Mishap /\ signedIn' = FALSE
  /\ UNCHANGED <<chunks, item, recorder, open, task, flush, timer, server, history>>

SignIn ==
  /\ ~signedIn /\ signedIn' = TRUE
  /\ UNCHANGED <<chunks, item, recorder, open, task, flush, timer, server, history, mishaps>>

-----------------------------------------------------------------------------
Upload(t) ==
  \/ \E c \in Captures : Pick(t, c)
  \/ Accept(t) \/ Refuse(t) \/ DropItem(t) \/ DropChunks(t)

Save(t, k) == Get(t, k) \/ List(t, k) \/ Put(t, k) \/ Drop(t, k) \/ Erase(t, k) \/ Wipe(t, k)

Hand(t) == Attach(t) \/ AttachFails(t)

Capture(c) == RecordChunk(c) \/ StopRecording(c)

Wake(t) == Show(t) \/ Retry(t)

RecordingNext ==
  \/ \E t \in Tabs : \/ Upload(t) \/ Hand(t) \/ Open(t) \/ Navigate(t) \/ Close(t) \/ Wake(t) \/ Timer(t)
                     \/ \E k \in Tasks : Save(t, k)
                     \/ \E c \in Captures : Remove(t, c)
  \/ \E c \in Captures : Capture(c) \/ Elapse(c)
  \/ SignOut \/ SignIn

RecordingSpec == RecordingInit /\ [][RecordingNext]_recordingVars

(* What an open page and its browser do by themselves.                      *)
PagesRun ==
  /\ \A t \in Tabs : /\ WF_recordingVars(Upload(t)) /\ WF_recordingVars(Hand(t)) /\ WF_recordingVars(Timer(t))
                     /\ \A k \in Tasks : WF_recordingVars(Save(t, k))
  /\ \A c \in Captures : WF_recordingVars(StopRecording(c)) /\ WF_recordingVars(Elapse(c))

(* And the user: opens the app again, signs in again, presses retry again.  *)
Returns == WF_recordingVars(SignIn) /\ \A t \in Tabs : WF_recordingVars(Open(t)) /\ SF_recordingVars(Retry(t))

AttendedSpec == RecordingSpec /\ PagesRun /\ Returns

UnattendedSpec == RecordingSpec /\ PagesRun /\ \A t \in Tabs : WF_recordingVars(Open(t))

-----------------------------------------------------------------------------
(* What holds of a recording that no other tab recovered while it ran.      *)

Held(c) == chunks[c] \cup (IF Queued(c) THEN item[c].blob ELSE {})
             \cup stored[c]
             \cup (IF c \in attached THEN 1..made[c] ELSE {})

(* A chunk once written is in the browser's storage or at the server until  *)
(* the user discards the recording, however uploads fail and tabs close     *)
(* (queue.ts, lines 193-196 and 224-227).                                   *)
Kept == \A c \in Captures \ (discarded \cup raced) : 1..made[c] \subseteq Held(c)

(* The server, which keeps the first upload of a capture, is sent nothing   *)
(* but the whole recording: no tab uploads one that is still being made.    *)
StoredWhole == \A c \in Captures \ raced : stored[c] # {} => (rec[c] = "over" /\ stored[c] = 1..made[c])

(* Chunks the server does not hold never leave the browser but through the  *)
(* item that carries them: while a recording is queued, its chunks are in   *)
(* that item.                                                               *)
ItemWhole == \A c \in Captures \ raced : Queued(c) => item[c].blob = 1..made[c]

(* A recording that ended has left the browser: no chunk, no item, and no    *)
(* upload or assembly under way that still holds a copy of it.              *)
Gone(c) ==
  /\ rec[c] = "over" /\ chunks[c] = {} /\ ~Queued(c)
  /\ \A t \in Tabs : ~(flush[t].c = c /\ flush[t].at \in {"sent", "answered"})
  /\ \A t \in Tabs, k \in Tasks : ~(task[t][k].c = c /\ TaskAt(t, k, "put"))

(* What left the browser never comes back: of the writers that act on what  *)
(* they read before an await, only an upload under way (queue.ts, line 233) *)
(* and an assembly that read the chunks (queue.ts, line 152) may write an    *)
(* item again, whatever the other tabs, recoveries and discards do.         *)
GoneForGood == [][\A c \in Captures : Gone(c) => Gone(c)']_recordingVars

Settled(c) == stored[c] # {} \/ c \in attached \cup discarded \/ Is(c, "failed-permanent")

(* Every recording that ended is in time with the server, or marked as one  *)
(* it refuses, or discarded.                                                *)
RecordingSettles == \A c \in Captures : (rec[c] = "over" /\ made[c] > 0) ~> Settled(c)

(* An item the server holds leaves the browser.                             *)
Released == \A c \in Captures : (stored[c] # {}) ~> (~Queued(c) \/ Is(c, "failed-permanent"))

-----------------------------------------------------------------------------
(* What does not hold.                                                      *)

(* At most one chunk is lost on a crash (queue.ts, line 6), and recover     *)
(* takes chunks left by a closed tab (line 7): it takes any other tab's.    *)
KeptAlways == \A c \in Captures \ discarded : 1..made[c] \subseteq Held(c)

(* What the user discarded stays discarded: the copy of an upload under way *)
(* is written back when that fails (queue.ts, lines 230-244 and 307).       *)
DiscardStays == [][\A c \in discarded : ~Queued(c) => ~Queued(c)']_recordingVars

(* A recording made for a meeting is attached to it once: a flush may send  *)
(* the queued copy before it is removed (command-center-shell.tsx, 862-863).*)
AttachedOnce == \A c \in attached : stored[c] = {}
=============================================================================
