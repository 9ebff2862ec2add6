--------------------------- MODULE TranscriptEdits ---------------------------
(***************************************************************************)
(* The transcript of one meeting under edits (updateTranscriptSegment,     *)
(* undoTranscriptSegment, mergeMeetingSpeakers and writeTranscript of      *)
(* lib/meetings/postgres-repository.ts), with the pages that show it       *)
(* (use-meeting-transcript.ts) and the jobs that write it again: the       *)
(* clean-up of a summary and a new transcription (lib/jobs/processor.ts).  *)
(* Each writer is one transaction that locks the meeting; what may come    *)
(* in between is a page's read and its request, and the clean-up's read    *)
(* and its write.                                                          *)
(***************************************************************************)
EXTENDS Naturals, FiniteSets, FiniteSetsExt

CONSTANTS
  Clients,
  Speakers,   \* speakers' labels
  First,      \* the speaker of what the transcription writes
  Segments,   \* 1..n, in the order they are spoken
  Fillers,    \* those the clean-up drops while nobody edited them
  Keep,       \* MEETSUM_TRANSCRIPT_REVISIONS_KEEP
  MaxCalls    \* bound: calls in all, reads that change nothing apart

ASSUME EditsAssumption ==
  /\ IsFiniteSet(Segments) /\ Segments = 1..Cardinality(Segments) /\ Segments # {}
  /\ Fillers \subseteq Segments /\ First \in Speakers /\ Keep \in Nat \ {0}
  /\ MaxCalls \in Nat

VARIABLES
  segs,      \* the segments that are there
  revs,      \* transcript_segment_revisions
  spk,       \* the meeting's speakers
  version,   \* transcript_version, the ETag of a read
  run,       \* which transcription wrote the segments, part of their ids
  snap,      \* what a clean-up has read, or <<>>
  view,      \* what each page shows, and the ETag it keeps with it
  wire,      \* each page's request for the transcript
  edits,     \* what each edit found: text and source of the segments it changed
  reborn,    \* segments a clean-up inserted again, with revision 0
  blind,     \* segments whose edit replaced a text its author had not seen
  calls

vars == <<segs, revs, spk, version, run, snap, view, wire, edits, reborn, blind, calls>>

ghosts == <<edits, reborn, blind>>
pages == <<view, wire>>

(* A text is the number of the edit that wrote it, 0 for the transcription. *)
Text == 0..MaxCalls

Segment == [text : Text, speaker : Speakers, turn : Nat, source : {"asr", "edited"}, rev : Nat]

Written(f) == DOMAIN f \subseteq Segments /\ \A n \in DOMAIN f : f[n] \in Segment

Revision == [seg : Segments, rev : Nat, text : Text, speaker : Speakers,
             source : {"asr", "edited"}, group : 1..MaxCalls, reverted : BOOLEAN]

NoTag == 0

TypeOK ==
  /\ Written(segs) /\ revs \subseteq Revision /\ spk \subseteq Speakers
  /\ version \in Nat \ {NoTag} /\ run \in Nat
  /\ Written(snap)
  /\ \A c \in Clients : /\ view[c].etag \in Nat /\ view[c].run \in 0..run /\ Written(view[c].segs)
                        /\ wire[c].at \in {"idle", "versioned", "read"}
  /\ \A r \in revs : r.seg \in DOMAIN segs
  /\ reborn \subseteq Segments /\ blind \subseteq Segments

Called == calls < MaxCalls /\ calls' = calls + 1

Made == Cardinality(DOMAIN edits)

Before(f, n) == {m \in DOMAIN f : m < n}

(* computeTurnIndexes, RECOMPUTE_TURNS_SQL: consecutive segments of one     *)
(* speaker are a turn.                                                      *)
Opens(f, n) == Before(f, n) = {} \/ f[Max(Before(f, n))].speaker # f[n].speaker

Turned(f) == [n \in DOMAIN f |->
  [f[n] EXCEPT !.turn = Cardinality({m \in DOMAIN f : m <= n /\ Opens(f, m)}) - 1]]

Fresh == [n \in Segments |-> [text |-> 0, speaker |-> First, turn |-> 0, source |-> "asr", rev |-> 0]]

Idle == [at |-> "idle", etag |-> NoTag, run |-> 0, segs |-> <<>>]

Init ==
  /\ segs = Fresh /\ revs = {} /\ spk = {First} /\ version = 1 /\ run = 0 /\ snap = <<>>
  /\ view = [c \in Clients |-> [etag |-> 1, run |-> 0, segs |-> Fresh]]
  /\ wire = [c \in Clients |-> Idle]
  /\ edits = <<>> /\ reborn = {} /\ blind = {}
  /\ calls = 0

-----------------------------------------------------------------------------
(* A page reads the transcript.                                            *)

(* A request with the current ETag is answered 304; the one it supersedes   *)
(* is aborted.  The version is read before the segments.                    *)
StartFetch(c) ==
  /\ Called /\ view[c].etag # version
  /\ wire' = [wire EXCEPT ![c] = [at |-> "versioned", etag |-> version, run |-> 0, segs |-> <<>>]]
  /\ UNCHANGED <<segs, revs, spk, version, run, snap, view, ghosts>>

ReadSegments(c) ==
  /\ wire[c].at = "versioned"
  /\ wire' = [wire EXCEPT ![c].at = "read", ![c].run = run, ![c].segs = segs]
  /\ UNCHANGED <<segs, revs, spk, version, run, snap, view, ghosts, calls>>

(* Mutant: the answer's ETag is read when it is sent.                       *)
ArriveLate(c) ==
  /\ wire[c].at = "read"
  /\ view' = [view EXCEPT ![c] = [etag |-> version, run |-> wire[c].run, segs |-> wire[c].segs]]
  /\ wire' = [wire EXCEPT ![c] = Idle]
  /\ UNCHANGED <<segs, revs, spk, version, run, snap, ghosts, calls>>

Arrive(c) ==
  /\ wire[c].at = "read"
  /\ view' = [view EXCEPT ![c] = [etag |-> wire[c].etag, run |-> wire[c].run, segs |-> wire[c].segs]]
  /\ wire' = [wire EXCEPT ![c] = Idle]
  /\ UNCHANGED <<segs, revs, spk, version, run, snap, ghosts, calls>>

(* applyMutation: the segments of an answer go into the copy, its ETag goes.*)
Fold(c, changed, now) ==
  LET Shown(n) == IF n \in changed \cap DOMAIN now THEN now[n] ELSE view[c].segs[n] IN
  view' = [view EXCEPT ![c].etag = NoTag, ![c].segs = [n \in DOMAIN view[c].segs |-> Shown(n)]]

Refetch(c) == view' = [view EXCEPT ![c].etag = NoTag]

-----------------------------------------------------------------------------
(* A page's PATCH and undo: the revision it sends is the one it shows.      *)

Finds(c, n) == view[c].run = run /\ n \in DOMAIN view[c].segs \cap DOMAIN segs

(* Mutant: the revision is not compared.                                    *)
CurrentAnyway(c, n) == Finds(c, n)

Current(c, n) == Finds(c, n) /\ view[c].segs[n].rev = segs[n].rev

Conflict(c, n) ==
  /\ Finds(c, n) /\ ~Current(c, n)
  /\ Fold(c, {n}, segs) \/ Refetch(c)
  /\ UNCHANGED <<segs, revs, spk, version, run, snap, wire, ghosts, calls>>

(* The segments a change of speaker covers: one, or its whole turn.         *)
Covered(n, whole) ==
  IF whole THEN {m \in DOMAIN segs : segs[m].turn = segs[n].turn /\ segs[m].speaker = segs[n].speaker} ELSE {n}

RankIn(rows, r) == Cardinality({q \in rows : q.seg = r.seg /\ q.rev >= r.rev})

Pruned(rows, among) == {r \in rows : r.seg \in among => RankIn(rows, r) <= Keep}

(* Mutant: turn indexes are left as they were.                              *)
RetimedNot(changed, f) == f

Retimed(changed, f) == IF changed THEN Turned(f) ELSE f

(* A page changes the text or the speaker; a speaker that is not there yet  *)
(* is one the patch names newly.                                            *)
Patch(c, n, text, to, whole) ==
  LET speaks == to # segs[n].speaker
      ids == Covered(n, whole /\ speaks)
      k == Made + 1
      changed == [m \in DOMAIN segs |-> IF m \notin ids THEN segs[m] ELSE
                    [segs[m] EXCEPT !.text = IF m = n /\ text THEN k ELSE @, !.speaker = to,
                                    !.source = "edited", !.rev = @ + 1]]
      prior == {[seg |-> m, rev |-> segs[m].rev, text |-> segs[m].text, speaker |-> segs[m].speaker,
                 source |-> segs[m].source, group |-> k, reverted |-> FALSE] : m \in ids}
      now == Retimed(speaks, changed)
  IN
  /\ Called /\ Current(c, n) /\ text # speaks /\ (whole => speaks)
  /\ segs' = now
  /\ revs' = Pruned(revs \cup prior, ids)
  /\ spk' = spk \cup {to}
  /\ version' = version + 1
  /\ IF whole THEN Refetch(c) ELSE Fold(c, ids, now)
  /\ edits' = [e \in 1..k |-> IF e < k THEN edits[e] ELSE [m \in ids |-> <<segs[m].text, segs[m].source>>]]
  /\ blind' = IF text /\ segs[n].text # view[c].segs[n].text THEN blind \cup {n} ELSE blind
  /\ UNCHANGED <<run, snap, wire, reborn>>

Standing(n) == {r \in revs : r.seg = n /\ ~r.reverted}

Newest(n, r) == r \in Standing(n) /\ \A q \in Standing(n) : q.rev <= r.rev

(* Mutant: an undo takes the segment's own revision only.                   *)
GroupOne(r) == {r}

Group(r) == {q \in revs : q.group = r.group /\ ~q.reverted}

Undoable(r) == \A q \in Group(r) : Newest(q.seg, q)

Restored(q) == IF q.speaker \in spk THEN q.speaker ELSE segs[q.seg].speaker

Reverted(rows) == {[q EXCEPT !.reverted = TRUE] : q \in rows}

Undo(c, n) == \E r \in Standing(n) :
  LET group == Group(r)
      Row(m) == CHOOSE q \in group : q.seg = m
      ids == {q.seg : q \in group}
      speaks == \E q \in group : Restored(q) # segs[q.seg].speaker
      restored == [m \in DOMAIN segs |-> IF m \notin ids THEN segs[m] ELSE
                     [segs[m] EXCEPT !.text = Row(m).text, !.speaker = Restored(Row(m)),
                                     !.source = Row(m).source, !.rev = @ + 1]]
      now == Retimed(speaks, restored)
  IN
  /\ Called /\ Current(c, n) /\ Newest(n, r)
  /\ \/ /\ Undoable(r)
        /\ segs' = now
        /\ revs' = (revs \ group) \cup Reverted(group)
        /\ version' = version + 1
        /\ Fold(c, ids, now)
     \/ /\ ~Undoable(r)
        /\ Refetch(c)
        /\ UNCHANGED <<segs, revs, version>>
  /\ UNCHANGED <<spk, run, snap, wire, ghosts>>

-----------------------------------------------------------------------------
(* A speaker is merged into another; revisions stay as they are.            *)
Merge(from, to) ==
  /\ Called /\ from \in spk /\ to \in spk \ {from}
  /\ segs' = Turned([n \in DOMAIN segs |-> [segs[n] EXCEPT !.speaker = IF @ = from THEN to ELSE @]])
  /\ spk' = spk \ {from} /\ version' = version + 1
  /\ UNCHANGED <<revs, run, snap, pages, ghosts>>

-----------------------------------------------------------------------------
(* The worker: one job of the meeting at a time.                            *)

(* Mutant: the clean-up drops a filler whether it was edited or not.        *)
CleanedAll(f) == [n \in DOMAIN f \ Fillers |-> f[n]]

(* cleanupKeepingEdits.                                                     *)
Cleaned(f) == [n \in {m \in DOMAIN f : m \notin Fillers \/ f[m].source = "edited"} |-> f[n]]

(* processIntelligenceOnlyJob, and its retry: nothing to drop, no write.    *)
CleanRead ==
  /\ Called
  /\ Cleaned(segs) # segs /\ Cleaned(segs) # <<>>
  /\ snap' = segs
  /\ UNCHANGED <<segs, revs, spk, version, run, pages, ghosts>>

(* preserveEditedSegments: rows that stay, with their text and revision.    *)
Preserved == {n \in DOMAIN Cleaned(snap) : segs[n].source = "edited"}

(* The others are deleted, with their revisions, and inserted as they were  *)
(* read.  Speakers and turns are as read, and so is who is a speaker.       *)
CleanWrite ==
  LET kept == Cleaned(snap) IN
  /\ snap # <<>>
  /\ segs' = [n \in DOMAIN kept |->
                IF n \in Preserved THEN [segs[n] EXCEPT !.speaker = kept[n].speaker, !.turn = kept[n].turn]
                                   ELSE [kept[n] EXCEPT !.rev = 0]]
  /\ revs' = {r \in revs : r.seg \in Preserved}
  /\ spk' = {kept[n].speaker : n \in DOMAIN kept}
  /\ version' = version + 1
  /\ snap' = <<>>
  /\ reborn' = reborn \cup (DOMAIN kept \ Preserved)
  /\ UNCHANGED <<run, pages, edits, blind, calls>>

CleanUpDies ==
  /\ snap # <<>> /\ snap' = <<>>
  /\ UNCHANGED <<segs, revs, spk, version, run, pages, ghosts, calls>>

(* A full reprocess transcribes again: new ids, and edits are given up.     *)
Transcribe ==
  /\ Called /\ snap = <<>>
  /\ run' = run + 1
  /\ segs' = Fresh /\ revs' = {} /\ spk' = {First} /\ version' = version + 1
  /\ reborn' = {} /\ blind' = {}
  /\ UNCHANGED <<snap, pages, edits>>

Next ==
  \/ \E c \in Clients :
       \/ StartFetch(c) \/ ReadSegments(c) \/ Arrive(c)
       \/ \E n \in Segments :
            \/ Conflict(c, n) \/ Undo(c, n)
            \/ /\ n \in DOMAIN segs
               /\ \E text, whole \in BOOLEAN, to \in Speakers : Patch(c, n, text, to, whole)
  \/ \E from, to \in Speakers : Merge(from, to)
  \/ CleanRead \/ CleanWrite \/ CleanUpDies \/ Transcribe

Spec == Init /\ [][Next]_vars

-----------------------------------------------------------------------------
(* Properties.                                                             *)

(* A page whose ETag is the current version shows the current transcript,   *)
(* so the 304 it would get hides no change, whatever was written while it   *)
(* was reading (getMeetingTranscript, applyMutation).                       *)
ValidatorNeverHides ==
  \A c \in Clients : view[c].etag = version => view[c].run = run /\ view[c].segs = segs

(* An edit replaces the text its author saw, unless a clean-up inserted the *)
(* segment again and its revisions started from 0 once more.                *)
BlindOnlyAfterRewrite == blind \subseteq reborn

(* Every segment is spoken by a speaker of the meeting, after merges, undos *)
(* that restore a speaker, and clean-ups that write what they read before.  *)
SpeakersExist == \A n \in DOMAIN segs : segs[n].speaker \in spk

(* A turn, which a change of speaker covers as one, is consecutive segments *)
(* of one speaker.                                                          *)
TurnIsOneSpeaker == \A m, n \in DOMAIN segs :
  /\ segs[m].turn = segs[n].turn => segs[m].speaker = segs[n].speaker
  /\ m <= n => segs[m].turn <= segs[n].turn

(* An undo gives every segment its edit changed the text and source it had  *)
(* before it, or does nothing: segments inserted again since have lost that *)
(* revision.                                                                *)
UndoIsWhole == [][\A r \in revs :
  ~r.reverted /\ [r EXCEPT !.reverted = TRUE] \in revs' =>
    \A n \in (DOMAIN edits[r.group] \cap DOMAIN segs') \ reborn :
      <<segs'[n].text, segs'[n].source>> = edits[r.group][n]]_vars

CleansUp == snap # <<>> /\ snap' = <<>> /\ version' # version

(* A clean-up keeps the text, the revision and the undo history of a        *)
(* segment that is edited when it writes, unless it had read a filler then  *)
(* that nobody had edited.                                                  *)
CleanUpKeepsEdits == [][CleansUp => \A n \in DOMAIN segs :
  segs[n].source = "edited" /\ (n \notin Fillers \/ snap[n].source = "edited") =>
    /\ n \in DOMAIN segs'
    /\ segs'[n].text = segs[n].text /\ segs'[n].source = "edited" /\ segs'[n].rev = segs[n].rev
    /\ \A r \in revs : r.seg = n => r \in revs']_vars

-----------------------------------------------------------------------------
(* What the code's comments say of it and does not hold.                   *)

(* "a mismatch raises TranscriptConflictError" (repository.ts:269): no edit *)
(* replaces a text its author did not see.                                  *)
NeverBlind == blind = {}

(* "manual edits survive" (processor.ts:1081), whenever they were made.     *)
EditsSurvive == [][CleansUp => \A n \in DOMAIN segs :
  segs[n].source = "edited" => n \in DOMAIN segs' /\ segs'[n].text = segs[n].text]_vars

(* ... and so do changes of speaker.                                        *)
SpeakersSurvive == [][CleansUp => \A n \in DOMAIN segs \cap DOMAIN segs' :
  segs[n].source = "edited" => segs'[n].speaker = segs[n].speaker]_vars

(* ... and undos.                                                           *)
UndosSurvive == [][CleansUp => \A n \in DOMAIN segs \cap DOMAIN segs' :
  segs'[n].text = segs[n].text]_vars
=============================================================================
