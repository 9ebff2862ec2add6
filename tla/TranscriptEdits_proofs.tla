----------------------- MODULE TranscriptEdits_proofs -----------------------
(***************************************************************************)
(* Proofs about TranscriptEdits, for every number of pages, speakers,      *)
(* segments and calls: types; that a page with the current ETag shows the  *)
(* current transcript; that an edit replaces the text its author saw; that *)
(* a turn is one speaker's; that a clean-up keeps edits; and, while no     *)
(* revision is pruned, that an undo is whole.                              *)
(***************************************************************************)
EXTENDS TranscriptEdits, FiniteSetTheorems, TLAPS

Sources == {"asr", "edited"}

Maps == UNION {[D -> Segment] : D \in SUBSET Segments}

Found == UNION {[D -> Text \X Sources] : D \in SUBSET Segments}

Shows == [etag : Nat, run : Nat, segs : Maps]

Request == [at : {"idle", "versioned", "read"}, etag : Nat, run : Nat, segs : Maps]

(* What is stored, what is on its way, and what edits found: as many        *)
(* entries as there were edits, no more than calls.                         *)
TypeInv ==
  /\ segs \in Maps /\ snap \in Maps
  /\ revs \subseteq Revision /\ \A r \in revs : r.seg \in DOMAIN segs
  /\ spk \subseteq Speakers /\ version \in Nat \ {NoTag} /\ run \in Nat
  /\ view \in [Clients -> Shows] /\ wire \in [Clients -> Request]
  /\ \A c \in Clients : view[c].run <= run /\ wire[c].run <= run
  /\ reborn \subseteq Segments /\ blind \subseteq Segments
  /\ calls \in 0..MaxCalls
  /\ \E k \in 0..calls : edits \in [1..k -> Found]

(* What bears an ETag is no newer than the version, and what bears the      *)
(* current one is the current transcript.                                   *)
TagsTell ==
  \A c \in Clients :
    /\ view[c].etag <= version /\ wire[c].etag <= version
    /\ view[c].etag = version => view[c].run = run /\ view[c].segs = segs
    /\ wire[c].at = "read" /\ wire[c].etag = version => wire[c].run = run /\ wire[c].segs = segs

(* A copy of the transcript, of this run or an earlier one: a segment that  *)
(* was not inserted again since has the copy's revision or a later one, and *)
(* with the copy's revision the copy's text.                                *)
Honest(at, f) ==
  at = run => \A n \in (DOMAIN f \cap DOMAIN segs) \ reborn :
    f[n].rev <= segs[n].rev /\ (f[n].rev = segs[n].rev => f[n].text = segs[n].text)

CopiesAreHonest ==
  /\ \A c \in Clients : Honest(view[c].run, view[c].segs)
  /\ \A c \in Clients : wire[c].at = "read" => Honest(wire[c].run, wire[c].segs)
  /\ snap # <<>> => DOMAIN snap = DOMAIN segs

TurnsOf(f) == \A m, n \in DOMAIN f :
  /\ f[m].turn = f[n].turn => f[m].speaker = f[n].speaker
  /\ m <= n => f[m].turn <= f[n].turn

TurnsInv == TurnsOf(segs) /\ TurnsOf(snap)

(* The rows of an edit are reverted together, one of a segment, and tell    *)
(* what the edit found of every segment that was not inserted again.        *)
RowsAreWhole ==
  /\ \A q, r \in revs : q.group = r.group => /\ q.reverted = r.reverted
                                             /\ q.seg = r.seg => q = r
  /\ \A r \in revs : r.group \in DOMAIN edits
  /\ \A r \in revs : \A n \in (DOMAIN edits[r.group] \cap DOMAIN segs) \ reborn :
       \E q \in revs : q.group = r.group /\ q.seg = n /\ <<q.text, q.source>> = edits[r.group][n]

-----------------------------------------------------------------------------
(* Finite sets of naturals.                                                 *)

(* A set of naturals that is finite and not empty has a least and a greatest *)
(* member.                                                                  *)
LEMMA LeastMember ==
  ASSUME NEW S \in SUBSET Nat, IsFiniteSet(S), S # {}
  PROVE  \E x \in S : \A y \in S : x <= y
  <1> DEFINE Below(x) == {y \in S : y <= x}
             All == {Below(x) : x \in S}
  <1>1. IsWellFoundedOn(StrictSubsetOrdering(S), FiniteSubsetsOf(S))
    BY FS_StrictSubsetOrderingWellFounded
  <1>2. All \subseteq FiniteSubsetsOf(S) /\ All # {}
    <2>1. \A x \in S : Below(x) \in SUBSET S
      OBVIOUS
    <2>2. \A x \in S : IsFiniteSet(Below(x))
      BY <2>1, FS_Subset
    <2> QED
      BY <2>1, <2>2 DEF FiniteSubsetsOf
  <1>3. \E B \in All : \A C \in All : <<C, B>> \notin StrictSubsetOrdering(S)
    <2> HIDE DEF All
    <2> QED
      BY <1>1, <1>2, WFMin
  <1>4. PICK x \in S : \A C \in All : <<C, Below(x)>> \notin StrictSubsetOrdering(S)
    BY <1>3
  <1>5. ASSUME NEW y \in S, y < x
        PROVE  FALSE
    <2>1. Below(y) \in All /\ Below(y) \in SUBSET S /\ Below(x) \in SUBSET S
      OBVIOUS
    <2>2. Below(y) \subseteq Below(x)
      <3>1. x \in Nat /\ y \in Nat
        OBVIOUS
      <3>2. \A z \in Nat : z <= y => z <= x
        BY <1>5, <3>1
      <3> QED
        BY <3>2
    <2>3. x \in Below(x) /\ x \notin Below(y)
      BY <1>5
    <2>4. <<Below(y), Below(x)>> \in StrictSubsetOrdering(S)
      BY <2>1, <2>2, <2>3 DEF StrictSubsetOrdering
    <2> QED
      BY <2>1, <2>4, <1>4
  <1> QED
    BY <1>5

LEMMA GreatestMember ==
  ASSUME NEW S \in SUBSET Nat, IsFiniteSet(S), S # {}
  PROVE  \E x \in S : \A y \in S : x >= y
  <1> DEFINE Above(x) == {y \in S : x <= y}
             All == {Above(x) : x \in S}
  <1>1. IsWellFoundedOn(StrictSubsetOrdering(S), FiniteSubsetsOf(S))
    BY FS_StrictSubsetOrderingWellFounded
  <1>2. All \subseteq FiniteSubsetsOf(S) /\ All # {}
    <2>1. \A x \in S : Above(x) \in SUBSET S
      OBVIOUS
    <2>2. \A x \in S : IsFiniteSet(Above(x))
      BY <2>1, FS_Subset
    <2> QED
      BY <2>1, <2>2 DEF FiniteSubsetsOf
  <1>3. \E B \in All : \A C \in All : <<C, B>> \notin StrictSubsetOrdering(S)
    <2> HIDE DEF All
    <2> QED
      BY <1>1, <1>2, WFMin
  <1>4. PICK x \in S : \A C \in All : <<C, Above(x)>> \notin StrictSubsetOrdering(S)
    BY <1>3
  <1>5. ASSUME NEW y \in S, x < y
        PROVE  FALSE
    <2>1. Above(y) \in All /\ Above(y) \in SUBSET S /\ Above(x) \in SUBSET S
      OBVIOUS
    <2>2. Above(y) \subseteq Above(x)
      <3>1. x \in Nat /\ y \in Nat
        OBVIOUS
      <3>2. \A z \in Nat : y <= z => x <= z
        BY <1>5, <3>1
      <3> QED
        BY <3>2
    <2>3. x \in Above(x) /\ x \notin Above(y)
      BY <1>5
    <2>4. <<Above(y), Above(x)>> \in StrictSubsetOrdering(S)
      BY <2>1, <2>2, <2>3 DEF StrictSubsetOrdering
    <2> QED
      BY <2>1, <2>4, <1>4
  <1> QED
    BY <1>5

LEMMA SegmentsFinite ==
  ASSUME NEW D \in SUBSET Segments
  PROVE  D \in SUBSET Nat /\ IsFiniteSet(D)
  <1>1. Cardinality(Segments) \in Nat
    BY EditsAssumption, FS_CardinalityType
  <1>2. 1..Cardinality(Segments) \subseteq Nat
    BY <1>1
  <1>3. Segments \subseteq Nat
    BY <1>2, EditsAssumption
  <1> QED
    BY <1>3, EditsAssumption, FS_Subset

-----------------------------------------------------------------------------
(* Transcripts: functions from some of the segments.                        *)

LEMMA MapDomain ==
  ASSUME NEW f \in Maps
  PROVE  /\ DOMAIN f \in SUBSET Segments /\ f \in [DOMAIN f -> Segment]
         /\ \A n \in DOMAIN f : f[n] \in Segment
         /\ DOMAIN f \in SUBSET Nat /\ IsFiniteSet(DOMAIN f)
  <1>1. PICK D \in SUBSET Segments : f \in [D -> Segment]
    BY DEF Maps
  <1> QED
    BY <1>1, SegmentsFinite

LEMMA MapOf ==
  ASSUME NEW f, DOMAIN f \in SUBSET Segments, f \in [DOMAIN f -> Segment]
  PROVE  f \in Maps
  BY DEF Maps

LEMMA EmptyMap == <<>> \in Maps /\ DOMAIN <<>> = {}
  <1>1. <<>> \in [{} -> Segment]
    OBVIOUS
  <1> QED
    BY <1>1 DEF Maps

LEMMA FreshMap == Fresh \in Maps /\ DOMAIN Fresh = Segments
  <1>1. 0 \in Text
    BY EditsAssumption DEF Text
  <1>2. \A n \in Segments : Fresh[n] \in Segment
    BY <1>1, EditsAssumption DEF Fresh, Segment
  <1>3. Fresh \in [Segments -> Segment]
    BY <1>2 DEF Fresh
  <1> QED
    BY <1>3 DEF Maps

(* A segment with some of its fields changed.                               *)
LEMMA SegmentOf ==
  ASSUME NEW s \in Segment, NEW t \in Text, NEW w \in Speakers, NEW o \in Sources
  PROVE  [s EXCEPT !.text = t, !.speaker = w, !.source = o, !.rev = @ + 1] \in Segment
  <1> DEFINE a == [s EXCEPT !.text = t]
             b == [a EXCEPT !.speaker = w]
             d == [b EXCEPT !.source = o]
  <1>1. a \in Segment
    BY DEF Segment
  <1>2. b \in Segment
    <2> HIDE DEF a
    <2> QED
      BY <1>1 DEF Segment
  <1>3. d \in Segment
    <2> HIDE DEF b
    <2> QED
      BY <1>2 DEF Segment, Sources
  <1>4. [d EXCEPT !.rev = @ + 1] \in Segment
    <2> HIDE DEF d
    <2>1. d.rev + 1 \in Nat
      BY <1>3 DEF Segment
    <2> QED
      BY <1>3, <2>1 DEF Segment
  <1>5. d.rev = s.rev
    BY DEF Segment
  <1> QED
    BY <1>4, Zenon

-----------------------------------------------------------------------------
(* Turns.                                                                   *)

Openers(f, n) == {m \in DOMAIN f : m <= n /\ Opens(f, m)}

(* The first segment opens a turn, so every segment is in one.              *)
LEMMA SomeOpener ==
  ASSUME NEW f \in Maps, NEW n \in DOMAIN f
  PROVE  /\ Openers(f, n) # {} /\ IsFiniteSet(Openers(f, n))
         /\ Cardinality(Openers(f, n)) \in Nat \ {0}
  <1>1. DOMAIN f \in SUBSET Nat /\ IsFiniteSet(DOMAIN f)
    BY MapDomain
  <1>2. PICK x \in DOMAIN f : \A y \in DOMAIN f : x <= y
    BY <1>1, LeastMember, Zenon
  <1>3. Before(f, x) = {}
    BY <1>1, <1>2 DEF Before
  <1>4. x \in Openers(f, n)
    BY <1>2, <1>3 DEF Openers, Opens
  <1>5. Openers(f, n) \in SUBSET DOMAIN f
    BY DEF Openers
  <1>6. IsFiniteSet(Openers(f, n))
    BY <1>1, <1>5, FS_Subset
  <1>7. Cardinality(Openers(f, n)) \in Nat
    BY <1>6, FS_CardinalityType
  <1>8. Cardinality(Openers(f, n)) # 0
    BY <1>4, <1>6, FS_EmptySet
  <1> QED
    BY <1>4, <1>6, <1>7, <1>8

(* Retiming changes the turn and nothing else.                              *)
LEMMA TurnedKeeps ==
  ASSUME NEW f \in Maps
  PROVE  /\ Turned(f) \in Maps /\ DOMAIN Turned(f) = DOMAIN f
         /\ \A n \in DOMAIN f :
              /\ Turned(f)[n].text = f[n].text /\ Turned(f)[n].speaker = f[n].speaker
              /\ Turned(f)[n].source = f[n].source /\ Turned(f)[n].rev = f[n].rev
              /\ Turned(f)[n].turn = Cardinality(Openers(f, n)) - 1
  <1>1. DOMAIN Turned(f) = DOMAIN f
    BY DEF Turned
  <1>2. DOMAIN f \in SUBSET Segments /\ \A n \in DOMAIN f : f[n] \in Segment
    BY MapDomain
  <1>3. ASSUME NEW n \in DOMAIN f
        PROVE  /\ Turned(f)[n] = [f[n] EXCEPT !.turn = Cardinality(Openers(f, n)) - 1]
               /\ Cardinality(Openers(f, n)) - 1 \in Nat
    <2>1. Turned(f)[n] = [f[n] EXCEPT !.turn = Cardinality(Openers(f, n)) - 1]
      BY DEF Turned, Openers
    <2>2. Cardinality(Openers(f, n)) \in Nat \ {0}
      BY SomeOpener
    <2> QED
      BY <2>1, <2>2
  <1>4. ASSUME NEW n \in DOMAIN f
        PROVE  /\ Turned(f)[n].text = f[n].text /\ Turned(f)[n].speaker = f[n].speaker
               /\ Turned(f)[n].source = f[n].source /\ Turned(f)[n].rev = f[n].rev
               /\ Turned(f)[n].turn = Cardinality(Openers(f, n)) - 1
               /\ Turned(f)[n] \in Segment
    BY <1>2, <1>3 DEF Segment
  <1>5. Turned(f) \in [DOMAIN f -> Segment]
    BY <1>1, <1>4 DEF Turned
  <1>6. Turned(f) \in Maps
    BY <1>1, <1>2, <1>5, MapOf
  <1> QED
    BY <1>1, <1>4, <1>6

(* A segment that opens no turn has the speaker of the one before it.       *)
LEMMA OpensNot ==
  ASSUME NEW f \in Maps, NEW n \in DOMAIN f, ~Opens(f, n)
  PROVE  \E m \in DOMAIN f : /\ m < n /\ f[m].speaker = f[n].speaker
                             /\ \A k \in DOMAIN f : k < n => k <= m
  <1>1. DOMAIN f \in SUBSET Nat /\ IsFiniteSet(DOMAIN f)
    BY MapDomain
  <1>2. Before(f, n) \in SUBSET DOMAIN f /\ Before(f, n) # {}
    BY DEF Before, Opens
  <1>3. Before(f, n) \in SUBSET Nat /\ IsFiniteSet(Before(f, n))
    BY <1>1, <1>2, FS_Subset
  <1>4. \E x \in Before(f, n) : \A y \in Before(f, n) : x >= y
    BY <1>2, <1>3, GreatestMember
  <1>5. /\ Max(Before(f, n)) \in Before(f, n)
        /\ \A y \in Before(f, n) : Max(Before(f, n)) >= y
    BY <1>4, Zenon DEF Max
  <1>6. f[Max(Before(f, n))].speaker = f[n].speaker
    BY DEF Opens
  <1> QED
    BY <1>1, <1>5, <1>6 DEF Before

(* With turns computed anew, a turn is one speaker's and turns do not fall. *)
LEMMA TurnedTurns ==
  ASSUME NEW f \in Maps
  PROVE  TurnsOf(Turned(f))
  <1>1. DOMAIN f \in SUBSET Nat /\ IsFiniteSet(DOMAIN f)
    BY MapDomain
  <1>2. ASSUME NEW m \in DOMAIN f, NEW n \in DOMAIN f, m <= n
        PROVE  Turned(f)[m].turn <= Turned(f)[n].turn
    <2>1. Openers(f, m) \in SUBSET Openers(f, n)
      BY <1>1, <1>2 DEF Openers
    <2>2. Cardinality(Openers(f, m)) <= Cardinality(Openers(f, n))
      BY <2>1, SomeOpener, FS_Subset
    <2> QED
      BY <2>2, TurnedKeeps, SomeOpener
  <1>3. ASSUME NEW m \in DOMAIN f, NEW n \in DOMAIN f, m < n,
               Turned(f)[m].turn = Turned(f)[n].turn
        PROVE  f[m].speaker = f[n].speaker
    <2>1. Openers(f, m) \in SUBSET Openers(f, n)
      BY <1>1, <1>3 DEF Openers
    <2>2. Cardinality(Openers(f, m)) = Cardinality(Openers(f, n))
      BY <1>3, TurnedKeeps, SomeOpener
    <2>3. Openers(f, n) = Openers(f, m)
      BY <2>1, <2>2, SomeOpener, FS_Subset
    <2>4. \A k \in DOMAIN f : m < k /\ k <= n => ~Opens(f, k)
      BY <1>1, <2>3 DEF Openers
    <2> DEFINE Odd == {k \in DOMAIN f : m < k /\ k <= n /\ f[k].speaker # f[m].speaker}
    <2>5. ASSUME Odd # {}
          PROVE  FALSE
      <3>1. Odd \in SUBSET DOMAIN f
        OBVIOUS
      <3>2. Odd \in SUBSET Nat /\ IsFiniteSet(Odd)
        BY <1>1, <3>1, FS_Subset
      <3>3. PICK k \in Odd : \A y \in Odd : k <= y
        <4> HIDE DEF Odd
        <4> QED
          BY <2>5, <3>2, LeastMember
      <3>4. k \in DOMAIN f /\ m < k /\ k <= n /\ f[k].speaker # f[m].speaker
        OBVIOUS
      <3>5. ~Opens(f, k)
        BY <2>4, <3>4
      <3>6. PICK j \in DOMAIN f : /\ j < k /\ f[j].speaker = f[k].speaker
                                  /\ \A i \in DOMAIN f : i < k => i <= j
        BY <3>4, <3>5, OpensNot
      <3>7. m <= j
        BY <3>4, <3>6
      <3>8. j # m
        BY <3>4, <3>6
      <3>9. j \in Odd /\ j < k
        BY <1>1, <3>4, <3>6, <3>7, <3>8
      <3> QED
        BY <1>1, <3>3, <3>4, <3>9
    <2> QED
      BY <1>1, <1>3, <2>5
  <1>4. DOMAIN Turned(f) = DOMAIN f
    BY TurnedKeeps
  <1>5. \A n \in DOMAIN f : Turned(f)[n].speaker = f[n].speaker
    BY TurnedKeeps
  <1>6. \A m, n \in DOMAIN f :
          Turned(f)[m].turn = Turned(f)[n].turn => f[m].speaker = f[n].speaker
    BY <1>1, <1>3
  <1> QED
    BY <1>2, <1>4, <1>5, <1>6 DEF TurnsOf

(* What leaves speakers and turns alone, of some of the segments, leaves    *)
(* turns one speaker's.                                                     *)
LEMMA SameTurns ==
  ASSUME NEW f, NEW g, TurnsOf(f), DOMAIN g \subseteq DOMAIN f,
         \A n \in DOMAIN g : g[n].speaker = f[n].speaker /\ g[n].turn = f[n].turn
  PROVE  TurnsOf(g)
  BY DEF TurnsOf

-----------------------------------------------------------------------------
(* What the writers write.                                                  *)

(* Every segment keeps its text, source and revision, but some that get     *)
(* their next revision.                                                     *)
Rewritten(ids) ==
  /\ segs' \in Maps /\ DOMAIN segs' = DOMAIN segs
  /\ \A m \in ids \cap DOMAIN segs : segs'[m].rev = segs[m].rev + 1
  /\ \A m \in DOMAIN segs \ ids : /\ segs'[m].text = segs[m].text /\ segs'[m].rev = segs[m].rev
                                  /\ segs'[m].source = segs[m].source

(* A page has no ETag any more, and shows of a segment what it showed or    *)
(* what is there now.                                                       *)
Refreshed(c) ==
  /\ view' \in [Clients -> Shows]
  /\ \A d \in Clients \ {c} : view'[d] = view[d]
  /\ view'[c].etag = NoTag /\ view'[c].run = view[c].run
  /\ DOMAIN view'[c].segs = DOMAIN view[c].segs
  /\ \A m \in DOMAIN view[c].segs :
       \/ view'[c].segs[m] = view[c].segs[m]
       \/ m \in DOMAIN segs' /\ view'[c].segs[m] = segs'[m]

LEMMA Refetched ==
  ASSUME TypeInv, NEW c \in Clients, Refetch(c)
  PROVE  Refreshed(c)
  BY DEF TypeInv, Refetch, Refreshed, Shows, NoTag

LEMMA Folded ==
  ASSUME TypeInv, NEW c \in Clients, NEW changed, segs' \in Maps, Fold(c, changed, segs')
  PROVE  Refreshed(c)
  <1> DEFINE Shown(n) == IF n \in changed \cap DOMAIN segs' THEN segs'[n] ELSE view[c].segs[n]
             f == [n \in DOMAIN view[c].segs |-> Shown(n)]
  <1>1. view \in [Clients -> Shows] /\ view[c] \in Shows /\ view[c].segs \in Maps
    BY DEF TypeInv, Shows
  <1>2. DOMAIN view[c].segs \in SUBSET Segments
    BY <1>1, MapDomain
  <1>3. \A n \in DOMAIN view[c].segs : view[c].segs[n] \in Segment
    BY <1>1, MapDomain
  <1>4. \A n \in DOMAIN segs' : segs'[n] \in Segment
    BY MapDomain
  <1>5. f \in [DOMAIN f -> Segment] /\ DOMAIN f = DOMAIN view[c].segs
    BY <1>3, <1>4
  <1>6. f \in Maps
    BY <1>2, <1>5, MapOf
  <1>7. view' = [view EXCEPT ![c].etag = NoTag, ![c].segs = f]
    BY DEF Fold
  <1>8. \A n \in DOMAIN f : \/ f[n] = view[c].segs[n]
                            \/ n \in DOMAIN segs' /\ f[n] = segs'[n]
    OBVIOUS
  <1> HIDE DEF f
  <1>9. /\ view' \in [Clients -> Shows] /\ \A d \in Clients \ {c} : view'[d] = view[d]
        /\ view'[c].etag = NoTag /\ view'[c].run = view[c].run /\ view'[c].segs = f
    BY <1>1, <1>6, <1>7 DEF Shows, NoTag
  <1> QED
    BY <1>5, <1>8, <1>9 DEF Refreshed

(* What an edit makes of the segments, and the rows it leaves.              *)
Patched(n, text, to, ids) ==
  [m \in DOMAIN segs |-> IF m \notin ids THEN segs[m] ELSE
     [segs[m] EXCEPT !.text = IF m = n /\ text THEN Made + 1 ELSE @, !.speaker = to,
                     !.source = "edited", !.rev = @ + 1]]

Prior(ids) ==
  {[seg |-> m, rev |-> segs[m].rev, text |-> segs[m].text, speaker |-> segs[m].speaker,
    source |-> segs[m].source, group |-> Made + 1, reverted |-> FALSE] : m \in ids}

FoundOf(ids) ==
  [e \in 1..(Made + 1) |-> IF e < Made + 1 THEN edits[e] ELSE [m \in ids |-> <<segs[m].text, segs[m].source>>]]

Speaks(n, to) == to # segs[n].speaker

(* The number of edits so far.                                              *)
LEMMA MadeIs ==
  ASSUME TypeInv
  PROVE  /\ Made \in Nat /\ Made \in 0..calls /\ edits \in [1..Made -> Found] /\ DOMAIN edits = 1..Made
         /\ \A e \in 1..Made : edits[e] \in Found
  <1>1. PICK k \in 0..calls : edits \in [1..k -> Found]
    BY DEF TypeInv
  <1>2. k \in Nat
    BY <1>1, EditsAssumption DEF TypeInv
  <1>3. DOMAIN edits = 1..k
    BY <1>1
  <1>4. Cardinality(1..k) = k
    BY <1>2, FS_Interval
  <1>5. Made = k
    BY <1>3, <1>4 DEF Made
  <1> QED
    BY <1>1, <1>2, <1>3, <1>5

(* An edit by page c of segments ids, one of them segment n.                *)
Edited(c, n, text, to, ids) ==
  /\ Patched(n, text, to, ids) \in Maps
  /\ segs' = Retimed(Speaks(n, to), Patched(n, text, to, ids))
  /\ ~Speaks(n, to) => ids = {n}
  /\ Rewritten(ids) /\ Refreshed(c)
  /\ \A m \in DOMAIN segs : segs'[m].speaker = Patched(n, text, to, ids)[m].speaker
  /\ revs' = Pruned(revs \cup Prior(ids), ids)
  /\ edits' = FoundOf(ids)

LEMMA PatchWrites ==
  ASSUME TypeInv, NEW c \in Clients, NEW n \in DOMAIN segs, NEW text \in BOOLEAN,
         NEW to \in Speakers, NEW whole \in BOOLEAN, Patch(c, n, text, to, whole)
  PROVE  \E ids \in SUBSET DOMAIN segs : Edited(c, n, text, to, ids)
  <1> DEFINE ids == Covered(n, whole /\ Speaks(n, to))
             f == Patched(n, text, to, ids)
  <1>1. ids \in SUBSET DOMAIN segs
    BY DEF Covered
  <1>2. /\ segs' = Retimed(Speaks(n, to), f)
        /\ revs' = Pruned(revs \cup Prior(ids), ids)
        /\ edits' = FoundOf(ids)
        /\ Fold(c, ids, segs') \/ Refetch(c)
        /\ Called
    BY Zenon DEF Patch, Speaks, Patched, Prior, FoundOf
  <1>3. ~Speaks(n, to) => ids = {n}
    BY DEF Covered
  <1>4. Made + 1 \in Text
    <2>1. Made \in 0..calls /\ calls \in 0..MaxCalls /\ calls < MaxCalls
      BY <1>2, MadeIs DEF Called, TypeInv
    <2> QED
      BY <2>1, EditsAssumption DEF Text
  <1>5. segs \in Maps /\ DOMAIN segs \in SUBSET Segments /\ \A m \in DOMAIN segs : segs[m] \in Segment
    BY MapDomain DEF TypeInv
  <1> HIDE DEF ids
  <1>6. /\ DOMAIN f = DOMAIN segs /\ \A m \in DOMAIN segs : f[m] \in Segment
        /\ f \in [DOMAIN f -> Segment]
    <2>1. ASSUME NEW m \in DOMAIN segs
          PROVE  f[m] \in Segment
      <3>1. f[m] = IF m \notin ids THEN segs[m] ELSE
                     [segs[m] EXCEPT !.text = IF m = n /\ text THEN Made + 1 ELSE @, !.speaker = to,
                                     !.source = "edited", !.rev = @ + 1]
        BY Zenon DEF Patched
      <3>2. segs[m] \in Segment
        BY <1>5
      <3> HIDE DEF f
      <3>3. (IF m = n /\ text THEN Made + 1 ELSE segs[m].text) \in Text
        BY <1>4, <3>2 DEF Segment
      <3>4. CASE m \in ids
        <4>1. f[m] = [segs[m] EXCEPT !.text = IF m = n /\ text THEN Made + 1 ELSE segs[m].text,
                                     !.speaker = to, !.source = "edited", !.rev = @ + 1]
          BY <3>1, <3>4, Zenon
        <4>2. "edited" \in Sources
          BY DEF Sources
        <4> DEFINE t == IF m = n /\ text THEN Made + 1 ELSE segs[m].text
        <4>3. t \in Text /\ f[m] = [segs[m] EXCEPT !.text = t, !.speaker = to, !.source = "edited", !.rev = @ + 1]
          BY <3>3, <4>1
        <4> HIDE DEF t
        <4>4. [segs[m] EXCEPT !.text = t, !.speaker = to, !.source = "edited", !.rev = @ + 1] \in Segment
          BY <3>2, <4>2, <4>3, SegmentOf, Zenon
        <4> QED
          BY <4>3, <4>4, Zenon
      <3> QED
        BY <3>1, <3>2, <3>4
    <2>2. DOMAIN f = DOMAIN segs /\ f = [m \in DOMAIN segs |-> f[m]]
      BY Zenon DEF Patched
    <2> HIDE DEF f
    <2> QED
      BY <2>1, <2>2
  <1>7. f \in Maps
    BY <1>5, <1>6, MapOf
  <1>8. ASSUME NEW m \in DOMAIN segs
        PROVE  /\ m \in ids => f[m].rev = segs[m].rev + 1
               /\ m \notin ids => f[m].rev = segs[m].rev /\ f[m].source = segs[m].source
               /\ m \notin ids \/ m # n \/ ~text => f[m].text = segs[m].text
    BY <1>5 DEF Patched, Segment
  <1>9. /\ segs' \in Maps /\ DOMAIN segs' = DOMAIN f
        /\ \A m \in DOMAIN f :
             /\ segs'[m].text = f[m].text /\ segs'[m].speaker = f[m].speaker
             /\ segs'[m].source = f[m].source /\ segs'[m].rev = f[m].rev
    <2> HIDE DEF f
    <2> QED
      BY <1>2, <1>7, TurnedKeeps DEF Retimed
  <1>10. Rewritten(ids)
    BY <1>6, <1>8, <1>9 DEF Rewritten
  <1>11. Refreshed(c)
    BY <1>2, <1>9, Folded, Refetched
  <1>12. \A m \in DOMAIN segs : segs'[m].speaker = f[m].speaker
    BY <1>6, <1>9
  <1>13. Edited(c, n, text, to, ids)
    BY <1>2, <1>3, <1>7, <1>10, <1>11, <1>12, Zenon DEF Edited
  <1> QED
    BY <1>1, <1>13, Zenon

(* What an undo makes of the segments.                                      *)
Row(group, m) == CHOOSE q \in group : q.seg = m

Ids(group) == {q.seg : q \in group}

Undone(group) ==
  [m \in DOMAIN segs |-> IF m \notin Ids(group) THEN segs[m] ELSE
     [segs[m] EXCEPT !.text = Row(group, m).text, !.speaker = Restored(Row(group, m)),
                     !.source = Row(group, m).source, !.rev = @ + 1]]

Unlike(group) == \E q \in group : Restored(q) # segs[q.seg].speaker

LEMMA RowOf ==
  ASSUME NEW group, NEW m \in Ids(group)
  PROVE  Row(group, m) \in group /\ Row(group, m).seg = m
  BY DEF Row, Ids

LEMMA UndoneIs ==
  ASSUME TypeInv, NEW group \in SUBSET revs
  PROVE  /\ Undone(group) \in Maps /\ DOMAIN Undone(group) = DOMAIN segs
         /\ \A m \in DOMAIN segs \cap Ids(group) :
              /\ Undone(group)[m].text = Row(group, m).text
              /\ Undone(group)[m].source = Row(group, m).source
              /\ Undone(group)[m].speaker = Restored(Row(group, m))
              /\ Undone(group)[m].rev = segs[m].rev + 1
              /\ Undone(group)[m].turn = segs[m].turn
         /\ \A m \in DOMAIN segs \ Ids(group) : Undone(group)[m] = segs[m]
  <1> DEFINE f == Undone(group)
  <1>1. segs \in Maps /\ DOMAIN segs \in SUBSET Segments /\ \A m \in DOMAIN segs : segs[m] \in Segment
    BY MapDomain DEF TypeInv
  <1>2. DOMAIN f = DOMAIN segs /\ f = [m \in DOMAIN segs |-> f[m]]
    BY Zenon DEF Undone
  <1>3. ASSUME NEW m \in DOMAIN segs \ Ids(group)
        PROVE  f[m] = segs[m]
    BY DEF Undone
  <1>4. ASSUME NEW m \in DOMAIN segs \cap Ids(group)
        PROVE  /\ f[m].text = Row(group, m).text /\ f[m].source = Row(group, m).source
               /\ f[m].speaker = Restored(Row(group, m)) /\ f[m].rev = segs[m].rev + 1
               /\ f[m].turn = segs[m].turn /\ f[m] \in Segment
    <2>1. f[m] = [segs[m] EXCEPT !.text = Row(group, m).text, !.speaker = Restored(Row(group, m)),
                                 !.source = Row(group, m).source, !.rev = @ + 1]
      BY Zenon DEF Undone
    <2>2. Row(group, m) \in Revision /\ Row(group, m).seg = m
      BY RowOf DEF TypeInv
    <2>3. Restored(Row(group, m)) \in Speakers
      BY <1>1, <2>2 DEF Restored, Revision, Segment, TypeInv
    <2>4. segs[m] \in Segment /\ Row(group, m).text \in Text /\ Row(group, m).source \in Sources
      BY <1>1, <2>2 DEF Revision, Sources
    <2> HIDE DEF f
    <2>5. f[m] \in Segment
      <3>1. [segs[m] EXCEPT !.text = Row(group, m).text, !.speaker = Restored(Row(group, m)),
                            !.source = Row(group, m).source, !.rev = @ + 1] \in Segment
        BY <2>3, <2>4, SegmentOf, Zenon
      <3> QED
        BY <2>1, <3>1, Zenon
    <2> QED
      BY <2>1, <2>4, <2>5 DEF Segment
  <1> HIDE DEF f
  <1>5. \A m \in DOMAIN segs : f[m] \in Segment
    BY <1>1, <1>3, <1>4
  <1>6. f \in [DOMAIN f -> Segment] /\ DOMAIN f \in SUBSET Segments
    BY <1>1, <1>2, <1>5
  <1>7. f \in Maps
    BY <1>6, MapOf
  <1> QED
    BY <1>2, <1>3, <1>4, <1>7 DEF f

LEMMA UndoWrites ==
  ASSUME TypeInv, NEW c \in Clients, NEW n, Undo(c, n)
  PROVE  \/ UNCHANGED <<segs, revs, version>> /\ Refreshed(c)
         \/ \E r \in revs :
              /\ ~r.reverted /\ Group(r) \in SUBSET revs
              /\ segs' = Retimed(Unlike(Group(r)), Undone(Group(r)))
              /\ revs' = (revs \ Group(r)) \cup Reverted(Group(r))
              /\ version' = version + 1
              /\ Rewritten(Ids(Group(r))) /\ Refreshed(c)
              /\ \A m \in DOMAIN segs :
                   /\ segs'[m].text = Undone(Group(r))[m].text
                   /\ segs'[m].source = Undone(Group(r))[m].source
                   /\ segs'[m].speaker = Undone(Group(r))[m].speaker
  <1>1. PICK r \in Standing(n) :
          \/ /\ segs' = Retimed(Unlike(Group(r)), Undone(Group(r)))
             /\ revs' = (revs \ Group(r)) \cup Reverted(Group(r))
             /\ version' = version + 1
             /\ Fold(c, Ids(Group(r)), segs')
          \/ UNCHANGED <<segs, revs, version>> /\ Refetch(c)
    BY Zenon DEF Undo, Unlike, Undone, Row, Ids
  <1>2. r \in revs /\ ~r.reverted /\ Group(r) \in SUBSET revs
    BY DEF Standing, Group
  <1>3. CASE UNCHANGED <<segs, revs, version>> /\ Refetch(c)
    BY <1>3, Refetched
  <1>4. CASE /\ segs' = Retimed(Unlike(Group(r)), Undone(Group(r)))
             /\ revs' = (revs \ Group(r)) \cup Reverted(Group(r))
             /\ version' = version + 1
             /\ Fold(c, Ids(Group(r)), segs')
    <2> DEFINE f == Undone(Group(r))
               ids == Ids(Group(r))
    <2>1. /\ f \in Maps /\ DOMAIN f = DOMAIN segs
          /\ \A m \in DOMAIN segs \cap ids : f[m].rev = segs[m].rev + 1
          /\ \A m \in DOMAIN segs \ ids : f[m] = segs[m]
      BY <1>2, UndoneIs
    <2>2. segs' = Retimed(Unlike(Group(r)), f)
      BY <1>4
    <2>3. /\ segs' \in Maps /\ DOMAIN segs' = DOMAIN f
          /\ \A m \in DOMAIN f :
               /\ segs'[m].text = f[m].text /\ segs'[m].speaker = f[m].speaker
               /\ segs'[m].source = f[m].source /\ segs'[m].rev = f[m].rev
      <3> HIDE DEF f
      <3> QED
        BY <2>1, <2>2, TurnedKeeps DEF Retimed
    <2>4. Rewritten(ids)
      <3> HIDE DEF f, ids
      <3> QED
        BY <2>1, <2>3 DEF Rewritten
    <2>5. Refreshed(c)
      BY <1>4, <2>3, Folded
    <2>6. \A m \in DOMAIN segs : /\ segs'[m].text = f[m].text /\ segs'[m].source = f[m].source
                                 /\ segs'[m].speaker = f[m].speaker
      BY <2>1, <2>3
    <2> QED
      BY <1>2, <1>4, <2>4, <2>5, <2>6
  <1> QED
    BY <1>1, <1>3, <1>4

LEMMA ConflictRefreshes ==
  ASSUME TypeInv, NEW c \in Clients, NEW n, Conflict(c, n)
  PROVE  Refreshed(c) /\ UNCHANGED <<segs, revs, spk, version, run, snap, wire, ghosts, calls>>
  <1>1. UNCHANGED <<segs, revs, spk, version, run, snap, wire, ghosts, calls>>
    BY DEF Conflict
  <1>2. segs' \in Maps
    BY <1>1 DEF TypeInv
  <1>3. Fold(c, {n}, segs') \/ Refetch(c)
    BY <1>1 DEF Conflict
  <1> QED
    BY <1>1, <1>2, <1>3, Folded, Refetched

LEMMA MergeWrites ==
  ASSUME TypeInv, NEW from \in Speakers, NEW to \in Speakers, Merge(from, to)
  PROVE  /\ Rewritten({}) /\ TurnsOf(segs')
         /\ \A m \in DOMAIN segs :
              segs'[m].speaker = IF segs[m].speaker = from THEN to ELSE segs[m].speaker
  <1> DEFINE f == [n \in DOMAIN segs |-> [segs[n] EXCEPT !.speaker = IF @ = from THEN to ELSE @]]
  <1>1. segs \in Maps /\ DOMAIN segs \in SUBSET Segments /\ \A m \in DOMAIN segs : segs[m] \in Segment
    BY MapDomain DEF TypeInv
  <1>2. ASSUME NEW m \in DOMAIN segs
        PROVE  /\ f[m] \in Segment /\ f[m].text = segs[m].text /\ f[m].rev = segs[m].rev
               /\ f[m].source = segs[m].source
               /\ f[m].speaker = IF segs[m].speaker = from THEN to ELSE segs[m].speaker
    BY <1>1 DEF Segment
  <1>3. f \in [DOMAIN f -> Segment] /\ DOMAIN f = DOMAIN segs
    BY <1>2
  <1>4. f \in Maps
    BY <1>1, <1>3, MapOf
  <1>5. segs' = Turned(f)
    BY DEF Merge
  <1> HIDE DEF f
  <1> QED
    BY <1>2, <1>3, <1>4, <1>5, TurnedKeeps, TurnedTurns DEF Rewritten

(* What a clean-up writes.                                                  *)
LEMMA CleanUpWrites ==
  ASSUME TypeInv, DOMAIN snap = DOMAIN segs, CleanWrite
  PROVE  /\ segs' \in Maps /\ DOMAIN segs' \subseteq DOMAIN segs
         /\ DOMAIN segs' = DOMAIN Cleaned(snap) /\ Preserved \subseteq DOMAIN segs'
         /\ \A m \in DOMAIN segs' : /\ m \in DOMAIN snap
                                    /\ segs'[m].speaker = snap[m].speaker
                                    /\ segs'[m].turn = snap[m].turn
         /\ \A m \in Preserved : /\ segs'[m].text = segs[m].text
                                 /\ segs'[m].source = segs[m].source
                                 /\ segs'[m].rev = segs[m].rev
         /\ spk' = {segs'[m].speaker : m \in DOMAIN segs'}
         /\ reborn' = reborn \cup (DOMAIN segs' \ Preserved)
  <1> DEFINE kept == Cleaned(snap)
  <1>1. /\ segs \in Maps /\ DOMAIN segs \in SUBSET Segments /\ \A m \in DOMAIN segs : segs[m] \in Segment
        /\ snap \in Maps /\ \A m \in DOMAIN snap : snap[m] \in Segment
    BY MapDomain DEF TypeInv
  <1>2. DOMAIN kept \subseteq DOMAIN snap /\ \A m \in DOMAIN kept : kept[m] = snap[m]
    BY DEF Cleaned
  <1>3. Preserved \subseteq DOMAIN kept
    BY DEF Preserved
  <1>4. /\ segs' = [n \in DOMAIN kept |->
                IF n \in Preserved THEN [segs[n] EXCEPT !.speaker = kept[n].speaker, !.turn = kept[n].turn]
                                   ELSE [kept[n] EXCEPT !.rev = 0]]
        /\ spk' = {kept[n].speaker : n \in DOMAIN kept}
        /\ reborn' = reborn \cup (DOMAIN kept \ Preserved)
    BY DEF CleanWrite
  <1> HIDE DEF kept
  <1>5. ASSUME NEW m \in DOMAIN kept
        PROVE  /\ segs'[m] \in Segment
               /\ segs'[m].speaker = kept[m].speaker /\ segs'[m].turn = kept[m].turn
               /\ m \in Preserved => /\ segs'[m].text = segs[m].text
                                     /\ segs'[m].source = segs[m].source
                                     /\ segs'[m].rev = segs[m].rev
    <2>1. kept[m] \in Segment /\ segs[m] \in Segment
      BY <1>1, <1>2
    <2>2. segs'[m] = IF m \in Preserved THEN [segs[m] EXCEPT !.speaker = kept[m].speaker, !.turn = kept[m].turn]
                                        ELSE [kept[m] EXCEPT !.rev = 0]
      BY <1>4
    <2>3. CASE m \in Preserved
      BY <2>1, <2>2, <2>3 DEF Segment
    <2>4. CASE m \notin Preserved
      BY <2>1, <2>2, <2>4 DEF Segment
    <2> QED
      BY <2>3, <2>4
  <1>6. DOMAIN segs' = DOMAIN kept /\ segs' \in [DOMAIN segs' -> Segment]
    BY <1>4, <1>5
  <1>7. segs' \in Maps
    BY <1>1, <1>2, <1>6, MapOf
  <1>8. spk' = {segs'[m].speaker : m \in DOMAIN segs'}
    <2>1. \A m \in DOMAIN kept : segs'[m].speaker = kept[m].speaker
      BY <1>5
    <2>2. DOMAIN segs' = DOMAIN kept /\ spk' = {kept[n].speaker : n \in DOMAIN kept}
      BY <1>4, <1>6
    <2> QED
      BY <2>1, <2>2
  <1>9. /\ \A m \in DOMAIN segs' : /\ m \in DOMAIN snap
                                   /\ segs'[m].speaker = snap[m].speaker
                                   /\ segs'[m].turn = snap[m].turn
        /\ \A m \in Preserved : /\ segs'[m].text = segs[m].text
                                /\ segs'[m].source = segs[m].source
                                /\ segs'[m].rev = segs[m].rev
    BY <1>2, <1>3, <1>5, <1>6
  <1> QED
    BY <1>2, <1>3, <1>4, <1>6, <1>7, <1>8, <1>9 DEF kept

-----------------------------------------------------------------------------
(* Types.                                                                   *)

(* The rows an edit leaves are revisions of segments there are, of a number *)
(* no other edit has.                                                       *)
LEMMA PriorRows ==
  ASSUME TypeInv, Called, NEW ids \in SUBSET DOMAIN segs
  PROVE  /\ Prior(ids) \subseteq Revision
         /\ \A r \in Prior(ids) : /\ r.seg \in ids /\ r.group = Made + 1 /\ ~r.reverted
                                  /\ r.text = segs[r.seg].text /\ r.source = segs[r.seg].source
         /\ \A n \in ids : \E r \in Prior(ids) : r.seg = n
         /\ \A q, r \in Prior(ids) : q.seg = r.seg => q = r
  <1>1. Made + 1 \in 1..MaxCalls
    <2>1. Made \in 0..calls /\ calls \in 0..MaxCalls /\ calls < MaxCalls
      BY MadeIs DEF Called, TypeInv
    <2> QED
      BY <2>1, EditsAssumption
  <1>2. \A m \in ids : m \in Segments /\ segs[m] \in Segment
    BY MapDomain DEF TypeInv
  <1> DEFINE R(m) == [seg |-> m, rev |-> segs[m].rev, text |-> segs[m].text,
                      speaker |-> segs[m].speaker, source |-> segs[m].source,
                      group |-> Made + 1, reverted |-> FALSE]
  <1>3. Prior(ids) = {R(m) : m \in ids}
    BY DEF Prior
  <1>4. ASSUME NEW m \in ids
        PROVE  R(m) \in Revision
    BY <1>1, <1>2 DEF Revision, Segment
  <1>5. \A m \in ids : /\ R(m).seg = m /\ R(m).group = Made + 1 /\ ~R(m).reverted
                       /\ R(m).text = segs[m].text /\ R(m).source = segs[m].source
    OBVIOUS
  <1> HIDE DEF R
  <1>6. \A r \in Prior(ids) : \E m \in ids : r = R(m)
    BY <1>3
  <1>7. \A m \in ids : R(m) \in Prior(ids)
    BY <1>3
  <1> QED
    BY <1>4, <1>5, <1>6, <1>7

LEMMA RevertedRows ==
  ASSUME TypeInv, NEW group \in SUBSET revs
  PROVE  /\ Reverted(group) \subseteq Revision
         /\ \A r \in Reverted(group) : \E q \in group :
              /\ r = [q EXCEPT !.reverted = TRUE]
              /\ r.seg = q.seg /\ r.text = q.text /\ r.source = q.source /\ r.group = q.group
              /\ r.reverted
         /\ \A q \in group : \E r \in Reverted(group) :
              /\ r.seg = q.seg /\ r.text = q.text /\ r.source = q.source /\ r.group = q.group
  <1>1. ASSUME NEW q \in group
        PROVE  LET r == [q EXCEPT !.reverted = TRUE]
               IN  /\ r \in Revision /\ r.reverted
                   /\ r.seg = q.seg /\ r.text = q.text /\ r.source = q.source /\ r.group = q.group
    <2>1. q \in Revision
      BY DEF TypeInv
    <2> QED
      BY <2>1 DEF Revision
  <1> QED
    BY <1>1 DEF Reverted

(* What an edit found is recorded under its number, and the rest stays.     *)
LEMMA FoundMore ==
  ASSUME TypeInv, Called, NEW ids \in SUBSET DOMAIN segs, edits' = FoundOf(ids)
  PROVE  /\ \E k \in 0..calls' : edits' \in [1..k -> Found]
         /\ DOMAIN edits' = 1..(Made + 1)
         /\ \A e \in DOMAIN edits : e \in DOMAIN edits' /\ edits'[e] = edits[e]
         /\ DOMAIN edits'[Made + 1] = ids
         /\ \A n \in ids : edits'[Made + 1][n] = <<segs[n].text, segs[n].source>>
         /\ \A e \in DOMAIN edits : e < Made + 1
  <1> DEFINE k == Made + 1
             what == [m \in ids |-> <<segs[m].text, segs[m].source>>]
  <1>1. /\ Made \in 0..calls /\ calls \in Nat /\ calls' = calls + 1
        /\ DOMAIN edits = 1..Made /\ \A e \in 1..Made : edits[e] \in Found
    <2>1. calls \in 0..MaxCalls /\ MaxCalls \in Nat /\ calls' = calls + 1
      BY EditsAssumption DEF Called, TypeInv
    <2> QED
      BY <2>1, MadeIs
  <1>2. k \in 0..calls' /\ k \in Nat /\ \A e \in 1..k : e < k => e \in 1..Made
    BY <1>1
  <1>3. \A m \in ids : m \in Segments /\ segs[m] \in Segment
    BY MapDomain DEF TypeInv
  <1>4. what \in [ids -> Text \X Sources] /\ ids \in SUBSET Segments
    BY <1>3 DEF Segment, Sources
  <1>5. what \in Found
    BY <1>4 DEF Found
  <1>6. DOMAIN what = ids /\ \A n \in ids : what[n] = <<segs[n].text, segs[n].source>>
    OBVIOUS
  <1>7. edits' = [e \in 1..k |-> IF e < k THEN edits[e] ELSE what]
    BY DEF FoundOf
  <1> HIDE DEF what
  <1>8. edits' \in [1..k -> Found]
    BY <1>1, <1>2, <1>5, <1>7
  <1>9. edits'[k] = what
    <2>1. k \in 1..k /\ ~(k < k)
      BY <1>1, <1>2
    <2> HIDE DEF k
    <2> QED
      BY <1>7, <2>1
  <1>10. \A e \in DOMAIN edits : e \in 1..k /\ e < k /\ edits'[e] = edits[e]
    BY <1>1, <1>2, <1>7
  <1> QED
    BY <1>2, <1>6, <1>7, <1>8, <1>9, <1>10

(* A call is counted within the bound; what edits found stays.              *)
LEMMA CallTypes ==
  ASSUME TypeInv, Called
  PROVE  /\ calls' \in 0..MaxCalls
         /\ edits' = edits => \E k \in 0..calls' : edits' \in [1..k -> Found]
  <1>1. calls \in 0..MaxCalls /\ calls < MaxCalls /\ calls' = calls + 1 /\ MaxCalls \in Nat
    BY EditsAssumption DEF TypeInv, Called
  <1>2. calls' \in 0..MaxCalls /\ \A k \in 0..calls : k \in 0..calls'
    BY <1>1
  <1>3. PICK k \in 0..calls : edits \in [1..k -> Found]
    BY DEF TypeInv
  <1> QED
    BY <1>2, <1>3, Zenon

LEMMA InitTypes == Init => TypeInv
  <1> SUFFICES ASSUME Init
               PROVE  TypeInv
    OBVIOUS
  <1>1. edits \in [1..0 -> Found] /\ 0 \in 0..calls /\ calls \in 0..MaxCalls
    BY EditsAssumption DEF Init
  <1>2. Idle \in Request
    BY EmptyMap DEF Idle, Request, NoTag
  <1>3. wire \in [Clients -> Request] /\ \A c \in Clients : wire[c].run <= run
    BY <1>2 DEF Init, Idle
  <1>4. [etag |-> 1, run |-> 0, segs |-> Fresh] \in Shows
    BY FreshMap DEF Shows
  <1>5. view \in [Clients -> Shows] /\ \A c \in Clients : view[c].run <= run
    BY <1>4 DEF Init
  <1> QED
    BY <1>1, <1>3, <1>5, EmptyMap, FreshMap, EditsAssumption DEF Init, TypeInv, NoTag

LEMMA FetchTypes ==
  ASSUME TypeInv, NEW c \in Clients, StartFetch(c) \/ ReadSegments(c) \/ Arrive(c)
  PROVE  TypeInv'
  <1>1. /\ view \in [Clients -> Shows] /\ wire \in [Clients -> Request]
        /\ \A d \in Clients : view[d].run <= run /\ wire[d].run <= run
        /\ segs \in Maps /\ version \in Nat /\ run \in Nat
    BY DEF TypeInv
  <1>2. /\ view' \in [Clients -> Shows] /\ wire' \in [Clients -> Request]
        /\ \A d \in Clients : view'[d].run <= run /\ wire'[d].run <= run
    <2>1. CASE StartFetch(c)
      <3>1. [at |-> "versioned", etag |-> version, run |-> 0, segs |-> <<>>] \in Request
        BY <1>1, EmptyMap DEF Request
      <3>2. /\ view' = view
            /\ wire' = [wire EXCEPT ![c] = [at |-> "versioned", etag |-> version, run |-> 0, segs |-> <<>>]]
        BY <2>1 DEF StartFetch
      <3>3. wire' \in [Clients -> Request]
        BY <1>1, <3>1, <3>2
      <3>4. \A d \in Clients : wire'[d].run <= run
        BY <1>1, <3>2
      <3> QED
        BY <1>1, <3>2, <3>3, <3>4
    <2>2. CASE ReadSegments(c)
      <3>1. wire[c] \in Request
        BY <1>1
      <3> DEFINE w == [at |-> "read", etag |-> wire[c].etag, run |-> run, segs |-> segs]
      <3>2. w \in Request /\ w.run <= run
        BY <1>1, <3>1 DEF Request
      <3>3. view' = view /\ wire' = [wire EXCEPT ![c].at = "read", ![c].run = run, ![c].segs = segs]
        BY <2>2 DEF ReadSegments
      <3>4. wire'[c] = w /\ wire' \in [Clients -> Request] /\ \A d \in Clients \ {c} : wire'[d] = wire[d]
        BY <1>1, <3>1, <3>3 DEF Request
      <3> QED
        BY <1>1, <3>2, <3>3, <3>4
    <2>3. CASE Arrive(c)
      <3>1. wire[c] \in Request
        BY <1>1
      <3>2. [etag |-> wire[c].etag, run |-> wire[c].run, segs |-> wire[c].segs] \in Shows
        BY <3>1 DEF Request, Shows
      <3>3. Idle \in Request /\ Idle.run <= run
        BY <1>1, EmptyMap DEF Idle, Request, NoTag
      <3>4. /\ view' = [view EXCEPT ![c] = [etag |-> wire[c].etag, run |-> wire[c].run, segs |-> wire[c].segs]]
            /\ wire' = [wire EXCEPT ![c] = Idle]
        BY <2>3 DEF Arrive
      <3>5. view' \in [Clients -> Shows] /\ wire' \in [Clients -> Request]
        BY <1>1, <3>2, <3>3, <3>4
      <3>6. \A d \in Clients : view'[d].run <= run /\ wire'[d].run <= run
        BY <1>1, <3>1, <3>3, <3>4
      <3> QED
        BY <3>5, <3>6
    <2> QED
      BY <2>1, <2>2, <2>3
  <1>3. calls' \in 0..MaxCalls /\ \E k \in 0..calls' : edits' \in [1..k -> Found]
    <2>1. calls' = calls \/ (calls < MaxCalls /\ calls' = calls + 1)
      <3>1. CASE StartFetch(c)
        BY <3>1 DEF StartFetch, Called
      <3>2. CASE ReadSegments(c)
        BY <3>2 DEF ReadSegments, ghosts
      <3>3. CASE Arrive(c)
        BY <3>3 DEF Arrive, ghosts
      <3> QED
        BY <3>1, <3>2, <3>3
    <2>2. edits' = edits
      BY DEF StartFetch, ReadSegments, Arrive, ghosts
    <2> QED
      BY <2>1, <2>2, EditsAssumption DEF TypeInv
  <1> QED
    BY <1>2, <1>3 DEF TypeInv, StartFetch, ReadSegments, Arrive, ghosts

LEMMA ConflictTypes ==
  ASSUME TypeInv, NEW c \in Clients, NEW n, Conflict(c, n)
  PROVE  TypeInv'
  <1>1. Refreshed(c) /\ UNCHANGED <<segs, revs, spk, version, run, snap, wire, ghosts, calls>>
    BY ConflictRefreshes
  <1>2. view' \in [Clients -> Shows] /\ \A d \in Clients : view'[d].run = view[d].run
    BY <1>1 DEF Refreshed
  <1> QED
    BY <1>1, <1>2 DEF TypeInv, ghosts

LEMMA PatchTypes ==
  ASSUME TypeInv, NEW c \in Clients, NEW n \in DOMAIN segs, NEW text \in BOOLEAN,
         NEW to \in Speakers, NEW whole \in BOOLEAN, Patch(c, n, text, to, whole)
  PROVE  TypeInv'
  <1>0. PICK ids \in SUBSET DOMAIN segs : Edited(c, n, text, to, ids)
    BY PatchWrites, Zenon
  <1>1. /\ Rewritten(ids) /\ Refreshed(c)
        /\ revs' = Pruned(revs \cup Prior(ids), ids)
        /\ edits' = FoundOf(ids)
    BY <1>0 DEF Edited
  <1>2. /\ Called /\ spk' = spk \cup {to} /\ version' = version + 1
        /\ UNCHANGED <<run, snap, wire, reborn>> /\ blind' \subseteq blind \cup {n}
    BY Zenon DEF Patch
  <1>3. view' \in [Clients -> Shows] /\ \A d \in Clients : view'[d].run = view[d].run
    BY <1>1 DEF Refreshed
  <1>4. \E k \in 0..calls' : edits' \in [1..k -> Found]
    BY <1>1, <1>2, FoundMore
  <1>5. revs' \subseteq Revision /\ \A r \in revs' : r.seg \in DOMAIN segs'
    <2>1. revs' \subseteq revs \cup Prior(ids)
      BY <1>1 DEF Pruned
    <2>2. Prior(ids) \subseteq Revision /\ \A r \in Prior(ids) : r.seg \in ids
      BY <1>2, PriorRows
    <2>3. DOMAIN segs' = DOMAIN segs
      BY <1>1 DEF Rewritten
    <2> QED
      BY <2>1, <2>2, <2>3 DEF TypeInv
  <1>6. segs' \in Maps
    BY <1>1 DEF Rewritten
  <1>7. version' \in Nat \ {NoTag} /\ calls' \in 0..MaxCalls
    BY <1>2, EditsAssumption DEF TypeInv, Called, NoTag
  <1>8. n \in Segments
    BY MapDomain DEF TypeInv
  <1> QED
    BY <1>2, <1>3, <1>4, <1>5, <1>6, <1>7, <1>8 DEF TypeInv

LEMMA UndoTypes ==
  ASSUME TypeInv, NEW c \in Clients, NEW n, Undo(c, n)
  PROVE  TypeInv'
  <1>1. Called /\ UNCHANGED <<spk, run, snap, wire, ghosts>>
    BY Zenon DEF Undo
  <1>2. calls' \in 0..MaxCalls /\ \E k \in 0..calls' : edits' \in [1..k -> Found]
    BY <1>1, CallTypes DEF ghosts
  <1>3. /\ Refreshed(c) /\ segs' \in Maps /\ version' \in Nat \ {NoTag}
        /\ revs' \subseteq Revision /\ \A r \in revs' : r.seg \in DOMAIN segs'
    <2>1. CASE UNCHANGED <<segs, revs, version>> /\ Refreshed(c)
      BY <2>1 DEF TypeInv
    <2>2. ASSUME NEW r \in revs, Group(r) \in SUBSET revs,
                 revs' = (revs \ Group(r)) \cup Reverted(Group(r)),
                 version' = version + 1, Rewritten(Ids(Group(r))), Refreshed(c)
          PROVE  /\ segs' \in Maps /\ version' \in Nat \ {NoTag}
                 /\ revs' \subseteq Revision /\ \A q \in revs' : q.seg \in DOMAIN segs'
      <3>1. segs' \in Maps /\ DOMAIN segs' = DOMAIN segs
        BY <2>2 DEF Rewritten
      <3>2. version' \in Nat \ {NoTag}
        BY <2>2 DEF TypeInv, NoTag
      <3>3. revs' \subseteq Revision /\ \A q \in revs' : q.seg \in DOMAIN segs
        BY <2>2, RevertedRows DEF TypeInv
      <3> QED
        BY <2>2, <3>1, <3>2, <3>3
    <2> QED
      BY <2>1, <2>2, UndoWrites
  <1>4. view' \in [Clients -> Shows] /\ \A d \in Clients : view'[d].run = view[d].run
    BY <1>3 DEF Refreshed
  <1> QED
    BY <1>1, <1>2, <1>3, <1>4 DEF TypeInv, ghosts

LEMMA MergeTypes ==
  ASSUME TypeInv, NEW from \in Speakers, NEW to \in Speakers, Merge(from, to)
  PROVE  TypeInv'
  <1>1. segs' \in Maps /\ DOMAIN segs' = DOMAIN segs
    BY MergeWrites DEF Rewritten
  <1>2. Called /\ spk' = spk \ {from} /\ version' = version + 1 /\ UNCHANGED <<revs, run, snap, pages, ghosts>>
    BY DEF Merge
  <1>3. calls' \in 0..MaxCalls /\ \E k \in 0..calls' : edits' \in [1..k -> Found]
    BY <1>2, CallTypes DEF ghosts
  <1>4. version' \in Nat \ {NoTag}
    BY <1>2 DEF TypeInv, NoTag
  <1> QED
    BY <1>1, <1>2, <1>3, <1>4 DEF TypeInv, pages, ghosts

LEMMA WorkerTypes ==
  ASSUME TypeInv, snap # <<>> => DOMAIN snap = DOMAIN segs,
         CleanRead \/ CleanWrite \/ CleanUpDies \/ Transcribe
  PROVE  TypeInv'
  <1>1. CASE CleanRead
    <2>1. calls' \in 0..MaxCalls /\ \E k \in 0..calls' : edits' \in [1..k -> Found]
      BY <1>1, CallTypes DEF CleanRead, ghosts
    <2> QED
      BY <1>1, <2>1 DEF TypeInv, CleanRead, pages, ghosts
  <1>2. CASE CleanWrite
    <2>1. /\ snap # <<>> /\ revs' = {r \in revs : r.seg \in Preserved} /\ version' = version + 1
          /\ snap' = <<>> /\ UNCHANGED <<run, pages, edits, blind, calls>>
      BY <1>2 DEF CleanWrite
    <2>2. /\ segs' \in Maps /\ DOMAIN segs' \subseteq DOMAIN segs /\ Preserved \subseteq DOMAIN segs'
          /\ spk' = {segs'[m].speaker : m \in DOMAIN segs'}
          /\ reborn' = reborn \cup (DOMAIN segs' \ Preserved)
      BY <1>2, <2>1, CleanUpWrites
    <2>3. DOMAIN segs' \in SUBSET Segments /\ \A m \in DOMAIN segs' : segs'[m] \in Segment
      BY <2>2, MapDomain
    <2>4. spk' \subseteq Speakers /\ reborn' \subseteq Segments
      BY <2>2, <2>3 DEF TypeInv, Segment
    <2>5. revs' \subseteq Revision /\ \A r \in revs' : r.seg \in DOMAIN segs'
      BY <2>1, <2>2 DEF TypeInv
    <2>6. version' \in Nat \ {NoTag}
      BY <2>1 DEF TypeInv, NoTag
    <2> QED
      BY <2>1, <2>2, <2>4, <2>5, <2>6, EmptyMap DEF TypeInv, pages
  <1>3. CASE CleanUpDies
    BY <1>3, EmptyMap DEF TypeInv, CleanUpDies, pages, ghosts
  <1>4. CASE Transcribe
    <2>1. calls' \in 0..MaxCalls /\ \E k \in 0..calls' : edits' \in [1..k -> Found]
      BY <1>4, CallTypes DEF Transcribe
    <2>2. version' \in Nat \ {NoTag} /\ run' \in Nat /\ run <= run' /\ UNCHANGED pages
      BY <1>4 DEF Transcribe, TypeInv, NoTag
    <2>3. \A c \in Clients : view'[c].run <= run' /\ wire'[c].run <= run'
      <3>1. \A c \in Clients : view[c].run \in Nat /\ wire[c].run \in Nat
        BY DEF TypeInv, Shows, Request
      <3> QED
        BY <2>2, <3>1 DEF TypeInv, pages
    <2> QED
      BY <1>4, <2>1, <2>2, <2>3, FreshMap, EditsAssumption DEF TypeInv, Transcribe, pages
  <1> QED
    BY <1>1, <1>2, <1>3, <1>4

-----------------------------------------------------------------------------
(* ETags.                                                                   *)

(* A write makes the version one that nothing bears yet.                    *)
LEMMA WriteTags ==
  ASSUME TypeInv, TagsTell, version' = version + 1, wire' = wire,
         \A c \in Clients : view'[c].etag \in {NoTag, view[c].etag}
  PROVE  TagsTell'
  <1>1. \A c \in Clients : view[c].etag \in Nat /\ wire[c].etag \in Nat
    BY DEF TypeInv, Shows, Request
  <1>2. version \in Nat
    BY DEF TypeInv
  <1>3. \A c \in Clients : /\ view'[c].etag <= version /\ wire'[c].etag <= version
                           /\ view'[c].etag \in Nat /\ wire'[c].etag \in Nat
    BY <1>1, <1>2 DEF TagsTell, NoTag
  <1> QED
    BY <1>2, <1>3 DEF TagsTell

(* A page that reads, or takes what it has read.                            *)
LEMMA FetchTags ==
  ASSUME TypeInv, TagsTell, NEW c \in Clients, StartFetch(c) \/ ReadSegments(c) \/ Arrive(c)
  PROVE  TagsTell'
  <1>1. /\ view \in [Clients -> Shows] /\ wire \in [Clients -> Request]
        /\ version \in Nat /\ version # NoTag
    BY DEF TypeInv
  <1>2. UNCHANGED <<segs, run, version>>
    BY DEF StartFetch, ReadSegments, Arrive
  <1> SUFFICES ASSUME NEW d \in Clients
               PROVE  /\ view'[d].etag <= version /\ wire'[d].etag <= version
                      /\ view'[d].etag = version => view'[d].run = run /\ view'[d].segs = segs
                      /\ wire'[d].at = "read" /\ wire'[d].etag = version =>
                           wire'[d].run = run /\ wire'[d].segs = segs
    BY <1>2 DEF TagsTell
  <1>3. /\ view[d].etag <= version /\ wire[d].etag <= version
        /\ view[d].etag = version => view[d].run = run /\ view[d].segs = segs
        /\ wire[d].at = "read" /\ wire[d].etag = version => wire[d].run = run /\ wire[d].segs = segs
    BY DEF TagsTell
  <1>4. CASE d # c
    <2>1. view'[d] = view[d] /\ wire'[d] = wire[d]
      BY <1>1, <1>4 DEF StartFetch, ReadSegments, Arrive
    <2> QED
      BY <1>3, <2>1
  <1>5. CASE d = c /\ StartFetch(c)
    <2>1. view' = view /\ wire'[c].at = "versioned" /\ wire'[c].etag = version
      BY <1>1, <1>5 DEF StartFetch
    <2> QED
      BY <1>1, <1>3, <1>5, <2>1
  <1>6. CASE d = c /\ ReadSegments(c)
    <2>1. view' = view /\ wire'[c].etag = wire[c].etag /\ wire'[c].run = run /\ wire'[c].segs = segs
      BY <1>1, <1>6 DEF ReadSegments, Request
    <2> QED
      BY <1>3, <1>6, <2>1
  <1>7. CASE d = c /\ Arrive(c)
    <2>1. /\ wire[c].at = "read"
          /\ view'[c] = [etag |-> wire[c].etag, run |-> wire[c].run, segs |-> wire[c].segs]
          /\ wire'[c] = Idle
      BY <1>1, <1>7 DEF Arrive
    <2>2. wire'[c].at = "idle" /\ wire'[c].etag = NoTag /\ NoTag <= version
      BY <1>1, <2>1 DEF Idle, NoTag
    <2> QED
      BY <1>3, <1>7, <2>1, <2>2
  <1> QED
    BY <1>4, <1>5, <1>6, <1>7

(* What takes no ETag from a page but one, and leaves that one without.     *)
LEMMA RefreshTags ==
  ASSUME TypeInv, NEW c \in Clients, Refreshed(c)
  PROVE  \A d \in Clients : view'[d].etag \in {NoTag, view[d].etag}
  BY DEF Refreshed

LEMMA NextTags ==
  ASSUME TypeInv, TagsTell, Next
  PROVE  TagsTell'
  <1>1. ASSUME NEW c \in Clients, StartFetch(c) \/ ReadSegments(c) \/ Arrive(c)
        PROVE  TagsTell'
    BY <1>1, FetchTags
  <1>2. ASSUME NEW c \in Clients, Refreshed(c), UNCHANGED <<segs, run, version, wire>>
        PROVE  TagsTell'
    <2>1. \A d \in Clients : view'[d] = view[d] \/ view'[d].etag = NoTag
      BY <1>2 DEF Refreshed
    <2>2. version # NoTag /\ NoTag <= version
      BY DEF TypeInv, NoTag
    <2> QED
      BY <1>2, <2>1, <2>2 DEF TagsTell
  <1>3. ASSUME NEW c \in Clients, NEW n \in Segments, Conflict(c, n)
        PROVE  TagsTell'
    BY <1>2, <1>3, ConflictRefreshes
  <1>4. ASSUME NEW c \in Clients, NEW n \in Segments, Undo(c, n)
        PROVE  TagsTell'
    <2>1. UNCHANGED <<run, wire>>
      BY <1>4, Zenon DEF Undo
    <2>2. CASE UNCHANGED <<segs, revs, version>> /\ Refreshed(c)
      BY <1>2, <2>1, <2>2
    <2>3. CASE version' = version + 1 /\ Refreshed(c)
      BY <2>1, <2>3, RefreshTags, WriteTags
    <2> QED
      BY <1>4, <2>2, <2>3, UndoWrites
  <1>5. ASSUME NEW c \in Clients, NEW n \in DOMAIN segs, NEW text \in BOOLEAN,
               NEW whole \in BOOLEAN, NEW to \in Speakers, Patch(c, n, text, to, whole)
        PROVE  TagsTell'
    <2>1. version' = version + 1 /\ wire' = wire
      BY <1>5, Zenon DEF Patch
    <2>2. PICK ids \in SUBSET DOMAIN segs : Edited(c, n, text, to, ids)
      BY <1>5, PatchWrites, Zenon
    <2>3. Rewritten(ids) /\ Refreshed(c)
      BY <2>2 DEF Edited
    <2> QED
      BY <2>1, <2>3, RefreshTags, WriteTags
  <1>6. ASSUME NEW from \in Speakers, NEW to \in Speakers, Merge(from, to)
        PROVE  TagsTell'
    BY <1>6, WriteTags DEF Merge, pages
  <1>7. CASE CleanRead \/ CleanUpDies
    BY <1>7 DEF CleanRead, CleanUpDies, pages, TagsTell
  <1>8. CASE CleanWrite \/ Transcribe
    BY <1>8, WriteTags DEF CleanWrite, Transcribe, pages
  <1> QED
    BY <1>1, <1>3, <1>4, <1>5, <1>6, <1>7, <1>8 DEF Next

-----------------------------------------------------------------------------
(* Copies.                                                                  *)

(* A copy stays honest when segments are written with their next revision.  *)
LEMMA RewrittenKeeps ==
  ASSUME TypeInv, NEW ids, Rewritten(ids), UNCHANGED <<run, reborn>>,
         NEW at, NEW f \in Maps, Honest(at, f)
  PROVE  at = run => \A n \in (DOMAIN f \cap DOMAIN segs') \ reborn :
           f[n].rev <= segs'[n].rev /\ (f[n].rev = segs'[n].rev => f[n].text = segs'[n].text)
  <1>1. \A m \in DOMAIN segs : segs[m].rev \in Nat
    BY MapDomain DEF TypeInv, Segment
  <1>2. \A m \in DOMAIN f : f[m].rev \in Nat
    BY MapDomain DEF Segment
  <1> SUFFICES ASSUME at = run, NEW n \in (DOMAIN f \cap DOMAIN segs) \ reborn
               PROVE  f[n].rev <= segs'[n].rev /\ (f[n].rev = segs'[n].rev => f[n].text = segs'[n].text)
    BY DEF Rewritten
  <1>3. f[n].rev <= segs[n].rev /\ (f[n].rev = segs[n].rev => f[n].text = segs[n].text)
    BY DEF Honest
  <1>4. CASE n \in ids
    <2>1. segs'[n].rev = segs[n].rev + 1
      BY <1>4 DEF Rewritten
    <2> QED
      BY <1>1, <1>2, <1>3, <2>1
  <1>5. CASE n \notin ids
    BY <1>3, <1>5 DEF Rewritten
  <1> QED
    BY <1>4, <1>5

(* What a page shows, with some segments as they are now, is honest if what *)
(* it showed is.                                                            *)
LEMMA RefreshedHonest ==
  ASSUME TypeInv, CopiesAreHonest, NEW ids, NEW c \in Clients, Rewritten(ids), Refreshed(c),
         UNCHANGED <<run, reborn>>
  PROVE  \A d \in Clients : Honest(view[d].run, view[d].segs)'
  <1> SUFFICES ASSUME NEW d \in Clients, view'[d].run = run,
                      NEW n \in (DOMAIN view'[d].segs \cap DOMAIN segs') \ reborn
               PROVE  /\ view'[d].segs[n].rev <= segs'[n].rev
                      /\ view'[d].segs[n].rev = segs'[n].rev => view'[d].segs[n].text = segs'[n].text
    BY DEF Honest
  <1>1. segs' \in Maps /\ \A m \in DOMAIN segs' : segs'[m].rev \in Nat
    BY MapDomain DEF Rewritten, Segment
  <1>2. view[d].segs \in Maps /\ Honest(view[d].run, view[d].segs)
    BY DEF TypeInv, Shows, CopiesAreHonest
  <1>3. /\ view'[d].run = view[d].run /\ DOMAIN view'[d].segs = DOMAIN view[d].segs
        /\ view'[d].segs[n] \in {view[d].segs[n], segs'[n]}
    BY DEF Refreshed
  <1>4. CASE view'[d].segs[n] = segs'[n]
    BY <1>1, <1>4
  <1>5. CASE view'[d].segs[n] = view[d].segs[n]
    <2> DEFINE at == view[d].run
               f == view[d].segs
    <2> HIDE DEF at, f
    <2>1. f \in Maps /\ Honest(at, f)
      BY <1>2 DEF at, f
    <2>2. at = run => \A m \in (DOMAIN f \cap DOMAIN segs') \ reborn :
            f[m].rev <= segs'[m].rev /\ (f[m].rev = segs'[m].rev => f[m].text = segs'[m].text)
      BY <2>1, RewrittenKeeps
    <2> QED
      BY <1>3, <1>5, <2>2 DEF at, f
  <1> QED
    BY <1>3, <1>4, <1>5

LEMMA FetchCopies ==
  ASSUME TypeInv, CopiesAreHonest, NEW c \in Clients, StartFetch(c) \/ ReadSegments(c) \/ Arrive(c)
  PROVE  CopiesAreHonest'
  <1>1. view \in [Clients -> Shows] /\ wire \in [Clients -> Request] /\ segs \in Maps
    BY DEF TypeInv
  <1>2. UNCHANGED <<segs, run, snap, reborn>>
    BY DEF StartFetch, ReadSegments, Arrive, ghosts
  <1>3. \A n \in DOMAIN segs : segs[n].rev \in Nat
    BY <1>1, MapDomain DEF Segment
  <1>4. Honest(run, segs)
    BY <1>3 DEF Honest
  <1>5. ASSUME NEW d \in Clients
        PROVE  /\ Honest(view'[d].run, view'[d].segs)
               /\ wire'[d].at = "read" => Honest(wire'[d].run, wire'[d].segs)
    <2>1. /\ Honest(view[d].run, view[d].segs)
          /\ wire[d].at = "read" => Honest(wire[d].run, wire[d].segs)
      BY DEF CopiesAreHonest
    <2>2. CASE d # c
      <3>1. view'[d] = view[d] /\ wire'[d] = wire[d]
        BY <1>1, <2>2 DEF StartFetch, ReadSegments, Arrive
      <3> QED
        BY <2>1, <3>1
    <2>3. CASE d = c /\ StartFetch(c)
      <3>1. view' = view /\ wire'[c].at = "versioned"
        BY <1>1, <2>3 DEF StartFetch
      <3> QED
        BY <2>1, <2>3, <3>1
    <2>4. CASE d = c /\ ReadSegments(c)
      <3>1. view' = view /\ wire'[c].run = run /\ wire'[c].segs = segs
        BY <1>1, <2>4 DEF ReadSegments, Request
      <3> QED
        BY <1>4, <2>1, <2>4, <3>1
    <2>5. CASE d = c /\ Arrive(c)
      <3>1. /\ wire[c].at = "read" /\ wire'[c] = Idle
            /\ view'[c] = [etag |-> wire[c].etag, run |-> wire[c].run, segs |-> wire[c].segs]
        BY <1>1, <2>5 DEF Arrive
      <3>2. wire'[c].at # "read" /\ view'[c].run = wire[c].run /\ view'[c].segs = wire[c].segs
        BY <3>1 DEF Idle
      <3> QED
        BY <2>1, <2>5, <3>1, <3>2
    <2> QED
      BY <2>2, <2>3, <2>4, <2>5
  <1> QED
    BY <1>2, <1>5 DEF CopiesAreHonest, Honest

(* Segments written with their next revision, and one page that takes them, *)
(* or none.                                                                 *)
LEMMA RewrittenCopies ==
  ASSUME TypeInv, CopiesAreHonest, NEW ids, Rewritten(ids), UNCHANGED <<run, reborn, snap, wire>>,
         view' = view \/ \E c \in Clients : Refreshed(c)
  PROVE  CopiesAreHonest'
  <1>1. ASSUME NEW d \in Clients, wire[d].at = "read"
        PROVE  Honest(wire[d].run, wire[d].segs)'
    <2> DEFINE at == wire[d].run
               f == wire[d].segs
    <2>1. f \in Maps /\ Honest(at, f)
      BY <1>1 DEF TypeInv, Request, CopiesAreHonest
    <2>2. wire'[d].run = at /\ wire'[d].segs = f
      OBVIOUS
    <2> HIDE DEF at, f
    <2>3. at = run => \A n \in (DOMAIN f \cap DOMAIN segs') \ reborn :
            f[n].rev <= segs'[n].rev /\ (f[n].rev = segs'[n].rev => f[n].text = segs'[n].text)
      BY <2>1, RewrittenKeeps
    <2> QED
      BY <2>2, <2>3 DEF Honest
  <1>2. ASSUME view' = view, NEW d \in Clients
        PROVE  Honest(view[d].run, view[d].segs)'
    <2> DEFINE at == view[d].run
               f == view[d].segs
    <2>1. f \in Maps /\ Honest(at, f)
      BY <1>1 DEF TypeInv, Shows, CopiesAreHonest
    <2>2. view'[d].run = at /\ view'[d].segs = f
      BY <1>2
    <2> HIDE DEF at, f
    <2>3. at = run => \A n \in (DOMAIN f \cap DOMAIN segs') \ reborn :
            f[n].rev <= segs'[n].rev /\ (f[n].rev = segs'[n].rev => f[n].text = segs'[n].text)
      BY <2>1, RewrittenKeeps
    <2> QED
      BY <2>2, <2>3 DEF Honest
  <1>3. \A d \in Clients : Honest(view[d].run, view[d].segs)'
    BY <1>2, RefreshedHonest
  <1>4. (snap # <<>> => DOMAIN snap = DOMAIN segs)'
    BY DEF CopiesAreHonest, Rewritten
  <1> QED
    BY <1>1, <1>3, <1>4 DEF CopiesAreHonest

LEMMA SameRewritten ==
  ASSUME TypeInv, segs' = segs
  PROVE  Rewritten({})
  BY DEF TypeInv, Rewritten

LEMMA CleanWriteCopies ==
  ASSUME TypeInv, CopiesAreHonest, CleanWrite
  PROVE  CopiesAreHonest'
  <1>1. /\ DOMAIN segs' \subseteq DOMAIN segs
        /\ \A m \in Preserved : segs'[m].text = segs[m].text /\ segs'[m].rev = segs[m].rev
        /\ reborn' = reborn \cup (DOMAIN segs' \ Preserved)
    BY CleanUpWrites DEF CopiesAreHonest, CleanWrite
  <1>2. snap' = <<>> /\ UNCHANGED <<run, view, wire>>
    BY DEF CleanWrite, pages
  <1>3. ASSUME NEW at, NEW f, Honest(at, f)
        PROVE  at = run => \A n \in (DOMAIN f \cap DOMAIN segs') \ reborn' :
                 f[n].rev <= segs'[n].rev /\ (f[n].rev = segs'[n].rev => f[n].text = segs'[n].text)
    BY <1>1, <1>3 DEF Honest
  <1>4. \A d \in Clients : Honest(view[d].run, view[d].segs)'
    BY <1>2, <1>3 DEF CopiesAreHonest, Honest
  <1>5. \A d \in Clients : wire[d].at = "read" => Honest(wire[d].run, wire[d].segs)'
    BY <1>2, <1>3 DEF CopiesAreHonest, Honest
  <1> QED
    BY <1>2, <1>4, <1>5 DEF CopiesAreHonest

LEMMA NextCopies ==
  ASSUME TypeInv, CopiesAreHonest, Next
  PROVE  CopiesAreHonest'
  <1>1. ASSUME NEW c \in Clients, StartFetch(c) \/ ReadSegments(c) \/ Arrive(c)
        PROVE  CopiesAreHonest'
    BY <1>1, FetchCopies
  <1>2. ASSUME NEW c \in Clients, NEW n \in Segments, Conflict(c, n)
        PROVE  CopiesAreHonest'
    <2>1. Refreshed(c) /\ UNCHANGED <<segs, run, reborn, snap, wire>>
      BY <1>2, ConflictRefreshes DEF ghosts
    <2> QED
      BY <2>1, SameRewritten, RewrittenCopies
  <1>3. ASSUME NEW c \in Clients, NEW n \in Segments, Undo(c, n)
        PROVE  CopiesAreHonest'
    <2>1. UNCHANGED <<run, reborn, snap, wire>>
      <3>1. UNCHANGED <<spk, run, snap, wire, ghosts>>
        BY <1>3, Zenon DEF Undo
      <3> QED
        BY <3>1 DEF ghosts
    <2>2. Refreshed(c) /\ \E ids : Rewritten(ids)
      BY <1>3, UndoWrites, SameRewritten
    <2> QED
      BY <2>1, <2>2, RewrittenCopies
  <1>4. ASSUME NEW c \in Clients, NEW n \in DOMAIN segs, NEW text \in BOOLEAN,
               NEW whole \in BOOLEAN, NEW to \in Speakers, Patch(c, n, text, to, whole)
        PROVE  CopiesAreHonest'
    <2>1. UNCHANGED <<run, snap, wire, reborn>>
      BY <1>4, Zenon DEF Patch
    <2>2. PICK ids \in SUBSET DOMAIN segs : Edited(c, n, text, to, ids)
      BY <1>4, PatchWrites, Zenon
    <2>3. Rewritten(ids) /\ Refreshed(c)
      BY <2>2 DEF Edited
    <2> QED
      BY <2>1, <2>3, RewrittenCopies
  <1>5. ASSUME NEW from \in Speakers, NEW to \in Speakers, Merge(from, to)
        PROVE  CopiesAreHonest'
    <2>1. UNCHANGED <<run, snap, wire, view, reborn>>
      BY <1>5 DEF Merge, pages, ghosts
    <2> QED
      BY <1>5, <2>1, MergeWrites, RewrittenCopies
  <1>6. CASE CleanRead \/ CleanUpDies
    BY <1>6 DEF CleanRead, CleanUpDies, pages, ghosts, CopiesAreHonest, Honest
  <1>7. CASE CleanWrite
    BY <1>7, CleanWriteCopies
  <1>8. CASE Transcribe
    <2>1. run' = run + 1 /\ snap = <<>> /\ snap' = <<>> /\ UNCHANGED <<view, wire>>
      BY <1>8 DEF Transcribe, pages
    <2>2. \A d \in Clients : view'[d].run # run' /\ wire'[d].run # run'
      <3>1. \A d \in Clients : /\ view[d].run \in Nat /\ wire[d].run \in Nat
                               /\ view[d].run <= run /\ wire[d].run <= run
        BY DEF TypeInv, Shows, Request
      <3> QED
        BY <2>1, <3>1 DEF TypeInv
    <2> QED
      BY <2>1, <2>2 DEF CopiesAreHonest, Honest
  <1> QED
    BY <1>1, <1>2, <1>3, <1>4, <1>5, <1>6, <1>7, <1>8 DEF Next

(* An edit of a segment that no clean-up has inserted again replaces the    *)
(* text its author saw.                                                     *)
LEMMA NextBlind ==
  ASSUME TypeInv, CopiesAreHonest, BlindOnlyAfterRewrite, Next
  PROVE  BlindOnlyAfterRewrite'
  <1>1. ASSUME NEW c \in Clients, NEW n \in DOMAIN segs, NEW text \in BOOLEAN,
               NEW whole \in BOOLEAN, NEW to \in Speakers, Patch(c, n, text, to, whole)
        PROVE  BlindOnlyAfterRewrite'
    <2>1. /\ Current(c, n) /\ reborn' = reborn
          /\ blind' = IF text /\ segs[n].text # view[c].segs[n].text THEN blind \cup {n} ELSE blind
      BY <1>1, Zenon DEF Patch
    <2>2. n \in reborn \/ segs[n].text = view[c].segs[n].text
      <3>1. Honest(view[c].run, view[c].segs)
        BY DEF CopiesAreHonest
      <3>2. view[c].run = run /\ n \in DOMAIN view[c].segs /\ view[c].segs[n].rev = segs[n].rev
        BY <2>1 DEF Current, Finds
      <3> QED
        BY <3>1, <3>2 DEF Honest
    <2> QED
      BY <2>1, <2>2 DEF BlindOnlyAfterRewrite
  <1>2. ASSUME UNCHANGED ghosts
        PROVE  BlindOnlyAfterRewrite'
    BY <1>2 DEF ghosts, BlindOnlyAfterRewrite
  <1>3. ASSUME NEW c \in Clients, NEW n \in Segments,
               StartFetch(c) \/ ReadSegments(c) \/ Arrive(c) \/ Conflict(c, n) \/ Undo(c, n)
        PROVE  BlindOnlyAfterRewrite'
    <2>1. CASE StartFetch(c) \/ ReadSegments(c) \/ Arrive(c) \/ Conflict(c, n)
      BY <1>2, <2>1 DEF StartFetch, ReadSegments, Arrive, Conflict
    <2>2. CASE Undo(c, n)
      <3>1. UNCHANGED <<spk, run, snap, wire, ghosts>>
        BY <2>2, Zenon DEF Undo
      <3> QED
        BY <1>2, <3>1
    <2> QED
      BY <1>3, <2>1, <2>2
  <1>4. ASSUME NEW from \in Speakers, NEW to \in Speakers, Merge(from, to)
        PROVE  BlindOnlyAfterRewrite'
    BY <1>2, <1>4 DEF Merge
  <1>5. CASE CleanRead \/ CleanUpDies
    BY <1>2, <1>5 DEF CleanRead, CleanUpDies
  <1>6. CASE CleanWrite
    BY <1>6 DEF CleanWrite, BlindOnlyAfterRewrite
  <1>7. CASE Transcribe
    BY <1>7 DEF Transcribe, BlindOnlyAfterRewrite
  <1>8. Segments # {}
    BY EditsAssumption
  <1> QED
    BY <1>1, <1>3, <1>4, <1>5, <1>6, <1>7, <1>8 DEF Next

-----------------------------------------------------------------------------
(* Turns and speakers.                                                      *)

LEMMA FreshTurns == TurnsOf(Fresh)
  <1>1. \A n \in DOMAIN Fresh : Fresh[n].turn = 0 /\ Fresh[n].speaker = First
    BY DEF Fresh
  <1> QED
    BY <1>1 DEF TurnsOf

LEMMA EmptyTurns == TurnsOf(<<>>)
  BY EmptyMap DEF TurnsOf

(* Turns are computed anew unless no speaker changed.                       *)
LEMMA RetimedTurns ==
  ASSUME TypeInv, TurnsOf(segs), NEW f \in Maps, NEW changed \in BOOLEAN,
         ~changed => /\ DOMAIN f = DOMAIN segs
                     /\ \A m \in DOMAIN segs : f[m].speaker = segs[m].speaker /\ f[m].turn = segs[m].turn
  PROVE  TurnsOf(Retimed(changed, f))
  <1>1. CASE changed
    BY <1>1, TurnedTurns DEF Retimed
  <1>2. CASE ~changed
    BY <1>2, SameTurns DEF Retimed
  <1> QED
    BY <1>1, <1>2

LEMMA PatchTurns ==
  ASSUME TypeInv, TurnsInv, NEW c \in Clients, NEW n \in DOMAIN segs, NEW text \in BOOLEAN,
         NEW to \in Speakers, NEW whole \in BOOLEAN, Patch(c, n, text, to, whole)
  PROVE  TurnsInv'
  <1>0. PICK ids \in SUBSET DOMAIN segs : Edited(c, n, text, to, ids)
    BY PatchWrites, Zenon
  <1>1. /\ Patched(n, text, to, ids) \in Maps
        /\ segs' = Retimed(Speaks(n, to), Patched(n, text, to, ids))
        /\ ~Speaks(n, to) => ids = {n}
    BY <1>0 DEF Edited
  <1> DEFINE f == Patched(n, text, to, ids)
  <1>2. DOMAIN f = DOMAIN segs
    BY DEF Patched
  <1>3. ASSUME ~Speaks(n, to), NEW m \in DOMAIN segs
        PROVE  f[m].speaker = segs[m].speaker /\ f[m].turn = segs[m].turn
    <2>1. segs[m] \in Segment
      BY MapDomain DEF TypeInv
    <2>2. CASE m # n
      BY <1>1, <1>3, <2>2 DEF Patched
    <2>3. CASE m = n
      <3>1. to = segs[n].speaker
        BY <1>3 DEF Speaks
      <3> QED
        BY <1>1, <1>3, <2>1, <2>3, <3>1 DEF Patched, Segment
    <2> QED
      BY <2>2, <2>3
  <1> HIDE DEF f
  <1>4. f \in Maps /\ segs' = Retimed(Speaks(n, to), f)
    BY <1>1 DEF f
  <1>5. Speaks(n, to) \in BOOLEAN
    BY DEF Speaks
  <1>6. TurnsOf(segs')
    BY <1>2, <1>3, <1>4, <1>5, RetimedTurns DEF TurnsInv
  <1>7. snap' = snap
    BY Zenon DEF Patch
  <1> QED
    BY <1>6, <1>7 DEF TurnsInv

LEMMA UndoTurns ==
  ASSUME TypeInv, TurnsInv, NEW c \in Clients, NEW n, Undo(c, n)
  PROVE  TurnsInv'
  <1>1. snap' = snap
    BY Zenon DEF Undo
  <1>2. CASE segs' = segs
    BY <1>1, <1>2 DEF TurnsInv
  <1>3. ASSUME NEW r \in revs, Group(r) \in SUBSET revs,
               segs' = Retimed(Unlike(Group(r)), Undone(Group(r)))
        PROVE  TurnsInv'
    <2> DEFINE group == Group(r)
               f == Undone(group)
    <2> HIDE DEF group
    <2>1. group \in SUBSET revs /\ segs' = Retimed(Unlike(group), f)
      BY <1>3 DEF group
    <2>2. f \in Maps /\ DOMAIN f = DOMAIN segs
      BY <2>1, UndoneIs
    <2>3. ASSUME ~Unlike(group), NEW m \in DOMAIN segs
          PROVE  f[m].speaker = segs[m].speaker /\ f[m].turn = segs[m].turn
      <3>1. CASE m \in Ids(group)
        <4>1. Row(group, m) \in group /\ Row(group, m).seg = m
          BY <3>1, RowOf
        <4>2. Restored(Row(group, m)) = segs[m].speaker
          BY <2>3, <4>1 DEF Unlike
        <4>3. f[m].speaker = Restored(Row(group, m)) /\ f[m].turn = segs[m].turn
          BY <2>1, <3>1, UndoneIs
        <4> QED
          BY <4>2, <4>3
      <3>2. CASE m \notin Ids(group)
        <4>1. f[m] = segs[m]
          BY <2>1, <3>2, UndoneIs
        <4> QED
          BY <4>1
      <3> QED
        BY <3>1, <3>2
    <2> HIDE DEF f
    <2>4. Unlike(group) \in BOOLEAN
      BY DEF Unlike
    <2>5. TurnsOf(segs')
      BY <2>1, <2>2, <2>3, <2>4, RetimedTurns DEF TurnsInv
    <2> QED
      BY <1>1, <2>5 DEF TurnsInv
  <1> QED
    BY <1>2, <1>3, UndoWrites

LEMMA NextTurns ==
  ASSUME TypeInv, CopiesAreHonest, TurnsInv, Next
  PROVE  TurnsInv'
  <1>1. ASSUME NEW c \in Clients, NEW n \in Segments,
               StartFetch(c) \/ ReadSegments(c) \/ Arrive(c) \/ Conflict(c, n)
        PROVE  TurnsInv'
    BY <1>1 DEF StartFetch, ReadSegments, Arrive, Conflict, TurnsInv
  <1>2. ASSUME NEW c \in Clients, NEW n \in Segments, Undo(c, n)
        PROVE  TurnsInv'
    BY <1>2, UndoTurns
  <1>3. ASSUME NEW c \in Clients, NEW n \in DOMAIN segs, NEW text \in BOOLEAN,
               NEW whole \in BOOLEAN, NEW to \in Speakers, Patch(c, n, text, to, whole)
        PROVE  TurnsInv'
    BY <1>3, PatchTurns
  <1>4. ASSUME NEW from \in Speakers, NEW to \in Speakers, Merge(from, to)
        PROVE  TurnsInv'
    <2>1. TurnsOf(segs')
      BY <1>4, MergeWrites
    <2>2. snap' = snap
      BY <1>4 DEF Merge
    <2> QED
      BY <2>1, <2>2 DEF TurnsInv
  <1>5. CASE CleanRead
    BY <1>5 DEF CleanRead, TurnsInv
  <1>6. CASE CleanUpDies
    BY <1>6, EmptyTurns DEF CleanUpDies, TurnsInv
  <1>7. CASE CleanWrite
    <2>1. DOMAIN segs' \subseteq DOMAIN snap
          /\ \A m \in DOMAIN segs' : segs'[m].speaker = snap[m].speaker /\ segs'[m].turn = snap[m].turn
      <3>1. DOMAIN snap = DOMAIN segs
        BY <1>7 DEF CopiesAreHonest, CleanWrite
      <3> QED
        BY <1>7, <3>1, CleanUpWrites
    <2>2. TurnsOf(segs')
      BY <2>1, SameTurns DEF TurnsInv
    <2>3. snap' = <<>>
      BY <1>7 DEF CleanWrite
    <2> QED
      BY <2>2, <2>3, EmptyTurns DEF TurnsInv
  <1>8. CASE Transcribe
    BY <1>8, FreshTurns DEF Transcribe, TurnsInv
  <1>9. Segments # {}
    BY EditsAssumption
  <1> QED
    BY <1>1, <1>2, <1>3, <1>4, <1>5, <1>6, <1>7, <1>8, <1>9 DEF Next

LEMMA NextSpeakers ==
  ASSUME TypeInv, CopiesAreHonest, SpeakersExist, Next
  PROVE  SpeakersExist'
  <1>1. ASSUME NEW c \in Clients, NEW n \in Segments,
               StartFetch(c) \/ ReadSegments(c) \/ Arrive(c) \/ Conflict(c, n)
        PROVE  SpeakersExist'
    BY <1>1 DEF StartFetch, ReadSegments, Arrive, Conflict, SpeakersExist
  <1>2. ASSUME NEW c \in Clients, NEW n \in Segments, Undo(c, n)
        PROVE  SpeakersExist'
    <2>1. spk' = spk
      BY <1>2, Zenon DEF Undo
    <2>2. CASE segs' = segs
      BY <2>1, <2>2 DEF SpeakersExist
    <2>3. ASSUME NEW r \in revs, Group(r) \in SUBSET revs, Rewritten(Ids(Group(r))),
                 \A m \in DOMAIN segs : segs'[m].speaker = Undone(Group(r))[m].speaker
          PROVE  SpeakersExist'
      <3> DEFINE group == Group(r)
      <3>1. ASSUME NEW m \in DOMAIN segs
            PROVE  Undone(group)[m].speaker \in spk
        <4>1. CASE m \in Ids(group)
          <5>1. Undone(group)[m].speaker = Restored(Row(group, m))
            BY <2>3, <4>1, UndoneIs
          <5>2. Row(group, m) \in revs
            BY <2>3, <4>1, RowOf
          <5>3. Row(group, m).seg \in DOMAIN segs
            BY <5>2 DEF TypeInv
          <5> QED
            BY <5>1, <5>3 DEF Restored, SpeakersExist
        <4>2. CASE m \notin Ids(group)
          <5>1. Undone(group)[m] = segs[m]
            BY <2>3, <4>2, UndoneIs
          <5> QED
            BY <5>1 DEF SpeakersExist
        <4> QED
          BY <4>1, <4>2
      <3>2. DOMAIN segs' = DOMAIN segs
        BY <2>3 DEF Rewritten
      <3> QED
        BY <2>1, <2>3, <3>1, <3>2 DEF SpeakersExist
    <2> QED
      BY <1>2, <2>2, <2>3, UndoWrites
  <1>3. ASSUME NEW c \in Clients, NEW n \in DOMAIN segs, NEW text \in BOOLEAN,
               NEW whole \in BOOLEAN, NEW to \in Speakers, Patch(c, n, text, to, whole)
        PROVE  SpeakersExist'
    <2>0. PICK ids \in SUBSET DOMAIN segs : Edited(c, n, text, to, ids)
      BY <1>3, PatchWrites, Zenon
    <2>1. /\ Rewritten(ids)
          /\ \A m \in DOMAIN segs : segs'[m].speaker = Patched(n, text, to, ids)[m].speaker
      BY <2>0 DEF Edited
    <2>2. DOMAIN segs' = DOMAIN segs
      BY <2>1 DEF Rewritten
    <2>3. ASSUME NEW m \in DOMAIN segs
          PROVE  Patched(n, text, to, ids)[m].speaker \in {segs[m].speaker, to}
      <3>1. segs[m] \in Segment
        BY MapDomain DEF TypeInv
      <3>2. CASE m \in ids
        BY <3>1, <3>2 DEF Patched, Segment
      <3>3. CASE m \notin ids
        BY <3>3 DEF Patched
      <3> QED
        BY <3>2, <3>3
    <2>4. spk' = spk \cup {to}
      BY <1>3, Zenon DEF Patch
    <2> QED
      BY <2>1, <2>2, <2>3, <2>4 DEF SpeakersExist
  <1>4. ASSUME NEW from \in Speakers, NEW to \in Speakers, Merge(from, to)
        PROVE  SpeakersExist'
    <2>1. DOMAIN segs' = DOMAIN segs
      BY <1>4, MergeWrites DEF Rewritten
    <2>2. \A m \in DOMAIN segs :
            segs'[m].speaker = IF segs[m].speaker = from THEN to ELSE segs[m].speaker
      BY <1>4, MergeWrites
    <2>3. to \in spk \ {from} /\ spk' = spk \ {from}
      BY <1>4 DEF Merge
    <2> QED
      BY <2>1, <2>2, <2>3 DEF SpeakersExist
  <1>5. CASE CleanRead \/ CleanUpDies
    BY <1>5 DEF CleanRead, CleanUpDies, SpeakersExist
  <1>6. CASE CleanWrite
    <2>1. DOMAIN snap = DOMAIN segs
      BY <1>6 DEF CopiesAreHonest, CleanWrite
    <2>2. spk' = {segs'[m].speaker : m \in DOMAIN segs'}
      BY <1>6, <2>1, CleanUpWrites
    <2> QED
      BY <2>2 DEF SpeakersExist
  <1>7. CASE Transcribe
    BY <1>7 DEF Transcribe, SpeakersExist, Fresh
  <1>8. Segments # {}
    BY EditsAssumption
  <1> QED
    BY <1>1, <1>2, <1>3, <1>4, <1>5, <1>6, <1>7, <1>8 DEF Next

-----------------------------------------------------------------------------
(* Revisions.                                                               *)

(* With as many revisions kept as there are calls, none is pruned: those of *)
(* one segment are of different edits.                                      *)
LEMMA NothingPruned ==
  ASSUME NEW rows \in SUBSET Revision, NEW among,
         \A q, r \in rows : q.group = r.group /\ q.seg = r.seg => q = r,
         MaxCalls <= Keep
  PROVE  Pruned(rows, among) = rows
  <1> SUFFICES ASSUME NEW r \in rows
               PROVE  RankIn(rows, r) <= Keep
    BY DEF Pruned
  <1> DEFINE later == {q \in rows : q.seg = r.seg /\ q.rev >= r.rev}
             f == [q \in later |-> q.group]
  <1>1. f \in [later -> 1..MaxCalls]
    BY DEF Revision
  <1>2. \A p, q \in later : f[p] = f[q] => p = q
    OBVIOUS
  <1>3. f \in Injection(later, 1..MaxCalls)
    <2> HIDE DEF f, later
    <2> QED
      BY <1>1, <1>2 DEF Injection, IsInjective
  <1>4. MaxCalls \in Nat /\ Keep \in Nat
    BY EditsAssumption
  <1>5. IsFiniteSet(1..MaxCalls) /\ Cardinality(1..MaxCalls) = MaxCalls
    BY <1>4, FS_Interval
  <1> HIDE DEF f, later
  <1>6. IsFiniteSet(later) /\ Cardinality(later) <= Cardinality(1..MaxCalls)
    BY <1>3, <1>5, FS_Injection
  <1>7. Cardinality(later) \in Nat
    BY <1>6, FS_CardinalityType
  <1>8. RankIn(rows, r) = Cardinality(later)
    BY DEF RankIn, later
  <1> QED
    BY <1>4, <1>5, <1>6, <1>7, <1>8

LEMMA InitRows == Init => RowsAreWhole
  BY DEF Init, RowsAreWhole

(* What leaves the revisions and what edits found alone.                    *)
LEMMA SameRows ==
  ASSUME RowsAreWhole, UNCHANGED <<revs, edits, reborn>>, DOMAIN segs' = DOMAIN segs
  PROVE  RowsAreWhole'
  BY DEF RowsAreWhole

LEMMA PatchRows ==
  ASSUME TypeInv, RowsAreWhole, MaxCalls <= Keep,
         NEW c \in Clients, NEW n \in DOMAIN segs, NEW text \in BOOLEAN,
         NEW to \in Speakers, NEW whole \in BOOLEAN, Patch(c, n, text, to, whole)
  PROVE  RowsAreWhole' /\ \A r \in revs' : r \in revs \/ ~r.reverted
  <1>1. PICK ids \in SUBSET DOMAIN segs : Edited(c, n, text, to, ids)
    BY PatchWrites, Zenon
  <1>2. Called /\ reborn' = reborn
    BY Zenon DEF Patch
  <1> DEFINE k == Made + 1
             all == revs \cup Prior(ids)
  <1>3. /\ Prior(ids) \subseteq Revision
        /\ \A r \in Prior(ids) : /\ r.seg \in ids /\ r.group = k /\ ~r.reverted
                                 /\ r.text = segs[r.seg].text /\ r.source = segs[r.seg].source
        /\ \A m \in ids : \E r \in Prior(ids) : r.seg = m
        /\ \A q, r \in Prior(ids) : q.seg = r.seg => q = r
    BY <1>2, PriorRows
  <1>4. /\ DOMAIN edits' = 1..k
        /\ \A e \in DOMAIN edits : e \in DOMAIN edits' /\ edits'[e] = edits[e] /\ e < k
        /\ DOMAIN edits'[k] = ids
        /\ \A m \in ids : edits'[k][m] = <<segs[m].text, segs[m].source>>
    BY <1>1, <1>2, FoundMore DEF Edited
  <1>5. k \in DOMAIN edits' /\ k \in Nat
    <2>1. Made \in Nat
      BY MadeIs
    <2> QED
      BY <1>4, <2>1
  <1> HIDE DEF k
  <1>6. \A r \in revs : r.group \in DOMAIN edits /\ r.group # k
    BY <1>4, <1>5 DEF RowsAreWhole
  <1>7. \A q, r \in all : q.group = r.group => /\ q.reverted = r.reverted
                                               /\ q.seg = r.seg => q = r
    <2>1. \A q, r \in revs : q.group = r.group => /\ q.reverted = r.reverted
                                                  /\ q.seg = r.seg => q = r
      BY DEF RowsAreWhole
    <2>2. \A q, r \in Prior(ids) : q.reverted = r.reverted
      <3>1. \A r \in Prior(ids) : r.reverted = FALSE
        BY DEF Prior
      <3> QED
        BY <3>1
    <2> QED
      BY <1>3, <1>6, <2>1, <2>2
  <1>8. revs' = all
    <2>1. all \in SUBSET Revision
      BY <1>3 DEF TypeInv
    <2>2. revs' = Pruned(all, ids)
      BY <1>1 DEF Edited
    <2>3. \A q, r \in all : q.group = r.group /\ q.seg = r.seg => q = r
      BY <1>7
    <2> HIDE DEF all
    <2> QED
      BY <2>1, <2>2, <2>3, NothingPruned
  <1>9. \A r \in all : r.group \in DOMAIN edits'
    BY <1>3, <1>4, <1>5, <1>6
  <1>10. ASSUME NEW r \in all, NEW m \in (DOMAIN edits'[r.group] \cap DOMAIN segs) \ reborn
         PROVE  \E q \in all : q.group = r.group /\ q.seg = m /\ <<q.text, q.source>> = edits'[r.group][m]
    <2>1. CASE r \in revs
      <3>1. edits'[r.group] = edits[r.group]
        BY <1>4, <1>6, <2>1
      <3>2. \E q \in revs : q.group = r.group /\ q.seg = m /\ <<q.text, q.source>> = edits[r.group][m]
        BY <1>10, <2>1, <3>1 DEF RowsAreWhole
      <3> QED
        BY <3>1, <3>2
    <2>2. CASE r \in Prior(ids)
      <3>1. r.group = k /\ m \in ids
        BY <1>3, <1>4, <1>10, <2>2
      <3>2. PICK q \in Prior(ids) : q.seg = m
        BY <1>3, <3>1
      <3>3. q.group = k /\ q.text = segs[m].text /\ q.source = segs[m].source
        BY <1>3, <3>2
      <3> QED
        BY <1>4, <3>1, <3>2, <3>3
    <2> QED
      BY <2>1, <2>2
  <1>11. DOMAIN segs' = DOMAIN segs
    BY <1>1 DEF Edited, Rewritten
  <1>12. \A r \in revs' : r \in revs \/ ~r.reverted
    BY <1>3, <1>8
  <1> HIDE DEF all
  <1> QED
    BY <1>2, <1>7, <1>8, <1>9, <1>10, <1>11, <1>12 DEF RowsAreWhole

LEMMA UndoRows ==
  ASSUME TypeInv, RowsAreWhole, NEW c \in Clients, NEW n, Undo(c, n)
  PROVE  RowsAreWhole'
  <1>1. UNCHANGED <<edits, reborn>>
    <2>1. UNCHANGED <<spk, run, snap, wire, ghosts>>
      BY Zenon DEF Undo
    <2> QED
      BY <2>1 DEF ghosts
  <1>2. CASE UNCHANGED <<segs, revs, version>> /\ Refreshed(c)
    BY <1>1, <1>2, SameRows
  <1>3. ASSUME NEW r \in revs, ~r.reverted, Group(r) \in SUBSET revs,
               revs' = (revs \ Group(r)) \cup Reverted(Group(r)), Rewritten(Ids(Group(r)))
        PROVE  RowsAreWhole'
    <2> DEFINE group == Group(r)
               back == Reverted(group)
    <2>1. /\ \A q, p \in revs : q.group = p.group => /\ q.reverted = p.reverted
                                                     /\ q.seg = p.seg => q = p
          /\ \A q \in revs : q.group \in DOMAIN edits
          /\ \A q \in revs : \A m \in (DOMAIN edits[q.group] \cap DOMAIN segs) \ reborn :
               \E p \in revs : p.group = q.group /\ p.seg = m /\ <<p.text, p.source>> = edits[q.group][m]
      BY DEF RowsAreWhole
    <2>2. \A q \in revs : q \in group <=> q.group = r.group
      BY <1>3, <2>1 DEF Group
    <2>3. /\ \A p \in back : \E q \in group :
               /\ p = [q EXCEPT !.reverted = TRUE]
               /\ p.seg = q.seg /\ p.text = q.text /\ p.source = q.source /\ p.group = q.group
               /\ p.reverted
          /\ \A q \in group : \E p \in back :
               /\ p.seg = q.seg /\ p.text = q.text /\ p.source = q.source /\ p.group = q.group
      BY <1>3, RevertedRows
    <2>4. \A p \in back : p.reverted = TRUE /\ p.group = r.group
      <3>1. \A q \in group : q \in Revision /\ q.group = r.group
        BY <1>3, <2>2 DEF TypeInv
      <3>2. \A p \in back : p.reverted = TRUE
        BY <3>1 DEF Reverted, Revision
      <3> QED
        BY <2>3, <3>1, <3>2
    <2>5. \A p \in back : \A o \in back : p.seg = o.seg => p = o
      <3> SUFFICES ASSUME NEW p \in back, NEW o \in back, p.seg = o.seg
                   PROVE  p = o
        OBVIOUS
      <3>1. PICK q \in group : p = [q EXCEPT !.reverted = TRUE] /\ p.seg = q.seg
        BY <2>3
      <3>2. PICK u \in group : o = [u EXCEPT !.reverted = TRUE] /\ o.seg = u.seg
        BY <2>3
      <3>3. q \in revs /\ u \in revs /\ q.group = r.group /\ u.group = r.group
        BY <1>3, <2>2
      <3>4. q = u
        BY <2>1, <3>1, <3>2, <3>3
      <3> QED
        BY <3>1, <3>2, <3>4
    <2>6. \A q \in revs \ group : q \in revs /\ q.group # r.group
      BY <2>2
    <2> HIDE DEF group, back
    <2>7. revs' = (revs \ group) \cup back
      BY <1>3 DEF group, back
    <2>8. \A q, p \in revs' : q.group = p.group => /\ q.reverted = p.reverted
                                                   /\ q.seg = p.seg => q = p
      BY <2>1, <2>4, <2>5, <2>6, <2>7, ZenonT(60)
    <2>9. \A q \in revs' : q.group \in DOMAIN edits
      BY <2>1, <2>4, <2>7
    <2>10. ASSUME NEW q \in revs', NEW m \in (DOMAIN edits[q.group] \cap DOMAIN segs) \ reborn
           PROVE  \E p \in revs' : p.group = q.group /\ p.seg = m /\ <<p.text, p.source>> = edits[q.group][m]
      <3>1. CASE q \in revs \ group
        <4>1. PICK p \in revs : p.group = q.group /\ p.seg = m /\ <<p.text, p.source>> = edits[q.group][m]
          BY <2>1, <2>10, <3>1
        <4>2. p \notin group
          BY <2>2, <2>6, <3>1, <4>1
        <4> QED
          BY <2>7, <4>1, <4>2
      <3>2. CASE q \in back
        <4>1. q.group = r.group
          BY <2>4, <3>2
        <4>2. PICK p \in revs : p.group = r.group /\ p.seg = m /\ <<p.text, p.source>> = edits[r.group][m]
          BY <2>1, <2>10, <4>1
        <4>3. p \in group
          BY <2>2, <4>2
        <4>4. PICK o \in back : o.seg = p.seg /\ o.text = p.text /\ o.source = p.source /\ o.group = p.group
          BY <2>3, <4>3
        <4> QED
          BY <2>7, <4>1, <4>2, <4>4
      <3> QED
        BY <2>7, <3>1, <3>2
    <2>11. DOMAIN segs' = DOMAIN segs
      BY <1>3 DEF Rewritten
    <2> QED
      BY <1>1, <2>8, <2>9, <2>10, <2>11 DEF RowsAreWhole
  <1> QED
    BY <1>2, <1>3, UndoWrites

LEMMA NextRows ==
  ASSUME TypeInv, CopiesAreHonest, RowsAreWhole, MaxCalls <= Keep, Next
  PROVE  RowsAreWhole'
  <1>1. ASSUME NEW c \in Clients, NEW n \in Segments,
               StartFetch(c) \/ ReadSegments(c) \/ Arrive(c) \/ Conflict(c, n)
        PROVE  RowsAreWhole'
    <2>1. UNCHANGED <<segs, revs, edits, reborn>>
      BY <1>1 DEF StartFetch, ReadSegments, Arrive, Conflict, ghosts
    <2> QED
      BY <2>1, SameRows
  <1>2. ASSUME NEW c \in Clients, NEW n \in Segments, Undo(c, n)
        PROVE  RowsAreWhole'
    BY <1>2, UndoRows
  <1>3. ASSUME NEW c \in Clients, NEW n \in DOMAIN segs, NEW text \in BOOLEAN,
               NEW whole \in BOOLEAN, NEW to \in Speakers, Patch(c, n, text, to, whole)
        PROVE  RowsAreWhole'
    BY <1>3, PatchRows
  <1>4. ASSUME NEW from \in Speakers, NEW to \in Speakers, Merge(from, to)
        PROVE  RowsAreWhole'
    <2>1. DOMAIN segs' = DOMAIN segs
      BY <1>4, MergeWrites DEF Rewritten
    <2>2. UNCHANGED <<revs, edits, reborn>>
      BY <1>4 DEF Merge, ghosts
    <2> QED
      BY <2>1, <2>2, SameRows
  <1>5. CASE CleanRead \/ CleanUpDies
    <2>1. UNCHANGED <<segs, revs, edits, reborn>>
      BY <1>5 DEF CleanRead, CleanUpDies, ghosts
    <2> QED
      BY <2>1, SameRows
  <1>6. CASE CleanWrite
    <2>1. /\ revs' = {r \in revs : r.seg \in Preserved} /\ edits' = edits
          /\ DOMAIN segs' \subseteq DOMAIN segs
          /\ reborn' = reborn \cup (DOMAIN segs' \ Preserved)
      <3>1. snap # <<>> /\ revs' = {r \in revs : r.seg \in Preserved} /\ edits' = edits
        BY <1>6 DEF CleanWrite
      <3>2. DOMAIN snap = DOMAIN segs
        BY <3>1 DEF CopiesAreHonest
      <3> QED
        BY <1>6, <3>1, <3>2, CleanUpWrites
    <2>2. \A n \in DOMAIN segs' \ reborn' : n \in Preserved /\ n \in DOMAIN segs \ reborn
      BY <2>1
    <2> QED
      BY <2>1, <2>2 DEF RowsAreWhole
  <1>7. CASE Transcribe
    BY <1>7 DEF Transcribe, RowsAreWhole
  <1>8. Segments # {}
    BY EditsAssumption
  <1> QED
    BY <1>1, <1>2, <1>3, <1>4, <1>5, <1>6, <1>7, <1>8 DEF Next

-----------------------------------------------------------------------------
(* What a step may do.                                                      *)

(* An undo that takes a row back takes back all of its edit.                *)
LEMMA UndoTakesWhole ==
  ASSUME TypeInv, RowsAreWhole, NEW c \in Clients, NEW n, Undo(c, n),
         NEW r \in revs, ~r.reverted, [r EXCEPT !.reverted = TRUE] \in revs',
         NEW m \in (DOMAIN edits[r.group] \cap DOMAIN segs') \ reborn
  PROVE  <<segs'[m].text, segs'[m].source>> = edits[r.group][m]
  <1> DEFINE back == [r EXCEPT !.reverted = TRUE]
  <1>1. back.group = r.group /\ back.reverted = TRUE
    BY DEF TypeInv, Revision
  <1>2. \A q, p \in revs : q.group = p.group => /\ q.reverted = p.reverted
                                                /\ q.seg = p.seg => q = p
    BY DEF RowsAreWhole
  <1>3. back \notin revs
    BY <1>1, <1>2
  <1>4. PICK o \in revs :
          /\ ~o.reverted /\ Group(o) \in SUBSET revs
          /\ revs' = (revs \ Group(o)) \cup Reverted(Group(o))
          /\ Rewritten(Ids(Group(o)))
          /\ \A i \in DOMAIN segs :
               /\ segs'[i].text = Undone(Group(o))[i].text
               /\ segs'[i].source = Undone(Group(o))[i].source
    <2>1. ~ UNCHANGED <<segs, revs, version>>
      BY <1>3
    <2> QED
      BY <2>1, UndoWrites
  <1> DEFINE group == Group(o)
  <1>5. back \in Reverted(group)
    BY <1>3, <1>4
  <1>6. r.group = o.group
    <2>1. group \in SUBSET revs /\ \A q \in group : q.group = o.group
      BY <1>4 DEF Group
    <2> HIDE DEF group, back
    <2>2. \A p \in Reverted(group) : \E q \in group : p.group = q.group
      BY <2>1, RevertedRows
    <2> QED
      BY <1>1, <1>5, <2>1, <2>2
  <1>7. DOMAIN segs' = DOMAIN segs
    BY <1>4 DEF Rewritten
  <1>8. PICK q \in revs : q.group = r.group /\ q.seg = m /\ <<q.text, q.source>> = edits[r.group][m]
    BY <1>7 DEF RowsAreWhole
  <1>9. q \in group
    BY <1>2, <1>4, <1>6, <1>8 DEF Group
  <1>10. m \in Ids(group)
    BY <1>8, <1>9 DEF Ids
  <1>11. Row(group, m) = q
    <2>1. Row(group, m) \in group /\ Row(group, m).seg = m
      BY <1>10, RowOf
    <2>2. Row(group, m).group = q.group
      BY <1>9, <2>1 DEF Group
    <2> QED
      BY <1>2, <1>4, <1>8, <2>1, <2>2
  <1>12. Undone(group)[m].text = q.text /\ Undone(group)[m].source = q.source
    BY <1>4, <1>7, <1>10, <1>11, UndoneIs
  <1> QED
    BY <1>4, <1>7, <1>8, <1>12

(* No step but an undo marks a row as reverted.                             *)
LEMMA OnlyUndoReverts ==
  ASSUME TypeInv, RowsAreWhole, MaxCalls <= Keep, [Next]_vars,
         NEW r \in revs, ~r.reverted, [r EXCEPT !.reverted = TRUE] \in revs'
  PROVE  \E c \in Clients, n \in Segments : Undo(c, n)
  <1> DEFINE back == [r EXCEPT !.reverted = TRUE]
  <1>1. back.group = r.group /\ back.reverted = TRUE
    BY DEF TypeInv, Revision
  <1>2. back \notin revs
    BY <1>1 DEF RowsAreWhole
  <1> SUFFICES ASSUME Next, ~ \E c \in Clients, n \in Segments : Undo(c, n)
               PROVE  FALSE
    BY <1>2 DEF vars
  <1>3. ASSUME NEW c \in Clients, NEW n \in DOMAIN segs, NEW text \in BOOLEAN,
               NEW whole \in BOOLEAN, NEW to \in Speakers, Patch(c, n, text, to, whole)
        PROVE  FALSE
    <2>1. \A q \in revs' : q \in revs \/ ~q.reverted
      BY <1>3, PatchRows
    <2> QED
      BY <1>1, <1>2, <2>1
  <1>4. CASE revs' \subseteq revs
    BY <1>2, <1>4
  <1>5. ASSUME NEW c \in Clients, NEW n \in Segments,
               StartFetch(c) \/ ReadSegments(c) \/ Arrive(c) \/ Conflict(c, n)
        PROVE  FALSE
    BY <1>4, <1>5 DEF StartFetch, ReadSegments, Arrive, Conflict
  <1>6. ASSUME NEW from \in Speakers, NEW to \in Speakers, Merge(from, to)
        PROVE  FALSE
    BY <1>4, <1>6 DEF Merge
  <1>7. CASE CleanRead \/ CleanWrite \/ CleanUpDies \/ Transcribe
    BY <1>4, <1>7 DEF CleanRead, CleanWrite, CleanUpDies, Transcribe
  <1>8. Segments # {}
    BY EditsAssumption
  <1> QED
    BY <1>3, <1>5, <1>6, <1>7, <1>8 DEF Next

(* Of all steps, the clean-up's write alone cleans up.                      *)
LEMMA OnlyCleanUpCleans ==
  ASSUME [Next]_vars, CleansUp
  PROVE  CleanWrite
  <1>1. snap # <<>> /\ snap' # snap /\ version' # version
    BY DEF CleansUp
  <1>2. ASSUME NEW c \in Clients, NEW n \in Segments, Undo(c, n)
        PROVE  FALSE
    <2>1. snap' = snap
      BY <1>2, Zenon DEF Undo
    <2> QED
      BY <1>1, <2>1
  <1>3. ASSUME NEW c \in Clients, NEW n \in Segments, NEW text \in BOOLEAN,
               NEW whole \in BOOLEAN, NEW to \in Speakers, Patch(c, n, text, to, whole)
        PROVE  FALSE
    <2>1. snap' = snap
      BY <1>3, Zenon DEF Patch
    <2> QED
      BY <1>1, <2>1
  <1>4. ASSUME NEW c \in Clients, NEW n \in Segments,
               StartFetch(c) \/ ReadSegments(c) \/ Arrive(c) \/ Conflict(c, n)
        PROVE  FALSE
    BY <1>1, <1>4 DEF StartFetch, ReadSegments, Arrive, Conflict
  <1>5. ASSUME NEW from \in Speakers, NEW to \in Speakers, Merge(from, to)
        PROVE  FALSE
    BY <1>1, <1>5 DEF Merge
  <1>6. ~CleanRead /\ ~CleanUpDies /\ ~Transcribe
    BY <1>1 DEF CleanRead, CleanUpDies, Transcribe
  <1>7. ~ UNCHANGED vars
    BY <1>1 DEF vars
  <1>8. Segments # {}
    BY EditsAssumption
  <1> QED
    BY <1>2, <1>3, <1>4, <1>5, <1>6, <1>7, <1>8 DEF Next

LEMMA CleanUpKeeps ==
  ASSUME TypeInv, CopiesAreHonest, CleanWrite, NEW n \in DOMAIN segs,
         segs[n].source = "edited", n \notin Fillers \/ snap[n].source = "edited"
  PROVE  /\ n \in DOMAIN segs'
         /\ segs'[n].text = segs[n].text /\ segs'[n].source = "edited" /\ segs'[n].rev = segs[n].rev
         /\ \A r \in revs : r.seg = n => r \in revs'
  <1>1. snap # <<>> /\ revs' = {r \in revs : r.seg \in Preserved}
    BY DEF CleanWrite
  <1>2. DOMAIN snap = DOMAIN segs
    BY <1>1 DEF CopiesAreHonest
  <1>3. n \in DOMAIN Cleaned(snap)
    BY <1>2 DEF Cleaned
  <1>4. n \in Preserved
    BY <1>3 DEF Preserved
  <1> QED
    BY <1>1, <1>2, <1>4, CleanUpWrites

-----------------------------------------------------------------------------
(* Theorems.                                                                *)

LEMMA NextTypes ==
  ASSUME TypeInv, CopiesAreHonest, Next
  PROVE  TypeInv'
  <1>1. ASSUME NEW c \in Clients, StartFetch(c) \/ ReadSegments(c) \/ Arrive(c)
        PROVE  TypeInv'
    BY <1>1, FetchTypes
  <1>2. ASSUME NEW c \in Clients, NEW n \in Segments, Conflict(c, n)
        PROVE  TypeInv'
    BY <1>2, ConflictTypes
  <1>3. ASSUME NEW c \in Clients, NEW n \in Segments, Undo(c, n)
        PROVE  TypeInv'
    BY <1>3, UndoTypes
  <1>4. ASSUME NEW c \in Clients, NEW n \in DOMAIN segs, NEW text \in BOOLEAN,
               NEW whole \in BOOLEAN, NEW to \in Speakers, Patch(c, n, text, to, whole)
        PROVE  TypeInv'
    BY <1>4, PatchTypes
  <1>5. ASSUME NEW from \in Speakers, NEW to \in Speakers, Merge(from, to)
        PROVE  TypeInv'
    BY <1>5, MergeTypes
  <1>6. CASE CleanRead \/ CleanWrite \/ CleanUpDies \/ Transcribe
    BY <1>6, WorkerTypes DEF CopiesAreHonest
  <1> QED
    BY <1>1, <1>2, <1>3, <1>4, <1>5, <1>6 DEF Next

(* Types and honest copies, which all that follows rests on.                *)
LEMMA CopiesInvariant == Spec => [](TypeInv /\ CopiesAreHonest)
  <1>1. Init => TypeInv /\ CopiesAreHonest
    <2>1. Init => CopiesAreHonest
      <3>1. Honest(0, Fresh) <=> (0 = run => \A n \in (DOMAIN Fresh \cap DOMAIN segs) \ reborn :
              Fresh[n].rev <= segs[n].rev /\ (Fresh[n].rev = segs[n].rev => Fresh[n].text = segs[n].text))
        BY DEF Honest
      <3>2. \A n \in DOMAIN Fresh : Fresh[n].rev = 0
        BY DEF Fresh
      <3>3. Init => Honest(0, Fresh)
        BY <3>1, <3>2 DEF Init
      <3> QED
        BY <3>3 DEF Init, CopiesAreHonest, Idle
    <2> QED
      BY <2>1, InitTypes
  <1>2. TypeInv /\ CopiesAreHonest /\ [Next]_vars => (TypeInv /\ CopiesAreHonest)'
    <2>1. CASE Next
      BY <2>1, NextTypes, NextCopies
    <2>2. CASE UNCHANGED vars
      BY <2>2 DEF vars, TypeInv, CopiesAreHonest, Honest
    <2> QED
      BY <2>1, <2>2
  <1> QED
    BY <1>1, <1>2, PTL DEF Spec

(* Every variable has its type in every state.                              *)
THEOREM TypeCorrect == Spec => []TypeOK
  <1>1. TypeInv => TypeOK
    <2> SUFFICES ASSUME TypeInv
                 PROVE  TypeOK
      OBVIOUS
    <2>1. \A f \in Maps : Written(f)
      BY MapDomain DEF Written
    <2>2. \A c \in Clients : /\ view[c].etag \in Nat /\ view[c].run \in 0..run /\ view[c].segs \in Maps
                             /\ wire[c].at \in {"idle", "versioned", "read"}
      <3>1. \A c \in Clients : view[c] \in Shows /\ wire[c] \in Request /\ view[c].run <= run
        BY DEF TypeInv
      <3> QED
        BY <3>1 DEF Shows, Request, TypeInv
    <2> QED
      BY <2>1, <2>2 DEF TypeInv, TypeOK
  <1> QED
    BY <1>1, CopiesInvariant, PTL

(* A page whose ETag is the current version shows the current transcript:   *)
(* every write makes a version that no page and no answer under way bears.  *)
THEOREM TagsAreTrue == Spec => []ValidatorNeverHides
  <1>1. Init => TagsTell
    BY EditsAssumption DEF Init, TagsTell, Idle, NoTag
  <1>2. TypeInv /\ TagsTell /\ [Next]_vars => TagsTell'
    <2>1. CASE Next
      BY <2>1, NextTags
    <2>2. CASE UNCHANGED vars
      BY <2>2 DEF vars, TagsTell
    <2> QED
      BY <2>1, <2>2
  <1>3. TagsTell => ValidatorNeverHides
    BY DEF TagsTell, ValidatorNeverHides
  <1> QED
    BY <1>1, <1>2, <1>3, CopiesInvariant, PTL DEF Spec

(* An edit replaces the text its author saw, unless a clean-up inserted the *)
(* segment again.                                                           *)
THEOREM EditsSeeTheText == Spec => []BlindOnlyAfterRewrite
  <1>1. Init => BlindOnlyAfterRewrite
    BY DEF Init, BlindOnlyAfterRewrite
  <1>2. TypeInv /\ CopiesAreHonest /\ BlindOnlyAfterRewrite /\ [Next]_vars => BlindOnlyAfterRewrite'
    <2>1. CASE Next
      BY <2>1, NextBlind
    <2>2. CASE UNCHANGED vars
      BY <2>2 DEF vars, BlindOnlyAfterRewrite
    <2> QED
      BY <2>1, <2>2
  <1> QED
    BY <1>1, <1>2, CopiesInvariant, PTL DEF Spec

(* A turn is consecutive segments of one speaker.                           *)
THEOREM TurnsAreOneSpeakers == Spec => []TurnIsOneSpeaker
  <1>1. Init => TurnsInv
    BY FreshTurns, EmptyTurns DEF Init, TurnsInv
  <1>2. TypeInv /\ CopiesAreHonest /\ TurnsInv /\ [Next]_vars => TurnsInv'
    <2>1. CASE Next
      BY <2>1, NextTurns
    <2>2. CASE UNCHANGED vars
      BY <2>2 DEF vars, TurnsInv
    <2> QED
      BY <2>1, <2>2
  <1>3. TurnsInv => TurnIsOneSpeaker
    BY DEF TurnsInv, TurnsOf, TurnIsOneSpeaker
  <1> QED
    BY <1>1, <1>2, <1>3, CopiesInvariant, PTL DEF Spec

(* Every segment is spoken by a speaker of the meeting.                     *)
THEOREM SpeakersStay == Spec => []SpeakersExist
  <1>1. Init => SpeakersExist
    BY DEF Init, SpeakersExist, Fresh
  <1>2. TypeInv /\ CopiesAreHonest /\ SpeakersExist /\ [Next]_vars => SpeakersExist'
    <2>1. CASE Next
      BY <2>1, NextSpeakers
    <2>2. CASE UNCHANGED vars
      BY <2>2 DEF vars, SpeakersExist
    <2> QED
      BY <2>1, <2>2
  <1> QED
    BY <1>1, <1>2, CopiesInvariant, PTL DEF Spec

(* A clean-up keeps the text, the revision and the undo history of what was *)
(* edited while it ran.                                                     *)
THEOREM CleanUpsKeep == Spec => CleanUpKeepsEdits
  <1>1. TypeInv /\ CopiesAreHonest /\ [Next]_vars =>
          (CleansUp => \A n \in DOMAIN segs :
             segs[n].source = "edited" /\ (n \notin Fillers \/ snap[n].source = "edited") =>
               /\ n \in DOMAIN segs'
               /\ segs'[n].text = segs[n].text /\ segs'[n].source = "edited" /\ segs'[n].rev = segs[n].rev
               /\ \A r \in revs : r.seg = n => r \in revs')
    BY OnlyCleanUpCleans, CleanUpKeeps
  <1> QED
    BY <1>1, CopiesInvariant, PTL DEF Spec, CleanUpKeepsEdits

(* While no revision is pruned, an undo gives every segment its edit        *)
(* changed what it had before, or does nothing.                             *)
THEOREM UndosAreWhole == MaxCalls <= Keep => (Spec => UndoIsWhole)
  <1> SUFFICES ASSUME MaxCalls <= Keep
               PROVE  Spec => UndoIsWhole
    OBVIOUS
  <1>1. TypeInv /\ CopiesAreHonest /\ RowsAreWhole /\ [Next]_vars => RowsAreWhole'
    <2>1. CASE Next
      BY <2>1, NextRows
    <2>2. CASE UNCHANGED vars
      BY <2>2 DEF vars, RowsAreWhole
    <2> QED
      BY <2>1, <2>2
  <1>2. TypeInv /\ RowsAreWhole /\ [Next]_vars =>
          \A r \in revs :
            ~r.reverted /\ [r EXCEPT !.reverted = TRUE] \in revs' =>
              \A n \in (DOMAIN edits[r.group] \cap DOMAIN segs') \ reborn :
                <<segs'[n].text, segs'[n].source>> = edits[r.group][n]
    BY OnlyUndoReverts, UndoTakesWhole
  <1> QED
    BY <1>1, <1>2, InitRows, CopiesInvariant, PTL DEF Spec, UndoIsWhole

=============================================================================
