------------------- MODULE IntegrationConnection_proofs -------------------
(***************************************************************************)
(* Proofs about IntegrationConnection, for every number of callers, grants *)
(* and refreshes and every bound on the faults: types; that two calls with *)
(* one refresh token are never under way; that the status is true to the   *)
(* stored token; and that a disconnect leaves nothing good at the service. *)
(***************************************************************************)
EXTENDS IntegrationConnection, TLAPS

(* A caller that bears a token of the generation it refreshes, one of them  *)
(* that holds the lease of that generation if nothing was slow, and one     *)
(* that carries what the service gave and nobody stored yet.                *)
Holds(c) == caller[c].at \in Holding
Carries(c) == caller[c].at \in {"write", "discard"}
Bears(c) == Holds(c) \/ At(c, "discard")

(* A revoked row, and no other, has no token; one that is about to expire   *)
(* has a refresh left within the bound.                                     *)
RowKnown ==
  /\ row.st = "revoked" <=> row.token = NoToken
  /\ ~row.fresh => row.token # NoToken /\ row.token[2] <= MaxRefreshes
  /\ leaver.at = "idle" <=> row.st # "revoked"
  /\ leaver.at # "idle" => leaver.token # NoToken

(* A caller on its way has a token, and generations grow: the one it loaded *)
(* is no later than the one it refreshes, nor that than the row's.          *)
CallerKnown ==
  \A c \in Callers :
    /\ Bears(c) \/ At(c, "use") => caller[c].token # NoToken
    /\ At(c, "call") => caller[c].token[2] <= MaxRefreshes
    /\ caller[c].loaded <= row.gen /\ caller[c].gen <= row.gen
    /\ Bears(c) \/ At(c, "lease") \/ At(c, "flag") => caller[c].loaded <= caller[c].gen

TypeInv == TypeOK /\ RowKnown /\ CallerKnown

-----------------------------------------------------------------------------
(* Tokens.                                                                  *)

(* A token that is not null is a pair of a grant and a number.              *)
LEMMA TokenPair ==
  ASSUME NEW t \in Tokens, t # NoToken
  PROVE  /\ t \in Grants \X (1..(MaxRefreshes + 1))
         /\ t[1] \in Grants /\ t[1] \in Nat
         /\ t[2] \in 1..(MaxRefreshes + 1) /\ t[2] \in Nat /\ t[2] > 0
         /\ t = <<t[1], t[2]>>
  BY ConnectionAssumption DEF Tokens, Grants

(* The pairs of a grant and a number are tokens, not null.                  *)
LEMMA PairToken ==
  ASSUME NEW g \in Grants, NEW n \in 1..(MaxRefreshes + 1)
  PROVE  <<g, n>> \in Tokens /\ <<g, n>> # NoToken
  <1>1. <<g, n>> \in Nat \X Nat
    BY ConnectionAssumption DEF Grants
  <1> QED
    BY <1>1, ConnectionAssumption DEF Tokens, Grants

(* What the service gives for a token is the next of its grant.             *)
LEMMA NextToken ==
  ASSUME NEW t \in Tokens, t # NoToken, t[2] <= MaxRefreshes
  PROVE  /\ Got(t) \in Tokens /\ Got(t) # NoToken
         /\ Got(t)[1] = t[1] /\ Got(t)[2] = t[2] + 1
  <1>1. t[1] \in Grants /\ t[2] \in Nat /\ t[2] > 0
    BY TokenPair
  <1>2. t[2] + 1 \in 1..(MaxRefreshes + 1)
    BY <1>1, ConnectionAssumption
  <1>3. <<t[1], t[2] + 1>> \in Tokens /\ <<t[1], t[2] + 1>> # NoToken
    BY <1>1, <1>2, PairToken
  <1> QED
    BY <1>3 DEF Got

(* A token used is followed by the next; the other grants are left alone.   *)
LEMMA RotateStep ==
  ASSUME TypeOK, NEW t \in Tokens, t # NoToken, t[2] <= MaxRefreshes, Rotate(t)
  PROVE  /\ current' \in [Grants -> 0..(MaxRefreshes + 1)]
         /\ current'[t[1]] = t[2] + 1
         /\ \A g \in Grants : g # t[1] => current'[g] = current[g]
  <1>1. t[1] \in Grants /\ t[2] \in Nat /\ t[2] > 0
    BY TokenPair
  <1>2. t[2] + 1 \in 0..(MaxRefreshes + 1)
    BY <1>1, ConnectionAssumption
  <1> QED
    BY <1>1, <1>2 DEF TypeOK, Rotate

(* A revocation ends grants, among them that of a good token, and of no     *)
(* other when the service revokes one at a time.                            *)
LEMMA RevokeStep ==
  ASSUME TypeOK, NEW t \in Tokens, Revoke(t)
  PROVE  /\ current' \in [Grants -> 0..(MaxRefreshes + 1)]
         /\ \A g \in Grants : current'[g] \in {0, current[g]}
         /\ Good(t) /\ t[1] \in Grants => current'[t[1]] = 0
         /\ ~Wide => \A g \in Grants : g # t[1] => current'[g] = current[g]
  BY ConnectionAssumption DEF TypeOK, Revoke

(* Steps of a caller change nothing of another.                             *)
LEMMA GotoStep ==
  ASSUME TypeOK, NEW c \in Callers, NEW place \in Places, Goto(c, place)
  PROVE  /\ caller' \in [Callers -> Caller]
         /\ caller'[c].at = place /\ caller'[c].loaded = caller[c].loaded
         /\ caller'[c].gen = caller[c].gen /\ caller'[c].token = caller[c].token
         /\ \A d \in Callers : d # c => caller'[d] = caller[d]
  BY DEF TypeOK, Goto, Caller

LEMMA ReturnStep ==
  ASSUME TypeOK, NEW c \in Callers, Return(c)
  PROVE  /\ caller' \in [Callers -> Caller]
         /\ caller'[c].at = "idle" /\ caller'[c].loaded = 0 /\ caller'[c].gen = 0
         /\ \A d \in Callers : d # c => caller'[d] = caller[d]
  <1>1. Idle \in Caller
    BY DEF Idle, Caller, Places, Tokens
  <1> QED
    BY <1>1 DEF TypeOK, Return, Idle

(* The faults stay counted, and none is forgotten.                          *)
LEMMA FaultStep ==
  ASSUME TypeOK, NEW kind, Fault(kind)
  PROVE  /\ accidents' \subseteq Faults /\ faults' \in 0..MaxFaults
         /\ accidents \subseteq accidents' /\ kind \in accidents'
  BY ConnectionAssumption DEF TypeOK, Fault

(* Tokens given back end their grant, where the provider can revoke and     *)
(* nothing goes wrong, or nothing; grants of others only if it is Wide.     *)
LEMMA GiveBackStep ==
  ASSUME TypeOK, NEW t \in Tokens, GiveBack(t)
  PROVE  /\ current' \in [Grants -> 0..(MaxRefreshes + 1)]
         /\ \A g \in Grants : current'[g] \in {0, current[g]}
         /\ ~Wide => \A g \in Grants : g # t[1] => current'[g] = current[g]
         /\ accidents' \subseteq Faults /\ faults' \in 0..MaxFaults
         /\ accidents \subseteq accidents'
         /\ accidents' \subseteq accidents \cup {"unrevoked"}
         /\ revokes => (Revoke(t) /\ NoFault) \/ Fault("unrevoked")
  <1>1. CASE Revoke(t) /\ NoFault
    BY <1>1, RevokeStep DEF TypeOK, NoFault
  <1>2. CASE Fault("unrevoked") /\ UNCHANGED current
    <2>1. accidents' = accidents \cup {"unrevoked"}
      BY <1>2 DEF Fault
    <2> QED
      BY <1>2, <2>1, FaultStep DEF TypeOK
  <1>3. CASE ~revokes /\ UNCHANGED current /\ NoFault
    BY <1>3 DEF TypeOK, NoFault
  <1> QED
    BY <1>1, <1>2, <1>3 DEF GiveBack

-----------------------------------------------------------------------------
(* What each action does, field by field.                                   *)

(* Only this caller moves; it moves and keeps what it knows; it returns.    *)
Only(c) ==
  /\ caller' \in [Callers -> Caller]
  /\ \A d \in Callers : d # c => caller'[d] = caller[d]

Keeps(c) ==
  /\ Only(c)
  /\ caller'[c].loaded = caller[c].loaded /\ caller'[c].gen = caller[c].gen
  /\ caller'[c].token = caller[c].token

Goes(c, place) == Keeps(c) /\ caller'[c].at = place

Returns(c) ==
  /\ Only(c)
  /\ caller'[c].at = "idle" /\ caller'[c].loaded = 0 /\ caller'[c].gen = 0

(* The row keeps all but its lease, or all but its lease and status.        *)
RowStays ==
  /\ row' \in Row /\ row'.st = row.st
  /\ row'.gen = row.gen /\ row'.token = row.token /\ row'.fresh = row.fresh

(* The lease is given back by who has the generation, or stays.             *)
Released(c) ==
  /\ RowStays
  /\ row'.lease = row.lease \/ (row'.lease = "none" /\ Same(caller[c].gen))

(* The status becomes needs_reauth if the generation is still this one.     *)
Flagged(gen) ==
  /\ row' \in Row
  /\ row'.gen = row.gen /\ row'.token = row.token /\ row'.fresh = row.fresh
  /\ row'.lease = row.lease
  /\ IF Same(gen) THEN row'.st = "needs_reauth" ELSE row'.st = row.st

Faulted(kind) == kind \in accidents' /\ accidents \subseteq accidents'

Quiet == UNCHANGED <<row, current, revokes, leaver, accidents, faults>>

LEMMA GoesByGoto ==
  ASSUME TypeOK, NEW c \in Callers, NEW place \in Places, Goto(c, place)
  PROVE  Goes(c, place)
  BY GotoStep DEF Goes, Keeps, Only

LEMMA ReturnsByReturn ==
  ASSUME TypeOK, NEW c \in Callers, Return(c)
  PROVE  Returns(c)
  BY ReturnStep DEF Returns, Only

LEMMA PlacesThere ==
  /\ "idle" \in Places /\ "read" \in Places /\ "lease" \in Places /\ "free" \in Places
  /\ "call" \in Places /\ "write" \in Places /\ "discard" \in Places /\ "failed" \in Places
  /\ "refused" \in Places /\ "flag" \in Places /\ "use" \in Places /\ "blame" \in Places
  BY DEF Places

LEMMA StartEffect ==
  ASSUME TypeInv, NEW c \in Callers, Start(c)
  PROVE  /\ Quiet /\ At(c, "idle") /\ row.st = "active" /\ Only(c)
         /\ caller'[c].at = "read" /\ caller'[c].loaded = row.gen /\ caller'[c].gen = 0
  <1>1. TypeOK
    BY DEF TypeInv
  <1>2. [Idle EXCEPT !.at = "read", !.loaded = row.gen] \in Caller
    BY <1>1, PlacesThere DEF Idle, Caller, Tokens, TypeOK, Row
  <1> QED
    BY <1>1, <1>2 DEF Start, Quiet, Only, TypeOK, Idle

LEMMA ReadEffect ==
  ASSUME TypeInv, NEW c \in Callers, Read(c)
  PROVE  /\ Quiet /\ At(c, "read") /\ Only(c)
         /\ \/ Returns(c)
            \/ /\ row.st = "active" /\ caller'[c].at = "use" /\ caller'[c].token = row.token
               /\ caller'[c].loaded = caller[c].loaded /\ caller'[c].gen = caller[c].gen
            \/ /\ row.st = "active" /\ ~row.fresh /\ caller'[c].at = "lease"
               /\ caller'[c].gen = row.gen /\ caller'[c].loaded = caller[c].loaded
               /\ caller'[c].token = caller[c].token
  <1>1. TypeOK
    BY DEF TypeInv
  <1>2. Quiet /\ At(c, "read")
    BY DEF Read, Quiet
  <1>3. CASE Return(c)
    BY <1>1, <1>2, <1>3, ReturnsByReturn DEF Returns
  <1>4. CASE /\ row.st = "active"
             /\ caller' = [caller EXCEPT ![c].at = "use", ![c].token = row.token]
    BY <1>1, <1>2, <1>4, PlacesThere DEF TypeOK, Row, Caller, Only
  <1>5. CASE /\ row.st = "active" /\ ~row.fresh
             /\ caller' = [caller EXCEPT ![c].at = "lease", ![c].gen = row.gen]
    BY <1>1, <1>2, <1>5, PlacesThere DEF TypeOK, Row, Caller, Only
  <1> QED
    BY <1>3, <1>4, <1>5 DEF Read

LEMMA LeaseEffect ==
  ASSUME TypeInv, NEW c \in Callers, Lease(c)
  PROVE  /\ UNCHANGED <<current, revokes, leaver, accidents, faults>> /\ At(c, "lease") /\ Only(c)
         /\ \/ /\ Same(caller[c].gen) /\ LeaseFree /\ RowStays /\ row'.lease = "live"
               /\ caller'[c].at = IF row.fresh THEN "free" ELSE "call"
               /\ caller'[c].token = row.token
               /\ caller'[c].loaded = caller[c].loaded /\ caller'[c].gen = caller[c].gen
            \/ Goes(c, "read") /\ UNCHANGED row
  <1>1. TypeOK
    BY DEF TypeInv
  <1>2. UNCHANGED <<current, revokes, leaver, accidents, faults>> /\ At(c, "lease")
    BY DEF Lease
  <1>3. CASE /\ ~Missed(c) /\ row' = [row EXCEPT !.lease = "live"]
             /\ caller' = [caller EXCEPT ![c].at = IF row.fresh THEN "free" ELSE "call",
                                         ![c].token = row.token]
    <2>1. Same(caller[c].gen) /\ LeaseFree
      BY <1>3 DEF Missed
    <2>2. RowStays /\ row'.lease = "live"
      BY <1>1, <1>3 DEF TypeOK, Row, RowStays
    <2>3. row.token \in Tokens /\ (IF row.fresh THEN "free" ELSE "call") \in Places
      BY <1>1, PlacesThere DEF TypeOK, Row
    <2> QED
      BY <1>1, <1>2, <1>3, <2>1, <2>2, <2>3 DEF TypeOK, Caller, Only
  <1>4. CASE Goto(c, "read") /\ UNCHANGED row
    BY <1>1, <1>2, <1>4, GoesByGoto, PlacesThere DEF Goes, Keeps
  <1> QED
    BY <1>3, <1>4 DEF Lease

LEMMA ReleaseEffect ==
  ASSUME TypeInv, NEW c \in Callers, Release(c)
  PROVE  Released(c) /\ accidents \subseteq accidents' /\ (NoFault \/ Faulted("write"))
         /\ accidents' \subseteq Faults /\ faults' \in 0..MaxFaults
  <1>1. TypeOK
    BY DEF TypeInv
  <1>2. CASE Set(caller[c].gen, [row EXCEPT !.lease = "none"]) /\ NoFault
    BY <1>1, <1>2 DEF Set, TypeOK, Row, Released, RowStays, NoFault
  <1>3. CASE Fault("write") /\ UNCHANGED row
    BY <1>1, <1>3, FaultStep DEF TypeOK, Row, Released, RowStays, Faulted
  <1> QED
    BY <1>2, <1>3 DEF Release

LEMMA FlagEffect ==
  ASSUME TypeInv, NEW gen, Set(gen, [row EXCEPT !.st = "needs_reauth"])
  PROVE  Flagged(gen)
  BY DEF TypeInv, TypeOK, Row, Set, Flagged, Same

LEMMA CallEffect ==
  ASSUME TypeInv, NEW c \in Callers, Call(c)
  PROVE  /\ UNCHANGED <<row, revokes, leaver>> /\ At(c, "call") /\ Only(c)
         /\ \/ /\ NoFault /\ Good(caller[c].token) /\ Rotate(caller[c].token)
               /\ caller'[c].at = "write" /\ caller'[c].token = Got(caller[c].token)
               /\ caller'[c].loaded = caller[c].loaded /\ caller'[c].gen = caller[c].gen
            \/ ~Good(caller[c].token) /\ Goes(c, "refused") /\ UNCHANGED current /\ NoFault
            \/ /\ Fault("lost") /\ Goes(c, "failed")
               /\ UNCHANGED current \/ (Good(caller[c].token) /\ Rotate(caller[c].token))
  <1> DEFINE t == caller[c].token
  <1>1. TypeOK /\ UNCHANGED <<row, revokes, leaver>> /\ At(c, "call")
    BY DEF TypeInv, Call
  <1>2. CASE /\ Good(t) /\ Rotate(t) /\ NoFault
             /\ caller' = [caller EXCEPT ![c].at = "write", ![c].token = Got(t)]
    <2>1. Got(t) \in Tokens
      BY <1>1, NextToken DEF TypeInv, TypeOK, Caller, CallerKnown, Bears, Holds, Holding, At
    <2> QED
      BY <1>1, <1>2, <2>1, PlacesThere DEF TypeOK, Caller, Only
  <1>3. CASE ~Good(t) /\ Goto(c, "refused") /\ UNCHANGED current /\ NoFault
    BY <1>1, <1>3, GoesByGoto, PlacesThere DEF Goes, Keeps
  <1>4. CASE /\ Fault("lost") /\ Goto(c, "failed")
             /\ UNCHANGED current \/ (Good(t) /\ Rotate(t))
    BY <1>1, <1>4, GoesByGoto, PlacesThere DEF Goes, Keeps
  <1> QED
    BY <1>2, <1>3, <1>4 DEF Call

LEMMA WriteEffect ==
  ASSUME TypeInv, NEW c \in Callers, Write(c)
  PROVE  /\ UNCHANGED <<current, revokes, leaver>> /\ At(c, "write") /\ Only(c)
         /\ \/ /\ NoFault /\ Same(caller[c].gen) /\ Goes(c, "use") /\ row' \in Row
               /\ row'.st = row.st /\ row'.gen = row.gen /\ row'.token = caller[c].token
               /\ row'.fresh = TRUE /\ row'.lease = "none"
            \/ NoFault /\ ~Same(caller[c].gen) /\ Goes(c, "discard") /\ UNCHANGED row
            \/ Fault("write") /\ Returns(c) /\ UNCHANGED row
  <1>1. TypeOK /\ UNCHANGED <<current, revokes, leaver>> /\ At(c, "write")
    BY DEF TypeInv, Write
  <1>2. CASE /\ NoFault /\ Same(caller[c].gen) /\ Goto(c, "use")
             /\ row' = [row EXCEPT !.token = caller[c].token, !.fresh = TRUE, !.lease = "none"]
    <2>1. Goes(c, "use") /\ Only(c)
      BY <1>1, <1>2, GoesByGoto, PlacesThere DEF Goes, Keeps
    <2>2. caller[c].token \in Tokens
      BY <1>1 DEF TypeOK, Caller
    <2> QED
      BY <1>1, <1>2, <2>1, <2>2 DEF TypeOK, Row
  <1>3. CASE NoFault /\ ~Same(caller[c].gen) /\ Goto(c, "discard") /\ UNCHANGED row
    BY <1>1, <1>3, GoesByGoto, PlacesThere DEF Goes, Keeps
  <1>4. CASE Fault("write") /\ Return(c) /\ UNCHANGED row
    BY <1>1, <1>4, ReturnsByReturn DEF Returns
  <1> QED
    BY <1>2, <1>3, <1>4 DEF Write

-----------------------------------------------------------------------------
(* Types.                                                                   *)

LEMMA TypeInit == Init => TypeInv
  <1> SUFFICES ASSUME Init PROVE TypeInv
    OBVIOUS
  <1>1. 1 \in Grants /\ 1 \in 1..(MaxRefreshes + 1)
    BY ConnectionAssumption DEF Grants
  <1>2. <<1, 1>> \in Tokens /\ <<1, 1>> # NoToken
    BY <1>1, PairToken
  <1>3. NoToken \in Tokens
    BY DEF Tokens
  <1>4. Idle \in Caller
    BY <1>3, PlacesThere DEF Idle, Caller
  <1>5. TypeOK
    BY <1>1, <1>2, <1>3, <1>4, ConnectionAssumption DEF Init, TypeOK, Row
  <1>6. RowKnown
    BY <1>2 DEF Init, RowKnown
  <1>7. CallerKnown
    BY DEF Init, CallerKnown, Idle, Bears, Holds, Holding, At
  <1> QED
    BY <1>5, <1>6, <1>7 DEF TypeInv

(* The facts about one caller, from which CallerKnown is put together.      *)
CallerFact(c) ==
  /\ Bears(c) \/ At(c, "use") => caller[c].token # NoToken
  /\ At(c, "call") => caller[c].token[2] <= MaxRefreshes
  /\ caller[c].loaded <= row.gen /\ caller[c].gen <= row.gen
  /\ Bears(c) \/ At(c, "lease") \/ At(c, "flag") => caller[c].loaded <= caller[c].gen

(* A caller that did not move still has its facts: generations only grow.   *)
LEMMA OthersKnown ==
  ASSUME TypeInv, NEW c \in Callers, Only(c), row' \in Row, row'.gen >= row.gen,
         CallerFact(c)'
  PROVE  CallerKnown'
  <1> SUFFICES ASSUME NEW d \in Callers PROVE CallerFact(d)'
    BY DEF CallerKnown, CallerFact
  <1>1. CASE d = c
    BY <1>1
  <1>2. CASE d # c
    <2>1. CallerFact(d) /\ caller'[d] = caller[d] /\ caller[d] \in Caller
      BY <1>2 DEF TypeInv, TypeOK, CallerKnown, CallerFact, Only
    <2> QED
      BY <2>1 DEF TypeInv, TypeOK, Row, Caller, CallerFact, Bears, Holds, At
  <1> QED
    BY <1>1, <1>2

(* Nobody moved.                                                            *)
LEMMA NobodyMoved ==
  ASSUME TypeInv, UNCHANGED caller, row' \in Row, row'.gen >= row.gen
  PROVE  CallerKnown'
  BY DEF TypeInv, TypeOK, Row, Caller, CallerKnown, Bears, Holds, At

LEMMA StartTyped ==
  ASSUME TypeInv, NEW c \in Callers, Start(c)
  PROVE  TypeInv'
  <1>1. TypeOK'
    BY StartEffect DEF TypeInv, TypeOK, Quiet, Only
  <1>2. RowKnown'
    BY StartEffect DEF TypeInv, RowKnown, Quiet
  <1>3. CallerFact(c)'
    BY StartEffect DEF TypeInv, TypeOK, Row, CallerFact, Bears, Holds, Holding, At, Quiet
  <1>4. CallerKnown'
    BY <1>3, StartEffect, OthersKnown DEF TypeInv, TypeOK, Row, Quiet
  <1> QED
    BY <1>1, <1>2, <1>4 DEF TypeInv

LEMMA ReadTyped ==
  ASSUME TypeInv, NEW c \in Callers, Read(c)
  PROVE  TypeInv'
  <1>1. TypeOK'
    BY ReadEffect DEF TypeInv, TypeOK, Quiet, Only
  <1>2. RowKnown'
    BY ReadEffect DEF TypeInv, RowKnown, Quiet
  <1>3. CallerFact(c)'
    BY ReadEffect DEF TypeInv, TypeOK, Row, Caller, RowKnown, CallerKnown, CallerFact, Returns,
                      Bears, Holds, Holding, At, Quiet
  <1>4. CallerKnown'
    BY <1>3, ReadEffect, OthersKnown DEF TypeInv, TypeOK, Row, Quiet
  <1> QED
    BY <1>1, <1>2, <1>4 DEF TypeInv

LEMMA LeaseTyped ==
  ASSUME TypeInv, NEW c \in Callers, Lease(c)
  PROVE  TypeInv'
  <1>1. row' \in Row /\ row'.gen = row.gen
    BY LeaseEffect DEF TypeInv, TypeOK, RowStays
  <1>2. TypeOK'
    BY <1>1, LeaseEffect DEF TypeInv, TypeOK, Only
  <1>3. RowKnown'
    BY LeaseEffect DEF TypeInv, RowKnown, RowStays
  <1>4. CallerFact(c)'
    BY <1>1, LeaseEffect DEF TypeInv, TypeOK, Row, Caller, RowKnown, CallerKnown, CallerFact,
       Goes, Keeps, Same, Bears, Holds, Holding, At
  <1>5. CallerKnown'
    BY <1>1, <1>4, LeaseEffect, OthersKnown DEF TypeInv, TypeOK, Row
  <1> QED
    BY <1>2, <1>3, <1>5 DEF TypeInv

(* A caller that returns is idle, with nothing loaded.                      *)
LEMMA ReturnedFact ==
  ASSUME TypeInv, NEW c \in Callers, Returns(c), row' \in Row
  PROVE  CallerFact(c)'
  BY DEF TypeInv, TypeOK, Row, Returns, CallerFact, Bears, Holds, Holding, At

LEMMA GiveUpTyped ==
  ASSUME TypeInv, NEW c \in Callers, GiveUp(c)
  PROVE  TypeInv'
  <1>1. Returns(c) /\ Quiet
    BY ReturnsByReturn DEF TypeInv, GiveUp, Quiet
  <1>2. TypeOK' /\ RowKnown'
    BY <1>1 DEF TypeInv, TypeOK, RowKnown, Returns, Only, Quiet
  <1>3. CallerKnown'
    BY <1>1, <1>2, ReturnedFact, OthersKnown DEF TypeInv, TypeOK, Row, Returns, Quiet
  <1> QED
    BY <1>2, <1>3 DEF TypeInv

(* A step that gives the lease back and goes on, or returns.                *)
LEMMA ReleaseTyped ==
  ASSUME TypeInv, NEW c \in Callers, Release(c), UNCHANGED <<current, revokes, leaver>>,
         CallerFact(c)', Only(c)
  PROVE  TypeInv'
  <1>1. Released(c) /\ accidents' \subseteq Faults /\ faults' \in 0..MaxFaults
    BY ReleaseEffect
  <1>2. TypeOK'
    BY <1>1 DEF TypeInv, TypeOK, Released, RowStays, Only
  <1>3. RowKnown'
    BY <1>1 DEF TypeInv, RowKnown, Released, RowStays
  <1>4. CallerKnown'
    BY <1>1, OthersKnown DEF TypeInv, TypeOK, Row, Released, RowStays
  <1> QED
    BY <1>2, <1>3, <1>4 DEF TypeInv

LEMMA FreeTyped ==
  ASSUME TypeInv, NEW c \in Callers, Free(c)
  PROVE  TypeInv'
  <1>1. Goes(c, "use") /\ Release(c) /\ At(c, "free")
    BY GoesByGoto, PlacesThere DEF TypeInv, Free
  <1>2. CallerFact(c)'
    BY <1>1, ReleaseEffect DEF TypeInv, CallerKnown, CallerFact, Goes, Keeps, Released,
       RowStays, Bears, Holds, Holding, At
  <1> QED
    BY <1>1, <1>2, ReleaseTyped DEF Free, Goes, Keeps

LEMMA CallTyped ==
  ASSUME TypeInv, NEW c \in Callers, Call(c)
  PROVE  TypeInv'
  <1> DEFINE t == caller[c].token
  <1>1. t \in Tokens /\ t # NoToken /\ t[2] <= MaxRefreshes
    BY CallEffect DEF TypeInv, TypeOK, Caller, CallerKnown, Bears, Holds, Holding, At
  <1>2. Rotate(t) => current' \in [Grants -> 0..(MaxRefreshes + 1)]
    BY <1>1, RotateStep DEF TypeInv
  <1>3. accidents' \subseteq Faults /\ faults' \in 0..MaxFaults
    BY CallEffect, FaultStep DEF TypeInv, TypeOK, NoFault
  <1>4. TypeOK'
    BY <1>2, <1>3, CallEffect DEF TypeInv, TypeOK, Only
  <1>5. RowKnown'
    BY CallEffect DEF TypeInv, RowKnown
  <1>6. CallerFact(c)'
    <2>1. Got(t) # NoToken
      BY <1>1, NextToken
    <2> QED
      BY <1>1, <2>1, CallEffect DEF TypeInv, CallerKnown, CallerFact, Goes, Keeps, Bears, Holds,
         Holding, At
  <1>7. CallerKnown'
    BY <1>6, CallEffect, OthersKnown DEF TypeInv, TypeOK, Row
  <1> QED
    BY <1>4, <1>5, <1>7 DEF TypeInv

LEMMA WriteTyped ==
  ASSUME TypeInv, NEW c \in Callers, Write(c)
  PROVE  TypeInv'
  <1>1. row' \in Row /\ row'.gen = row.gen
    BY WriteEffect DEF TypeInv, TypeOK
  <1>2. accidents' \subseteq Faults /\ faults' \in 0..MaxFaults
    BY WriteEffect, FaultStep DEF TypeInv, TypeOK, NoFault
  <1>3. TypeOK'
    BY <1>1, <1>2, WriteEffect DEF TypeInv, TypeOK, Only
  <1>4. RowKnown'
    BY WriteEffect DEF TypeInv, RowKnown, CallerKnown, Same, Bears, Holds, Holding, At
  <1>5. CallerFact(c)'
    BY <1>1, WriteEffect, ReturnedFact DEF TypeInv, CallerKnown, CallerFact, Goes, Keeps, Bears,
       Holds, Holding, At
  <1>6. Only(c) /\ row'.gen >= row.gen
    <2>1. Only(c)
      BY WriteEffect
    <2>2. row.gen \in Nat
      BY DEF TypeInv, TypeOK, Row
    <2> QED
      BY <1>1, <2>1, <2>2
  <1>7. CallerKnown'
    BY <1>1, <1>5, <1>6, OthersKnown
  <1> QED
    BY <1>3, <1>4, <1>7 DEF TypeInv

LEMMA DiscardTyped ==
  ASSUME TypeInv, NEW c \in Callers, Discard(c)
  PROVE  TypeInv'
  <1>1. Returns(c) /\ UNCHANGED <<row, revokes, leaver>>
    BY ReturnsByReturn DEF TypeInv, Discard
  <1>2. accidents' \subseteq Faults /\ faults' \in 0..MaxFaults
    BY GiveBackStep DEF TypeInv, TypeOK, Caller, Discard
  <1>3. current' \in [Grants -> 0..(MaxRefreshes + 1)]
    BY GiveBackStep DEF TypeInv, TypeOK, Caller, Discard
  <1>4. TypeOK' /\ RowKnown'
    BY <1>1, <1>2, <1>3 DEF TypeInv, TypeOK, RowKnown, Returns, Only
  <1>5. CallerKnown'
    BY <1>1, <1>4, ReturnedFact, OthersKnown DEF TypeInv, TypeOK, Row, Returns
  <1> QED
    BY <1>4, <1>5 DEF TypeInv

LEMMA FailedTyped ==
  ASSUME TypeInv, NEW c \in Callers, Failed(c)
  PROVE  TypeInv'
  <1>1. Returns(c) /\ Release(c)
    BY ReturnsByReturn DEF TypeInv, Failed
  <1>2. CallerFact(c)'
    BY <1>1, ReleaseEffect, ReturnedFact DEF Released, RowStays
  <1> QED
    BY <1>1, <1>2, ReleaseTyped DEF Failed, Returns

LEMMA RefusedTyped ==
  ASSUME TypeInv, NEW c \in Callers, Refused(c)
  PROVE  TypeInv'
  <1>1. Goes(c, "flag") /\ Release(c) /\ At(c, "refused")
    BY GoesByGoto, PlacesThere DEF TypeInv, Refused
  <1>2. CallerFact(c)'
    BY <1>1, ReleaseEffect DEF TypeInv, CallerKnown, CallerFact, Goes, Keeps, Released,
       RowStays, Bears, Holds, Holding, At
  <1> QED
    BY <1>1, <1>2, ReleaseTyped DEF Refused, Goes, Keeps

(* A step that may flag the row.                                            *)
LEMMA FlagTyped ==
  ASSUME TypeInv, NEW c \in Callers, Flag(c) \/ Blame(c)
  PROVE  TypeInv'
  <1>1. /\ Goes(c, "blame") \/ Returns(c)
        /\ UNCHANGED <<current, revokes, leaver>>
        /\ UNCHANGED row \/ \E gen \in Nat : Flagged(gen)
        /\ NoFault \/ Fault("write")
    BY GoesByGoto, ReturnsByReturn, PlacesThere, FlagEffect
       DEF TypeInv, TypeOK, Caller, Flag, Blame
  <1>2. /\ row' \in Row /\ row'.gen = row.gen /\ row'.token = row.token /\ row'.fresh = row.fresh
        /\ row'.st = row.st \/ (row.st = "active" /\ row'.st = "needs_reauth")
    BY <1>1 DEF TypeInv, TypeOK, Flagged, Same
  <1>3. accidents' \subseteq Faults /\ faults' \in 0..MaxFaults
    BY <1>1, FaultStep DEF TypeInv, TypeOK, NoFault
  <1>4. TypeOK'
    BY <1>1, <1>2, <1>3 DEF TypeInv, TypeOK, Goes, Keeps, Returns, Only
  <1>5. RowKnown'
    BY <1>1, <1>2 DEF TypeInv, RowKnown
  <1>6. CallerFact(c)'
    BY <1>1, <1>2, ReturnedFact DEF TypeInv, CallerKnown, CallerFact, Goes, Keeps, Bears,
       Holds, Holding, At
  <1>7. CallerKnown'
    BY <1>1, <1>2, <1>6, OthersKnown DEF TypeInv, TypeOK, Row, Goes, Keeps, Returns
  <1> QED
    BY <1>4, <1>5, <1>7 DEF TypeInv

LEMMA UseTyped ==
  ASSUME TypeInv, NEW c \in Callers, Use(c)
  PROVE  TypeInv'
  <1>1. (Goes(c, "blame") \/ Returns(c)) /\ Quiet
    BY GoesByGoto, ReturnsByReturn, PlacesThere DEF TypeInv, Use, Quiet
  <1>2. TypeOK' /\ RowKnown'
    BY <1>1 DEF TypeInv, TypeOK, RowKnown, Goes, Keeps, Returns, Only, Quiet
  <1>3. CallerFact(c)'
    BY <1>1, <1>2, ReturnedFact DEF TypeInv, TypeOK, CallerKnown, CallerFact, Goes, Keeps,
       Bears, Holds, Holding, At, Quiet
  <1>4. CallerKnown'
    BY <1>1, <1>2, <1>3, OthersKnown DEF TypeInv, TypeOK, Row, Goes, Keeps, Returns, Quiet
  <1> QED
    BY <1>2, <1>4 DEF TypeInv

LEMMA CrashTyped ==
  ASSUME TypeInv, NEW c \in Callers, Crash(c)
  PROVE  TypeInv'
  <1>1. Returns(c) /\ UNCHANGED <<row, revokes, leaver>>
    BY ReturnsByReturn DEF TypeInv, Crash
  <1>2. accidents' \subseteq Faults /\ faults' \in 0..MaxFaults
    BY FaultStep DEF TypeInv, Crash
  <1>3. current' \in [Grants -> 0..(MaxRefreshes + 1)]
    BY RotateStep DEF TypeInv, TypeOK, Caller, CallerKnown, Bears, Holds, Holding, At, Crash
  <1>4. TypeOK' /\ RowKnown'
    BY <1>1, <1>2, <1>3 DEF TypeInv, TypeOK, RowKnown, Returns, Only
  <1>5. CallerKnown'
    BY <1>1, <1>4, ReturnedFact, OthersKnown DEF TypeInv, TypeOK, Row, Returns
  <1> QED
    BY <1>4, <1>5 DEF TypeInv

(* Users, time and the service.                                             *)
LEMMA RowTyped ==
  ASSUME TypeInv, Reconnect \/ Disconnect \/ RevokeWiped \/ Expire \/ LeaseEnds \/ Withdraw
  PROVE  TypeInv'
  <1>1. TypeOK
    BY DEF TypeInv
  <1>2. CASE Reconnect
    <2>1. PICK g \in Grants :
            /\ row.st # "revoked" /\ current' = [current EXCEPT ![g] = 1]
            /\ row' = [st |-> "active", gen |-> NextGen, token |-> <<g, 1>>,
                       fresh |-> TRUE, lease |-> "none"]
            /\ UNCHANGED <<caller, revokes, leaver, accidents, faults>>
      BY <1>2 DEF Reconnect
    <2>2. <<g, 1>> \in Tokens /\ <<g, 1>> # NoToken
      BY PairToken, ConnectionAssumption
    <2>3. row' \in Row /\ row'.gen = row.gen + 1
      BY <1>1, <2>1, <2>2 DEF TypeOK, Row, NextGen
    <2>4. TypeOK'
      BY <1>1, <2>1, <2>3, ConnectionAssumption DEF TypeOK
    <2>5. RowKnown'
      BY <2>1, <2>2 DEF TypeInv, RowKnown
    <2> QED
      BY <1>1, <2>1, <2>3, <2>4, <2>5, NobodyMoved DEF TypeInv, TypeOK, Row
  <1>3. CASE Disconnect
    <2>1. NoToken \in Tokens /\ row.token \in Tokens
      BY <1>1 DEF Tokens, TypeOK, Row
    <2>2. row' \in Row /\ row'.gen = row.gen + 1
      BY <1>1, <1>3, <2>1 DEF Disconnect, TypeOK, Row, NextGen
    <2>3. TypeOK'
      BY <1>1, <1>3, <2>1, <2>2 DEF Disconnect, TypeOK
    <2>4. RowKnown'
      BY <1>3 DEF TypeInv, RowKnown, Disconnect
    <2> QED
      BY <1>1, <1>3, <2>2, <2>3, <2>4, NobodyMoved DEF TypeInv, TypeOK, Row, Disconnect
  <1>4. CASE RevokeWiped
    <2>1. UNCHANGED <<row, revokes, caller>> /\ leaver.at = "revoke" /\ leaver' = [leaver EXCEPT !.at = "done"]
      BY <1>4 DEF RevokeWiped
    <2>2. current' \in [Grants -> 0..(MaxRefreshes + 1)]
      BY <1>1, <1>4, GiveBackStep DEF RevokeWiped, TypeOK
    <2>3. accidents' \subseteq Faults /\ faults' \in 0..MaxFaults
      BY <1>1, <1>4, GiveBackStep DEF RevokeWiped, TypeOK
    <2>4. TypeOK'
      BY <1>1, <2>1, <2>2, <2>3 DEF TypeOK
    <2>5. RowKnown'
      BY <1>1, <2>1 DEF TypeInv, TypeOK, RowKnown
    <2> QED
      BY <1>1, <2>1, <2>4, <2>5, NobodyMoved DEF TypeInv, TypeOK, Row
  <1>5. CASE Expire
    <2>1. row' \in Row /\ row'.gen = row.gen
      BY <1>1, <1>5 DEF Expire, TypeOK, Row
    <2>2. TypeOK' /\ UNCHANGED caller
      BY <1>1, <1>5, <2>1 DEF Expire, TypeOK
    <2>3. RowKnown'
      BY <1>1, <1>5 DEF TypeInv, TypeOK, Row, RowKnown, Expire
    <2> QED
      BY <1>1, <2>1, <2>2, <2>3, NobodyMoved DEF TypeInv, TypeOK, Row
  <1>6. CASE LeaseEnds
    <2>1. row' \in Row /\ row'.gen = row.gen /\ UNCHANGED <<current, caller, revokes, leaver>>
      BY <1>1, <1>6 DEF LeaseEnds, TypeOK, Row
    <2>2. accidents' \subseteq Faults /\ faults' \in 0..MaxFaults
      BY <1>1, <1>6, FaultStep DEF LeaseEnds, NoFault, TypeOK
    <2>3. TypeOK'
      BY <1>1, <2>1, <2>2 DEF TypeOK
    <2>4. RowKnown'
      BY <1>1, <1>6 DEF TypeInv, TypeOK, Row, RowKnown, LeaseEnds
    <2> QED
      BY <1>1, <2>1, <2>3, <2>4, NobodyMoved DEF TypeInv, TypeOK, Row
  <1>7. CASE Withdraw
    <2>1. UNCHANGED <<row, caller, revokes, leaver>> /\ current' \in [Grants -> 0..(MaxRefreshes + 1)]
      BY <1>1, <1>7, ConnectionAssumption DEF Withdraw, TypeOK
    <2>2. TypeOK'
      BY <1>1, <1>7, <2>1, FaultStep DEF Withdraw, TypeOK
    <2>3. RowKnown'
      BY <2>1 DEF TypeInv, RowKnown
    <2> QED
      BY <1>1, <2>1, <2>2, <2>3, NobodyMoved DEF TypeInv, TypeOK, Row
  <1> QED
    BY <1>2, <1>3, <1>4, <1>5, <1>6, <1>7

LEMMA TypeStep == TypeInv /\ [Next]_vars => TypeInv'
  <1> SUFFICES ASSUME TypeInv, [Next]_vars PROVE TypeInv'
    OBVIOUS
  <1>1. ASSUME NEW c \in Callers, Start(c) \/ Step(c) \/ GiveUp(c) \/ Crash(c)
        PROVE  TypeInv'
    BY <1>1, StartTyped, ReadTyped, LeaseTyped, FreeTyped, CallTyped, WriteTyped, DiscardTyped,
       FailedTyped, RefusedTyped, FlagTyped, UseTyped, GiveUpTyped, CrashTyped DEF Step
  <1>2. CASE UNCHANGED vars
    BY <1>2 DEF vars, TypeInv, TypeOK, RowKnown, CallerKnown, Bears, Holds, At
  <1> QED
    BY <1>1, <1>2, RowTyped DEF Next

(* The variables keep their types, and callers what they know.              *)
THEOREM TypeCorrect == Spec => []TypeInv
  <1> QED
    BY TypeInit, TypeStep, PTL DEF Spec

-----------------------------------------------------------------------------
(* Generations and grants.  The tokens of a generation are of one grant: a  *)
(* reconnect starts the next of both, a disconnect leaves none to start     *)
(* with.                                                                    *)
GrantFact(c) ==
  /\ Bears(c) /\ row.token # NoToken =>
       IF caller[c].gen = row.gen THEN caller[c].token[1] = row.token[1]
                                  ELSE caller[c].token[1] < row.token[1]
  /\ At(c, "use") /\ caller[c].loaded = row.gen /\ row.token # NoToken =>
       caller[c].token[1] = row.token[1]

OneGeneration(c, d) ==
  Bears(c) /\ Bears(d) /\ caller[c].token[1] = caller[d].token[1] =>
    caller[c].gen = caller[d].gen

GrantInv ==
  /\ \A c \in Callers : GrantFact(c)
  /\ \A c, d \in Callers : OneGeneration(c, d)

(* What the types say of one caller's token, and of the row's.              *)
LEMMA CallerToken ==
  ASSUME TypeInv, NEW c \in Callers, Bears(c) \/ At(c, "use")
  PROVE  /\ caller[c].token \in Tokens /\ caller[c].token # NoToken
         /\ caller[c].token[1] \in Grants /\ caller[c].token[1] \in Nat
         /\ caller[c].token[2] \in Nat /\ caller[c].token[2] > 0
         /\ caller[c].token = <<caller[c].token[1], caller[c].token[2]>>
  <1>1. caller[c].token \in Tokens /\ caller[c].token # NoToken
    BY DEF TypeInv, TypeOK, Caller, CallerKnown
  <1> QED
    BY <1>1, TokenPair

LEMMA RowToken ==
  ASSUME TypeInv, row.token # NoToken
  PROVE  /\ row.token \in Tokens
         /\ row.token[1] \in Grants /\ row.token[1] \in Nat
         /\ row.token[2] \in Nat /\ row.token[2] > 0
         /\ row.token = <<row.token[1], row.token[2]>>
  <1>1. row.token \in Tokens
    BY DEF TypeInv, TypeOK, Row
  <1> QED
    BY <1>1, TokenPair

LEMMA GensTyped ==
  ASSUME TypeInv, NEW c \in Callers
  PROVE  /\ row.gen \in Nat /\ caller[c].gen \in Nat /\ caller[c].loaded \in Nat
         /\ caller[c].gen <= row.gen /\ caller[c].loaded <= row.gen
         /\ Bears(c) \/ At(c, "lease") \/ At(c, "flag") => caller[c].loaded <= caller[c].gen
  BY DEF TypeInv, TypeOK, Row, Caller, CallerKnown

LEMMA GrantInit == Init => GrantInv
  BY DEF Init, GrantInv, GrantFact, OneGeneration, Bears, Holds, Holding, At, Idle

(* The generation and token of the row stay; one caller stops bearing its   *)
(* token, or bears one of the same generation and grant.                    *)
LEMMA GrantMoves ==
  ASSUME TypeInv, GrantInv, NEW c \in Callers, Only(c),
         row'.gen = row.gen, row'.token = row.token,
         \/ ~Bears(c)'
         \/ /\ Bears(c) /\ caller'[c].gen = caller[c].gen
            /\ caller'[c].token[1] = caller[c].token[1],
         GrantFact(c)'
  PROVE  GrantInv'
  <1>1. ASSUME NEW d \in Callers PROVE GrantFact(d)'
    BY <1>1 DEF GrantInv, GrantFact, Only, Bears, Holds, At
  <1>2. ASSUME NEW d \in Callers, NEW e \in Callers PROVE OneGeneration(d, e)'
    BY <1>2 DEF GrantInv, OneGeneration, Only, Bears, Holds, At
  <1> QED
    BY <1>1, <1>2 DEF GrantInv

(* A caller that bears a token has it of the grant of the row, if it is of  *)
(* the row's generation, and so has one it goes on to use.                  *)
LEMMA UseFact ==
  ASSUME TypeInv, GrantInv, NEW c \in Callers, Bears(c), Goes(c, "use"),
         row'.gen = row.gen, row'.token = row.token
  PROVE  GrantFact(c)'
  BY GensTyped DEF GrantInv, GrantFact, Goes, Keeps, Bears, Holds, Holding, At

LEMMA CallerGrants ==
  ASSUME TypeInv, GrantInv, NEW c \in Callers,
         Start(c) \/ Read(c) \/ GiveUp(c) \/ Free(c) \/ Call(c) \/ Discard(c)
         \/ Failed(c) \/ Refused(c) \/ Flag(c) \/ Use(c) \/ Blame(c) \/ Crash(c)
  PROVE  GrantInv'
  <1> USE DEF Bears, Holds, Holding, At
  <1>1. CASE Start(c)
    BY <1>1, StartEffect, GrantMoves DEF GrantFact, Quiet
  <1>2. CASE Read(c)
    BY <1>2, ReadEffect, GrantMoves DEF GrantFact, Quiet, Returns
  <1>3. CASE GiveUp(c)
    BY <1>3, ReturnsByReturn, GrantMoves DEF TypeInv, GrantFact, GiveUp, Returns
  <1>4. CASE Free(c)
    <2>1. Goes(c, "use") /\ Released(c) /\ At(c, "free")
      BY <1>4, GoesByGoto, ReleaseEffect, PlacesThere DEF TypeInv, Free
    <2>2. GrantFact(c)'
      BY <2>1, UseFact DEF Released, RowStays
    <2> QED
      BY <2>1, <2>2, GrantMoves DEF Released, RowStays, Goes, Keeps
  <1>5. CASE Call(c)
    <2>1. At(c, "call") /\ UNCHANGED row /\ Only(c)
      BY <1>5, CallEffect
    <2>2. caller[c].token # NoToken /\ caller[c].token \in Tokens /\ caller[c].token[2] <= MaxRefreshes
      BY <2>1, CallerToken DEF TypeInv, CallerKnown
    <2>3. /\ caller'[c].gen = caller[c].gen /\ caller'[c].at \in {"write", "refused", "failed"}
          /\ caller'[c].token[1] = caller[c].token[1]
      BY <1>5, <2>2, CallEffect, NextToken DEF Goes, Keeps
    <2>4. GrantFact(c)'
      BY <2>1, <2>3 DEF GrantInv, GrantFact
    <2> QED
      BY <2>1, <2>3, <2>4, GrantMoves
  <1>6. CASE Discard(c)
    BY <1>6, ReturnsByReturn, GrantMoves DEF TypeInv, GrantFact, Discard, Returns
  <1>7. CASE Failed(c)
    BY <1>7, ReturnsByReturn, ReleaseEffect, GrantMoves
       DEF TypeInv, GrantFact, Failed, Returns, Released, RowStays
  <1>8. CASE Refused(c)
    BY <1>8, GoesByGoto, PlacesThere, ReleaseEffect, GrantMoves
       DEF TypeInv, GrantFact, Refused, Goes, Keeps, Released, RowStays
  <1>9. CASE Flag(c) \/ Blame(c)
    <2>1. (Goes(c, "blame") \/ Returns(c)) /\ row'.gen = row.gen /\ row'.token = row.token
      BY <1>9, GoesByGoto, ReturnsByReturn, PlacesThere, FlagEffect
         DEF TypeInv, Flag, Blame, Flagged
    <2> QED
      BY <2>1, GrantMoves DEF GrantFact, Goes, Keeps, Returns
  <1>10. CASE Use(c)
    BY <1>10, GoesByGoto, ReturnsByReturn, PlacesThere, GrantMoves
       DEF TypeInv, GrantFact, Use, Goes, Keeps, Returns
  <1>11. CASE Crash(c)
    BY <1>11, ReturnsByReturn, GrantMoves DEF TypeInv, GrantFact, Crash, Returns
  <1> QED
    BY <1>1, <1>2, <1>3, <1>4, <1>5, <1>6, <1>7, <1>8, <1>9, <1>10, <1>11

(* Who takes the lease has the row's token and generation: whoever bears a  *)
(* token of that grant is of that generation.                               *)
LEMMA LeaseGrants ==
  ASSUME TypeInv, GrantInv, NEW c \in Callers, Lease(c)
  PROVE  GrantInv'
  <1> USE DEF Bears, Holds, Holding, At
  <1>1. CASE Goes(c, "read") /\ UNCHANGED row
    BY <1>1, GrantMoves DEF GrantFact, Goes, Keeps
  <1>2. CASE /\ Same(caller[c].gen) /\ RowStays /\ caller'[c].token = row.token
             /\ caller'[c].gen = caller[c].gen /\ Only(c)
             /\ caller'[c].at = IF row.fresh THEN "free" ELSE "call"
    <2>1. row.token # NoToken /\ caller[c].gen = row.gen
      BY <1>2 DEF TypeInv, RowKnown, Same
    <2>2. GrantFact(c)'
      BY <1>2, <2>1 DEF GrantFact, RowStays
    <2>3. ASSUME NEW d \in Callers, d # c PROVE GrantFact(d)'
      BY <1>2, <2>3 DEF GrantInv, GrantFact, Only, RowStays
    <2>4. ASSUME NEW d \in Callers, d # c
          PROVE  OneGeneration(d, c)' /\ OneGeneration(c, d)'
      <3>1. Bears(d) /\ caller[d].token[1] = row.token[1] => caller[d].gen = row.gen
        <4>1. CASE Bears(d) /\ caller[d].gen # row.gen
          BY <2>1, <4>1, CallerToken, RowToken DEF GrantInv, GrantFact
        <4> QED
          BY <4>1
      <3> QED
        BY <1>2, <2>1, <2>4, <3>1 DEF OneGeneration, Only
    <2>5. ASSUME NEW d \in Callers, NEW e \in Callers, d # c, e # c PROVE OneGeneration(d, e)'
      BY <1>2, <2>5 DEF GrantInv, OneGeneration, Only
    <2>6. OneGeneration(c, c)'
      BY DEF OneGeneration
    <2> QED
      BY <2>2, <2>3, <2>4, <2>5, <2>6 DEF GrantInv
  <1> QED
    BY <1>1, <1>2, LeaseEffect

LEMMA WriteGrants ==
  ASSUME TypeInv, GrantInv, NEW c \in Callers, Write(c)
  PROVE  GrantInv'
  <1> USE DEF Bears, Holds, Holding, At
  <1>1. At(c, "write")
    BY WriteEffect
  <1>2. CASE /\ Same(caller[c].gen) /\ Goes(c, "use") /\ row'.gen = row.gen
             /\ row'.token = caller[c].token
    <2>1. row.token # NoToken /\ caller[c].token[1] = row.token[1]
      BY <1>1, <1>2 DEF TypeInv, RowKnown, Same, GrantInv, GrantFact
    <2>2. ASSUME NEW d \in Callers, d # c PROVE GrantFact(d)'
      BY <1>2, <2>1, <2>2 DEF GrantInv, GrantFact, Goes, Keeps, Only
    <2>3. GrantFact(c)'
      BY <1>2, <2>1 DEF GrantFact, Goes, Keeps
    <2>4. ASSUME NEW d \in Callers, NEW e \in Callers PROVE OneGeneration(d, e)'
      BY <1>2, <2>4 DEF GrantInv, OneGeneration, Goes, Keeps, Only
    <2> QED
      BY <2>2, <2>3, <2>4 DEF GrantInv
  <1>3. CASE Goes(c, "discard") /\ UNCHANGED row
    <2>1. GrantFact(c)'
      BY <1>1, <1>3 DEF GrantInv, GrantFact, Goes, Keeps
    <2> QED
      BY <1>1, <1>3, <2>1, GrantMoves DEF Goes, Keeps
  <1>4. CASE Returns(c) /\ UNCHANGED row
    BY <1>4, GrantMoves DEF GrantFact, Returns
  <1> QED
    BY <1>2, <1>3, <1>4, WriteEffect

(* A reconnect starts a later grant; without one nothing of the row's       *)
(* generation and token changes but at a disconnect.                        *)
LEMMA RowGrants ==
  ASSUME TypeInv, GrantInv, Reconnect \/ Disconnect \/ RevokeWiped \/ Expire \/ LeaseEnds \/ Withdraw
  PROVE  GrantInv'
  <1> USE DEF Bears, Holds, Holding, At
  <1>1. UNCHANGED caller
    BY DEF Reconnect, Disconnect, RevokeWiped, Expire, LeaseEnds, Withdraw
  <1>2. ASSUME NEW d \in Callers, NEW e \in Callers PROVE OneGeneration(d, e)'
    BY <1>1, <1>2 DEF GrantInv, OneGeneration
  <1>3. ASSUME NEW d \in Callers, Reconnect PROVE GrantFact(d)'
    <2>1. PICK g \in Grants :
            /\ row.st # "revoked" /\ g > row.token[1]
            /\ row' = [st |-> "active", gen |-> NextGen, token |-> <<g, 1>>,
                       fresh |-> TRUE, lease |-> "none"]
      BY <1>3 DEF Reconnect
    <2>2. row'.gen = row.gen + 1 /\ row'.token[1] = g
      BY <2>1 DEF NextGen
    <2>3. caller'[d].gen < row'.gen /\ caller'[d].loaded < row'.gen
      BY <1>1, <2>2, GensTyped
    <2>4. row.token # NoToken
      BY <2>1 DEF TypeInv, RowKnown
    <2>5. Bears(d) => caller[d].token[1] < g
      <3>1. Bears(d) => caller[d].token[1] <= row.token[1]
        BY <2>4, RowToken, CallerToken DEF GrantInv, GrantFact
      <3> QED
        BY <2>1, <2>4, <3>1, RowToken, CallerToken DEF Grants
    <2> QED
      BY <1>1, <2>2, <2>3, <2>5, GensTyped DEF GrantFact
  <1>4. ASSUME NEW d \in Callers, Disconnect PROVE GrantFact(d)'
    BY <1>4 DEF Disconnect, GrantFact
  <1>5. ASSUME NEW d \in Callers, RevokeWiped \/ Expire \/ LeaseEnds \/ Withdraw
        PROVE  GrantFact(d)'
    <2>1. row'.gen = row.gen /\ row'.token = row.token
      BY <1>5 DEF TypeInv, TypeOK, Row, RevokeWiped, Expire, LeaseEnds, Withdraw
    <2> QED
      BY <1>1, <2>1 DEF GrantInv, GrantFact
  <1> QED
    BY <1>2, <1>3, <1>4, <1>5 DEF GrantInv

LEMMA GrantStep == TypeInv /\ GrantInv /\ [Next]_vars => GrantInv'
  <1> SUFFICES ASSUME TypeInv, GrantInv, [Next]_vars PROVE GrantInv'
    OBVIOUS
  <1>1. ASSUME NEW c \in Callers, Start(c) \/ Step(c) \/ GiveUp(c) \/ Crash(c)
        PROVE  GrantInv'
    BY <1>1, CallerGrants, LeaseGrants, WriteGrants DEF Step
  <1>2. CASE UNCHANGED vars
    BY <1>2 DEF vars, GrantInv, GrantFact, OneGeneration, Bears, Holds, At
  <1> QED
    BY <1>1, <1>2, RowGrants DEF Next

-----------------------------------------------------------------------------
(* Numbers of a grant's tokens.  The service is never behind the row or a   *)
(* caller; who carries a token carries the one it gave last, one the row    *)
(* has not reached and no call uses; and one caller at most carries a       *)
(* grant's, so the last of them is never lost sight of.                     *)
NotBehind(t) == current[t[1]] = 0 \/ t[2] <= current[t[1]]

SameGrant(s, t) == s[1] = t[1]

NumberFact(c) ==
  /\ At(c, "call") => NotBehind(caller[c].token)
  /\ Carries(c) => current[caller[c].token[1]] \in {0, caller[c].token[2]}
  /\ Carries(c) /\ row.token # NoToken /\ SameGrant(caller[c].token, row.token) =>
       row.token[2] < caller[c].token[2]

CarriedAhead(c, d) ==
  /\ Carries(c) /\ At(d, "call") /\ SameGrant(caller[c].token, caller[d].token) =>
       caller[d].token[2] < caller[c].token[2]
  /\ Carries(c) /\ Carries(d) /\ SameGrant(caller[c].token, caller[d].token) => c = d

NumberInv ==
  /\ row.token # NoToken => NotBehind(row.token)
  /\ \A c \in Callers : NumberFact(c)
  /\ \A c, d \in Callers : CarriedAhead(c, d)

LEMMA NumberInit == Init => NumberInv
  <1> SUFFICES ASSUME Init PROVE NumberInv
    OBVIOUS
  <1>1. 1 \in Grants
    BY ConnectionAssumption DEF Grants
  <1>2. NotBehind(row.token)
    BY <1>1 DEF Init, NotBehind
  <1> QED
    BY <1>2 DEF Init, NumberInv, NumberFact, CarriedAhead, Carries, At, Idle

(* The service ends grants and goes on with none.                           *)
Fades == \A g \in Grants : current'[g] = current[g] \/ current'[g] = 0

(* The row keeps its token, the service ends grants at most, and one caller *)
(* neither calls nor carries, or goes on carrying the same token.           *)
LEMMA NumberMoves ==
  ASSUME TypeInv, NumberInv, NEW c \in Callers, Only(c), Fades, row'.token = row.token,
         \/ ~At(c, "call")' /\ ~Carries(c)'
         \/ Carries(c) /\ Carries(c)' /\ caller'[c].token = caller[c].token
  PROVE  NumberInv'
  <1> USE DEF Carries, At, SameGrant
  <1>1. row'.token # NoToken => NotBehind(row.token)'
    BY RowToken DEF NumberInv, NotBehind, Fades
  <1>2. ASSUME NEW d \in Callers PROVE NumberFact(d)'
    <2>1. Carries(d) \/ At(d, "call") => caller[d].token[1] \in Grants
      BY CallerToken DEF Bears, Holds, Holding
    <2> QED
      BY <1>2, <2>1 DEF NumberInv, NumberFact, NotBehind, Only, Fades
  <1>3. ASSUME NEW d \in Callers, NEW e \in Callers PROVE CarriedAhead(d, e)'
    BY <1>3 DEF NumberInv, CarriedAhead, Only
  <1> QED
    BY <1>1, <1>2, <1>3 DEF NumberInv

(* Nobody moves and the row keeps its token.                                *)
LEMMA NumberRests ==
  ASSUME TypeInv, NumberInv, UNCHANGED caller, Fades, row'.token = row.token
  PROVE  NumberInv'
  <1> USE DEF Carries, At, SameGrant
  <1>1. row'.token # NoToken => NotBehind(row.token)'
    BY RowToken DEF NumberInv, NotBehind, Fades
  <1>2. ASSUME NEW d \in Callers PROVE NumberFact(d)'
    <2>1. Carries(d) \/ At(d, "call") => caller[d].token[1] \in Grants
      BY CallerToken DEF Bears, Holds, Holding
    <2> QED
      BY <1>2, <2>1 DEF NumberInv, NumberFact, NotBehind, Fades
  <1>3. ASSUME NEW d \in Callers, NEW e \in Callers PROVE CarriedAhead(d, e)'
    BY <1>3 DEF NumberInv, CarriedAhead
  <1> QED
    BY <1>1, <1>2, <1>3 DEF NumberInv

(* While a token is good that a call uses, nobody carries its successor.    *)
LEMMA GoodCall ==
  ASSUME TypeInv, NumberInv, NEW c \in Callers, At(c, "call"), Good(caller[c].token),
         NEW d \in Callers, Carries(d)
  PROVE  ~SameGrant(caller[d].token, caller[c].token)
  <1>1. current[caller[c].token[1]] = caller[c].token[2]
    BY DEF Good
  <1>2. caller[c].token[2] > 0 /\ caller[c].token[2] \in Nat /\ caller[d].token[2] \in Nat
    BY CallerToken DEF Bears, Holds, Holding, At, Carries
  <1> QED
    BY <1>1, <1>2 DEF NumberInv, NumberFact, CarriedAhead, SameGrant

(* The service rotates a good token; its caller carries the next, or never  *)
(* learns of it.                                                            *)
LEMMA RotateNumbers ==
  ASSUME TypeInv, NumberInv, NEW c \in Callers, At(c, "call"), Only(c), UNCHANGED row,
         Good(caller[c].token), Rotate(caller[c].token),
         \/ ~At(c, "call")' /\ ~Carries(c)'
         \/ /\ caller'[c].at = "write" /\ caller'[c].token = Got(caller[c].token)
  PROVE  NumberInv'
  <1> DEFINE t == caller[c].token
  <1> USE DEF SameGrant
  <1>1. /\ t \in Tokens /\ t # NoToken /\ t[2] <= MaxRefreshes
        /\ t[1] \in Grants /\ t[2] \in Nat /\ t[2] > 0
    BY CallerToken DEF TypeInv, CallerKnown, Bears, Holds, Holding, At
  <1>2. /\ current'[t[1]] = t[2] + 1 /\ current[t[1]] = t[2]
        /\ \A g \in Grants : g # t[1] => current'[g] = current[g]
    BY <1>1, RotateStep DEF TypeInv, Good
  <1>3. Got(t)[1] = t[1] /\ Got(t)[2] = t[2] + 1
    BY <1>1, NextToken
  <1>4. row'.token # NoToken => NotBehind(row.token)'
    BY <1>1, <1>2, RowToken DEF NumberInv, NotBehind
  <1>5. ASSUME NEW d \in Callers, d # c PROVE NumberFact(d)'
    <2>1. caller'[d] = caller[d]
      BY <1>5 DEF Only
    <2>2. Carries(d) \/ At(d, "call") => caller[d].token[1] \in Grants /\ caller[d].token[2] \in Nat
      BY CallerToken DEF Bears, Holds, Holding, At, Carries
    <2>3. Carries(d) => caller[d].token[1] # t[1]
      BY GoodCall
    <2> QED
      BY <1>1, <1>2, <2>1, <2>2, <2>3 DEF NumberInv, NumberFact, NotBehind, Carries, At
  <1>6. NumberFact(c)'
    <2>1. row.token # NoToken /\ SameGrant(t, row.token) => row.token[2] < t[2] + 1
      BY <1>1, <1>2, RowToken DEF NumberInv, NotBehind
    <2> QED
      BY <1>1, <1>2, <1>3, <2>1 DEF NumberFact, NotBehind, Carries, At
  <1>7. ASSUME NEW d \in Callers, NEW e \in Callers PROVE CarriedAhead(d, e)'
    <2>1. CASE d # c /\ e # c
      BY <2>1 DEF NumberInv, CarriedAhead, Only, Carries, At
    <2>2. CASE d = c /\ e # c
      <3>1. caller'[e] = caller[e]
        BY <2>2 DEF Only
      <3>2. At(e, "call") /\ SameGrant(t, caller[e].token) => caller[e].token[2] < t[2] + 1
        <4>1. At(e, "call") => caller[e].token[2] \in Nat
          BY CallerToken DEF Bears, Holds, Holding, At
        <4> QED
          BY <1>1, <1>2, <4>1 DEF NumberInv, NumberFact, NotBehind
      <3>3. Carries(e) => caller[e].token[1] # t[1]
        BY GoodCall
      <3> QED
        BY <1>3, <2>2, <3>1, <3>2, <3>3 DEF CarriedAhead, Carries, At
    <2>3. CASE d # c /\ e = c
      <3>1. caller'[d] = caller[d]
        BY <2>3 DEF Only
      <3>2. Carries(d) => caller[d].token[1] # t[1]
        BY GoodCall
      <3> QED
        BY <1>3, <2>3, <3>1, <3>2 DEF CarriedAhead, Carries, At
    <2>4. CASE d = c /\ e = c
      BY <2>4 DEF CarriedAhead, Carries, At
    <2> QED
      BY <2>1, <2>2, <2>3, <2>4
  <1> QED
    BY <1>4, <1>5, <1>6, <1>7 DEF NumberInv

LEMMA CallerNumbers ==
  ASSUME TypeInv, NumberInv, NEW c \in Callers,
         Start(c) \/ Read(c) \/ GiveUp(c) \/ Free(c) \/ Call(c) \/ Discard(c)
         \/ Failed(c) \/ Refused(c) \/ Flag(c) \/ Use(c) \/ Blame(c) \/ Crash(c)
  PROVE  NumberInv'
  <1> USE DEF Carries, At
  <1>1. CASE Start(c)
    BY <1>1, StartEffect, NumberMoves DEF Quiet, Fades
  <1>2. CASE Read(c)
    BY <1>2, ReadEffect, NumberMoves DEF Quiet, Fades, Returns
  <1>3. CASE GiveUp(c)
    BY <1>3, ReturnsByReturn, NumberMoves DEF TypeInv, GiveUp, Returns, Fades
  <1>4. CASE Free(c)
    BY <1>4, GoesByGoto, ReleaseEffect, PlacesThere, NumberMoves
       DEF TypeInv, Free, Goes, Keeps, Released, RowStays, Fades
  <1>5. CASE Call(c)
    <2>1. At(c, "call") /\ UNCHANGED row /\ Only(c)
      BY <1>5, CallEffect
    <2>2. CASE Good(caller[c].token) /\ Rotate(caller[c].token)
      BY <1>5, <2>1, <2>2, CallEffect, RotateNumbers DEF Goes
    <2>3. CASE UNCHANGED current /\ (Goes(c, "failed") \/ Goes(c, "refused"))
      BY <2>1, <2>3, NumberMoves DEF Goes, Keeps, Fades
    <2> QED
      BY <1>5, <2>2, <2>3, CallEffect
  <1>6. CASE Discard(c)
    <2>1. Returns(c) /\ UNCHANGED row
      BY <1>6, ReturnsByReturn DEF TypeInv, Discard
    <2>2. Fades
      <3>1. caller[c].token \in Tokens
        BY DEF TypeInv, TypeOK, Caller
      <3> QED
        BY <1>6, <3>1, GiveBackStep DEF TypeInv, Discard, Fades
    <2> QED
      BY <2>1, <2>2, NumberMoves DEF Returns
  <1>7. CASE Failed(c)
    BY <1>7, ReturnsByReturn, ReleaseEffect, NumberMoves
       DEF TypeInv, Failed, Returns, Released, RowStays, Fades
  <1>8. CASE Refused(c)
    BY <1>8, GoesByGoto, PlacesThere, ReleaseEffect, NumberMoves
       DEF TypeInv, Refused, Goes, Keeps, Released, RowStays, Fades
  <1>9. CASE Flag(c) \/ Blame(c)
    <2>1. (Goes(c, "blame") \/ Returns(c)) /\ row'.token = row.token /\ UNCHANGED current
      BY <1>9, GoesByGoto, ReturnsByReturn, PlacesThere, FlagEffect
         DEF TypeInv, Flag, Blame, Flagged
    <2> QED
      BY <2>1, NumberMoves DEF Goes, Keeps, Returns, Fades
  <1>10. CASE Use(c)
    BY <1>10, GoesByGoto, ReturnsByReturn, PlacesThere, NumberMoves
       DEF TypeInv, Use, Goes, Keeps, Returns, Fades
  <1>11. CASE Crash(c)
    <2>1. Returns(c) /\ UNCHANGED row
      BY <1>11, ReturnsByReturn DEF TypeInv, Crash
    <2>2. CASE UNCHANGED current
      BY <2>1, <2>2, NumberMoves DEF Returns, Fades
    <2>3. CASE At(c, "call") /\ Good(caller[c].token) /\ Rotate(caller[c].token)
      BY <2>1, <2>3, RotateNumbers DEF Returns
    <2> QED
      BY <1>11, <2>2, <2>3 DEF Crash
  <1> QED
    BY <1>1, <1>2, <1>3, <1>4, <1>5, <1>6, <1>7, <1>8, <1>9, <1>10, <1>11

(* Who takes the lease calls with the row's token, behind what is carried.  *)
LEMMA LeaseNumbers ==
  ASSUME TypeInv, NumberInv, NEW c \in Callers, Lease(c)
  PROVE  NumberInv'
  <1> USE DEF Carries, At
  <1>1. CASE Goes(c, "read") /\ UNCHANGED row
    BY <1>1, LeaseEffect, NumberMoves DEF Goes, Keeps, Fades
  <1>2. CASE /\ Same(caller[c].gen) /\ RowStays /\ caller'[c].token = row.token
             /\ caller'[c].at = IF row.fresh THEN "free" ELSE "call"
    <2>1. Only(c) /\ UNCHANGED current /\ At(c, "lease")
      BY LeaseEffect
    <2>2. row.token # NoToken /\ row'.token = row.token
      BY <1>2 DEF TypeInv, RowKnown, Same, RowStays
    <2>3. NotBehind(row.token)' /\ NotBehind(row.token)
      BY <2>1, <2>2 DEF NumberInv, NotBehind
    <2>4. ASSUME NEW d \in Callers, d # c PROVE NumberFact(d)'
      BY <2>1, <2>2, <2>4 DEF NumberInv, NumberFact, NotBehind, SameGrant, Only
    <2>5. NumberFact(c)'
      BY <1>2, <2>1, <2>2, <2>3 DEF NumberFact, NotBehind
    <2>6. ASSUME NEW d \in Callers, NEW e \in Callers PROVE CarriedAhead(d, e)'
      <3>1. CASE d # c /\ e # c
        BY <2>1, <3>1 DEF NumberInv, CarriedAhead, SameGrant, Only
      <3>2. CASE d = c
        BY <1>2, <3>2 DEF CarriedAhead
      <3>3. CASE d # c /\ e = c
        BY <1>2, <2>1, <2>2, <3>3 DEF NumberInv, NumberFact, CarriedAhead, SameGrant, Only
      <3> QED
        BY <3>1, <3>2, <3>3
    <2> QED
      BY <2>3, <2>4, <2>5, <2>6 DEF NumberInv
  <1> QED
    BY <1>1, <1>2, LeaseEffect

(* The row comes to the token that was carried: who else carries one of     *)
(* that grant would be the same caller.                                     *)
LEMMA WriteNumbers ==
  ASSUME TypeInv, NumberInv, NEW c \in Callers, Write(c)
  PROVE  NumberInv'
  <1> USE DEF Carries, At
  <1>1. At(c, "write") /\ UNCHANGED current /\ Only(c) /\ Fades
    BY WriteEffect DEF Fades
  <1>2. CASE Goes(c, "use") /\ row'.token = caller[c].token
    <2>1. caller[c].token # NoToken /\ caller[c].token[2] \in Nat
      BY <1>1, CallerToken DEF Bears, Holds, Holding
    <2>2. NotBehind(row.token)'
      BY <1>1, <1>2, <2>1 DEF NumberInv, NumberFact, NotBehind
    <2>3. ASSUME NEW d \in Callers, d # c PROVE NumberFact(d)'
      <3>1. Carries(d) => ~SameGrant(caller[d].token, caller[c].token)
        BY <1>1, <2>3 DEF NumberInv, CarriedAhead
      <3> QED
        BY <1>1, <1>2, <2>3, <3>1 DEF NumberInv, NumberFact, NotBehind, SameGrant, Only
    <2>4. NumberFact(c)'
      BY <1>2 DEF NumberFact, Goes, Keeps
    <2>5. ASSUME NEW d \in Callers, NEW e \in Callers PROVE CarriedAhead(d, e)'
      BY <1>1, <1>2, <2>5 DEF NumberInv, CarriedAhead, SameGrant, Only, Goes, Keeps
    <2> QED
      BY <2>2, <2>3, <2>4, <2>5 DEF NumberInv
  <1>3. CASE Goes(c, "discard") /\ UNCHANGED row
    BY <1>1, <1>3, NumberMoves DEF Goes, Keeps
  <1>4. CASE Returns(c) /\ UNCHANGED row
    BY <1>1, <1>4, NumberMoves DEF Returns
  <1> QED
    BY <1>2, <1>3, <1>4, WriteEffect

(* A reconnect starts a grant nobody has a token of.                        *)
LEMMA RowNumbers ==
  ASSUME TypeInv, GrantInv, NumberInv,
         Reconnect \/ Disconnect \/ RevokeWiped \/ Expire \/ LeaseEnds \/ Withdraw
  PROVE  NumberInv'
  <1> USE DEF Carries, At
  <1>1. UNCHANGED caller
    BY DEF Reconnect, Disconnect, RevokeWiped, Expire, LeaseEnds, Withdraw
  <1>2. CASE Reconnect
    <2>1. PICK g \in Grants :
            /\ row.st # "revoked" /\ g > row.token[1]
            /\ current' = [current EXCEPT ![g] = 1]
            /\ row' = [st |-> "active", gen |-> NextGen, token |-> <<g, 1>>,
                       fresh |-> TRUE, lease |-> "none"]
      BY <1>2 DEF Reconnect
    <2>2. row'.token[1] = g /\ row'.token[2] = 1 /\ current'[g] = 1
      BY <2>1 DEF TypeInv, TypeOK
    <2>3. \A h \in Grants : h # g => current'[h] = current[h]
      BY <2>1 DEF TypeInv, TypeOK
    <2>4. row.token # NoToken
      BY <2>1 DEF TypeInv, RowKnown
    <2>5. ASSUME NEW d \in Callers, Carries(d) \/ At(d, "call")
          PROVE  caller[d].token[1] \in Grants /\ caller[d].token[1] # g
      <3>1. Bears(d)
        BY <2>5 DEF Bears, Holds, Holding
      <3>2. caller[d].token[1] <= row.token[1]
        BY <2>4, <3>1, RowToken, CallerToken DEF GrantInv, GrantFact
      <3> QED
        BY <2>1, <2>4, <3>1, <3>2, RowToken, CallerToken DEF Grants
    <2>6. ASSUME NEW d \in Callers PROVE NumberFact(d)'
      BY <1>1, <2>2, <2>3, <2>5, <2>6 DEF NumberInv, NumberFact, NotBehind, SameGrant
    <2>7. ASSUME NEW d \in Callers, NEW e \in Callers PROVE CarriedAhead(d, e)'
      BY <1>1, <2>7 DEF NumberInv, CarriedAhead, SameGrant
    <2> QED
      BY <2>2, <2>6, <2>7 DEF NumberInv, NotBehind
  <1>3. CASE Disconnect
    <2>1. row'.token = NoToken /\ UNCHANGED current
      BY <1>3 DEF Disconnect
    <2>2. ASSUME NEW d \in Callers PROVE NumberFact(d)'
      BY <1>1, <2>1, <2>2 DEF NumberInv, NumberFact, NotBehind
    <2>3. ASSUME NEW d \in Callers, NEW e \in Callers PROVE CarriedAhead(d, e)'
      BY <1>1, <2>3 DEF NumberInv, CarriedAhead, SameGrant
    <2> QED
      BY <2>1, <2>2, <2>3 DEF NumberInv
  <1>4. CASE RevokeWiped \/ Expire \/ LeaseEnds \/ Withdraw
    <2>1. row'.token = row.token
      BY <1>4 DEF TypeInv, TypeOK, Row, RevokeWiped, Expire, LeaseEnds, Withdraw
    <2>2. CASE RevokeWiped
      <3>1. leaver.token \in Tokens
        BY DEF TypeInv, TypeOK
      <3>2. Fades
        BY <2>2, <3>1, GiveBackStep DEF TypeInv, RevokeWiped, Fades
      <3> QED
        BY <1>1, <2>1, <3>2, NumberRests
    <2>3. CASE Expire \/ LeaseEnds \/ Withdraw
      <3>1. Fades
        BY <2>3 DEF TypeInv, TypeOK, Expire, LeaseEnds, Withdraw, Fades
      <3> QED
        BY <1>1, <2>1, <3>1, NumberRests
    <2> QED
      BY <1>4, <2>2, <2>3
  <1> QED
    BY <1>2, <1>3, <1>4

LEMMA NumberStep == TypeInv /\ GrantInv /\ NumberInv /\ [Next]_vars => NumberInv'
  <1> SUFFICES ASSUME TypeInv, GrantInv, NumberInv, [Next]_vars PROVE NumberInv'
    OBVIOUS
  <1>1. ASSUME NEW c \in Callers, Start(c) \/ Step(c) \/ GiveUp(c) \/ Crash(c)
        PROVE  NumberInv'
    BY <1>1, CallerNumbers, LeaseNumbers, WriteNumbers DEF Step
  <1>2. CASE UNCHANGED vars
    BY <1>2, NumberRests DEF vars, Fades
  <1> QED
    BY <1>1, <1>2, RowNumbers DEF Next

-----------------------------------------------------------------------------
(* Nothing of a grant is lost sight of, if no answer, write, revocation or  *)
(* process is: the grant is over, or its good token is the row's (or the    *)
(* one the disconnect read), or a caller carries it and will store it or    *)
(* revoke it.                                                               *)
Covered(t) ==
  \/ current[t[1]] = 0
  \/ \E c \in Callers : Carries(c) /\ SameGrant(caller[c].token, t)
                        /\ caller[c].token[2] = current[t[1]]

Careful == revokes /\ accidents \subseteq {"withdrawn", "slow"}

CoverInv ==
  Careful =>
    /\ leaver.at = "idle" => Good(row.token) \/ Covered(row.token)
    /\ leaver.at = "revoke" => Good(leaver.token) \/ Covered(leaver.token)
    /\ leaver.at = "done" => Covered(leaver.token)

LEMMA CoverInit == Init => CoverInv
  <1> SUFFICES ASSUME Init PROVE Good(row.token)
    BY DEF Init, CoverInv
  <1>1. 1 \in Grants /\ 1 \in 1..(MaxRefreshes + 1)
    BY ConnectionAssumption DEF Grants
  <1>2. <<1, 1>> # NoToken
    BY <1>1, PairToken
  <1> QED
    BY <1>1, <1>2 DEF Init, Good

(* The token the cover is about: the row's, then the one that was read.     *)
Watched == IF leaver.at = "idle" THEN row.token ELSE leaver.token

LEMMA WatchedToken ==
  ASSUME TypeInv
  PROVE  \E t \in Tokens : t = Watched /\ t # NoToken
  BY DEF TypeInv, TypeOK, Row, RowKnown, Watched

(* The two ways to be covered, of any token: by its being good, or so.      *)
Kept(t) == Good(t) \/ Covered(t)

(* One caller moves; what it carried, it carries on or the grant is over;   *)
(* grants only fade.                                                        *)
LEMMA CoverStays ==
  ASSUME TypeInv, NEW c \in Callers, Only(c), Fades, NEW t \in Tokens, t # NoToken,
         \/ ~Carries(c)
         \/ Carries(c)' /\ caller'[c].token = caller[c].token
         \/ current'[caller[c].token[1]] = 0
  PROVE  /\ Good(t) => Good(t)' \/ Covered(t)'
         /\ Covered(t) => Covered(t)'
  <1> USE DEF Carries, SameGrant
  <1>1. t[1] \in Grants
    BY TokenPair
  <1>2. current'[t[1]] = current[t[1]] \/ current'[t[1]] = 0
    BY <1>1 DEF Fades
  <1>3. CASE current'[t[1]] = 0
    BY <1>3 DEF Covered
  <1>4. CASE current'[t[1]] = current[t[1]]
    <2>1. Good(t) => Good(t)'
      BY <1>4 DEF Good
    <2>2. ASSUME NEW d \in Callers, Carries(d), SameGrant(caller[d].token, t),
                 caller[d].token[2] = current[t[1]]
          PROVE  Covered(t)'
      <3>1. CASE d # c
        BY <1>4, <2>2, <3>1 DEF Covered, Only
      <3>2. CASE d = c
        BY <1>4, <2>2, <3>2 DEF Covered, Only
      <3> QED
        BY <3>1, <3>2
    <2>3. current[t[1]] = 0 => Covered(t)'
      BY <1>4 DEF Covered
    <2> QED
      BY <2>1, <2>2, <2>3 DEF Covered
  <1> QED
    BY <1>2, <1>3, <1>4

LEMMA CoverRests ==
  ASSUME TypeInv, UNCHANGED caller, Fades, NEW t \in Tokens, t # NoToken
  PROVE  /\ Good(t) => Good(t)' \/ Covered(t)'
         /\ Covered(t) => Covered(t)'
  <1>1. t[1] \in Grants
    BY TokenPair
  <1>2. current'[t[1]] = current[t[1]] \/ current'[t[1]] = 0
    BY <1>1 DEF Fades
  <1> QED
    BY <1>2 DEF Covered, Good, Carries, SameGrant

(* The service rotates a token, to a caller that carries the next.          *)
LEMMA CoverRotates ==
  ASSUME TypeInv, NumberInv, NEW c \in Callers, At(c, "call"), Only(c),
         Good(caller[c].token), Rotate(caller[c].token),
         caller'[c].at = "write", caller'[c].token = Got(caller[c].token),
         NEW t \in Tokens, t # NoToken, Kept(t)
  PROVE  /\ Kept(t)'
         /\ Covered(t) => Covered(t)'
  <1> DEFINE s == caller[c].token
  <1> USE DEF SameGrant
  <1>1. /\ s \in Tokens /\ s # NoToken /\ s[2] <= MaxRefreshes /\ s[1] \in Grants
        /\ s[2] \in Nat /\ s[2] > 0
    BY CallerToken DEF TypeInv, CallerKnown, Bears, Holds, Holding, At
  <1>2. /\ current'[s[1]] = s[2] + 1
        /\ \A g \in Grants : g # s[1] => current'[g] = current[g]
    BY <1>1, RotateStep DEF TypeInv
  <1>3. Got(s)[1] = s[1] /\ Got(s)[2] = s[2] + 1
    BY <1>1, NextToken
  <1>4. t[1] \in Grants
    BY TokenPair
  <1>5. CASE t[1] = s[1]
    BY <1>2, <1>3, <1>5 DEF Covered, Kept, Carries
  <1>6. CASE t[1] # s[1]
    <2>1. current'[t[1]] = current[t[1]]
      BY <1>2, <1>4, <1>6
    <2>2. Good(t) => Good(t)'
      BY <2>1 DEF Good
    <2>3. Covered(t) => Covered(t)'
      <3>1. ASSUME NEW d \in Callers, Carries(d), SameGrant(caller[d].token, t),
                   caller[d].token[2] = current[t[1]]
            PROVE  Covered(t)'
        <4>1. d # c
          BY <3>1 DEF Carries, At
        <4> QED
          BY <2>1, <3>1, <4>1 DEF Covered, Carries, Only
      <3> QED
        BY <2>1, <3>1 DEF Covered
    <2> QED
      BY <2>2, <2>3 DEF Kept
  <1> QED
    BY <1>5, <1>6

(* The row and the disconnect keep their token, and it stays kept, or       *)
(* covered.                                                                 *)
LEMMA CoverHolds ==
  ASSUME TypeInv, CoverInv, accidents \subseteq accidents',
         row'.token = row.token, UNCHANGED <<revokes, leaver>>, NEW t, t = Watched,
         Careful' => /\ Good(t) => Kept(t)'
                     /\ Covered(t) => Covered(t)'
  PROVE  CoverInv'
  <1>1. leaver.at \in {"idle", "revoke", "done"} /\ (Careful' => Careful)
    BY DEF TypeInv, TypeOK, Careful
  <1>2. CASE leaver.at = "idle"
    <2>1. t = row.token /\ t = row'.token
      BY <1>2 DEF Watched
    <2> QED
      BY <1>1, <1>2, <2>1 DEF CoverInv, Good, Covered, Kept
  <1>3. CASE leaver.at # "idle"
    <2>1. t = leaver.token /\ t = leaver'.token
      BY <1>3 DEF Watched
    <2> QED
      BY <1>1, <1>3, <2>1 DEF CoverInv, Good, Covered, Kept
  <1> QED
    BY <1>2, <1>3

(* So it is when one caller moves and carries on what it carried, or nobody *)
(* moves at all.                                                            *)
LEMMA CoverMoves ==
  ASSUME TypeInv, CoverInv, accidents \subseteq accidents',
         row'.token = row.token, UNCHANGED <<revokes, leaver>>, NEW c \in Callers, Only(c), Fades,
         \/ ~Carries(c)
         \/ Carries(c)' /\ caller'[c].token = caller[c].token
         \/ current'[caller[c].token[1]] = 0
  PROVE  CoverInv'
  <1>1. PICK t \in Tokens : t = Watched /\ t # NoToken
    BY WatchedToken
  <1>2. (Good(t) => Kept(t)') /\ (Covered(t) => Covered(t)')
    BY <1>1, CoverStays DEF Kept
  <1> QED
    BY <1>1, <1>2, CoverHolds

LEMMA CoverSleeps ==
  ASSUME TypeInv, CoverInv, accidents \subseteq accidents',
         row'.token = row.token, UNCHANGED <<revokes, leaver, caller>>, Fades
  PROVE  CoverInv'
  <1>1. PICK t \in Tokens : t = Watched /\ t # NoToken
    BY WatchedToken
  <1>2. (Good(t) => Kept(t)') /\ (Covered(t) => Covered(t)')
    BY <1>1, CoverRests DEF Kept
  <1> QED
    BY <1>1, <1>2, CoverHolds

(* A lost answer, write, revocation or process is not careful.              *)
LEMMA Careless ==
  ASSUME TypeInv, Fault("crash") \/ Fault("lost") \/ Fault("write") \/ Fault("unrevoked")
  PROVE  ~Careful'
  BY FaultStep DEF TypeInv, Careful

LEMMA CallerCovers ==
  ASSUME TypeInv, NumberInv, CoverInv, NEW c \in Callers,
         Start(c) \/ Step(c) \/ GiveUp(c) \/ Crash(c), ~Write(c)
  PROVE  CoverInv'
  <1> USE DEF At
  <1>1. CASE Start(c)
    BY <1>1, StartEffect, CoverMoves DEF Quiet, Fades, Carries
  <1>2. CASE Read(c)
    BY <1>2, ReadEffect, CoverMoves DEF Quiet, Fades, Carries
  <1>3. CASE GiveUp(c)
    BY <1>3, ReturnsByReturn, CoverMoves
       DEF TypeInv, GiveUp, Returns, Fades, Carries
  <1>4. CASE Lease(c)
    <2>1. row'.token = row.token /\ UNCHANGED <<current, revokes, leaver, accidents>> /\ Only(c) /\ ~Carries(c)
      BY <1>4, LeaseEffect DEF RowStays, Carries
    <2> QED
      BY <2>1, CoverMoves DEF Fades
  <1>5. CASE Free(c) \/ Failed(c) \/ Refused(c)
    <2>1. /\ Release(c) /\ UNCHANGED <<current, revokes, leaver>> /\ ~Carries(c)
          /\ Goto(c, "use") \/ Goto(c, "flag") \/ Return(c)
      BY <1>5 DEF Free, Failed, Refused, Carries
    <2>2. Only(c)
      BY <2>1, GoesByGoto, ReturnsByReturn, PlacesThere DEF TypeInv, Goes, Keeps, Returns
    <2>3. row'.token = row.token /\ accidents \subseteq accidents'
      BY <2>1, ReleaseEffect DEF Released, RowStays
    <2> QED
      BY <2>1, <2>2, <2>3, CoverMoves DEF Fades
  <1>6. CASE Call(c)
    <2>1. At(c, "call") /\ UNCHANGED <<row, revokes, leaver>> /\ Only(c)
      BY <1>6, CallEffect
    <2>2. CASE /\ NoFault /\ Good(caller[c].token) /\ Rotate(caller[c].token)
               /\ caller'[c].at = "write" /\ caller'[c].token = Got(caller[c].token)
      <3>1. PICK t \in Tokens : t = Watched /\ t # NoToken
        BY WatchedToken
      <3>2. (Good(t) => Kept(t)') /\ (Covered(t) => Covered(t)')
        BY <2>1, <2>2, <3>1, CoverRotates DEF Kept
      <3> QED
        BY <2>1, <2>2, <3>1, <3>2, CoverHolds DEF NoFault
    <2>3. CASE UNCHANGED current /\ NoFault
      BY <2>1, <2>3, CoverMoves DEF NoFault, Fades, Carries
    <2>4. CASE Fault("lost")
      BY <2>4, Careless DEF CoverInv
    <2> QED
      BY <1>6, <2>2, <2>3, <2>4, CallEffect
  <1>7. CASE Discard(c)
    <2>1. Returns(c) /\ UNCHANGED <<row, revokes, leaver>> /\ At(c, "discard")
      BY <1>7, ReturnsByReturn DEF TypeInv, Discard
    <2>2. CASE Revoke(caller[c].token) /\ NoFault
      <3>1. caller[c].token \in Tokens /\ caller[c].token # NoToken /\ caller[c].token[1] \in Grants
        BY <2>1, CallerToken DEF Bears
      <3>2. Fades
        BY <2>2, <3>1, RevokeStep DEF TypeInv, Fades
      <3>3. current'[caller[c].token[1]] = 0
        <4>1. current[caller[c].token[1]] \in {0, caller[c].token[2]}
          BY <2>1 DEF NumberInv, NumberFact, Carries
        <4>2. CASE Good(caller[c].token)
          BY <2>2, <3>1, <4>2, RevokeStep DEF TypeInv
        <4>3. CASE ~Good(caller[c].token)
          BY <3>1, <3>2, <4>1, <4>3 DEF Good, Fades
        <4> QED
          BY <4>2, <4>3
      <3> QED
        BY <2>1, <2>2, <3>2, <3>3, CoverMoves
           DEF NoFault, Returns
    <2>3. CASE Fault("unrevoked")
      BY <2>3, Careless DEF CoverInv
    <2>4. CASE ~revokes
      BY <2>1, <2>4 DEF CoverInv, Careful
    <2> QED
      BY <1>7, <2>1, <2>2, <2>3, <2>4 DEF Discard, GiveBack
  <1>8. CASE Flag(c) \/ Blame(c)
    <2>1. /\ Goes(c, "blame") \/ Returns(c)
          /\ row'.token = row.token /\ UNCHANGED <<current, revokes, leaver>> /\ ~Carries(c)
          /\ NoFault \/ Fault("write")
      BY <1>8, GoesByGoto, ReturnsByReturn, PlacesThere, FlagEffect
         DEF TypeInv, Flag, Blame, Flagged, Carries
    <2>2. accidents \subseteq accidents'
      BY <2>1, FaultStep DEF TypeInv, NoFault
    <2> QED
      BY <2>1, <2>2, CoverMoves
         DEF Fades, Goes, Keeps, Returns
  <1>9. CASE Use(c)
    <2>1. (Goes(c, "blame") \/ Returns(c)) /\ Quiet /\ ~Carries(c)
      BY <1>9, GoesByGoto, ReturnsByReturn, PlacesThere DEF TypeInv, Use, Quiet, Carries
    <2> QED
      BY <2>1, CoverMoves DEF Fades, Goes, Keeps, Returns, Quiet
  <1>10. CASE Crash(c)
    BY <1>10, Careless DEF Crash, CoverInv
  <1> QED
    BY <1>1, <1>2, <1>3, <1>4, <1>5, <1>6, <1>7, <1>8, <1>9, <1>10 DEF Step

(* The row comes to the token that was carried; after a disconnect the row  *)
(* takes none, and the caller carries it on to revoke it.                   *)
LEMMA WriteCovers ==
  ASSUME TypeInv, GrantInv, NumberInv, CoverInv, NEW c \in Callers, Write(c)
  PROVE  CoverInv'
  <1> USE DEF At
  <1>1. At(c, "write") /\ UNCHANGED <<current, revokes, leaver>> /\ Only(c) /\ Carries(c) /\ Bears(c)
    BY WriteEffect DEF Carries, Bears, Holds, Holding
  <1>2. CASE /\ NoFault /\ Same(caller[c].gen) /\ row'.token = caller[c].token
             /\ row'.st = row.st
    <2>1. leaver.at = "idle" /\ leaver'.at = "idle"
      BY <1>1, <1>2 DEF TypeInv, RowKnown, Same
    <2>2. current[caller[c].token[1]] \in {0, caller[c].token[2]} /\ caller[c].token # NoToken
      BY <1>1, CallerToken DEF NumberInv, NumberFact
    <2>3. Good(row.token)' \/ Covered(row.token)'
      BY <1>1, <1>2, <2>2 DEF Good, Covered
    <2> QED
      BY <2>1, <2>3 DEF CoverInv
  <1>3. CASE NoFault /\ Goes(c, "discard") /\ UNCHANGED row
    BY <1>1, <1>3, CoverMoves
       DEF NoFault, Fades, Carries, Goes, Keeps
  <1>4. CASE Fault("write")
    BY <1>4, Careless DEF CoverInv
  <1> QED
    BY <1>2, <1>3, <1>4, WriteEffect

LEMMA RowCovers ==
  ASSUME TypeInv, CoverInv,
         Reconnect \/ Disconnect \/ RevokeWiped \/ Expire \/ LeaseEnds \/ Withdraw
  PROVE  CoverInv'
  <1>1. UNCHANGED caller
    BY DEF Reconnect, Disconnect, RevokeWiped, Expire, LeaseEnds, Withdraw
  <1>2. CASE Reconnect
    <2>1. PICK g \in Grants :
            /\ row.st # "revoked"
            /\ current' = [current EXCEPT ![g] = 1]
            /\ row' = [st |-> "active", gen |-> NextGen, token |-> <<g, 1>>,
                       fresh |-> TRUE, lease |-> "none"]
            /\ UNCHANGED <<revokes, leaver>>
      BY <1>2 DEF Reconnect
    <2>2. <<g, 1>> # NoToken
      BY PairToken, ConnectionAssumption
    <2>3. Good(row.token)'
      BY <2>1, <2>2 DEF TypeInv, TypeOK, Good
    <2>4. leaver'.at = "idle"
      BY <2>1 DEF TypeInv, RowKnown
    <2> QED
      BY <2>3, <2>4 DEF CoverInv
  <1>3. CASE Disconnect
    <2>1. /\ leaver.at = "idle" /\ leaver'.at = "revoke" /\ leaver'.token = row.token
          /\ UNCHANGED <<current, revokes, accidents>>
      BY <1>3 DEF Disconnect
    <2> QED
      BY <1>1, <2>1 DEF CoverInv, Careful, Good, Covered, Carries, SameGrant
  <1>4. CASE RevokeWiped
    <2>1. leaver.at = "revoke" /\ leaver' = [leaver EXCEPT !.at = "done"]
      BY <1>4 DEF RevokeWiped
    <2>2. leaver.token \in Tokens /\ leaver.token # NoToken /\ leaver'.at = "done"
          /\ leaver'.token = leaver.token
      BY <2>1 DEF TypeInv, TypeOK, RowKnown
    <2>3. CASE Revoke(leaver.token) /\ NoFault
      <3>1. Fades
        BY <2>2, <2>3, RevokeStep DEF TypeInv, Fades
      <3>2. Good(leaver.token) => current'[leaver.token[1]] = 0
        BY <2>2, <2>3, RevokeStep, TokenPair DEF TypeInv
      <3>3. Covered(leaver.token) \/ Good(leaver.token) => Covered(leaver.token)'
        BY <1>1, <2>2, <3>1, <3>2, CoverRests DEF Covered
      <3> QED
        BY <1>4, <2>1, <2>2, <2>3, <3>3 DEF CoverInv, NoFault, Careful, RevokeWiped
    <2>4. CASE Fault("unrevoked")
      BY <2>4, Careless DEF CoverInv
    <2>5. CASE ~revokes
      BY <1>4, <2>5 DEF CoverInv, Careful, RevokeWiped
    <2> QED
      BY <1>4, <2>3, <2>4, <2>5 DEF RevokeWiped, GiveBack
  <1>5. CASE Expire \/ LeaseEnds \/ Withdraw
    <2>1. row'.token = row.token /\ UNCHANGED <<revokes, leaver>> /\ Fades
      BY <1>5 DEF TypeInv, TypeOK, Row, Expire, LeaseEnds, Withdraw, Fades
    <2>2. accidents \subseteq accidents'
      BY <1>5, FaultStep DEF TypeInv, NoFault, Expire, LeaseEnds, Withdraw
    <2> QED
      BY <1>1, <2>1, <2>2, CoverSleeps
  <1> QED
    BY <1>2, <1>3, <1>4, <1>5

LEMMA CoverStep == TypeInv /\ GrantInv /\ NumberInv /\ CoverInv /\ [Next]_vars => CoverInv'
  <1> SUFFICES ASSUME TypeInv, GrantInv, NumberInv, CoverInv, [Next]_vars PROVE CoverInv'
    OBVIOUS
  <1>1. ASSUME NEW c \in Callers, Start(c) \/ Step(c) \/ GiveUp(c) \/ Crash(c)
        PROVE  CoverInv'
    BY <1>1, CallerCovers, WriteCovers
  <1>2. CASE UNCHANGED vars
    BY <1>2, CoverSleeps DEF vars, Fades
  <1> QED
    BY <1>1, <1>2, RowCovers DEF Next

(* A disconnected row holds no token, whatever goes wrong and whatever a    *)
(* refresh brings later.  When the disconnect is done and no caller is      *)
(* under way, the token it wiped and every successor a refresh brought      *)
(* meanwhile are dead at the service, if the provider can revoke and no     *)
(* revocation, answer or process was lost, whatever reconnects, refreshes,  *)
(* slow callers and withdrawals went before.                                *)
THEOREM DisconnectLeavesNothing == Spec => []DisconnectIsComplete
  <1>1. TypeInv /\ CoverInv => DisconnectIsComplete
    <2> SUFFICES ASSUME TypeInv, CoverInv PROVE DisconnectIsComplete
      OBVIOUS
    <2>1. leaver.at # "idle" => row.st = "revoked" /\ row.token = NoToken
      BY DEF TypeInv, RowKnown
    <2>2. ASSUME leaver.at = "done", Careful, \A c \in Callers : At(c, "idle")
          PROVE  current[leaver.token[1]] = 0
      <3>1. Covered(leaver.token)
        BY <2>2 DEF CoverInv
      <3> QED
        BY <2>2, <3>1 DEF Covered, Carries, At
    <2> QED
      BY <2>1, <2>2 DEF DisconnectIsComplete, Careful
  <1> QED
    BY <1>1, TypeInit, TypeStep, GrantInit, GrantStep, NumberInit, NumberStep, CoverInit, CoverStep,
       PTL DEF Spec

-----------------------------------------------------------------------------
(* The lease, as long as nobody who is alive outlives it: of one generation *)
(* one caller at most is between taking and giving back the lease, the      *)
(* lease of the row's generation is then live, and that caller sends the    *)
(* row's own token, or carries its successor.                               *)
OneHolder(c, d) == Holds(c) /\ Holds(d) /\ caller[c].gen = caller[d].gen => c = d

HolderFact(c) ==
  caller[c].gen = row.gen =>
    /\ Holds(c) => row.lease = "live"
    /\ row.token # NoToken =>
         /\ caller[c].at \in {"free", "call"} => caller[c].token = row.token
         /\ At(c, "write") => caller[c].token = Got(row.token)

Brisk == "slow" \notin accidents

HolderInv ==
  Brisk => /\ \A c, d \in Callers : OneHolder(c, d)
           /\ \A c \in Callers : HolderFact(c)

LEMMA HolderInit == Init => HolderInv
  BY DEF Init, HolderInv, OneHolder, HolderFact, Holds, Holding, At, Idle

(* One caller ends its hold, or was none: the lease is given back by it     *)
(* alone.                                                                   *)
LEMMA HolderLeaves ==
  ASSUME TypeInv, HolderInv, Brisk, NEW c \in Callers, Only(c), ~Holds(c)',
         row'.gen = row.gen, row'.token = row.token,
         row'.lease = row.lease \/ (Holds(c) /\ caller[c].gen = row.gen)
  PROVE  HolderInv'
  <1> USE DEF Holds, Holding, At
  <1>1. ASSUME NEW d \in Callers, NEW e \in Callers PROVE OneHolder(d, e)'
    BY <1>1 DEF HolderInv, OneHolder, Only
  <1>2. ASSUME NEW d \in Callers PROVE HolderFact(d)'
    <2>1. CASE d = c
      BY <2>1 DEF HolderFact
    <2>2. CASE d # c
      BY <2>2 DEF HolderInv, HolderFact, OneHolder, Only
    <2> QED
      BY <2>1, <2>2
  <1> QED
    BY <1>1, <1>2 DEF HolderInv

(* Nobody moves, and the row keeps its generation, token and lease.         *)
LEMMA HolderRests ==
  ASSUME TypeInv, HolderInv, accidents \subseteq accidents', UNCHANGED caller,
         row'.gen = row.gen, row'.token = row.token, row'.lease = row.lease
  PROVE  HolderInv'
  BY DEF HolderInv, Brisk, OneHolder, HolderFact, Holds, At

LEMMA CallerHolds ==
  ASSUME TypeInv, HolderInv, Brisk, NEW c \in Callers,
         Start(c) \/ Step(c) \/ GiveUp(c) \/ Crash(c)
  PROVE  HolderInv'
  <1> USE DEF Holds, Holding, At
  <1>1. CASE Start(c)
    BY <1>1, StartEffect, HolderLeaves DEF Quiet
  <1>2. CASE Read(c)
    BY <1>2, ReadEffect, HolderLeaves DEF Quiet, Returns
  <1>3. CASE GiveUp(c)
    BY <1>3, ReturnsByReturn, HolderLeaves DEF TypeInv, GiveUp, Returns
  <1>4. CASE Lease(c)
    <2>1. CASE Goes(c, "read") /\ UNCHANGED row
      BY <2>1, HolderLeaves DEF Goes, Keeps
    <2>2. CASE /\ Same(caller[c].gen) /\ LeaseFree /\ RowStays /\ row'.lease = "live"
               /\ caller'[c].at = IF row.fresh THEN "free" ELSE "call"
               /\ caller'[c].token = row.token /\ caller'[c].gen = caller[c].gen
      <3>1. Only(c)
        BY <1>4, LeaseEffect
      <3>2. ASSUME NEW d \in Callers, Holds(d), d # c PROVE caller[d].gen # caller[c].gen
        BY <2>2, <3>2 DEF HolderInv, HolderFact, Same, LeaseFree
      <3>3. ASSUME NEW d \in Callers, NEW e \in Callers PROVE OneHolder(d, e)'
        BY <2>2, <3>1, <3>2, <3>3 DEF HolderInv, OneHolder, Only
      <3>4. ASSUME NEW d \in Callers PROVE HolderFact(d)'
        BY <2>2, <3>1, <3>4 DEF HolderInv, HolderFact, RowStays, Only
      <3> QED
        BY <3>3, <3>4 DEF HolderInv
    <2> QED
      BY <1>4, <2>1, <2>2, LeaseEffect
  <1>5. CASE Free(c) \/ Failed(c) \/ Refused(c)
    <2>1. /\ Release(c) /\ Holds(c)
          /\ Goto(c, "use") \/ Goto(c, "flag") \/ Return(c)
      BY <1>5 DEF Free, Failed, Refused
    <2>2. Only(c) /\ ~Holds(c)'
      BY <2>1, GoesByGoto, ReturnsByReturn, PlacesThere DEF TypeInv, Goes, Keeps, Returns
    <2>3. /\ row'.token = row.token /\ row'.gen = row.gen
          /\ row'.lease = row.lease \/ caller[c].gen = row.gen
      BY <2>1, ReleaseEffect DEF Released, RowStays, Same
    <2> QED
      BY <2>1, <2>2, <2>3, HolderLeaves
  <1>6. CASE Call(c)
    <2>1. At(c, "call") /\ UNCHANGED row /\ Only(c)
      BY <1>6, CallEffect
    <2>2. /\ caller'[c].gen = caller[c].gen /\ caller'[c].at \in {"write", "refused", "failed"}
          /\ caller'[c].at = "write" => caller'[c].token = Got(caller[c].token)
      BY <1>6, CallEffect DEF Goes, Keeps
    <2>3. ASSUME NEW d \in Callers, NEW e \in Callers PROVE OneHolder(d, e)'
      BY <2>1, <2>2, <2>3 DEF HolderInv, OneHolder, Only
    <2>4. ASSUME NEW d \in Callers PROVE HolderFact(d)'
      BY <2>1, <2>2, <2>4 DEF HolderInv, HolderFact, Only
    <2> QED
      BY <2>3, <2>4 DEF HolderInv
  <1>7. CASE Write(c)
    <2>1. At(c, "write") /\ Only(c)
      BY <1>7, WriteEffect
    <2>2. CASE Same(caller[c].gen) /\ Goes(c, "use") /\ row'.gen = row.gen
      <3>1. ASSUME NEW d \in Callers, NEW e \in Callers PROVE OneHolder(d, e)'
        BY <2>1, <2>2, <3>1 DEF HolderInv, OneHolder, Only, Goes, Keeps
      <3>2. ASSUME NEW d \in Callers PROVE HolderFact(d)'
        <4>1. CASE d = c
          BY <2>2, <4>1 DEF HolderFact, Goes, Keeps
        <4>2. CASE d # c
          <5>1. Holds(d) => caller[d].gen # row.gen
            BY <2>1, <2>2, <4>2 DEF HolderInv, OneHolder, Same
          <5> QED
            BY <2>1, <2>2, <4>2, <5>1 DEF HolderFact, Only
        <4> QED
          BY <4>1, <4>2
      <3> QED
        BY <3>1, <3>2 DEF HolderInv
    <2>3. CASE (Goes(c, "discard") \/ Returns(c)) /\ UNCHANGED row
      BY <2>1, <2>3, HolderLeaves DEF Goes, Keeps, Returns
    <2> QED
      BY <1>7, <2>2, <2>3, WriteEffect
  <1>8. CASE Discard(c)
    BY <1>8, ReturnsByReturn, HolderLeaves DEF TypeInv, Discard, Returns
  <1>9. CASE Flag(c) \/ Blame(c)
    <2>1. /\ Goes(c, "blame") \/ Returns(c)
          /\ row'.token = row.token /\ row'.gen = row.gen /\ row'.lease = row.lease
      BY <1>9, GoesByGoto, ReturnsByReturn, PlacesThere, FlagEffect
         DEF TypeInv, Flag, Blame, Flagged
    <2> QED
      BY <2>1, HolderLeaves DEF Goes, Keeps, Returns
  <1>10. CASE Use(c)
    BY <1>10, GoesByGoto, ReturnsByReturn, PlacesThere, HolderLeaves
       DEF TypeInv, Use, Goes, Keeps, Returns
  <1>11. CASE Crash(c)
    BY <1>11, ReturnsByReturn, HolderLeaves DEF TypeInv, Crash, Returns
  <1> QED
    BY <1>1, <1>2, <1>3, <1>4, <1>5, <1>6, <1>7, <1>8, <1>9, <1>10, <1>11 DEF Step

LEMMA RowHolds ==
  ASSUME TypeInv, HolderInv,
         Reconnect \/ Disconnect \/ RevokeWiped \/ Expire \/ LeaseEnds \/ Withdraw
  PROVE  HolderInv'
  <1>1. UNCHANGED caller
    BY DEF Reconnect, Disconnect, RevokeWiped, Expire, LeaseEnds, Withdraw
  <1>2. CASE Reconnect \/ Disconnect
    <2>1. row'.gen = row.gen + 1 /\ UNCHANGED accidents
      BY <1>2 DEF Reconnect, Disconnect, NextGen
    <2>2. ASSUME NEW d \in Callers PROVE HolderFact(d)'
      <3>1. caller'[d].gen < row'.gen
        BY <1>1, <2>1, GensTyped
      <3> QED
        BY <2>1, <3>1, GensTyped DEF HolderFact
    <2> QED
      BY <1>1, <2>1, <2>2 DEF HolderInv, Brisk, OneHolder, Holds
  <1>3. CASE RevokeWiped \/ Expire \/ Withdraw
    <2>1. row'.gen = row.gen /\ row'.token = row.token /\ row'.lease = row.lease
      BY <1>3 DEF TypeInv, TypeOK, Row, RevokeWiped, Expire, Withdraw
    <2>2. accidents \subseteq accidents'
      BY <1>3, FaultStep DEF TypeInv, NoFault, GiveBack, RevokeWiped, Expire, Withdraw
    <2> QED
      BY <1>1, <2>1, <2>2, HolderRests
  <1>4. CASE LeaseEnds
    <2>1. CASE Fault("slow")
      BY <2>1, FaultStep DEF TypeInv, HolderInv, Brisk
    <2>2. CASE Holders = {} /\ NoFault
      <3>1. \A d \in Callers : ~(Holds(d) /\ caller[d].gen = row.gen)
        BY <2>2 DEF Holders, Holds
      <3>2. row'.gen = row.gen /\ row'.token = row.token
        BY <1>4 DEF TypeInv, TypeOK, Row, LeaseEnds
      <3>3. ASSUME NEW d \in Callers PROVE Brisk => HolderFact(d)'
        BY <1>1, <3>1, <3>2, <3>3 DEF HolderInv, HolderFact, Holds, Holding, At
      <3> QED
        BY <1>1, <2>2, <3>3 DEF HolderInv, Brisk, NoFault, OneHolder, Holds
    <2> QED
      BY <1>4, <2>1, <2>2 DEF LeaseEnds
  <1> QED
    BY <1>2, <1>3, <1>4

(* No step forgets a fault.                                                 *)
LEMMA AccidentsGrow ==
  ASSUME TypeInv, [Next]_vars
  PROVE  accidents \subseteq accidents'
  <1>1. ASSUME NEW c \in Callers, Start(c) \/ Step(c) \/ GiveUp(c) \/ Crash(c)
        PROVE  accidents \subseteq accidents'
    BY <1>1, FaultStep
       DEF TypeInv, Start, Step, GiveUp, Crash, Read, Lease, Free, Call, Write, Discard, Failed,
           Refused, Flag, Use, Blame, Release, GiveBack, NoFault
  <1>2. CASE Reconnect \/ Disconnect \/ RevokeWiped \/ Expire \/ LeaseEnds \/ Withdraw
    BY <1>2, FaultStep
       DEF TypeInv, Reconnect, Disconnect, RevokeWiped, Expire, LeaseEnds, Withdraw, GiveBack,
           NoFault
  <1>3. CASE UNCHANGED vars
    BY <1>3 DEF vars
  <1> QED
    BY <1>1, <1>2, <1>3 DEF Next

LEMMA HolderStep == TypeInv /\ HolderInv /\ [Next]_vars => HolderInv'
  <1> SUFFICES ASSUME TypeInv, HolderInv, [Next]_vars PROVE HolderInv'
    OBVIOUS
  <1>1. CASE ~Brisk
    BY <1>1, AccidentsGrow DEF HolderInv, Brisk
  <1>2. CASE Brisk
    <2>1. ASSUME NEW c \in Callers, Start(c) \/ Step(c) \/ GiveUp(c) \/ Crash(c)
          PROVE  HolderInv'
      BY <1>2, <2>1, CallerHolds
    <2>2. CASE UNCHANGED vars
      BY <2>2, HolderRests DEF vars
    <2> QED
      BY <2>1, <2>2, RowHolds DEF Next
  <1> QED
    BY <1>1, <1>2

(* One refresh at a time: two calls under way never send the same refresh   *)
(* token, as long as no lease runs out on a live caller.                    *)
THEOREM FlightsAreSingle == Spec => []SingleFlight
  <1>1. TypeInv /\ GrantInv /\ HolderInv => SingleFlight
    <2> SUFFICES ASSUME TypeInv, GrantInv, HolderInv, Brisk,
                        NEW c \in Callers, NEW d \in Callers,
                        At(c, "call"), At(d, "call"), caller[c].token = caller[d].token
                 PROVE  c = d
      BY DEF SingleFlight, Brisk
    <2>1. Bears(c) /\ Bears(d) /\ Holds(c) /\ Holds(d)
      BY DEF Bears, Holds, Holding, At
    <2>2. caller[c].gen = caller[d].gen
      BY <2>1 DEF GrantInv, OneGeneration
    <2> QED
      BY <2>1, <2>2 DEF HolderInv, OneHolder
  <1> QED
    BY <1>1, TypeInit, TypeStep, GrantInit, GrantStep, HolderInit, HolderStep, PTL DEF Spec

-----------------------------------------------------------------------------
(* A token the service refuses stays refused until a reconnect: the row's   *)
(* is bad, and no caller carries a good one the row would take.             *)
Bad ==
  /\ ~Good(row.token)
  /\ \A d \in Callers : At(d, "write") /\ caller[d].gen = row.gen => ~Good(caller[d].token)

(* A caller that was told so, of the row as it is: it flags it, or would.   *)
Condemns(c) ==
  /\ row.token # NoToken
  /\ \/ caller[c].at \in {"refused", "flag"} /\ caller[c].gen = row.gen
     \/ At(c, "blame") /\ Same(caller[c].loaded)

FlagInv ==
  Brisk => /\ row.st = "needs_reauth" => ~Good(row.token)
           /\ \A c \in Callers : Condemns(c) => Bad

LEMMA FlagInit == Init => FlagInv
  BY DEF Init, FlagInv, Condemns, At, Idle

(* Grants fade, the row stays or takes what a caller carries, and nobody    *)
(* comes to carry anything.                                                 *)
LEMMA BadFades ==
  ASSUME TypeInv, NEW c \in Callers, Only(c), Fades, Bad, row.token # NoToken,
         row'.gen = row.gen, row'.token = row.token, ~At(c, "write")'
  PROVE  Bad'
  <1>1. ~Good(row.token)'
    BY RowToken DEF Bad, Good, Fades
  <1>2. ASSUME NEW d \in Callers, At(d, "write")', caller'[d].gen = row'.gen
        PROVE  ~Good(caller[d].token)'
    <2>1. d # c /\ caller'[d] = caller[d] /\ At(d, "write")
      BY <1>2 DEF Only, At
    <2>2. ~Good(caller[d].token)
      BY <1>2, <2>1 DEF Bad
    <2>3. /\ caller[d].token # NoToken /\ caller[d].token[1] \in Grants
          /\ caller[d].token[2] \in Nat /\ caller[d].token[2] > 0
      BY <2>1, CallerToken DEF Bears, Holds, Holding, At
    <2> QED
      BY <2>1, <2>2, <2>3 DEF Good, Fades
  <1> QED
    BY <1>1, <1>2 DEF Bad

LEMMA BadSleeps ==
  ASSUME TypeInv, UNCHANGED caller, Fades, Bad, row.token # NoToken,
         row'.gen = row.gen, row'.token = row.token
  PROVE  Bad'
  <1>1. ~Good(row.token)'
    BY RowToken DEF Bad, Good, Fades
  <1>2. ASSUME NEW d \in Callers, At(d, "write")', caller'[d].gen = row'.gen
        PROVE  ~Good(caller[d].token)'
    <2>1. caller'[d] = caller[d] /\ At(d, "write")
      BY <1>2 DEF At
    <2>2. ~Good(caller[d].token)
      BY <1>2, <2>1 DEF Bad
    <2>3. /\ caller[d].token # NoToken /\ caller[d].token[1] \in Grants
          /\ caller[d].token[2] \in Nat /\ caller[d].token[2] > 0
      BY <2>1, CallerToken DEF Bears, Holds, Holding, At
    <2> QED
      BY <2>1, <2>2, <2>3 DEF Good, Fades
  <1> QED
    BY <1>1, <1>2 DEF Bad

(* A call of the row's generation sends the row's token; one of another     *)
(* generation is of another grant.                                          *)
LEMMA CallIsOfRow ==
  ASSUME TypeInv, GrantInv, HolderInv, Brisk, NEW c \in Callers, At(c, "call"),
         row.token # NoToken
  PROVE  IF caller[c].gen = row.gen THEN caller[c].token = row.token
                                    ELSE caller[c].token[1] # row.token[1]
  <1>1. caller[c].gen = row.gen => caller[c].token = row.token
    BY DEF HolderInv, HolderFact, At
  <1>2. caller[c].gen # row.gen => caller[c].token[1] # row.token[1]
    BY RowToken, CallerToken DEF GrantInv, GrantFact, Bears, Holds, Holding, At
  <1> QED
    BY <1>1, <1>2

(* A rotation is of another grant than a bad row's.                         *)
LEMMA BadRotates ==
  ASSUME TypeInv, GrantInv, HolderInv, Brisk, NEW c \in Callers, At(c, "call"),
         Only(c), caller'[c].gen = caller[c].gen \/ ~At(c, "write")',
         Good(caller[c].token), Rotate(caller[c].token), Bad, row.token # NoToken,
         row'.gen = row.gen, row'.token = row.token
  PROVE  Bad'
  <1> DEFINE t == caller[c].token
  <1>1. t \in Tokens /\ t # NoToken /\ t[2] <= MaxRefreshes /\ t[1] \in Grants
    BY CallerToken DEF TypeInv, CallerKnown, Bears, Holds, Holding, At
  <1>2. \A g \in Grants : g # t[1] => current'[g] = current[g]
    BY <1>1, RotateStep DEF TypeInv
  <1>3. caller[c].gen # row.gen /\ t[1] # row.token[1]
    BY CallIsOfRow DEF Bad
  <1>4. ~Good(row.token)'
    BY <1>2, <1>3, RowToken DEF Bad, Good
  <1>5. ASSUME NEW d \in Callers, At(d, "write")', caller'[d].gen = row'.gen
        PROVE  ~Good(caller[d].token)'
    <2>1. d # c
      BY <1>3, <1>5
    <2>2. caller'[d] = caller[d] /\ At(d, "write") /\ caller[d].gen = row.gen
      BY <1>5, <2>1 DEF Only, At
    <2>3. caller[d].token[1] = row.token[1]
      BY <2>2 DEF GrantInv, GrantFact, Bears, Holds, Holding, At
    <2> QED
      BY <1>2, <1>3, <2>2, <2>3, RowToken DEF Bad, Good
  <1> QED
    BY <1>4, <1>5 DEF Bad

(* One caller moves, the row keeps its generation, token and status: what   *)
(* was condemned was bad, and what is bad stays so.                         *)
LEMMA FlagMoves ==
  ASSUME TypeInv, FlagInv, Brisk, NEW c \in Callers, Only(c),
         row'.gen = row.gen, row'.token = row.token, row'.st = row.st,
         row.st = "needs_reauth" => ~Good(row.token)',
         Bad /\ row.token # NoToken => Bad',
         Condemns(c)' => Bad'
  PROVE  FlagInv'
  <1>1. ASSUME NEW d \in Callers, Condemns(d)', d # c PROVE Bad'
    BY <1>1 DEF FlagInv, Condemns, Same, Only, At
  <1> QED
    BY <1>1 DEF FlagInv

LEMMA FadesUngood ==
  ASSUME TypeInv, Fades, row'.token = row.token, ~Good(row.token)
  PROVE  ~Good(row.token)'
  BY RowToken DEF Good, Fades

(* The same when grants only fade and the caller neither writes nor         *)
(* condemns.                                                                *)
LEMMA FlagPasses ==
  ASSUME TypeInv, FlagInv, Brisk, NEW c \in Callers, Only(c), Fades,
         row'.gen = row.gen, row'.token = row.token, row'.st = row.st,
         caller'[c].at \notin {"write", "refused", "flag", "blame"}
  PROVE  FlagInv'
  <1>1. row.st = "needs_reauth" => ~Good(row.token)'
    BY FadesUngood DEF FlagInv
  <1>2. Bad /\ row.token # NoToken => Bad'
    BY BadFades DEF At
  <1>3. ~Condemns(c)'
    BY DEF Condemns, At
  <1> QED
    BY <1>1, <1>2, <1>3, FlagMoves

(* What is refused of the row's own token is bad: nobody else holds the     *)
(* lease, so nobody carries another.                                        *)
LEMMA RefusedIsBad ==
  ASSUME TypeInv, HolderInv, Brisk, NEW c \in Callers, At(c, "call"),
         caller[c].gen = row.gen, row.token # NoToken, ~Good(caller[c].token)
  PROVE  Bad
  <1>1. ~Good(row.token)
    BY DEF HolderInv, HolderFact, At
  <1>2. \A d \in Callers : ~(At(d, "write") /\ caller[d].gen = row.gen)
    BY DEF HolderInv, OneHolder, Holds, Holding, At
  <1> QED
    BY <1>1, <1>2 DEF Bad

LEMMA CallerFlags ==
  ASSUME TypeInv, GrantInv, HolderInv, FlagInv, Brisk, NEW c \in Callers,
         Start(c) \/ Read(c) \/ GiveUp(c) \/ Lease(c) \/ Free(c) \/ Call(c) \/ Write(c)
         \/ Discard(c) \/ Failed(c) \/ Refused(c) \/ Crash(c)
  PROVE  FlagInv'
  <1>1. CASE Start(c)
    BY <1>1, StartEffect, FlagPasses DEF Quiet, Fades
  <1>2. CASE Read(c)
    BY <1>2, ReadEffect, FlagPasses DEF Quiet, Fades, Returns
  <1>3. CASE GiveUp(c)
    BY <1>3, ReturnsByReturn, FlagPasses DEF TypeInv, GiveUp, Fades, Returns
  <1>4. CASE Lease(c)
    <2>1. /\ Only(c) /\ row'.gen = row.gen /\ row'.token = row.token /\ row'.st = row.st
          /\ UNCHANGED current /\ caller'[c].at \in {"free", "call", "read"}
      BY <1>4, LeaseEffect DEF RowStays, Goes
    <2> QED
      BY <2>1, FlagPasses DEF Fades
  <1>5. CASE Free(c) \/ Failed(c)
    <2>1. Release(c) /\ UNCHANGED current /\ (Goto(c, "use") \/ Return(c))
      BY <1>5 DEF Free, Failed
    <2>2. Only(c) /\ caller'[c].at \in {"use", "idle"}
      BY <2>1, GoesByGoto, ReturnsByReturn, PlacesThere DEF TypeInv, Goes, Keeps, Returns
    <2> QED
      BY <2>1, <2>2, ReleaseEffect, FlagPasses DEF Released, RowStays, Fades
  <1>6. CASE Call(c)
    <2>1. At(c, "call") /\ UNCHANGED row /\ Only(c)
      BY <1>6, CallEffect
    <2>2. CASE /\ Good(caller[c].token) /\ Rotate(caller[c].token)
               /\ caller'[c].at \in {"write", "failed"} /\ caller'[c].gen = caller[c].gen
      <3>1. row.st = "needs_reauth" => ~Good(row.token)'
        <4> SUFFICES ASSUME row.st = "needs_reauth" PROVE ~Good(row.token)'
          OBVIOUS
        <4>1. row.token # NoToken /\ ~Good(row.token)
          BY DEF TypeInv, RowKnown, FlagInv
        <4>2. caller[c].token[1] # row.token[1]
          BY <2>1, <2>2, <4>1, CallIsOfRow
        <4>3. current'[row.token[1]] = current[row.token[1]]
          BY <2>1, <2>2, <4>1, <4>2, RowToken, RotateStep, CallerToken
             DEF TypeInv, CallerKnown, Bears, Holds, Holding, At
        <4> QED
          BY <2>1, <4>1, <4>3 DEF Good
      <3>2. Bad /\ row.token # NoToken => Bad'
        BY <2>1, <2>2, BadRotates
      <3>3. ~Condemns(c)'
        BY <2>2 DEF Condemns, At
      <3> QED
        BY <2>1, <3>1, <3>2, <3>3, FlagMoves
    <2>3. CASE ~Good(caller[c].token) /\ Goes(c, "refused") /\ UNCHANGED current
      <3>1. row.st = "needs_reauth" => ~Good(row.token)'
        BY <2>1, <2>3, FadesUngood DEF FlagInv, Fades
      <3>2. Bad /\ row.token # NoToken => Bad'
        BY <2>1, <2>3, BadFades DEF Goes, Fades, At
      <3>3. Condemns(c)' => Bad'
        <4> SUFFICES ASSUME Condemns(c)' PROVE Bad'
          OBVIOUS
        <4>1. row.token # NoToken /\ caller[c].gen = row.gen
          BY <2>1, <2>3 DEF Condemns, Goes, Keeps, At
        <4>2. Bad
          BY <2>1, <2>3, <4>1, RefusedIsBad
        <4> QED
          BY <3>2, <4>1, <4>2
      <3> QED
        BY <2>1, <3>1, <3>2, <3>3, FlagMoves
    <2>4. CASE Goes(c, "failed") /\ UNCHANGED current
      BY <2>1, <2>4, FlagPasses DEF Goes, Fades
    <2> QED
      BY <1>6, <2>2, <2>3, <2>4, CallEffect DEF Goes, Keeps
  <1>7. CASE Write(c)
    <2>1. At(c, "write") /\ UNCHANGED current /\ Only(c)
      BY <1>7, WriteEffect
    <2>2. CASE (Goes(c, "discard") \/ Returns(c)) /\ UNCHANGED row
      BY <2>1, <2>2, FlagPasses DEF Goes, Returns, Fades
    <2>3. CASE /\ Same(caller[c].gen) /\ Goes(c, "use") /\ row'.st = row.st
               /\ row'.gen = row.gen /\ row'.token = caller[c].token
      <3>1. row'.st = "active"
        BY <2>3 DEF Same
      <3>2. ASSUME NEW d \in Callers, Condemns(d)' PROVE Bad'
        <4>1. d # c
          BY <2>3, <3>2 DEF Condemns, Goes, At
        <4>2. row.token # NoToken
          BY <2>3 DEF TypeInv, RowKnown, Same
        <4>3. Bad
          BY <2>1, <2>3, <3>2, <4>1, <4>2 DEF FlagInv, Condemns, Same, Only, At
        <4>4. ~Good(row.token)'
          BY <2>1, <2>3, <4>3 DEF Bad, Same, Good
        <4>5. \A e \in Callers : At(e, "write")' => caller'[e].gen # row'.gen
          BY <2>1, <2>3 DEF HolderInv, OneHolder, Holds, Holding, Same, Only, Goes, At
        <4> QED
          BY <4>4, <4>5 DEF Bad
      <3> QED
        BY <3>1, <3>2 DEF FlagInv
    <2> QED
      BY <1>7, <2>2, <2>3, WriteEffect
  <1>8. CASE Discard(c)
    <2>1. Returns(c) /\ UNCHANGED row
      BY <1>8, ReturnsByReturn DEF TypeInv, Discard
    <2>2. Fades
      <3>1. caller[c].token \in Tokens
        BY DEF TypeInv, TypeOK, Caller
      <3> QED
        BY <1>8, <3>1, GiveBackStep DEF TypeInv, Discard, Fades
    <2> QED
      BY <2>1, <2>2, FlagPasses DEF Returns
  <1>9. CASE Refused(c)
    <2>1. /\ At(c, "refused") /\ Goes(c, "flag") /\ Release(c) /\ UNCHANGED current
      BY <1>9, GoesByGoto, PlacesThere DEF TypeInv, Refused
    <2>2. row'.gen = row.gen /\ row'.token = row.token /\ row'.st = row.st
      BY <2>1, ReleaseEffect DEF Released, RowStays
    <2>3. row.st = "needs_reauth" => ~Good(row.token)'
      BY <2>1, <2>2, FadesUngood DEF FlagInv, Fades
    <2>4. Bad /\ row.token # NoToken => Bad'
      BY <2>1, <2>2, BadFades DEF Goes, Keeps, Fades, At
    <2>5. Condemns(c)' => row.token # NoToken /\ Condemns(c)
      BY <2>1, <2>2 DEF Condemns, Goes, Keeps, At
    <2>6. Condemns(c)' => Bad'
      BY <2>4, <2>5 DEF FlagInv
    <2> QED
      BY <2>1, <2>2, <2>3, <2>4, <2>6, FlagMoves DEF Goes, Keeps
  <1>10. CASE Crash(c)
    <2>1. Returns(c) /\ UNCHANGED row
      BY <1>10, ReturnsByReturn DEF TypeInv, Crash
    <2>2. CASE UNCHANGED current
      BY <2>1, <2>2, FlagPasses DEF Returns, Fades
    <2>3. CASE At(c, "call") /\ Good(caller[c].token) /\ Rotate(caller[c].token)
      <3>1. row.st = "needs_reauth" => ~Good(row.token)'
        <4> SUFFICES ASSUME row.st = "needs_reauth" PROVE ~Good(row.token)'
          OBVIOUS
        <4>1. row.token # NoToken /\ ~Good(row.token)
          BY DEF TypeInv, RowKnown, FlagInv
        <4>2. caller[c].token[1] # row.token[1]
          BY <2>3, <4>1, CallIsOfRow
        <4>3. current'[row.token[1]] = current[row.token[1]]
          BY <2>3, <4>1, <4>2, RowToken, RotateStep, CallerToken
             DEF TypeInv, CallerKnown, Bears, Holds, Holding, At
        <4> QED
          BY <2>1, <4>1, <4>3 DEF Good
      <3>2. Bad /\ row.token # NoToken => Bad'
        BY <2>1, <2>3, BadRotates DEF Returns, At
      <3>3. ~Condemns(c)'
        BY <2>1 DEF Condemns, Returns, At
      <3> QED
        BY <2>1, <3>1, <3>2, <3>3, FlagMoves DEF Returns
    <2> QED
      BY <1>10, <2>2, <2>3 DEF Crash
  <1> QED
    BY <1>1, <1>2, <1>3, <1>4, <1>5, <1>6, <1>7, <1>8, <1>9, <1>10

(* Flagging condemns what was bad; who flagged a generation later than the  *)
(* one it loaded leaves the blame without effect.                           *)
LEMMA BlameFlags ==
  ASSUME TypeInv, GrantInv, FlagInv, Brisk, NEW c \in Callers, Flag(c) \/ Blame(c) \/ Use(c)
  PROVE  FlagInv'
  <1>1. /\ Goes(c, "blame") \/ Returns(c)
        /\ row'.token = row.token /\ row'.gen = row.gen /\ UNCHANGED current
        /\ row'.st = row.st \/ (row.st = "active" /\ row'.st = "needs_reauth" /\ Condemns(c))
    <2>1. CASE Flag(c)
      BY <2>1, GoesByGoto, ReturnsByReturn, PlacesThere, FlagEffect
         DEF TypeInv, RowKnown, Flag, Flagged, Same, Condemns, At
    <2>2. CASE Blame(c)
      BY <2>2, ReturnsByReturn, FlagEffect DEF TypeInv, RowKnown, Blame, Flagged, Same, Condemns
    <2>3. CASE Use(c)
      BY <2>3, GoesByGoto, ReturnsByReturn, PlacesThere DEF TypeInv, Use
    <2> QED
      BY <2>1, <2>2, <2>3
  <1>2. Only(c) /\ ~At(c, "write")'
    BY <1>1 DEF Goes, Keeps, Returns, At
  <1>3. Bad /\ row.token # NoToken => Bad'
    BY <1>1, <1>2, BadFades DEF Fades
  <1>4. row'.st = "needs_reauth" => ~Good(row.token)'
    BY <1>1, FadesUngood DEF FlagInv, Bad, Fades
  <1>5. Condemns(c)' => Bad'
    <2> SUFFICES ASSUME Condemns(c)' PROVE Bad'
      OBVIOUS
    <2>1. /\ Goes(c, "blame") /\ row'.st = "active" /\ caller[c].loaded = row.gen
          /\ row.token # NoToken /\ row.st = "active"
      BY <1>1 DEF Condemns, Goes, Keeps, Returns, Same, At
    <2>2. ~Flag(c)
      <3>1. ASSUME Flag(c) PROVE FALSE
        <4>1. At(c, "flag") /\ Set(caller[c].gen, [row EXCEPT !.st = "needs_reauth"])
          BY <2>1, <3>1, ReturnsByReturn DEF TypeInv, Flag, Returns, Goes
        <4>2. Flagged(caller[c].gen)
          BY <4>1, FlagEffect
        <4>3. caller[c].gen # row.gen
          BY <2>1, <4>2 DEF Flagged, Same
        <4> QED
          BY <2>1, <4>1, <4>3, GensTyped
      <3> QED
        BY <3>1
    <2>3. ~Blame(c)
      BY <2>1, ReturnsByReturn DEF TypeInv, Blame, Goes, Returns
    <2>4. At(c, "use") /\ current[caller[c].token[1]] = 0
      BY <2>1, <2>2, <2>3, ReturnsByReturn DEF TypeInv, Use, Goes, Returns
    <2>5. current[row.token[1]] = 0
      BY <2>1, <2>4 DEF GrantInv, GrantFact
    <2>6. \A d \in Callers : At(d, "write") /\ caller[d].gen = row.gen => ~Good(caller[d].token)
      BY <2>1, <2>5, CallerToken DEF GrantInv, GrantFact, Good, Bears, Holds, Holding, At
    <2>7. Bad
      BY <2>1, <2>5, <2>6, RowToken DEF Bad, Good
    <2> QED
      BY <1>3, <2>1, <2>7
  <1>6. ASSUME NEW d \in Callers, Condemns(d)', d # c PROVE Bad'
    <2>1. Condemns(d)
      BY <1>1, <1>2, <1>6 DEF Condemns, Same, Only, At
    <2> QED
      BY <1>3, <2>1 DEF FlagInv, Condemns
  <1> QED
    BY <1>4, <1>5, <1>6 DEF FlagInv

LEMMA RowFlags ==
  ASSUME TypeInv, FlagInv, Brisk,
         Reconnect \/ Disconnect \/ RevokeWiped \/ Expire \/ LeaseEnds \/ Withdraw
  PROVE  FlagInv'
  <1>1. UNCHANGED caller
    BY DEF Reconnect, Disconnect, RevokeWiped, Expire, LeaseEnds, Withdraw
  <1>2. CASE Reconnect \/ Disconnect
    <2>1. row'.gen = row.gen + 1 /\ row'.st # "needs_reauth"
      BY <1>2 DEF Reconnect, Disconnect, NextGen
    <2>2. ASSUME NEW d \in Callers PROVE ~Condemns(d)'
      <3>1. caller'[d].gen < row'.gen /\ caller'[d].loaded < row'.gen
        BY <1>1, <2>1, GensTyped
      <3> QED
        BY <2>1, <3>1, GensTyped DEF Condemns, Same
    <2> QED
      BY <2>1, <2>2 DEF FlagInv
  <1>3. CASE RevokeWiped \/ Expire \/ LeaseEnds \/ Withdraw
    <2>1. row'.gen = row.gen /\ row'.token = row.token /\ row'.st = row.st
      BY <1>3 DEF TypeInv, TypeOK, Row, RevokeWiped, Expire, LeaseEnds, Withdraw
    <2>2. Fades
      <3>1. leaver.token \in Tokens
        BY DEF TypeInv, TypeOK
      <3>2. CASE RevokeWiped
        BY <3>1, <3>2, GiveBackStep DEF TypeInv, RevokeWiped, Fades
      <3>3. CASE Expire \/ LeaseEnds \/ Withdraw
        BY <3>3 DEF TypeInv, TypeOK, Expire, LeaseEnds, Withdraw, Fades
      <3> QED
        BY <1>3, <3>2, <3>3
    <2>3. ASSUME NEW d \in Callers, Condemns(d)' PROVE Bad'
      <3>1. Condemns(d) /\ row.token # NoToken
        BY <1>1, <2>1, <2>3 DEF Condemns, Same, At
      <3> QED
        BY <1>1, <2>1, <2>2, <3>1, BadSleeps DEF FlagInv
    <2>4. row'.st = "needs_reauth" => ~Good(row.token)'
      BY <2>1, <2>2, FadesUngood DEF FlagInv
    <2> QED
      BY <2>3, <2>4 DEF FlagInv
  <1> QED
    BY <1>2, <1>3

LEMMA FlagStep == TypeInv /\ GrantInv /\ HolderInv /\ FlagInv /\ [Next]_vars => FlagInv'
  <1> SUFFICES ASSUME TypeInv, GrantInv, HolderInv, FlagInv, [Next]_vars PROVE FlagInv'
    OBVIOUS
  <1>1. CASE ~Brisk
    BY <1>1, AccidentsGrow DEF FlagInv, Brisk
  <1>2. CASE Brisk
    <2>1. ASSUME NEW c \in Callers, Start(c) \/ Step(c) \/ GiveUp(c) \/ Crash(c)
          PROVE  FlagInv'
      BY <1>2, <2>1, CallerFlags, BlameFlags DEF Step
    <2>2. CASE UNCHANGED vars
      BY <2>2 DEF vars, FlagInv, Brisk, Condemns, Bad, Same, Good, At
    <2> QED
      BY <1>2, <2>1, <2>2, RowFlags DEF Next
  <1> QED
    BY <1>1, <1>2

-----------------------------------------------------------------------------
(* An active connection works, if no answer, write or process was lost and  *)
(* the user withdrew nothing: its token is good, or its successor is on its *)
(* way to the row.  What came too late for the row is never revoked under   *)
(* it: that is of an earlier grant, where the service ends one at a time.   *)
OnItsWay ==
  \E c \in Callers : At(c, "write") /\ caller[c].gen = row.gen
                     /\ caller[c].token = Got(row.token) /\ Good(caller[c].token)

Sound == accidents \subseteq {"unrevoked"}

LiveInv ==
  /\ \A c \in Callers : At(c, "discard") => ~Same(caller[c].gen)
  /\ Sound /\ row.st = "active" => Good(row.token) \/ OnItsWay

LEMMA LiveInit == Init => LiveInv
  <1> SUFFICES ASSUME Init PROVE LiveInv
    OBVIOUS
  <1>1. 1 \in Grants /\ 1 \in 1..(MaxRefreshes + 1)
    BY ConnectionAssumption DEF Grants
  <1>2. Good(row.token)
    BY <1>1, PairToken DEF Init, Good
  <1> QED
    BY <1>2 DEF Init, LiveInv, At, Idle

(* A caller that was not writing moves; what is good of the row's grant     *)
(* stays, and an active row is the one it was.                              *)
LEMMA LiveMoves ==
  ASSUME TypeInv, GrantInv, LiveInv, NEW c \in Callers, Only(c),
         Sound' => Sound, row'.gen = row.gen, row'.token = row.token,
         row'.st = "active" => row.st = "active",
         row.st = "active" => current'[row.token[1]] = current[row.token[1]],
         Sound' => ~At(c, "write") \/ (caller[c].gen # row.gen),
         At(c, "discard")' => ~Same(caller[c].gen)'
  PROVE  LiveInv'
  <1>1. ASSUME NEW d \in Callers, At(d, "discard")' PROVE ~Same(caller[d].gen)'
    BY <1>1 DEF LiveInv, Same, Only, At
  <1>2. ASSUME Sound', row'.st = "active" PROVE Good(row.token)' \/ OnItsWay'
    <2>1. Good(row.token) => Good(row.token)'
      BY <1>2 DEF Good
    <2>2. ASSUME NEW d \in Callers, At(d, "write"), caller[d].gen = row.gen,
                 caller[d].token = Got(row.token), Good(caller[d].token)
          PROVE  OnItsWay'
      <3>1. d # c /\ caller'[d] = caller[d]
        BY <1>2, <2>2 DEF Only
      <3>2. caller[d].token[1] = row.token[1]
        BY <2>2 DEF Got
      <3>3. Good(caller[d].token)'
        BY <1>2, <2>2, <3>1, <3>2 DEF Good
      <3> QED
        BY <2>2, <3>1, <3>3 DEF OnItsWay, At, Got
    <2> QED
      BY <1>2, <2>1, <2>2 DEF LiveInv, OnItsWay
  <1> QED
    BY <1>1, <1>2 DEF LiveInv

LEMMA LiveSleeps ==
  ASSUME TypeInv, LiveInv, UNCHANGED <<caller, current>>, Sound' => Sound,
         row'.gen = row.gen, row'.token = row.token, row'.st = row.st
  PROVE  LiveInv'
  BY DEF LiveInv, OnItsWay, Good, Got, Same, At

(* A careless accident leaves only what the discard knows.                  *)
LEMMA LiveUnsound ==
  ASSUME TypeInv, LiveInv, NEW c \in Callers, Only(c), ~Sound',
         row'.gen = row.gen, row'.st = "active" => row.st = "active", ~At(c, "discard")'
  PROVE  LiveInv'
  BY DEF LiveInv, Same, Only, At

LEMMA Unsound ==
  ASSUME TypeInv, Fault("crash") \/ Fault("lost") \/ Fault("write") \/ Fault("withdrawn")
  PROVE  ~Sound'
  BY FaultStep DEF TypeInv, Sound

LEMMA ActiveToken ==
  ASSUME TypeInv, row.st = "active"
  PROVE  row.token # NoToken
  BY DEF TypeInv, RowKnown

LEMMA CallerLives ==
  ASSUME TypeInv, GrantInv, HolderInv, LiveInv, Brisk, NEW c \in Callers,
         Start(c) \/ Read(c) \/ GiveUp(c) \/ Lease(c) \/ Free(c) \/ Call(c)
         \/ Failed(c) \/ Refused(c) \/ Flag(c) \/ Use(c) \/ Blame(c) \/ Crash(c)
  PROVE  LiveInv'
  <1> USE DEF At
  <1>1. CASE Start(c)
    BY <1>1, StartEffect, LiveMoves DEF Quiet, Sound
  <1>2. CASE Read(c)
    BY <1>2, ReadEffect, LiveMoves DEF Quiet, Sound, Returns
  <1>3. CASE GiveUp(c)
    BY <1>3, ReturnsByReturn, LiveMoves DEF TypeInv, GiveUp, Sound, Returns
  <1>4. CASE Lease(c)
    <2>1. /\ Only(c) /\ row'.gen = row.gen /\ row'.token = row.token /\ row'.st = row.st
          /\ UNCHANGED <<current, accidents>> /\ caller'[c].at \in {"free", "call", "read"}
          /\ caller[c].at = "lease"
      BY <1>4, LeaseEffect DEF RowStays, Goes
    <2> QED
      BY <2>1, LiveMoves DEF Sound
  <1>5. CASE Free(c) \/ Failed(c) \/ Refused(c)
    <2>1. /\ Release(c) /\ UNCHANGED current /\ caller[c].at # "write"
          /\ Goto(c, "use") \/ Goto(c, "flag") \/ Return(c)
      BY <1>5 DEF Free, Failed, Refused
    <2>2. Only(c) /\ caller'[c].at \in {"use", "flag", "idle"}
      BY <2>1, GoesByGoto, ReturnsByReturn, PlacesThere DEF TypeInv, Goes, Keeps, Returns
    <2>3. row'.gen = row.gen /\ row'.token = row.token /\ row'.st = row.st /\ (Sound' => Sound)
      BY <2>1, ReleaseEffect DEF Released, RowStays, Sound
    <2> QED
      BY <2>1, <2>2, <2>3, LiveMoves
  <1>6. CASE Call(c)
    <2>1. At(c, "call") /\ UNCHANGED row /\ Only(c)
      BY <1>6, CallEffect
    <2>2. CASE /\ NoFault /\ Good(caller[c].token) /\ Rotate(caller[c].token)
               /\ caller'[c].at = "write" /\ caller'[c].token = Got(caller[c].token)
               /\ caller'[c].gen = caller[c].gen
      <3> DEFINE t == caller[c].token
      <3>1. t \in Tokens /\ t # NoToken /\ t[2] <= MaxRefreshes /\ t[1] \in Grants
        BY <2>1, CallerToken DEF TypeInv, CallerKnown, Bears, Holds, Holding
      <3>2. /\ current'[t[1]] = t[2] + 1
            /\ \A g \in Grants : g # t[1] => current'[g] = current[g]
        BY <2>2, <3>1, RotateStep DEF TypeInv
      <3>3. CASE row.st = "active" /\ caller[c].gen = row.gen
        <4>1. t = row.token
          BY <2>1, <3>3, ActiveToken, CallIsOfRow
        <4>2. Good(caller[c].token)'
          <5>1. Got(t) # NoToken /\ Got(t)[1] = t[1] /\ Got(t)[2] = t[2] + 1
            BY <3>1, NextToken
          <5> QED
            BY <2>2, <3>2, <5>1 DEF Good
        <4>3. caller'[c].token = Got(row'.token)
          BY <2>1, <2>2, <4>1
        <4>4. OnItsWay'
          BY <2>1, <2>2, <3>3, <4>2, <4>3 DEF OnItsWay
        <4>5. ASSUME NEW d \in Callers, At(d, "discard")' PROVE ~Same(caller[d].gen)'
          BY <2>1, <2>2, <4>5 DEF LiveInv, Same, Only
        <4> QED
          BY <4>4, <4>5 DEF LiveInv
      <3>4. CASE ~(row.st = "active" /\ caller[c].gen = row.gen)
        <4>1. row.st = "active" => current'[row.token[1]] = current[row.token[1]]
          BY <2>1, <3>2, <3>4, ActiveToken, RowToken, CallIsOfRow
        <4> QED
          BY <2>1, <2>2, <4>1, LiveMoves DEF NoFault, Sound
      <3> QED
        BY <3>3, <3>4
    <2>3. CASE Goes(c, "refused") /\ UNCHANGED current /\ NoFault
      BY <2>1, <2>3, LiveMoves DEF Goes, NoFault, Sound
    <2>4. CASE Fault("lost") /\ Goes(c, "failed")
      BY <2>1, <2>4, Unsound, LiveUnsound DEF Goes
    <2> QED
      BY <1>6, <2>2, <2>3, <2>4, CallEffect
  <1>7. CASE Flag(c) \/ Blame(c)
    <2>1. /\ Goes(c, "blame") \/ Returns(c)
          /\ row'.token = row.token /\ row'.gen = row.gen /\ UNCHANGED current
          /\ row'.st = "active" => row.st = "active"
          /\ caller[c].at \in {"flag", "blame"}
          /\ NoFault \/ Fault("write")
      BY <1>7, GoesByGoto, ReturnsByReturn, PlacesThere, FlagEffect
         DEF TypeInv, Flag, Blame, Flagged, Same
    <2>2. Only(c) /\ caller'[c].at \in {"blame", "idle"} /\ (Sound' => Sound)
      BY <2>1, FaultStep DEF TypeInv, Goes, Keeps, Returns, NoFault, Sound
    <2> QED
      BY <2>1, <2>2, LiveMoves
  <1>8. CASE Use(c)
    <2>1. (Goes(c, "blame") \/ Returns(c)) /\ Quiet /\ caller[c].at = "use"
      BY <1>8, GoesByGoto, ReturnsByReturn, PlacesThere DEF TypeInv, Use, Quiet
    <2>2. Only(c) /\ caller'[c].at \in {"blame", "idle"}
      BY <2>1 DEF Goes, Keeps, Returns
    <2> QED
      BY <2>1, <2>2, LiveMoves DEF Quiet, Sound
  <1>9. CASE Crash(c)
    BY <1>9, ReturnsByReturn, Unsound, LiveUnsound DEF TypeInv, Crash, Returns
  <1> QED
    BY <1>1, <1>2, <1>3, <1>4, <1>5, <1>6, <1>7, <1>8, <1>9

(* The writer of the row's generation is the caller the row waits for: were *)
(* the row's own token good, nobody could carry one beyond it.              *)
LEMMA WriteLives ==
  ASSUME TypeInv, GrantInv, NumberInv, HolderInv, LiveInv, Brisk, NEW c \in Callers, Write(c)
  PROVE  LiveInv'
  <1> USE DEF At
  <1>1. At(c, "write") /\ UNCHANGED current /\ Only(c)
    BY WriteEffect
  <1>2. CASE /\ NoFault /\ Same(caller[c].gen) /\ Goes(c, "use")
             /\ row'.st = row.st /\ row'.gen = row.gen /\ row'.token = caller[c].token
    <2>1. row.token # NoToken /\ caller[c].gen = row.gen /\ row.st = "active"
      BY <1>2, ActiveToken DEF Same
    <2>2. caller[c].token[1] = row.token[1]
      BY <1>1, <2>1 DEF GrantInv, GrantFact, Bears, Holds, Holding
    <2>3. ~Good(row.token)
      <3>1. /\ current[caller[c].token[1]] \in {0, caller[c].token[2]}
            /\ row.token[2] < caller[c].token[2]
        BY <1>1, <2>1, <2>2 DEF NumberInv, NumberFact, Carries, SameGrant
      <3>2. caller[c].token[2] \in Nat
        BY <1>1, CallerToken DEF Bears, Holds, Holding
      <3> QED
        BY <2>1, <2>2, <3>1, <3>2, RowToken DEF Good
    <2>4. OnItsWay => Good(caller[c].token)
      BY <1>1, <2>1 DEF OnItsWay, HolderInv, OneHolder, Holds, Holding
    <2>5. Sound' => Good(row.token)'
      BY <1>1, <1>2, <2>1, <2>3, <2>4 DEF LiveInv, Good, NoFault, Sound
    <2>6. ASSUME NEW d \in Callers, At(d, "discard")' PROVE ~Same(caller[d].gen)'
      BY <1>1, <1>2, <2>6 DEF LiveInv, Same, Only, Goes
    <2> QED
      BY <2>5, <2>6 DEF LiveInv
  <1>3. CASE NoFault /\ ~Same(caller[c].gen) /\ Goes(c, "discard") /\ UNCHANGED row
    <2>1. ~Same(caller[c].gen)'
      BY <1>3 DEF Same, Goes, Keeps
    <2>2. CASE row.st = "active"
      <3>1. caller[c].gen # row.gen
        BY <1>3, <2>2 DEF Same
      <3> QED
        BY <1>1, <1>3, <2>1, <3>1, LiveMoves DEF NoFault, Sound
    <2>3. CASE row.st # "active"
      BY <1>1, <1>3, <2>1, <2>3 DEF LiveInv, Same, Only
    <2> QED
      BY <2>2, <2>3
  <1>4. CASE Fault("write") /\ Returns(c) /\ UNCHANGED row
    BY <1>1, <1>4, Unsound, LiveUnsound DEF Returns
  <1> QED
    BY <1>2, <1>3, <1>4, WriteEffect

(* What is discarded is of another grant than an active row's.              *)
LEMMA DiscardLives ==
  ASSUME TypeInv, GrantInv, LiveInv, ~Wide, NEW c \in Callers, Discard(c)
  PROVE  LiveInv'
  <1>1. Returns(c) /\ UNCHANGED row /\ At(c, "discard")
    BY ReturnsByReturn DEF TypeInv, Discard
  <1>2. caller[c].token \in Tokens
    BY DEF TypeInv, TypeOK, Caller
  <1>3. row.st = "active" => current'[row.token[1]] = current[row.token[1]]
    <2> SUFFICES ASSUME row.st = "active" PROVE current'[row.token[1]] = current[row.token[1]]
      OBVIOUS
    <2>1. row.token # NoToken /\ caller[c].gen # row.gen
      BY <1>1, ActiveToken DEF LiveInv, Same
    <2>2. caller[c].token[1] # row.token[1]
      BY <1>1, <2>1, CallerToken, RowToken DEF GrantInv, GrantFact, Bears
    <2> QED
      BY <1>2, <2>1, <2>2, RowToken, GiveBackStep DEF TypeInv, Discard
  <1>4. Sound' => Sound
    BY FaultStep DEF TypeInv, Discard, GiveBack, NoFault, Sound
  <1> QED
    BY <1>1, <1>3, <1>4, LiveMoves DEF Returns, At

LEMMA RowLives ==
  ASSUME TypeInv, LiveInv,
         Reconnect \/ Disconnect \/ RevokeWiped \/ Expire \/ LeaseEnds \/ Withdraw
  PROVE  LiveInv'
  <1>1. UNCHANGED caller
    BY DEF Reconnect, Disconnect, RevokeWiped, Expire, LeaseEnds, Withdraw
  <1>2. CASE Reconnect
    <2>1. PICK g \in Grants :
            /\ current' = [current EXCEPT ![g] = 1]
            /\ row' = [st |-> "active", gen |-> NextGen, token |-> <<g, 1>>,
                       fresh |-> TRUE, lease |-> "none"]
      BY <1>2 DEF Reconnect
    <2>2. <<g, 1>> # NoToken
      BY PairToken, ConnectionAssumption
    <2>3. Good(row.token)'
      BY <2>1, <2>2 DEF TypeInv, TypeOK, Good
    <2>4. ASSUME NEW d \in Callers PROVE ~Same(caller[d].gen)'
      BY <1>1, <2>1, <2>4, GensTyped DEF Same, NextGen
    <2> QED
      BY <2>3, <2>4 DEF LiveInv
  <1>3. CASE Disconnect
    BY <1>3 DEF Disconnect, LiveInv, Same
  <1>4. CASE RevokeWiped
    <2>1. row'.st # "active" /\ UNCHANGED row
      BY <1>4 DEF TypeInv, RowKnown, RevokeWiped
    <2> QED
      BY <2>1 DEF LiveInv, Same
  <1>5. CASE Expire \/ LeaseEnds
    <2>1. row'.gen = row.gen /\ row'.token = row.token /\ row'.st = row.st /\ UNCHANGED current
      BY <1>5 DEF TypeInv, TypeOK, Row, Expire, LeaseEnds
    <2>2. Sound' => Sound
      BY <1>5, FaultStep DEF TypeInv, Expire, LeaseEnds, NoFault, Sound
    <2> QED
      BY <1>1, <2>1, <2>2, LiveSleeps
  <1>6. CASE Withdraw
    BY <1>1, <1>6, Unsound DEF Withdraw, LiveInv, Same, At
  <1> QED
    BY <1>2, <1>3, <1>4, <1>5, <1>6

(* The two halves, as long as nobody is slow.                               *)
LiveOrSlow == Brisk => LiveInv

LEMMA LiveStep ==
  ASSUME ~Wide
  PROVE  TypeInv /\ GrantInv /\ NumberInv /\ HolderInv /\ LiveOrSlow /\ [Next]_vars => LiveOrSlow'
  <1> SUFFICES ASSUME TypeInv, GrantInv, NumberInv, HolderInv, LiveOrSlow, [Next]_vars
               PROVE  LiveOrSlow'
    OBVIOUS
  <1>1. CASE ~Brisk
    BY <1>1, AccidentsGrow DEF LiveOrSlow, Brisk
  <1>2. CASE Brisk
    <2>1. LiveInv
      BY <1>2 DEF LiveOrSlow
    <2>2. ASSUME NEW c \in Callers, Start(c) \/ Step(c) \/ GiveUp(c) \/ Crash(c)
          PROVE  LiveInv'
      BY <1>2, <2>1, <2>2, CallerLives, WriteLives, DiscardLives DEF Step
    <2>3. CASE UNCHANGED vars
      BY <2>1, <2>3, LiveSleeps DEF vars, LiveOrSlow, Sound
    <2> QED
      BY <2>1, <2>2, <2>3, RowLives DEF Next, LiveOrSlow
  <1> QED
    BY <1>1, <1>2

(* The status is true to the stored token, where the service revokes one    *)
(* grant at a time and no lease runs out on a live caller: a flagged        *)
(* connection is refused whatever was lost, and an active one works unless  *)
(* something was.  (A service that ends every grant of the account at once  *)
(* makes it false: a run refutes it there.)                                 *)
THEOREM StatusTellsTheTruth ==
  ASSUME ~Wide
  PROVE  Spec => []StatusIsTrue
  <1>1. TypeInv /\ FlagInv /\ LiveOrSlow => StatusIsTrue
    BY DEF FlagInv, LiveOrSlow, LiveInv, Brisk, Sound, OnItsWay, StatusIsTrue
  <1>2. Init => LiveOrSlow
    BY LiveInit DEF LiveOrSlow
  <1>3. TypeInv /\ GrantInv /\ NumberInv /\ HolderInv /\ LiveOrSlow /\ [Next]_vars => LiveOrSlow'
    BY LiveStep
  <1> QED
    BY <1>1, <1>2, <1>3, TypeInit, TypeStep, GrantInit, GrantStep, NumberInit, NumberStep,
       HolderInit, HolderStep, FlagInit, FlagStep, PTL DEF Spec
=============================================================================
