------------------------ MODULE IntegrationConnection ------------------------
(***************************************************************************)
(* The tokens of one connection to another service (lib/integrations/core: *)
(* tokens, connections, reauth).  A delivery, a test or a picker reads the *)
(* connection and asks for an access token; when that expires soon, one    *)
(* caller at a time refreshes it under a lease, with no lock held while    *)
(* the service answers.  The service replaces the refresh token at every   *)
(* use (it rotates).  Meanwhile users reconnect and disconnect.            *)
(*                                                                         *)
(* A token <<g, n>> is the n-th of the g-th authorisation (grant) a user   *)
(* gave; its access token lives as long as the grant.                      *)
(***************************************************************************)
EXTENDS Naturals, FiniteSets

CONSTANTS
  Callers,       \* processes that may need a token
  NoToken,       \* a column that is null
  Wide,          \* revoking a token ends every grant of the account
  Faults,        \* what may go wrong in an instance
  MaxGrants,     \* bound: authorisations
  MaxRefreshes,  \* bound: refreshes of a grant
  MaxFaults      \* bound: faults

ASSUME ConnectionAssumption ==
  /\ NoToken \notin Nat \X Nat
  /\ Wide \in BOOLEAN
  /\ Faults \subseteq {"crash", "lost", "write", "slow", "unrevoked", "withdrawn"}
  /\ {MaxGrants, MaxRefreshes} \subseteq Nat \ {0} /\ MaxFaults \in Nat

VARIABLES
  row,        \* integration_connections
  current,    \* at the service: the number of a grant's token that is good
  revokes,    \* has the provider a way to revoke tokens? (Microsoft, Notion: none)
  caller,     \* where each caller is
  leaver,     \* where the disconnect is, and the token it read
  accidents,  \* faults that happened
  faults      \* how many

vars == <<row, current, revokes, caller, leaver, accidents, faults>>

Grants == 1..MaxGrants
Tokens == (Grants \X (1..(MaxRefreshes + 1))) \cup {NoToken}

Row == [st : {"active", "needs_reauth", "revoked"}, gen : Nat, token : Tokens,
        fresh : BOOLEAN,                    \* expires_at is not near
        lease : {"none", "live", "over"}]   \* refresh_lease_until

Places == {"idle", "read", "lease", "free", "call", "write", "discard", "failed",
           "refused", "flag", "use", "blame"}

Caller == [at : Places,
           loaded : Nat,     \* generation of the row it was started with
           gen : Nat,        \* generation under which it refreshes
           token : Tokens]   \* what it sends, or got

TypeOK ==
  /\ row \in Row
  /\ current \in [Grants -> 0..(MaxRefreshes + 1)]
  /\ revokes \in BOOLEAN
  /\ caller \in [Callers -> Caller]
  /\ leaver \in [at : {"idle", "revoke", "done"}, token : Tokens]
  /\ accidents \subseteq Faults /\ faults \in 0..MaxFaults

Idle == [at |-> "idle", loaded |-> 0, gen |-> 0, token |-> NoToken]

Init ==
  /\ row = [st |-> "active", gen |-> 0, token |-> <<1, 1>>, fresh |-> TRUE, lease |-> "none"]
  /\ current = [g \in Grants |-> IF g = 1 THEN 1 ELSE 0]
  /\ revokes \in BOOLEAN
  /\ caller = [c \in Callers |-> Idle]
  /\ leaver = [at |-> "idle", token |-> NoToken]
  /\ accidents = {} /\ faults = 0

-----------------------------------------------------------------------------
At(c, place) == caller[c].at = place
Goto(c, place) == caller' = [caller EXCEPT ![c].at = place]
Return(c) == caller' = [caller EXCEPT ![c] = Idle]

Fault(kind) ==
  /\ kind \in Faults /\ faults < MaxFaults
  /\ accidents' = accidents \cup {kind} /\ faults' = faults + 1

NoFault == UNCHANGED <<accidents, faults>>

(* The service: a refresh token that was used or revoked is none.           *)
Good(t) == t # NoToken /\ current[t[1]] = t[2]

Rotate(t) == current' = [current EXCEPT ![t[1]] = t[2] + 1]

Revoke(t) ==
  current' = [g \in Grants |-> IF Good(t) /\ (Wide \/ g = t[1]) THEN 0 ELSE current[g]]

(* Tokens nobody will need: revoked where the provider can (oauth.revoke),  *)
(* which may fail; elsewhere their grant stays as it is.                    *)
GiveBack(t) ==
  \/ revokes /\ Revoke(t) /\ NoFault
  \/ revokes /\ Fault("unrevoked") /\ UNCHANGED current
  \/ ~revokes /\ UNCHANGED current /\ NoFault

(* updateConnectionIfCurrent: active, and of the generation that was read.  *)
Same(gen) == row.st = "active" /\ row.gen = gen

Set(gen, new) == row' = IF Same(gen) THEN new ELSE row

-----------------------------------------------------------------------------
(* A caller reads the connection, whose generation it will blame, and calls *)
(* the service with the token getAccessToken gives it.                      *)
Start(c) ==
  /\ At(c, "idle") /\ row.st = "active"
  /\ caller' = [caller EXCEPT ![c] = [Idle EXCEPT !.at = "read", !.loaded = row.gen]]
  /\ UNCHANGED <<row, current, revokes, leaver, accidents, faults>>

(* getAccessToken and each turn of refreshWithLease.                        *)
Read(c) ==
  /\ At(c, "read")
  /\ \/ row.st # "active" /\ Return(c)      \* connection_inactive
     \/ /\ row.st = "active" /\ row.fresh
        /\ caller' = [caller EXCEPT ![c].at = "use", ![c].token = row.token]
     \/ /\ row.st = "active" /\ ~row.fresh
        /\ caller' = [caller EXCEPT ![c].at = "lease", ![c].gen = row.gen]
  /\ UNCHANGED <<row, current, revokes, leaver, accidents, faults>>

(* Mutant: only a lease that was given back can be taken.                   *)
LeaseNone == row.lease = "none"

(* Mutant: the lease is not looked at.                                      *)
LeaseAny == TRUE

LeaseFree == row.lease # "live"

Missed(c) == ~(Same(caller[c].gen) /\ LeaseFree)

(* acquireRefreshLease, one conditional update that returns the row.  Who   *)
(* misses it waits and reads again.                                         *)
Lease(c) ==
  /\ At(c, "lease")
  /\ \/ /\ ~Missed(c)
        /\ row' = [row EXCEPT !.lease = "live"]
        /\ caller' = [caller EXCEPT ![c].at = IF row.fresh THEN "free" ELSE "call",
                                    ![c].token = row.token]
     \/ Missed(c) /\ Goto(c, "read") /\ UNCHANGED row
  /\ UNCHANGED <<current, revokes, leaver, accidents, faults>>

(* After a lease and five seconds of it: refresh_in_progress.               *)
GiveUp(c) ==
  /\ At(c, "lease") /\ Missed(c) /\ Return(c)
  /\ UNCHANGED <<row, current, revokes, leaver, accidents, faults>>

(* The lease goes back; an error of this write is swallowed.                *)
Release(c) ==
  \/ Set(caller[c].gen, [row EXCEPT !.lease = "none"]) /\ NoFault
  \/ Fault("write") /\ UNCHANGED row

(* Somebody refreshed between the read and the lease.                       *)
Free(c) ==
  /\ At(c, "free") /\ Goto(c, "use")
  /\ Release(c)
  /\ UNCHANGED <<current, revokes, leaver>>

Got(t) == <<t[1], t[2] + 1>>

(* The service answers, or its answer is lost with or without its effect.   *)
Call(c) ==
  LET t == caller[c].token IN
  /\ At(c, "call")
  /\ \/ /\ Good(t) /\ Rotate(t)
        /\ caller' = [caller EXCEPT ![c].at = "write", ![c].token = Got(t)]
        /\ NoFault
     \/ ~Good(t) /\ Goto(c, "refused") /\ UNCHANGED current /\ NoFault
     \/ /\ Fault("lost") /\ Goto(c, "failed")
        /\ UNCHANGED current \/ (Good(t) /\ Rotate(t))
  /\ UNCHANGED <<row, revokes, leaver>>

(* The new tokens replace those of the generation that asked; a database    *)
(* error is thrown with the lease in place.                                 *)
Write(c) ==
  /\ At(c, "write")
  /\ \/ /\ Same(caller[c].gen)
        /\ row' = [row EXCEPT !.token = caller[c].token, !.fresh = TRUE, !.lease = "none"]
        /\ Goto(c, "use") /\ NoFault
     \/ ~Same(caller[c].gen) /\ Goto(c, "discard") /\ UNCHANGED row /\ NoFault
     \/ Fault("write") /\ Return(c) /\ UNCHANGED row
  /\ UNCHANGED <<current, revokes, leaver>>

(* Mutant: tokens that came too late are dropped.                           *)
DiscardSilently(c) ==
  /\ At(c, "discard") /\ Return(c)
  /\ UNCHANGED <<row, current, revokes, leaver, accidents, faults>>

(* The tokens of a connection that changed are given back.                  *)
Discard(c) ==
  /\ At(c, "discard") /\ Return(c)
  /\ GiveBack(caller[c].token)
  /\ UNCHANGED <<row, revokes, leaver>>

(* An error that may pass gives the lease back.                             *)
Failed(c) ==
  /\ At(c, "failed") /\ Return(c)
  /\ Release(c)
  /\ UNCHANGED <<current, revokes, leaver>>

(* invalid_grant: the lease goes back, then the connection is flagged.      *)
Refused(c) ==
  /\ At(c, "refused") /\ Goto(c, "flag")
  /\ Release(c)
  /\ UNCHANGED <<current, revokes, leaver>>

Flag(c) ==
  /\ At(c, "flag")
  /\ \/ Set(caller[c].gen, [row EXCEPT !.st = "needs_reauth"]) /\ Goto(c, "blame") /\ NoFault
     \/ Fault("write") /\ Return(c) /\ UNCHANGED row
  /\ UNCHANGED <<current, revokes, leaver>>

(* The call the token was for: refused if the grant is over.                *)
Use(c) ==
  /\ At(c, "use")
  /\ IF current[caller[c].token[1]] = 0 THEN Goto(c, "blame") ELSE Return(c)
  /\ UNCHANGED <<row, current, revokes, leaver, accidents, faults>>

(* Its caller flags the generation it had read before it asked.             *)
Blame(c) ==
  /\ At(c, "blame") /\ Return(c)
  /\ \/ Set(caller[c].loaded, [row EXCEPT !.st = "needs_reauth"]) /\ NoFault
     \/ Fault("write") /\ UNCHANGED row
  /\ UNCHANGED <<current, revokes, leaver>>

Step(c) ==
  \/ Read(c) \/ Lease(c) \/ Free(c) \/ Call(c) \/ Write(c) \/ Discard(c)
  \/ Failed(c) \/ Refused(c) \/ Flag(c) \/ Use(c) \/ Blame(c)

-----------------------------------------------------------------------------
(* Users, time and faults.                                                  *)

(* Mutant: a reconnect keeps the generation.                                *)
NextGenSame == row.gen

NextGen == row.gen + 1

(* The callback of a new authorisation, under the row's lock.  A revoked    *)
(* row is left alone: the account gets another connection.                  *)
Reconnect ==
  \E g \in Grants :
    /\ row.st # "revoked" /\ current[g] = 0 /\ \A h \in Grants : current[h] # 0 => h < g
    /\ g > row.token[1]
    /\ current' = [current EXCEPT ![g] = 1]
    /\ row' = [st |-> "active", gen |-> NextGen, token |-> <<g, 1>>, fresh |-> TRUE, lease |-> "none"]
    /\ UNCHANGED <<caller, revokes, leaver, accidents, faults>>

(* disconnectConnection: wiped under the lock, then given back.             *)
(* The rules and deliveries it goes on to cancel are IntegrationDelivery's. *)
Disconnect ==
  /\ leaver.at = "idle"
  /\ leaver' = [at |-> "revoke", token |-> row.token]
  /\ row' = [st |-> "revoked", gen |-> NextGen, token |-> NoToken, fresh |-> TRUE, lease |-> "none"]
  /\ UNCHANGED <<current, revokes, caller, accidents, faults>>

RevokeWiped ==
  /\ leaver.at = "revoke" /\ leaver' = [leaver EXCEPT !.at = "done"]
  /\ GiveBack(leaver.token)
  /\ UNCHANGED <<row, revokes, caller>>

(* expires_at comes near.                                                   *)
Expire ==
  /\ row.st # "revoked" /\ row.fresh /\ row.token[2] <= MaxRefreshes
  /\ row' = [row EXCEPT !.fresh = FALSE]
  /\ UNCHANGED <<current, caller, revokes, leaver, accidents, faults>>

Holding == {"free", "call", "write", "failed", "refused"}

Holders == {c \in Callers : caller[c].at \in Holding /\ caller[c].gen = row.gen}

(* The lease is longer than any call, so it runs out on a caller that died, *)
(* or on one that lives and is slow.                                        *)
LeaseEnds ==
  /\ row.lease = "live"
  /\ \/ Holders = {} /\ NoFault
     \/ Holders # {} /\ Fault("slow")
  /\ row' = [row EXCEPT !.lease = "over"]
  /\ UNCHANGED <<current, caller, revokes, leaver>>

(* A process dies; the service may have got its call.                       *)
Crash(c) ==
  /\ ~At(c, "idle") /\ Fault("crash") /\ Return(c)
  /\ \/ UNCHANGED current
     \/ At(c, "call") /\ Good(caller[c].token) /\ Rotate(caller[c].token)
  /\ UNCHANGED <<row, revokes, leaver>>

(* The user withdraws a grant at the service.                               *)
Withdraw ==
  /\ Fault("withdrawn")
  /\ \E g \in Grants : current[g] # 0 /\ current' = [current EXCEPT ![g] = 0]
  /\ UNCHANGED <<row, caller, revokes, leaver>>

Next ==
  \/ \E c \in Callers : Start(c) \/ Step(c) \/ GiveUp(c) \/ Crash(c)
  \/ Reconnect \/ Disconnect \/ RevokeWiped
  \/ Expire \/ LeaseEnds \/ Withdraw

Spec == Init /\ [][Next]_vars

(* Processes go on, and time passes; nobody has to ask, or to give up.      *)
FairSpec ==
  /\ Spec
  /\ \A c \in Callers : WF_vars(Step(c))
  /\ WF_vars(Holders = {} /\ LeaseEnds)

-----------------------------------------------------------------------------
(* No two calls with one refresh token are under way, however callers,      *)
(* crashes, reconnects and disconnects interleave, as long as no lease runs *)
(* out on a live caller (tokens.ts, lines 8-11).                            *)
SingleFlight ==
  "slow" \notin accidents =>
    \A c, d \in Callers : At(c, "call") /\ At(d, "call") /\ c # d =>
      caller[c].token # caller[d].token

(* The status tells the truth about the stored token: active, it is good at *)
(* the service or its successor is about to be written; needing another     *)
(* authorisation, it is refused there.  Lost answers and dead callers may   *)
(* make an active one bad, never a good one flagged (tokens.ts, reauth.ts). *)
StatusIsTrue ==
  "slow" \notin accidents =>
    /\ row.st = "needs_reauth" => ~Good(row.token)
    /\ row.st = "active" /\ accidents \subseteq {"unrevoked"} =>
         \/ Good(row.token)
         \/ \E c \in Callers : At(c, "write") /\ caller[c].gen = row.gen
                               /\ caller[c].token = Got(row.token) /\ Good(caller[c].token)

(* A disconnected row holds no token, whatever a refresh that overlapped    *)
(* the disconnect brings and whatever went wrong.  Once the disconnect is   *)
(* done and no caller is under way nothing it had is good at the service    *)
(* either, where the provider can revoke and unless a revocation, an answer *)
(* or a process was lost (connections.ts, lines 234-262; tokens.ts, line    *)
(* 262).                                                                    *)
DisconnectIsComplete ==
  /\ leaver.at # "idle" => row.st = "revoked" /\ row.token = NoToken
  /\ leaver.at = "done" /\ (\A c \in Callers : At(c, "idle")) /\ revokes
       /\ accidents \subseteq {"withdrawn", "slow"} => current[leaver.token[1]] = 0

(* Whoever asks for a token gets one or an error without having to wait its *)
(* time out, even behind a holder that died with the lease in hand: no      *)
(* fairness makes anybody give up.                                          *)
CallersReturn == \A c \in Callers : ~At(c, "idle") ~> At(c, "idle")

(* Does not hold: a disconnect ends the grant at every provider.  Where no  *)
(* token can be revoked, what the row had stays good, and so does what a    *)
(* late refresh brings (microsoft/provider.ts:153: it wipes locally).       *)
DisconnectEndsTheGrant ==
  leaver.at = "done" /\ (\A c \in Callers : At(c, "idle")) /\ accidents = {} =>
    current[leaver.token[1]] = 0
=============================================================================
