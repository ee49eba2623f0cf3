---------------------------- MODULE Impersonation ----------------------------
(***************************************************************************)
(* Admin impersonation sessions (services/impersonation_service.ts): a     *)
(* session lives in the package cache for its duration; every request with *)
(* its token verifies it there, the first one writes it back marked as     *)
(* used; stop and revokeById delete it. Each await is a step, and requests *)
(* run in several processes. A token is its session here: the signature    *)
(* only decides whether a token names a session at all.                    *)
(***************************************************************************)
EXTENDS LayeredCache, Naturals

CONSTANTS
  Requests,   \* requests in flight at a time
  NoSession,
  MaxFaults   \* bound on the faults of a behaviour

\* A session is a cache key, and its value tells whether firstVerifyAt is set.
Sessions == Keys

ASSUME ImpersonationAssumption ==
  /\ Values = {"new", "used"}
  /\ NoValue = "none"
  /\ NoSession \notin Sessions
  /\ MaxFaults \in Nat

VARIABLES
  started,   \* sessions whose token was issued
  over,      \* sessions past their expiresAt
  request,   \* what each request is doing, for which session, in which process,
             \* and what Redis had when its get asked
  firstUses, \* first-use rows in the audit log, saturating at two
  revoked,   \* how each session was revoked: not, while it could be written back, or for good
  crossed,   \* <<process, session>>: a get awaited Redis there when the session was deleted
  faults     \* faults so far

vars == <<cache, started, over, request, firstUses, revoked, crossed, faults>>

\* A request that awaits Redis will find what Redis had; at its other steps it knows its
\* session only.
AtGet == [step : {"verify", "stop"}, session : Sessions, process : Processes, found : Values]
PastGet == [step : {"markUsed", "auditUse", "dropExpired", "delete"},
            session : Sessions, process : Processes, found : {NoValue}]
Idle == [step |-> "idle", session |-> NoSession, process |-> NoSession, found |-> NoValue]

TypeOK ==
  /\ CacheTypeOK
  /\ started \subseteq Sessions
  /\ over \subseteq started
  /\ request \in [Requests -> {Idle} \cup AtGet \cup PastGet]
  /\ firstUses \in [Sessions -> 0..2]
  /\ revoked \in [Sessions -> {"no", "raced", "final"}]
  /\ crossed \subseteq Processes \X Sessions
  /\ faults \in 0..MaxFaults

Init ==
  /\ CacheInit
  /\ started = {}
  /\ over = {}
  /\ request = [r \in Requests |-> Idle]
  /\ firstUses = [s \in Sessions |-> 0]
  /\ revoked = [s \in Sessions |-> "no"]
  /\ crossed = {}
  /\ faults = 0

-----------------------------------------------------------------------------
At(r, step) == request[r].step = step

Await(r, step, s, p, v) ==
  request' = [request EXCEPT ![r] = [step |-> step, session |-> s, process |-> p, found |-> v]]

Goto(r, step, s, p) == Await(r, step, s, p, NoValue)

Finish(r) == request' = [request EXCEPT ![r] = Idle]

\* start: the session is cached, then its token is returned.
Start(s, p) ==
  /\ s \notin started
  /\ started' = started \cup {s}
  /\ Put(p, s, "new")
  /\ UNCHANGED <<over, request, firstUses, revoked, crossed, faults>>

\* Variant of Accept: every verify writes the session back.
AcceptRewriting(r, s, p, v) == Goto(r, IF s \in over THEN "dropExpired" ELSE "markUsed", s, p)

\* verify of a session it has found: an expired one is deleted, a used one accepted at
\* once, a new one accepted after it is marked.
Accept(r, s, p, v) ==
  CASE s \in over -> Goto(r, "dropExpired", s, p)
    [] s \notin over /\ v = "used" -> Finish(r)
    [] s \notin over /\ v = "new" -> Goto(r, "markUsed", s, p)

\* verify, stop and revokeById begin with a get. What the memory layer has is found at once.
Verify(r, s, p) ==
  /\ request[r] = Idle
  /\ s \in started
  /\ local[p][s] # NoValue
  /\ Accept(r, s, p, local[p][s])
  /\ UNCHANGED <<cache, started, over, firstUses, revoked, crossed, faults>>

Stop(r, s, p) ==
  /\ request[r] = Idle
  /\ s \in started
  /\ local[p][s] # NoValue
  /\ Goto(r, "delete", s, p)
  /\ UNCHANGED <<cache, started, over, firstUses, revoked, crossed, faults>>

\* Otherwise Redis is read: a session that is gone is refused, or needs no delete.
AskRedis(r, step, s, p) ==
  /\ request[r] = Idle
  /\ s \in started
  /\ local[p][s] = NoValue
  /\ IF shared[s] = NoValue THEN UNCHANGED request ELSE Await(r, step, s, p, shared[s])
  /\ UNCHANGED <<cache, started, over, firstUses, revoked, crossed, faults>>

\* The answer arrives.
FindInRedis(r) ==
  LET s == request[r].session
      p == request[r].process
  IN  /\ request[r].step \in {"verify", "stop"}
      /\ Keep(p, s, request[r].found)
      /\ IF At(r, "verify") THEN Accept(r, s, p, request[r].found) ELSE Goto(r, "delete", s, p)
      /\ UNCHANGED <<started, over, firstUses, revoked, crossed, faults>>

\* The copy read before is written back with firstVerifyAt.
MarkUsed(r) ==
  /\ At(r, "markUsed")
  /\ Put(request[r].process, request[r].session, "used")
  /\ Goto(r, "auditUse", request[r].session, request[r].process)
  /\ UNCHANGED <<started, over, firstUses, revoked, crossed, faults>>

\* Variant of AuditUse: the row is not written.
AuditUseSkipped(r) ==
  /\ At(r, "auditUse")
  /\ Finish(r)
  /\ UNCHANGED <<cache, started, over, firstUses, revoked, crossed, faults>>

AuditUse(r) ==
  /\ At(r, "auditUse")
  /\ firstUses' = [firstUses EXCEPT ![request[r].session] = IF @ = 2 THEN 2 ELSE @ + 1]
  /\ Finish(r)
  /\ UNCHANGED <<cache, started, over, revoked, crossed, faults>>

DropExpired(r) ==
  /\ At(r, "dropExpired")
  /\ Put(request[r].process, request[r].session, NoValue)
  /\ Finish(r)
  /\ UNCHANGED <<started, over, firstUses, revoked, crossed, faults>>

Awaiting(r, s) == request[r].step \in {"verify", "stop"} /\ request[r].session = s

\* Someone holds an unmarked copy of s that process p does not delete.
Unmarked(s, p) ==
  \/ \E r \in Requests : \/ At(r, "markUsed") /\ request[r].session = s
                         \/ Awaiting(r, s) /\ request[r].found = "new"
  \/ \E q \in Processes \ {p} : local[q][s] = "new"

\* What the end of the delete of s in process p is known by.
Revoke(s, p) ==
  /\ revoked' = [revoked EXCEPT ![s] = IF Unmarked(s, p) THEN "raced" ELSE "final"]
  /\ crossed' = crossed \cup {<<request[r].process, s>> : r \in {r \in Requests : Awaiting(r, s)}}

\* Variant of Delete: the stop clears the memory layer of its own process only.
DeleteLocally(r) ==
  LET s == request[r].session
      p == request[r].process
  IN  /\ At(r, "delete")
      /\ local' = LocalWith(p, s, NoValue)
      /\ shared' = [shared EXCEPT ![s] = NoValue]
      /\ Revoke(s, p)
      /\ Finish(r)
      /\ UNCHANGED <<bus, started, over, firstUses, faults>>

Delete(r) ==
  LET s == request[r].session
      p == request[r].process
  IN  /\ At(r, "delete")
      /\ Put(p, s, NoValue)
      /\ Revoke(s, p)
      /\ Finish(r)
      /\ UNCHANGED <<started, over, firstUses, faults>>

-----------------------------------------------------------------------------
\* The cache or the audit log throws, or the process dies: the operation stops.
Fail(r) ==
  /\ request[r] # Idle
  /\ faults < MaxFaults
  /\ faults' = faults + 1
  /\ Finish(r)
  /\ UNCHANGED <<cache, started, over, firstUses, revoked, crossed>>

\* expiresAt of s passes.
Expire(s) ==
  /\ s \in started \ over
  /\ over' = over \cup {s}
  /\ UNCHANGED <<cache, started, request, firstUses, revoked, crossed, faults>>

\* The cache on its own: the bus delivers or loses, the layers forget.
Cache ==
  /\ UNCHANGED <<started, over, request, firstUses, revoked, crossed>>
  /\ \/ \E p \in Processes, s \in Sessions : Invalidate(p, s) \/ EvictLocal(p, s)
     \/ \E s \in over : ExpireShared(s)
  /\ UNCHANGED faults

CacheFault ==
  /\ faults < MaxFaults
  /\ faults' = faults + 1
  /\ \E p \in Processes, s \in Sessions : LoseInvalidation(p, s)
  /\ UNCHANGED <<started, over, request, firstUses, revoked, crossed>>

Next ==
  \/ \E s \in Sessions, p \in Processes :
       \/ Start(s, p)
       \/ \E r \in Requests :
            \/ Verify(r, s, p) \/ Stop(r, s, p)
            \/ AskRedis(r, "verify", s, p) \/ AskRedis(r, "stop", s, p)
  \/ \E r \in Requests :
       FindInRedis(r) \/ MarkUsed(r) \/ AuditUse(r) \/ DropExpired(r) \/ Delete(r) \/ Fail(r)
  \/ \E s \in Sessions : Expire(s)
  \/ Cache \/ CacheFault

Spec == Init /\ [][Next]_vars

-----------------------------------------------------------------------------
(* Properties.                                                             *)

\* A session revoked while nobody held an unmarked copy of it never comes back
\* to the Redis layer: only the write of a first verify can resurrect one.
FinalRevocation == \A s \in Sessions : revoked[s] = "final" => shared[s] = NoValue

\* After such a revoke, a process still accepts the session only until the bus
\* reaches it, when the bus lost the message, or when one of its gets awaited Redis
\* as the session was deleted: that get puts the session back into the memory layer,
\* and no message is on its way to take it out again.
OnlyTheBusLags ==
  faults = 0 =>
    \A p \in Processes, s \in Sessions :
      revoked[s] = "final" /\ local[p][s] # NoValue => <<p, s>> \in bus \cup crossed

\* Unless something failed, a session marked as used has its first-use row or
\* a request about to write it.
UseIsAudited ==
  faults = 0 =>
    \A s \in Sessions : shared[s] = "used" =>
      \/ firstUses[s] > 0
      \/ \E r \in Requests : At(r, "auditUse") /\ request[r].session = s

\* "a cache lookup (confirms the session is still alive and not revoked)"
\* (impersonation_service.ts): a lookup finds no revoked session.
RevokedIsNotFound ==
  \A p \in Processes, s \in Sessions : revoked[s] # "no" => Lookup(p, s) = NoValue
=============================================================================
