------------------------- MODULE ImpersonationProofs -------------------------
(***************************************************************************)
(* Proofs about Impersonation: its types, and that a session revoked while *)
(* nobody held an unmarked copy of it never comes back.                    *)
(***************************************************************************)
EXTENDS Impersonation, TLAPS

-----------------------------------------------------------------------------
(* The cache keeps its types, whatever key and value an operation is for.  *)

LEMMA LocalWithType ==
  ASSUME CacheTypeOK, NEW p \in Processes, NEW k \in Keys, NEW v \in Entries
  PROVE  LocalWith(p, k, v) \in [Processes -> [Keys -> Entries]]
  BY DEF LocalWith, CacheTypeOK

\* What LocalWith changes: entry k of process p.
LEMMA LocalWithEntry ==
  ASSUME CacheTypeOK, NEW p \in Processes, NEW k \in Keys, NEW v \in Entries,
         NEW q \in Processes, NEW j \in Keys
  PROVE  LocalWith(p, k, v)[q][j] = IF q = p /\ j = k THEN v ELSE local[q][j]
  BY DEF LocalWith, CacheTypeOK

LEMMA KeepType ==
  ASSUME CacheTypeOK, NEW p \in Processes, NEW k \in Keys, NEW v \in Entries, Keep(p, k, v)
  PROVE  CacheTypeOK'
<1>1. LocalWith(p, k, v) \in [Processes -> [Keys -> Entries]]
  BY LocalWithType
<1> QED
  BY <1>1 DEF Keep, CacheTypeOK

LEMMA PutType ==
  ASSUME CacheTypeOK, NEW p \in Processes, NEW k \in Keys, NEW v \in Entries, Put(p, k, v)
  PROVE  CacheTypeOK'
<1>1. LocalWith(p, k, v) \in [Processes -> [Keys -> Entries]]
  BY LocalWithType
<1> QED
  BY <1>1 DEF Put, CacheTypeOK

\* The cache's own steps: what they leave in a layer was there or is nothing.
LEMMA CacheSteps ==
  ASSUME CacheTypeOK, NEW p \in Processes, NEW k \in Keys,
         Invalidate(p, k) \/ EvictLocal(p, k) \/ LoseInvalidation(p, k)
  PROVE  /\ CacheTypeOK'
         /\ shared' = shared
         /\ \A q \in Processes, j \in Keys : local'[q][j] \in {local[q][j], NoValue}
<1> DEFINE Forgotten == LocalWith(p, k, NoValue)
<1>1. Forgotten \in [Processes -> [Keys -> Entries]]
  BY LocalWithType DEF Entries
<1>2. \A q \in Processes, j \in Keys : Forgotten[q][j] \in {local[q][j], NoValue}
  BY LocalWithEntry DEF Entries
<1>3. CASE Invalidate(p, k) \/ EvictLocal(p, k)
  <2>1. local' = Forgotten /\ shared' = shared /\ bus' \subseteq bus
    BY <1>3 DEF Invalidate, EvictLocal
  <2> HIDE DEF Forgotten
  <2> QED
    BY <2>1, <1>1, <1>2 DEF CacheTypeOK
<1>4. CASE LoseInvalidation(p, k)
  BY <1>4 DEF LoseInvalidation, CacheTypeOK
<1> QED
  BY <1>3, <1>4

LEMMA ExpireStep ==
  ASSUME CacheTypeOK, NEW k \in Keys, ExpireShared(k)
  PROVE  /\ CacheTypeOK'
         /\ \A j \in Keys : shared'[j] \in {shared[j], NoValue}
         /\ local' = local
  BY DEF ExpireShared, CacheTypeOK, Entries

-----------------------------------------------------------------------------
(* Types.                                                                  *)

RequestType == [Requests -> {Idle} \cup AtGet \cup PastGet]

\* Request r goes on to a state d, and the others stay where they are.
Moves(r, d) ==
  /\ request' \in RequestType
  /\ request'[r] = d
  /\ \A q \in Requests \ {r} : request'[q] = request[q]

LEMMA GotoType ==
  ASSUME TypeOK, NEW r \in Requests, NEW s \in Sessions, NEW p \in Processes,
         NEW step \in {"markUsed", "auditUse", "dropExpired", "delete"}, Goto(r, step, s, p)
  PROVE  Moves(r, [step |-> step, session |-> s, process |-> p, found |-> NoValue])
  BY DEF TypeOK, Goto, Await, PastGet, Moves, RequestType

LEMMA AwaitType ==
  ASSUME TypeOK, NEW r \in Requests, NEW s \in Sessions, NEW p \in Processes,
         NEW step \in {"verify", "stop"}, NEW v \in Values, Await(r, step, s, p, v)
  PROVE  Moves(r, [step |-> step, session |-> s, process |-> p, found |-> v])
  BY DEF TypeOK, Await, AtGet, Moves, RequestType

LEMMA FinishType ==
  ASSUME TypeOK, NEW r \in Requests, Finish(r)
  PROVE  Moves(r, Idle)
  BY DEF TypeOK, Finish, Moves, RequestType

\* A request that is at a step has a session and a process.
LEMMA Busy ==
  ASSUME TypeOK, NEW r \in Requests, NEW step, step # "idle", At(r, step)
  PROVE  request[r].session \in Sessions /\ request[r].process \in Processes
  BY DEF TypeOK, At, Idle, AtGet, PastGet

\* What a get of session s in process p finds is v: where r goes on, as verify or as stop.
Accepted(r, s, p, v) ==
  \E d \in {Idle} \cup PastGet :
    /\ Moves(r, d)
    /\ d = Idle \/ d.session = s
    /\ d.step # "auditUse"
    /\ d.step = "markUsed" => v = "new"

LEMMA AcceptedAt ==
  ASSUME TypeOK, NEW r \in Requests, NEW s \in Sessions, NEW p \in Processes, NEW v \in Values,
         Accept(r, s, p, v) \/ Goto(r, "delete", s, p)
  PROVE  Accepted(r, s, p, v)
<1> DEFINE d(step) == [step |-> step, session |-> s, process |-> p, found |-> NoValue]
<1>1. \/ Finish(r)
      \/ Goto(r, "dropExpired", s, p) \/ Goto(r, "delete", s, p)
      \/ Goto(r, "markUsed", s, p) /\ v = "new"
  BY ImpersonationAssumption DEF Accept
<1>2. CASE Finish(r)
  BY <1>2, FinishType DEF Accepted, Idle
<1>3. CASE Goto(r, "dropExpired", s, p)
  <2>1. Moves(r, d("dropExpired")) /\ d("dropExpired") \in PastGet
    BY <1>3, GotoType DEF PastGet
  <2> QED
    BY <2>1 DEF Accepted
<1>4. CASE Goto(r, "delete", s, p)
  <2>1. Moves(r, d("delete")) /\ d("delete") \in PastGet
    BY <1>4, GotoType DEF PastGet
  <2> QED
    BY <2>1 DEF Accepted
<1>5. CASE Goto(r, "markUsed", s, p) /\ v = "new"
  <2>1. Moves(r, d("markUsed")) /\ d("markUsed") \in PastGet
    BY <1>5, GotoType DEF PastGet
  <2> QED
    BY <1>5, <2>1 DEF Accepted
<1> QED
  BY <1>1, <1>2, <1>3, <1>4, <1>5

LEMMA TypeInit == Init => TypeOK
  BY ImpersonationAssumption DEF Init, TypeOK, CacheInit, CacheTypeOK, Entries

LEMMA TypeStep == TypeOK /\ [Next]_vars => TypeOK'
<1> SUFFICES ASSUME TypeOK, [Next]_vars PROVE TypeOK'
  OBVIOUS
<1>0. CacheTypeOK
  BY DEF TypeOK
<1>1. ASSUME NEW s \in Sessions, NEW p \in Processes, Start(s, p) PROVE TypeOK'
  <2>1. CacheTypeOK'
    BY <1>1, <1>0, PutType, ImpersonationAssumption DEF Start, Sessions, Entries
  <2> QED
    BY <1>1, <2>1 DEF Start, TypeOK
<1>2. ASSUME NEW s \in Sessions, NEW p \in Processes, NEW r \in Requests,
             Verify(r, s, p) \/ Stop(r, s, p)
      PROVE  TypeOK'
  <2>1. local[p][s] \in Values
    BY <1>0, <1>2 DEF Verify, Stop, CacheTypeOK, Sessions, Entries
  <2>2. Accepted(r, s, p, local[p][s])
    BY <1>2, <2>1, AcceptedAt DEF Verify, Stop
  <2> QED
    BY <1>0, <1>2, <2>2 DEF Verify, Stop, Accepted, Moves, RequestType, TypeOK, cache, CacheTypeOK
<1>3. ASSUME NEW s \in Sessions, NEW p \in Processes, NEW r \in Requests,
             NEW step \in {"verify", "stop"}, AskRedis(r, step, s, p)
      PROVE  TypeOK'
  <2>1. request' \in RequestType
    <3>1. CASE shared[s] = NoValue
      BY <1>3, <3>1 DEF AskRedis, TypeOK, RequestType
    <3>2. CASE shared[s] # NoValue
      <4>1. shared[s] \in Values
        BY <1>0, <3>2 DEF CacheTypeOK, Sessions, Entries
      <4> QED
        BY <1>3, <3>2, <4>1, AwaitType DEF AskRedis, Moves
    <3> QED
      BY <3>1, <3>2
  <2> QED
    BY <1>0, <1>3, <2>1 DEF AskRedis, RequestType, TypeOK, cache, CacheTypeOK
<1>12. ASSUME NEW r \in Requests, FindInRedis(r) PROVE TypeOK'
  <2> DEFINE s == request[r].session
             p == request[r].process
             v == request[r].found
  <2>1. s \in Sessions /\ p \in Processes /\ v \in Values
    BY <1>12 DEF FindInRedis, TypeOK, Idle, AtGet, PastGet
  <2>2. /\ Keep(p, s, v)
        /\ Accept(r, s, p, v) \/ Goto(r, "delete", s, p)
        /\ UNCHANGED <<started, over, firstUses, revoked, crossed, faults>>
    BY <1>12 DEF FindInRedis
  <2> HIDE DEF s, p, v
  <2>3. CacheTypeOK'
    BY <1>0, <2>1, <2>2, KeepType DEF Sessions, Entries
  <2>4. Accepted(r, s, p, v)
    BY <2>1, <2>2, AcceptedAt
  <2> QED
    BY <2>2, <2>3, <2>4 DEF Accepted, Moves, RequestType, TypeOK
<1>4. ASSUME NEW r \in Requests, MarkUsed(r) PROVE TypeOK'
  <2>1. request[r].session \in Sessions /\ request[r].process \in Processes
    BY <1>4, Busy DEF MarkUsed
  <2>2. CacheTypeOK'
    BY <1>4, <2>1, <1>0, PutType, ImpersonationAssumption DEF MarkUsed, Sessions, Entries
  <2> QED
    BY <1>4, <2>1, <2>2, GotoType DEF MarkUsed, Moves, RequestType, TypeOK
<1>5. ASSUME NEW r \in Requests, AuditUse(r) PROVE TypeOK'
  <2>1. \A s \in Sessions : firstUses[s] \in 0..2 /\ (firstUses[s] # 2 => firstUses[s] + 1 \in 0..2)
    BY DEF TypeOK
  <2>2. firstUses' \in [Sessions -> 0..2]
    BY <1>5, <2>1 DEF AuditUse, TypeOK
  <2> QED
    BY <1>5, <2>2, FinishType, <1>0 DEF AuditUse, Moves, RequestType, TypeOK, cache, CacheTypeOK
<1>6. ASSUME NEW r \in Requests, DropExpired(r) \/ Delete(r) PROVE TypeOK'
  <2>1. request[r].session \in Sessions /\ request[r].process \in Processes
    BY <1>6, Busy DEF DropExpired, Delete
  <2>2. CacheTypeOK'
    BY <1>6, <2>1, <1>0, PutType DEF DropExpired, Delete, Sessions, Entries
  <2>3. revoked' \in [Sessions -> {"no", "raced", "final"}]
    BY <1>6 DEF DropExpired, Delete, Revoke, TypeOK
  <2>4. crossed' \subseteq Processes \X Sessions
    <3>1. ASSUME NEW q \in Requests, Awaiting(q, request[r].session)
          PROVE  request[q].process \in Processes
      BY <3>1 DEF Awaiting, TypeOK, Idle, AtGet, PastGet
    <3> QED
      BY <1>6, <2>1, <3>1 DEF DropExpired, Delete, Revoke, TypeOK
  <2> QED
    BY <1>6, <2>2, <2>3, <2>4, FinishType DEF DropExpired, Delete, Moves, RequestType, TypeOK
<1>7. ASSUME NEW r \in Requests, Fail(r) PROVE TypeOK'
  BY <1>7, FinishType, <1>0, ImpersonationAssumption
  DEF Fail, Moves, RequestType, TypeOK, cache, CacheTypeOK
<1>8. ASSUME NEW s \in Sessions, Expire(s) PROVE TypeOK'
  BY <1>8, <1>0 DEF Expire, TypeOK, cache, CacheTypeOK
<1>9. ASSUME Cache PROVE TypeOK'
  BY <1>9, <1>0, CacheSteps, ExpireStep DEF Cache, TypeOK, Sessions
<1>10. ASSUME CacheFault PROVE TypeOK'
  BY <1>10, <1>0, CacheSteps, ImpersonationAssumption DEF CacheFault, TypeOK, Sessions
<1>11. CASE UNCHANGED vars
  BY <1>11 DEF vars, cache, TypeOK, CacheTypeOK
<1> QED
  BY <1>1, <1>2, <1>3, <1>4, <1>5, <1>6, <1>7, <1>8, <1>9, <1>10, <1>11, <1>12 DEF Next

\* Every reachable state has its types, for any sessions, processes, requests
\* and faults.
THEOREM TypeCorrect == Spec => []TypeOK
  BY TypeInit, TypeStep, PTL DEF Spec

-----------------------------------------------------------------------------
(* Revocation.                                                             *)

\* What keeps session s out of the Redis layer: no process and no request
\* holds an unmarked copy of it, so no first verify can write it back. And whatever
\* get still awaits Redis for it, has done so since the delete.
Gone(s) ==
  /\ shared[s] = NoValue
  /\ \A p \in Processes : local[p][s] # "new"
  /\ \A r \in Requests :
       /\ ~(At(r, "markUsed") /\ request[r].session = s)
       /\ Awaiting(r, s) => request[r].found # "new" /\ <<request[r].process, s>> \in crossed

GoneInv ==
  /\ \A r \in Requests : request[r] # Idle => request[r].session \in started
  /\ \A s \in Sessions : revoked[s] # "no" => s \in started
  /\ \A s \in Sessions : revoked[s] = "final" => Gone(s)

\* A get that finds v, which is not an unmarked copy when the session is gone, leaves
\* what is gone gone.
LEMMA GoneAccepts ==
  ASSUME NEW r \in Requests, NEW s \in Sessions, NEW p, NEW v, NEW t \in Sessions, Gone(t),
         Accepted(r, s, p, v), t = s => v # "new",
         UNCHANGED <<shared, crossed>>, \A q \in Processes : local'[q][t] # "new"
  PROVE  Gone(t)'
<1>1. PICK d \in {Idle} \cup PastGet :
        /\ Moves(r, d)
        /\ d = Idle \/ d.session = s
        /\ d.step = "markUsed" => v = "new"
  BY DEF Accepted
<1>2. d.step \notin {"verify", "stop"} /\ (d = Idle => d.step # "markUsed")
  BY <1>1 DEF Idle, PastGet
<1>3. \A q \in Requests : /\ ~(request'[q].step = "markUsed" /\ request'[q].session = t)
                          /\ request'[q].step \in {"verify", "stop"} => request'[q] = request[q]
  BY <1>1, <1>2 DEF Moves, Gone, At
<1> QED
  BY <1>3 DEF Gone, At, Awaiting

LEMMA GoneInit == Init => GoneInv
  BY ImpersonationAssumption DEF Init, GoneInv

\* Nobody is at markUsed for s who was not before.
LEMMA GoneStep == TypeOK /\ GoneInv /\ [Next]_vars => GoneInv'
<1> SUFFICES ASSUME TypeOK, GoneInv, [Next]_vars PROVE GoneInv'
  OBVIOUS
<1>0. CacheTypeOK
  BY DEF TypeOK
<1>1. ASSUME NEW s \in Sessions, NEW p \in Processes, Start(s, p) PROVE GoneInv'
  <2>1. \A t \in Sessions \ {s} : shared'[t] = shared[t]
    BY <1>1, <1>0 DEF Start, Put, CacheTypeOK, Sessions
  <2>2. \A q \in Processes, t \in Sessions \ {s} : local'[q][t] = local[q][t]
    BY <1>1, <1>0, LocalWithEntry, ImpersonationAssumption DEF Start, Put, Sessions, Entries
  <2>3. revoked[s] = "no" /\ started' = started \cup {s} /\ UNCHANGED <<request, revoked, crossed>>
    BY <1>1 DEF Start, GoneInv
  <2>4. \A t \in Sessions \ {s} : Gone(t) => Gone(t)'
    BY <2>1, <2>2, <2>3 DEF Gone, At, Awaiting
  <2> QED
    BY <2>3, <2>4 DEF GoneInv
<1>2. ASSUME NEW s \in Sessions, NEW p \in Processes, NEW r \in Requests,
             Verify(r, s, p) \/ Stop(r, s, p)
      PROVE  GoneInv'
  <2>1. UNCHANGED <<shared, local, started, revoked, crossed>> /\ s \in started
    BY <1>2 DEF Verify, Stop, cache
  <2>2. local[p][s] \in Values
    BY <1>0, <1>2 DEF Verify, Stop, CacheTypeOK, Sessions, Entries
  <2>3. Accepted(r, s, p, local[p][s])
    BY <1>2, <2>2, AcceptedAt DEF Verify, Stop
  <2>4. ASSUME NEW t \in Sessions, Gone(t) PROVE Gone(t)'
    <3>1. /\ \A q \in Processes : local'[q][t] # "new"
          /\ t = s => local[p][s] # "new"
      BY <2>1, <2>4 DEF Gone
    <3> QED
      BY <2>1, <2>3, <2>4, <3>1, GoneAccepts
  <2> QED
    BY <2>1, <2>3, <2>4 DEF GoneInv, Accepted, Moves
<1>9. ASSUME NEW s \in Sessions, NEW p \in Processes, NEW r \in Requests,
             NEW step \in {"verify", "stop"}, AskRedis(r, step, s, p)
      PROVE  GoneInv'
  <2>1. UNCHANGED <<shared, local, started, revoked, crossed>> /\ s \in started
    BY <1>9 DEF AskRedis, cache
  <2>2. CASE shared[s] = NoValue
    BY <1>9, <2>1, <2>2 DEF AskRedis, GoneInv, Gone, At, Awaiting
  <2>3. CASE shared[s] # NoValue
    <3>1. shared[s] \in Values
      BY <1>0, <2>3 DEF CacheTypeOK, Sessions, Entries
    <3>2. Moves(r, [step |-> step, session |-> s, process |-> p, found |-> shared[s]])
      BY <1>9, <2>3, <3>1, AwaitType DEF AskRedis
    <3>3. request'[r].session = s /\ request'[r].step = step
      BY <3>2 DEF Moves
    <3>4. \A t \in Sessions : Gone(t) => t # s
      BY <2>3 DEF Gone
    <3>5. \A q \in Requests \ {r} : request'[q] = request[q]
      BY <3>2 DEF Moves
    <3>6. \A t \in Sessions : Gone(t) => Gone(t)'
      BY <2>1, <3>3, <3>4, <3>5 DEF Gone, At, Awaiting
    <3> QED
      BY <2>1, <3>3, <3>5, <3>6 DEF GoneInv
  <2> QED
    BY <2>2, <2>3
<1>10. ASSUME NEW r \in Requests, FindInRedis(r) PROVE GoneInv'
  <2> DEFINE s == request[r].session
             p == request[r].process
             v == request[r].found
  <2>1. s \in Sessions /\ p \in Processes /\ v \in Values /\ s \in started
    BY <1>10 DEF FindInRedis, TypeOK, Idle, AtGet, PastGet, GoneInv
  <2>2. /\ Keep(p, s, v)
        /\ Accept(r, s, p, v) \/ Goto(r, "delete", s, p)
        /\ UNCHANGED <<started, revoked, crossed>>
    BY <1>10 DEF FindInRedis
  <2>3. Gone(s) => v # "new"
    BY <1>10 DEF FindInRedis, Gone, Awaiting
  <2> HIDE DEF s, p, v
  <2>4. Accepted(r, s, p, v)
    BY <2>1, <2>2, AcceptedAt
  <2>5. UNCHANGED shared
    BY <2>2 DEF Keep
  <2>6. \A q \in Processes, t \in Sessions :
          local'[q][t] = IF q = p /\ t = s THEN v ELSE local[q][t]
    BY <1>0, <2>1, <2>2, LocalWithEntry DEF Keep, Sessions, Entries
  <2>7. \A t \in Sessions : Gone(t) => \A q \in Processes : local'[q][t] # "new"
    BY <2>3, <2>6 DEF Gone
  <2>8. ASSUME NEW t \in Sessions, Gone(t) PROVE Gone(t)'
    <3>1. /\ \A q \in Processes : local'[q][t] # "new"
          /\ t = s => v # "new"
          /\ UNCHANGED <<shared, crossed>>
      BY <2>2, <2>3, <2>5, <2>7, <2>8
    <3> QED
      BY <2>1, <2>4, <2>8, <3>1, GoneAccepts
  <2> QED
    BY <2>1, <2>2, <2>4, <2>8 DEF GoneInv, Accepted, Moves
<1>3. ASSUME NEW r \in Requests, MarkUsed(r) PROVE GoneInv'
  <2> DEFINE s == request[r].session
             p == request[r].process
  <2>1. s \in Sessions /\ p \in Processes /\ s \in started
    BY <1>3, Busy DEF MarkUsed, GoneInv, At, Idle
  <2>2. revoked[s] # "final"
    BY <1>3, <2>1 DEF MarkUsed, GoneInv, Gone
  <2>3. Put(p, s, "used") /\ Goto(r, "auditUse", s, p) /\ UNCHANGED <<started, revoked, crossed>>
    BY <1>3 DEF MarkUsed
  <2> HIDE DEF s, p
  <2>4. \A t \in Sessions \ {s} : shared'[t] = shared[t]
    BY <2>1, <2>3, <1>0 DEF Put, CacheTypeOK, Sessions
  <2>5. \A q \in Processes, t \in Sessions \ {s} : local'[q][t] = local[q][t]
    BY <2>1, <2>3, <1>0, LocalWithEntry, ImpersonationAssumption DEF Put, Sessions, Entries
  <2>6. /\ request'[r].session = s /\ request'[r].step = "auditUse"
        /\ \A q \in Requests \ {r} : request'[q] = request[q]
    <3>1. Moves(r, [step |-> "auditUse", session |-> s, process |-> p, found |-> NoValue])
      BY <2>1, <2>3, GotoType
    <3> QED
      BY <3>1 DEF Moves
  <2> QED
    BY <2>1, <2>2, <2>3, <2>4, <2>5, <2>6 DEF GoneInv, Gone, At, Awaiting
<1>4. ASSUME NEW r \in Requests, AuditUse(r) \/ Fail(r) PROVE GoneInv'
  BY <1>4, FinishType DEF AuditUse, Fail, Moves, cache, GoneInv, Gone, At, Awaiting, Idle
<1>5. ASSUME NEW r \in Requests, DropExpired(r) \/ Delete(r) PROVE GoneInv'
  <2> DEFINE s == request[r].session
             p == request[r].process
  <2>1. s \in Sessions /\ p \in Processes /\ s \in started
    BY <1>5, Busy DEF DropExpired, Delete, GoneInv, At, Idle
  <2>2. Put(p, s, NoValue) /\ Finish(r) /\ UNCHANGED started
    BY <1>5 DEF DropExpired, Delete
  <2>3. /\ \A t \in Sessions \ {s} : revoked'[t] = revoked[t]
        /\ revoked'[s] = "final" =>
             \/ revoked[s] = "final"
             \/ ~Unmarked(s, p) /\ \A q \in Requests : Awaiting(q, s) => <<request[q].process, s>> \in crossed'
        /\ crossed \subseteq crossed'
    BY <1>5 DEF DropExpired, Delete, Revoke, TypeOK
  <2>4. ~(request[r].step = "markUsed")
    BY <1>5 DEF DropExpired, Delete, At
  <2> HIDE DEF s, p
  <2>5. /\ request'[r] = Idle
        /\ \A q \in Requests \ {r} : request'[q] = request[q]
    BY <2>2, FinishType DEF Moves
  <2>6. \A t \in Sessions : shared'[t] = IF t = s THEN NoValue ELSE shared[t]
    BY <2>1, <2>2, <1>0 DEF Put, CacheTypeOK, Sessions
  <2>7. \A q \in Processes, t \in Sessions :
          local'[q][t] = IF q = p /\ t = s THEN NoValue ELSE local[q][t]
    BY <2>1, <2>2, <1>0, LocalWithEntry DEF Put, Sessions, Entries
  <2>8. ASSUME NEW t \in Sessions, t = s, ~Unmarked(t, p),
               \A q \in Requests : Awaiting(q, t) => <<request[q].process, t>> \in crossed'
        PROVE  Gone(t)'
    <3>1. shared'[t] = NoValue /\ \A q \in Processes : local'[q][t] # "new"
      BY <2>1, <2>6, <2>7, <2>8, ImpersonationAssumption DEF Unmarked
    <3>2. \A q \in Requests :
            /\ ~(At(q, "markUsed") /\ request[q].session = t)
            /\ Awaiting(q, t) => request[q].found # "new"
      BY <2>8, Zenon DEF Unmarked
    <3>3. \A q \in Requests :
            /\ ~(At(q, "markUsed") /\ request[q].session = t)'
            /\ Awaiting(q, t)' => request'[q].found # "new" /\ <<request'[q].process, t>> \in crossed'
      BY <2>5, <2>8, <3>2 DEF At, Awaiting, Idle
    <3> QED
      BY <3>1, <3>3 DEF Gone
  <2>9. ASSUME NEW t \in Sessions, Gone(t) PROVE Gone(t)'
    <3>1. shared'[t] = NoValue /\ \A q \in Processes : local'[q][t] # "new"
      BY <2>6, <2>7, <2>9, ImpersonationAssumption DEF Gone
    <3>2. \A q \in Requests :
            /\ ~(At(q, "markUsed") /\ request[q].session = t)'
            /\ Awaiting(q, t)' => request'[q].found # "new" /\ <<request'[q].process, t>> \in crossed'
      BY <2>3, <2>5, <2>9 DEF Gone, At, Awaiting, Idle
    <3> QED
      BY <3>1, <3>2 DEF Gone
  <2>10. \A t \in Sessions : revoked'[t] = "final" => Gone(t)'
    <3> SUFFICES ASSUME NEW t \in Sessions, revoked'[t] = "final" PROVE Gone(t)'
      OBVIOUS
    <3>1. CASE revoked[t] = "final"
      BY <2>9, <3>1 DEF GoneInv
    <3>2. CASE revoked[t] # "final"
      BY <2>3, <2>8, <3>2
    <3> QED
      BY <3>1, <3>2
  <2>11. \A q \in Requests : request'[q] # Idle => request'[q].session \in started
    BY <2>5 DEF GoneInv
  <2>12. \A t \in Sessions : revoked'[t] # "no" => t \in started
    BY <2>1, <2>3 DEF GoneInv
  <2> QED
    BY <2>2, <2>10, <2>11, <2>12 DEF GoneInv
<1>6. ASSUME NEW s \in Sessions, Expire(s) PROVE GoneInv'
  BY <1>6 DEF Expire, cache, GoneInv, Gone, At, Awaiting
<1>7. CASE Cache \/ CacheFault
  <2>1. UNCHANGED <<started, request, revoked, crossed>>
    BY <1>7 DEF Cache, CacheFault
  <2>2. \A t \in Sessions : shared'[t] \in {shared[t], NoValue}
    BY <1>7, <1>0, CacheSteps, ExpireStep DEF Cache, CacheFault, TypeOK, Sessions
  <2>3. \A q \in Processes, t \in Sessions : local'[q][t] \in {local[q][t], NoValue}
    BY <1>7, <1>0, CacheSteps, ExpireStep DEF Cache, CacheFault, TypeOK, Sessions
  <2> QED
    BY <2>1, <2>2, <2>3, ImpersonationAssumption DEF GoneInv, Gone, At, Awaiting
<1>8. CASE UNCHANGED vars
  BY <1>8 DEF vars, cache, GoneInv, Gone, At, Awaiting
<1> QED
  BY <1>1, <1>2, <1>3, <1>4, <1>5, <1>6, <1>7, <1>8, <1>9, <1>10 DEF Next

\* A session revoked while nobody held an unmarked copy of it stays out of the
\* Redis layer, for any sessions, processes, requests and faults.
THEOREM RevocationIsFinal == Spec => []FinalRevocation
<1>1. GoneInv => FinalRevocation
  BY DEF GoneInv, Gone, FinalRevocation
<1> QED
  BY <1>1, TypeCorrect, GoneInit, GoneStep, PTL DEF Spec

-----------------------------------------------------------------------------
(* Who still accepts a session that was revoked for good.                  *)

LEMMA LagInit == Init => OnlyTheBusLags
  BY DEF Init, OnlyTheBusLags

LEMMA LagStep == TypeOK /\ GoneInv /\ OnlyTheBusLags /\ [Next]_vars => OnlyTheBusLags'
<1> SUFFICES ASSUME TypeOK, GoneInv, OnlyTheBusLags, [Next]_vars, faults' = 0,
                    NEW q \in Processes, NEW t \in Sessions,
                    revoked'[t] = "final", local'[q][t] # NoValue
             PROVE  <<q, t>> \in bus' \cup crossed'
  BY DEF OnlyTheBusLags
<1> DEFINE Lags == <<q, t>> \in bus \cup crossed
<1>0. CacheTypeOK
  BY DEF TypeOK
<1>a. faults = 0 => (revoked[t] = "final" /\ local[q][t] # NoValue => Lags)
  BY DEF OnlyTheBusLags
<1>1. ASSUME NEW s \in Sessions, NEW p \in Processes, Start(s, p) PROVE Lags'
  <2>1. UNCHANGED <<revoked, faults, crossed>> /\ s # t
    BY <1>1 DEF Start, GoneInv
  <2>2. local'[q][t] = local[q][t] /\ bus \subseteq bus'
    BY <1>1, <2>1, <1>0, LocalWithEntry, ImpersonationAssumption DEF Start, Put, Sessions, Entries
  <2> QED
    BY <2>1, <2>2, <1>a
<1>2. ASSUME NEW s \in Sessions, NEW p \in Processes, NEW r \in Requests, NEW step,
             Verify(r, s, p) \/ Stop(r, s, p) \/ AskRedis(r, step, s, p)
      PROVE  Lags'
  BY <1>2, <1>a DEF Verify, Stop, AskRedis, cache
<1>10. ASSUME NEW r \in Requests, FindInRedis(r) PROVE Lags'
  <2> DEFINE s == request[r].session
             p == request[r].process
  <2>1. s \in Sessions /\ p \in Processes /\ request[r].found \in Entries
    BY <1>10 DEF FindInRedis, TypeOK, Idle, AtGet, PastGet, Entries
  <2>2. Gone(s) => <<p, s>> \in crossed
    BY <1>10 DEF FindInRedis, Gone, Awaiting
  <2>3. Keep(p, s, request[r].found) /\ UNCHANGED <<revoked, crossed, faults>>
    BY <1>10 DEF FindInRedis
  <2> HIDE DEF s, p
  <2>4. local'[q][t] = local[q][t] \/ (q = p /\ t = s)
    BY <1>0, <2>1, <2>3, LocalWithEntry DEF Keep, Sessions
  <2>5. Gone(t) /\ bus' = bus
    BY <2>3 DEF GoneInv, Keep
  <2> QED
    BY <1>a, <2>2, <2>3, <2>4, <2>5
<1>3. ASSUME NEW r \in Requests, MarkUsed(r) PROVE Lags'
  <2> DEFINE s == request[r].session
             p == request[r].process
  <2>1. s \in Sessions /\ p \in Processes
    BY <1>3, Busy DEF MarkUsed
  <2>2. revoked[s] # "final"
    BY <1>3, <2>1 DEF MarkUsed, GoneInv, Gone
  <2>3. Put(p, s, "used") /\ UNCHANGED <<revoked, faults, crossed>>
    BY <1>3 DEF MarkUsed
  <2> HIDE DEF s, p
  <2>4. local'[q][t] = local[q][t] /\ bus \subseteq bus'
    BY <2>1, <2>2, <2>3, <1>0, LocalWithEntry, ImpersonationAssumption DEF Put, Sessions, Entries
  <2> QED
    BY <2>3, <2>4, <1>a
<1>4. ASSUME NEW r \in Requests, DropExpired(r) \/ Delete(r) PROVE Lags'
  <2> DEFINE s == request[r].session
             p == request[r].process
  <2>1. s \in Sessions /\ p \in Processes
    BY <1>4, Busy DEF DropExpired, Delete
  <2>2. /\ Put(p, s, NoValue) /\ faults' = faults /\ (t # s => revoked'[t] = revoked[t])
        /\ crossed \subseteq crossed'
    BY <1>4 DEF DropExpired, Delete, Revoke, TypeOK
  <2> HIDE DEF s, p
  <2>3. local'[q][t] = IF q = p /\ t = s THEN NoValue ELSE local[q][t]
    BY <2>1, <2>2, <1>0, LocalWithEntry DEF Put, Sessions, Entries
  <2>4. CASE t = s
    BY <2>2, <2>3, <2>4 DEF Put
  <2>5. CASE t # s
    BY <2>2, <2>3, <2>5, <1>a DEF Put
  <2> QED
    BY <2>4, <2>5
<1>5. ASSUME NEW r \in Requests, AuditUse(r) \/ Fail(r) PROVE Lags'
  <2>1. UNCHANGED <<local, bus, revoked, crossed>> /\ (AuditUse(r) => faults' = faults)
    BY <1>5 DEF AuditUse, Fail, cache
  <2>2. ~Fail(r)
    BY ImpersonationAssumption DEF Fail, TypeOK
  <2> QED
    BY <1>5, <2>1, <2>2, <1>a
<1>6. ASSUME NEW s \in Sessions, Expire(s) PROVE Lags'
  BY <1>6, <1>a DEF Expire, cache
<1>7. CASE Cache
  <2>1. UNCHANGED <<revoked, faults, crossed>>
    BY <1>7 DEF Cache
  <2>2. ASSUME NEW p \in Processes, NEW s \in Sessions, Invalidate(p, s) \/ EvictLocal(p, s)
        PROVE  Lags'
    <3>1. local'[q][t] = IF q = p /\ t = s THEN NoValue ELSE local[q][t]
      BY <2>2, <1>0, LocalWithEntry DEF Invalidate, EvictLocal, Sessions, Entries
    <3>2. ~(q = p /\ t = s) /\ local[q][t] # NoValue
      BY <3>1
    <3>3. bus \ {<<p, s>>} \subseteq bus'
      BY <2>2 DEF Invalidate, EvictLocal
    <3> QED
      BY <2>1, <3>2, <3>3, <1>a
  <2>3. ASSUME NEW s \in over, ExpireShared(s) PROVE Lags'
    BY <2>1, <2>3, <1>a DEF ExpireShared
  <2> QED
    BY <1>7, <2>2, <2>3 DEF Cache
<1>8. CASE CacheFault
  BY <1>8, ImpersonationAssumption DEF CacheFault, TypeOK
<1>9. CASE UNCHANGED vars
  BY <1>9, <1>a DEF vars, cache
<1> QED
  BY <1>1, <1>2, <1>3, <1>4, <1>5, <1>6, <1>7, <1>8, <1>9, <1>10 DEF Next

\* While no message of the bus is lost, a process that still accepts a session revoked for
\* good has a message on its way that ends it, or had a get that awaited Redis when the
\* session was deleted, for any sessions, processes and requests.
THEOREM RevocationArrives == Spec => []OnlyTheBusLags
  BY TypeCorrect, GoneInit, GoneStep, LagInit, LagStep, PTL DEF Spec

-----------------------------------------------------------------------------
(* First uses.                                                             *)

\* Request r is about to write the first-use row of session s.
Auditing(r, s) == request[r].step = "auditUse" /\ request[r].session = s

LEMMA AuditInit == Init => UseIsAudited
  BY ImpersonationAssumption DEF Init, UseIsAudited, CacheInit, Sessions

LEMMA AuditStep == TypeOK /\ UseIsAudited /\ [Next]_vars => UseIsAudited'
<1> SUFFICES ASSUME TypeOK, UseIsAudited, [Next]_vars, faults' = 0,
                    NEW t \in Sessions, shared'[t] = "used"
             PROVE  firstUses'[t] > 0 \/ \E q \in Requests : Auditing(q, t)'
  BY DEF UseIsAudited, At, Auditing
<1> DEFINE Audited == firstUses'[t] > 0 \/ \E q \in Requests : Auditing(q, t)'
<1>0. /\ CacheTypeOK /\ firstUses \in [Sessions -> 0..2]
      /\ faults = 0 /\ shared[t] = "used" => firstUses[t] > 0 \/ \E q \in Requests : Auditing(q, t)
  BY DEF TypeOK, UseIsAudited, At, Auditing
<1>1. ASSUME NEW s \in Sessions, NEW p \in Processes, Start(s, p) PROVE Audited
  BY <1>0, <1>1, ImpersonationAssumption DEF Start, Put, CacheTypeOK, Sessions, Auditing
<1>2. ASSUME NEW s \in Sessions, NEW p \in Processes, NEW r \in Requests, NEW step,
             Verify(r, s, p) \/ Stop(r, s, p) \/ AskRedis(r, step, s, p)
      PROVE  Audited
  <2>1. UNCHANGED <<shared, firstUses, faults>> /\ request[r] = Idle
    BY <1>2 DEF Verify, Stop, AskRedis, cache
  <2>2. \A q \in Requests \ {r} : request'[q] = request[q]
    <3>1. ASSUME Verify(r, s, p) PROVE local[p][s] \in Values
      BY <1>0, <3>1 DEF Verify, CacheTypeOK, Sessions, Entries
    <3> QED
      BY <1>2, <3>1, ImpersonationAssumption
      DEF Verify, Stop, AskRedis, Accept, Goto, Await, Finish, TypeOK
  <2> QED
    BY <1>0, <2>1, <2>2 DEF Auditing, Idle
<1>10. ASSUME NEW r \in Requests, FindInRedis(r) PROVE Audited
  <2>1. UNCHANGED <<shared, firstUses, faults>> /\ request[r].step # "auditUse"
    BY <1>10 DEF FindInRedis, Keep
  <2>2. \A q \in Requests \ {r} : request'[q] = request[q]
    <3>1. request[r].found \in Values
      BY <1>10 DEF FindInRedis, TypeOK, Idle, AtGet, PastGet
    <3> QED
      BY <1>10, <3>1, ImpersonationAssumption
      DEF FindInRedis, Accept, Goto, Await, Finish, TypeOK
  <2> QED
    BY <1>0, <2>1, <2>2 DEF Auditing
<1>3. ASSUME NEW r \in Requests, MarkUsed(r) PROVE Audited
  <2> DEFINE s == request[r].session
             p == request[r].process
  <2>1. s \in Sessions /\ p \in Processes /\ request[r].step # "auditUse"
    BY <1>3, Busy DEF MarkUsed, At
  <2>2. Put(p, s, "used") /\ Goto(r, "auditUse", s, p) /\ UNCHANGED <<firstUses, faults>>
    BY <1>3 DEF MarkUsed
  <2> HIDE DEF s, p
  <2>3. /\ request'[r].session = s /\ request'[r].step = "auditUse"
        /\ \A q \in Requests \ {r} : request'[q] = request[q]
    <3>1. Moves(r, [step |-> "auditUse", session |-> s, process |-> p, found |-> NoValue])
      BY <2>1, <2>2, GotoType
    <3> QED
      BY <3>1 DEF Moves
  <2>4. CASE t = s
    BY <2>3, <2>4 DEF Auditing
  <2>5. CASE t # s
    <3>1. shared'[t] = shared[t]
      BY <1>0, <2>1, <2>2, <2>5 DEF Put, CacheTypeOK, Sessions
    <3> QED
      BY <1>0, <2>1, <2>2, <2>3, <3>1 DEF Auditing
  <2> QED
    BY <2>4, <2>5
<1>4. ASSUME NEW r \in Requests, AuditUse(r) PROVE Audited
  <2> DEFINE s == request[r].session
  <2>1. s \in Sessions
    BY <1>4, Busy DEF AuditUse
  <2>2. /\ firstUses' = [firstUses EXCEPT ![s] = IF @ = 2 THEN 2 ELSE @ + 1]
        /\ Finish(r) /\ UNCHANGED <<shared, faults>>
    BY <1>4 DEF AuditUse, cache
  <2> HIDE DEF s
  <2>3. CASE t = s
    BY <1>0, <2>1, <2>2, <2>3
  <2>4. CASE t # s
    <3>1. request[r].session = s
      BY DEF s
    <3> QED
      BY <1>0, <2>2, <2>4, <3>1, FinishType DEF Moves, Auditing
  <2> QED
    BY <2>3, <2>4
<1>5. ASSUME NEW r \in Requests, DropExpired(r) \/ Delete(r) PROVE Audited
  <2> DEFINE s == request[r].session
             p == request[r].process
  <2>1. s \in Sessions /\ p \in Processes /\ request[r].step # "auditUse"
    BY <1>5, Busy DEF DropExpired, Delete, At
  <2>2. Put(p, s, NoValue) /\ Finish(r) /\ UNCHANGED <<firstUses, faults>>
    BY <1>5 DEF DropExpired, Delete
  <2> HIDE DEF s, p
  <2>3. shared[t] = "used"
    BY <1>0, <2>1, <2>2, ImpersonationAssumption DEF Put, CacheTypeOK, Sessions
  <2> QED
    BY <1>0, <2>1, <2>2, <2>3, FinishType DEF Moves, Auditing
<1>6. ASSUME NEW r \in Requests, Fail(r) PROVE Audited
  BY <1>6, ImpersonationAssumption DEF Fail, TypeOK
<1>7. ASSUME NEW s \in Sessions, Expire(s) PROVE Audited
  BY <1>0, <1>7 DEF Expire, cache, Auditing
<1>8. CASE Cache \/ CacheFault
  <2>1. UNCHANGED <<request, firstUses>>
    BY <1>8 DEF Cache, CacheFault
  <2>2. faults = 0
    BY <1>8, ImpersonationAssumption DEF Cache, CacheFault, TypeOK
  <2>3. shared'[t] \in {shared[t], NoValue}
    BY <1>0, <1>8, CacheSteps, ExpireStep DEF Cache, CacheFault, TypeOK, Sessions
  <2> QED
    BY <1>0, <2>1, <2>2, <2>3, ImpersonationAssumption DEF Auditing
<1>9. CASE UNCHANGED vars
  BY <1>0, <1>9 DEF vars, cache, Auditing
<1> QED
  BY <1>1, <1>2, <1>3, <1>4, <1>5, <1>6, <1>7, <1>8, <1>9, <1>10 DEF Next

\* Without faults, a session marked as used has its first-use row or a request that will
\* write it, however many first verifies race.
THEOREM FirstUseIsAudited == Spec => []UseIsAudited
  BY TypeCorrect, AuditInit, AuditStep, PTL DEF Spec
=============================================================================
