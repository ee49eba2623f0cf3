----------------------------- MODULE ReadReplicas -----------------------------
(***************************************************************************)
(* The read replicas (services/read_replica_service.ts): requests pick one *)
(* by random, by the tenant or in turns, and add its connection, with the  *)
(* settings of the tenant's own, the first time it is asked for. Nobody    *)
(* releases it; the tenant's own connection comes and goes.                *)
(***************************************************************************)
EXTENDS Naturals, FiniteSets

CONSTANTS
  ReadTenants, \* tenants
  Resolvers,   \* requests that resolve a replica, one after another
  CursorWidth, \* the bits of the cursor: 32
  MaxHosts,    \* bound on the replicas that are configured
  MaxPicks     \* bound on the picks of each replica

\* The second conjunct is a fact of arithmetic, which the provers are told.
ASSUME ReplicasAssumption ==
  /\ CursorWidth \in Nat \ {0}
  /\ 2 ^ CursorWidth \in Nat \ {0, 1}
  /\ MaxHosts \in Nat
  /\ ReadTenants # {}

VARIABLES
  hosts,    \* the number of replicas
  strategy, \* "random", "sticky" or "round-robin"
  driver,   \* "database-pg", "schema-pg" or "rowscope-pg"
  hash,     \* what the hash of a tenant's id leaves modulo hosts
  cursor,   \* of the turns
  primary,  \* tenants whose own connection is registered
  replica,  \* by tenant and replica: "none", or what the reads over its connection reach
  resolver, \* the requests
  picks,    \* history: how often each replica was picked
  wraps,    \* history: how often the cursor began again out of turn
  torn,     \* history: tenants whose own connection went while a request was to clone it
  served    \* history: the tenant and the replica of each connection handed out

replicaVars == <<hosts, strategy, driver, hash, cursor, primary, replica, resolver, picks, wraps, torn, served>>

Indexes == 0..(MaxHosts - 1)
AtRest == [step |-> "idle", tenant |-> CHOOSE t \in ReadTenants : TRUE, idx |-> 0]

ReplicasInit ==
  /\ hosts \in 1..MaxHosts
  /\ strategy \in {"random", "sticky", "round-robin"}
  /\ driver \in {"database-pg", "schema-pg", "rowscope-pg"}
  /\ hash \in [ReadTenants -> 0..(hosts - 1)]
  /\ strategy # "sticky" => hash = [t \in ReadTenants |-> 0]
  /\ cursor = 0
  /\ primary = {}
  /\ replica = [t \in ReadTenants |-> [i \in Indexes |-> "none"]]
  /\ resolver = [r \in Resolvers |-> AtRest]
  /\ picks = [i \in Indexes |-> 0]
  /\ wraps = 0
  /\ torn = {}
  /\ served = {}

-----------------------------------------------------------------------------
(* pickIndex.                                                              *)

\* (cursor + 1) >>> 0
NextCursor == (cursor + 1) % (2 ^ CursorWidth)

\* The first replica does not follow the last one picked when the cursor begins again.
OutOfTurn == (2 ^ CursorWidth) % hosts # 0

Candidates(t) ==
  CASE strategy = "random"      -> 0..(hosts - 1)
    [] strategy = "sticky"      -> {hash[t]}
    [] strategy = "round-robin" -> {cursor % hosts}

\* Variant of PickReplica: the cursor is left to the request that adds the connection.
PickReplicaLazily(r) ==
  /\ resolver[r].step = "idle"
  /\ \E t \in ReadTenants : \E i \in Candidates(t) :
       /\ picks[i] < MaxPicks
       /\ picks' = [picks EXCEPT ![i] = @ + 1]
       /\ cursor' = IF strategy = "round-robin" /\ replica[t][i] = "none" THEN NextCursor ELSE cursor
       /\ wraps' = IF cursor' < cursor /\ OutOfTurn THEN wraps + 1 ELSE wraps
       /\ resolver' = [resolver EXCEPT ![r] = [AtRest EXCEPT !.step = "picked", !.tenant = t, !.idx = i]]
  /\ UNCHANGED <<hosts, strategy, driver, hash, primary, replica, torn, served>>

\* A request picks, and awaits the database service.
PickReplica(r) ==
  /\ resolver[r].step = "idle"
  /\ \E t \in ReadTenants : \E i \in Candidates(t) :
       /\ picks[i] < MaxPicks
       /\ picks' = [picks EXCEPT ![i] = @ + 1]
       /\ cursor' = IF strategy = "round-robin" THEN NextCursor ELSE cursor
       /\ wraps' = IF cursor' < cursor /\ OutOfTurn THEN wraps + 1 ELSE wraps
       /\ resolver' = [resolver EXCEPT ![r] = [AtRest EXCEPT !.step = "picked", !.tenant = t, !.idx = i]]
  /\ UNCHANGED <<hosts, strategy, driver, hash, primary, replica, torn, served>>

-----------------------------------------------------------------------------
(* resolve.                                                                *)

Serve(r) ==
  /\ served' = served \cup {<<resolver[r].tenant, resolver[r].idx>>}
  /\ resolver' = [resolver EXCEPT ![r] = AtRest]

\* A connection that is registered is handed out; otherwise the tenant's own is opened.
FindReplica(r) ==
  /\ resolver[r].step = "picked"
  /\ IF replica[resolver[r].tenant][resolver[r].idx] # "none"
     THEN Serve(r)
     ELSE resolver' = [resolver EXCEPT ![r].step = "connect"] /\ UNCHANGED served
  /\ UNCHANGED <<hosts, strategy, driver, hash, cursor, primary, replica, picks, wraps, torn>>

\* driver.connect, under the tenant's name unless the driver shares a connection.
ConnectPrimary(r) ==
  /\ resolver[r].step = "connect"
  /\ primary' = IF driver # "rowscope-pg" THEN primary \cup {resolver[r].tenant} ELSE primary
  /\ resolver' = [resolver EXCEPT ![r].step = "add"]
  /\ UNCHANGED <<hosts, strategy, driver, hash, cursor, replica, picks, wraps, torn, served>>

\* The replica's has the connection settings of the tenant's own, or none when that is not
\* there. They are all that sets a tenant apart under database-pg, its database. Under
\* schema-pg it is the search path, which is kept beside the settings and is not copied:
\* reads reach the database every tenant shares, under that server's default search path.
Copied(t) ==
  IF t \notin primary THEN "nothing"
  ELSE IF driver = "database-pg" THEN "tenant" ELSE "shared"

\* Adding a connection that another request has added meanwhile does nothing.
AddReplica(r) ==
  LET t == resolver[r].tenant
      i == resolver[r].idx IN
  /\ resolver[r].step = "add"
  /\ replica' = IF replica[t][i] # "none" THEN replica
                ELSE [replica EXCEPT ![t][i] = Copied(t)]
  /\ Serve(r)
  /\ UNCHANGED <<hosts, strategy, driver, hash, cursor, primary, picks, wraps, torn>>

\* The driver's eviction or disconnect takes the tenant's own connection away.
ReleasePrimary(t) ==
  /\ t \in primary
  /\ primary' = primary \ {t}
  /\ torn' = IF \E r \in Resolvers : resolver[r].step = "add" /\ resolver[r].tenant = t
             THEN torn \cup {t} ELSE torn
  /\ UNCHANGED <<hosts, strategy, driver, hash, cursor, replica, resolver, picks, wraps, served>>

ResetCursor ==
  /\ cursor > 0
  /\ cursor' = 0
  /\ wraps' = wraps + 1
  /\ UNCHANGED <<hosts, strategy, driver, hash, primary, replica, resolver, picks, torn, served>>

ReplicasNext ==
  \/ \E t \in ReadTenants : ReleasePrimary(t)
  \/ \E r \in Resolvers : PickReplica(r) \/ FindReplica(r) \/ ConnectPrimary(r) \/ AddReplica(r)
  \/ ResetCursor

ReplicasSpec == ReplicasInit /\ [][ReplicasNext]_replicaVars

-----------------------------------------------------------------------------
(* Properties.                                                             *)

\* In turns, every replica is picked as often as any other, but for one pick, and for one
\* more each time the cursor begins again out of turn: 2^32 is not a multiple of every
\* number of replicas.
TurnsAreEven ==
  strategy = "round-robin" =>
    \A i, j \in 0..(hosts - 1) : picks[i] <= picks[j] + 1 + wraps

\* The connections of a sticky tenant are all to one replica.
StickyStays ==
  strategy = "sticky" => \A p, q \in served : p[1] = q[1] => p = q

\* Under database-pg, reads over a replica reach the tenant's own database, unless the
\* tenant's connection went while a request was about to copy it. Under schema-pg they do
\* not reach the tenant's schema, ever, and this promises nothing of them.
ClonesAreTenants ==
  driver = "database-pg" =>
    \A p \in served : replica[p[1]][p[2]] = "tenant" \/ p[1] \in torn

\* What a read of a tenant may rely on.
ReplicasAreSound == TurnsAreEven /\ StickyStays /\ ClonesAreTenants
=============================================================================
