---------------------------- MODULE ConnectionPool ----------------------------
(***************************************************************************)
(* The connections of schema-pg and database-pg tenants in one process     *)
(* (services/isolation/schema_pg_driver.ts, database_pg_driver.ts): a      *)
(* driver registers a connection in Lucid's manager the first time a       *)
(* tenant is connected, keeps the names in the order of their last connect *)
(* and releases the oldest one when there are too many. Connect runs       *)
(* without an await; a release takes time, and an eviction does not wait   *)
(* for it.                                                                 *)
(***************************************************************************)
EXTENDS Naturals, FiniteSets, SequencesExt

CONSTANTS
  Tenants,
  Cap,          \* MAX_TENANT_CONNECTIONS
  MaxReleases   \* bound on the releases of one connection in flight at a time

ASSUME PoolAssumption ==
  /\ IsFiniteSet(Tenants)
  /\ Cap \in Nat \ {0}
  /\ MaxReleases \in Nat \ {0}

VARIABLES
  lru,        \* the driver's names, oldest connect first
  registered, \* tenants whose connection the manager has
  releasing,  \* how many releases of each connection are in flight
  since,      \* history: the tenants connected since each one's last connect
  unsure,     \* history: tenants not connected yet, disconnected since their
              \* last connect, or being released when it was made
  raced       \* history: some connect crossed a release, or a release failed

pool == <<lru, registered, releasing, since, unsure, raced>>

BeingReleased == {t \in Tenants : releasing[t] > 0}

PoolTypeOK ==
  /\ lru \in Seq(Tenants)
  /\ IsInjective(lru)
  /\ registered \subseteq Tenants
  /\ releasing \in [Tenants -> 0..MaxReleases]
  /\ since \in [Tenants -> SUBSET Tenants]
  /\ unsure \subseteq Tenants
  /\ raced \in BOOLEAN

PoolInit ==
  /\ lru = <<>>
  /\ registered = {}
  /\ releasing = [t \in Tenants |-> 0]
  /\ since = [t \in Tenants |-> {}]
  /\ unsure = Tenants
  /\ raced = FALSE

-----------------------------------------------------------------------------
\* Map.delete: the other names keep their order.
Without(names, t) ==
  IF t \in ToSet(names)
  THEN RemoveAt(names, CHOOSE i \in DOMAIN names : names[i] = t)
  ELSE names

\* Variant of Touched: a name that is there keeps its place.
TouchedInPlace(t) == IF t \in ToSet(lru) THEN lru ELSE Append(lru, t)

\* #touch: the name becomes the newest.
Touched(t) == Append(Without(lru, t), t)

\* Variant of Full: the bound is passed by one.
FullLate(names) == Len(names) > Cap + 1

Full(names) == Len(names) > Cap

\* manager.release of a name it does not have does nothing.
StartRelease(t) ==
  IF t \in registered
  THEN /\ releasing[t] < MaxReleases
       /\ releasing' = [releasing EXCEPT ![t] = @ + 1]
  ELSE UNCHANGED releasing

\* What the history variables keep of a connect.
NoteConnect(t) ==
  /\ since' = [u \in Tenants |-> IF u = t THEN {} ELSE since[u] \cup {t}]
  /\ unsure' = IF t \in BeingReleased THEN unsure \cup {t} ELSE unsure \ {t}
  /\ raced' = (raced \/ t \in BeingReleased)

\* connect: a registered name is only touched; a new one may evict the oldest.
Connect(t) ==
  /\ NoteConnect(t)
  /\ registered' = registered \cup {t}
  /\ IF t \notin registered /\ Full(Touched(t))
     THEN /\ lru' = Tail(Touched(t))
          /\ StartRelease(Head(Touched(t)))
     ELSE /\ lru' = Touched(t)
          /\ UNCHANGED releasing

\* disconnect, up to its await.
Disconnect(t) ==
  /\ lru' = Without(lru, t)
  /\ StartRelease(t)
  /\ unsure' = unsure \cup {t}
  /\ UNCHANGED <<registered, since, raced>>

\* A release ends: whatever connection has the name is closed and unregistered.
Released(t) ==
  /\ t \in BeingReleased
  /\ releasing' = [releasing EXCEPT ![t] = @ - 1]
  /\ registered' = registered \ {t}
  /\ UNCHANGED <<lru, since, unsure, raced>>

\* A release rejects: an eviction ignores it, and the connection stays.
ReleaseFails(t) ==
  /\ t \in BeingReleased
  /\ releasing' = [releasing EXCEPT ![t] = @ - 1]
  /\ raced' = TRUE
  /\ UNCHANGED <<lru, registered, since, unsure>>

-----------------------------------------------------------------------------
(* A connection goes away under its users only when the tenant was          *)
(* disconnected, when Cap other tenants have been connected since its own   *)
(* last connect, or when that connect found it being released already: the  *)
(* order of the least-recently-used map, kept by delete-then-set in #touch. *)
StaysRegistered ==
  \A t \in Tenants \ registered :
    \/ t \in unsure
    \/ Cardinality(since[t]) >= Cap

(* As long as no connect crosses a release of the same connection and none  *)
(* fails, at most Cap connections are open beside those on their way out:   *)
(* the bound the driver's comment gives. A connect that meets its own       *)
(* release leaves a name in the map whose connection is gone, and evicting  *)
(* that name later frees nothing.                                           *)
OpenIsBounded == ~raced => Cardinality(registered \ BeingReleased) <= Cap
=============================================================================
