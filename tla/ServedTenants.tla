---------------------------- MODULE ServedTenants ----------------------------
(***************************************************************************)
(* What the tenant lifecycle promises the request path, without rows, jobs *)
(* or workers: storage comes before service, and goes after it.            *)
(***************************************************************************)
CONSTANT Tenants

VARIABLES
  served,  \* tenants whose requests the guard lets through
  stored   \* tenants whose storage exists

vars == <<served, stored>>

TypeOK == served \subseteq Tenants /\ stored \subseteq Tenants

Init == served = {} /\ stored = {}

Provision(t) == stored' = stored \cup {t} /\ UNCHANGED served

\* A tenant is served only once it has storage.
Serve(t) == t \in stored /\ served' = served \cup {t} /\ UNCHANGED stored

Withdraw(t) == served' = served \ {t} /\ UNCHANGED stored

\* Only the storage of a tenant that is not served is reclaimed.
Reclaim(t) == t \notin served /\ stored' = stored \ {t} /\ UNCHANGED served

Next == \E t \in Tenants : Provision(t) \/ Serve(t) \/ Withdraw(t) \/ Reclaim(t)

Spec == Init /\ [][Next]_vars
=============================================================================
