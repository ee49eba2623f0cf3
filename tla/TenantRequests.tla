---------------------------- MODULE TenantRequests ----------------------------
(***************************************************************************)
(* HTTP requests of a process that share the tenants' connections. The     *)
(* guard (middleware/tenant_guard_middleware.ts) resolves a request's      *)
(* tenant by the resolver chain (extensions/request.ts, services/          *)
(* resolvers) and connects it. The queries of tenant models are routed by  *)
(* models/adapters/tenant_adapter.ts, which asks tenancy.currentId and,    *)
(* when it has no answer, the older switch over config.resolverStrategy.   *)
(* A tenant id stands for itself wherever a request carries it.            *)
(***************************************************************************)
EXTENDS ConnectionPool

CONSTANTS
  Requests,   \* requests in flight at a time
  NoTenant,
  NotAnId,    \* a value that is no tenant's id or domain
  Carried,    \* what requests may carry: where each one names a tenant
  Chain,      \* config.resolverChain, or <<config.resolverStrategy>>
  Strategy    \* config.resolverStrategy

\* The places in which a request names a tenant. A host is a "subdomain" of
\* baseDomain or a "domain" of its own, whose leftmost "label" may be an id too.
\* "segment" is the first of the url, "path" the same unless ignorePaths holds it;
\* "data" is under the keys of config.requestData, "tenant_id" under that one.
Places == {"header", "subdomain", "domain", "label", "segment", "path", "data", "tenant_id"}

Resolvers == {"header", "subdomain", "path", "domain-or-subdomain", "request-data"}

ASSUME RequestsAssumption ==
  /\ Chain \in Seq(Resolvers) /\ Strategy \in Resolvers
  /\ NoTenant \notin Tenants
  /\ NotAnId \notin Tenants \cup {NoTenant}
  /\ Carried \subseteq
       {q \in [Places -> Tenants \cup {NoTenant, NotAnId}] :
          /\ NoTenant \in {q["subdomain"], q["domain"]}
          /\ q["domain"] = NoTenant => q["label"] = NoTenant
          /\ q["path"] \in {NoTenant, q["segment"]}}

VARIABLES
  request,   \* each request: what it carries, the guard's tenant, and the
             \* tenant whose storage its latest query ran on
  warm       \* whether tenancy.run was called in this process

vars == <<pool, request, warm>>

Idle == [carries |-> NoTenant, tenant |-> NoTenant, ran |-> NoTenant]

TypeOK ==
  /\ PoolTypeOK
  /\ request \in [Requests -> {Idle} \cup [carries : Carried, tenant : Tenants,
                                           ran : Tenants \cup {NoTenant}]]
  /\ warm \in BOOLEAN

Init ==
  /\ PoolInit
  /\ request = [r \in Requests |-> Idle]
  /\ warm = FALSE

-----------------------------------------------------------------------------
\* The host's id as subdomain math has it, which knows of no custom domains.
LeftmostLabel(q) == IF q["domain"] # NoTenant THEN q["label"] ELSE q["subdomain"]

\* What a built-in resolver makes of a request: a tenant, none that exists, or a miss.
Resolved(resolver, q) ==
  CASE resolver = "header" -> q["header"]
    [] resolver = "path" -> q["path"]
    [] resolver = "request-data" -> q["data"]
    [] resolver = "domain-or-subdomain" ->
         IF q["subdomain"] # NoTenant THEN q["subdomain"] ELSE q["domain"]
    [] resolver = "subdomain" -> LeftmostLabel(q)

\* TenantResolverRegistry.resolve: the first hit of the chain.
FirstHit(i, q) ==
  /\ Resolved(Chain[i], q) # NoTenant
  /\ \A j \in 1..i-1 : Resolved(Chain[j], q) = NoTenant

ByChain(q) ==
  IF \E i \in 1..Len(Chain) : FirstHit(i, q)
  THEN Resolved(Chain[CHOOSE i \in 1..Len(Chain) : FirstHit(i, q)], q)
  ELSE NoTenant

\* Variant of ByStrategy: a host that gives no tenant falls back to the header.
ByStrategyOrHeader(q) ==
  IF LeftmostLabel(q) \in Tenants THEN LeftmostLabel(q) ELSE q["header"]

\* legacyResolveTenantId: no chain, no custom domains, no ignorePaths, and
\* tenant_id whatever config.requestData says.
ByStrategy(q) ==
  CASE Strategy \in {"subdomain", "domain-or-subdomain"} -> LeftmostLabel(q)
    [] Strategy = "path" -> q["segment"]
    [] Strategy = "request-data" -> q["tenant_id"]
    [] Strategy = "header" -> q["header"]

\* The guard: the tenant is resolved, connected and bound as the log context.
Guard(r, q) ==
  /\ request[r] = Idle
  /\ ByChain(q) \in Tenants
  /\ Connect(ByChain(q))
  /\ request' = [request EXCEPT ![r] = [carries |-> q, tenant |-> ByChain(q), ran |-> NoTenant]]
  /\ UNCHANGED warm

\* TenantAdapter: tenancy.currentId answers only once tenancy.run was called.
QueryTarget(r) == IF warm THEN request[r].tenant ELSE ByStrategy(request[r].carries)

\* A query of a tenant model; it throws when the manager lacks the connection.
Query(r) ==
  /\ request[r] # Idle
  /\ QueryTarget(r) \in registered
  /\ request' = [request EXCEPT ![r].ran = QueryTarget(r)]
  /\ UNCHANGED <<pool, warm>>

\* The response is sent, or the guard refuses the tenant it has connected.
Finish(r) ==
  /\ request[r] # Idle
  /\ request' = [request EXCEPT ![r] = Idle]
  /\ UNCHANGED <<pool, warm>>

\* The other connects of the process: universal routes, imports, replicas.
Use(t) ==
  /\ Connect(t)
  /\ UNCHANGED <<request, warm>>

\* destroy, reset and clone drop the connection they used.
Drop(t) ==
  /\ Disconnect(t)
  /\ UNCHANGED <<request, warm>>

EndRelease(t) ==
  /\ Released(t) \/ ReleaseFails(t)
  /\ UNCHANGED <<request, warm>>

\* tenancy.run caches the log context that currentId reads.
RunScope ==
  /\ ~warm
  /\ warm' = TRUE
  /\ UNCHANGED <<pool, request>>

Next ==
  \/ RunScope
  \/ \E t \in Tenants : Use(t) \/ Drop(t) \/ EndRelease(t)
  \/ \E r \in Requests : Query(r) \/ Finish(r) \/ \E q \in Carried : Guard(r, q)

Spec == Init /\ [][Next]_vars

-----------------------------------------------------------------------------
(* The queries of a guarded request run on the storage of the tenant the    *)
(* guard admitted, whatever else the request carries: the guard and the     *)
(* adapter, which find the tenant in different ways, agree                  *)
(* (tenant_adapter.ts:50-62).                                               *)
OwnStorage == \A r \in Requests : request[r].ran \in {request[r].tenant, NoTenant}

(* Where hosts decide, nothing but the host does: the queries of a guarded  *)
(* request run on the tenant the guard admitted, whether or not the process *)
(* has run a scope and whatever the header, the url and the body name. The  *)
(* one way round is a custom domain whose own leftmost label is the id of   *)
(* the tenant reached (request.ts:62-63), which nothing forbids.            *)
HostDecides ==
  \A r \in Requests :
    \/ request[r].ran \in {request[r].tenant, NoTenant}
    \/ /\ request[r].carries["domain"] = request[r].tenant
       /\ request[r].carries["label"] = request[r].ran
=============================================================================
