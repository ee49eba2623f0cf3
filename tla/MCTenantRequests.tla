--------------------------- MODULE MCTenantRequests ---------------------------
(* Instances of TenantRequests for TLC. *)
EXTENDS TenantRequests, TLC

Nowhere == [p \in Places |-> NoTenant]

\* Requests to a tenant's subdomain, and to its custom domain: with another
\* tenant's id for a leftmost label, or with one in the header.
HostedRequests ==
  {[Nowhere EXCEPT !["subdomain"] = t] : t \in Tenants} \cup
  {[Nowhere EXCEPT !["domain"] = p[1], !["label"] = p[2]] :
     p \in {p \in Tenants \X Tenants : p[1] # p[2]}} \cup
  {[Nowhere EXCEPT !["domain"] = p[1], !["label"] = NotAnId, !["header"] = p[2]] :
     p \in {p \in Tenants \X Tenants : p[1] # p[2]}}

HostChain == <<"domain-or-subdomain">>
HostThenHeader == <<"domain-or-subdomain", "header">>

Symmetry == Permutations(Tenants) \cup Permutations(Requests)
=============================================================================
