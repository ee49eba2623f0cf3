SPECIFICATION Spec
CONSTANTS
  Tenants = {t1, t2, t3}
  NoTenant = NoTenant
  NotAnId = NotAnId
  Requests = {r1, r2}
  Cap = 2
  MaxReleases = 2
  Carried <- HostedRequests
  Chain <- HostChain
  Strategy = "domain-or-subdomain"
SYMMETRY Symmetry
INVARIANTS StaysRegistered OpenIsBounded HostDecides
