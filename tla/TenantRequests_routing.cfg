SPECIFICATION Spec
CONSTANTS
  Tenants = {t1, t2, t3}
  NoTenant = NoTenant
  NotAnId = NotAnId
  Requests = {r1}
  Cap = 2
  MaxReleases = 2
  Carried <- HostedRequests
  Chain <- HostThenHeader
  Strategy = "header"
INVARIANTS OwnStorage
