\* A tenant restored while the purge waits at its prompt.
SPECIFICATION Spec
CONSTANTS
  t1 = t1
  w1 = w1
  w2 = w2
  NoTenant = NoTenant
  Tenants = {t1}
  Workers = {w1, w2}
  Ops <- AllOps
  ActivateFrom <- AnyStatus
  SuspendFrom <- AnyStatus
  MaxAttempts = 2
  MaxFaults = 1
PROPERTY PurgeDropsOnlyDeleted
