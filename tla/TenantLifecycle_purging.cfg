\* Two tenants: destroy, purge and no restore.
SPECIFICATION Spec
CONSTANTS
  t1 = t1
  t2 = t2
  w1 = w1
  w2 = w2
  NoTenant = NoTenant
  Tenants = {t1, t2}
  Workers = {w1, w2}
  Ops <- PurgingOps
  ActivateFrom <- ServedStatuses
  SuspendFrom <- ServedStatuses
  MaxAttempts = 1
  MaxFaults = 1
SYMMETRY Symmetry
INVARIANT RoutableHasStorage
PROPERTIES DropsOnlyDeleted ServedTenantsSpec
