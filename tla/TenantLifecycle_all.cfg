\* Every entry point on one tenant; the cron runs the purge and the doctor.
SPECIFICATION FairSpec
CONSTANTS
  t1 = t1
  w1 = w1
  w2 = w2
  NoTenant = NoTenant
  Tenants = {t1}
  Workers = {w1, w2}
  Ops <- AllButSuspend
  ActivateFrom <- ServedStatuses
  SuspendFrom <- ServedStatuses
  MaxAttempts = 2
  MaxFaults = 1
INVARIANT TypeOK
PROPERTIES DeletionIsSticky NoLimbo ExpiredIsReclaimed
