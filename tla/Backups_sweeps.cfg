\* Two overlapping processes that back up and sweep; two deliveries of a clone job and
\* of a restore job; every dump of 4 lines and every input of 5 symbols; two runs
\* of the commands over two tenants.
SPECIFICATION DataSpec
SYMMETRY DataSymmetry
CONSTANTS
  Workers = {w1, w2}
  Cap = 3
  KeepLast = 1
  MaxBackups = 4
  MaxFaults = 1
  NoList = NoList
  RestoreJobs = {j1, j2}
  MaxRestoreAttempts = 2
  MaxRestoreFaults = 2
  CloneJobs = {j1, j2}
  SourceTables = {1, 2, 3}
  MigratedTables = {1, 2}
  TokenTable = 1
  MaxCloneAttempts = 2
  MaxCloneFaults = 2
  MaxLines = 4
  MaxInput = 5
  BatchTenants = {1, 2}
  BatchRuns = {u1, u2}
  NoRun = NoRun
  Latest = 2
  Limits = {0, 1}
  MaxTenantChanges = 1
  MaxBatchFaults = 1
CHECK_DEADLOCK FALSE
INVARIANTS
  RecentAreKept OnlyFaultsOrphan
  RestoreEndsMean
  ClonesAreSound
  ImportIsExact
  SplitsLikePostgres
  BatchesAreExact
