\* Two calls for 2 of a limit of 3 on three days, one of them unenforced, one that dies; two
\* flushes of two metrics on three days; three requests against a limit of two; a breaker in two servers;
\* two runs of the doctor over two tenants, and two requests for /readyz.
SPECIFICATION CountersSpec
CONSTANTS
  Callers = {c1, c2}
  Limit = 3
  Amount = 2
  MaxDay = 2
  MaxSoft = 1
  MaxFaults = 1
  MetricKeys <- TwoMetrics
  Trackers = {i1}
  Flushers = {f1, f2}
  MaxMetricDay = 2
  MaxIncrements = 2
  MaxFlushFaults = 1
  Hits = {h1, h2, h3}
  HitLimit = 2
  Window = 3
  MaxClock = 5
  Servers = {v1, v2}
  MaxTransitions = 4
  MaxJobs = 1
  Patients = {ta, tb}
  SomePatient = ta
  Doctors = {x1, x2}
  MaxWorldChanges = 1
  MaxDoctorFaults = 1
  DefaultChecks = {db, redis}
  OwnChecks = {own}
  Probes = {p1, p2}
  MaxFlaps = 1
CHECK_DEADLOCK FALSE
INVARIANTS
  BoundedOvershoot OnlyFaultsLeak FlushKeepsCounts WindowIsLimited
  BreakersAreSound
  ReportsAreRight HealthIsTrue
