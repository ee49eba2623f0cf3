\* Two scopes while bootstrappers are registered, unregistered and cleared; two pieces of
\* work of two tenants over two tables, or over two keys of a resource; two runs of hooks;
\* two requests for three replicas; two jobs and two servers on one database.
SPECIFICATION ScopesSpec
CONSTANTS
  Names = {b1, b2, b3}
  WithLeave = {b1, b2}
  Scopes = {s1, s2}
  MaxRegistered = 4
  MaxRemoved = 1
  Works = {w1, w2}
  Tenants = {ta, tb}
  Nobody = Nobody
  MaxDepth = 2
  ScopedTables = {rows1, rows2}
  MaxClauses = 3
  RelativeKeys = {k1, k2}
  ChannelPrefixes = {x1, x2}
  HookNames = {h1, h2}
  HookRuns = {n1, n2}
  MaxHooks = 3
  MaxClears = 1
  ReadTenants = {ta}
  Resolvers = {q1, q2}
  CursorWidth = 2
  MaxHosts = 3
  MaxPicks = 3
  StorageJobs = {j1, j2}
  Servers = {v1, v2}
  MaxQueries = 3
CHECK_DEADLOCK FALSE
INVARIANTS
  LeavesMatchEnters RowsAreScoped
  ResourcesArePrivate HooksRunInOrder
  ReplicasAreSound DriverKeepsItsContract
