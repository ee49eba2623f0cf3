\* Two requests for one session in two processes; two reads and two writes of a setting
\* in two processes; two logins with three callbacks and two providers; one request at the
\* gates, three chains of two resolvers, one change meanwhile and two toggles;
\* three applications one after another, with two lookups.
SPECIFICATION CachedSpec
CONSTANTS
  Processes = {p1, p2}
  Keys = {s1}
  Values <- SessionValues
  NoValue = "none"
  Requests = {r1, r2}
  NoSession = NoSession
  MaxFaults = 1
  SettingProcesses = {p1, p2}
  Readers = {q1, q2}
  Writers = {w1, w2}
  MaxLost = 1
  Logins = {l1, l2}
  Callbacks = {b1, b2}
  Issuers = {i1, i2}
  NoIssuer = NoIssuer
  GateNames = {"host", "header"}
  HeaderName = "header"
  Chains <- SomeChains
  Togglers = {"w1", "w2"}
  MaxGateEvents = 1
  MaxGateFaults = 1
  Modules = {"driver", "resolvers"}
  Lookups = {"k1", "k2"}
  MaxApps = 3
CHECK_DEADLOCK FALSE
INVARIANTS FinalRevocation OnlyTheBusLags UseIsAudited SettingIsFresh LoginsAreSound
  GatesAreTrue AppsAreTheirOwn
