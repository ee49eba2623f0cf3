SPECIFICATION CachedSpec
CONSTANTS
  Processes = {p1}
  Keys = {s1}
  Values <- SessionValues
  NoValue = "none"
  Requests = {r1, r2}
  NoSession = NoSession
  MaxFaults = 0
  SettingProcesses = {p1}
  Readers = {}
  Writers = {}
  MaxLost = 0
  Logins = {}
  Callbacks = {}
  Issuers = {}
  NoIssuer = NoIssuer
  GateNames = {"header"}
  HeaderName = "header"
  Chains <- NoChain
  Togglers = {}
  MaxGateEvents = 0
  MaxGateFaults = 0
  Modules = {}
  Lookups = {}
  MaxApps = 1
CHECK_DEADLOCK FALSE
INVARIANT RevokedIsNotFound
