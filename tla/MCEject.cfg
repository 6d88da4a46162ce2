SPECIFICATION FairSpec
CONSTANTS
  r1 = r1
  r2 = r2
  a = a
  b = b
  prod = prod
  k1 = k1
  Runs = {r1}
  Runners = {a}
  Keys = {k1}
  Scopes = {}
  Callers = {c1}
  Pumps = {p1}
  Syncs = {y1, y2}
  MaxConns = 2
  MaxPumpsDue = 1
  SendBuf = 1
  Capacity <- AllOne
  RunnerScopes <- Unscoped
  JobScope <- ScopedR1
  AffinityKey <- OneKey
  PreferredRunner <- NoPreference
  RoutingTables <- OnlyDefaultToA
  Revocable = {a}
  Pausable = {a}
  Closable = {}
  HeartbeatSkew = 0
  StatusFetchFails = FALSE
  NoRun = NoRun
  NoRunner = NoRunner
  NoRecord = NoRecord
  AnyScope = AnyScope
  Note = Note
INVARIANTS
  OneConnection
  RegistryMirrors
PROPERTIES
  RevocationPrevails
