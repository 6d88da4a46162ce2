SPECIFICATION Spec
CONSTANTS
  r1 = r1
  r2 = r2
  a = a
  b = b
  prod = prod
  k1 = k1
  Runs = {r1, r2}
  Runners = {a, b}
  Keys = {k1}
  Scopes = {prod}
  Callers = {c1}
  Pumps = {p1}
  Syncs = {}
  MaxConns = 2
  MaxPumpsDue = 1
  SendBuf = 1
  Capacity <- ZeroAndTwo
  RunnerScopes <- ScopedB
  JobScope <- ScopedR1
  AffinityKey <- OneKey
  PreferredRunner <- R2PrefersA
  RoutingTables <- OnlyDefaultToA
  Revocable = {}
  Pausable = {b}
  Closable = {r1}
  HeartbeatSkew = 1
  StatusFetchFails = FALSE
  NoRun = NoRun
  NoRunner = NoRunner
  NoRecord = NoRecord
  AnyScope = AnyScope
  Note = Note
INVARIANTS
  TypeOK
  InflightAccounted
  TrackedOnce
  WithinCapacity
PROPERTIES
  NoSilentLoss
  AssignmentRespectsPolicy
