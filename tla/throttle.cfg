SPECIFICATION ClientFairSpec
CONSTANTS
  r1 = r1  r2 = r2  None = None
  Callers = {r1, r2}
  HasRepo = FALSE
  MaxRetries = 1
  BaseDelay = 1
  MinDelay = 0
  MaxBackoff = 2
  Timeout = 2
  Margin = 2
  Life = 4
  Threshold = 1
  Headers = {0, 2}
  s1 = s1  s2 = s2  k1 = k1  k2 = k2
  Spawners = {s1, s2}
  Killers = {k1, k2}
  Persistent = 2
  Lookups = {r1, r2}
  MaxPushed = 3
  Oversized = {2}
  Listed <- SomeLists
  Accounts = {"acme", "globex"}
  Newcomers = {"x5"}
  PageLen = 2
  MaxPages = 2
  MaxChanges = 2
  ForgePools <- SomePools
  Waiting <- SomeTasks
  Forms = {"array", "tasks", "total", "other"}
  NoToken = NoToken
INVARIANTS
  TokenValidWhenSent AlertJustified SpawnUndisturbed NothingLeftBehind
  DigestOfCall DiscoveredOnce AsksOwnForge
PROPERTIES CallerReturns OutageNoticed
