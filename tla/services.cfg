SPECIFICATION Spec
CONSTANTS
  h1 = h1  h2 = h2  h3 = h3  a1 = a1  a2 = a2  c1 = c1  c2 = c2  d1 = d1  d2 = d2
  k1 = k1  k2 = k2
  None = None  Nothing = Nothing  NoPassword = NoPassword  NoMatch = NoMatch
  Handlers = {h1, h2, h3}
  Profiles = {a1, a2}
  Requests <- ThreeRequests
  MaxPools = 1
  Checks = {c1, c2}
  Pulls = {d1, d2}
  MaxVersion = 2
  Wirings <- SomeWirings
  MaxIds = 3
  Clients = {k1, k2}
  Names = {"root", "ops"}
  Passwords = {"x", "y"}
  Life = 1
  MaxNow = 1
  MaxTokens = 2
  PoolLists <- FivePoolLists
  JobEvents <- FiveJobs
  Strangers <- SomeStrangers
  Secrets = {"github", "forgejo"}
  MaxSent = 2
  Mixes <- FiveMixes
SYMMETRY Symmetric
INVARIANTS References WrittenAsAsked OneAdministrator CompleteWasTrue MostSpecificPool BusyTruthful
PROPERTIES CheckIsRight
