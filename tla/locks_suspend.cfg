CONSTANTS
  None = None
  Api = Api
  a1 = a1
  b1 = b1
  b2 = b2
  Owners = {a1, b1, b2}
  Requests = {}
  Paths = {p1}
  RefreshedAs <- SelfRefresh
  Unlockers = {}
  MaxPersist = 1
  DbMayFail = FALSE
  MayAbandon = TRUE
  MayCrash = FALSE
  Scopes <- TwoSessions
  Swaps <- PrimarySwap
SPECIFICATION SSpec
INVARIANT WriterExclusion
