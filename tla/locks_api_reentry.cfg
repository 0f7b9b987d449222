CONSTANTS
  None = None
  Api = Api
  Owners = {a1}
  Requests = {r1, r2}
  Paths = {p1}
  RefreshedAs <- SelfRefresh
  Unlockers = {}
  MaxPersist = 1
  DbMayFail = FALSE
  MayAbandon = FALSE
  MayCrash = FALSE
SPECIFICATION Spec
INVARIANT WriterExclusion
