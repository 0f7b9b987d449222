CONSTANTS
  None = None
  Api = Api
  Owners = {a1, a2}
  Requests = {}
  Paths = {p1}
  RefreshedAs <- SelfRefresh
  Unlockers = {}
  MaxPersist = 1
  DbMayFail = TRUE
  MayAbandon = FALSE
  MayCrash = FALSE
SPECIFICATION Spec
INVARIANT NoLostWakeup
