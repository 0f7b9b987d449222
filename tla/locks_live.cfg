CONSTANTS
  None = None
  Api = Api
  Owners = {a1, a2}
  Requests = {r1}
  Paths = {p1}
  RefreshedAs <- SelfRefresh
  Unlockers = {a1}
  MaxPersist = 1
  DbMayFail = FALSE
  MayAbandon = TRUE
  MayCrash = TRUE
SPECIFICATION FairSpec
PROPERTY QuietCallEnds
