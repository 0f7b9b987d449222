CONSTANTS
  None = None
  Api = Api
  Owners = {a1, a2, a3}
  Requests = {}
  Paths = {p1, p2}
  RefreshedAs <- SelfRefresh
  Unlockers = {}
  MaxPersist = 1
  DbMayFail = FALSE
  MayAbandon = FALSE
  MayCrash = TRUE
SPECIFICATION Spec
SYMMETRY Symmetry
INVARIANTS NoSilentDeadlock MirrorCoherent
