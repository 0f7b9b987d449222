CONSTANTS
  None = None
  Api = Api
  Owners = {a1, a2}
  Requests = {}
  Paths = {p1}
  RefreshedAs <- ParentRefresh
  Unlockers = {}
  MaxPersist = 1
  DbMayFail = FALSE
  MayAbandon = TRUE
  MayCrash = FALSE
SPECIFICATION Spec
INVARIANT WriterExclusion
