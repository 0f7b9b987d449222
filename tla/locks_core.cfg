CONSTANTS
  None = None
  Api = Api
  Owners = {a1, a2}
  Requests = {r1}
  Paths = {p1}
  RefreshedAs <- SelfRefresh
  Unlockers = {a1, a2}
  MaxPersist = 1
  DbMayFail = TRUE
  MayAbandon = TRUE
  MayCrash = TRUE
SPECIFICATION Spec
SYMMETRY Symmetry
INVARIANTS TypeOK WriterExclusion SleepersKnowHolder
PROPERTY ImplementsPathWriters
