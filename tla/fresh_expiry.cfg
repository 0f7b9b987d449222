CONSTANTS
  Owners = {a1}
  Paths = {p1}
  Contents = {e, c1, c2}
  Empty = e
  NoFile = NoFile
  None = None
  Api = Api
  Idlers = {a1}
  Kinds = {"read", "create", "replace", "edit", "delete"}
  DbMayFail = TRUE
  MayAbandon = TRUE
  MayCrash = TRUE
SPECIFICATION Spec
INVARIANTS TypeOK ExpiredMustReread
