CONSTANTS
  Owners = {a1, a2}
  Paths = {p1}
  Contents = {e, c1}
  Empty = e
  NoFile = NoFile
  None = None
  Api = Api
  Idlers = {}
  Kinds = {"read", "create", "replace", "edit", "delete"}
  DbMayFail = FALSE
  MayAbandon = FALSE
  MayCrash = FALSE
SPECIFICATION SeenSpec
INVARIANT NoBlindOverwrite
