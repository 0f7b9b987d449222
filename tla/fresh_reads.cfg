CONSTANTS
  Owners = {a1, a2}
  Paths = {p1}
  Contents = {e, c1}
  Empty = e
  NoFile = NoFile
  None = None
  Api = Api
  Idlers = {}
  Kinds = {"read", "create", "replace", "edit", "delete"}
  DbMayFail = TRUE
  MayAbandon = TRUE
  MayCrash = FALSE
SPECIFICATION Spec
SYMMETRY OwnerSymmetry
INVARIANTS CheckedContentStable ReplacesKnownBytes
