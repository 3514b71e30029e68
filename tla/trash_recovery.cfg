SPECIFICATION Spec
CONSTANTS
  d = d d2 = d2 c = c f = f a = a b = b
  Dirs = {d, d2} Files = {c, f} Names = {a, b}
  Entries = {e1} Requests = {r1, r2}
  Outlasting = {"restore", "delete", "empty"}
  Editable = {d2}
  Home0 <- BesideADirectory
INVARIANTS OwnPayloadHasRow
PROPERTIES EntrySettles
