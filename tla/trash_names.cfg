SPECIFICATION Spec
CONSTANTS
  d = d d2 = d2 c = c f = f a = a b = b
  Dirs = {d, d2} Files = {c, f} Names = {a, b}
  Entries = {e1, e2} Requests = {r1, r2}
  Outlasting = {}
  Editable = {c}
  Home0 <- BesideAFile
INVARIANTS TrashHoldsWhatItNames
SYMMETRY Symmetry
