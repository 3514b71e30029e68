SPECIFICATION Spec
CONSTANTS
  Servers = {s1, s2}
  Inodes = {i1, i2}
  Objects = {o1}
  None = None
SYMMETRY Symmetric
CONSTRAINT Instance
CHECK_DEADLOCK FALSE
INVARIANTS OneServer OfflineAlone SucceedsExactly
PROPERTIES BundleIsSnapshot LogBelongs RefusedIsHarmless
