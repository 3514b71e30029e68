SPECIFICATION Spec
CONSTANTS
  Inodes = {1, 2}
  Names = {a, b}
  NoName = noname
  Requests = {r}
  Workers = {}
  MaxGen = 2
CHECK_DEADLOCK FALSE
SYMMETRY Interchangeable
INVARIANTS NothingShownIsStale
