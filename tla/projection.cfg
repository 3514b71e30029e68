SPECIFICATION Spec
CONSTANTS
  Inodes = {1, 2}
  Names = {a, b}
  NoName = noname
  Requests = {r}
  Workers = {w}
  MaxGen = 2
CHECK_DEADLOCK FALSE
CONSTRAINT PicFirst
SYMMETRY Interchangeable
INVARIANTS WorkerNeverMisleads
PROPERTIES NeverRolledBack RowLivesWithFile
