SPECIFICATION Spec
CONSTANTS
  Users = {u1}
  Requests = {r1, r2}
  Kinds = {"transcode", "cancel", "upload", "delete"}
  Workers = {w}
  NoWorker = NoWorker
  Segments = 1
  MaxTask = 2
  MaxStops = 1
SYMMETRY Symm
INVARIANTS TypeOK ReadyIsWhole NothingStranded
CHECK_DEADLOCK FALSE
CONSTRAINT Instance
