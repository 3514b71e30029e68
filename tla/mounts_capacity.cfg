CONSTANTS
  Users = {u1, u2}
  Requests = {r1}
  Loop = loop
  Reconcilers = {loop}
  MaxMounts = 1
  Others = {0}
  Handles = {1, 2}
SPECIFICATION Spec
CHECK_DEADLOCK FALSE
SYMMETRY Symmetry
INVARIANTS WithinCapacity
