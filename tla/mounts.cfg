CONSTANTS
  Users = {u1}
  Requests = {r1}
  Loop = loop
  Reconcilers = {loop}
  MaxMounts = 1
  Others = {0, 1}
  Handles = {1}
SPECIFICATION FairSpec
CHECK_DEADLOCK FALSE
PROPERTIES ForgottenSettles DesiredServed

INVARIANTS TypeOK MountedIsMarked NothingUntracked WantedOrLeaving ShutdownLeavesNoMount
