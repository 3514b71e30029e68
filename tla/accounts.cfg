SPECIFICATION FairSpec
CONSTANTS
  Users = {u1, u2}
  Requests = {r1, r2}
  Api = Api
  Helpers = {h1}
  Nobody = Nobody
  MaxBusy = 2
CHECK_DEADLOCK FALSE
INVARIANTS ServesOnlyWhole
PROPERTIES LiveKeepsNamespace RootLostOnlyWhenOvertaken OrphanReclaimed
