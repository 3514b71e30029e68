SPECIFICATION FairSpec
CONSTANTS
  Users = {u1}
  Conns = {c1}
  Paths = {p1}
  Revokers = {k1}
  Server = Server
  Nobody = Nobody
  Capacity = 1
  MaxEvents = 1
CHECK_DEADLOCK FALSE
INVARIANTS TypeOK HubAgrees RevokedIsClosed NoMissedChange
PROPERTIES ClosingEnds
