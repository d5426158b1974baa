\* Two users over two connections; no symmetry, since liveness is checked.
SPECIFICATION FairSpec
CONSTANTS
  Users = {u1, u2}
  Conns = {k1, k2}
  Contents = {"a", "b"}
  Ops = {"open_case", "open_item", "case", "item", "status", "close", "exam", "transfer", "place", "grant"}
  MaxTime = 1
  MaxRequests = 3
  MaxFaults = 1
  NoUser = NoUser
  NoConn = NoConn
INVARIANTS NoLostUpdate TriggersNameTheActor PoolIsKept
PROPERTIES RequestsEnd
CHECK_DEADLOCK FALSE
