\* Two requests at once, corrections and typed times included.
SPECIFICATION Spec
CONSTANTS
  Users = {cust, inv}
  Staff = {cust}
  Assigned = {inv}
  Correctors = {cust}
  Downloaders = {cust, inv}
  Leavers = {}
  Movers = {}
  Locations = {vault}
  Sessions = {s1, s2}
  HandoverTimes = {1}
  MaxTime = 2
  MaxEntries = 4
  NoUser = NoUser
  NoLocation = NoLocation
  NoSession = NoSession
SYMMETRY SessionSymmetry
INVARIANTS TypeOK LockProtocol HandoverUnbroken LifecycleReplays
PROPERTIES HandoverFromShownCustodian LedgerSpec
CHECK_DEADLOCK FALSE
