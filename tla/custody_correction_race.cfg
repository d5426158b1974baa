\* A correction and a handover at once.
SPECIFICATION Spec
CONSTANTS
  Users = {cust, inv}
  Staff = {cust}
  Assigned = {inv}
  Correctors = {cust}
  Downloaders = {}
  Leavers = {}
  Movers = {}
  Locations = {vault}
  Sessions = {s1, s2}
  HandoverTimes = {}
  MaxTime = 2
  MaxEntries = 4
  NoUser = NoUser
  NoLocation = NoLocation
  NoSession = NoSession
INVARIANTS CurrentMatchesLatest
CHECK_DEADLOCK FALSE
