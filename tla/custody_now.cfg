\* Concurrent handovers and downloads at NOW(), no corrections; people and places
\* come and go, and transactions end.
SPECIFICATION FairSpec
CONSTANTS
  Users = {cust, inv}
  Staff = {cust}
  Assigned = {inv}
  Correctors = {}
  Downloaders = {cust, inv}
  Leavers = {inv, vault}
  Movers = {inv}
  Locations = {vault}
  Sessions = {s1, s2}
  HandoverTimes = {}
  MaxTime = 2
  MaxEntries = 3
  NoUser = NoUser
  NoLocation = NoLocation
  NoSession = NoSession
INVARIANTS CurrentMatchesLatest StoredHasLocation RefusedOnlyForNews
PROPERTIES LockIsReleased
CHECK_DEADLOCK FALSE
