\* Two requests and one migration on an item and its file.
SPECIFICATION Spec
CONSTANTS
  Items = {i1}
  Objects = {o1, o2}
  Contents = {c1, c2}
  Workers = {w1, w2}
  Movers = {m1}
  Home = "s3"
  MaxHashes = 2
  MaxChecks = 2
  MaxPlaces = 3
  Damaged = Damaged
  None = None
SYMMETRY FileSymmetry
INVARIANTS TypeOK PlacesHoldTheFile UnrecordedAreRemoved FileHashWasReference StatusIsOfCurrentHash
PROPERTIES AttachedMatchesReference
CHECK_DEADLOCK FALSE
