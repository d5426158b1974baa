\* Two migrations of the same file at once, new files going to S3.
SPECIFICATION Spec
CONSTANTS
  Items = {i1}
  Objects = {o1}
  Contents = {c1, c2}
  Workers = {w1}
  Movers = {m1, m2}
  Home = "s3"
  MaxHashes = 3
  MaxChecks = 2
  MaxPlaces = 3
  Damaged = Damaged
  None = None
INVARIANTS PlacesHoldTheFile
CHECK_DEADLOCK FALSE
