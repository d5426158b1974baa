\* Two requests at once: the library changes while a file is scanned.
SPECIFICATION FairSpec
CONSTANTS
  Rules = {r1, r2}
  Sources = {hit, miss}
  Compiles = {hit, miss}
  Hits = {hit}
  Sessions = {s1, s2}
  Library = {r1}
  MAX_MATCHING_RULES = 1
  MaxVersions = 2
  MaxRequests = 2
  NoSource = NoSource
INVARIANTS ScansTellTheTruth
PROPERTIES WorkerIsStopped
CHECK_DEADLOCK FALSE
