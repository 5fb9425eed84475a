SPECIFICATION Spec
CONSTANTS
  r1 = r1
  Shares = {1, 2, 3}
  ParentOf <- MCParentOf
  Tagged = {1, 2}
  Drafts = {3}
  Queries <- MCQueries
  Pages = {2}
  Readers = {r1}
  Limits = {1}
  Chunk = 2
  MaxIds = 2
  MinPositive = 1
  ReuseSpan = 1
  SnapshotSpan = 2
  MaxTime = 3
  MaxEvents = 2
  MaxRequests = 3
CHECK_DEADLOCK FALSE
INVARIANTS
  ServedIsPublic
  WalkIsWhole
  CursorsHold
