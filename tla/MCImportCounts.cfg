SPECIFICATION ImportSpec
CONSTANTS
  ShareIds = {s1}
  Events = {e1, e2}
  Actors = {a1}
  Requests = {r1, r2}
  NoReceipt = NoReceipt
  NoRequest = NoRequest
  NoDay = NoDay
  Day <- MCDay
  ReceiptTtl = 4
  RetentionDays = 2
  RequestLifetime = 1
  MaxAttempts = 2
  MaxTime = 5
  MaxBatches = 3
SYMMETRY MCSymmetry
INVARIANTS
  WindowIsExact
  EventCountsOnce
  ActorCountsOncePerDay
  NothingKeptOfGone
