SPECIFICATION Spec
CONSTANTS
  c1 = c1
  c2 = c2
  Clients = {c1, c2}
  BodyOf <- MCBodyOf
  InitialStorage <- MCInitial
  MaxReceipts = 1
  MaxAttempts = 2
  MaxRestarts = 1
  MaxFailures = 1
  MaxResends = 1
  RacingStartup = FALSE
  Absent = Absent
  Unreadable = Unreadable
CHECK_DEADLOCK FALSE
INVARIANTS
  CommittedIsKept
  DeletedStaysDeleted
  AppliedOnce
  RepliesAreTrue
  LegacyIsAccountedFor
PROPERTIES
  MutationReturns
