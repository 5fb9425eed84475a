SPECIFICATION Spec
CONSTANTS
  c1 = c1
  c2 = c2
  Clients = {c1, c2}
  BodyOf <- MCBodyOf
  InitialStorage <- MCInitial
  MaxReceipts = 1
  MaxAttempts = 2
  MaxRestarts = 0
  MaxFailures = 0
  MaxResends = 0
  RacingStartup = TRUE
  Absent = Absent
  Unreadable = Unreadable
CHECK_DEADLOCK FALSE
INVARIANTS
  CommittedIsKept
