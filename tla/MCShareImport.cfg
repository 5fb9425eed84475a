SPECIFICATION Spec
CONSTANTS
  r1 = r1
  r2 = r2
  share = share
  None = None
  Requests = {r1, r2}
  ShareOf <- MCShareOf
  Tokens = {1, 2}
  Flows = {1, 2}
  MaxPending = 1
  MaxAttempts = 2
  MaxFaults = 1
  MaxClicks = 3
  MaxEvents = 1
CHECK_DEADLOCK FALSE
INVARIANTS
  SavedOnce
  WindowsTellTheTruth
  OnlyAsAgreed
