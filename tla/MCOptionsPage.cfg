SPECIFICATION Spec
CONSTANTS
  e1 = e1
  e2 = e2
  Flows = {e1, e2}
  Kinds <- MCKinds
  First <- MCFirst
  Files <- MCFiles
  Invalid <- MCInvalid
  Unreadable <- MCUnreadable
  NewNames <- MCNewNames
  NewBodies <- MCNewBodies
  Ranged <- MCRanged
  SystemNames <- MCSystemNames
  Others <- MCOthers
  MaxOthers = 1
  MaxAttempts = 2
  Closable = TRUE
  None = None
CHECK_DEADLOCK FALSE
INVARIANTS
  MergeIsAccepted
PROPERTIES
  EditsAreExact
