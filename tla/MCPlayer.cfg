SPECIFICATION Spec
CONSTANTS
  x = x
  y = y
  z = z
  None = None
  NoPlayback = NoPlayback
  Tolerance = 0
  RangeTail = 1
  EndMargin = 1
  EndOffset = 1
  NearStart = 2
  Start <- MCStart
  Edits <- MCEdits
  Parts <- MCParts
  Skips <- MCSkips
  Positions <- MCPositions
  Wanted = {3}
  Shuffling = TRUE
  Homes <- MCHomes
  Tasks = {1, 2}
  MaxEvents = 2
  MaxFaults = 1
  MaxLoads = 1
CHECK_DEADLOCK FALSE
INVARIANTS
  ResumesWherePlaying
  AdvanceHasOneHolder
PROPERTIES
  HandoffKeepsOrder
