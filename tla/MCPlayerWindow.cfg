SPECIFICATION Spec
CONSTANTS
  Urls = {a}
  Elsewhere = Elsewhere
  Starts = {"popup", "page"}
  Modes = {"window", "tab"}
  MaxOpens = 1
  MaxRequests = 3
  MaxTroubles = 2
  MaxSpent = 3
  None = None
CHECK_DEADLOCK FALSE
INVARIANTS
  
  PopupShowsPlayback
