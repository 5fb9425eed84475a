SPECIFICATION Spec
CONSTANTS
  Dialogs = {d1, d2}
  Playlist = playlist
  Contents = {a, b}
  Initially = a
  Unpublishable = c
  MaxShares = 2
  MaxClicks <- MCClicks
  d1 = d1
  d2 = d2
  MaxEdits = 1
  MaxFaults = 2
  None = None
CHECK_DEADLOCK FALSE
INVARIANTS
  ActiveHasKey
  RecordIsAcknowledged
  OnePublication
PROPERTIES
  KeyKeptUntilGone
  OperationsReturn
