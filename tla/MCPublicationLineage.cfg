SPECIFICATION ApiSpec
CONSTANTS
  s1 = s1
  s2 = s2
  s3 = s3
  ShareIds = {s1, s2}
  Keys = {k1, k2}
  Playlists <- MCLineage
  Tags <- MCTags
  Handlers = {h1}
  Forgers = {WrongSecret}
  Condemned = {s1}
  WrongSecret = WrongSecret
  NoShare = NoShare
  NoPlaylist = NoPlaylist
  NoRow = NoRow
  NoReceipt = NoReceipt
  NoTime = NoTime
  NoLink = NoLink
  NoPlan = NoPlan
  NoReply = NoReply
  ActivationWindow = 1
  ReceiptTtl = 2
  Revisions = {2}
  MaxTime = 1
  MaxBatches = 3
  MaxAttempts = 2
  RequestLifetime = 1
SYMMETRY MCSymmetry
INVARIANTS
  RevisionDisclosedToOwner
  LineageFromPublished
  ActiveHasKeyHolder
