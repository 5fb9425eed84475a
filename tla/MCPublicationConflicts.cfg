SPECIFICATION ApiSpec
CONSTANTS
  s1 = s1
  s2 = s2
  s3 = s3
  ShareIds = {s1}
  Keys = {k1, k2, k3}
  Playlists <- MCDerived
  Tags <- MCTags
  Handlers = {h1, h2}
  Forgers = {}
  Condemned = {}
  WrongSecret = WrongSecret
  NoShare = NoShare
  NoPlaylist = NoPlaylist
  NoRow = NoRow
  NoReceipt = NoReceipt
  NoTime = NoTime
  NoLink = NoLink
  NoPlan = NoPlan
  NoReply = NoReply
  ActivationWindow = 1
  ReceiptTtl = 2
  Revisions = {1, 2}
  MaxTime = 0
  MaxBatches = 3
  MaxAttempts = 1
  RequestLifetime = 1
SYMMETRY MCSymmetry
INVARIANTS
  AcksAreCommitted
  AppliedIsAcknowledged
PROPERTIES
  ImplementsStore
  DerivationIsFixed
