SPECIFICATION StoreSpec
CONSTANTS
  ShareIds = {s1}
  Keys = {k1, k2, k3}
  Playlists <- MCPlaylists
  Tags <- MCTags
  WrongSecret = WrongSecret
  NoShare = NoShare
  NoPlaylist = NoPlaylist
  NoRow = NoRow
  NoReceipt = NoReceipt
  NoTime = NoTime
  NoLink = NoLink
  ActivationWindow = 1
  ReceiptTtl = 2
  Revisions = {1, 2}
  MaxTime = 2
  MaxBatches = 4
SYMMETRY MCSymmetry
INVARIANTS
  AtMostOncePerKey
  NoLostUpdate
  RowIsNewestWrite
  TagIndexAgrees
PROPERTIES
  ImplementsLedger
