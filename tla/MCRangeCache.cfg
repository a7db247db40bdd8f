CONSTANTS
  Programs <- OfEachSize
  Wrap = 256
  MaxMoves = 3
  NoPage = NoPage
  n_ctrls = 2
  ctrl_page_size = 2
  n_pages = 3
  max_range = 4
  BitOr <- BitwiseOr
  BitAnd <- BitwiseAnd
  MaxWrites = 2
SPECIFICATION Spec
INVARIANTS
  PtrAgreesWithSeqRead
  PinsBalanced
  ResidentIsLatest
  CleanIsOnAllControllers
