CONSTANTS
  t1 = t1
  t2 = t2
  t3 = t3
  Threads = {t1, t2}
  Kinds <- AllRead
  SqSize <- SqOf4
  CqSize <- CqOf4
  Cids = {i1, i2}
  Stale = {i1, i2}
  NoCid = NoCid
  Nobody = Nobody
  MaxOps <- TwiceAndOnce
  Wrap = 6
  Starts = {4}
SPECIFICATION ReadSpec
SYMMETRY Symmetry
INVARIANTS
  ReadTypeOK
  PlacesNotShared
  CompletionsKept
  ReadIsFollowed
PROPERTY TransfersOnce
