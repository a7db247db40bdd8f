CONSTANTS
  p1 = p1
  p2 = p2
  p3 = p3
  c1 = c1
  c2 = c2
  NoPage = NoPage
  NoSlot = NoSlot
  Threads = {t1, t2}
  Pages = {p1, p2, p3}
  NSlots = 1
  Ctrls = {c1, c2}
  Copies <- MixedCopies
  Values = {v1, v2}
  MaxLanes = 1
  MaxOps <- TwoEach
  Garbage = {NoPage}
SPECIFICATION Spec
SYMMETRY Symmetry
INVARIANTS
  TypeOK
  CountIsHolders
  CleanIsOnMedia
  BusyHasOneOwner
  PinnedStaysResident
  SlotsNotShared
  IInv
PROPERTY IsPageStore
