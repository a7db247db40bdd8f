CONSTANTS
  p1 = p1
  p2 = p2
  p3 = p3
  c1 = c1
  c2 = c2
  t1 = t1
  t2 = t2
  old = old
  new = new
  NoPage = NoPage
  NoSlot = NoSlot
  Threads = {t1, t2}
  Warps <- OnePair
  Pages = {p1, p2, p3}
  NSlots = 2
  Ctrls = {c1, c2}
  Copies <- StripedCopies
  PageNumbered <- FirstPages
  Values = {v1, v2}
  MaxLanes = 1
  MaxOps <- TwoEach
  Garbage = {NoPage}
  Writers = {t1, t2}
SPECIFICATION FlushSpec
INVARIANT HeldPageIsDirty
