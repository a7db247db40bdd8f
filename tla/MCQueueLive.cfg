CONSTANTS
  t1 = t1
  t2 = t2
  t3 = t3
  Threads = {t1, t2, t3}
  Kinds <- OneReads
  SqSize <- SqOf2
  CqSize <- CqOf2
  Cids = {i1, i2, i3}
  Stale = {i1}
  NoCid = NoCid
  Nobody = Nobody
  MaxOps <- OnceEach
  Wrap = 4
  Starts = {2}
SPECIFICATION FairReadSpec
INVARIANTS
  NotOverwritten
PROPERTIES
  KernelReturns
