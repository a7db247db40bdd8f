\* One file, three loops of two batches, windows of up to three batches, one short read.
SPECIFICATION Spec
CONSTANTS
  NRows = 3
  Dim = 2
  ElemsPerPage = 2
  NFiles = 1
  Nothing = Nothing
  NodeLists <- OneOrTwo
  NBatches = 2
  MaxLoops = 3
  WindowSizes = {0, 1, 3}
  Thresholds = {0, 2, 4}
  Pinnings <- Pinned
  MaxShort = 1
INVARIANTS
  TypeOK
  FeaturesAligned
  WindowStaysOpen
  OwnFeatures
  LoaderInv
PROPERTY
  IsBatchPipe
