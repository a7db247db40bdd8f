\* As MCGidsLoader: batches cross from one loop to the next.
SPECIFICATION Spec
CONSTANTS
  NRows = 3
  Dim = 2
  ElemsPerPage = 2
  NFiles = 1
  Nothing = Nothing
  NodeLists <- OneOrTwo
  NBatches = 3
  MaxLoops = 2
  WindowSizes = {0, 1, 3}
  Thresholds = {0, 2, 4}
  Pinnings <- Unpinned
  MaxShort = 0
INVARIANT
  OwnLoop
