SPECIFICATION FairSpec
CONSTANTS
  Docs = {d1}
  Reqs = {r1, r2}
  NoReq = NoReq
  Ops <- EveryOp
  Faults = {"embed", "rows", "report", "disk"}
  Levels = 3
  ReindexConcurrency = 1
  WithinTolerance = TRUE
  MaxWrites = 2
  MaxCrashes = 0
INVARIANTS ChunksHaveParents
PROPERTIES ProcessingEnds
