SPECIFICATION Spec
CONSTANTS
  Docs = {d1}
  Reqs = {r1, r2}
  NoReq = NoReq
  Ops <- Serialised
  Faults = {"embed", "rows", "status", "disk", "undo"}
  Levels = 2
  ReindexConcurrency = 1
  WithinTolerance = TRUE
  MaxWrites = 3
  MaxCrashes = 1
SYMMETRY Interchangeable
INVARIANTS TypeOK LockOwnership InSyncComplete
