SPECIFICATION Spec
CONSTANTS
  Docs = {d1}
  Reqs = {r1, r2}
  NoReq = NoReq
  Ops = {"create", "update"}
  Faults = {"status"}
  Levels = 2
  ReindexConcurrency = 1
  WithinTolerance = TRUE
  MaxWrites = 2
  MaxCrashes = 0
PROPERTIES FailedUpdateKeepsFile
CHECK_DEADLOCK FALSE
