SPECIFICATION FairSpec
CONSTANTS
  Docs = {d1}
  Reqs = {r1, r2, r3}
  NoReq = NoReq
  Ops <- Serialised
  Faults = {"embed"}
  Levels = 2
  ReindexConcurrency = 1
  WithinTolerance = FALSE
  MaxWrites = 3
  MaxCrashes = 0
INVARIANTS InSyncExact
PROPERTIES FilesAreAtomic NoLostUpdate EveryRequestEnds
