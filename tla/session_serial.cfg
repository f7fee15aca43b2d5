SPECIFICATION Spec
CONSTANTS
  Tasks = {t1}
  Objects = {o1, o2}
  NoObject = none
  Ops <- EveryOp
  Threshold = 5
  KeepAtLeast = 2
  SummaryLines = 2
  Limits = {1, 3}
  MaxRequests = 7
  MaxMishaps = 2
INVARIANTS OrderedOnce CountCovers NothingReturns CacheFresh
PROPERTY KeepsRecent
CHECK_DEADLOCK FALSE
