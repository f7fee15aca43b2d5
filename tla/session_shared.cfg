SPECIFICATION Spec
CONSTANTS
  Tasks = {t1, t2}
  Objects = {o1, o2, o3}
  NoObject = none
  Ops <- Appending
  Threshold = 9
  KeepAtLeast = 1
  SummaryLines = 2
  Limits = {1}
  MaxRequests = 4
  MaxMishaps = 1
INVARIANTS LogWhole CountNeverAhead
CHECK_DEADLOCK FALSE
