SPECIFICATION Spec
CONSTANTS
  Tasks = {t1, t2}
  Objects = {o1, o2, o3}
  NoObject = none
  Ops = {"message"}
  Threshold = 3
  KeepAtLeast = 1
  SummaryLines = 1
  Limits = {1}
  MaxRequests = 3
  MaxMishaps = 0
PROPERTY KeepsRecent
CHECK_DEADLOCK FALSE
