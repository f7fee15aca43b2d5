SPECIFICATION FairSpec
CONSTANTS
  Conns = {c1, c2}
  NoConn = none
  Caller = caller
  MAX_QUEUE_SIZE = 1
  MaxMessages = 3
  Disturbances = {"report", "inbound", "overlap"}
INVARIANTS TypeOK OnePlace QueueBounded NothingLeftBehind
PROPERTIES QueueDrains StopEnds
CHECK_DEADLOCK FALSE
