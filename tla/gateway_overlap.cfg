SPECIFICATION Spec
CONSTANTS
  Conns = {c1, c2}
  NoConn = none
  Caller = caller
  MAX_QUEUE_SIZE = 1
  MaxMessages = 1
  Disturbances = {"overlap"}
PROPERTY OthersStayConnected
CHECK_DEADLOCK FALSE
