SPECIFICATION PromptSpec
CONSTANTS
  Conns = {c1, c2, c3}
  NoConn = none
  Caller = caller
  MAX_QUEUE_SIZE = 2
  MaxMessages = 4
  Disturbances = {"inbound", "overlap"}
PROPERTY IsFifo
CHECK_DEADLOCK FALSE
