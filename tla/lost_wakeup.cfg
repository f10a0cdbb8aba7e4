\* One call over one connection.
SPECIFICATION FairSpec
CONSTANTS
  None = None
  Conns = {c1}
  Callbacks = {k1}
  MaxCalls = 1
  MaxUnity = 0
PROPERTIES ReplyReachesCaller
CHECK_DEADLOCK FALSE
