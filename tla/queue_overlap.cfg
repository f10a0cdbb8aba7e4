\* Two connections that overlap, as when Unity reconnects before the endpoint
\* notices that the first connection is gone.
SPECIFICATION Spec
CONSTANTS
  None = None
  Conns = {c1, c2}
  Callers = {}
  Topics = {}
  StreamTopics = {}
  MaxTopicId = 1
  MaxCalls = 0
INVARIANTS ActiveSenderHasQueue
CHECK_DEADLOCK FALSE
