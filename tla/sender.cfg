\* Two connections that may overlap, two executor threads, and an id space of
\* one, so that the second topic overflows it.
SPECIFICATION Spec
CONSTANTS
  None = None
  Conns = {c1, c2}
  Callers = {e1, e2}
  Topics = {image, odom}
  StreamTopics = {image}
  MaxTopicId = 1
  MaxCalls = 2
SYMMETRY Symmetry
INVARIANTS TypeOK HandshakeFirst WireDecodes SentAtMostOnce QueueHasSender TopicOrder MapBeforePlain
PROPERTIES ChannelSpec
CHECK_DEADLOCK FALSE
