\* The smallest instance in which a stream frame can overtake its map.
SPECIFICATION Spec
CONSTANTS
  None = None
  Conns = {c1}
  Callers = {e1}
  Topics = {image}
  StreamTopics = {image}
  MaxTopicId = 1
  MaxCalls = 1
INVARIANTS MapBeforeFrames
CHECK_DEADLOCK FALSE
