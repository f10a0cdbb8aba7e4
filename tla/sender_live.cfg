\* One executor thread and two connections that may overlap.
SPECIFICATION FairSpec
CONSTANTS
  None = None
  Conns = {c1, c2}
  Callers = {e1}
  Topics = {image}
  StreamTopics = {image}
  MaxTopicId = 1
  MaxCalls = 2
PROPERTIES HaltReleases QueueDrains SlotsDrain
CHECK_DEADLOCK FALSE
