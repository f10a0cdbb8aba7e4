\* One call, and two connections that may overlap.
SPECIFICATION Spec
CONSTANTS
  None = None
  Conns = {c1, c2}
  Callbacks = {k1}
  MaxCalls = 1
  MaxUnity = 1
INVARIANTS AnswersMatch
CHECK_DEADLOCK FALSE
