\* One connection, two callback threads, and messages from Unity that the endpoint
\* did not ask for: requests, second answers, anything else.
SPECIFICATION FairSpec
CONSTANTS
  None = None
  Conns = {c1}
  Callbacks = {k1, k2}
  MaxCalls = 3
  MaxUnity = 1
INVARIANTS TypeOK NotForgotten ReturnsOnce AnswersMatch RequestsMatch
PROPERTIES SleeperReturns CallSpec
CHECK_DEADLOCK FALSE
