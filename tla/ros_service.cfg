\* A request that is well-formed and one that is not, two connections, and one
\* new registration of the service.
SPECIFICATION FairSpec
CONSTANTS
  None = None
  Conns = {c1, c2}
  Requests = {r1, r2}
  Malformed = {r2}
  MaxEntities = 2
INVARIANTS TypeOK RunsBounded OneOutcome AnswerIsCurrent
PROPERTIES ThreadEnds CallerHears
CHECK_DEADLOCK FALSE
