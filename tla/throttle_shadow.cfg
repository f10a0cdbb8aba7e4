\* One executor thread and an aligned depth camera.
SPECIFICATION Spec
CONSTANTS
  None = None
  Threads = {k1}
  Names <- AlignedNames
  Offers <- MCOffers
  MaxTime = 3
  MaxMessages = 2
  MaxSubs = 1
INVARIANTS MaxHz
CHECK_DEADLOCK FALSE
