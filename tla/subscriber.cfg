\* One or two executor threads, two registrations.
SPECIFICATION Spec
CONSTANTS
  None = None
  Threads = {k1, k2}
  Names <- MCNames
  Offers <- MCOffers
  MaxTime = 3
  MaxMessages = 4
  MaxSubs = 2
SYMMETRY Symmetry
INVARIANTS TypeOK BurstBounded DropsAreDue LateBounded
CHECK_DEADLOCK FALSE
