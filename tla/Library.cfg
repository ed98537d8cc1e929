SPECIFICATION Spec
CONSTANTS
  Callers = {r1, r2}
  h1 = h1
  h2 = h2
  h3 = h3
  Hashes = {h1, h2, h3}
  Requested <- MCRequested
  Prefix <- MCPrefix
  Size <- MCSize
  Captured <- MCCaptured
  None = None
  MaxCalls = 4
  MaxDeletes = 1
  MaxFails = 1
SYMMETRY MCSymmetry
CHECK_DEADLOCK FALSE
INVARIANT TypeOK
INVARIANT ItemBytes
INVARIANT CanonicalBytes
INVARIANT RetriesDoNotFanOut
INVARIANT StatsAreAggregate
PROPERTY ImplementsArchive
