SPECIFICATION Spec
CONSTANTS
  Keys = {k1}
  Bots = {b1, b2}
  Values = {v1, v2}
  None = None
  MaxKeys = 1
  LeaseSeconds = 2
  MaxRevision = 2
  MaxTime = 2
INVARIANTS
  RevisionMonotonic
