SPECIFICATION FairSpec
CONSTANTS
  None = None
  Conns = {c1, c2}
  RunIds = {r1, r2}
  Events = {e1, e2}
  MaxRows = 2
INVARIANTS
  Gapless
  ReturnedIsDurable
  ReadsArePrefixes
PROPERTIES
  AppendsEnd
  ImplementsAppendOnlyLog
