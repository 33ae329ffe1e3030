CONSTANTS
  Requests = {r1}
  Actors = {a1, a2}
  None = None
SPECIFICATION Spec
INVARIANTS
  ResolvedOnce
