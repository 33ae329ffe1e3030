SPECIFICATION PlanSpec
CONSTANTS
  StepCount = 3
  Tags = {x, y}
  MaxLength = 6
  MaxPathDepth = 2
  MaxArrayIndex = 1
  None = None
INVARIANTS
  OrderIsTopological
