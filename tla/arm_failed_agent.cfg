SPECIFICATION Spec
CONSTANTS
  Instances = 2
  MaxSpend = 1
  Ceiling = 2
  MaxMishaps = 0
  None = None
  Truncated = Truncated
INVARIANT CostIsSpend
