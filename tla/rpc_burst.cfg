CONSTANTS
  Calls = {c1, c2}
  MaxRetries = 1
  PerSecond = 2
SPECIFICATION Spec
INVARIANTS RateCap
