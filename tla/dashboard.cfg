CONSTANTS
  Mints = {m1, m2}
  Intervals = {"1m", "5m"}
  MaxLoads = 2
  Tokens = 11
  NoMint = NoMint
  Failed = Failed
  Pending = Pending
  Light <- MCLight
  Heavy = {21}
  Naive = {31, 32}
  Workers = 2
  Steps = 1
SPECIFICATION Spec
INVARIANTS TypeOK ChartFollowsSelection FirstChartNotEmpty
PROPERTIES Responsive
