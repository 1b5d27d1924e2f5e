CONSTANTS
  Calls = {c1, c2}
  MaxRetries = 2
  PerSecond = 2
SPECIFICATION Spec
INVARIANTS TypeOK RetriesAreJustified BurstBound
PROPERTIES FetchSpec
