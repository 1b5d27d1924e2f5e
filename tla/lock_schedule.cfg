CONSTANTS
  Accounts = {a1, a2, a3}
  MaxTxns = 3
SPECIFICATION Spec
INVARIANTS TypeOK ConflictFree FirstFit AttributionExact
