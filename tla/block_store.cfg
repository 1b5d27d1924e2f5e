CONSTANTS
  Chain <- MCChain
  Answers <- MCAnswers
  Undecodable <- MCUndecodable
  Keys <- MCKeys
  Movements <- MCMovements
  Unindexed = {1, 2}
  MaxRuns = 2
SPECIFICATION Spec
INVARIANTS TypeOK WholeBlocks PositionsExact BackfillComplete DeltasExact
PROPERTIES LedgerSteps
