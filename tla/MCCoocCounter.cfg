CONSTANTS
  Words <- MCWords
  n = 3
  Counts <- MCCounts
  printZeroCounts = FALSE
  MaxPairs = 3
  MaxTotal = 2
SPECIFICATION Spec
INVARIANTS TypeOK CounterPerPair FreedOnce AllFreed
PROPERTIES PromiseSpec Finishes
CHECK_DEADLOCK FALSE
