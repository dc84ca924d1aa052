CONSTANTS
  Words <- MCWords
  n = 3
  Counts <- MCCounts
  printZeroCounts = TRUE
  MaxPairs = 3
  MaxTotal = 2
SPECIFICATION Spec
INVARIANTS EveryPairWritten
CHECK_DEADLOCK FALSE
