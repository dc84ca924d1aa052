SPECIFICATION Spec
CONSTANTS
  Words = {a, b}
  WILDCARD = WILDCARD
  n = 2
  Queries <- MCQueries
  Lines <- MCLines
  Counts <- MCCounts
  WordModes <- MCOccOnly
  printIndividualCounts = FALSE
  MaxQueries = 2
  MaxFailures = 0
  MaxTotal = 4
INVARIANTS
  HitsFit
CHECK_DEADLOCK FALSE
