SPECIFICATION Spec
CONSTANTS
  Words = {a, b}
  WILDCARD = WILDCARD
  n = 3
  Queries <- MCQueries
  Lines <- MCLines
  Counts <- MCCounts
  WordModes <- MCWordModes
  printIndividualCounts = FALSE
  MaxQueries = 2
  MaxFailures = 1
  MaxTotal = 2
PROPERTIES
  QueriesKept
CHECK_DEADLOCK FALSE
