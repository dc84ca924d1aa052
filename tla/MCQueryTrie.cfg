SPECIFICATION Spec
CONSTANTS
  Words <- MCWords
  WILDCARD <- MCWildcard
  n = 3
  Queries <- MCQueries3
  Lines <- MCLines3
  Counts <- MCCounts
  WordModes <- MCWordModes
  printIndividualCounts = TRUE
  MaxQueries = 2
  MaxFailures = 1
  MaxTotal = 2
INVARIANTS
  TypeOK
  TreeHoldsQueries
  WildcardTotal
  GeneralCountsMore
  WordsCoverQueries
PROPERTIES
  PromiseSpec
CHECK_DEADLOCK FALSE
