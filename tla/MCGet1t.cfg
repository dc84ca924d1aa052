CONSTANTS
  a = a
  b = b
  WILDCARD = WILDCARD
  NL = NL
  n = 3
  Words <- MCWords
  Counts <- MCCounts
  WordModes <- MCModes
  Directories <- MCDirectories
  QueryFiles <- MCQueryFiles
SPECIFICATION Spec
INVARIANTS TypeOK PathNamed RowsRight AnswersRight
PROPERTIES Exits
CHECK_DEADLOCK FALSE
