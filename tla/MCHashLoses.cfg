SPECIFICATION Spec
CONSTANTS
  a = a
  b = b
  c = c
  d = d
  Keys = {a, b, c, d}
  NULL = NULL
  DELETED = DELETED
  HashFns <- MCHashFns
  RehashFns <- MCRehashFns
  INITSZ = 5
  PrimeTable <- MCPrimeTable
  Eighth = 2
  Mallocs <- MCMallocsFail
PROPERTIES
  ReinsertsAll
CHECK_DEADLOCK FALSE
