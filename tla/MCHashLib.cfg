SPECIFICATION Spec
CONSTANTS
  a = a
  b = b
  c = c
  d = d
  Keys = {a, b, c, d}
  NULL = NULL
  DELETED = DELETED
  HashFns <- MCHashFns
  RehashFns <- MCRehashFns
  INITSZ = 5
  PrimeTable <- MCPrimeTable
  Eighth = 2
  Mallocs <- MCMallocsFail
INVARIANTS
  TypeOK
  Reachable
  RoomLeft
  CountsExact
PROPERTIES
  PromiseSpec
  SanityHolds
  InsertReturns
CHECK_DEADLOCK FALSE
