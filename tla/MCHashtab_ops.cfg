\* Tables of 7 and of 61 slots, rebuilt to 7, 13 and 31.
CONSTANTS
  a = a
  b = b
  c = c
  d = d
  Elements = {a, b, c, d}
  Hash <- MCHash
  Primes <- MCPrimes
  Sizes = {0, 3}
  AllocFails = TRUE
  MaxEmpties = 1
  HTAB_EMPTY_ENTRY = HTAB_EMPTY_ENTRY
  HTAB_DELETED_ENTRY = HTAB_DELETED_ENTRY
  Nobody = Nobody
SPECIFICATION Spec
INVARIANTS TypeOK SearchesEnd CountsRight
PROPERTY ImplementsSet
CHECK_DEADLOCK FALSE
