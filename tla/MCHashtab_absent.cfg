\* Removals from a table of 7 slots.
CONSTANTS
  a = a
  b = b
  c = c
  d = d
  Elements = {a, b, c, d}
  Hash <- MCHash
  Primes <- MCPrimes
  Sizes = {0}
  AllocFails = TRUE
  MaxEmpties = 1
  HTAB_EMPTY_ENTRY = HTAB_EMPTY_ENTRY
  HTAB_DELETED_ENTRY = HTAB_DELETED_ENTRY
  Nobody = Nobody
SPECIFICATION Spec
INVARIANT RemovalsReturn
CHECK_DEADLOCK FALSE
