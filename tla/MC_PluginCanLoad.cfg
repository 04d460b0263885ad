CONSTANTS
  a = a
  b = b
  c = c
  Missing = Missing
  NULL = NULL
INIT Init
NEXT Next
INVARIANT CanLoadMatchesReference
CHECK_DEADLOCK FALSE
