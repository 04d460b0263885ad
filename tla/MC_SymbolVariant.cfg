CONSTANTS
  Kinds = {0, 1}
  Flags = {0, 1}
  Names = {"n"}
  Locs = {l1, l2}
  NULL = NULL
INIT Init
NEXT Next
INVARIANT SymbolRoundTrip
CHECK_DEADLOCK FALSE
