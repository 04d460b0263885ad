CONSTANTS
  MaxCycles = 2
SPECIFICATION Spec
INVARIANT NoRowAfterUnload
