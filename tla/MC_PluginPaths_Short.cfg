CONSTANTS
  SizeWidth = 16
  MaxExe = 300
INIT Init
NEXT Next
CHECK_DEADLOCK FALSE
INVARIANT BuffersInBounds
