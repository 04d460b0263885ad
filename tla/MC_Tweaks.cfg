CONSTANTS
  t1 = t1
  t2 = t2
  i1 = i1
  i2 = i2
  i3 = i3
  NULL = NULL
  MaxId = 5
  TweaksObjs <- MCTweaksObjs
  Items <- MCItems
  Owner <- MCOwner
  HasSettings <- MCHasSettings
  HeldElsewhere <- MCHeldElsewhere
SPECIFICATION Spec
INVARIANT
  ShowsCurrentTweaks
\* Once the window is disposed and every chooser has answered, no step is
\* left: the window is gone.
CHECK_DEADLOCK FALSE
