\* No fault, only Cancel: is a Submit call ever in flight after StartSweep returned?
SPECIFICATION Spec
CONSTANTS
  c1 = c1
  i1 = i1
  i2 = i2
  Callers = {c1}
  Items = {i1}
  MaxScans = 2
  FaultBudget = 0
INVARIANT StreamingEndsFirst
CHECK_DEADLOCK FALSE
