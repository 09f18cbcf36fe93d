\* No fault, only Cancel: into which run goes the row of a screenshot?
SPECIFICATION Spec
CONSTANTS
  c1 = c1
  i1 = i1
  i2 = i2
  Callers = {c1}
  Items = {i1}
  MaxScans = 2
  FaultBudget = 0
INVARIANT ScreenshotRowInScreenshotRun
CHECK_DEADLOCK FALSE
