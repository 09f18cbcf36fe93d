SPECIFICATION Spec
CONSTANTS
  d1 = d1
  u1 = u1
  s1 = s1
  s2 = s2
  Departments = {d1}
  Urls = {u1}
  Servers = {s1, s2}
  Verdicts = {TRUE, FALSE}
  MaxRetry = 1
  TicksPerSecond = 2
  Skews = {0}
  MaxTime = 2
  OtherScans = 0
  FaultBudget = 0
INVARIANT
  VerdictIsTheOutcome
CHECK_DEADLOCK FALSE
