SPECIFICATION FairSpec
CONSTANTS
  d1 = d1
  u1 = u1
  s1 = s1
  s2 = s2
  Departments = {d1}
  Urls = {u1}
  Servers = {s1, s2}
  Verdicts = {TRUE}
  MaxRetry = 1
  TicksPerSecond = 2
  Skews = {0, 1}
  MaxTime = 2
  OtherScans = 1
  FaultBudget = 1
INVARIANTS
  TypeOK
  DoneMeansTold
  ToldOnce
  ReportsItsScan
PROPERTIES
  TasksEnd
CHECK_DEADLOCK FALSE
