\* Two scans of two items each, one caller racing with TriggerScreenshot, one
\* fault anywhere: a crash, a broken or late call, a failed write.
SPECIFICATION Spec
CONSTANTS
  c1 = c1
  i1 = i1
  i2 = i2
  Callers = {c1}
  Items = {i1, i2}
  MaxScans = 2
  FaultBudget = 1
SYMMETRY Symmetry
INVARIANTS
  TypeOK
  OneScanAtATime
  OneSweepAtATime
  RunningRowHasOwner
  ResultsInTheirOwnRun
  CompletedIsComplete
  CancelledWasAsked
PROPERTIES
  ImplementsLedger
\* The bound on scans stops the system.
CHECK_DEADLOCK FALSE
