\* Two scans, one item, one fault: does everything that starts come to an end?
\* The dashboard is fair; ScansEnd assumes a fair crawler too.
\* TriggerScreenshot starts the scans; the racing callers are in the safety run.
SPECIFICATION DashboardSpec
CONSTANTS
  c1 = c1
  i1 = i1
  i2 = i2
  Callers = {}
  Items = {i1}
  MaxScans = 2
  FaultBudget = 1
PROPERTIES
  ScansEnd
  CancelNeedsNoCrawler
\* The bound on scans stops the system.
CHECK_DEADLOCK FALSE
