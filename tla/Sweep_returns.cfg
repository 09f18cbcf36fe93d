\* One server, three URLs, one worker in each pool: enough to fill screenshotCh
\* and sendCh.  One Submit that fails, and a cancellation at any time.
SPECIFICATION FairSpec
CONSTANTS
  s1 = s1
  s2 = s2
  u1 = u1
  u2 = u2
  u3 = u3
  Servers = {s1}
  Urls = {u1, u2, u3}
  DNSWorkers = 1
  ScreenshotWorkers = 1
  streamBatchSize = 2
  FaultBudget = 1
PROPERTIES
  SweepReturns
\* runSweep returns, and then nothing is left to do.
CHECK_DEADLOCK FALSE
