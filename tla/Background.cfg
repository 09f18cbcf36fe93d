\* Two servers and one URL in the sweep, with batches of one, one Submit that
\* fails, and a cancellation at any time; two saves by two administrators; two
\* domains that change three times; three results on each of two servers
\* in two seconds; two resurfaced sweeps over two servers and four results,
\* with a clock of two seconds and one that is a second ahead.
SPECIFICATION BackgroundSpec
CONSTANTS
  s1 = s1
  s2 = s2
  u1 = u1
  u2 = u2
  u3 = u3
  Servers = {s1, s2}
  Urls = {u1}
  DNSWorkers = 2
  ScreenshotWorkers = 1
  streamBatchSize = 1
  FaultBudget = 1
  Admins = {a1, a2}
  Minutes = {m1, m2}
  Default = m0
  MaxSettings = 2
  WatchedDomains = {d1, d2}
  MaxMoves = 3
  Nameservers = {n1, n2}
  MaxSecond = 2
  MaxChecks = 3
  MaxThreshold = 3
  Resolvers = {r1, r2}
  Sweepers = {w1, w2}
  MaxResults = 4
  MaxClock = 2
  MaxAhead = 1
SYMMETRY
  ResurfacedSymmetry
INVARIANTS
  TypeOK
  BackgroundTypeOK
  SendsOnOpenChannels
  CutChecksStayHome
  SchedulesAreKept
  EachFlipIsToldOnce
PROPERTIES
  ImplementsOutbox
\* runSweep returns, and then nothing is left to do.
CHECK_DEADLOCK FALSE
