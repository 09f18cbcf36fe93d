\* One case of one domain and one request.
CONSTANTS
  DueDomains = {n1}
  MaxDueCases = 1
  MaxTime = 2
  MaxUpdates = 1
SPECIFICATION DueSpec
INVARIANT DueDatesAreQueued
CHECK_DEADLOCK FALSE
