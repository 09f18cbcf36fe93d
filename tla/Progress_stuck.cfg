\* One run of a scan: a viewer connects while it ends.
CONSTANTS
  Viewers = {v1}
  BufferSize = 4
  MaxRuns = 1
SPECIFICATION FairSpec
PROPERTY NobodyIsStuck
CHECK_DEADLOCK FALSE
