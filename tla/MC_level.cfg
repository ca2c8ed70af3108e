SPECIFICATION FairSpec
CONSTANTS
  ReadsPerCycle = 2
  SlowCycle = 0
  StuckCycle = 2
  SampleInterval = 3
  BackoffBase = 1
  BackoffCap = 3
  MaxFailures = 3
INVARIANTS
  PublishedInTime
  NoticedUnlessDeaf
PROPERTY
  Resumes
