\* Two calls: what the first leaves on the coordinator is felt by the second.
SPECIFICATION FairSpec
CONSTANTS
  Calls = 2
  MaxAttempts = 3
  MaxFaults = 1
  MaxRestarts = 1
INVARIANTS
  TypeOK
  MeasuresOwnJob
  LeavesOnlyOrphans
  NoUseAfterFree
PROPERTY ReturnsWithContext
\* The calls come to an end.
CHECK_DEADLOCK FALSE
