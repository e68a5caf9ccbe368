\* Two calls: what the first loses is felt by the second.
SPECIFICATION FairSpec
CONSTANTS
  Calls = 2
  MaxAttempts = 2
  MaxFaults = 2
  MaxRestarts = 1
INVARIANTS
  TypeOK
  RetriesNeverCollide
  MeasuresOwnProof
  SettledCallsFreeTheManager
  RefusedOnlyByFault
PROPERTY ReturnsWithContext
\* The calls come to an end.
CHECK_DEADLOCK FALSE
