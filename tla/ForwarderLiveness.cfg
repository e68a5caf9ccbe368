\* Two calls compete for the mutex of a fail-test forwarder.
SPECIFICATION FairSpec
CONSTANTS
  r1 = r1
  r2 = r2
  Requests = {r1, r2}
  None = None
  PublicValues <- MCOnePublicValue
  ExpectedOutputs <- MCOneExpectedOutput
  WarmupOutput <- MCWarmupOutput
  Configurations <- MCFailTest
  MaxCrashes = 2
PROPERTY EveryCallSettles
PROPERTY SignalEndsProcess
\* The process ends.
CHECK_DEADLOCK FALSE
