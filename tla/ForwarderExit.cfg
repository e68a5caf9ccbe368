\* server.go:55 against a shutdown with a proof in flight.
SPECIFICATION Spec
CONSTANTS
  r1 = r1
  r2 = r2
  Requests = {r1, r2}
  None = None
  PublicValues <- MCOnePublicValue
  ExpectedOutputs <- MCOneExpectedOutput
  WarmupOutput <- MCWarmupOutput
  Configurations <- MCFailRun
  MaxCrashes = 1
INVARIANT ExitMeansClusterError
\* The process ends.
CHECK_DEADLOCK FALSE
