\* README.md:121 against the failure path.
SPECIFICATION Spec
CONSTANTS
  r1 = r1
  r2 = r2
  Requests = {r1, r2}
  None = None
  PublicValues <- MCOnePublicValue
  ExpectedOutputs <- MCOneExpectedOutput
  WarmupOutput <- MCWarmupOutput
  Configurations <- MCFailTest
  MaxCrashes = 1
INVARIANT NextTestStartsRecovered
\* The process ends.
CHECK_DEADLOCK FALSE
