\* Two proofs in flight and every way they can end.
SPECIFICATION Spec
CONSTANTS
  r1 = r1
  r2 = r2
  Requests = {r1, r2}
  None = None
  PublicValues <- MCPublicValues
  ExpectedOutputs <- MCExpectedOutputs
  WarmupOutput <- MCWarmupOutput
  Configurations <- MCAllConfigurations
  MaxCrashes = 1
INVARIANTS
  TypeOK
  OneProofAtATime
  ValidIsProved
  MetricsAgree
  PortOpensWarm
  NoTestOnOwedCluster
PROPERTY PromiseKept
\* The process ends.
CHECK_DEADLOCK FALSE
