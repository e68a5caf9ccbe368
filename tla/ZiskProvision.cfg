\* Killed forwarders, an operator and a coordinator that fails or hangs.
SPECIFICATION FairSpec
CONSTANTS
  Forwarders = 3
  MaxFailures = 1
  LateVerbs = FALSE
INVARIANTS
  TypeOK
  OnlyOwnGuest
  NoStaleRequest
PROPERTIES
  RequestedEndIsReplaced
  StopEndsContainer
\* The last forwarder ends.
CHECK_DEADLOCK FALSE
