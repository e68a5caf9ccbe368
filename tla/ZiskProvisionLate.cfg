\* zisk/client.go:180 against a verb that arrives after readTimeout.
SPECIFICATION Spec
CONSTANTS
  Forwarders = 2
  MaxFailures = 0
  LateVerbs = TRUE
INVARIANT EndOfStreamIsLanding
\* The last forwarder ends.
CHECK_DEADLOCK FALSE
