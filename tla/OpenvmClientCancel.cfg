\* openvm/client.go:124 against a context that ends inside a submission.
SPECIFICATION Spec
CONSTANTS
  Calls = 1
  MaxAttempts = 2
  MaxFaults = 0
  MaxRestarts = 0
INVARIANT ExpiredCallsCancel
\* The calls come to an end.
CHECK_DEADLOCK FALSE
