\* What the design says of fail-open hooks, which the code does not do.
SPECIFICATION Spec
CONSTANTS
  File = {f1}
  Assessed = {10}
  None = None
INVARIANT FailOpenIsForProviderFailures
CHECK_DEADLOCK FALSE
