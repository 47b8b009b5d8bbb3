\* One step without a retry.
CONSTANTS
  NSteps = 1
  Retryable = {}
SPECIFICATION Spec
INVARIANT NoDescendantLeft
CHECK_DEADLOCK FALSE
