\* Three steps, the middle one with a retry; a killed process may outlive the
\* grace period, or for ever.
CONSTANTS
  NSteps = 3
  Retryable = {2}
SPECIFICATION FairSpec
INVARIANTS
  TypeOK
  PassedByItself
  OverlapIsDying
PROPERTY ReleaseEnds
CHECK_DEADLOCK FALSE
