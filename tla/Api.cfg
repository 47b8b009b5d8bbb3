\* Two threads, three bundles of which one is not released; the pointer moves twice and
\* may move back.  b1 and b2 are alike, so it need not start at b2.  A limit of 2 bytes,
\* bodies and declared lengths on both sides of it.
CONSTANTS
  Bundles = {b1, b2, b3}
  NoBundle = NoBundle
  Starts = {NoBundle, b1, b3}
  Threads = {t1, t2}
  NoThread = NoThread
  Servable = {b1, b2}
  Allowed = {b1, b2, b3}
  MaxSwitches = 2
  Rollback = TRUE
  Limits = {2, Invalid}
  Invalid = Invalid
  None = None
  MaxBody = 4
SPECIFICATION ApiSpec
INVARIANTS
  TypeOK
  AnswersFromCurrent
  HeaderNamesBundle
  WholeBodyOrNone
  RefusedForSize
PROPERTIES
  RequestEnds
  BodyRequestEnds
CHECK_DEADLOCK FALSE
