\* Four artifact versions and one bundle of an older package version, two
\* retained; two publishers of which each may die once.
CONSTANTS
  Bundles = {b1, b2, b3, b4, old}
  NoBundle = NoBundle
  Foreign = {old}
  Publishers = {p1, p2}
  NoProc = NoProc
  Retain = 2
  MaxInstalls = 4
  RmtreeMayFail = FALSE
SPECIFICATION Spec
INVARIANTS
  TypeOK
  PointerNamesComplete
  NewestKept
  TempOnlyOfDead
  SettledClean
PROPERTY ImplementsStore
CHECK_DEADLOCK FALSE
