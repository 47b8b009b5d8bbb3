\* rmtree(ignore_errors=True) may leave part of a directory behind (a file held
\* open on Windows, a busy network file).
CONSTANTS
  Bundles = {b1, b2}
  NoBundle = NoBundle
  Foreign = {}
  Publishers = {p1}
  NoProc = NoProc
  Retain = 1
  MaxInstalls = 3
  RmtreeMayFail = TRUE
SPECIFICATION Spec
INVARIANT PointerNamesComplete
CHECK_DEADLOCK FALSE
