\* Bundle b1 is released, bundle b2 is published without having passed its gate.
CONSTANTS
  Bundles = {b1, b2}
  NoBundle = NoBundle
  Threads = {t1, t2}
  NoThread = NoThread
  Servable = {b1}
  Allowed = {b1, b2}
  MaxSwitches = 2
  Rollback = FALSE
SPECIFICATION Spec
PROPERTY KeepsServing
CHECK_DEADLOCK FALSE
