\* Two verifiers, the second of which is turned away at the lock.
CONSTANTS
  p1 = p1
  p2 = p2
  Procs = {p1, p2}
  Root = Root
  Names = {"check"}
  Verified = {"check"}
  Uses <- AllUses
  Sticky = {}
  Absent = Absent
  NoRun = NoRun
  NoBundle = NoBundle
  MaxRuns = 2
  MaxFaults = 0
SPECIFICATION Spec
PROPERTY LockedOutputs
CHECK_DEADLOCK FALSE
