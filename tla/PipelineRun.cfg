\* Three runs in all, one of which may fail or die.
CONSTANTS
  p1 = p1
  p2 = p2
  Procs = {p1, p2}
  Root = Root
  Names = {"publish", "check", "lade"}
  Verified = {"check"}
  Uses <- MCUses
  Sticky = {"lade"}
  Absent = Absent
  NoRun = NoRun
  NoBundle = NoBundle
  MaxRuns = 3
  MaxFaults = 1
SPECIFICATION Spec
INVARIANTS
  TypeOK
  BundleOfOneRun
  ManifestTrue
  PublishedIsCurrent
  NoCircularWait
PROPERTY OwnOutputsOnly
CHECK_DEADLOCK FALSE
