\* Every kind of disturbance at once: crashes, exits, aged files, reused pids,
\* pid checks and writes that fail; two processes of one host and one of another.
CONSTANTS
  p1 = p1
  p2 = p2
  p3 = p3
  NoProc = NoProc
  Procs = {p1, p2, p3}
  HostOf <- TwoHosts
  Crashers = {p1}
  Quitters = {p1, p2}
  Ageing = TRUE
  PidReuse = TRUE
  PidErrors = TRUE
  WriteErrors = TRUE
SPECIFICATION FairSpec
INVARIANTS
  TypeOK
  ExclusiveUntilDisturbed
  OwnerKeepsFile
PROPERTIES
  AcquireReturns
  DeadOwnerRecovered
CHECK_DEADLOCK FALSE
