\* One host, nobody crashes, no file ages, no pid is reused, no pid check and no
\* write fails: a process merely exits after it has released the lock.
CONSTANTS
  p1 = p1
  p2 = p2
  p3 = p3
  NoProc = NoProc
  Procs = {p1, p2, p3}
  HostOf <- OneHost
  Crashers = {}
  Quitters = {p1}
  Ageing = FALSE
  PidReuse = FALSE
  PidErrors = FALSE
  WriteErrors = FALSE
SPECIFICATION Spec
INVARIANT MutualExclusion
CHECK_DEADLOCK FALSE
