SPECIFICATION Spec
CONSTANTS
  NPROC = 3
  PRIO_MAX = 6
  NCPU = 2
  MAXPID = 3
  Cids <- NoContainers
  MaxProc <- NoLimits
  Workload <- Priorities
INVARIANTS
  RunningOnOneCpu
CHECK_DEADLOCK FALSE
