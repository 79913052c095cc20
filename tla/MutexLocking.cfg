SPECIFICATION Spec
CONSTANTS
  Pids <- ThreePids
  NCPU = 1
  MUX_MAXNUM = 2
  NPROC = 64
  Names <- OneName
  Creators <- Parent
  MaxSignals = 0
  Workload <- Locking
INVARIANTS
  MutualExclusion
  NoLostRelease
  DeadOwnNothing
  CountsHandles
CHECK_DEADLOCK FALSE
