SPECIFICATION FairSpec
CONSTANTS
  NPROC = 3
  PRIO_MAX = 6
  NCPU = 1
  MAXPID = 3
  Cids <- NoContainers
  MaxProc <- NoLimits
  Workload <- Killing
PROPERTIES
  OrphanReaped
  RoundRobin
  KilledDies
