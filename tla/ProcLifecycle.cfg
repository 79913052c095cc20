SPECIFICATION Spec
CONSTANTS
  NPROC = 4
  PRIO_MAX = 6
  NCPU = 1
  MAXPID = 4
  Cids <- OneContainer
  MaxProc <- LimitZero
  Workload <- Lifecycle
INVARIANTS
  TypeOK
  ParentAlive
  NoMissedZombie
  PidsUnique
  QueueOK
  CountsExact
PROPERTIES
  ImplementsRunQueue
