SPECIFICATION FairSpec
CONSTANTS
  Procs = {p1, p2}
  Blocks = {1, 2}
  Values = {0, 1}
  MAXOPBLOCKS = 1
  LOGSIZE = 3
  nlog = 3
  MaxWrites = 2
  Crashes = TRUE
INVARIANTS
  TypeOK
  IdleDurable
  SleeperHasWaker
PROPERTIES
  ImplementsAtomicDisk
  SleeperWoken
