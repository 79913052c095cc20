SPECIFICATION Spec
CONSTANTS
  NINODES = 8
  NINODE = 6
  NBLOCKS = 16
  BSIZE = 2
  NDIRECT = 2
  NINDIRECT = 3
  NFILE = 4
  NOFILE = 3
  MAXWRITE = 4
  Procs = {1, 2, 3}
  First = 1
  Shortened <- MCShortened
  Files <- MCFiles
  Tests <- LockingTests
PROPERTY TestsEnd
CHECK_DEADLOCK FALSE
