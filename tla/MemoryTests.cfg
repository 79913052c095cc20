SPECIFICATION Spec
CONSTANTS
  NPAGE = 31
  PGSIZE = 2
  PPT = 4
  NTAB = 2
  SHM_MAXNUM = 2
  Procs = {1, 2, 3}
  First = 1
  IMAGE <- MCImage
  Tests <- PassingTests
INVARIANTS ProgramsPass PagesExact ShmRefsExact
CHECK_DEADLOCK FALSE
