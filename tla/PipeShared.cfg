SPECIFICATION Spec
CONSTANTS
  Procs = {p1, p2, p3}
  First = p1
  PIPESIZE = 2
  W = 4
  Bytes = {0, 1}
  Sizes = {3}
  Victims = {p1}
INVARIANTS
  TypeOK
  SleepersWait
  FreedOnce
PROPERTIES
  ImplementsFifo
CHECK_DEADLOCK FALSE
