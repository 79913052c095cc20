SPECIFICATION FairSpec
CONSTANTS
  Procs = {1, 2}
  Blocks = {1, 2, 3}
  Values = {0, 1}
  NBUF = 2
  Drivers <- Both
INVARIANT CountExact
PROPERTIES ImplementsStore RequestServed
CHECK_DEADLOCK FALSE
