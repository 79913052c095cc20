SPECIFICATION Spec
CONSTANTS
  Procs = {1, 2}
  MAX_NUM_CONTAINERS = 1
  Opened <- OneOrTwo
  INPUT_BUF = 2
  W = 4
  Chars = {"x", "cr", "eof"}
  Sizes = {1, 3}
  Victims = {1}
  Keys = 5
INVARIANT NoMissedLine
PROPERTY ImplementsTerminals
CHECK_DEADLOCK FALSE
