SPECIFICATION Spec
CONSTANTS
  Pids <- ThreePids
  NCPU = 2
  MUX_MAXNUM = 1
  NPROC = 64
  Names <- OneName
  Creators <- Anybody
  MaxSignals = 2
  Workload <- Signalling
INVARIANTS
  TypeOK
  NoLostSignal
  SignalsBalance
CHECK_DEADLOCK FALSE
