----------------------------- MODULE ProcProofs -----------------------------
(***************************************************************************)
(* Invariants of Proc, proved for every number of slots, CPUs and pids,    *)
(* every set of containers and every workload, and, as long as nobody      *)
(* calls prio_set, the shape of the run queue: its linked lists are the    *)
(* sequences of RunQueueSpec.                                              *)
(***************************************************************************)
EXTENDS Proc, FiniteSetTheorems, SequenceTheorems, WellFoundedInduction, TLAPS

ForkPoints == {"fork1", "fork2", "fork3"}
PrioPoints == {"prio1", "prio2", "prio3"}

\* The locals of a system call have their types while it runs.
LocalsOK ==
  \A p \in Slots :
    /\ pc[p] \in ForkPoints => ptr[p] \in Slots /\ num[p] \in Cids \cup {NoCid}
    /\ pc[p] \in PrioPoints => ptr[p] \in Slots /\ num[p] \in Buckets

\* The slot a fork is filling is EMBRYO, and nobody else fills it.
EmbryoOwned ==
  \A p \in Slots : pc[p] \in ForkPoints =>
    /\ state[ptr[p]] = "EMBRYO"
    /\ \A r \in Slots : pc[r] \in ForkPoints /\ ptr[r] = ptr[p] => r = p

\* init is never dead and has no parent.
InitAlive == Alive(initproc) /\ parent[initproc] = NULL

\* A child has its parent before it can run.
ForkParent ==
  \A p \in Slots : pc[p] \in {"fork2", "fork3"} => parent[ptr[p]] # NULL

\* A process in the middle of exit has handed its children over.
ExitChildless ==
  \A p \in Slots : pc[p] = "exit2" => p # initproc /\ \A q \in Slots : parent[q] # p

\* nextpid has not been given to anybody.
PidsBounded == \A p \in Slots : pid[p] < nextpid

TInv == TypeOK /\ LocalsOK
CInv == RunningOnOneCpu /\ EmbryoOwned
PInv == InitAlive /\ ParentAlive /\ ForkParent /\ ExitChildless

\* The inductive invariant.
IInv == TInv /\ CInv /\ PInv /\ PidsBounded /\ PidsUnique

\* What the assumptions say about the constants.
LEMMA Constants ==
  /\ NPROC \in Nat /\ NPROC >= 1 /\ PRIO_MAX \in Nat /\ PRIO_MAX > 5
  /\ NCPU \in Nat /\ NCPU >= 1 /\ MAXPID \in Nat
  /\ Cids \subseteq Nat /\ initproc \in Slots
  BY SizesAssumption, ProcAssumption DEF initproc, Slots

\* The state pinit and userinit leave satisfies the invariant.
THEOREM InitIInv == Init => IInv
  <1> SUFFICES ASSUME Init PROVE IInv
    OBVIOUS
  <1> USE Constants DEF Init
  <1>1. TypeOK
    BY DEF TypeOK, Slots, Ptr, Buckets, CPUs, States, Points, NULL, NoCpu, NoCid, Ticks, initproc
  <1>2. LocalsOK
    BY DEF LocalsOK, ForkPoints, PrioPoints
  <1>3. CInv
    BY DEF CInv, RunningOnOneCpu, EmbryoOwned, ForkPoints, NULL, initproc, Slots
  <1>4. PInv
    BY DEF PInv, InitAlive, ParentAlive, ForkParent, ExitChildless, Alive
  <1>5. PidsBounded /\ PidsUnique
    BY DEF PidsBounded, PidsUnique
  <1> QED BY <1>1, <1>2, <1>3, <1>4, <1>5 DEF IInv, TInv

-----------------------------------------------------------------------------
(* One lemma per action: the action preserves the invariant. *)

\* The values that stand for nothing are no slots, CPUs or buckets.
LEMMA TypeFacts ==
  /\ NULL \in Ptr /\ Slots \subseteq Ptr /\ NULL \notin Slots /\ Ptr = Slots \cup {NULL}
  /\ Ptr \subseteq 0..Ticks /\ Ticks \in 0..Ticks /\ 0 \in 0..Ticks /\ Slots \subseteq Nat
  /\ NoCpu \notin CPUs /\ initproc \in Slots
  /\ Buckets \subseteq Int /\ 0 \in Buckets /\ 5 \in Buckets
  /\ Cids \cup {NoCid} \subseteq Int /\ NoCid \notin Cids
  /\ MAXPID \in Nat /\ NPROC \in Nat
  BY Constants DEF NULL, Ptr, Slots, Ticks, NoCpu, CPUs, Buckets, NoCid

\* A process on a CPU is RUNNING, and on that CPU only.
LEMMA OnCpu ==
  ASSUME IInv, NEW c \in CPUs, cpu[c] \in Slots
  PROVE  state[cpu[c]] = "RUNNING" /\ \A d \in CPUs : cpu[d] = cpu[c] => d = c
  BY TypeFacts DEF IInv, CInv, RunningOnOneCpu

\* scheduler: the process it picks runs on no other CPU.
LEMMA ScheduleStep ==
  ASSUME NEW c \in CPUs, IInv, Schedule(c)
  PROVE  IInv'
  <1> USE TypeFacts, OnCpu DEF Schedule, Runnable, procVars, queueVars, lockVars, local
  <1>1. TypeOK'
    BY DEF IInv, TInv, TypeOK, LocalsOK, ForkPoints, PrioPoints, States, Points
  <1>2. LocalsOK'
    BY DEF IInv, TInv, TypeOK, LocalsOK, ForkPoints, PrioPoints
  <1>3. RunningOnOneCpu'
    BY DEF IInv, TInv, TypeOK, LocalsOK, CInv, RunningOnOneCpu, EmbryoOwned, ForkPoints
  <1>4. EmbryoOwned'
    <2>1. PICK p \in Slots : state[p] = "RUNNABLE" /\ state' = [state EXCEPT ![p] = "RUNNING"]
      OBVIOUS
    <2>2. UNCHANGED <<pc, ptr>>
      OBVIOUS
    <2> HIDE DEF Schedule
    <2> QED BY <2>1, <2>2 DEF IInv, TInv, TypeOK, LocalsOK, CInv, EmbryoOwned, ForkPoints
  <1>5. InitAlive' /\ ParentAlive'
    BY DEF IInv, TInv, TypeOK, LocalsOK, CInv, RunningOnOneCpu, EmbryoOwned, PInv, InitAlive, ParentAlive, ForkParent, ExitChildless, ForkPoints, Alive
  <1>6. ForkParent' /\ ExitChildless'
    BY DEF IInv, TInv, TypeOK, LocalsOK, CInv, EmbryoOwned, PInv, InitAlive, ForkParent, ExitChildless, ForkPoints
  <1>7. PidsBounded' /\ PidsUnique'
    BY DEF IInv, TInv, TypeOK, LocalsOK, CInv, EmbryoOwned, ForkPoints, PidsBounded, PidsUnique
  <1> QED BY <1>1, <1>2, <1>3, <1>4, <1>5, <1>6, <1>7 DEF IInv, TInv, CInv, PInv

\* scheduler on a closed list: only locks change.
LEMMA ScheduleLoopsStep ==
  ASSUME NEW c \in CPUs, IInv, ScheduleLoops(c)
  PROVE  IInv'
  <1> USE TypeFacts, OnCpu DEF ScheduleLoops, procVars, queueVars, lockVars, local
  <1>1. TypeOK'
    BY DEF IInv, TInv, TypeOK, LocalsOK, ForkPoints, PrioPoints, States, Points
  <1>2. LocalsOK'
    BY DEF IInv, TInv, TypeOK, LocalsOK, ForkPoints, PrioPoints
  <1>3. RunningOnOneCpu'
    BY DEF IInv, TInv, TypeOK, LocalsOK, CInv, RunningOnOneCpu, EmbryoOwned, ForkPoints
  <1>4. EmbryoOwned'
    BY DEF IInv, TInv, TypeOK, LocalsOK, CInv, RunningOnOneCpu, EmbryoOwned, ForkPoints
  <1>5. InitAlive' /\ ParentAlive'
    BY DEF IInv, TInv, TypeOK, LocalsOK, CInv, RunningOnOneCpu, EmbryoOwned, PInv, InitAlive, ParentAlive, ForkParent, ExitChildless, ForkPoints, Alive
  <1>6. ForkParent' /\ ExitChildless'
    BY DEF IInv, TInv, TypeOK, LocalsOK, CInv, EmbryoOwned, PInv, InitAlive, ForkParent, ExitChildless, ForkPoints
  <1>7. PidsBounded' /\ PidsUnique'
    BY DEF IInv, TInv, TypeOK, LocalsOK, CInv, EmbryoOwned, ForkPoints, PidsBounded, PidsUnique
  <1> QED BY <1>1, <1>2, <1>3, <1>4, <1>5, <1>6, <1>7 DEF IInv, TInv, CInv, PInv

\* The return of sched(), and forkret.
LEMMA ResumeStep ==
  ASSUME NEW p \in Slots, IInv, Resume(p)
  PROVE  IInv'
  <1> USE TypeFacts, OnCpu DEF Resume, procVars, queueVars, lockVars, local
  <1>1. TypeOK'
    BY DEF IInv, TInv, TypeOK, LocalsOK, ForkPoints, PrioPoints, States, Points
  <1>2. LocalsOK'
    BY DEF IInv, TInv, TypeOK, LocalsOK, ForkPoints, PrioPoints
  <1>3. RunningOnOneCpu'
    BY DEF IInv, TInv, TypeOK, LocalsOK, CInv, RunningOnOneCpu, EmbryoOwned, ForkPoints
  <1>4. EmbryoOwned'
    BY DEF IInv, TInv, TypeOK, LocalsOK, CInv, RunningOnOneCpu, EmbryoOwned, ForkPoints
  <1>5. InitAlive' /\ ParentAlive'
    BY DEF IInv, TInv, TypeOK, LocalsOK, CInv, RunningOnOneCpu, EmbryoOwned, PInv, InitAlive, ParentAlive, ForkParent, ExitChildless, ForkPoints, Alive
  <1>6. ForkParent' /\ ExitChildless'
    BY DEF IInv, TInv, TypeOK, LocalsOK, CInv, EmbryoOwned, PInv, InitAlive, ForkParent, ExitChildless, ForkPoints
  <1>7. PidsBounded' /\ PidsUnique'
    BY DEF IInv, TInv, TypeOK, LocalsOK, CInv, EmbryoOwned, ForkPoints, PidsBounded, PidsUnique
  <1> QED BY <1>1, <1>2, <1>3, <1>4, <1>5, <1>6, <1>7 DEF IInv, TInv, CInv, PInv

\* yield.
LEMMA YieldStep ==
  ASSUME NEW p \in Slots, IInv, Yield(p)
  PROVE  IInv'
  <1> USE TypeFacts, OnCpu DEF Yield, SwitchAway, procVars, queueVars, lockVars, local
  <1>1. TypeOK'
    BY DEF IInv, TInv, TypeOK, LocalsOK, ForkPoints, PrioPoints, States, Points
  <1>2. LocalsOK'
    BY DEF IInv, TInv, TypeOK, LocalsOK, ForkPoints, PrioPoints
  <1>3. RunningOnOneCpu'
    BY DEF IInv, TInv, TypeOK, LocalsOK, CInv, RunningOnOneCpu, EmbryoOwned, ForkPoints
  <1>4. EmbryoOwned'
    BY DEF IInv, TInv, TypeOK, LocalsOK, CInv, RunningOnOneCpu, EmbryoOwned, ForkPoints
  <1>5. InitAlive' /\ ParentAlive'
    BY DEF IInv, TInv, TypeOK, LocalsOK, CInv, RunningOnOneCpu, EmbryoOwned, PInv, InitAlive, ParentAlive, ForkParent, ExitChildless, ForkPoints, Alive
  <1>6. ForkParent' /\ ExitChildless'
    BY DEF IInv, TInv, TypeOK, LocalsOK, CInv, EmbryoOwned, PInv, InitAlive, ForkParent, ExitChildless, ForkPoints
  <1>7. PidsBounded' /\ PidsUnique'
    BY DEF IInv, TInv, TypeOK, LocalsOK, CInv, EmbryoOwned, ForkPoints, PidsBounded, PidsUnique
  <1> QED BY <1>1, <1>2, <1>3, <1>4, <1>5, <1>6, <1>7 DEF IInv, TInv, CInv, PInv

\* The timer's wakeup(&ticks).
LEMMA TickStep ==
  ASSUME IInv, Tick
  PROVE  IInv'
  <1> USE TypeFacts, OnCpu DEF Tick, Wakeup1, procVars, queueVars, lockVars, local
  <1>1. TypeOK'
    BY DEF IInv, TInv, TypeOK, LocalsOK, ForkPoints, PrioPoints, States, Points
  <1>2. LocalsOK'
    BY DEF IInv, TInv, TypeOK, LocalsOK, ForkPoints, PrioPoints
  <1>3. RunningOnOneCpu'
    BY DEF IInv, TInv, TypeOK, LocalsOK, CInv, RunningOnOneCpu, EmbryoOwned, ForkPoints
  <1>4. EmbryoOwned'
    BY DEF IInv, TInv, TypeOK, LocalsOK, CInv, RunningOnOneCpu, EmbryoOwned, ForkPoints
  <1>5. InitAlive' /\ ParentAlive'
    BY DEF IInv, TInv, TypeOK, LocalsOK, CInv, RunningOnOneCpu, EmbryoOwned, PInv, InitAlive, ParentAlive, ForkParent, ExitChildless, ForkPoints, Alive
  <1>6. ForkParent' /\ ExitChildless'
    BY DEF IInv, TInv, TypeOK, LocalsOK, CInv, EmbryoOwned, PInv, InitAlive, ForkParent, ExitChildless, ForkPoints
  <1>7. PidsBounded' /\ PidsUnique'
    BY DEF IInv, TInv, TypeOK, LocalsOK, CInv, EmbryoOwned, ForkPoints, PidsBounded, PidsUnique
  <1> QED BY <1>1, <1>2, <1>3, <1>4, <1>5, <1>6, <1>7 DEF IInv, TInv, CInv, PInv

\* trap() into a system call.
LEMMA TrapStep ==
  ASSUME NEW p \in Slots, IInv, Trap(p)
  PROVE  IInv'
  <1> USE TypeFacts, OnCpu DEF Trap, At, Runs, procVars, queueVars, lockVars, local
  <1>1. TypeOK'
    BY DEF IInv, TInv, TypeOK, LocalsOK, ForkPoints, PrioPoints, States, Points
  <1>2. LocalsOK'
    BY DEF IInv, TInv, TypeOK, LocalsOK, ForkPoints, PrioPoints
  <1>3. RunningOnOneCpu'
    BY DEF IInv, TInv, TypeOK, LocalsOK, CInv, RunningOnOneCpu, EmbryoOwned, ForkPoints
  <1>4. EmbryoOwned'
    BY DEF IInv, TInv, TypeOK, LocalsOK, CInv, RunningOnOneCpu, EmbryoOwned, ForkPoints
  <1>5. InitAlive' /\ ParentAlive'
    BY DEF IInv, TInv, TypeOK, LocalsOK, CInv, RunningOnOneCpu, EmbryoOwned, PInv, InitAlive, ParentAlive, ForkParent, ExitChildless, ForkPoints, Alive
  <1>6. ForkParent' /\ ExitChildless'
    BY DEF IInv, TInv, TypeOK, LocalsOK, CInv, EmbryoOwned, PInv, InitAlive, ForkParent, ExitChildless, ForkPoints
  <1>7. PidsBounded' /\ PidsUnique'
    BY DEF IInv, TInv, TypeOK, LocalsOK, CInv, EmbryoOwned, ForkPoints, PidsBounded, PidsUnique
  <1> QED BY <1>1, <1>2, <1>3, <1>4, <1>5, <1>6, <1>7 DEF IInv, TInv, CInv, PInv

\* A system call that changes nothing here.
LEMMA OtherCallStep ==
  ASSUME NEW p \in Slots, IInv, OtherCall(p)
  PROVE  IInv'
  <1> USE TypeFacts, OnCpu DEF OtherCall, At, Runs, Return, procVars, queueVars, lockVars, local
  <1>1. TypeOK'
    BY DEF IInv, TInv, TypeOK, LocalsOK, ForkPoints, PrioPoints, States, Points
  <1>2. LocalsOK'
    BY DEF IInv, TInv, TypeOK, LocalsOK, ForkPoints, PrioPoints
  <1>3. RunningOnOneCpu'
    BY DEF IInv, TInv, TypeOK, LocalsOK, CInv, RunningOnOneCpu, EmbryoOwned, ForkPoints
  <1>4. EmbryoOwned'
    BY DEF IInv, TInv, TypeOK, LocalsOK, CInv, RunningOnOneCpu, EmbryoOwned, ForkPoints
  <1>5. InitAlive' /\ ParentAlive'
    BY DEF IInv, TInv, TypeOK, LocalsOK, CInv, RunningOnOneCpu, EmbryoOwned, PInv, InitAlive, ParentAlive, ForkParent, ExitChildless, ForkPoints, Alive
  <1>6. ForkParent' /\ ExitChildless'
    BY DEF IInv, TInv, TypeOK, LocalsOK, CInv, EmbryoOwned, PInv, InitAlive, ForkParent, ExitChildless, ForkPoints
  <1>7. PidsBounded' /\ PidsUnique'
    BY DEF IInv, TInv, TypeOK, LocalsOK, CInv, EmbryoOwned, ForkPoints, PidsBounded, PidsUnique
  <1> QED BY <1>1, <1>2, <1>3, <1>4, <1>5, <1>6, <1>7 DEF IInv, TInv, CInv, PInv

\* An exception in user space.
LEMMA FaultStep ==
  ASSUME NEW p \in Slots, IInv, Fault(p)
  PROVE  IInv'
  <1> USE TypeFacts, OnCpu DEF Fault, At, Runs, procVars, queueVars, lockVars, local
  <1>1. TypeOK'
    BY DEF IInv, TInv, TypeOK, LocalsOK, ForkPoints, PrioPoints, States, Points
  <1>2. LocalsOK'
    BY DEF IInv, TInv, TypeOK, LocalsOK, ForkPoints, PrioPoints
  <1>3. RunningOnOneCpu'
    BY DEF IInv, TInv, TypeOK, LocalsOK, CInv, RunningOnOneCpu, EmbryoOwned, ForkPoints
  <1>4. EmbryoOwned'
    BY DEF IInv, TInv, TypeOK, LocalsOK, CInv, RunningOnOneCpu, EmbryoOwned, ForkPoints
  <1>5. InitAlive' /\ ParentAlive'
    BY DEF IInv, TInv, TypeOK, LocalsOK, CInv, RunningOnOneCpu, EmbryoOwned, PInv, InitAlive, ParentAlive, ForkParent, ExitChildless, ForkPoints, Alive
  <1>6. ForkParent' /\ ExitChildless'
    BY DEF IInv, TInv, TypeOK, LocalsOK, CInv, EmbryoOwned, PInv, InitAlive, ForkParent, ExitChildless, ForkPoints
  <1>7. PidsBounded' /\ PidsUnique'
    BY DEF IInv, TInv, TypeOK, LocalsOK, CInv, EmbryoOwned, ForkPoints, PidsBounded, PidsUnique
  <1> QED BY <1>1, <1>2, <1>3, <1>4, <1>5, <1>6, <1>7 DEF IInv, TInv, CInv, PInv

\* allocproc: the slot is free, so nobody else fills it, and nextpid is new.
LEMMA AllocProcStep ==
  ASSUME NEW p \in Slots, NEW c \in Cids \cup {NoCid}, IInv, AllocProc(p, c)
  PROVE  IInv'
  <1> USE TypeFacts, OnCpu DEF AllocProc, At, Runs, FirstUnused, procVars, queueVars, lockVars, local
  <1>1. TypeOK'
    BY DEF IInv, TInv, TypeOK, LocalsOK, ForkPoints, PrioPoints, States, Points
  <1>2. LocalsOK'
    BY DEF IInv, TInv, TypeOK, LocalsOK, ForkPoints, PrioPoints
  <1>3. RunningOnOneCpu'
    BY DEF IInv, TInv, TypeOK, LocalsOK, CInv, RunningOnOneCpu, EmbryoOwned, ForkPoints
  <1>4. EmbryoOwned'
    BY DEF IInv, TInv, TypeOK, LocalsOK, CInv, RunningOnOneCpu, EmbryoOwned, ForkPoints
  <1>5. InitAlive' /\ ParentAlive'
    BY DEF IInv, TInv, TypeOK, LocalsOK, CInv, RunningOnOneCpu, EmbryoOwned, PInv, InitAlive, ParentAlive, ForkParent, ExitChildless, ForkPoints, Alive
  <1>6. ForkParent' /\ ExitChildless'
    BY DEF IInv, TInv, TypeOK, LocalsOK, CInv, EmbryoOwned, PInv, InitAlive, ForkParent, ExitChildless, ForkPoints
  <1>7. PidsBounded' /\ PidsUnique'
    BY DEF IInv, TInv, TypeOK, LocalsOK, CInv, EmbryoOwned, ForkPoints, PidsBounded, PidsUnique
  <1> QED BY <1>1, <1>2, <1>3, <1>4, <1>5, <1>6, <1>7 DEF IInv, TInv, CInv, PInv

\* allocproc returning 0.
LEMMA ForkRefusedStep ==
  ASSUME NEW p \in Slots, NEW c \in Cids \cup {NoCid}, IInv, ForkRefused(p, c)
  PROVE  IInv'
  <1> USE TypeFacts, OnCpu DEF ForkRefused, At, Runs, Return, procVars, queueVars, lockVars, local
  <1>1. TypeOK'
    BY DEF IInv, TInv, TypeOK, LocalsOK, ForkPoints, PrioPoints, States, Points
  <1>2. LocalsOK'
    BY DEF IInv, TInv, TypeOK, LocalsOK, ForkPoints, PrioPoints
  <1>3. RunningOnOneCpu'
    BY DEF IInv, TInv, TypeOK, LocalsOK, CInv, RunningOnOneCpu, EmbryoOwned, ForkPoints
  <1>4. EmbryoOwned'
    BY DEF IInv, TInv, TypeOK, LocalsOK, CInv, RunningOnOneCpu, EmbryoOwned, ForkPoints
  <1>5. InitAlive' /\ ParentAlive'
    BY DEF IInv, TInv, TypeOK, LocalsOK, CInv, RunningOnOneCpu, EmbryoOwned, PInv, InitAlive, ParentAlive, ForkParent, ExitChildless, ForkPoints, Alive
  <1>6. ForkParent' /\ ExitChildless'
    BY DEF IInv, TInv, TypeOK, LocalsOK, CInv, EmbryoOwned, PInv, InitAlive, ForkParent, ExitChildless, ForkPoints
  <1>7. PidsBounded' /\ PidsUnique'
    BY DEF IInv, TInv, TypeOK, LocalsOK, CInv, EmbryoOwned, ForkPoints, PidsBounded, PidsUnique
  <1> QED BY <1>1, <1>2, <1>3, <1>4, <1>5, <1>6, <1>7 DEF IInv, TInv, CInv, PInv

\* A fork that runs out of memory: the slot was nobody's parent.
LEMMA ForkFailsStep ==
  ASSUME NEW p \in Slots, IInv, ForkFails(p)
  PROVE  IInv'
  <1> USE TypeFacts, OnCpu DEF ForkFails, At, Runs, Return, procVars, queueVars, lockVars, local
  <1>1. TypeOK'
    BY DEF IInv, TInv, TypeOK, LocalsOK, ForkPoints, PrioPoints, States, Points
  <1>2. LocalsOK'
    BY DEF IInv, TInv, TypeOK, LocalsOK, ForkPoints, PrioPoints
  <1>3. RunningOnOneCpu'
    BY DEF IInv, TInv, TypeOK, LocalsOK, CInv, RunningOnOneCpu, EmbryoOwned, ForkPoints
  <1>4. EmbryoOwned'
    BY DEF IInv, TInv, TypeOK, LocalsOK, CInv, RunningOnOneCpu, EmbryoOwned, ForkPoints
  <1>5. InitAlive' /\ ParentAlive'
    BY DEF IInv, TInv, TypeOK, LocalsOK, CInv, RunningOnOneCpu, EmbryoOwned, PInv, InitAlive, ParentAlive, ForkParent, ExitChildless, ForkPoints, Alive
  <1>6. ForkParent' /\ ExitChildless'
    BY DEF IInv, TInv, TypeOK, LocalsOK, CInv, EmbryoOwned, PInv, InitAlive, ForkParent, ExitChildless, ForkPoints
  <1>7. PidsBounded' /\ PidsUnique'
    BY DEF IInv, TInv, TypeOK, LocalsOK, CInv, EmbryoOwned, ForkPoints, PidsBounded, PidsUnique
  <1> QED BY <1>1, <1>2, <1>3, <1>4, <1>5, <1>6, <1>7 DEF IInv, TInv, CInv, PInv

\* fork2: the child gets a live parent.
LEMMA ForkCopyStep ==
  ASSUME NEW p \in Slots, IInv, ForkCopy(p)
  PROVE  IInv'
  <1> USE TypeFacts, OnCpu DEF ForkCopy, At, Runs, procVars, queueVars, lockVars, local
  <1>1. TypeOK'
    BY DEF IInv, TInv, TypeOK, LocalsOK, ForkPoints, PrioPoints, States, Points
  <1>2. LocalsOK'
    BY DEF IInv, TInv, TypeOK, LocalsOK, ForkPoints, PrioPoints
  <1>3. RunningOnOneCpu'
    BY DEF IInv, TInv, TypeOK, LocalsOK, CInv, RunningOnOneCpu, EmbryoOwned, ForkPoints
  <1>4. EmbryoOwned'
    BY DEF IInv, TInv, TypeOK, LocalsOK, CInv, RunningOnOneCpu, EmbryoOwned, ForkPoints
  <1>5. InitAlive' /\ ParentAlive'
    BY DEF IInv, TInv, TypeOK, LocalsOK, CInv, RunningOnOneCpu, EmbryoOwned, PInv, InitAlive, ParentAlive, ForkParent, ExitChildless, ForkPoints, Alive
  <1>6. ForkParent' /\ ExitChildless'
    BY DEF IInv, TInv, TypeOK, LocalsOK, CInv, EmbryoOwned, PInv, InitAlive, ForkParent, ExitChildless, ForkPoints
  <1>7. PidsBounded' /\ PidsUnique'
    BY DEF IInv, TInv, TypeOK, LocalsOK, CInv, EmbryoOwned, ForkPoints, PidsBounded, PidsUnique
  <1> QED BY <1>1, <1>2, <1>3, <1>4, <1>5, <1>6, <1>7 DEF IInv, TInv, CInv, PInv

\* fork2: pq1_enqueue.
LEMMA ForkEnqueueStep ==
  ASSUME NEW p \in Slots, IInv, ForkEnqueue(p)
  PROVE  IInv'
  <1> USE TypeFacts, OnCpu DEF ForkEnqueue, At, Runs, SetQueue, procVars, queueVars, lockVars, local
  <1>1. TypeOK'
    BY DEF IInv, TInv, TypeOK, LocalsOK, ForkPoints, PrioPoints, States, Points
  <1>2. LocalsOK'
    BY DEF IInv, TInv, TypeOK, LocalsOK, ForkPoints, PrioPoints
  <1>3. RunningOnOneCpu'
    BY DEF IInv, TInv, TypeOK, LocalsOK, CInv, RunningOnOneCpu, EmbryoOwned, ForkPoints
  <1>4. EmbryoOwned'
    BY DEF IInv, TInv, TypeOK, LocalsOK, CInv, RunningOnOneCpu, EmbryoOwned, ForkPoints
  <1>5. InitAlive' /\ ParentAlive'
    BY DEF IInv, TInv, TypeOK, LocalsOK, CInv, RunningOnOneCpu, EmbryoOwned, PInv, InitAlive, ParentAlive, ForkParent, ExitChildless, ForkPoints, Alive
  <1>6. ForkParent' /\ ExitChildless'
    BY DEF IInv, TInv, TypeOK, LocalsOK, CInv, EmbryoOwned, PInv, InitAlive, ForkParent, ExitChildless, ForkPoints
  <1>7. PidsBounded' /\ PidsUnique'
    BY DEF IInv, TInv, TypeOK, LocalsOK, CInv, EmbryoOwned, ForkPoints, PidsBounded, PidsUnique
  <1> QED BY <1>1, <1>2, <1>3, <1>4, <1>5, <1>6, <1>7 DEF IInv, TInv, CInv, PInv

\* fork2: the child becomes RUNNABLE on no CPU.
LEMMA ForkRunnableStep ==
  ASSUME NEW p \in Slots, IInv, ForkRunnable(p)
  PROVE  IInv'
  <1> USE TypeFacts, OnCpu DEF ForkRunnable, At, Runs, Return, procVars, queueVars, lockVars, local
  <1>1. TypeOK'
    BY DEF IInv, TInv, TypeOK, LocalsOK, ForkPoints, PrioPoints, States, Points
  <1>2. LocalsOK'
    BY DEF IInv, TInv, TypeOK, LocalsOK, ForkPoints, PrioPoints
  <1>3. RunningOnOneCpu'
    BY DEF IInv, TInv, TypeOK, LocalsOK, CInv, RunningOnOneCpu, EmbryoOwned, ForkPoints
  <1>4. EmbryoOwned'
    BY DEF IInv, TInv, TypeOK, LocalsOK, CInv, RunningOnOneCpu, EmbryoOwned, ForkPoints
  <1>5. InitAlive' /\ ParentAlive'
    BY DEF IInv, TInv, TypeOK, LocalsOK, CInv, RunningOnOneCpu, EmbryoOwned, PInv, InitAlive, ParentAlive, ForkParent, ExitChildless, ForkPoints, Alive
  <1>6. ForkParent' /\ ExitChildless'
    BY DEF IInv, TInv, TypeOK, LocalsOK, CInv, EmbryoOwned, PInv, InitAlive, ForkParent, ExitChildless, ForkPoints
  <1>7. PidsBounded' /\ PidsUnique'
    BY DEF IInv, TInv, TypeOK, LocalsOK, CInv, EmbryoOwned, ForkPoints, PidsBounded, PidsUnique
  <1> QED BY <1>1, <1>2, <1>3, <1>4, <1>5, <1>6, <1>7 DEF IInv, TInv, CInv, PInv

\* exit: the children get init, the process leaves its CPU.
LEMMA ExitStep ==
  ASSUME NEW p \in Slots, IInv, Exit(p)
  PROVE  IInv'
  <1> USE TypeFacts, OnCpu DEF Exit, At, Runs, Exiting, Reparent, ExitWakes, Wakeup1, SwitchAway, procVars, queueVars, lockVars, local
  <1>1. TypeOK'
    BY DEF IInv, TInv, TypeOK, LocalsOK, ForkPoints, PrioPoints, States, Points
  <1>2. LocalsOK'
    BY DEF IInv, TInv, TypeOK, LocalsOK, ForkPoints, PrioPoints
  <1>3. RunningOnOneCpu'
    BY DEF IInv, TInv, TypeOK, LocalsOK, CInv, RunningOnOneCpu, EmbryoOwned, ForkPoints
  <1>4. EmbryoOwned'
    <2>1. \E c \in CPUs : cpu[c] = p
      OBVIOUS
    <2>2. state[p] = "RUNNING"
      BY <2>1
    <2>3. \A q \in Slots : state[q] = "EMBRYO" => state'[q] = "EMBRYO"
      BY <2>2 DEF IInv, TInv, TypeOK
    <2>4. UNCHANGED <<pc, ptr>>
      OBVIOUS
    <2>5. \A q \in Slots : pc[q] \in ForkPoints => ptr[q] \in Slots
      BY DEF IInv, TInv, LocalsOK
    <2>6. EmbryoOwned
      BY DEF IInv, CInv
    <2> QED BY ONLY <2>3, <2>4, <2>5, <2>6 DEF EmbryoOwned
  <1>5. InitAlive' /\ ParentAlive'
    <2>1. \A q \in Slots : q # p /\ Alive(q) => Alive(q)'
      BY DEF IInv, TInv, TypeOK, Alive
    <2>2. \A q \in Slots : q # p /\ ~Alive(q) => state'[q] = state[q]
      BY DEF IInv, TInv, TypeOK, Alive
    <2>3. state[p] = "RUNNING" /\ p # initproc
      OBVIOUS
    <2>4. InitAlive'
      BY <2>1, <2>3 DEF IInv, TInv, TypeOK, PInv, InitAlive
    <2>5. ASSUME NEW q \in Slots, parent'[q] # NULL
          PROVE  Alive(parent[q])' /\ parent'[q] # q
      <3>1. CASE parent[q] = p
        <4>1. parent'[q] = initproc /\ q # initproc
          BY <3>1, <2>3 DEF IInv, PInv, InitAlive
        <4> QED BY <4>1, <2>4 DEF InitAlive, Alive
      <3>2. CASE parent[q] # p
        <4>1. parent'[q] = parent[q] /\ Alive(parent[q]) /\ parent[q] # q /\ parent[q] \in Slots
          BY <3>2, <2>5 DEF IInv, TInv, TypeOK, PInv, ParentAlive
        <4> QED BY <3>2, <4>1, <2>1 DEF Alive
      <3> QED BY <3>1, <3>2
    <2>6. ASSUME NEW q \in Slots, q # initproc, (Alive(q) \/ state[q] = "ZOMBIE")'
          PROVE  parent'[q] # NULL
      <3>1. Alive(q) \/ state[q] = "ZOMBIE"
        BY <2>2, <2>3, <2>6 DEF Alive
      <3> QED BY <3>1, <2>6 DEF IInv, TInv, TypeOK, PInv, ParentAlive
    <2>7. ParentAlive'
      BY <2>5, <2>6 DEF ParentAlive
    <2> QED BY <2>4, <2>7
  <1>6. ForkParent' /\ ExitChildless'
    BY DEF IInv, TInv, TypeOK, LocalsOK, CInv, EmbryoOwned, PInv, InitAlive, ForkParent, ExitChildless, ForkPoints
  <1>7. PidsBounded' /\ PidsUnique'
    BY DEF IInv, TInv, TypeOK, LocalsOK, CInv, EmbryoOwned, ForkPoints, PidsBounded, PidsUnique
  <1> QED BY <1>1, <1>2, <1>3, <1>4, <1>5, <1>6, <1>7 DEF IInv, TInv, CInv, PInv

\* exit up to releasesleep.
LEMMA ExitReleasesMutexStep ==
  ASSUME NEW p \in Slots, IInv, ExitReleasesMutex(p)
  PROVE  IInv'
  <1> USE TypeFacts, OnCpu DEF ExitReleasesMutex, At, Runs, Exiting, Reparent, ExitWakes, Wakeup1, procVars, queueVars, lockVars, local
  <1>1. TypeOK'
    BY DEF IInv, TInv, TypeOK, LocalsOK, ForkPoints, PrioPoints, States, Points
  <1>2. LocalsOK'
    BY DEF IInv, TInv, TypeOK, LocalsOK, ForkPoints, PrioPoints
  <1>3. RunningOnOneCpu'
    BY DEF IInv, TInv, TypeOK, LocalsOK, CInv, RunningOnOneCpu, EmbryoOwned, ForkPoints
  <1>4. EmbryoOwned'
    BY DEF IInv, TInv, TypeOK, LocalsOK, CInv, RunningOnOneCpu, EmbryoOwned, ForkPoints
  <1>5. InitAlive' /\ ParentAlive'
    BY DEF IInv, TInv, TypeOK, LocalsOK, CInv, RunningOnOneCpu, EmbryoOwned, PInv, InitAlive, ParentAlive, ForkParent, ExitChildless, ForkPoints, Alive
  <1>6. ForkParent' /\ ExitChildless'
    BY DEF IInv, TInv, TypeOK, LocalsOK, CInv, EmbryoOwned, PInv, InitAlive, ForkParent, ExitChildless, ForkPoints
  <1>7. PidsBounded' /\ PidsUnique'
    BY DEF IInv, TInv, TypeOK, LocalsOK, CInv, EmbryoOwned, ForkPoints, PidsBounded, PidsUnique
  <1> QED BY <1>1, <1>2, <1>3, <1>4, <1>5, <1>6, <1>7 DEF IInv, TInv, CInv, PInv

\* exit after releasesleep: nobody became a child meanwhile.
LEMMA ExitFinishStep ==
  ASSUME NEW p \in Slots, IInv, ExitFinish(p)
  PROVE  IInv'
  <1> USE TypeFacts, OnCpu DEF ExitFinish, At, Runs, SwitchAway, procVars, queueVars, lockVars, local
  <1>1. TypeOK'
    BY DEF IInv, TInv, TypeOK, LocalsOK, ForkPoints, PrioPoints, States, Points
  <1>2. LocalsOK'
    BY DEF IInv, TInv, TypeOK, LocalsOK, ForkPoints, PrioPoints
  <1>3. RunningOnOneCpu'
    BY DEF IInv, TInv, TypeOK, LocalsOK, CInv, RunningOnOneCpu, EmbryoOwned, ForkPoints
  <1>4. EmbryoOwned'
    BY DEF IInv, TInv, TypeOK, LocalsOK, CInv, RunningOnOneCpu, EmbryoOwned, ForkPoints
  <1>5. InitAlive' /\ ParentAlive'
    BY DEF IInv, TInv, TypeOK, LocalsOK, CInv, RunningOnOneCpu, EmbryoOwned, PInv, InitAlive, ParentAlive, ForkParent, ExitChildless, ForkPoints, Alive
  <1>6. ForkParent' /\ ExitChildless'
    BY DEF IInv, TInv, TypeOK, LocalsOK, CInv, EmbryoOwned, PInv, InitAlive, ForkParent, ExitChildless, ForkPoints
  <1>7. PidsBounded' /\ PidsUnique'
    BY DEF IInv, TInv, TypeOK, LocalsOK, CInv, EmbryoOwned, ForkPoints, PidsBounded, PidsUnique
  <1> QED BY <1>1, <1>2, <1>3, <1>4, <1>5, <1>6, <1>7 DEF IInv, TInv, CInv, PInv

\* exit on a closed list.
LEMMA ExitLoopsStep ==
  ASSUME NEW p \in Slots, IInv, ExitLoops(p)
  PROVE  IInv'
  <1> USE TypeFacts, OnCpu DEF ExitLoops, At, Runs, Exiting, Reparent, ExitWakes, Wakeup1, procVars, queueVars, lockVars, local
  <1>1. TypeOK'
    BY DEF IInv, TInv, TypeOK, LocalsOK, ForkPoints, PrioPoints, States, Points
  <1>2. LocalsOK'
    BY DEF IInv, TInv, TypeOK, LocalsOK, ForkPoints, PrioPoints
  <1>3. RunningOnOneCpu'
    BY DEF IInv, TInv, TypeOK, LocalsOK, CInv, RunningOnOneCpu, EmbryoOwned, ForkPoints
  <1>4. EmbryoOwned'
    BY DEF IInv, TInv, TypeOK, LocalsOK, CInv, RunningOnOneCpu, EmbryoOwned, ForkPoints
  <1>5. InitAlive' /\ ParentAlive'
    BY DEF IInv, TInv, TypeOK, LocalsOK, CInv, RunningOnOneCpu, EmbryoOwned, PInv, InitAlive, ParentAlive, ForkParent, ExitChildless, ForkPoints, Alive
  <1>6. ForkParent' /\ ExitChildless'
    BY DEF IInv, TInv, TypeOK, LocalsOK, CInv, EmbryoOwned, PInv, InitAlive, ForkParent, ExitChildless, ForkPoints
  <1>7. PidsBounded' /\ PidsUnique'
    BY DEF IInv, TInv, TypeOK, LocalsOK, CInv, EmbryoOwned, ForkPoints, PidsBounded, PidsUnique
  <1> QED BY <1>1, <1>2, <1>3, <1>4, <1>5, <1>6, <1>7 DEF IInv, TInv, CInv, PInv

\* wait: a reaped slot is nobody's parent.
LEMMA WaitReapsStep ==
  ASSUME NEW p \in Slots, IInv, WaitReaps(p)
  PROVE  IInv'
  <1> USE TypeFacts, OnCpu DEF WaitReaps, Waits, FirstZombie, Zombies, Children, Return, Uncount, procVars, queueVars, lockVars, local
  <1>1. TypeOK'
    <2>1. ASSUME NEW q \in Slots PROVE Uncount(q) \in [Cids -> Nat]
      <3>1. CASE cid[q] \in Cids
        BY <3>1 DEF IInv, TInv, TypeOK
      <3>2. CASE cid[q] \notin Cids
        <4>1. [active EXCEPT ![cid[q]] = active[cid[q]] - 1] = active
          BY <3>2 DEF IInv, TInv, TypeOK
        <4> QED BY <4>1 DEF IInv, TInv, TypeOK
      <3> QED BY <3>1, <3>2
    <2>2. active' \in [Cids -> Nat]
      BY <2>1 DEF Uncount
    <2> QED BY <2>2 DEF IInv, TInv, TypeOK, States, Points
  <1>2. LocalsOK'
    BY DEF IInv, TInv, TypeOK, LocalsOK, ForkPoints, PrioPoints
  <1>3. RunningOnOneCpu'
    BY DEF IInv, TInv, TypeOK, LocalsOK, CInv, RunningOnOneCpu, EmbryoOwned, ForkPoints
  <1>4. EmbryoOwned'
    BY DEF IInv, TInv, TypeOK, LocalsOK, CInv, RunningOnOneCpu, EmbryoOwned, ForkPoints
  <1>5. InitAlive' /\ ParentAlive'
    BY DEF IInv, TInv, TypeOK, LocalsOK, CInv, RunningOnOneCpu, EmbryoOwned, PInv, InitAlive, ParentAlive, ForkParent, ExitChildless, ForkPoints, Alive
  <1>6. ForkParent' /\ ExitChildless'
    BY DEF IInv, TInv, TypeOK, LocalsOK, CInv, EmbryoOwned, PInv, InitAlive, ForkParent, ExitChildless, ForkPoints
  <1>7. PidsBounded' /\ PidsUnique'
    BY DEF IInv, TInv, TypeOK, LocalsOK, CInv, EmbryoOwned, ForkPoints, PidsBounded, PidsUnique
  <1> QED BY <1>1, <1>2, <1>3, <1>4, <1>5, <1>6, <1>7 DEF IInv, TInv, CInv, PInv

\* wait returning -1.
LEMMA WaitReturnsStep ==
  ASSUME NEW p \in Slots, IInv, WaitReturns(p)
  PROVE  IInv'
  <1> USE TypeFacts, OnCpu DEF WaitReturns, Waits, Return, procVars, queueVars, lockVars, local
  <1>1. TypeOK'
    BY DEF IInv, TInv, TypeOK, LocalsOK, ForkPoints, PrioPoints, States, Points
  <1>2. LocalsOK'
    BY DEF IInv, TInv, TypeOK, LocalsOK, ForkPoints, PrioPoints
  <1>3. RunningOnOneCpu'
    BY DEF IInv, TInv, TypeOK, LocalsOK, CInv, RunningOnOneCpu, EmbryoOwned, ForkPoints
  <1>4. EmbryoOwned'
    BY DEF IInv, TInv, TypeOK, LocalsOK, CInv, RunningOnOneCpu, EmbryoOwned, ForkPoints
  <1>5. InitAlive' /\ ParentAlive'
    BY DEF IInv, TInv, TypeOK, LocalsOK, CInv, RunningOnOneCpu, EmbryoOwned, PInv, InitAlive, ParentAlive, ForkParent, ExitChildless, ForkPoints, Alive
  <1>6. ForkParent' /\ ExitChildless'
    BY DEF IInv, TInv, TypeOK, LocalsOK, CInv, EmbryoOwned, PInv, InitAlive, ForkParent, ExitChildless, ForkPoints
  <1>7. PidsBounded' /\ PidsUnique'
    BY DEF IInv, TInv, TypeOK, LocalsOK, CInv, EmbryoOwned, ForkPoints, PidsBounded, PidsUnique
  <1> QED BY <1>1, <1>2, <1>3, <1>4, <1>5, <1>6, <1>7 DEF IInv, TInv, CInv, PInv

\* wait going to sleep.
LEMMA WaitSleepsStep ==
  ASSUME NEW p \in Slots, IInv, WaitSleeps(p)
  PROVE  IInv'
  <1> USE TypeFacts, OnCpu DEF WaitSleeps, Waits, SwitchAway, procVars, queueVars, lockVars, local
  <1>1. TypeOK'
    BY DEF IInv, TInv, TypeOK, LocalsOK, ForkPoints, PrioPoints, States, Points
  <1>2. LocalsOK'
    BY DEF IInv, TInv, TypeOK, LocalsOK, ForkPoints, PrioPoints
  <1>3. RunningOnOneCpu'
    BY DEF IInv, TInv, TypeOK, LocalsOK, CInv, RunningOnOneCpu, EmbryoOwned, ForkPoints
  <1>4. EmbryoOwned'
    BY DEF IInv, TInv, TypeOK, LocalsOK, CInv, RunningOnOneCpu, EmbryoOwned, ForkPoints
  <1>5. InitAlive' /\ ParentAlive'
    BY DEF IInv, TInv, TypeOK, LocalsOK, CInv, RunningOnOneCpu, EmbryoOwned, PInv, InitAlive, ParentAlive, ForkParent, ExitChildless, ForkPoints, Alive
  <1>6. ForkParent' /\ ExitChildless'
    BY DEF IInv, TInv, TypeOK, LocalsOK, CInv, EmbryoOwned, PInv, InitAlive, ForkParent, ExitChildless, ForkPoints
  <1>7. PidsBounded' /\ PidsUnique'
    BY DEF IInv, TInv, TypeOK, LocalsOK, CInv, EmbryoOwned, ForkPoints, PidsBounded, PidsUnique
  <1> QED BY <1>1, <1>2, <1>3, <1>4, <1>5, <1>6, <1>7 DEF IInv, TInv, CInv, PInv

\* kill.
LEMMA KillStep ==
  ASSUME NEW p \in Slots, NEW k \in 0..MAXPID, IInv, Kill(p, k)
  PROVE  IInv'
  <1> USE TypeFacts, OnCpu DEF Kill, At, Runs, FirstWithPid, Return, procVars, queueVars, lockVars, local
  <1>1. TypeOK'
    BY DEF IInv, TInv, TypeOK, LocalsOK, ForkPoints, PrioPoints, States, Points
  <1>2. LocalsOK'
    BY DEF IInv, TInv, TypeOK, LocalsOK, ForkPoints, PrioPoints
  <1>3. RunningOnOneCpu'
    BY DEF IInv, TInv, TypeOK, LocalsOK, CInv, RunningOnOneCpu, EmbryoOwned, ForkPoints
  <1>4. EmbryoOwned'
    BY DEF IInv, TInv, TypeOK, LocalsOK, CInv, RunningOnOneCpu, EmbryoOwned, ForkPoints
  <1>5. InitAlive' /\ ParentAlive'
    BY DEF IInv, TInv, TypeOK, LocalsOK, CInv, RunningOnOneCpu, EmbryoOwned, PInv, InitAlive, ParentAlive, ForkParent, ExitChildless, ForkPoints, Alive
  <1>6. ForkParent' /\ ExitChildless'
    BY DEF IInv, TInv, TypeOK, LocalsOK, CInv, EmbryoOwned, PInv, InitAlive, ForkParent, ExitChildless, ForkPoints
  <1>7. PidsBounded' /\ PidsUnique'
    BY DEF IInv, TInv, TypeOK, LocalsOK, CInv, EmbryoOwned, ForkPoints, PidsBounded, PidsUnique
  <1> QED BY <1>1, <1>2, <1>3, <1>4, <1>5, <1>6, <1>7 DEF IInv, TInv, CInv, PInv

\* sys_sleep.
LEMMA SleepStep ==
  ASSUME NEW p \in Slots, IInv, Sleep(p)
  PROVE  IInv'
  <1> USE TypeFacts, OnCpu DEF Sleep, At, Runs, SwitchAway, procVars, queueVars, lockVars, local
  <1>1. TypeOK'
    BY DEF IInv, TInv, TypeOK, LocalsOK, ForkPoints, PrioPoints, States, Points
  <1>2. LocalsOK'
    BY DEF IInv, TInv, TypeOK, LocalsOK, ForkPoints, PrioPoints
  <1>3. RunningOnOneCpu'
    BY DEF IInv, TInv, TypeOK, LocalsOK, CInv, RunningOnOneCpu, EmbryoOwned, ForkPoints
  <1>4. EmbryoOwned'
    BY DEF IInv, TInv, TypeOK, LocalsOK, CInv, RunningOnOneCpu, EmbryoOwned, ForkPoints
  <1>5. InitAlive' /\ ParentAlive'
    BY DEF IInv, TInv, TypeOK, LocalsOK, CInv, RunningOnOneCpu, EmbryoOwned, PInv, InitAlive, ParentAlive, ForkParent, ExitChildless, ForkPoints, Alive
  <1>6. ForkParent' /\ ExitChildless'
    BY DEF IInv, TInv, TypeOK, LocalsOK, CInv, EmbryoOwned, PInv, InitAlive, ForkParent, ExitChildless, ForkPoints
  <1>7. PidsBounded' /\ PidsUnique'
    BY DEF IInv, TInv, TypeOK, LocalsOK, CInv, EmbryoOwned, ForkPoints, PidsBounded, PidsUnique
  <1> QED BY <1>1, <1>2, <1>3, <1>4, <1>5, <1>6, <1>7 DEF IInv, TInv, CInv, PInv

\* prio_set: the priority is one of the buckets.
LEMMA PrioSetStep ==
  ASSUME NEW p \in Slots, NEW k \in 1..MAXPID, IInv, PrioSet(p, k)
  PROVE  IInv'
  <1> USE TypeFacts, OnCpu DEF PrioSet, At, Runs, SetProc, procVars, queueVars, lockVars, local
  <1>1. TypeOK'
    BY DEF IInv, TInv, TypeOK, LocalsOK, ForkPoints, PrioPoints, States, Points
  <1>2. LocalsOK'
    <2>1. k \in Buckets
      BY Constants DEF Buckets
    <2> QED BY <2>1 DEF IInv, TInv, TypeOK, LocalsOK, ForkPoints, PrioPoints
  <1>3. RunningOnOneCpu'
    BY DEF IInv, TInv, TypeOK, LocalsOK, CInv, RunningOnOneCpu, EmbryoOwned, ForkPoints
  <1>4. EmbryoOwned'
    BY DEF IInv, TInv, TypeOK, LocalsOK, CInv, RunningOnOneCpu, EmbryoOwned, ForkPoints
  <1>5. InitAlive' /\ ParentAlive'
    BY DEF IInv, TInv, TypeOK, LocalsOK, CInv, RunningOnOneCpu, EmbryoOwned, PInv, InitAlive, ParentAlive, ForkParent, ExitChildless, ForkPoints, Alive
  <1>6. ForkParent' /\ ExitChildless'
    BY DEF IInv, TInv, TypeOK, LocalsOK, CInv, EmbryoOwned, PInv, InitAlive, ForkParent, ExitChildless, ForkPoints
  <1>7. PidsBounded' /\ PidsUnique'
    BY DEF IInv, TInv, TypeOK, LocalsOK, CInv, EmbryoOwned, ForkPoints, PidsBounded, PidsUnique
  <1> QED BY <1>1, <1>2, <1>3, <1>4, <1>5, <1>6, <1>7 DEF IInv, TInv, CInv, PInv

\* prio_set: remove_node.
LEMMA PrioRemoveStep ==
  ASSUME NEW p \in Slots, IInv, PrioRemove(p)
  PROVE  IInv'
  <1> USE TypeFacts, OnCpu DEF PrioRemove, At, Runs, procVars, queueVars, lockVars, local
  <1>1. TypeOK'
    BY DEF IInv, TInv, TypeOK, LocalsOK, ForkPoints, PrioPoints, States, Points
  <1>2. LocalsOK'
    BY DEF IInv, TInv, TypeOK, LocalsOK, ForkPoints, PrioPoints
  <1>3. RunningOnOneCpu'
    BY DEF IInv, TInv, TypeOK, LocalsOK, CInv, RunningOnOneCpu, EmbryoOwned, ForkPoints
  <1>4. EmbryoOwned'
    BY DEF IInv, TInv, TypeOK, LocalsOK, CInv, RunningOnOneCpu, EmbryoOwned, ForkPoints
  <1>5. InitAlive' /\ ParentAlive'
    BY DEF IInv, TInv, TypeOK, LocalsOK, CInv, RunningOnOneCpu, EmbryoOwned, PInv, InitAlive, ParentAlive, ForkParent, ExitChildless, ForkPoints, Alive
  <1>6. ForkParent' /\ ExitChildless'
    BY DEF IInv, TInv, TypeOK, LocalsOK, CInv, EmbryoOwned, PInv, InitAlive, ForkParent, ExitChildless, ForkPoints
  <1>7. PidsBounded' /\ PidsUnique'
    BY DEF IInv, TInv, TypeOK, LocalsOK, CInv, EmbryoOwned, ForkPoints, PidsBounded, PidsUnique
  <1> QED BY <1>1, <1>2, <1>3, <1>4, <1>5, <1>6, <1>7 DEF IInv, TInv, CInv, PInv

\* prio_set on a closed list.
LEMMA PrioRemoveLoopsStep ==
  ASSUME NEW p \in Slots, IInv, PrioRemoveLoops(p)
  PROVE  IInv'
  <1> USE TypeFacts, OnCpu DEF PrioRemoveLoops, At, Runs, procVars, queueVars, lockVars, local
  <1>1. TypeOK'
    BY DEF IInv, TInv, TypeOK, LocalsOK, ForkPoints, PrioPoints, States, Points
  <1>2. LocalsOK'
    BY DEF IInv, TInv, TypeOK, LocalsOK, ForkPoints, PrioPoints
  <1>3. RunningOnOneCpu'
    BY DEF IInv, TInv, TypeOK, LocalsOK, CInv, RunningOnOneCpu, EmbryoOwned, ForkPoints
  <1>4. EmbryoOwned'
    BY DEF IInv, TInv, TypeOK, LocalsOK, CInv, RunningOnOneCpu, EmbryoOwned, ForkPoints
  <1>5. InitAlive' /\ ParentAlive'
    BY DEF IInv, TInv, TypeOK, LocalsOK, CInv, RunningOnOneCpu, EmbryoOwned, PInv, InitAlive, ParentAlive, ForkParent, ExitChildless, ForkPoints, Alive
  <1>6. ForkParent' /\ ExitChildless'
    BY DEF IInv, TInv, TypeOK, LocalsOK, CInv, EmbryoOwned, PInv, InitAlive, ForkParent, ExitChildless, ForkPoints
  <1>7. PidsBounded' /\ PidsUnique'
    BY DEF IInv, TInv, TypeOK, LocalsOK, CInv, EmbryoOwned, ForkPoints, PidsBounded, PidsUnique
  <1> QED BY <1>1, <1>2, <1>3, <1>4, <1>5, <1>6, <1>7 DEF IInv, TInv, CInv, PInv

\* prio_set: the assignment.
LEMMA PrioAssignStep ==
  ASSUME NEW p \in Slots, IInv, PrioAssign(p)
  PROVE  IInv'
  <1> USE TypeFacts, OnCpu DEF PrioAssign, At, Runs, procVars, queueVars, lockVars, local
  <1>1. TypeOK'
    BY DEF IInv, TInv, TypeOK, LocalsOK, ForkPoints, PrioPoints, States, Points
  <1>2. LocalsOK'
    BY DEF IInv, TInv, TypeOK, LocalsOK, ForkPoints, PrioPoints
  <1>3. RunningOnOneCpu'
    BY DEF IInv, TInv, TypeOK, LocalsOK, CInv, RunningOnOneCpu, EmbryoOwned, ForkPoints
  <1>4. EmbryoOwned'
    BY DEF IInv, TInv, TypeOK, LocalsOK, CInv, RunningOnOneCpu, EmbryoOwned, ForkPoints
  <1>5. InitAlive' /\ ParentAlive'
    BY DEF IInv, TInv, TypeOK, LocalsOK, CInv, RunningOnOneCpu, EmbryoOwned, PInv, InitAlive, ParentAlive, ForkParent, ExitChildless, ForkPoints, Alive
  <1>6. ForkParent' /\ ExitChildless'
    BY DEF IInv, TInv, TypeOK, LocalsOK, CInv, EmbryoOwned, PInv, InitAlive, ForkParent, ExitChildless, ForkPoints
  <1>7. PidsBounded' /\ PidsUnique'
    BY DEF IInv, TInv, TypeOK, LocalsOK, CInv, EmbryoOwned, ForkPoints, PidsBounded, PidsUnique
  <1> QED BY <1>1, <1>2, <1>3, <1>4, <1>5, <1>6, <1>7 DEF IInv, TInv, CInv, PInv

\* prio_set: pq1_enqueue.
LEMMA PrioEnqueueStep ==
  ASSUME NEW p \in Slots, IInv, PrioEnqueue(p)
  PROVE  IInv'
  <1> USE TypeFacts, OnCpu DEF PrioEnqueue, At, Runs, Return, procVars, queueVars, lockVars, local
  <1>1. TypeOK'
    BY DEF IInv, TInv, TypeOK, LocalsOK, ForkPoints, PrioPoints, States, Points
  <1>2. LocalsOK'
    BY DEF IInv, TInv, TypeOK, LocalsOK, ForkPoints, PrioPoints
  <1>3. RunningOnOneCpu'
    BY DEF IInv, TInv, TypeOK, LocalsOK, CInv, RunningOnOneCpu, EmbryoOwned, ForkPoints
  <1>4. EmbryoOwned'
    BY DEF IInv, TInv, TypeOK, LocalsOK, CInv, RunningOnOneCpu, EmbryoOwned, ForkPoints
  <1>5. InitAlive' /\ ParentAlive'
    BY DEF IInv, TInv, TypeOK, LocalsOK, CInv, RunningOnOneCpu, EmbryoOwned, PInv, InitAlive, ParentAlive, ForkParent, ExitChildless, ForkPoints, Alive
  <1>6. ForkParent' /\ ExitChildless'
    BY DEF IInv, TInv, TypeOK, LocalsOK, CInv, EmbryoOwned, PInv, InitAlive, ForkParent, ExitChildless, ForkPoints
  <1>7. PidsBounded' /\ PidsUnique'
    BY DEF IInv, TInv, TypeOK, LocalsOK, CInv, EmbryoOwned, ForkPoints, PidsBounded, PidsUnique
  <1> QED BY <1>1, <1>2, <1>3, <1>4, <1>5, <1>6, <1>7 DEF IInv, TInv, CInv, PInv

-----------------------------------------------------------------------------
(* The invariant holds in every reachable state. *)

\* A stuttering step preserves the invariant.
LEMMA StutterStep ==
  ASSUME IInv, UNCHANGED vars
  PROVE  IInv'
  <1> USE DEF vars, procVars, queueVars, lockVars, local
  <1>1. TInv'
    BY DEF IInv, TInv, TypeOK, LocalsOK
  <1>2. CInv'
    BY DEF IInv, CInv, RunningOnOneCpu, EmbryoOwned
  <1>3. PInv'
    BY DEF IInv, PInv, InitAlive, ParentAlive, ForkParent, ExitChildless, Alive
  <1>4. PidsBounded' /\ PidsUnique'
    BY DEF IInv, PidsBounded, PidsUnique
  <1> QED BY <1>1, <1>2, <1>3, <1>4 DEF IInv

\* Every step preserves the invariant.
THEOREM NextIInv == IInv /\ [Next]_vars => IInv'
  <1> SUFFICES ASSUME IInv, [Next]_vars PROVE IInv'
    OBVIOUS
  <1>1. CASE UNCHANGED vars
    BY <1>1, StutterStep
  <1>2. ASSUME NEW c \in CPUs, Schedule(c) \/ ScheduleLoops(c) PROVE IInv'
    BY <1>2, ScheduleStep, ScheduleLoopsStep
  <1>3. ASSUME NEW p \in Slots, Resume(p) \/ Yield(p) \/ Trap(p) \/ Fault(p) \/ OtherCall(p) \/ Sleep(p)
        PROVE  IInv'
    BY <1>3, ResumeStep, YieldStep, TrapStep, FaultStep, OtherCallStep, SleepStep
  <1>4. ASSUME NEW p \in Slots, Fork(p) \/ ForkRest(p) PROVE IInv'
    BY <1>4, AllocProcStep, ForkRefusedStep, ForkFailsStep, ForkCopyStep, ForkEnqueueStep, ForkRunnableStep
       DEF Fork, ForkRest
  <1>5. ASSUME NEW p \in Slots, Exits(p) PROVE IInv'
    BY <1>5, ExitStep, ExitReleasesMutexStep, ExitFinishStep, ExitLoopsStep DEF Exits
  <1>6. ASSUME NEW p \in Slots, Wait(p) PROVE IInv'
    BY <1>6, WaitReapsStep, WaitReturnsStep, WaitSleepsStep DEF Wait
  <1>7. ASSUME NEW p \in Slots, Kills(p) \/ PrioSets(p) PROVE IInv'
    BY <1>7, KillStep, PrioSetStep DEF Kills, PrioSets
  <1>8. ASSUME NEW p \in Slots, PrioRest(p) PROVE IInv'
    BY <1>8, PrioRemoveStep, PrioRemoveLoopsStep, PrioAssignStep, PrioEnqueueStep DEF PrioRest
  <1>9. CASE Tick
    BY <1>9, TickStep
  <1> QED BY <1>1, <1>2, <1>3, <1>4, <1>5, <1>6, <1>7, <1>8, <1>9 DEF Next, Syscall

\* Every reachable state satisfies the inductive invariant.
THEOREM Invariance == Spec => []IInv
  BY InitIInv, NextIInv, PTL DEF Spec

\* TypeOK: every variable keeps its type, the locals of fork2 and prio_set included.
THEOREM TypeCorrect == Spec => []TypeOK
  <1>1. IInv => TypeOK
    BY DEF IInv, TInv
  <1> QED BY <1>1, Invariance, PTL

\* scheduler/sched: no process ever runs on two CPUs, whatever prio_set does to the run queue.
THEOREM CpuExclusion == Spec => []RunningOnOneCpu
  <1>1. IInv => RunningOnOneCpu
    BY DEF IInv, CInv
  <1> QED BY <1>1, Invariance, PTL

\* exit/wait/fork2: every process but init has a live parent, also while its parent is
\* half-way through exit() and when forks fail.
THEOREM ParentsAlive == Spec => []ParentAlive
  <1>1. IInv => ParentAlive
    BY DEF IInv, PInv
  <1> QED BY <1>1, Invariance, PTL

\* allocproc: the slots in use have different pids, although a failed fork leaves its
\* pid behind in the slot.
THEOREM PidsDiffer == Spec => []PidsUnique
  <1>1. IInv => PidsUnique
    BY DEF IInv
  <1> QED BY <1>1, Invariance, PTL

-----------------------------------------------------------------------------
(* exit() and wait() without mutexes: no wake-up is lost. *)

\* A process that sleeps in wait() sleeps on its own address.
WaitChan == \A p \in Slots : state[p] = "SLEEPING" /\ pc[p] = "wait" => chan[p] = p

\* Without mutexes exit() does not release ptable.lock.
ExitAtomic == \A p \in Slots : pc[p] # "exit2"

ZInv == WaitChan /\ NoMissedZombie /\ ExitAtomic

\* Nobody waits initially.
LEMMA InitZInv == Init => ZInv
  BY DEF Init, ZInv, WaitChan, NoMissedZombie, ExitAtomic

\* Every step preserves it: exit wakes the parent in the critical section that makes a ZOMBIE.
LEMMA NextZInv ==
  ASSUME "mutex" \notin Workload, IInv, ZInv, [Next]_vars
  PROVE  ZInv'
  <1> USE TypeFacts, OnCpu DEF procVars, queueVars, lockVars, local
  <1> USE DEF ZInv, WaitChan, NoMissedZombie, ExitAtomic, IInv, TInv, TypeOK
  <1>1. CASE UNCHANGED vars
    BY <1>1 DEF vars
  <1>2. ASSUME NEW c \in CPUs, Schedule(c) PROVE ZInv'
    BY <1>2 DEF Schedule, Runnable
  <1>3. ASSUME NEW c \in CPUs, ScheduleLoops(c) PROVE ZInv'
    BY <1>3 DEF ScheduleLoops
  <1>4. ASSUME NEW p \in Slots, Resume(p) PROVE ZInv'
    BY <1>4 DEF Resume
  <1>5. ASSUME NEW p \in Slots, Yield(p) PROVE ZInv'
    BY <1>5 DEF Yield, SwitchAway
  <1>6. ASSUME Tick PROVE ZInv'
    BY <1>6 DEF Tick, Wakeup1
  <1>7. ASSUME NEW p \in Slots, Trap(p) PROVE ZInv'
    BY <1>7 DEF Trap, At, Runs
  <1>8. ASSUME NEW p \in Slots, OtherCall(p) PROVE ZInv'
    BY <1>8 DEF OtherCall, At, Runs, Return
  <1>9. ASSUME NEW p \in Slots, Fault(p) PROVE ZInv'
    BY <1>9 DEF Fault, At, Runs
  <1>10. ASSUME NEW p \in Slots, NEW c \in Cids \cup {NoCid}, AllocProc(p, c) PROVE ZInv'
    BY <1>10 DEF AllocProc, At, Runs, FirstUnused
  <1>11. ASSUME NEW p \in Slots, NEW c \in Cids \cup {NoCid}, ForkRefused(p, c) PROVE ZInv'
    BY <1>11 DEF ForkRefused, At, Runs, Return, LocalsOK, CInv, EmbryoOwned, ForkPoints
  <1>12. ASSUME NEW p \in Slots, ForkFails(p) PROVE ZInv'
    BY <1>12 DEF ForkFails, At, Runs, Return, LocalsOK, CInv, EmbryoOwned, ForkPoints
  <1>13. ASSUME NEW p \in Slots, ForkCopy(p) PROVE ZInv'
    BY <1>13 DEF ForkCopy, At, Runs, LocalsOK, CInv, EmbryoOwned, ForkPoints
  <1>14. ASSUME NEW p \in Slots, ForkEnqueue(p) PROVE ZInv'
    BY <1>14 DEF ForkEnqueue, At, Runs, LocalsOK, CInv, EmbryoOwned, ForkPoints
  <1>15. ASSUME NEW p \in Slots, ForkRunnable(p) PROVE ZInv'
    BY <1>15 DEF ForkRunnable, At, Runs, Return, LocalsOK, CInv, EmbryoOwned, ForkPoints
  <1>16. ASSUME NEW p \in Slots, Exit(p) PROVE ZInv'
    <2> USE <1>16 DEF Exit, Exiting, At, Runs
    <2>1. state[p] = "RUNNING" /\ p # initproc
      OBVIOUS
    <2>2. ASSUME NEW r \in Slots, state'[r] = "SLEEPING"
          PROVE  r # p /\ state[r] = "SLEEPING" /\ chan[r] # parent[p]
      BY <2>1, <2>2 DEF ExitWakes, Wakeup1
    <2>3. WaitChan' /\ ExitAtomic'
      BY <2>2
    <2>4. ASSUME NEW r \in Slots, NEW q \in Slots,
                 state'[r] = "SLEEPING", pc'[r] = "wait", parent'[q] = r
          PROVE  state'[q] # "ZOMBIE"
      <3>1. r # p /\ state[r] = "SLEEPING" /\ chan[r] = r /\ r # parent[p] /\ pc[r] = "wait"
        BY <2>2, <2>4
      <3>2. parent[p] # p
        BY <2>1 DEF PInv, ParentAlive
      <3>3. q # p
        BY <2>4, <3>1, <3>2 DEF Reparent
      <3>4. state'[q] = "ZOMBIE" => state[q] = "ZOMBIE"
        BY <3>3 DEF ExitWakes, Wakeup1
      <3>5. CASE parent[q] = p
        <4>1. r = initproc
          BY <2>4, <3>5 DEF Reparent
        <4> QED BY <2>1, <2>4, <3>1, <3>4, <3>5, <4>1 DEF ExitWakes, Wakeup1
      <3>6. CASE parent[q] # p
        BY <2>4, <3>1, <3>4, <3>6 DEF Reparent
      <3> QED BY <3>5, <3>6
    <2> QED BY <2>3, <2>4
  <1>17. ASSUME NEW p \in Slots, ExitFinish(p) PROVE ZInv'
    BY <1>17 DEF ExitFinish, At, Runs
  <1>18. ASSUME NEW p \in Slots, ExitLoops(p) PROVE ZInv'
    BY <1>18 DEF ExitLoops, At, Runs, Exiting, Reparent, ExitWakes, Wakeup1
  <1>19. ASSUME NEW p \in Slots, WaitReaps(p) PROVE ZInv'
    BY <1>19 DEF WaitReaps, Waits, FirstZombie, Zombies, Children, Return
  <1>20. ASSUME NEW p \in Slots, WaitReturns(p) PROVE ZInv'
    BY <1>20 DEF WaitReturns, Waits, Return
  <1>21. ASSUME NEW p \in Slots, WaitSleeps(p) PROVE ZInv'
    BY <1>21 DEF WaitSleeps, Waits, Zombies, Children, SwitchAway
  <1>22. ASSUME NEW p \in Slots, NEW k \in 0..MAXPID, Kill(p, k) PROVE ZInv'
    BY <1>22 DEF Kill, At, Runs, FirstWithPid, Return
  <1>23. ASSUME NEW p \in Slots, Sleep(p) PROVE ZInv'
    BY <1>23 DEF Sleep, At, Runs, SwitchAway
  <1>24. ASSUME NEW p \in Slots, NEW k \in 0..MAXPID, PrioSet(p, k) PROVE ZInv'
    BY <1>24 DEF PrioSet, At, Runs
  <1>25. ASSUME NEW p \in Slots, PrioRemove(p) PROVE ZInv'
    BY <1>25 DEF PrioRemove, At, Runs
  <1>26. ASSUME NEW p \in Slots, PrioRemoveLoops(p) PROVE ZInv'
    BY <1>26 DEF PrioRemoveLoops, At, Runs
  <1>27. ASSUME NEW p \in Slots, PrioAssign(p) PROVE ZInv'
    BY <1>27 DEF PrioAssign, At, Runs
  <1>28. ASSUME NEW p \in Slots, PrioEnqueue(p) PROVE ZInv'
    BY <1>28 DEF PrioEnqueue, At, Runs, Return
  <1>29. ~\E p \in Slots : ExitReleasesMutex(p)
    BY DEF ExitReleasesMutex
  <1> QED
    BY <1>1, <1>2, <1>3, <1>4, <1>5, <1>6, <1>7, <1>8, <1>9, <1>10, <1>11, <1>12, <1>13, <1>14, <1>15, <1>16, <1>17, <1>18, <1>19, <1>20, <1>21, <1>22, <1>23, <1>24, <1>25, <1>26, <1>27, <1>28, <1>29
       DEF Next, Syscall, Fork, ForkRest, Exits, Wait, Kills, PrioSets, PrioRest

\* exit/wait/sleep: while no exiting process owns a mutex, nobody sleeps in wait() with a
\* ZOMBIE child, on any number of CPUs.
THEOREM NoLostExit ==
  ASSUME "mutex" \notin Workload
  PROVE  Spec => []NoMissedZombie
  <1>1. IInv /\ ZInv /\ [Next]_vars => ZInv'
    BY NextZInv
  <1>2. ZInv => NoMissedZombie
    BY DEF ZInv
  <1> QED BY <1>1, <1>2, InitZInv, Invariance, PTL DEF Spec

-----------------------------------------------------------------------------
(* A container is charged for exactly its processes. *)

\* A process that counts for the container its cid names.
InUse(q) == Alive(q) \/ state[q] = "ZOMBIE"

\* The child has the container that fork2 was asked for before it can run.
ChildCid == \A p \in Slots : pc[p] \in {"fork2", "fork3"} => cid[ptr[p]] = num[p]

Charges == \A c \in Cids : Cardinality(Charged(c)) = active[c]

\* A process in the middle of fork2 is alive.
ForkerRuns == \A p \in Slots : pc[p] \in ForkPoints => state[p] \in {"RUNNABLE", "RUNNING"}

KInv == ForkerRuns /\ ChildCid /\ Charges

\* A step that neither forks nor reaps.
Quiet ==
  /\ active' = active /\ cid' = cid
  /\ \A q \in Slots : InUse(q)' <=> InUse(q)
  /\ \A q \in Slots : pc'[q] = pc[q] \/ (pc[q] \notin ForkPoints /\ pc'[q] \notin ForkPoints)
  /\ \A q \in Slots : pc[q] \in ForkPoints =>
       ptr'[q] = ptr[q] /\ num'[q] = num[q] /\ state'[q] \in {"RUNNABLE", "RUNNING"}

\* The processes a container is charged for, in use or half-way through fork2.
LEMMA InCharged ==
  ASSUME NEW c, NEW q \in Slots
  PROVE  q \in Charged(c) <=>
           \/ InUse(q) /\ cid[q] = c
           \/ \E p \in Slots : pc[p] \in ForkPoints /\ ptr[p] = q /\ num[p] = c
  BY DEF Charged, InUse, ForkPoints

\* The same after a step.
LEMMA InChargedNext ==
  ASSUME NEW c, NEW q \in Slots
  PROVE  q \in Charged(c)' <=>
           \/ InUse(q)' /\ cid'[q] = c
           \/ \E p \in Slots : pc'[p] \in ForkPoints /\ ptr'[p] = q /\ num'[p] = c
  BY DEF Charged, InUse, ForkPoints

\* A step that neither forks nor reaps changes no charge.
LEMMA QuietKInv ==
  ASSUME KInv, Quiet
  PROVE  KInv'
  <1>1. ChildCid'
    BY DEF KInv, ChildCid, Quiet, ForkPoints
  <1>2. ASSUME NEW c \in Cids PROVE Cardinality(Charged(c))' = active'[c]
    <2>1. \A q \in Slots : q \in Charged(c)' <=> q \in Charged(c)
      <3> HIDE DEF ForkPoints, InUse
      <3>1. \A p \in Slots : pc'[p] \in ForkPoints <=> pc[p] \in ForkPoints
        BY DEF Quiet
      <3> QED BY <3>1, InCharged, InChargedNext DEF Quiet
    <2>2. Charged(c)' = Charged(c)
      BY <2>1 DEF Charged
    <2> QED BY <2>2 DEF KInv, Charges, Quiet
  <1>3. ForkerRuns'
    BY DEF Quiet, ForkerRuns
  <1> QED BY <1>1, <1>2, <1>3 DEF KInv, Charges

\* Initially nobody but init runs, and it belongs to no container.
LEMMA InitKInv == Init => KInv
  <1> SUFFICES ASSUME Init PROVE KInv
    OBVIOUS
  <1>1. ASSUME NEW c \in Cids PROVE Cardinality(Charged(c)) = active[c]
    <2>1. Charged(c) = {}
      BY TypeFacts DEF Init, Charged, Alive
    <2> QED BY <2>1, FS_EmptySet DEF Init
  <1> QED BY <1>1 DEF Init, KInv, ForkerRuns, ForkPoints, ChildCid, Charges

\* A container is charged for finitely many processes.
LEMMA ChargedFinite ==
  ASSUME NEW c PROVE IsFiniteSet(Charged(c))
  <1>1. IsFiniteSet(Slots)
    BY Constants, FS_Interval DEF Slots
  <1> QED BY <1>1, FS_Subset DEF Charged

\* setnextproc charges the container for the slot that allocproc takes.
LEMMA AllocKInv ==
  ASSUME IInv, KInv, NEW p \in Slots, NEW c \in Cids \cup {NoCid}, AllocProc(p, c)
  PROVE  KInv'
  <1>1. PICK q \in Slots : /\ state[q] = "UNUSED" /\ state' = [state EXCEPT ![q] = "EMBRYO"]
                           /\ pc' = [pc EXCEPT ![p] = "fork1", ![q] = "user"]
                           /\ ptr' = [ptr EXCEPT ![p] = q]
    BY DEF AllocProc, FirstUnused
  <1>2. /\ pc[p] = "sys" /\ num' = [num EXCEPT ![p] = c] /\ cid' = cid
        /\ active' = IF c = NoCid THEN active ELSE [active EXCEPT ![c] = @ + 1]
    BY DEF AllocProc, At, Runs
  <1>3. state[p] = "RUNNING"
    BY OnCpu DEF AllocProc, At, Runs
  <1>4. /\ pc \in [Slots -> Points] /\ ptr \in [Slots -> Ptr] /\ num \in [Slots -> Int]
        /\ state \in [Slots -> States] /\ active \in [Cids -> Nat]
    BY DEF IInv, TInv, TypeOK
  <1>5. p # q
    BY <1>1, <1>3
  \* Nobody is filling the slot.
  <1>6. \A r \in Slots : pc[r] \in ForkPoints => ptr[r] # q
    BY <1>1 DEF IInv, CInv, EmbryoOwned
  \* Its last user does not fork either.
  <1>7. \A r \in Slots : /\ r # p /\ r # q => pc'[r] = pc[r] /\ ptr'[r] = ptr[r] /\ num'[r] = num[r]
                         /\ r = p => pc'[r] = "fork1" /\ ptr'[r] = q /\ num'[r] = c
                         /\ r = q => pc'[r] = "user"
    BY <1>1, <1>2, <1>4, <1>5
  <1>8. pc[q] \notin ForkPoints
    BY <1>1 DEF KInv, ForkerRuns
  <1>9. ChildCid'
    BY <1>2, <1>7 DEF KInv, ChildCid
  <1>10. ASSUME NEW d \in Cids PROVE Charged(d)' = IF d = c THEN Charged(d) \cup {q} ELSE Charged(d)
    <2>1. \A r \in Slots : InUse(r)' <=> InUse(r)
      BY <1>1, <1>4 DEF InUse, Alive
    <2>2. \A r \in Slots : r \in Charged(d)' <=> r \in Charged(d) \/ (d = c /\ r = q)
      <3> HIDE DEF InUse
      <3>1. \A r \in Slots : r # p /\ r # q => (pc'[r] \in ForkPoints <=> pc[r] \in ForkPoints)
        BY <1>7
      <3>2. pc[p] \notin ForkPoints /\ pc'[p] \in ForkPoints /\ pc[q] \notin ForkPoints /\ pc'[q] \notin ForkPoints
        BY <1>2, <1>5, <1>7, <1>8 DEF ForkPoints
      <3> HIDE DEF ForkPoints
      <3> QED BY <1>2, <1>7, <2>1, <3>1, <3>2, InCharged, InChargedNext
    <2> QED BY <2>2 DEF Charged
  <1>11. q \notin Charged(c)
    BY <1>1, <1>6 DEF Charged, Alive, ForkPoints
  <1>12. ASSUME NEW d \in Cids PROVE Cardinality(Charged(d))' = active'[d]
    <2>1. CASE d = c
      <3>1. Cardinality(Charged(d) \cup {q}) = Cardinality(Charged(d)) + 1
        BY <1>11, <2>1, ChargedFinite, FS_AddElement
      <3>2. active'[d] = active[d] + 1
        BY <1>2, <1>4, <2>1, TypeFacts
      <3> QED BY <1>10, <2>1, <3>1, <3>2 DEF KInv, Charges
    <2>2. CASE d # c
      <3>1. active'[d] = active[d]
        BY <1>2, <1>4, <2>2
      <3> QED BY <1>10, <2>2, <3>1 DEF KInv, Charges
    <2> QED BY <2>1, <2>2
  <1>13. ForkerRuns'
    BY <1>1, <1>3, <1>4, <1>5, <1>7 DEF KInv, ForkerRuns, ForkPoints
  <1> QED BY <1>9, <1>12, <1>13 DEF KInv, Charges

\* The child that becomes RUNNABLE counts by its cid from then on.
LEMMA ForkRunnableKInv ==
  ASSUME IInv, KInv, NEW p \in Slots, ForkRunnable(p)
  PROVE  KInv'
  <1>1. /\ pc[p] = "fork3" /\ state' = [state EXCEPT ![ptr[p]] = "RUNNABLE"]
        /\ pc' = [pc EXCEPT ![p] = "user"] /\ ptr' = [ptr EXCEPT ![p] = NULL] /\ num' = [num EXCEPT ![p] = 0]
        /\ cid' = cid /\ active' = active
    BY DEF ForkRunnable, At, Runs, Return
  <1>2. /\ pc \in [Slots -> Points] /\ ptr \in [Slots -> Ptr] /\ num \in [Slots -> Int]
        /\ state \in [Slots -> States]
    BY DEF IInv, TInv, TypeOK
  <1>3. PICK np \in Slots : np = ptr[p] /\ state[np] = "EMBRYO" /\ cid[np] = num[p]
    BY <1>1 DEF IInv, TInv, LocalsOK, CInv, EmbryoOwned, ForkPoints, KInv, ChildCid
  <1>4. \A r \in Slots : pc[r] \in ForkPoints /\ ptr[r] = np => r = p
    BY <1>1, <1>3 DEF IInv, CInv, EmbryoOwned, ForkPoints
  <1>5. ChildCid'
    BY <1>1, <1>2 DEF KInv, ChildCid
  <1>6. ASSUME NEW c \in Cids PROVE Charged(c)' = Charged(c)
    <2>1. \A r \in Slots : InUse(r)' <=> InUse(r) \/ r = np
      BY <1>1, <1>2, <1>3 DEF InUse, Alive
    <2>2. ~InUse(np)
      BY <1>3 DEF InUse, Alive
    <2>3. \A r \in Slots : /\ pc'[r] \in ForkPoints <=> pc[r] \in ForkPoints /\ r # p
                           /\ r # p => ptr'[r] = ptr[r] /\ num'[r] = num[r]
      BY <1>1, <1>2 DEF ForkPoints
    <2>4. pc[p] \in ForkPoints
      BY <1>1 DEF ForkPoints
    <2>5. \A r \in Slots : r \in Charged(c)' <=> r \in Charged(c)
      <3> HIDE DEF InUse, ForkPoints
      <3> QED BY <1>1, <1>3, <1>4, <2>1, <2>2, <2>3, <2>4, InCharged, InChargedNext
    <2> QED BY <2>5 DEF Charged
  <1>7. ForkerRuns'
    BY <1>1, <1>2, <1>3 DEF KInv, ForkerRuns, ForkPoints
  <1> QED BY <1>1, <1>5, <1>6, <1>7 DEF KInv, Charges

\* fork2 gives the child its container.
LEMMA ForkCopyKInv ==
  ASSUME IInv, KInv, NEW p \in Slots, ForkCopy(p)
  PROVE  KInv'
  <1>1. /\ pc[p] = "fork1" /\ cid' = [cid EXCEPT ![ptr[p]] = num[p]] /\ pc' = [pc EXCEPT ![p] = "fork2"]
        /\ state' = state /\ active' = active /\ ptr' = ptr /\ num' = num
    BY DEF ForkCopy, At, Runs
  <1>2. /\ pc \in [Slots -> Points] /\ cid \in [Slots -> Cids \cup {0, NoCid}]
    BY DEF IInv, TInv, TypeOK
  <1>3. PICK np \in Slots : np = ptr[p] /\ state[np] = "EMBRYO"
    BY <1>1 DEF IInv, TInv, LocalsOK, CInv, EmbryoOwned, ForkPoints
  <1>4. \A r \in Slots : pc[r] \in ForkPoints /\ ptr[r] = np => r = p
    BY <1>1, <1>3 DEF IInv, CInv, EmbryoOwned, ForkPoints
  <1>5. ChildCid'
    BY <1>1, <1>2, <1>3, <1>4 DEF KInv, ChildCid, ForkPoints, IInv, TInv, LocalsOK
  <1>6. ASSUME NEW c \in Cids PROVE Charged(c)' = Charged(c)
    <2>1. \A r \in Slots : (InUse(r)' <=> InUse(r)) /\ (InUse(r) => cid'[r] = cid[r])
      BY <1>1, <1>2, <1>3 DEF InUse, Alive
    <2>2. \A r \in Slots : pc'[r] \in ForkPoints <=> pc[r] \in ForkPoints
      BY <1>1, <1>2 DEF ForkPoints
    <2>3. \A r \in Slots : r \in Charged(c)' <=> r \in Charged(c)
      <3> HIDE DEF InUse, ForkPoints
      <3> QED BY <1>1, <2>1, <2>2, InCharged, InChargedNext
    <2> QED BY <2>3 DEF Charged
  <1>7. ForkerRuns'
    BY <1>1, <1>2 DEF KInv, ForkerRuns, ForkPoints
  <1> QED BY <1>1, <1>5, <1>6, <1>7 DEF KInv, Charges

\* The run queue takes the child.
LEMMA ForkEnqueueKInv ==
  ASSUME IInv, KInv, NEW p \in Slots, ForkEnqueue(p)
  PROVE  KInv'
  <1>1. /\ pc[p] = "fork2" /\ pc' = [pc EXCEPT ![p] = "fork3"]
        /\ state' = state /\ active' = active /\ ptr' = ptr /\ num' = num /\ cid' = cid
    BY DEF ForkEnqueue, At, Runs, procVars
  <1>2. pc \in [Slots -> Points]
    BY DEF IInv, TInv, TypeOK
  <1>3. ChildCid' /\ ForkerRuns'
    BY <1>1, <1>2 DEF KInv, ChildCid, ForkerRuns, ForkPoints
  <1>4. ASSUME NEW c \in Cids PROVE Charged(c)' = Charged(c)
    <2>1. \A r \in Slots : pc'[r] \in ForkPoints <=> pc[r] \in ForkPoints
      BY <1>1, <1>2 DEF ForkPoints
    <2>2. \A r \in Slots : InUse(r)' <=> InUse(r)
      BY <1>1 DEF InUse, Alive
    <2>3. \A r \in Slots : r \in Charged(c)' <=> r \in Charged(c)
      <3> HIDE DEF InUse, ForkPoints
      <3> QED BY <1>1, <2>1, <2>2, InCharged, InChargedNext
    <2> QED BY <2>3 DEF Charged
  <1> QED BY <1>1, <1>3, <1>4 DEF KInv, Charges

\* wait takes the charge of the child it reaps back.
LEMMA ReapKInv ==
  ASSUME IInv, KInv, NEW p \in Slots, WaitReaps(p)
  PROVE  KInv'
  <1>1. PICK q \in Slots : /\ state[q] = "ZOMBIE" /\ state' = [state EXCEPT ![q] = "UNUSED"]
                           /\ active' = Uncount(q) /\ cid' = cid
                           /\ pc' = [pc EXCEPT ![p] = "user"] /\ ptr' = [ptr EXCEPT ![p] = NULL]
                           /\ num' = [num EXCEPT ![p] = 0]
    BY DEF WaitReaps, FirstZombie, Zombies, Children, Return
  <1>2. pc[p] \in {"sys", "wait"}
    BY DEF WaitReaps, Waits
  <1>3. /\ pc \in [Slots -> Points] /\ ptr \in [Slots -> Ptr] /\ num \in [Slots -> Int]
        /\ state \in [Slots -> States] /\ active \in [Cids -> Nat]
    BY DEF IInv, TInv, TypeOK
  <1>4. /\ \A r \in Slots : pc'[r] \in ForkPoints <=> pc[r] \in ForkPoints
        /\ \A r \in Slots : pc[r] \in ForkPoints => pc'[r] = pc[r] /\ ptr'[r] = ptr[r] /\ num'[r] = num[r]
    BY <1>1, <1>2, <1>3 DEF ForkPoints
  <1>5. ChildCid'
    BY <1>1, <1>4 DEF KInv, ChildCid, ForkPoints
  <1>6. \A r \in Slots : InUse(r)' <=> InUse(r) /\ r # q
    BY <1>1, <1>3 DEF InUse, Alive
  <1>7. InUse(q) /\ \A r \in Slots : pc[r] \in ForkPoints => ptr[r] # q
    BY <1>1 DEF InUse, IInv, CInv, EmbryoOwned
  <1>8. ASSUME NEW c \in Cids PROVE Charged(c)' = Charged(c) \ {q} /\ (q \in Charged(c) <=> cid[q] = c)
    <2> HIDE DEF InUse, ForkPoints
    <2>1. q \in Charged(c) <=> cid[q] = c
      BY <1>7, InCharged
    <2>2. \A r \in Slots : r \in Charged(c)' <=> r \in Charged(c) /\ r # q
      BY <1>1, <1>4, <1>6, <1>7, InCharged, InChargedNext
    <2> QED BY <2>1, <2>2 DEF Charged
  <1>9. ASSUME NEW c \in Cids PROVE Cardinality(Charged(c))' = active'[c]
    <2>1. CASE cid[q] = c
      <3>1. q \in Charged(c)
        BY <1>8, <2>1
      <3>2. Cardinality(Charged(c) \ {q}) = Cardinality(Charged(c)) - 1
        BY <3>1, ChargedFinite, FS_RemoveElement
      <3>3. active[c] > 0
        <4>1. Charged(c) # {} /\ IsFiniteSet(Charged(c))
          BY <3>1, ChargedFinite
        <4>2. Cardinality(Charged(c)) # 0
          BY <4>1, FS_EmptySet
        <4> QED BY <1>3, <4>2 DEF KInv, Charges
      <3>4. active'[c] = active[c] - 1
        BY <1>1, <1>3, <2>1, <3>3, TypeFacts DEF Uncount
      <3> QED BY <1>8, <3>2, <3>4 DEF KInv, Charges
    <2>2. CASE cid[q] # c
      <3>1. Charged(c)' = Charged(c)
        BY <1>8, <2>2
      <3>2. active'[c] = active[c]
        BY <1>1, <1>3, <2>2 DEF Uncount
      <3> QED BY <3>1, <3>2 DEF KInv, Charges
    <2> QED BY <2>1, <2>2
  <1>10. ForkerRuns'
    BY <1>1, <1>3, <1>4 DEF KInv, ForkerRuns
  <1> QED BY <1>5, <1>9, <1>10 DEF KInv, Charges

\* Every step preserves it; only allocproc, the end of fork2 and wait change a charge.
LEMMA NextKInv ==
  ASSUME "oom" \notin Workload, IInv, KInv, [Next]_vars
  PROVE  KInv'
  <1> USE TypeFacts, OnCpu DEF procVars, queueVars, lockVars, local
  <1> USE DEF Quiet, InUse, Alive, ForkPoints, KInv, ForkerRuns, IInv, TInv, TypeOK
  <1>1. CASE UNCHANGED vars
    <2>1. Quiet
      BY <1>1 DEF vars
    <2> QED BY <2>1, QuietKInv
  <1>2. ASSUME NEW c \in CPUs, Schedule(c) PROVE Quiet
    BY <1>2 DEF Schedule, Runnable
  <1>3. ASSUME NEW c \in CPUs, ScheduleLoops(c) PROVE Quiet
    BY <1>3 DEF ScheduleLoops
  <1>4. ASSUME NEW p \in Slots, Resume(p) PROVE Quiet
    BY <1>4 DEF Resume
  <1>5. ASSUME NEW p \in Slots, Yield(p) PROVE Quiet
    BY <1>5 DEF Yield, SwitchAway
  <1>6. ASSUME Tick PROVE Quiet
    BY <1>6 DEF Tick, Wakeup1
  <1>7. ASSUME NEW p \in Slots, Trap(p) PROVE Quiet
    BY <1>7 DEF Trap, At, Runs
  <1>8. ASSUME NEW p \in Slots, OtherCall(p) PROVE Quiet
    BY <1>8 DEF OtherCall, At, Runs, Return
  <1>9. ASSUME NEW p \in Slots, Fault(p) PROVE Quiet
    BY <1>9 DEF Fault, At, Runs
  <1>10. ASSUME NEW p \in Slots, NEW c \in Cids \cup {NoCid}, AllocProc(p, c) PROVE KInv'
    BY <1>10, AllocKInv
  <1>11. ASSUME NEW p \in Slots, NEW c \in Cids \cup {NoCid}, ForkRefused(p, c) PROVE Quiet
    BY <1>11 DEF ForkRefused, At, Runs, Return
  <1>12. ~\E p \in Slots : ForkFails(p)
    BY DEF ForkFails
  <1>13. ASSUME NEW p \in Slots, ForkCopy(p) PROVE KInv'
    BY <1>13, ForkCopyKInv
  <1>14. ASSUME NEW p \in Slots, ForkEnqueue(p) PROVE KInv'
    BY <1>14, ForkEnqueueKInv
  <1>15. ASSUME NEW p \in Slots, ForkRunnable(p) PROVE KInv'
    BY <1>15, ForkRunnableKInv
  <1>16. ASSUME NEW p \in Slots, Exit(p) PROVE Quiet
    <2>1. state[p] = "RUNNING" /\ pc[p] \in {"sys", "user"}
      BY <1>16 DEF Exit, Exiting, At, Runs
    <2>2. /\ state' = [ExitWakes(p) EXCEPT ![p] = "ZOMBIE"] /\ UNCHANGED <<active, cid, pc, ptr, num>>
      BY <1>16 DEF Exit
    <2>3. ExitWakes(p) \in [Slots -> States] /\ \A q \in Slots : ExitWakes(p)[q] = state[q] \/ (state[q] = "SLEEPING" /\ ExitWakes(p)[q] = "RUNNABLE")
      BY DEF ExitWakes, Wakeup1, States
    <2> QED BY <2>1, <2>2, <2>3
  <1>17. ASSUME NEW p \in Slots, ExitReleasesMutex(p) PROVE Quiet
    <2>1. state[p] = "RUNNING" /\ pc[p] \in {"sys", "user"}
      BY <1>17 DEF ExitReleasesMutex, Exiting, At, Runs
    <2>2. /\ state' = ExitWakes(p) /\ pc' = [pc EXCEPT ![p] = "exit2"] /\ UNCHANGED <<active, cid, ptr, num>>
      BY <1>17 DEF ExitReleasesMutex
    <2>3. \A q \in Slots : ExitWakes(p)[q] = state[q] \/ (state[q] = "SLEEPING" /\ ExitWakes(p)[q] = "RUNNABLE")
      BY DEF ExitWakes, Wakeup1
    <2> QED BY <2>1, <2>2, <2>3
  <1>18. ASSUME NEW p \in Slots, ExitFinish(p) PROVE Quiet
    <2>1. state[p] = "RUNNING" /\ pc[p] = "exit2"
      BY <1>18 DEF ExitFinish, At, Runs
    <2> QED BY <1>18, <2>1 DEF ExitFinish
  <1>19. ASSUME NEW p \in Slots, ExitLoops(p) PROVE Quiet
    <2>2. /\ state' = ExitWakes(p) /\ UNCHANGED <<active, cid, pc, ptr, num>>
      BY <1>19 DEF ExitLoops
    <2>3. \A q \in Slots : ExitWakes(p)[q] = state[q] \/ (state[q] = "SLEEPING" /\ ExitWakes(p)[q] = "RUNNABLE")
      BY DEF ExitWakes, Wakeup1
    <2> QED BY <2>2, <2>3
  <1>20. ASSUME NEW p \in Slots, WaitReaps(p) PROVE KInv'
    BY <1>20, ReapKInv
  <1>21. ASSUME NEW p \in Slots, WaitReturns(p) PROVE Quiet
    BY <1>21 DEF WaitReturns, Waits, Return
  <1>22. ASSUME NEW p \in Slots, WaitSleeps(p) PROVE Quiet
    <2>1. state[p] = "RUNNING" /\ pc[p] \in {"sys", "wait"}
      BY <1>22 DEF WaitSleeps, Waits
    <2> QED BY <1>22, <2>1 DEF WaitSleeps
  <1>23. ASSUME NEW p \in Slots, NEW k \in 0..MAXPID, Kill(p, k) PROVE Quiet
    BY <1>23 DEF Kill, At, Runs, FirstWithPid, Return
  <1>24. ASSUME NEW p \in Slots, Sleep(p) PROVE Quiet
    <2>1. state[p] = "RUNNING" /\ pc[p] = "sys"
      BY <1>24 DEF Sleep, At, Runs
    <2> QED BY <1>24, <2>1 DEF Sleep
  <1>25. ASSUME NEW p \in Slots, NEW k \in 0..MAXPID, PrioSet(p, k) PROVE Quiet
    BY <1>25 DEF PrioSet, At, Runs
  <1>26. ASSUME NEW p \in Slots, PrioRemove(p) PROVE Quiet
    BY <1>26 DEF PrioRemove, At, Runs
  <1>27. ASSUME NEW p \in Slots, PrioRemoveLoops(p) PROVE Quiet
    BY <1>27 DEF PrioRemoveLoops, At, Runs
  <1>28. ASSUME NEW p \in Slots, PrioAssign(p) PROVE Quiet
    BY <1>28 DEF PrioAssign, At, Runs
  <1>29. ASSUME NEW p \in Slots, PrioEnqueue(p) PROVE Quiet
    BY <1>29 DEF PrioEnqueue, At, Runs, Return
  <1> HIDE DEF Quiet, InUse, Alive, ForkPoints, KInv, ForkerRuns, IInv, TInv, TypeOK
  <1>30. Quiet => KInv'
    BY QuietKInv
  <1>31. ASSUME NEW c \in CPUs, Schedule(c) \/ ScheduleLoops(c) PROVE KInv'
    BY <1>2, <1>3, <1>30, <1>31
  <1>32. ASSUME NEW p \in Slots, Resume(p) \/ Yield(p) \/ Trap(p) \/ Fault(p) \/ OtherCall(p) \/ Sleep(p)
         PROVE  KInv'
    BY <1>4, <1>5, <1>7, <1>8, <1>9, <1>24, <1>30, <1>32
  <1>33. ASSUME NEW p \in Slots, Fork(p) \/ ForkRest(p) PROVE KInv'
    BY <1>10, <1>11, <1>12, <1>13, <1>14, <1>15, <1>30, <1>33 DEF Fork, ForkRest
  <1>34. ASSUME NEW p \in Slots, Exits(p) \/ Wait(p) PROVE KInv'
    BY <1>16, <1>17, <1>18, <1>19, <1>20, <1>21, <1>22, <1>30, <1>34 DEF Exits, Wait
  <1>35. ASSUME NEW p \in Slots, Kills(p) \/ PrioSets(p) \/ PrioRest(p) PROVE KInv'
    BY <1>23, <1>25, <1>26, <1>27, <1>28, <1>29, <1>30, <1>35 DEF Kills, PrioSets, PrioRest
  <1>36. CASE Tick
    BY <1>6, <1>30, <1>36
  <1> QED BY <1>1, <1>31, <1>32, <1>33, <1>34, <1>35, <1>36 DEF Next, Syscall

\* setnextproc/wait: unless a fork runs out of memory, active_processes of every container
\* is the number of its processes, those half-way through fork2 and the zombies included,
\* on any number of CPUs.
THEOREM ChargesExact == Spec => []CountsExact
  <1>1. CASE "oom" \in Workload
    <2>1. CountsExact
      BY <1>1 DEF CountsExact
    <2> QED BY <2>1, PTL
  <1>2. CASE "oom" \notin Workload
    <2>1. IInv /\ KInv /\ [Next]_vars => KInv'
      BY <1>2, NextKInv
    <2>2. KInv => CountsExact
      BY DEF KInv, Charges, CountsExact
    <2> QED BY <2>1, <2>2, InitKInv, Invariance, PTL DEF Spec
  <1> QED BY <1>1, <1>2

-----------------------------------------------------------------------------
(* The pointers of the run queue and the lists they stand for *)

\* The values of the pointers.
LEMMA QueueConstants == NPROC \in Nat /\ NULL \notin Slots /\ NULL \in Ptr /\ Slots \subseteq Ptr /\ Slots \subseteq Nat
  BY SizesAssumption DEF NULL, Slots, Ptr

Pointers(L) == L.queue \in [Buckets -> Ptr] /\ L.next \in [Slots -> Ptr]

\* Bucket b of L is the list s.
IsList(L, b, s) ==
  /\ s \in Seq(Slots)
  /\ \A i, j \in 1..Len(s) : s[i] = s[j] => i = j
  /\ L.queue[b] = IF Len(s) = 0 THEN NULL ELSE s[1]
  /\ \A i \in 1..Len(s) : L.next[s[i]] = IF i = Len(s) THEN NULL ELSE s[i + 1]

Lists(L) == \A b \in Buckets : \E s : IsList(L, b, s)

\* A list has no more nodes than there are slots.
LEMMA ListLength ==
  ASSUME NEW L, NEW b, NEW s, IsList(L, b, s)
  PROVE  Len(s) \in 0..NPROC
  <1>1. s \in [1..Len(s) -> Slots] /\ Len(s) \in Nat
    BY LenProperties DEF IsList
  <1>2. s \in Injection(1..Len(s), Slots)
    BY <1>1 DEF IsList, Injection, IsInjective
  <1>3. IsFiniteSet(Slots) /\ Cardinality(Slots) = NPROC
    BY QueueConstants, SizesAssumption, FS_Interval DEF Slots
  <1>4. Cardinality(1..Len(s)) <= NPROC
    BY <1>2, <1>3, FS_Injection
  <1>5. Cardinality(1..Len(s)) = Len(s)
    <2>0. Len(s) \in Nat
      BY <1>1
    <2>1. PICK m \in Nat : m = Len(s)
      BY <2>0
    <2>2. Cardinality(1..m) = IF 1 > m THEN 0 ELSE m - 1 + 1
      BY FS_Interval
    <2> QED BY <2>1, <2>2
  <1> QED BY <1>1, <1>4, <1>5

Less == {ss \in Nat \X Nat : ss[1] < ss[2]}

\* A non-empty set of numbers has a least one.
LEMMA Least ==
  ASSUME NEW S \in SUBSET Nat, S # {}
  PROVE  \E x \in S : \A y \in S : x <= y
  <1>1. IsWellFoundedOn(Less, Nat)
    BY NatLessThanWellFounded DEF OpToRel, Less
  <1>2. PICK x \in S : \A y \in S : ~(<<y, x>> \in Less)
    BY <1>1, WFMin
  <1>3. ASSUME NEW y \in S PROVE x <= y
    <2>1. ~(<<y, x>> \in Less)
      BY <1>2
    <2>2. x \in Nat /\ y \in Nat
      OBVIOUS
    <2>3. ~(y < x)
      BY <2>1, <2>2 DEF Less
    <2> QED BY <2>2, <2>3
  <1> QED BY <1>3

\* The walk along a list meets its nodes in order, and then NULL.
LEMMA ListWalk ==
  ASSUME NEW L, NEW b, NEW s, IsList(L, b, s), NEW k \in 0..NPROC
  PROVE  Walk(L, b)[k] = IF k < Len(s) THEN s[k + 1] ELSE NULL
  <1> DEFINE g == [i \in 0..NPROC |-> IF i < Len(s) THEN s[i + 1] ELSE NULL]
  <1> DEFINE Step(w, i) == IF i = 0 THEN L.queue[b]
                           ELSE LET p == w[i - 1] IN IF p = NULL THEN NULL ELSE L.next[p]
  <1>1. Len(s) \in 0..NPROC /\ NPROC \in Nat /\ \A i \in 1..Len(s) : s[i] \in Slots
    BY ListLength, QueueConstants, ElementOfSeq DEF IsList
  <1>2. ASSUME NEW i \in 0..NPROC PROVE g[i] = Step(g, i)
    <2>1. CASE i = 0
      BY <1>1, <2>1 DEF IsList
    <2>2. CASE i > 0 /\ i < Len(s)
      <3>1. i - 1 \in 0..NPROC /\ i - 1 < Len(s) /\ i \in 1..Len(s) /\ (i - 1) + 1 = i
        BY <1>1, <2>2
      <3>2. g[i - 1] = s[i] /\ g[i] = s[i + 1]
        BY <2>2, <3>1
      <3>3. s[i] # NULL
        BY <1>1, <3>1, QueueConstants
      <3>4. L.next[s[i]] = s[i + 1]
        BY <2>2, <3>1 DEF IsList
      <3> QED BY <2>2, <3>2, <3>3, <3>4
    <2>3. CASE i > 0 /\ i = Len(s)
      <3>1. i - 1 \in 0..NPROC /\ i - 1 < Len(s) /\ i \in 1..Len(s) /\ (i - 1) + 1 = i
        BY <1>1, <2>3
      <3>2. g[i - 1] = s[i] /\ g[i] = NULL
        BY <2>3, <3>1
      <3>3. s[i] # NULL
        BY <1>1, <3>1, QueueConstants
      <3>4. L.next[s[i]] = NULL
        BY <2>3, <3>1 DEF IsList
      <3> QED BY <2>3, <3>2, <3>3, <3>4
    <2>4. CASE i > Len(s)
      <3>1. i - 1 \in 0..NPROC /\ ~(i - 1 < Len(s)) /\ ~(i < Len(s)) /\ i # 0
        BY <1>1, <2>4
      <3>2. g[i - 1] = NULL /\ g[i] = NULL
        BY <3>1
      <3> QED BY <3>1, <3>2
    <2> QED BY <1>1, <2>1, <2>2, <2>3, <2>4
  <1>3. g = [i \in 0..NPROC |-> Step(g, i)]
    BY <1>2
  <1> HIDE DEF g
  <1>4. Walk(L, b) = CHOOSE w : w = [i \in 0..NPROC |-> Step(w, i)]
    BY DEF Walk
  <1>5. PICK w : w = Walk(L, b)
    OBVIOUS
  <1>6. w = [i \in 0..NPROC |-> Step(w, i)]
    <2> HIDE DEF Step
    <2>1. \E f : f = [i \in 0..NPROC |-> Step(f, i)]
      BY <1>3
    <2> QED BY <1>4, <1>5, <2>1, Zenon
  <1>7. {i \in 0..NPROC : w[i] # g[i]} = {}
    <2>1. SUFFICES ASSUME {i \in 0..NPROC : w[i] # g[i]} # {} PROVE FALSE
      OBVIOUS
    <2>2. PICK m \in 0..NPROC : w[m] # g[m] /\ \A i \in 0..NPROC : w[i] # g[i] => m <= i
      <3>1. {i \in 0..NPROC : w[i] # g[i]} \in SUBSET Nat
        BY <1>1
      <3> QED BY <2>1, <3>1, Least
    <2>3. w[m] = Step(w, m) /\ g[m] = Step(g, m)
      BY <1>2, <1>6
    <2>4. m # 0
      BY <2>2, <2>3
    <2>5. m - 1 \in 0..NPROC /\ ~(m <= m - 1)
      BY <1>1, <2>4
    <2>6. w[m - 1] = g[m - 1]
      BY <2>2, <2>5
    <2> QED BY <2>2, <2>3, <2>4, <2>6
  <1>8. w[k] = g[k]
    BY <1>7
  <1> QED BY <1>5, <1>8 DEF g

\* What a bucket holds, and where.
LEMMA ListBucket ==
  ASSUME NEW L, NEW b, NEW s, IsList(L, b, s)
  PROVE  /\ Bucket(L, b) = {s[i] : i \in 1..Len(s)}
         /\ ~Endless(L, b) /\ Bucket(L, b) \subseteq Slots
         /\ \A i \in 0..(Len(s) - 1) : Walk(L, b)[i] = s[i + 1]
  <1>1. Len(s) \in 0..NPROC /\ NPROC \in Nat /\ \A i \in 1..Len(s) : s[i] \in Slots
    BY ListLength, QueueConstants, ElementOfSeq DEF IsList
  <1>2. \A k \in 0..NPROC : Walk(L, b)[k] = IF k < Len(s) THEN s[k + 1] ELSE NULL
    BY ListWalk
  <1>3. ~Endless(L, b)
    BY <1>1, <1>2 DEF Endless
  <1>4. \A i \in 0..(Len(s) - 1) : Walk(L, b)[i] = s[i + 1]
    BY <1>1, <1>2
  <1>5. ASSUME NEW p \in Bucket(L, b) PROVE p \in {s[i] : i \in 1..Len(s)}
    <2>1. PICK k \in 0..NPROC : p = Walk(L, b)[k] /\ p # NULL
      BY DEF Bucket
    <2>2. k < Len(s) /\ p = s[k + 1]
      BY <1>2, <2>1
    <2>3. k + 1 \in 1..Len(s)
      BY <1>1, <2>2
    <2> QED BY <2>2, <2>3
  <1>6. ASSUME NEW i \in 1..Len(s) PROVE s[i] \in Bucket(L, b)
    <2>1. i - 1 \in 0..NPROC /\ i - 1 < Len(s) /\ (i - 1) + 1 = i
      BY <1>1
    <2>2. Walk(L, b)[i - 1] = s[i]
      BY <1>2, <2>1
    <2>3. s[i] # NULL
      BY <1>1, QueueConstants
    <2> QED BY <2>1, <2>2, <2>3 DEF Bucket
  <1>7. Bucket(L, b) = {s[i] : i \in 1..Len(s)}
    BY <1>5, <1>6
  <1> QED BY <1>1, <1>3, <1>4, <1>7

\* The first node of a set that meets the list in one node only.
LEMMA ListFirst ==
  ASSUME NEW L, NEW b, NEW s, IsList(L, b, s), NEW k \in 1..Len(s), NEW S,
         \A i \in 1..Len(s) : s[i] \in S <=> i = k, NULL \notin S
  PROVE  FirstAt(L, b, S) = k - 1
  <1>1. Len(s) \in 0..NPROC /\ NPROC \in Nat
    BY ListLength, QueueConstants
  <1>2. \A i \in 0..NPROC : Walk(L, b)[i] = IF i < Len(s) THEN s[i + 1] ELSE NULL
    BY ListWalk
  <1>3. ASSUME NEW i \in 0..NPROC PROVE Walk(L, b)[i] \in S <=> i = k - 1
    <2>1. CASE i < Len(s)
      <3>1. i + 1 \in 1..Len(s) /\ (i + 1 = k <=> i = k - 1)
        BY <1>1, <2>1
      <3> QED BY <1>2, <2>1, <3>1
    <2>2. CASE ~(i < Len(s))
      BY <1>1, <1>2, <2>2
    <2> QED BY <2>1, <2>2
  <1>4. k - 1 \in 0..NPROC /\ \A j \in 0..((k - 1) - 1) : j \in 0..NPROC /\ j # k - 1
    BY <1>1
  <1>5. /\ Walk(L, b)[k - 1] \in S
        /\ \A j \in 0..((k - 1) - 1) : Walk(L, b)[j] \notin S
    BY <1>3, <1>4
  <1>6. \A i \in 0..NPROC : Walk(L, b)[i] \in S /\ (\A j \in 0..(i - 1) : Walk(L, b)[j] \notin S) => i = k - 1
    BY <1>3
  <1> QED BY <1>4, <1>5, <1>6 DEF FirstAt

\* The last node.
LEMMA ListLast ==
  ASSUME NEW L, NEW b, NEW s, IsList(L, b, s), Len(s) > 0
  PROVE  LastOf(L, b) = s[Len(s)]
  <1>1. Len(s) \in 0..NPROC /\ NPROC \in Nat /\ \A i \in 1..Len(s) : s[i] \in Slots
    BY ListLength, QueueConstants, ElementOfSeq DEF IsList
  <1>2. Bucket(L, b) = {s[i] : i \in 1..Len(s)}
    BY ListBucket
  <1>3. s[Len(s)] \in Bucket(L, b) /\ L.next[s[Len(s)]] = NULL
    BY <1>1, <1>2 DEF IsList
  <1>4. ASSUME NEW p \in Bucket(L, b), L.next[p] = NULL PROVE p = s[Len(s)]
    <2>1. PICK i \in 1..Len(s) : p = s[i]
      BY <1>2
    <2>2. i # Len(s) => i + 1 \in 1..Len(s) /\ s[i + 1] # NULL
      BY <1>1, QueueConstants
    <2> QED BY <1>4, <2>1, <2>2 DEF IsList
  <1> QED BY <1>3, <1>4 DEF LastOf


-----------------------------------------------------------------------------
(* What remove_node, pq1_enqueue and pq1_dequeue do to the lists *)

\* M is L but for bucket b, the nodes of S in it and p.
OnlyHere(L, M, b, S, p) ==
  /\ Pointers(M)
  /\ \A a \in Buckets \ {b} : M.queue[a] = L.queue[a]
  /\ \A q \in Slots \ (S \cup {p}) : M.next[q] = L.next[q]

\* A bucket whose head and nodes are left alone keeps its list.
LEMMA KeepList ==
  ASSUME NEW L, NEW M, NEW a, NEW s, IsList(L, a, s), M.queue[a] = L.queue[a],
         \A q \in Bucket(L, a) : M.next[q] = L.next[q]
  PROVE  IsList(M, a, s)
  <1>1. \A i \in 1..Len(s) : M.next[s[i]] = L.next[s[i]]
    BY ListBucket
  <1> QED BY <1>1 DEF IsList

\* s without its k-th element.
Cut(s, k) == SubSeq(s, 1, k - 1) \o SubSeq(s, k + 1, Len(s))

\* What Cut leaves, and where.
LEMMA CutSeq ==
  ASSUME NEW S, NEW s \in Seq(S), NEW k \in 1..Len(s)
  PROVE  /\ Cut(s, k) \in Seq(S) /\ Len(Cut(s, k)) = Len(s) - 1
         /\ \A i \in 1..(Len(s) - 1) : Cut(s, k)[i] = IF i < k THEN s[i] ELSE s[i + 1]
  <1>1. PICK n \in Nat : n = Len(s) /\ k \in 1..n
    BY LenProperties
  <1>2. \A i \in 1..n : s[i] \in S
    BY <1>1, ElementOfSeq
  <1>3. PICK l : l = SubSeq(s, 1, k - 1)
    OBVIOUS
  <1>4. PICK r : r = SubSeq(s, k + 1, n)
    OBVIOUS
  <1>5. /\ l \in Seq(S) /\ Len(l) = k - 1 /\ \A i \in 1..(k - 1) : l[i] = s[i]
    <2>1. 1 \in Int /\ k - 1 \in Int /\ \A i \in 1..(k - 1) : s[i] \in S
      BY <1>1, <1>2
    <2>2. /\ l \in Seq(S) /\ Len(l) = (IF 1 <= k - 1 THEN (k - 1) - 1 + 1 ELSE 0)
          /\ \A i \in 1..((k - 1) - 1 + 1) : l[i] = s[1 + i - 1]
      BY <1>3, <2>1, SubSeqProperties
    <2>3. (k - 1) - 1 + 1 = k - 1 /\ \A i \in 1..(k - 1) : 1 + i - 1 = i
      BY <1>1
    <2> QED BY <1>1, <2>2, <2>3
  <1>6. /\ r \in Seq(S) /\ Len(r) = n - k /\ \A i \in 1..(n - k) : r[i] = s[k + i]
    <2>1. k + 1 \in Int /\ n \in Int /\ \A i \in (k + 1)..n : s[i] \in S
      BY <1>1, <1>2
    <2>2. /\ r \in Seq(S) /\ Len(r) = (IF k + 1 <= n THEN n - (k + 1) + 1 ELSE 0)
          /\ \A i \in 1..(n - (k + 1) + 1) : r[i] = s[(k + 1) + i - 1]
      BY <1>4, <2>1, SubSeqProperties
    <2>3. n - (k + 1) + 1 = n - k /\ \A i \in 1..(n - k) : (k + 1) + i - 1 = k + i
      BY <1>1
    <2> QED BY <1>1, <2>2, <2>3
  <1>7. Cut(s, k) = l \o r
    BY <1>1, <1>3, <1>4 DEF Cut
  <1>8. /\ l \o r \in Seq(S) /\ Len(l \o r) = Len(l) + Len(r)
        /\ \A i \in 1..(Len(l) + Len(r)) : (l \o r)[i] = IF i <= Len(l) THEN l[i] ELSE r[i - Len(l)]
    BY <1>5, <1>6, ConcatProperties
  <1>9. Len(l) + Len(r) = n - 1
    BY <1>1, <1>5, <1>6
  <1>10. ASSUME NEW i \in 1..(n - 1) PROVE (l \o r)[i] = IF i < k THEN s[i] ELSE s[i + 1]
    <2>1. CASE i < k
      <3>1. i <= Len(l) /\ i \in 1..(k - 1)
        BY <1>1, <1>5, <2>1
      <3> QED BY <1>5, <1>8, <1>9, <2>1, <3>1
    <2>2. CASE ~(i < k)
      <3>1. ~(i <= Len(l)) /\ i - Len(l) \in 1..(n - k) /\ k + (i - Len(l)) = i + 1
        BY <1>1, <1>5, <2>2
      <3> QED BY <1>6, <1>8, <1>9, <2>2, <3>1
    <2> QED BY <2>1, <2>2
  <1> QED BY <1>1, <1>7, <1>8, <1>9, <1>10

\* Unlinking the k-th node of a bucket cuts it out of the list.
LEMMA UnlinkList ==
  ASSUME NEW L, Pointers(L), NEW b \in Buckets, NEW s, IsList(L, b, s), NEW k \in 1..Len(s),
         NEW U, U = UnlinkAt(L, b, k - 1)
  PROVE  /\ IsList(U, b, Cut(s, k)) /\ OnlyHere(L, U, b, Bucket(L, b), s[k])
         /\ s[k] \notin Bucket(U, b)
  <1>1. PICK n \in 0..NPROC : n = Len(s) /\ k \in 1..n /\ NPROC \in Nat
    BY ListLength, QueueConstants
  <1>2. /\ s \in Seq(Slots) /\ L.queue[b] = (IF n = 0 THEN NULL ELSE s[1])
        /\ \A i, j \in 1..n : s[i] = s[j] => i = j
        /\ \A i \in 1..n : L.next[s[i]] = IF i = n THEN NULL ELSE s[i + 1]
    BY <1>1 DEF IsList
  <1>3. \A i \in 1..n : s[i] \in Slots
    BY <1>1, <1>2, ElementOfSeq
  <1>4. PICK t : /\ t = Cut(s, k) /\ t \in Seq(Slots) /\ Len(t) = n - 1
                 /\ \A i \in 1..(n - 1) : t[i] = IF i < k THEN s[i] ELSE s[i + 1]
    BY <1>1, <1>2, CutSeq
  <1>5. Walk(L, b)[k - 1] = s[k] /\ (k > 1 => Walk(L, b)[(k - 1) - 1] = s[k - 1])
    <2>1. \A i \in 0..(n - 1) : Walk(L, b)[i] = s[i + 1]
      BY <1>1, ListBucket
    <2>2. k - 1 \in 0..(n - 1) /\ (k - 1) + 1 = k
      BY <1>1
    <2>3. k > 1 => (k - 1) - 1 \in 0..(n - 1) /\ ((k - 1) - 1) + 1 = k - 1
      BY <1>1
    <2> QED BY <2>1, <2>2, <2>3
  <1>6. \A i, j \in 1..(n - 1) : t[i] = t[j] => i = j
    <2>1. ASSUME NEW i \in 1..(n - 1), NEW j \in 1..(n - 1), t[i] = t[j] PROVE i = j
      <3>1. PICK x, y \in 1..n : /\ x = (IF i < k THEN i ELSE i + 1) /\ y = (IF j < k THEN j ELSE j + 1)
                                 /\ t[i] = s[x] /\ t[j] = s[y]
        BY <1>1, <1>4
      <3>2. x = y
        BY <1>2, <2>1, <3>1
      <3> QED BY <1>1, <3>1, <3>2
    <2> QED BY <2>1
  <1>7. \A i \in 1..(n - 1) : t[i] # s[k]
    <2>1. ASSUME NEW i \in 1..(n - 1) PROVE t[i] # s[k]
      <3>1. PICK x \in 1..n : x = (IF i < k THEN i ELSE i + 1) /\ t[i] = s[x]
        BY <1>1, <1>4
      <3>2. x # k
        BY <1>1, <3>1
      <3> QED BY <1>1, <1>2, <3>1, <3>2
    <2> QED BY <2>1
  <1>8. Bucket(L, b) = {s[i] : i \in 1..n}
    BY <1>1, ListBucket
  <1>9. CASE k = 1
    <2>1. U = [queue |-> [L.queue EXCEPT ![b] = L.next[s[1]]], next |-> L.next]
      BY <1>5, <1>9 DEF UnlinkAt
    <2>2. U.queue[b] = L.next[s[1]] /\ U.next = L.next /\ U.queue \in [Buckets -> Ptr]
          /\ \A a \in Buckets \ {b} : U.queue[a] = L.queue[a]
      BY <1>1, <1>3, <2>1 DEF Pointers
    <2>3. U.queue[b] = IF n - 1 = 0 THEN NULL ELSE t[1]
      <3>1. n # 1 => 1 \in 1..(n - 1) /\ t[1] = s[2]
        BY <1>1, <1>4, <1>9
      <3> QED BY <1>1, <1>2, <1>9, <2>2, <3>1
    <2>4. ASSUME NEW i \in 1..(n - 1) PROVE U.next[t[i]] = IF i = n - 1 THEN NULL ELSE t[i + 1]
      <3>1. i + 1 \in 1..n /\ t[i] = s[i + 1] /\ (i + 1 = n <=> i = n - 1)
        BY <1>1, <1>4, <1>9
      <3>2. i # n - 1 => i + 1 \in 1..(n - 1) /\ t[i + 1] = s[(i + 1) + 1]
        BY <1>1, <1>4, <1>9
      <3> QED BY <1>2, <2>2, <3>1, <3>2
    <2>5. IsList(U, b, t)
      BY <1>4, <1>6, <2>3, <2>4 DEF IsList
    <2>6. OnlyHere(L, U, b, Bucket(L, b), s[k])
      BY <2>2 DEF OnlyHere, Pointers
    <2>7. s[k] \notin Bucket(U, b)
      BY <1>4, <1>7, <2>5, ListBucket
    <2> QED BY <1>4, <2>5, <2>6, <2>7
  <1>10. CASE k > 1
    <2>1. k - 1 \in 1..n /\ k - 1 # 0 /\ s[k - 1] \in Slots
      BY <1>1, <1>3, <1>10
    <2>2. U = [queue |-> L.queue, next |-> [L.next EXCEPT ![s[k - 1]] = L.next[s[k]]]]
      BY <1>5, <1>10, <2>1 DEF UnlinkAt
    <2>3. /\ U.queue = L.queue /\ U.next \in [Slots -> Ptr] /\ U.next[s[k - 1]] = L.next[s[k]]
          /\ \A q \in Slots \ {s[k - 1]} : U.next[q] = L.next[q]
      BY <1>1, <1>3, <2>1, <2>2 DEF Pointers
    <2>4. U.queue[b] = IF n - 1 = 0 THEN NULL ELSE t[1]
      <3>1. 1 \in 1..(n - 1) /\ n # 0 /\ n - 1 # 0 /\ t[1] = s[1]
        BY <1>1, <1>4, <1>10
      <3> QED BY <1>2, <2>3, <3>1
    <2>5. ASSUME NEW i \in 1..(n - 1) PROVE U.next[t[i]] = IF i = n - 1 THEN NULL ELSE t[i + 1]
      <3>1. CASE i < k - 1
        <4>1. i \in 1..n /\ t[i] = s[i] /\ i # k - 1 /\ i + 1 \in 1..(n - 1) /\ t[i + 1] = s[i + 1] /\ i # n - 1 /\ i # n
          BY <1>1, <1>4, <3>1
        <4>2. s[i] \in Slots \ {s[k - 1]}
          BY <1>2, <1>3, <2>1, <4>1
        <4> QED BY <1>2, <2>3, <4>1, <4>2
      <3>2. CASE i = k - 1
        <4>1. t[i] = s[k - 1] /\ (k = n <=> i = n - 1)
          BY <1>1, <1>4, <3>2
        <4>2. i # n - 1 => i + 1 \in 1..(n - 1) /\ i + 1 = k /\ t[i + 1] = s[k + 1]
          BY <1>1, <1>4, <3>2
        <4> QED BY <1>1, <1>2, <2>3, <4>1, <4>2
      <3>3. CASE i > k - 1
        <4>0. ~(i < k) /\ i + 1 \in 1..n /\ i + 1 # k - 1 /\ (i + 1 = n <=> i = n - 1)
          BY <1>1, <3>3
        <4>1. i + 1 \in 1..n /\ t[i] = s[i + 1] /\ i + 1 # k - 1 /\ (i + 1 = n <=> i = n - 1)
          BY <1>4, <4>0
        <4>2. s[i + 1] \in Slots \ {s[k - 1]}
          BY <1>2, <1>3, <2>1, <4>1
        <4>3. i # n - 1 => i + 1 \in 1..(n - 1) /\ t[i + 1] = s[(i + 1) + 1]
          BY <1>1, <1>4, <3>3
        <4> QED BY <1>2, <2>3, <4>1, <4>2, <4>3
      <3> QED BY <1>1, <3>1, <3>2, <3>3
    <2>6. IsList(U, b, t)
      BY <1>4, <1>6, <2>4, <2>5 DEF IsList
    <2>7. OnlyHere(L, U, b, Bucket(L, b), s[k])
      <3>1. s[k - 1] \in Bucket(L, b)
        BY <1>8, <2>1
      <3> QED BY <2>3, <3>1 DEF OnlyHere, Pointers
    <2>8. s[k] \notin Bucket(U, b)
      BY <1>4, <1>7, <2>6, ListBucket
    <2> QED BY <1>4, <2>6, <2>7, <2>8
  <1> QED BY <1>1, <1>9, <1>10

\* *head = cur at the end of a bucket appends to the list.
LEMMA LinkList ==
  ASSUME NEW L, Pointers(L), NEW b \in Buckets, NEW s, IsList(L, b, s), NEW p \in Slots,
         p \notin Bucket(L, b), NEW M, M = LinkLast(L, b, p)
  PROVE  IsList(M, b, Append(s, p)) /\ OnlyHere(L, M, b, Bucket(L, b), p) /\ M.next[p] = NULL
  <1>1. PICK n \in 0..NPROC : n = Len(s) /\ NPROC \in Nat
    BY ListLength, QueueConstants
  <1>2. /\ s \in Seq(Slots) /\ L.queue[b] = (IF n = 0 THEN NULL ELSE s[1])
        /\ \A i, j \in 1..n : s[i] = s[j] => i = j
        /\ \A i \in 1..n : L.next[s[i]] = IF i = n THEN NULL ELSE s[i + 1]
    BY <1>1 DEF IsList
  <1>3. \A i \in 1..n : s[i] \in Slots
    BY <1>1, <1>2, ElementOfSeq
  <1>4. PICK t : /\ t = Append(s, p) /\ t \in Seq(Slots) /\ Len(t) = n + 1 /\ t[n + 1] = p
                 /\ \A i \in 1..n : t[i] = s[i]
    <2>1. PICK t : t = Append(s, p)
      OBVIOUS
    <2>2. /\ t \in Seq(Slots) /\ Len(t) = Len(s) + 1 /\ t[Len(s) + 1] = p
          /\ \A i \in 1..Len(s) : t[i] = s[i]
      BY <1>2, <2>1, AppendProperties
    <2>3. t \in Seq(Slots) /\ Len(t) = n + 1 /\ t[n + 1] = p /\ \A i \in 1..n : t[i] = s[i]
      BY <1>1, <2>2
    <2> QED BY <2>1, <2>3
  <1>5. Bucket(L, b) = {s[i] : i \in 1..n} /\ \A i \in 1..n : s[i] # p
    BY <1>1, ListBucket
  <1>6. \A i \in 1..(n + 1) : i \in 1..n \/ i = n + 1
    BY <1>1
  <1>7. \A i, j \in 1..(n + 1) : t[i] = t[j] => i = j
    BY <1>2, <1>4, <1>5, <1>6
  <1>8. CASE n = 0
    <2>1. M = [queue |-> [L.queue EXCEPT ![b] = p], next |-> [L.next EXCEPT ![p] = NULL]]
      BY <1>2, <1>8 DEF LinkLast
    <2>2. /\ M.queue[b] = p /\ M.next[p] = NULL /\ Pointers(M)
          /\ \A a \in Buckets \ {b} : M.queue[a] = L.queue[a]
          /\ \A q \in Slots \ {p} : M.next[q] = L.next[q]
      BY <2>1, QueueConstants DEF Pointers
    <2>3. n + 1 = 1
      BY <1>8
    <2>4. IsList(M, b, t)
      BY <1>4, <1>7, <2>2, <2>3 DEF IsList
    <2> QED BY <1>4, <2>2, <2>4 DEF OnlyHere
  <1>9. CASE n > 0
    <2>1. n \in 1..n /\ 1 \in 1..n /\ n # 0
      BY <1>1, <1>9
    <2>2. L.queue[b] # NULL /\ LastOf(L, b) = s[n]
      <3>1. L.queue[b] # NULL
        BY <1>2, <1>3, <2>1, QueueConstants
      <3>2. LastOf(L, b) = s[n]
        BY <1>1, <1>9, ListLast
      <3> QED BY <3>1, <3>2
    <2>3. M = [queue |-> L.queue, next |-> [L.next EXCEPT ![s[n]] = p, ![p] = NULL]]
      BY <2>2 DEF LinkLast
    <2>4. /\ M.queue = L.queue /\ M.next[p] = NULL /\ M.next[s[n]] = p /\ Pointers(M)
          /\ \A q \in Slots \ {p, s[n]} : M.next[q] = L.next[q]
      BY <1>3, <1>5, <2>1, <2>3, QueueConstants DEF Pointers
    <2>5. M.queue[b] = t[1] /\ n + 1 # 0
      BY <1>1, <1>2, <1>4, <2>1, <2>4
    <2>6. ASSUME NEW i \in 1..(n + 1) PROVE M.next[t[i]] = IF i = n + 1 THEN NULL ELSE t[i + 1]
      <3>1. CASE i = n + 1
        BY <1>4, <2>4, <3>1
      <3>2. CASE i = n
        <4>1. i # n + 1 /\ t[i] = s[n] /\ t[i + 1] = p
          BY <1>1, <1>4, <2>1, <3>2
        <4> QED BY <2>4, <4>1
      <3>3. CASE i < n
        <4>1. i \in 1..n /\ i # n /\ i # n + 1 /\ i + 1 \in 1..n
          BY <1>1, <3>3
        <4>2. s[i] \in Slots \ {p, s[n]}
          <5>1. s[i] # s[n]
            BY <1>2, <2>1, <4>1
          <5> QED BY <1>3, <1>5, <4>1, <5>1
        <4>3. t[i] = s[i] /\ t[i + 1] = s[i + 1]
          BY <1>4, <4>1
        <4>4. L.next[s[i]] = s[i + 1]
          BY <1>2, <4>1
        <4>5. M.next[s[i]] = L.next[s[i]]
          BY <2>4, <4>2
        <4> QED BY <4>1, <4>3, <4>4, <4>5
      <3> QED BY <1>1, <3>1, <3>2, <3>3
    <2>7. IsList(M, b, t)
      BY <1>4, <1>7, <2>5, <2>6 DEF IsList
    <2>8. s[n] \in Bucket(L, b)
      BY <1>5, <2>1
    <2> QED BY <1>4, <2>4, <2>7, <2>8 DEF OnlyHere
  <1> QED BY <1>1, <1>8, <1>9

\* pq1_enqueue puts the process in front, if the field next was NULL where it is not assigned.
LEMMA EnqueueList ==
  ASSUME NEW L, Pointers(L), NEW b \in Buckets, NEW s, IsList(L, b, s), NEW p \in Slots,
         p \notin Bucket(L, b), L.next[p] = NULL, NEW M, M = Enqueue(L, p, b)
  PROVE  IsList(M, b, <<p>> \o s) /\ OnlyHere(L, M, b, {}, p)
  <1>1. PICK n \in 0..NPROC : n = Len(s) /\ NPROC \in Nat
    BY ListLength, QueueConstants
  <1>2. /\ s \in Seq(Slots) /\ L.queue[b] = (IF n = 0 THEN NULL ELSE s[1])
        /\ \A i, j \in 1..n : s[i] = s[j] => i = j
        /\ \A i \in 1..n : L.next[s[i]] = IF i = n THEN NULL ELSE s[i + 1]
    BY <1>1 DEF IsList
  <1>3. \A i \in 1..n : s[i] \in Slots
    BY <1>1, <1>2, ElementOfSeq
  <1>4. PICK t : /\ t = <<p>> \o s /\ t \in Seq(Slots) /\ Len(t) = n + 1 /\ t[1] = p
                 /\ \A i \in 1..n : t[i + 1] = s[i]
    <2>1. <<p>> \in Seq(Slots) /\ Len(<<p>>) = 1 /\ <<p>>[1] = p
      OBVIOUS
    <2>2. PICK u \in Seq(Slots) : u = <<p>> /\ Len(u) = 1 /\ u[1] = p
      BY <2>1
    <2>3. /\ u \o s \in Seq(Slots) /\ Len(u \o s) = Len(u) + Len(s)
          /\ \A i \in 1..(Len(u) + Len(s)) : (u \o s)[i] = IF i <= Len(u) THEN u[i] ELSE s[i - Len(u)]
      BY <1>2, ConcatProperties
    <2>4. /\ 1 \in 1..(1 + n) /\ 1 <= 1 /\ 1 + n = n + 1
          /\ \A i \in 1..n : i + 1 \in 1..(1 + n) /\ ~(i + 1 <= 1) /\ (i + 1) - 1 = i
      BY <1>1
    <2>5. PICK t : t = u \o s
      OBVIOUS
    <2>6. Len(t) = 1 + n /\ \A i \in 1..(1 + n) : t[i] = IF i <= 1 THEN u[i] ELSE s[i - 1]
      BY <1>1, <2>2, <2>3, <2>5
    <2>7. t[1] = p /\ Len(t) = n + 1
      BY <2>2, <2>4, <2>6
    <2>8. \A i \in 1..n : t[i + 1] = s[i]
      BY <2>4, <2>6
    <2> QED BY <2>2, <2>3, <2>5, <2>7, <2>8
  <1>5. Bucket(L, b) = {s[i] : i \in 1..n} /\ \A i \in 1..n : s[i] # p
    BY <1>1, ListBucket
  <1>6. \A i \in 1..(n + 1) : i = 1 \/ \E j \in 1..n : i = j + 1
    <2>1. ASSUME NEW i \in 1..(n + 1), i # 1 PROVE i - 1 \in 1..n /\ i = (i - 1) + 1
      BY <1>1, <2>1
    <2> QED BY <2>1
  <1>7. \A i, j \in 1..(n + 1) : t[i] = t[j] => i = j
    <2>1. ASSUME NEW i \in 1..(n + 1), NEW j \in 1..(n + 1), t[i] = t[j] PROVE i = j
      BY <1>2, <1>4, <1>5, <1>6, <2>1
    <2> QED BY <2>1
  <1>8. /\ Pointers(M) /\ M.queue[b] = p /\ M.next[p] = (IF n = 0 THEN NULL ELSE s[1])
        /\ \A a \in Buckets \ {b} : M.queue[a] = L.queue[a]
        /\ \A q \in Slots \ {p} : M.next[q] = L.next[q]
    <2>1. CASE n = 0
      <3>1. M = [queue |-> [L.queue EXCEPT ![b] = p], next |-> L.next]
        BY <1>2, <2>1 DEF Enqueue
      <3> QED BY <2>1, <3>1, QueueConstants DEF Pointers
    <2>2. CASE n > 0
      <3>1. L.queue[b] # NULL /\ L.queue[b] = s[1] /\ s[1] \in Slots
        BY <1>1, <1>2, <1>3, <2>2, QueueConstants
      <3>2. M = [queue |-> [L.queue EXCEPT ![b] = p], next |-> [L.next EXCEPT ![p] = s[1]]]
        BY <3>1 DEF Enqueue
      <3> QED BY <2>2, <3>1, <3>2, QueueConstants DEF Pointers
    <2> QED BY <1>1, <2>1, <2>2
  <1>9. ASSUME NEW i \in 1..(n + 1) PROVE M.next[t[i]] = IF i = n + 1 THEN NULL ELSE t[i + 1]
    <2>1. CASE i = 1
      <3>1. n # 0 => 1 \in 1..n /\ t[1 + 1] = s[1]
        BY <1>1, <1>4
      <3>2. n + 1 = 1 <=> n = 0
        BY <1>1
      <3> QED BY <1>4, <1>8, <2>1, <3>1, <3>2
    <2>2. CASE i # 1
      <3>1. PICK j \in 1..n : i = j + 1
        BY <1>6, <2>2
      <3>2. t[i] = s[j] /\ s[j] \in Slots \ {p} /\ (i = n + 1 <=> j = n)
        BY <1>1, <1>3, <1>4, <1>5, <3>1
      <3>3. j # n => j + 1 \in 1..n /\ t[i + 1] = s[j + 1]
        BY <1>1, <1>4, <3>1
      <3> QED BY <1>2, <1>8, <3>2, <3>3
    <2> QED BY <2>1, <2>2
  <1>10. n + 1 # 0
    BY <1>1
  <1>11. IsList(M, b, t)
    BY <1>4, <1>7, <1>8, <1>9, <1>10 DEF IsList
  <1> QED BY <1>4, <1>8, <1>11 DEF OnlyHere

\* remove_node cuts the node with the pid out of the list, if there is one such node.
LEMMA RemoveList ==
  ASSUME NEW L, Pointers(L), NEW b \in Buckets, NEW s, IsList(L, b, s), NEW k \in 1..Len(s),
         NEW Same, NULL \notin Same, \A i \in 1..Len(s) : s[i] \in Same <=> i = k,
         NEW M, M = Remove(L, b, Same)
  PROVE  /\ IsList(M, b, Cut(s, k)) /\ OnlyHere(L, M, b, Bucket(L, b), s[k])
         /\ M.next[s[k]] = NULL
  <1>1. FirstAt(L, b, Same) = k - 1
    BY ListFirst
  <1>2. Bucket(L, b) = {s[i] : i \in 1..Len(s)}
    BY ListBucket
  <1>3. Bucket(L, b) \cap Same # {}
    BY <1>2
  <1>4. Walk(L, b)[k - 1] = s[k]
    <2>1. Len(s) \in 0..NPROC
      BY ListLength
    <2>2. k - 1 \in 0..(Len(s) - 1) /\ (k - 1) + 1 = k
      BY <2>1, QueueConstants
    <2> QED BY <2>2, ListBucket
  <1>5. PICK U : U = UnlinkAt(L, b, k - 1)
    OBVIOUS
  <1>6. M = [queue |-> U.queue, next |-> [U.next EXCEPT ![s[k]] = NULL]]
    BY <1>1, <1>3, <1>4, <1>5 DEF Remove
  <1>7. /\ IsList(U, b, Cut(s, k)) /\ OnlyHere(L, U, b, Bucket(L, b), s[k])
        /\ s[k] \notin Bucket(U, b)
    BY <1>5, UnlinkList
  <1>8. s[k] \in Slots
    BY ElementOfSeq DEF IsList
  <1>9. /\ Pointers(M) /\ M.queue = U.queue /\ M.next[s[k]] = NULL
        /\ \A q \in Slots \ {s[k]} : M.next[q] = U.next[q]
    BY <1>6, <1>7, <1>8, QueueConstants DEF OnlyHere, Pointers
  <1>10. \A q \in Bucket(U, b) : M.next[q] = U.next[q]
    <2>1. Bucket(U, b) \subseteq Slots
      BY <1>7, ListBucket
    <2> QED BY <1>7, <1>9, <2>1
  <1>11. IsList(M, b, Cut(s, k))
    BY <1>7, <1>9, <1>10, KeepList
  <1> QED BY <1>7, <1>9, <1>11 DEF OnlyHere

\* pq1_dequeue moves the node to the end of its list.
LEMMA RotateList ==
  ASSUME NEW L, Pointers(L), NEW b \in Buckets, NEW s, IsList(L, b, s), NEW k \in 1..Len(s),
         NEW prio, prio[s[k]] = b, NEW M, M = Rotate(L, s[k], prio)
  PROVE  IsList(M, b, Append(Cut(s, k), s[k])) /\ OnlyHere(L, M, b, Bucket(L, b), s[k])
  <1>1. s[k] \in Slots /\ NULL \notin {s[k]}
    BY ElementOfSeq, QueueConstants DEF IsList
  <1>2. FirstAt(L, b, {s[k]}) = k - 1
    <2>1. \A i \in 1..Len(s) : s[i] \in {s[k]} <=> i = k
      BY DEF IsList
    <2> QED BY <1>1, <2>1, ListFirst
  <1>3. Bucket(L, b) = {s[i] : i \in 1..Len(s)}
    BY ListBucket
  <1>4. s[k] \in Bucket(L, b)
    BY <1>3
  <1>5. PICK U : U = UnlinkAt(L, b, k - 1)
    OBVIOUS
  <1>6. M = LinkLast(U, b, s[k])
    BY <1>2, <1>4, <1>5 DEF Rotate, Unlinked
  <1>7. /\ IsList(U, b, Cut(s, k)) /\ OnlyHere(L, U, b, Bucket(L, b), s[k])
        /\ s[k] \notin Bucket(U, b)
    BY <1>5, UnlinkList
  <1>8. /\ IsList(M, b, Append(Cut(s, k), s[k])) /\ OnlyHere(U, M, b, Bucket(U, b), s[k])
    BY <1>1, <1>6, <1>7, LinkList DEF OnlyHere
  <1>9. Bucket(U, b) \subseteq Bucket(L, b)
    <2>1. Bucket(U, b) = {Cut(s, k)[i] : i \in 1..Len(Cut(s, k))}
      BY <1>7, ListBucket
    <2>2. PICK n \in Nat : n = Len(s)
      BY LenProperties DEF IsList
    <2>3. /\ Len(Cut(s, k)) = n - 1
          /\ \A i \in 1..(n - 1) : Cut(s, k)[i] = IF i < k THEN s[i] ELSE s[i + 1]
      BY <2>2, CutSeq DEF IsList
    <2>4. \A i \in 1..(n - 1) : i \in 1..n /\ i + 1 \in 1..n
      BY <2>2
    <2> QED BY <1>3, <2>1, <2>2, <2>3, <2>4
  <1> QED BY <1>7, <1>8, <1>9 DEF OnlyHere


\* Run queues with the same heads and pointers have the same lists.
LEMMA SameFields ==
  ASSUME NEW L, NEW M, NEW N, M.queue = N.queue, M.next = N.next, NEW b, NEW t, NEW S, NEW p,
         IsList(M, b, t), OnlyHere(L, M, b, S, p)
  PROVE  IsList(N, b, t) /\ OnlyHere(L, N, b, S, p)
  BY DEF IsList, OnlyHere, Pointers

Members(s) == {s[i] : i \in 1..Len(s)}

\* Cut takes one member out of a sequence without repetitions.
LEMMA CutMembers ==
  ASSUME NEW S, NEW s \in Seq(S), NEW k \in 1..Len(s), \A i, j \in 1..Len(s) : s[i] = s[j] => i = j
  PROVE  Members(Cut(s, k)) = Members(s) \ {s[k]}
  <1>1. PICK n \in Nat : n = Len(s) /\ k \in 1..n /\ \A i, j \in 1..n : s[i] = s[j] => i = j
    BY LenProperties
  <1>2. PICK t : /\ t = Cut(s, k) /\ Len(t) = n - 1
                 /\ \A i \in 1..(n - 1) : t[i] = IF i < k THEN s[i] ELSE s[i + 1]
    BY <1>1, CutSeq
  <1>3. ASSUME NEW i \in 1..(n - 1) PROVE t[i] \in {s[j] : j \in 1..n} \ {s[k]}
    <2>1. PICK x \in 1..n : x = (IF i < k THEN i ELSE i + 1) /\ t[i] = s[x]
      BY <1>1, <1>2
    <2>2. x # k
      BY <1>1, <2>1
    <2> QED BY <1>1, <2>1, <2>2
  <1>4. ASSUME NEW j \in 1..n, s[j] # s[k] PROVE s[j] \in {t[i] : i \in 1..(n - 1)}
    <2>1. j # k
      BY <1>4
    <2>2. CASE j < k
      <3>1. j \in 1..(n - 1) /\ t[j] = s[j]
        BY <1>1, <1>2, <2>2
      <3> QED BY <3>1
    <2>3. CASE j > k
      <3>1. j - 1 \in 1..(n - 1) /\ ~(j - 1 < k) /\ (j - 1) + 1 = j
        BY <1>1, <2>3
      <3>2. t[j - 1] = s[j]
        BY <1>2, <3>1
      <3> QED BY <3>1, <3>2
    <2> QED BY <1>1, <2>1, <2>2, <2>3
  <1>5. {t[i] : i \in 1..(n - 1)} = {s[j] : j \in 1..n} \ {s[k]}
    <2> DEFINE A == {t[i] : i \in 1..(n - 1)}
    <2> DEFINE B == {s[j] : j \in 1..n}
    <2>1. \A x \in A : x \in B /\ x # s[k]
      BY <1>3
    <2>2. \A x \in B : x # s[k] => x \in A
      BY <1>4
    <2> HIDE DEF A, B
    <2>3. A = B \ {s[k]}
      BY <2>1, <2>2
    <2> QED BY <2>3 DEF A, B
  <1>6. Members(Cut(s, k)) = {t[i] : i \in 1..(n - 1)} /\ Members(s) = {s[j] : j \in 1..n}
    BY <1>1, <1>2 DEF Members
  <1> QED BY <1>5, <1>6

\* The members of a sequence with one more at its end.
LEMMA AppendMembers ==
  ASSUME NEW S, NEW s \in Seq(S), NEW p \in S
  PROVE  Members(Append(s, p)) = Members(s) \cup {p}
  <1>1. PICK n \in Nat : n = Len(s)
    BY LenProperties
  <1>2. PICK t : t = Append(s, p)
    OBVIOUS
  <1>3. Len(t) = n + 1 /\ t[n + 1] = p /\ \A i \in 1..n : t[i] = s[i]
    <2>1. /\ Len(t) = Len(s) + 1 /\ t[Len(s) + 1] = p /\ \A i \in 1..Len(s) : t[i] = s[i]
      BY <1>2, AppendProperties
    <2> QED BY <1>1, <2>1
  <1>4. \A i \in 1..(n + 1) : i \in 1..n \/ i = n + 1
    OBVIOUS
  <1>5. n + 1 \in 1..(n + 1) /\ \A i \in 1..n : i \in 1..(n + 1)
    OBVIOUS
  <1>6. {t[i] : i \in 1..(n + 1)} = {s[i] : i \in 1..n} \cup {p}
    BY <1>3, <1>4, <1>5
  <1> QED BY <1>1, <1>2, <1>3, <1>6 DEF Members

\* The members of a sequence with one more in front.
LEMMA FrontMembers ==
  ASSUME NEW S, NEW s \in Seq(S), NEW p \in S
  PROVE  Members(<<p>> \o s) = Members(s) \cup {p}
  <1>1. PICK n \in Nat : n = Len(s)
    BY LenProperties
  <1>2. PICK u \in Seq(S) : u = <<p>> /\ Len(u) = 1 /\ u[1] = p
    <2>1. <<p>> \in Seq(S) /\ Len(<<p>>) = 1 /\ <<p>>[1] = p
      OBVIOUS
    <2> QED BY <2>1
  <1>3. PICK t : t = u \o s
    OBVIOUS
  <1>4. Len(t) = n + 1 /\ \A i \in 1..(n + 1) : t[i] = IF i <= 1 THEN u[i] ELSE s[i - 1]
    <2>1. /\ Len(t) = Len(u) + Len(s)
          /\ \A i \in 1..(Len(u) + Len(s)) : t[i] = IF i <= Len(u) THEN u[i] ELSE s[i - Len(u)]
      BY <1>3, ConcatProperties
    <2>2. 1 + n = n + 1
      OBVIOUS
    <2> QED BY <1>1, <1>2, <2>1, <2>2
  <1>5. ASSUME NEW i \in 1..(n + 1) PROVE t[i] \in {s[j] : j \in 1..n} \cup {p}
    <2>1. CASE i = 1
      BY <1>2, <1>4, <2>1
    <2>2. CASE i # 1
      <3>1. ~(i <= 1) /\ i - 1 \in 1..n
        BY <2>2
      <3> QED BY <1>4, <3>1
    <2> QED BY <2>1, <2>2
  <1>6. ASSUME NEW j \in 1..n PROVE s[j] \in {t[i] : i \in 1..(n + 1)}
    <2>1. j + 1 \in 1..(n + 1) /\ ~(j + 1 <= 1) /\ (j + 1) - 1 = j
      OBVIOUS
    <2>2. t[j + 1] = s[j]
      BY <1>4, <2>1
    <2> QED BY <2>1, <2>2
  <1>7. p \in {t[i] : i \in 1..(n + 1)}
    <2>1. 1 \in 1..(n + 1) /\ t[1] = p
      BY <1>2, <1>4
    <2> QED BY <2>1
  <1>8. {t[i] : i \in 1..(n + 1)} = {s[j] : j \in 1..n} \cup {p}
    BY <1>5, <1>6, <1>7
  <1> QED BY <1>1, <1>2, <1>3, <1>4, <1>8 DEF Members

\* The sequence of a bucket is its list.
LEMMA ListAsSeq ==
  ASSUME NEW L, NEW b, NEW s, IsList(L, b, s)
  PROVE  AsSeq(L, b) = s
  <1>1. PICK n \in 0..NPROC : n = Len(s) /\ NPROC \in Nat
    BY ListLength, QueueConstants
  <1>2. s \in [1..n -> Slots] /\ \A i \in 1..n : s[i] \in Slots
    <2>1. s \in Seq(Slots)
      BY DEF IsList
    <2>2. s \in [1..Len(s) -> Slots]
      BY <2>1, LenProperties
    <2> QED BY <1>1, <2>2
  <1>3. \A k \in 0..NPROC : Walk(L, b)[k] = IF k < n THEN s[k + 1] ELSE NULL
    BY <1>1, ListWalk
  <1>4. {j \in 0..NPROC : Walk(L, b)[j] # NULL} = 0..(n - 1)
    <2>1. ASSUME NEW j \in 0..NPROC PROVE Walk(L, b)[j] # NULL <=> j \in 0..(n - 1)
      <3>1. CASE j < n
        <4>1. j + 1 \in 1..n /\ j \in 0..(n - 1)
          BY <1>1, <3>1
        <4> QED BY <1>2, <1>3, <3>1, <4>1, QueueConstants
      <3>2. CASE ~(j < n)
        BY <1>1, <1>3, <3>2
      <3> QED BY <3>1, <3>2
    <2>2. \A j \in 0..(n - 1) : j \in 0..NPROC
      BY <1>1
    <2> QED BY <2>1, <2>2
  <1>5. Cardinality(0..(n - 1)) = n
    <2>1. 0 \in Int /\ n - 1 \in Int
      BY <1>1
    <2>2. Cardinality(0..(n - 1)) = IF 0 > n - 1 THEN 0 ELSE (n - 1) - 0 + 1
      BY <2>1, FS_Interval
    <2> QED BY <1>1, <2>2
  <1>6. AsSeq(L, b) = [i \in 1..n |-> Walk(L, b)[i - 1]]
    BY <1>4, <1>5 DEF AsSeq
  <1>7. \A i \in 1..n : Walk(L, b)[i - 1] = s[i]
    <2>1. \A i \in 1..n : i - 1 \in 0..NPROC /\ i - 1 < n /\ (i - 1) + 1 = i
      BY <1>1
    <2> QED BY <1>3, <2>1
  <1> QED BY <1>2, <1>6, <1>7

\* No other bucket holds p or a node of bucket b.
Apart(L, b, p) == \A a \in Buckets \ {b} : Bucket(L, a) \cap (Bucket(L, b) \cup {p}) = {}

\* A change of one bucket, and what it leaves alone.
LEMMA OneBucket ==
  ASSUME NEW L, Lists(L), NEW M, NEW b \in Buckets, NEW p, Apart(L, b, p),
         OnlyHere(L, M, b, Bucket(L, b), p), NEW t, IsList(M, b, t)
  PROVE  /\ Pointers(M) /\ Lists(M)
         /\ Bucket(M, b) = Members(t) /\ AsSeq(M, b) = t
         /\ \A a \in Buckets \ {b} : Bucket(M, a) = Bucket(L, a) /\ AsSeq(M, a) = AsSeq(L, a)
         /\ \A q \in Slots \ (Bucket(L, b) \cup {p}) : M.next[q] = L.next[q]
  <1>1. ASSUME NEW a \in Buckets \ {b}
        PROVE  /\ Bucket(M, a) = Bucket(L, a) /\ AsSeq(M, a) = AsSeq(L, a)
               /\ \E s : IsList(M, a, s)
    <2>1. PICK s : IsList(L, a, s)
      BY DEF Lists
    <2>2. Bucket(L, a) \subseteq Slots
      BY <2>1, ListBucket
    <2>3. \A q \in Bucket(L, a) : M.next[q] = L.next[q]
      BY <2>2 DEF OnlyHere, Apart
    <2>4. M.queue[a] = L.queue[a]
      BY DEF OnlyHere
    <2>5. IsList(M, a, s)
      BY <2>1, <2>3, <2>4, KeepList
    <2>6. Bucket(M, a) = Bucket(L, a)
      <3>1. Bucket(L, a) = {s[i] : i \in 1..Len(s)}
        BY <2>1, ListBucket
      <3>2. Bucket(M, a) = {s[i] : i \in 1..Len(s)}
        BY <2>5, ListBucket
      <3> QED BY <3>1, <3>2
    <2>7. AsSeq(M, a) = AsSeq(L, a)
      BY <2>1, <2>5, ListAsSeq
    <2> QED BY <2>5, <2>6, <2>7
  <1>2. Bucket(M, b) = Members(t) /\ AsSeq(M, b) = t
    BY ListBucket, ListAsSeq DEF Members
  <1>3. Lists(M)
    BY <1>1 DEF Lists
  <1> QED BY <1>1, <1>2, <1>3 DEF OnlyHere


-----------------------------------------------------------------------------
(* The run queue without prio_set *)

In == [b \in Buckets |-> Bucket(RunQueue, b)]

Linked(p) == \E b \in Buckets : p \in In[b]

\* A process is linked where its priority says, from fork2's enqueue to exit's removal.
Placed ==
  /\ \A b \in Buckets : \A p \in In[b] :
       b = priority[p] /\ p \in Slots /\ state[p] \notin {"UNUSED", "ZOMBIE"} /\ pc[p] # "exit2"
  /\ \A p \in Slots : Alive(p) /\ pc[p] # "exit2" => priority[p] \in Buckets /\ p \in In[priority[p]]

\* pq1_enqueue leaves the field next as it is when the bucket is empty.
Loose == \A p \in Slots : ~Linked(p) => next[p] = NULL

\* fork2 links the child once, with its priority.
Forking ==
  \A p \in Slots :
    /\ pc[p] \in {"fork1", "fork2"} => ~Linked(ptr[p])
    /\ pc[p] \in {"fork2", "fork3"} => priority[ptr[p]] \in Buckets
    /\ pc[p] = "fork3" => ptr[p] \in In[priority[ptr[p]]]

\* exit runs to its end without being preempted, and nobody is in prio_set.
Undisturbed ==
  \A p \in Slots : /\ pc[p] = "exit2" => state[p] \in {"RUNNING", "ZOMBIE", "UNUSED"}
                   /\ pc[p] \notin PrioPoints

MInv == Placed /\ Loose /\ Forking /\ Undisturbed
QInv == Pointers(RunQueue) /\ Lists(RunQueue) /\ MInv


SeqF == [b \in Buckets |-> AsSeq(RunQueue, b)]

\* A step that leaves the run queue alone and takes no RUNNABLE process.
Neutral == MInv' /\ UNCHANGED <<queue, next>> /\ Runnable \subseteq Runnable'

\* A step of the abstract queue, or none.
Serves == Queue!Next \/ UNCHANGED <<SeqF, Runnable>>

\* A step that leaves the run queue alone is none of the abstract queue's, or makes processes
\* runnable.
LEMMA NeutralQInv ==
  ASSUME QInv, Neutral
  PROVE  QInv' /\ Serves
  <1>1. RunQueue' = RunQueue
    BY DEF Neutral, RunQueue
  <1>2. Pointers(RunQueue)' /\ Lists(RunQueue)'
    BY <1>1 DEF QInv, Pointers, Lists
  <1>3. SeqF' = SeqF
    BY <1>1 DEF SeqF
  <1>4. Queue!Ready
    BY <1>3 DEF Neutral, Queue!Ready, SeqF
  <1>5. Queue!Next
    BY <1>4 DEF Queue!Next
  <1> QED BY <1>2, <1>5 DEF QInv, Neutral, Serves

\* The list of a process that is linked, and its place there.
LEMMA PlaceOf ==
  ASSUME QInv, NEW p \in Slots, NEW b \in Buckets, p \in In[b]
  PROVE  /\ b = priority[p]
         /\ \A a \in Buckets \ {b} : Bucket(RunQueue, a) \cap (Bucket(RunQueue, b) \cup {p}) = {}
         /\ \E s \in Seq(Slots) : \E k \in 1..Len(s) :
              /\ IsList(RunQueue, b, s) /\ s[k] = p /\ In[b] = Members(s) /\ SeqF[b] = s
              /\ \A i, j \in 1..Len(s) : s[i] = s[j] => i = j
  <1>1. \A a \in Buckets : In[a] = Bucket(RunQueue, a)
    BY DEF In
  <1>2. \A a \in Buckets : \A q \in In[a] : a = priority[q]
    BY DEF QInv, MInv, Placed
  <1>3. \A a \in Buckets \ {b} : Bucket(RunQueue, a) \cap (Bucket(RunQueue, b) \cup {p}) = {}
    BY <1>1, <1>2
  <1>4. PICK s : IsList(RunQueue, b, s)
    BY DEF QInv, Lists
  <1>5. Bucket(RunQueue, b) = {s[i] : i \in 1..Len(s)}
    BY <1>4, ListBucket
  <1>6. PICK k \in 1..Len(s) : s[k] = p
    BY <1>1, <1>5
  <1>7. SeqF[b] = s
    BY <1>4, ListAsSeq DEF SeqF
  <1>8. In[b] = Members(s)
    BY <1>1, <1>5 DEF Members
  <1>9. s \in Seq(Slots) /\ \A i, j \in 1..Len(s) : s[i] = s[j] => i = j
    BY <1>4 DEF IsList
  <1> QED BY <1>2, <1>3, <1>4, <1>6, <1>7, <1>8, <1>9

\* pq1_dequeue: the process goes to the end of its list.
LEMMA RotateQueue ==
  ASSUME QInv, NEW p \in Slots, NEW b \in Buckets, p \in In[b], SetQueue(Rotate(RunQueue, p, priority))
  PROVE  /\ Pointers(RunQueue)' /\ Lists(RunQueue)' /\ In' = In
         /\ \A q \in Slots \ In[b] : next'[q] = next[q]
         /\ \E s \in Seq(Slots) : \E k \in 1..Len(s) :
              /\ IsList(RunQueue, b, s) /\ s[k] = p /\ \A i, j \in 1..Len(s) : s[i] = s[j] => i = j
              /\ SeqF[b] = s /\ SeqF'[b] = Append(Cut(s, k), p)
              /\ \A a \in Buckets \ {b} : SeqF'[a] = SeqF[a]
  <1>1. /\ b = priority[p]
        /\ \A a \in Buckets \ {b} : Bucket(RunQueue, a) \cap (Bucket(RunQueue, b) \cup {p}) = {}
    BY PlaceOf
  <1>2. PICK s \in Seq(Slots) : \E k \in 1..Len(s) :
              /\ IsList(RunQueue, b, s) /\ s[k] = p /\ In[b] = Members(s) /\ SeqF[b] = s
              /\ \A i, j \in 1..Len(s) : s[i] = s[j] => i = j
    BY PlaceOf
  <1>3. PICK k \in 1..Len(s) :
              /\ IsList(RunQueue, b, s) /\ s[k] = p /\ In[b] = Members(s) /\ SeqF[b] = s
              /\ \A i, j \in 1..Len(s) : s[i] = s[j] => i = j
    BY <1>2
  <1>4. PICK L : L = RunQueue
    OBVIOUS
  <1>5. PICK M : M = Rotate(L, s[k], priority)
    OBVIOUS
  <1>6. Pointers(L) /\ Lists(L) /\ IsList(L, b, s)
    BY <1>3, <1>4 DEF QInv
  <1>7. IsList(M, b, Append(Cut(s, k), s[k])) /\ OnlyHere(L, M, b, Bucket(L, b), s[k])
    BY <1>1, <1>3, <1>5, <1>6, RotateList
  <1>8. PICK N : N = RunQueue' /\ N.queue = queue' /\ N.next = next'
    <2>1. RunQueue' = [queue |-> queue', next |-> next']
      BY DEF RunQueue
    <2>2. RunQueue'.queue = queue' /\ RunQueue'.next = next'
      BY <2>1
    <2> QED BY <2>2
  <1>9. N.queue = M.queue /\ N.next = M.next
    BY <1>3, <1>4, <1>5, <1>8 DEF SetQueue
  <1>10. IsList(N, b, Append(Cut(s, k), p)) /\ OnlyHere(L, N, b, Bucket(L, b), p)
    BY <1>3, <1>7, <1>9, SameFields
  <1>11. Apart(L, b, p)
    BY <1>1, <1>4 DEF Apart
  <1>12. /\ Pointers(N) /\ Lists(N)
         /\ Bucket(N, b) = Members(Append(Cut(s, k), p)) /\ AsSeq(N, b) = Append(Cut(s, k), p)
         /\ \A a \in Buckets \ {b} : Bucket(N, a) = Bucket(L, a) /\ AsSeq(N, a) = AsSeq(L, a)
         /\ \A q \in Slots \ (Bucket(L, b) \cup {p}) : N.next[q] = L.next[q]
    <2>1. PICK t : t = Append(Cut(s, k), p)
      OBVIOUS
    <2>2. Lists(L) /\ IsList(N, b, t) /\ OnlyHere(L, N, b, Bucket(L, b), p)
      BY <1>6, <1>10, <2>1
    <2>3. /\ Pointers(N) /\ Lists(N) /\ Bucket(N, b) = Members(t) /\ AsSeq(N, b) = t
          /\ \A a \in Buckets \ {b} : Bucket(N, a) = Bucket(L, a) /\ AsSeq(N, a) = AsSeq(L, a)
          /\ \A q \in Slots \ (Bucket(L, b) \cup {p}) : N.next[q] = L.next[q]
      BY <1>11, <2>2, OneBucket
    <2> QED BY <2>1, <2>3
  <1>13. Members(Append(Cut(s, k), p)) = Members(s)
    <2>1. Cut(s, k) \in Seq(Slots)
      BY CutSeq
    <2>2. Members(Append(Cut(s, k), p)) = Members(Cut(s, k)) \cup {p}
      BY <2>1, AppendMembers
    <2>3. Members(Cut(s, k)) = Members(s) \ {p}
      BY <1>3, CutMembers
    <2>4. p \in Members(s)
      BY <1>3 DEF Members
    <2> QED BY <2>2, <2>3, <2>4
  <1>14. In' = [a \in Buckets |-> Bucket(N, a)] /\ SeqF' = [a \in Buckets |-> AsSeq(N, a)]
    BY <1>8 DEF In, SeqF
  <1>15. In = [a \in Buckets |-> Bucket(L, a)] /\ SeqF = [a \in Buckets |-> AsSeq(L, a)] /\ L.next = next
    BY <1>4 DEF In, SeqF, RunQueue
  <1>16. In' = In
    <2>1. \A a \in Buckets : Bucket(N, a) = Bucket(L, a)
      BY <1>3, <1>12, <1>13, <1>15
    <2> QED BY <1>14, <1>15, <2>1
  <1>17. \A q \in Slots \ In[b] : next'[q] = next[q]
    BY <1>8, <1>12, <1>15
  <1>18. SeqF'[b] = Append(Cut(s, k), p) /\ \A a \in Buckets \ {b} : SeqF'[a] = SeqF[a]
    BY <1>12, <1>14, <1>15
  <1>19. Pointers(RunQueue)' /\ Lists(RunQueue)'
    <2>1. Pointers(RunQueue') /\ Lists(RunQueue')
      BY <1>8, <1>12
    <2> QED BY <2>1 DEF Pointers, Lists
  <1> QED BY <1>3, <1>16, <1>17, <1>18, <1>19

\* remove_node: the process is gone from its list, and its next is NULL.
LEMMA RemoveQueue ==
  ASSUME QInv, NEW p \in Slots, NEW b \in Buckets, p \in In[b], NEW Same,
         In[b] \cap Same = {p}, NULL \notin Same, SetQueue(Remove(RunQueue, b, Same))
  PROVE  /\ Pointers(RunQueue)' /\ Lists(RunQueue)' /\ In' = [In EXCEPT ![b] = In[b] \ {p}]
         /\ \A q \in Slots \ In[b] : next'[q] = next[q]
         /\ next'[p] = NULL
         /\ \E s \in Seq(Slots) : \E k \in 1..Len(s) :
              /\ IsList(RunQueue, b, s) /\ s[k] = p /\ \A i, j \in 1..Len(s) : s[i] = s[j] => i = j
              /\ SeqF[b] = s /\ SeqF'[b] = Cut(s, k)
              /\ \A a \in Buckets \ {b} : SeqF'[a] = SeqF[a]
  <1>1. /\ b = priority[p]
        /\ \A a \in Buckets \ {b} : Bucket(RunQueue, a) \cap (Bucket(RunQueue, b) \cup {p}) = {}
    BY PlaceOf
  <1>2. PICK s \in Seq(Slots) : \E k \in 1..Len(s) :
              /\ IsList(RunQueue, b, s) /\ s[k] = p /\ In[b] = Members(s) /\ SeqF[b] = s
              /\ \A i, j \in 1..Len(s) : s[i] = s[j] => i = j
    BY PlaceOf
  <1>3. PICK k \in 1..Len(s) :
              /\ IsList(RunQueue, b, s) /\ s[k] = p /\ In[b] = Members(s) /\ SeqF[b] = s
              /\ \A i, j \in 1..Len(s) : s[i] = s[j] => i = j
    BY <1>2
  <1>4. PICK L : L = RunQueue
    OBVIOUS
  <1>5. PICK M : M = Remove(L, b, Same)
    OBVIOUS
  <1>6. Pointers(L) /\ Lists(L) /\ IsList(L, b, s)
    BY <1>3, <1>4 DEF QInv
  <1>7. /\ IsList(M, b, Cut(s, k)) /\ OnlyHere(L, M, b, Bucket(L, b), s[k]) /\ M.next[s[k]] = NULL
    <2>1. \A i \in 1..Len(s) : s[i] \in Same <=> i = k
      <3>1. \A i \in 1..Len(s) : s[i] \in In[b]
        BY <1>3 DEF Members
      <3>2. \A i \in 1..Len(s) : s[i] \in Same <=> s[i] = p
        BY <3>1
      <3> QED BY <1>3, <3>2
    <2> QED BY <1>5, <1>6, <2>1, RemoveList
  <1>8. PICK N : N = RunQueue' /\ N.queue = queue' /\ N.next = next'
    <2>1. RunQueue' = [queue |-> queue', next |-> next']
      BY DEF RunQueue
    <2>2. RunQueue'.queue = queue' /\ RunQueue'.next = next'
      BY <2>1
    <2> QED BY <2>2
  <1>9. N.queue = M.queue /\ N.next = M.next
    BY <1>4, <1>5, <1>8 DEF SetQueue
  <1>10. IsList(N, b, Cut(s, k)) /\ OnlyHere(L, N, b, Bucket(L, b), p)
    BY <1>3, <1>7, <1>9, SameFields
  <1>11. Apart(L, b, p)
    BY <1>1, <1>4 DEF Apart
  <1>12. /\ Pointers(N) /\ Lists(N)
         /\ Bucket(N, b) = Members(Cut(s, k)) /\ AsSeq(N, b) = Cut(s, k)
         /\ \A a \in Buckets \ {b} : Bucket(N, a) = Bucket(L, a) /\ AsSeq(N, a) = AsSeq(L, a)
         /\ \A q \in Slots \ (Bucket(L, b) \cup {p}) : N.next[q] = L.next[q]
    <2>1. PICK t : t = Cut(s, k)
      OBVIOUS
    <2>2. Lists(L) /\ IsList(N, b, t) /\ OnlyHere(L, N, b, Bucket(L, b), p)
      BY <1>6, <1>10, <2>1
    <2>3. /\ Pointers(N) /\ Lists(N) /\ Bucket(N, b) = Members(t) /\ AsSeq(N, b) = t
          /\ \A a \in Buckets \ {b} : Bucket(N, a) = Bucket(L, a) /\ AsSeq(N, a) = AsSeq(L, a)
          /\ \A q \in Slots \ (Bucket(L, b) \cup {p}) : N.next[q] = L.next[q]
      BY <1>11, <2>2, OneBucket
    <2> QED BY <2>1, <2>3
  <1>13. Members(Cut(s, k)) = In[b] \ {p}
    BY <1>3, CutMembers
  <1>14. In' = [a \in Buckets |-> Bucket(N, a)] /\ SeqF' = [a \in Buckets |-> AsSeq(N, a)]
    BY <1>8 DEF In, SeqF
  <1>15. In = [a \in Buckets |-> Bucket(L, a)] /\ SeqF = [a \in Buckets |-> AsSeq(L, a)] /\ L.next = next
    BY <1>4 DEF In, SeqF, RunQueue
  <1>16. In' = [In EXCEPT ![b] = In[b] \ {p}]
    BY <1>12, <1>13, <1>14, <1>15
  <1>17. \A q \in Slots \ In[b] : next'[q] = next[q]
    BY <1>8, <1>12, <1>15
  <1>18. SeqF'[b] = Cut(s, k) /\ \A a \in Buckets \ {b} : SeqF'[a] = SeqF[a]
    BY <1>12, <1>14, <1>15
  <1>19. Pointers(RunQueue)' /\ Lists(RunQueue)'
    <2>1. Pointers(RunQueue') /\ Lists(RunQueue')
      BY <1>8, <1>12
    <2> QED BY <2>1 DEF Pointers, Lists
  <1>20. next'[p] = NULL
    BY <1>3, <1>7, <1>8, <1>9
  <1> QED BY <1>3, <1>16, <1>17, <1>18, <1>19, <1>20

\* pq1_enqueue: the child is in front.
LEMMA EnqueueQueue ==
  ASSUME QInv, NEW p \in Slots, NEW b \in Buckets, ~Linked(p), SetQueue(Enqueue(RunQueue, p, b))
  PROVE  /\ Pointers(RunQueue)' /\ Lists(RunQueue)' /\ In' = [In EXCEPT ![b] = In[b] \cup {p}]
         /\ \A q \in Slots \ {p} : next'[q] = next[q]
         /\ SeqF'[b] = <<p>> \o SeqF[b]
         /\ \A a \in Buckets \ {b} : SeqF'[a] = SeqF[a]
  <1>1. \A a \in Buckets : In[a] = Bucket(RunQueue, a)
    BY DEF In
  <1>2. \A a \in Buckets : \A q \in In[a] : a = priority[q]
    BY DEF QInv, MInv, Placed
  <1>3. /\ \A a \in Buckets : p \notin In[a]
        /\ \A a \in Buckets \ {b} : Bucket(RunQueue, a) \cap (Bucket(RunQueue, b) \cup {p}) = {}
    BY <1>1, <1>2 DEF Linked
  <1>4. PICK s : IsList(RunQueue, b, s)
    BY DEF QInv, Lists
  <1>5. PICK L : L = RunQueue
    OBVIOUS
  <1>6. PICK M : M = Enqueue(L, p, b)
    OBVIOUS
  <1>7. Pointers(L) /\ Lists(L) /\ IsList(L, b, s) /\ p \notin Bucket(L, b) /\ L.next[p] = NULL
    <2>1. next[p] = NULL
      BY DEF QInv, MInv, Loose
    <2>2. L.next = next
      BY <1>5 DEF RunQueue
    <2> QED BY <1>1, <1>3, <1>4, <1>5, <2>1, <2>2 DEF QInv
  <1>8. IsList(M, b, <<p>> \o s) /\ OnlyHere(L, M, b, {}, p)
    BY <1>6, <1>7, EnqueueList
  <1>9. PICK N : N = RunQueue' /\ N.queue = queue' /\ N.next = next'
    <2>1. RunQueue' = [queue |-> queue', next |-> next']
      BY DEF RunQueue
    <2>2. RunQueue'.queue = queue' /\ RunQueue'.next = next'
      BY <2>1
    <2> QED BY <2>2
  <1>10. N.queue = M.queue /\ N.next = M.next
    BY <1>5, <1>6, <1>9 DEF SetQueue
  <1>11. IsList(N, b, <<p>> \o s) /\ OnlyHere(L, N, b, {}, p)
    BY <1>8, <1>10, SameFields
  <1>12. OnlyHere(L, N, b, Bucket(L, b), p)
    BY <1>11 DEF OnlyHere
  <1>13. Apart(L, b, p)
    BY <1>3, <1>5 DEF Apart
  <1>14. /\ Pointers(N) /\ Lists(N)
         /\ Bucket(N, b) = Members(<<p>> \o s) /\ AsSeq(N, b) = <<p>> \o s
         /\ \A a \in Buckets \ {b} : Bucket(N, a) = Bucket(L, a) /\ AsSeq(N, a) = AsSeq(L, a)
    <2>1. PICK t : t = <<p>> \o s
      OBVIOUS
    <2>2. Lists(L) /\ IsList(N, b, t)
      BY <1>7, <1>11, <2>1
    <2>3. /\ Pointers(N) /\ Lists(N) /\ Bucket(N, b) = Members(t) /\ AsSeq(N, b) = t
          /\ \A a \in Buckets \ {b} : Bucket(N, a) = Bucket(L, a) /\ AsSeq(N, a) = AsSeq(L, a)
      BY <1>12, <1>13, <2>2, OneBucket
    <2> QED BY <2>1, <2>3
  <1>15. In' = [a \in Buckets |-> Bucket(N, a)] /\ SeqF' = [a \in Buckets |-> AsSeq(N, a)]
    BY <1>9 DEF In, SeqF
  <1>16. In = [a \in Buckets |-> Bucket(L, a)] /\ SeqF = [a \in Buckets |-> AsSeq(L, a)] /\ L.next = next
    BY <1>5 DEF In, SeqF, RunQueue
  <1>17. SeqF[b] = s /\ In[b] = Members(s)
    BY <1>7, <1>16, ListAsSeq, ListBucket DEF Members
  <1>18. Members(<<p>> \o s) = In[b] \cup {p}
    <2>1. s \in Seq(Slots)
      BY <1>4 DEF IsList
    <2> QED BY <1>17, <2>1, FrontMembers
  <1>19. In' = [In EXCEPT ![b] = In[b] \cup {p}]
    BY <1>14, <1>15, <1>16, <1>18
  <1>20. \A q \in Slots \ {p} : next'[q] = next[q]
    BY <1>9, <1>11, <1>16 DEF OnlyHere
  <1>21. SeqF'[b] = <<p>> \o SeqF[b] /\ \A a \in Buckets \ {b} : SeqF'[a] = SeqF[a]
    BY <1>14, <1>15, <1>16, <1>17
  <1>22. Pointers(RunQueue)' /\ Lists(RunQueue)'
    <2>1. Pointers(RunQueue') /\ Lists(RunQueue')
      BY <1>9, <1>14
    <2> QED BY <2>1 DEF Pointers, Lists
  <1> QED BY <1>19, <1>20, <1>21, <1>22


\* RunQueueSpec's way to take a process out of a sequence without repetitions.
LEMMA QueueWithout ==
  ASSUME NEW b \in Buckets, NEW s \in Seq(Slots), NEW k \in 1..Len(s),
         \A i, j \in 1..Len(s) : s[i] = s[j] => i = j, SeqF[b] = s
  PROVE  Queue!Without(s[k], b) = Cut(s, k) /\ s[k] \in Queue!Range(SeqF[b])
  <1>1. DOMAIN s = 1..Len(s)
    BY LenProperties
  <1>2. (CHOOSE j \in DOMAIN s : s[j] = s[k]) = k
    BY <1>1
  <1>3. Queue!Without(s[k], b) = SubSeq(s, 1, k - 1) \o SubSeq(s, k + 1, Len(s))
    BY <1>2 DEF Queue!Without, SeqF
  <1>4. s[k] \in Queue!Range(s)
    BY <1>1 DEF Queue!Range
  <1> QED BY <1>3, <1>4 DEF Cut

\* The sequence of every bucket holds its processes.
LEMMA SeqMembers ==
  ASSUME QInv, NEW b \in Buckets
  PROVE  Queue!Range(SeqF[b]) = In[b] /\ SeqF[b] \in Seq(Slots)
  <1>1. PICK s : IsList(RunQueue, b, s)
    BY DEF QInv, Lists
  <1>2. SeqF[b] = s /\ In[b] = {s[i] : i \in 1..Len(s)}
    BY <1>1, ListAsSeq, ListBucket DEF SeqF, In
  <1>3. s \in Seq(Slots) /\ DOMAIN s = 1..Len(s)
    BY <1>1, LenProperties DEF IsList
  <1> QED BY <1>2, <1>3 DEF Queue!Range

\* What a step must keep when it leaves the run queue alone.
Kept == Placed' /\ Forking' /\ Undisturbed' /\ UNCHANGED <<queue, next>> /\ Runnable \subseteq Runnable'

\* Who is linked where depends on the pointers only.
LEMMA SameIn ==
  ASSUME UNCHANGED <<queue, next>>
  PROVE  In' = In /\ \A p : Linked(p)' <=> Linked(p)
  BY DEF In, Linked, RunQueue

\* A step that leaves the pointers alone leaves the unlinked ones NULL.
LEMMA KeptQInv ==
  ASSUME QInv, Kept
  PROVE  QInv' /\ Serves
  <1>1. Loose'
    BY SameIn DEF Kept, QInv, MInv, Loose
  <1>2. Neutral
    BY <1>1 DEF Kept, Neutral, MInv
  <1> QED BY <1>2, NeutralQInv

\* A step that only moves processes between system calls, or wakes them or puts them to sleep.
Light ==
  /\ UNCHANGED <<priority, queue, next>>
  /\ \A q \in Slots :
       \/ pc'[q] = pc[q] /\ ptr'[q] = ptr[q]
       \/ pc[q] \notin ForkPoints \cup {"exit2"} /\ pc'[q] = "user"
  /\ \A q \in Slots : state'[q] = state[q] \/ (state[q] = "SLEEPING" /\ state'[q] = "RUNNABLE")

\* Such a step keeps every process linked where it was.
LEMMA LightKept ==
  ASSUME QInv, Light
  PROVE  Kept
  <1>1. In' = In /\ \A p : Linked(p)' <=> Linked(p)
    BY SameIn DEF Light
  <1>2. \A q \in Slots : Alive(q)' <=> Alive(q)
    BY DEF Light, Alive
  <1>3. \A q \in Slots : pc'[q] = "exit2" <=> pc[q] = "exit2"
    BY DEF Light
  <1>4. Placed'
    <2>1. ASSUME NEW b \in Buckets, NEW r \in In[b]
          PROVE  b = priority'[r] /\ r \in Slots /\ state'[r] \notin {"UNUSED", "ZOMBIE"} /\ pc'[r] # "exit2"
      <3>1. b = priority[r] /\ r \in Slots /\ state[r] \notin {"UNUSED", "ZOMBIE"} /\ pc[r] # "exit2"
        BY DEF QInv, MInv, Placed
      <3> QED BY <1>3, <3>1 DEF Light
    <2>2. ASSUME NEW r \in Slots, Alive(r)', pc'[r] # "exit2"
          PROVE  priority'[r] \in Buckets /\ r \in In'[priority'[r]]
      <3>1. priority[r] \in Buckets /\ r \in In[priority[r]]
        BY <1>2, <1>3, <2>2 DEF QInv, MInv, Placed
      <3> QED BY <1>1, <3>1 DEF Light
    <2> QED BY <1>1, <2>1, <2>2 DEF Placed
  <1>5. Forking'
    <2>1. ASSUME NEW q \in Slots, pc'[q] \in ForkPoints PROVE pc'[q] = pc[q] /\ ptr'[q] = ptr[q]
      BY <2>1 DEF Light, ForkPoints
    <2>2. ASSUME NEW q \in Slots, pc'[q] \in {"fork1", "fork2"} PROVE ~Linked(ptr[q])'
      <3>1. ~Linked(ptr[q]) /\ ptr'[q] = ptr[q]
        BY <2>1, <2>2 DEF QInv, MInv, Forking, ForkPoints
      <3> QED BY <1>1, <3>1 DEF Linked
    <2>3. ASSUME NEW q \in Slots, pc'[q] \in {"fork2", "fork3"} PROVE priority'[ptr'[q]] \in Buckets
      BY <2>1, <2>3 DEF QInv, MInv, Forking, ForkPoints, Light
    <2>4. ASSUME NEW q \in Slots, pc'[q] = "fork3" PROVE ptr'[q] \in In'[priority'[ptr'[q]]]
      BY <1>1, <2>1, <2>4 DEF QInv, MInv, Forking, ForkPoints, Light
    <2> QED BY <2>2, <2>3, <2>4 DEF Forking
  <1>6. Undisturbed'
    <2>1. ASSUME NEW q \in Slots PROVE pc'[q] = "exit2" => state'[q] \in {"RUNNING", "ZOMBIE", "UNUSED"}
      BY <1>3 DEF Light, QInv, MInv, Undisturbed
    <2>2. ASSUME NEW q \in Slots PROVE pc'[q] \notin PrioPoints
      BY DEF Light, QInv, MInv, Undisturbed, PrioPoints
    <2> QED BY <2>1, <2>2 DEF Undisturbed
  <1>7. Runnable \subseteq Runnable'
    BY DEF Light, Runnable
  <1> QED BY <1>4, <1>5, <1>6, <1>7 DEF Kept, Light

\* The scheduler's end, the timer, traps and sleep leave the run queue alone.
LEMMA KeptSteps ==
  ASSUME IInv, QInv, "prio_set" \notin Workload
  PROVE  /\ UNCHANGED vars => Kept
         /\ \A c \in CPUs : ScheduleLoops(c) => Kept
         /\ \A p \in Slots : Resume(p) \/ Yield(p) \/ Trap(p) \/ Fault(p) \/ OtherCall(p) \/ Sleep(p) => Kept
         /\ Tick => Kept
  <1> USE TypeFacts, OnCpu, SameIn DEF procVars, queueVars, lockVars, local
  <1> USE DEF Kept, QInv, MInv, Placed, Forking, Undisturbed, PrioPoints, Alive, Runnable, IInv, TInv, TypeOK
  <1>1. CASE UNCHANGED vars
    BY <1>1 DEF vars
  <1>3. ASSUME NEW c \in CPUs, ScheduleLoops(c) PROVE Kept
    BY <1>3 DEF ScheduleLoops
  <1>4. ASSUME NEW p \in Slots, Resume(p) PROVE Kept
    <2>1. /\ UNCHANGED <<state, priority, queue, next, ptr>>
          /\ pc' = pc \/ (pc[p] = "sleep" /\ pc' = [pc EXCEPT ![p] = "user"])
      BY <1>4 DEF Resume
    <2>9. Light
      <3>1. pc \in [Slots -> Points] /\ state \in [Slots -> States] /\ ptr \in [Slots -> Ptr]
        OBVIOUS
      <3> HIDE DEF Kept, QInv, MInv, Placed, Forking, Undisturbed, IInv, TInv, TypeOK
      <3> QED BY <2>1, <3>1 DEF Light, ForkPoints
    <2> HIDE DEF Kept, QInv, MInv, Placed, Forking, Undisturbed
    <2> QED BY <2>9, LightKept
  <1>5. ASSUME NEW p \in Slots, Yield(p) PROVE Kept
    BY <1>5 DEF Yield, SwitchAway
  <1>6. ASSUME Tick PROVE Kept
    BY <1>6 DEF Tick, Wakeup1
  <1>7. ASSUME NEW p \in Slots, Trap(p) PROVE Kept
    BY <1>7 DEF Trap, At, Runs
  <1>8. ASSUME NEW p \in Slots, OtherCall(p) PROVE Kept
    BY <1>8 DEF OtherCall, At, Runs, Return
  <1>9. ASSUME NEW p \in Slots, Fault(p) PROVE Kept
    BY <1>9 DEF Fault, At, Runs
  <1>24. ASSUME NEW p \in Slots, Sleep(p) PROVE Kept
    BY <1>24 DEF Sleep, At, Runs, SwitchAway
  <1> HIDE DEF Kept, QInv, MInv, Placed, Forking, Undisturbed, PrioPoints, Alive, Runnable, IInv, TInv, TypeOK
  <1> QED BY <1>1, <1>3, <1>4, <1>5, <1>6, <1>7, <1>8, <1>9, <1>24

\* fork2 before and after pq1_enqueue: the child is not linked before and has its priority
\* after.
LEMMA ForkSteps ==
  ASSUME IInv, QInv, NEW p \in Slots
  PROVE  /\ \A c \in Cids \cup {NoCid} : AllocProc(p, c) \/ ForkRefused(p, c) => Kept
         /\ ForkFails(p) \/ ForkCopy(p) \/ ForkRunnable(p) => Kept
  <1> USE TypeFacts, OnCpu, SameIn DEF procVars, queueVars, lockVars, local
  <1> USE DEF Kept, QInv, MInv, Placed, Forking, Undisturbed, PrioPoints, ForkPoints, Alive, Runnable
  <1> USE DEF IInv, TInv, TypeOK, LocalsOK, CInv, EmbryoOwned
  <1>1. ASSUME NEW c \in Cids \cup {NoCid}, AllocProc(p, c) PROVE Kept
    <2>1. PICK q \in Slots :
            /\ state[q] = "UNUSED" /\ state' = [state EXCEPT ![q] = "EMBRYO"]
            /\ pc' = [pc EXCEPT ![p] = "fork1", ![q] = "user"] /\ ptr' = [ptr EXCEPT ![p] = q]
      BY <1>1 DEF AllocProc, FirstUnused
    <2>2. UNCHANGED <<priority, queue, next>> /\ state[p] = "RUNNING" /\ pc[p] = "sys"
      BY <1>1 DEF AllocProc, At, Runs
    <2>3. p # q /\ ~Linked(q)
      BY <2>1, <2>2 DEF Linked
    <2>4. Placed'
      <3>1. \A b \in Buckets : \A r \in In[b] : r \in Slots /\ r # q /\ state'[r] = state[r]
        BY <2>1, <2>2, <2>3 DEF Linked
      <3>2. ASSUME NEW b \in Buckets, NEW r \in In'[b]
            PROVE  b = priority'[r] /\ r \in Slots /\ state'[r] \notin {"UNUSED", "ZOMBIE"} /\ pc'[r] # "exit2"
        <4>1. r \in In[b] /\ r # q /\ r \in Slots /\ state'[r] = state[r]
          BY <2>2, <3>1
        <4>2. b = priority[r] /\ state[r] \notin {"UNUSED", "ZOMBIE"} /\ pc[r] # "exit2"
          BY <4>1
        <4>3. pc'[r] # "exit2"
          BY <2>1, <2>3, <4>1, <4>2
        <4> QED BY <2>2, <4>1, <4>2, <4>3
      <3>3. ASSUME NEW r \in Slots, Alive(r)', pc'[r] # "exit2"
            PROVE  priority'[r] \in Buckets /\ r \in In'[priority'[r]]
        <4>1. r # q /\ Alive(r) /\ pc[r] # "exit2" /\ priority'[r] = priority[r]
          BY <2>1, <2>2, <2>3, <3>3
        <4> QED BY <2>1, <2>2, <2>3, <4>1
      <3> QED BY <3>2, <3>3
    <2>5. Forking'
      BY <2>1, <2>2, <2>3
    <2>6. Undisturbed' /\ Runnable \subseteq Runnable'
      BY <2>1, <2>2, <2>3
    <2> QED BY <2>2, <2>4, <2>5, <2>6
  <1>2. ASSUME NEW c \in Cids \cup {NoCid}, ForkRefused(p, c) PROVE Kept
    BY <1>2 DEF ForkRefused, At, Runs, Return
  <1>3. ASSUME ForkFails(p) PROVE Kept
    <2>1. /\ state' = [state EXCEPT ![ptr[p]] = "UNUSED"] /\ UNCHANGED <<priority, queue, next>>
          /\ pc' = [pc EXCEPT ![p] = "user"] /\ ptr' = [ptr EXCEPT ![p] = NULL]
          /\ pc[p] = "fork1" /\ ptr[p] \in Slots /\ state[ptr[p]] = "EMBRYO" /\ state[p] = "RUNNING"
      BY <1>3 DEF ForkFails, At, Runs, Return
    <2>2. ~Linked(ptr[p])
      BY <2>1
    <2>4. Placed'
      <3>1. \A b \in Buckets : \A r \in In[b] : r \in Slots /\ r # ptr[p] /\ state'[r] = state[r]
        BY <2>1, <2>2 DEF Linked
      <3>2. \A b \in Buckets : \A r \in In'[b] : b = priority'[r] /\ r \in Slots /\ state'[r] \notin {"UNUSED", "ZOMBIE"} /\ pc'[r] # "exit2"
        BY <2>1, <2>2, <3>1
      <3>3. ASSUME NEW r \in Slots, Alive(r)', pc'[r] # "exit2"
            PROVE  priority'[r] \in Buckets /\ r \in In'[priority'[r]]
        <4>1. r # ptr[p] /\ Alive(r) /\ pc[r] # "exit2" /\ priority'[r] = priority[r]
          BY <2>1, <2>2, <3>3
        <4> QED BY <2>1, <2>2, <4>1
      <3> QED BY <3>2, <3>3
    <2>5. Forking'
      BY <2>1, <2>2
    <2>6. Undisturbed' /\ Runnable \subseteq Runnable'
      BY <2>1, <2>2
    <2> QED BY <2>1, <2>4, <2>5, <2>6
  <1>4. ASSUME ForkCopy(p) PROVE Kept
    <2>1. /\ UNCHANGED <<state, queue, next, ptr>> /\ pc' = [pc EXCEPT ![p] = "fork2"]
          /\ pc[p] = "fork1" /\ ptr[p] \in Slots /\ state[ptr[p]] = "EMBRYO" /\ state[p] = "RUNNING"
      BY <1>4 DEF ForkCopy, At, Runs
    <2>2. PICK b \in Buckets : priority' = [priority EXCEPT ![ptr[p]] = b]
      BY <1>4, <2>1 DEF ForkCopy
    <2>3. ~Linked(ptr[p])
      BY <2>1
    <2>4. Placed'
      BY <2>1, <2>2, <2>3 DEF Linked
    <2>5. Forking'
      <3>1. \A r \in Slots : pc[r] \in ForkPoints /\ r # p => ptr[r] \in Slots /\ ptr[r] # ptr[p]
        BY <2>1
      <3> QED BY <2>1, <2>2, <2>3, <3>1
    <2>6. Undisturbed' /\ Runnable \subseteq Runnable'
      BY <2>1
    <2> QED BY <2>1, <2>4, <2>5, <2>6
  <1>5. ASSUME ForkRunnable(p) PROVE Kept
    <2>1. /\ state' = [state EXCEPT ![ptr[p]] = "RUNNABLE"] /\ UNCHANGED <<priority, queue, next>>
          /\ pc' = [pc EXCEPT ![p] = "user"] /\ ptr' = [ptr EXCEPT ![p] = NULL]
          /\ pc[p] = "fork3" /\ ptr[p] \in Slots /\ state[ptr[p]] = "EMBRYO" /\ state[p] = "RUNNING"
      BY <1>5 DEF ForkRunnable, At, Runs, Return
    <2>2. priority[ptr[p]] \in Buckets /\ ptr[p] \in In[priority[ptr[p]]]
      BY <2>1
    <2>4. Placed'
      BY <2>1, <2>2
    <2>5. Forking'
      BY <2>1, <2>2
    <2>6. Undisturbed' /\ Runnable \subseteq Runnable'
      BY <2>1, <2>2
    <2> QED BY <2>1, <2>4, <2>5, <2>6
  <1> HIDE DEF Kept
  <1> QED BY <1>1, <1>2, <1>3, <1>4, <1>5

\* exit after remove_node, wait and kill: who is reaped is linked nowhere.
LEMMA OtherSteps ==
  ASSUME IInv, QInv, NEW p \in Slots
  PROVE  /\ ExitFinish(p) \/ ExitLoops(p) \/ WaitReaps(p) \/ WaitReturns(p) \/ WaitSleeps(p) => Kept
         /\ \A k \in 0..MAXPID : Kill(p, k) => Kept
  <1> USE TypeFacts, OnCpu, SameIn DEF procVars, queueVars, lockVars, local
  <1> USE DEF Kept, QInv, MInv, Placed, Forking, Undisturbed, PrioPoints, ForkPoints, Alive, Runnable
  <1> USE DEF IInv, TInv, TypeOK, LocalsOK, CInv, EmbryoOwned
  <1>1. ASSUME ExitFinish(p) PROVE Kept
    <2>1. /\ state' = [state EXCEPT ![p] = "ZOMBIE"] /\ UNCHANGED <<priority, queue, next, pc, ptr>>
          /\ pc[p] = "exit2" /\ state[p] = "RUNNING"
      BY <1>1 DEF ExitFinish, At, Runs
    <2> QED BY <2>1
  <1>2. ASSUME ExitLoops(p) PROVE Kept
    <2>1. state' = ExitWakes(p) /\ UNCHANGED <<priority, queue, next, pc, ptr>>
      BY <1>2 DEF ExitLoops
    <2>2. \A q \in Slots : ExitWakes(p)[q] = state[q] \/ (state[q] = "SLEEPING" /\ ExitWakes(p)[q] = "RUNNABLE")
      BY DEF ExitWakes, Wakeup1
    <2>9. Light
      <3>1. pc \in [Slots -> Points] /\ state \in [Slots -> States] /\ ptr \in [Slots -> Ptr]
        OBVIOUS
      <3> HIDE DEF Kept, QInv, MInv, Placed, Forking, Undisturbed, IInv, TInv, TypeOK
      <3> QED BY <2>1, <2>2, <3>1 DEF Light, ForkPoints
    <2> HIDE DEF Kept, QInv, MInv, Placed, Forking, Undisturbed
    <2> QED BY <2>9, LightKept
  <1>3. ASSUME WaitReaps(p) PROVE Kept
    <2>1. PICK q \in Slots :
            /\ state[q] = "ZOMBIE" /\ state' = [state EXCEPT ![q] = "UNUSED"]
            /\ priority' = [priority EXCEPT ![q] = -1]
      BY <1>3 DEF WaitReaps, FirstZombie, Zombies, Children
    <2>2. /\ pc' = [pc EXCEPT ![p] = "user"] /\ ptr' = [ptr EXCEPT ![p] = NULL]
          /\ UNCHANGED <<queue, next>> /\ pc[p] \in {"sys", "wait"} /\ state[p] = "RUNNING"
      BY <1>3 DEF WaitReaps, Waits, Return
    <2>3. p # q /\ ~Linked(q)
      BY <2>1, <2>2 DEF Linked
    <2>4. Placed'
      BY <2>1, <2>2, <2>3 DEF Linked
    <2>5. Forking'
      <3>1. \A r \in Slots : pc[r] \in ForkPoints => ptr[r] \in Slots /\ ptr[r] # q
        BY <2>1
      <3> QED BY <2>1, <2>2, <2>3, <3>1
    <2>6. Undisturbed' /\ Runnable \subseteq Runnable'
      BY <2>1, <2>2
    <2> QED BY <2>2, <2>4, <2>5, <2>6
  <1>4. ASSUME WaitReturns(p) PROVE Kept
    BY <1>4 DEF WaitReturns, Waits, Return
  <1>5. ASSUME WaitSleeps(p) PROVE Kept
    <2>1. /\ state' = [state EXCEPT ![p] = "SLEEPING"] /\ pc' = [pc EXCEPT ![p] = "wait"]
          /\ UNCHANGED <<priority, queue, next, ptr>> /\ state[p] = "RUNNING" /\ pc[p] \in {"sys", "wait"}
      BY <1>5 DEF WaitSleeps, Waits
    <2> QED BY <2>1
  <1>6. ASSUME NEW k \in 0..MAXPID, Kill(p, k) PROVE Kept
    <2>1. PICK q \in Slots :
            state' = IF state[q] = "SLEEPING" THEN [state EXCEPT ![q] = "RUNNABLE"] ELSE state
      BY <1>6 DEF Kill
    <2>2. /\ pc' = [pc EXCEPT ![p] = "user"] /\ ptr' = [ptr EXCEPT ![p] = NULL]
          /\ UNCHANGED <<priority, queue, next>> /\ pc[p] = "sys"
      BY <1>6 DEF Kill, At, Runs, Return
    <2>9. Light
      <3>1. pc \in [Slots -> Points] /\ state \in [Slots -> States] /\ ptr \in [Slots -> Ptr]
        OBVIOUS
      <3> HIDE DEF Kept, QInv, MInv, Placed, Forking, Undisturbed, IInv, TInv, TypeOK
      <3> QED BY <2>1, <2>2, <3>1 DEF Light, ForkPoints
    <2> HIDE DEF Kept, QInv, MInv, Placed, Forking, Undisturbed
    <2> QED BY <2>9, LightKept
  <1> HIDE DEF Kept
  <1> QED BY <1>1, <1>2, <1>3, <1>4, <1>5, <1>6

\* fork2: the child is linked once, in front of its priority.
LEMMA ForkEnqueueServes ==
  ASSUME IInv, QInv, NEW p \in Slots, ForkEnqueue(p)
  PROVE  QInv' /\ Serves
  <1>1. /\ pc[p] = "fork2" /\ pc' = [pc EXCEPT ![p] = "fork3"] /\ UNCHANGED <<state, priority, ptr>>
        /\ SetQueue(Enqueue(RunQueue, ptr[p], priority[ptr[p]]))
    BY DEF ForkEnqueue, At, Runs, procVars
  <1>2. pc \in [Slots -> Points] /\ ptr \in [Slots -> Ptr]
    BY DEF IInv, TInv, TypeOK
  <1>3. /\ ptr[p] \in Slots /\ state[ptr[p]] = "EMBRYO"
        /\ \A r \in Slots : pc[r] \in ForkPoints /\ r # p => ptr[r] # ptr[p]
    BY <1>1 DEF IInv, TInv, LocalsOK, CInv, EmbryoOwned, ForkPoints
  <1>4. ~Linked(ptr[p]) /\ priority[ptr[p]] \in Buckets
    BY <1>1 DEF QInv, MInv, Forking
  <1>5. PICK np \in Slots : np = ptr[p]
    BY <1>3
  <1>6. PICK b \in Buckets : b = priority[np]
    BY <1>4, <1>5
  <1>7. ~Linked(np) /\ SetQueue(Enqueue(RunQueue, np, b))
    BY <1>1, <1>4, <1>5, <1>6
  <1>8. /\ Pointers(RunQueue)' /\ Lists(RunQueue)' /\ In' = [In EXCEPT ![b] = In[b] \cup {np}]
        /\ \A q \in Slots \ {np} : next'[q] = next[q]
        /\ SeqF'[b] = <<np>> \o SeqF[b]
        /\ \A a \in Buckets \ {b} : SeqF'[a] = SeqF[a]
    BY <1>7, EnqueueQueue
  <1>9. \A a \in Buckets : In'[a] = IF a = b THEN In[a] \cup {np} ELSE In[a]
    BY <1>8 DEF In
  <1>10. \A x : Linked(x)' <=> Linked(x) \/ x = np
    BY <1>9 DEF Linked
  <1>11. state[np] = "EMBRYO" /\ np # p /\ pc[np] # "exit2" /\ pc'[np] = pc[np]
    <2>1. state[p] # "EMBRYO"
      BY <1>1, OnCpu DEF ForkEnqueue, At, Runs
    <2> QED BY <1>1, <1>2, <1>3, <1>5, <2>1 DEF QInv, MInv, Undisturbed
  <1>12. Placed'
    <2>1. ASSUME NEW a \in Buckets, NEW q \in In'[a]
          PROVE  a = priority'[q] /\ q \in Slots /\ state'[q] \notin {"UNUSED", "ZOMBIE"} /\ pc'[q] # "exit2"
      <3>1. CASE q = np
        <4>1. a = b
          BY <1>7, <1>9, <2>1, <3>1 DEF Linked
        <4> QED BY <1>1, <1>6, <1>11, <3>1, <4>1
      <3>2. CASE q # np
        <4>1. q \in In[a]
          BY <1>9, <2>1, <3>2
        <4>2. a = priority[q] /\ q \in Slots /\ state[q] \notin {"UNUSED", "ZOMBIE"} /\ pc[q] # "exit2"
          BY <4>1 DEF QInv, MInv, Placed
        <4> QED BY <1>1, <1>2, <4>2
      <3> QED BY <3>1, <3>2
    <2>2. ASSUME NEW q \in Slots, Alive(q)', pc'[q] # "exit2"
          PROVE  priority'[q] \in Buckets /\ q \in In'[priority'[q]]
      <3>1. Alive(q) /\ pc[q] # "exit2"
        BY <1>1, <1>2, <2>2 DEF Alive
      <3>2. priority[q] \in Buckets /\ q \in In[priority[q]]
        BY <3>1 DEF QInv, MInv, Placed
      <3> QED BY <1>1, <1>9, <3>2
    <2> QED BY <2>1, <2>2 DEF Placed
  <1>13. Loose'
    BY <1>8, <1>10 DEF QInv, MInv, Loose
  <1>14. Forking'
    <2>1. ASSUME NEW q \in Slots, pc'[q] \in ForkPoints, q # p
          PROVE  pc'[q] = pc[q] /\ ptr'[q] = ptr[q] /\ ptr[q] # np
      BY <1>1, <1>2, <1>3, <1>5, <2>1
    <2>2. ASSUME NEW q \in Slots, pc'[q] \in {"fork1", "fork2"} PROVE ~Linked(ptr[q])'
      <3>1. q # p
        BY <1>1, <1>2, <2>2
      <3>2. ~Linked(ptr[q]) /\ ptr'[q] = ptr[q] /\ ptr[q] # np
        BY <2>1, <2>2, <3>1 DEF QInv, MInv, Forking, ForkPoints
      <3> QED BY <1>9, <3>2 DEF Linked
    <2>3. ASSUME NEW q \in Slots, pc'[q] \in {"fork2", "fork3"} PROVE priority'[ptr'[q]] \in Buckets
      <3>1. CASE q = p
        BY <1>1, <1>4, <3>1
      <3>2. CASE q # p
        BY <1>1, <2>1, <2>3, <3>2 DEF QInv, MInv, Forking, ForkPoints
      <3> QED BY <3>1, <3>2
    <2>4. ASSUME NEW q \in Slots, pc'[q] = "fork3" PROVE ptr'[q] \in In'[priority'[ptr'[q]]]
      <3>1. CASE q = p
        <4>1. ptr'[q] = np /\ priority'[np] = b /\ np \in In'[b]
          BY <1>1, <1>5, <1>6, <1>9, <3>1
        <4> QED BY <4>1
      <3>2. CASE q # p
        <4>1. pc[q] = "fork3" /\ ptr'[q] = ptr[q]
          BY <2>1, <2>4, <3>2 DEF ForkPoints
        <4>2. priority[ptr[q]] \in Buckets /\ ptr[q] \in In[priority[ptr[q]]]
          BY <4>1 DEF QInv, MInv, Forking
        <4> QED BY <1>1, <1>9, <4>1, <4>2
      <3> QED BY <3>1, <3>2
    <2> QED BY <2>2, <2>3, <2>4 DEF Forking
  <1>15. Undisturbed'
    BY <1>1, <1>2 DEF QInv, MInv, Undisturbed, PrioPoints
  <1>16. Queue!Push(np, b)
    <2>1. \A a \in Buckets : np \notin Queue!Range(SeqF[a])
      BY <1>7, SeqMembers DEF Linked
    <2>2. ~Queue!Linked(np)
      BY <2>1 DEF Queue!Linked, SeqF
    <2>3. Runnable' = Runnable
      BY <1>1 DEF Runnable
    <2>4. Queue!Becomes(b, <<np>> \o SeqF[b])
      BY <1>8 DEF Queue!Becomes, SeqF
    <2> QED BY <2>2, <2>3, <2>4 DEF Queue!Push, SeqF
  <1>17. Queue!Next
    BY <1>16 DEF Queue!Next
  <1> QED BY <1>8, <1>12, <1>13, <1>14, <1>15, <1>17 DEF QInv, MInv, Serves

\* remove_node finds the process that exits and no other.
LEMMA ExitServes ==
  ASSUME IInv, QInv, NEW p \in Slots, Exit(p) \/ ExitReleasesMutex(p)
  PROVE  QInv' /\ Serves
  <1>1. state[p] = "RUNNING" /\ pc[p] \in {"sys", "user"}
    BY OnCpu DEF Exit, ExitReleasesMutex, Exiting, At, Runs
  <1>2. /\ pc \in [Slots -> Points] /\ ptr \in [Slots -> Ptr]
        /\ UNCHANGED <<priority, ptr>> /\ SetQueue(Remove(RunQueue, priority[p], SamePid(p)))
    BY DEF IInv, TInv, TypeOK, Exit, ExitReleasesMutex, local
  <1>3. \A q \in Slots : ExitWakes(p)[q] = state[q] \/ (state[q] = "SLEEPING" /\ ExitWakes(p)[q] = "RUNNABLE")
    BY DEF ExitWakes, Wakeup1
  <1>4. DOMAIN ExitWakes(p) = Slots
    BY DEF ExitWakes, Wakeup1
  <1>5. /\ \A q \in Slots \ {p} : /\ pc'[q] = pc[q]
                                  /\ state'[q] = state[q] \/ (state[q] = "SLEEPING" /\ state'[q] = "RUNNABLE")
        /\ (state'[p] = "ZOMBIE" /\ pc'[p] = pc[p]) \/ (state'[p] = "RUNNING" /\ pc'[p] = "exit2")
    <2>1. CASE Exit(p)
      <3>1. state' = [ExitWakes(p) EXCEPT ![p] = "ZOMBIE"] /\ pc' = pc
        BY <2>1 DEF Exit, local
      <3> QED BY <1>3, <1>4, <3>1
    <2>2. CASE ExitReleasesMutex(p)
      <3>1. state' = ExitWakes(p) /\ pc' = [pc EXCEPT ![p] = "exit2"]
        BY <2>2 DEF ExitReleasesMutex
      <3> QED BY <1>1, <1>2, <1>3, <3>1
    <2> QED BY <2>1, <2>2
  <1>6. priority[p] \in Buckets /\ p \in In[priority[p]]
    BY <1>1 DEF QInv, MInv, Placed, Alive
  <1>7. PICK b \in Buckets : b = priority[p] /\ p \in In[b]
    BY <1>6
  <1>8. PICK Same : Same = SamePid(p)
    OBVIOUS
  <1>9. In[b] \cap Same = {p} /\ NULL \notin Same
    <2>1. \A q \in In[b] : q \in Slots /\ state[q] # "UNUSED"
      BY DEF QInv, MInv, Placed
    <2>2. \A q \in In[b] : pid[q] = pid[p] => q = p
      BY <1>1, <2>1 DEF IInv, PidsUnique
    <2> QED BY <1>7, <1>8, <2>1, <2>2, TypeFacts DEF SamePid
  <1>10. SetQueue(Remove(RunQueue, b, Same))
    BY <1>2, <1>7, <1>8
  <1>11. /\ Pointers(RunQueue)' /\ Lists(RunQueue)' /\ In' = [In EXCEPT ![b] = In[b] \ {p}]
         /\ \A q \in Slots \ In[b] : next'[q] = next[q]
         /\ next'[p] = NULL
    BY <1>7, <1>9, <1>10, RemoveQueue
  <1>12. \A a \in Buckets : In'[a] = In[a] \ {p}
    <2>1. \A a \in Buckets \ {b} : p \notin In[a]
      BY <1>7 DEF QInv, MInv, Placed
    <2>2. \A a \in Buckets : In'[a] = IF a = b THEN In[a] \ {p} ELSE In[a]
      BY <1>11 DEF In
    <2> QED BY <2>1, <2>2
  <1>13. Placed'
    <2>1. ASSUME NEW a \in Buckets, NEW q \in In'[a]
          PROVE  a = priority'[q] /\ q \in Slots /\ state'[q] \notin {"UNUSED", "ZOMBIE"} /\ pc'[q] # "exit2"
      <3>1. q \in In[a] /\ q # p
        BY <1>12, <2>1
      <3>2. a = priority[q] /\ q \in Slots /\ state[q] \notin {"UNUSED", "ZOMBIE"} /\ pc[q] # "exit2"
        BY <3>1 DEF QInv, MInv, Placed
      <3> QED BY <1>2, <1>5, <3>1, <3>2
    <2>2. ASSUME NEW q \in Slots, Alive(q)', pc'[q] # "exit2"
          PROVE  priority'[q] \in Buckets /\ q \in In'[priority'[q]]
      <3>1. q # p /\ Alive(q) /\ pc[q] # "exit2"
        BY <1>5, <2>2 DEF Alive
      <3>2. priority[q] \in Buckets /\ q \in In[priority[q]]
        BY <3>1 DEF QInv, MInv, Placed
      <3> QED BY <1>2, <1>12, <3>1, <3>2
    <2> QED BY <2>1, <2>2 DEF Placed
  <1>14. Loose'
    <2>1. ASSUME NEW q \in Slots, ~Linked(q)', q # p PROVE next'[q] = NULL
      <3>1. ~Linked(q)
        BY <1>12, <2>1 DEF Linked
      <3>2. q \notin In[b] /\ next[q] = NULL
        BY <3>1 DEF Linked, QInv, MInv, Loose
      <3> QED BY <1>11, <3>2
    <2> QED BY <1>11, <2>1 DEF Loose
  <1>15. Forking'
    <2>1. ASSUME NEW q \in Slots, pc'[q] \in ForkPoints
          PROVE  pc'[q] = pc[q] /\ ptr'[q] = ptr[q] /\ ptr[q] # p
      <3>1. q # p
        BY <1>1, <1>5, <2>1 DEF ForkPoints
      <3>2. pc'[q] = pc[q] /\ ptr'[q] = ptr[q]
        BY <1>2, <1>5, <3>1
      <3> QED BY <1>1, <2>1, <3>2 DEF IInv, CInv, EmbryoOwned
    <2>2. ASSUME NEW q \in Slots, pc'[q] \in {"fork1", "fork2"} PROVE ~Linked(ptr[q])'
      <3>1. ~Linked(ptr[q]) /\ ptr'[q] = ptr[q]
        BY <2>1, <2>2 DEF QInv, MInv, Forking, ForkPoints
      <3> QED BY <1>12, <3>1 DEF Linked
    <2>3. ASSUME NEW q \in Slots, pc'[q] \in {"fork2", "fork3"} PROVE priority'[ptr'[q]] \in Buckets
      BY <1>2, <2>1, <2>3 DEF QInv, MInv, Forking, ForkPoints
    <2>4. ASSUME NEW q \in Slots, pc'[q] = "fork3" PROVE ptr'[q] \in In'[priority'[ptr'[q]]]
      <3>1. pc[q] = "fork3" /\ ptr'[q] = ptr[q] /\ ptr[q] # p
        BY <2>1, <2>4 DEF ForkPoints
      <3>2. priority[ptr[q]] \in Buckets /\ ptr[q] \in In[priority[ptr[q]]]
        BY <3>1 DEF QInv, MInv, Forking
      <3> QED BY <1>2, <1>12, <3>1, <3>2
    <2> QED BY <2>2, <2>3, <2>4 DEF Forking
  <1>16. Undisturbed'
    <2>1. ASSUME NEW q \in Slots PROVE pc'[q] = "exit2" => state'[q] \in {"RUNNING", "ZOMBIE", "UNUSED"}
      BY <1>5 DEF QInv, MInv, Undisturbed
    <2>2. ASSUME NEW q \in Slots PROVE pc'[q] \notin PrioPoints
      BY <1>5 DEF QInv, MInv, Undisturbed, PrioPoints
    <2> QED BY <2>1, <2>2 DEF Undisturbed
  <1>17. Queue!Drop(p, b)
    <2>1. PICK s \in Seq(Slots) : \E k \in 1..Len(s) :
              /\ IsList(RunQueue, b, s) /\ s[k] = p /\ \A i, j \in 1..Len(s) : s[i] = s[j] => i = j
              /\ SeqF[b] = s /\ SeqF'[b] = Cut(s, k)
              /\ \A a \in Buckets \ {b} : SeqF'[a] = SeqF[a]
      BY <1>7, <1>9, <1>10, RemoveQueue
    <2>2. PICK k \in 1..Len(s) :
              /\ s[k] = p /\ \A i, j \in 1..Len(s) : s[i] = s[j] => i = j
              /\ SeqF[b] = s /\ SeqF'[b] = Cut(s, k)
              /\ \A a \in Buckets \ {b} : SeqF'[a] = SeqF[a]
      BY <2>1
    <2>3. Queue!Without(p, b) = Cut(s, k) /\ p \in Queue!Range(SeqF[b])
      BY <2>2, QueueWithout
    <2>4. Queue!Becomes(b, Queue!Without(p, b))
      BY <2>2, <2>3 DEF Queue!Becomes, SeqF
    <2>5. Runnable \subseteq Runnable'
      BY <1>1, <1>5 DEF Runnable
    <2> QED BY <2>3, <2>4, <2>5 DEF Queue!Drop, SeqF
  <1>18. Queue!Next
    BY <1>17 DEF Queue!Next
  <1> QED BY <1>11, <1>13, <1>14, <1>15, <1>16, <1>18 DEF QInv, MInv, Serves

\* The first node of a list that belongs to S.
LEMMA FirstInList ==
  ASSUME NEW L, NEW b, NEW s, IsList(L, b, s), NEW S, NULL \notin S, Bucket(L, b) \cap S # {}
  PROVE  \E k \in 1..Len(s) :
           /\ Walk(L, b)[FirstAt(L, b, S)] = s[k] /\ s[k] \in S
           /\ \A j \in 1..(k - 1) : s[j] \notin S
  <1>1. PICK n \in 0..NPROC : n = Len(s) /\ NPROC \in Nat
    BY ListLength, QueueConstants
  <1>2. PICK w : w = Walk(L, b)
    OBVIOUS
  <1>3. \A i \in 0..NPROC : w[i] = IF i < n THEN s[i + 1] ELSE NULL
    BY <1>1, <1>2, ListWalk
  <1>4. PICK m \in 0..NPROC : w[m] \in S
    BY <1>2 DEF Bucket
  <1>5. PICK f \in 0..NPROC : w[f] \in S /\ \A i \in 0..NPROC : w[i] \in S => f <= i
    <2>1. {i \in 0..NPROC : w[i] \in S} \in SUBSET Nat /\ {i \in 0..NPROC : w[i] \in S} # {}
      BY <1>1, <1>4
    <2> QED BY <2>1, Least
  <1>6. \A j \in 0..(f - 1) : w[j] \notin S
    <2>1. \A j \in 0..(f - 1) : j \in 0..NPROC /\ ~(f <= j)
      BY <1>1
    <2> QED BY <1>5, <2>1
  <1>7. PICK g : /\ g = FirstAt(L, b, S) /\ g \in 0..NPROC /\ w[g] \in S
                 /\ \A j \in 0..(g - 1) : w[j] \notin S
    <2>1. \E i \in 0..NPROC : w[i] \in S /\ \A j \in 0..(i - 1) : w[j] \notin S
      BY <1>5, <1>6
    <2> QED BY <1>2, <2>1 DEF FirstAt
  <1>8. g < n /\ w[g] = s[g + 1]
    BY <1>3, <1>7
  <1>9. g + 1 \in 1..n /\ (g + 1) - 1 = g
    BY <1>1, <1>7, <1>8
  <1>10. ASSUME NEW j \in 1..g PROVE s[j] \notin S
    <2>1. j - 1 \in 0..(g - 1) /\ j - 1 \in 0..NPROC /\ j - 1 < n /\ (j - 1) + 1 = j
      BY <1>1, <1>7, <1>8
    <2>2. w[j - 1] = s[j]
      BY <1>3, <2>1
    <2> QED BY <1>7, <2>1, <2>2
  <1>11. \A j \in 1..((g + 1) - 1) : s[j] \notin S
    BY <1>9, <1>10
  <1> QED BY <1>1, <1>2, <1>7, <1>8, <1>9, <1>11

\* scheduler: the process that pq1_dequeue returns is the one the sequences promise.
LEMMA ScheduleServes ==
  ASSUME IInv, QInv, NEW c \in CPUs, Schedule(c)
  PROVE  QInv' /\ Serves
  <1>1. PICK p \in Runnable :
          /\ Picked(RunQueue, p, Runnable) /\ SetQueue(Rotate(RunQueue, p, priority))
          /\ state' = [state EXCEPT ![p] = "RUNNING"]
    BY DEF Schedule
  <1>2. UNCHANGED <<priority, pc, ptr>> /\ state \in [Slots -> States]
    BY DEF Schedule, local, IInv, TInv, TypeOK
  <1>3. p \in Slots /\ state[p] = "RUNNABLE" /\ NULL \notin Runnable
    BY TypeFacts DEF Runnable
  <1>4. PICK b \in Buckets :
          ScanStops(RunQueue, b, Runnable) /\ p = Walk(RunQueue, b)[FirstAt(RunQueue, b, Runnable)]
    BY <1>1 DEF Picked
  <1>5. PICK s : IsList(RunQueue, b, s)
    BY DEF QInv, Lists
  <1>6. PICK k \in 1..Len(s) : p = s[k] /\ \A j \in 1..(k - 1) : s[j] \notin Runnable
    <2>1. Bucket(RunQueue, b) \cap Runnable # {}
      BY <1>4 DEF ScanStops, HasRunnable
    <2> QED BY <1>3, <1>4, <1>5, <2>1, FirstInList
  <1>7. p \in In[b] /\ SeqF[b] = s
    BY <1>5, <1>6, ListBucket, ListAsSeq DEF In, SeqF
  <1>8. /\ Pointers(RunQueue)' /\ Lists(RunQueue)' /\ In' = In
        /\ \A q \in Slots \ In[b] : next'[q] = next[q]
    BY <1>1, <1>3, <1>7, RotateQueue
  <1>9. \A x : Linked(x)' <=> Linked(x)
    BY <1>8 DEF Linked
  <1>10. Placed'
    <2>1. ASSUME NEW a \in Buckets, NEW q \in In'[a]
          PROVE  a = priority'[q] /\ q \in Slots /\ state'[q] \notin {"UNUSED", "ZOMBIE"} /\ pc'[q] # "exit2"
      <3>1. a = priority[q] /\ q \in Slots /\ state[q] \notin {"UNUSED", "ZOMBIE"} /\ pc[q] # "exit2"
        BY <1>8, <2>1 DEF QInv, MInv, Placed
      <3> QED BY <1>1, <1>2, <3>1
    <2>2. ASSUME NEW q \in Slots, Alive(q)', pc'[q] # "exit2"
          PROVE  priority'[q] \in Buckets /\ q \in In'[priority'[q]]
      <3>1. Alive(q) /\ pc[q] # "exit2"
        BY <1>1, <1>2, <1>3, <2>2 DEF Alive
      <3> QED BY <1>2, <1>8, <3>1 DEF QInv, MInv, Placed
    <2> QED BY <2>1, <2>2 DEF Placed
  <1>11. Loose'
    <2>1. ASSUME NEW q \in Slots, ~Linked(q)' PROVE next'[q] = NULL
      <3>1. ~Linked(q) /\ q \notin In[b]
        BY <1>9, <2>1 DEF Linked
      <3> QED BY <1>8, <3>1 DEF QInv, MInv, Loose
    <2> QED BY <2>1 DEF Loose
  <1>12. Forking'
    BY <1>2, <1>8, <1>9 DEF QInv, MInv, Forking
  <1>13. Undisturbed'
    BY <1>1, <1>2, <1>3 DEF QInv, MInv, Undisturbed
  <1>14. Queue!Serve(p, b)
    <2>1. PICK u \in Seq(Slots) : \E j \in 1..Len(u) :
              /\ IsList(RunQueue, b, u) /\ u[j] = p /\ \A x, y \in 1..Len(u) : u[x] = u[y] => x = y
              /\ SeqF[b] = u /\ SeqF'[b] = Append(Cut(u, j), p)
              /\ \A a \in Buckets \ {b} : SeqF'[a] = SeqF[a]
      BY <1>1, <1>3, <1>7, RotateQueue
    <2>2. PICK j \in 1..Len(u) :
              /\ u[j] = p /\ \A x, y \in 1..Len(u) : u[x] = u[y] => x = y
              /\ SeqF[b] = u /\ SeqF'[b] = Append(Cut(u, j), p)
              /\ \A a \in Buckets \ {b} : SeqF'[a] = SeqF[a]
      BY <2>1
    <2>3. Queue!Without(p, b) = Cut(u, j)
      BY <2>2, QueueWithout
    <2>4. Queue!Becomes(b, Append(Queue!Without(p, b), p))
      BY <2>2, <2>3 DEF Queue!Becomes, SeqF
    <2>5. Runnable' = Runnable \ {p}
      BY <1>1, <1>2, <1>3 DEF Runnable
    <2>6. \A a \in Buckets : a < b => Queue!Range(SeqF[a]) \cap Runnable = {}
      <3>1. ASSUME NEW a \in Buckets, a < b PROVE a \in 0..(b - 1)
        BY <3>1, SizesAssumption DEF Buckets
      <3>2. \A a \in 0..(b - 1) : Bucket(RunQueue, a) \cap Runnable = {}
        BY <1>4 DEF ScanStops, HasRunnable
      <3>3. \A a \in Buckets : Queue!Range(SeqF[a]) = Bucket(RunQueue, a)
        BY SeqMembers DEF In
      <3> QED BY <3>1, <3>2, <3>3
    <2>7. k \in DOMAIN SeqF[b] /\ SeqF[b][k] = p /\ \A i \in 1..(k - 1) : SeqF[b][i] \notin Runnable
      <3>1. DOMAIN s = 1..Len(s)
        BY <1>5, LenProperties DEF IsList
      <3> QED BY <1>6, <1>7, <3>1
    <2> QED BY <1>1, <2>4, <2>5, <2>6, <2>7 DEF Queue!Serve, SeqF
  <1>15. Queue!Next
    BY <1>3, <1>14 DEF Queue!Next
  <1> QED BY <1>8, <1>10, <1>11, <1>12, <1>13, <1>15 DEF QInv, MInv, Serves

\* Every step keeps the invariant and is a step of the abstract queue.
LEMMA NextQInv ==
  ASSUME "prio_set" \notin Workload, IInv, QInv, [Next]_vars
  PROVE  QInv' /\ Serves
  <1>1. Kept => QInv' /\ Serves
    BY KeptQInv
  <1>2. \A p \in Slots : pc[p] \notin PrioPoints
    BY DEF QInv, MInv, Undisturbed
  <1>3. \A p \in Slots : ~PrioRest(p)
    BY <1>2 DEF PrioRest, PrioRemove, PrioRemoveLoops, PrioAssign, PrioEnqueue, At, Runs, PrioPoints
  <1>4. \A p \in Slots : ~PrioSets(p)
    BY DEF PrioSets, PrioSet
  <1>5. CASE UNCHANGED vars
    BY <1>1, <1>5, KeptSteps
  <1>6. ASSUME NEW c \in CPUs, Schedule(c) \/ ScheduleLoops(c) PROVE QInv' /\ Serves
    BY <1>1, <1>6, KeptSteps, ScheduleServes
  <1>7. ASSUME NEW p \in Slots, Resume(p) \/ Yield(p) \/ Trap(p) \/ Fault(p) \/ OtherCall(p) \/ Sleep(p)
        PROVE  QInv' /\ Serves
    BY <1>1, <1>7, KeptSteps
  <1>8. ASSUME NEW p \in Slots, Fork(p) \/ ForkRest(p) PROVE QInv' /\ Serves
    BY <1>1, <1>8, ForkSteps, ForkEnqueueServes DEF Fork, ForkRest
  <1>9. ASSUME NEW p \in Slots, Exits(p) \/ Wait(p) \/ Kills(p) PROVE QInv' /\ Serves
    BY <1>1, <1>9, OtherSteps, ExitServes DEF Exits, Wait, Kills
  <1>10. CASE Tick
    BY <1>1, <1>10, KeptSteps
  <1> QED BY <1>3, <1>4, <1>5, <1>6, <1>7, <1>8, <1>9, <1>10 DEF Next, Syscall

\* userinit leaves init alone in bucket 0.
LEMMA InitQInv == Init => QInv
  <1> SUFFICES ASSUME Init PROVE QInv
    OBVIOUS
  <1>1. PICK L : L = RunQueue /\ L.queue = queue /\ L.next = next
    <2>1. RunQueue.queue = queue /\ RunQueue.next = next
      BY DEF RunQueue
    <2> QED BY <2>1
  <1>2. /\ L.queue = [b \in Buckets |-> IF b = 0 THEN initproc ELSE NULL]
        /\ L.next = [p \in Slots |-> NULL]
    BY <1>1 DEF Init
  <1>3. Pointers(L)
    BY <1>2, TypeFacts DEF Pointers
  <1>4. IsList(L, 0, <<initproc>>)
    BY <1>2, TypeFacts DEF IsList
  <1>5. \A b \in Buckets \ {0} : IsList(L, b, <<>>)
    BY <1>2, TypeFacts DEF IsList
  <1>6. Lists(L)
    BY <1>4, <1>5 DEF Lists
  <1>7. In[0] = {initproc} /\ \A b \in Buckets \ {0} : In[b] = {}
    <2>1. Bucket(L, 0) = {initproc}
      <3>1. PICK s : s = <<initproc>> /\ Len(s) = 1 /\ s[1] = initproc
        <4>1. Len(<<initproc>>) = 1 /\ <<initproc>>[1] = initproc
          OBVIOUS
        <4> QED BY <4>1
      <3>2. Bucket(L, 0) = {s[i] : i \in 1..1}
        BY <1>4, <3>1, ListBucket
      <3> QED BY <3>1, <3>2
    <2>2. \A b \in Buckets \ {0} : Bucket(L, b) = {}
      <3>1. PICK s : s = <<>> /\ Len(s) = 0
        OBVIOUS
      <3>2. \A b \in Buckets \ {0} : Bucket(L, b) = {s[i] : i \in 1..0}
        BY <1>5, <3>1, ListBucket
      <3> QED BY <3>2
    <2> QED BY <1>1, <2>1, <2>2, TypeFacts DEF In
  <1>8. Placed
    BY <1>7, TypeFacts DEF Placed, Init, Alive
  <1>9. Loose /\ Forking /\ Undisturbed
    BY <1>7 DEF Loose, Forking, Undisturbed, Init, PrioPoints
  <1> QED BY <1>1, <1>3, <1>6, <1>8, <1>9 DEF QInv, MInv

\* pq1_enqueue/pq1_dequeue/remove_node: without prio_set the lists end, and a live process
\* is linked exactly into the bucket of its priority, on any number of CPUs and slots.
THEOREM QueueConsistent ==
  ASSUME "prio_set" \notin Workload
  PROVE  Spec => []QueueOK
  <1>1. IInv /\ QInv /\ [Next]_vars => QInv'
    BY NextQInv
  <1>2. QInv => QueueOK
    <2> SUFFICES ASSUME QInv PROVE QueueOK
      OBVIOUS
    <2>1. queue \in [Buckets -> Ptr] /\ next \in [Slots -> Ptr]
      BY DEF QInv, Pointers, RunQueue
    <2>2. \A b \in Buckets : ~Endless(RunQueue, b)
      BY ListBucket DEF QInv, Lists
    <2>3. /\ \A b \in Buckets : \A p \in In[b] : b = priority[p] /\ state[p] \notin {"UNUSED", "ZOMBIE"}
          /\ \A p \in Slots : Alive(p) /\ pc[p] # "exit2" => p \in In[priority[p]]
      BY DEF QInv, MInv, Placed
    <2> QED BY <2>1, <2>2, <2>3 DEF QueueOK, In
  <1> QED BY <1>1, <1>2, InitQInv, Invariance, PTL DEF Spec

\* The linked lists of proc.c implement the sequences of RunQueueSpec: fork2 puts the child
\* in front of its priority, the scheduler serves the first RUNNABLE process of the best
\* priority and moves it to the end, exit takes its process out, and nothing else happens.
THEOREM QueueImplementsSpec ==
  ASSUME "prio_set" \notin Workload
  PROVE  Spec => ImplementsRunQueue
  <1>1. IInv /\ QInv /\ [Next]_vars => QInv' /\ [Queue!Next]_<<[b \in Buckets |-> AsSeq(RunQueue, b)], Runnable>>
    BY NextQInv DEF Serves, SeqF
  <1>2. QInv => Queue!Init
    <2>1. QInv => SeqF \in [Buckets -> Seq(Slots)]
      BY SeqMembers DEF SeqF
    <2> QED BY <2>1 DEF Queue!Init, SeqF, Runnable
  <1> QED BY <1>1, <1>2, InitQInv, Invariance, PTL DEF Spec, ImplementsRunQueue, Queue!Spec

=============================================================================
