-------------------------------- MODULE Proc --------------------------------
(***************************************************************************)
(* The process table and the per-CPU scheduler of proc.c, with the parts   *)
(* of trap.c, sysproc.c and container.c that drive them: fork2, exit,      *)
(* wait, kill, yield, sleep/wakeup, the priority scheduler, prio_set and   *)
(* the process count of a container.                                       *)
(*                                                                         *)
(* A step is one critical section, or one stretch of kernel code between   *)
(* two of them.  ptable.lock and prioqueue.lock are therefore free between *)
(* steps, with two exceptions that are kept in the state: the scheduler    *)
(* switches to a process with ptable.lock held and the process releases it *)
(* (ptlock), and a loop over a list closed on itself never gives its locks *)
(* back (pqlock, ptlock).                                                  *)
(*                                                                         *)
(* Kernel code runs with interrupts on wherever it holds no spinlock, so   *)
(* the timer may take the CPU away between any two steps of a process      *)
(* (yield), except inside exit's pushcli section.                          *)
(***************************************************************************)
EXTENDS PrioQueue, FiniteSets

CONSTANTS NCPU,       \* number of CPUs (Makefile: CPUS)
          MAXPID,     \* bound on nextpid
          Cids,       \* the container ids in use
          MaxProc,    \* max_proc of every container
          Workload    \* what user programs and the machine do in this instance

Calls == {"fork", "exit", "wait", "kill", "sleep", "prio_set",  \* system calls
          "fault",    \* a user process traps on a bad access
          "oom",      \* kalloc and copyuvm may fail
          "mutex"}    \* a process may own a mutex when it exits

ASSUME ProcAssumption ==
  /\ NCPU \in Nat \ {0}
  /\ MAXPID \in Nat \ {0}
  /\ Cids \subseteq Nat
  /\ MaxProc \in [Cids -> Nat]
  /\ Workload \subseteq Calls
  /\ PRIO_MAX > 5          \* fork2 gives pid 2 the priority 5

CPUs     == 1..NCPU
NoCpu    == 0
initproc == 1             \* userinit takes the first slot
Ticks    == NPROC + 1     \* the sleep channel &ticks; a slot is the channel of its wait()
NoCid    == -1
States   == {"UNUSED", "EMBRYO", "SLEEPING", "RUNNABLE", "RUNNING", "ZOMBIE"}
Points   == {"user", "sys", "fork1", "fork2", "fork3", "wait", "sleep",
             "prio1", "prio2", "prio3", "exit2"}

VARIABLES
  state, pid, parent, chan, killed, priority, cid,  \* fields of struct proc
  queue, next,        \* prioqueue.queue and the field p->next
  nextpid,
  active,             \* containers[c].active_processes
  cpu,                \* cpus[c].proc
  ptlock, pqlock,     \* the CPU that holds ptable.lock / prioqueue.lock between steps
  pc,                 \* where a process is in the kernel ("user": outside)
  ptr,                \* its local np in fork2, setproc in prio_set
  num                 \* its local cid in fork2, priority in prio_set

procVars  == <<state, pid, parent, chan, killed, priority, cid>>
queueVars == <<queue, next>>
lockVars  == <<ptlock, pqlock>>
local     == <<pc, ptr, num>>
vars      == <<procVars, queueVars, nextpid, active, cpu, lockVars, local>>

RunQueue == [queue |-> queue, next |-> next]

\* queue and next take the value of the run queue L.
SetQueue(L) == queue' = L.queue /\ next' = L.next

\* The types of all variables but the run queue's, whose shape is QueueOK's.
TypeOK ==
  /\ state \in [Slots -> States]
  /\ pid \in [Slots -> Nat]
  /\ parent \in [Slots -> Ptr]
  /\ chan \in [Slots -> 0..Ticks]
  /\ killed \in [Slots -> BOOLEAN]
  /\ priority \in [Slots -> Buckets \cup {-1}]
  /\ cid \in [Slots -> Cids \cup {0, NoCid}]
  /\ nextpid \in Nat
  /\ active \in [Cids -> Nat]
  /\ cpu \in [CPUs -> Ptr]
  /\ ptlock \in CPUs \cup {NoCpu}
  /\ pqlock \in CPUs \cup {NoCpu}
  /\ pc \in [Slots -> Points]
  /\ ptr \in [Slots -> Ptr]
  /\ num \in [Slots -> Int]

\* pinit and userinit have run: slot 1 holds pid 1, RUNNABLE in bucket 0.
Init ==
  /\ state = [p \in Slots |-> IF p = initproc THEN "RUNNABLE" ELSE "UNUSED"]
  /\ pid = [p \in Slots |-> IF p = initproc THEN 1 ELSE 0]
  /\ parent = [p \in Slots |-> NULL]
  /\ chan = [p \in Slots |-> 0]
  /\ killed = [p \in Slots |-> FALSE]
  /\ priority = [p \in Slots |-> 0]
  /\ cid = [p \in Slots |-> IF p = initproc THEN NoCid ELSE 0]
  /\ queue = [b \in Buckets |-> IF b = 0 THEN initproc ELSE NULL]
  /\ next = [p \in Slots |-> NULL]
  /\ nextpid = 2
  /\ active = [c \in Cids |-> 0]
  /\ cpu = [c \in CPUs |-> NULL]
  /\ ptlock = NoCpu
  /\ pqlock = NoCpu
  /\ pc = [p \in Slots |-> "user"]
  /\ ptr = [p \in Slots |-> NULL]
  /\ num = [p \in Slots |-> 0]

-----------------------------------------------------------------------------
\* p runs on c, past the point where it releases the scheduler's ptable.lock.
Runs(p, c, at) == cpu[c] = p /\ ptlock # c /\ pqlock # c /\ pc[p] = at
At(p, at)      == \E c \in CPUs : Runs(p, c, at)
PtableFree     == ptlock = NoCpu
QueueFree      == pqlock = NoCpu

Runnable == {q \in Slots : state[q] = "RUNNABLE"}

\* wakeup1(ch): every process that sleeps on ch becomes RUNNABLE.
Wakeup1(st, ch) ==
  [p \in Slots |-> IF st[p] = "SLEEPING" /\ chan[p] = ch THEN "RUNNABLE" ELSE st[p]]

\* p leaves its CPU: sched() switches to the scheduler, which clears cpus[c].proc
\* and releases ptable.lock.
SwitchAway(c) == cpu' = [cpu EXCEPT ![c] = NULL] /\ ptlock' = NoCpu

\* The system call returns; its locals are gone.
Return(p) ==
  /\ pc' = [pc EXCEPT ![p] = "user"]
  /\ ptr' = [ptr EXCEPT ![p] = NULL]
  /\ num' = [num EXCEPT ![p] = 0]

-----------------------------------------------------------------------------
(* scheduler() *)

\* Leaves the process RUNNABLE for the next CPU.
ScheduleKeepsRunnable(c) ==
  /\ cpu[c] = NULL /\ PtableFree /\ QueueFree
  /\ \E p \in Runnable :
       /\ Picked(RunQueue, p, Runnable)
       /\ SetQueue(Rotate(RunQueue, p, priority))
       /\ cpu' = [cpu EXCEPT ![c] = p]
  /\ ptlock' = c
  /\ UNCHANGED <<procVars, nextpid, active, pqlock, local>>

\* The CPU holds ptable.lock across swtch; the process releases it (Resume, wait).
Schedule(c) ==
  /\ cpu[c] = NULL /\ PtableFree /\ QueueFree
  /\ ~ScanLoops(RunQueue, Runnable)
  /\ \E p \in Runnable :
       /\ Picked(RunQueue, p, Runnable)
       /\ ~MoveLoops(RunQueue, p, priority)
       /\ SetQueue(Rotate(RunQueue, p, priority))
       /\ state' = [state EXCEPT ![p] = "RUNNING"]
       /\ cpu' = [cpu EXCEPT ![c] = p]
  /\ ptlock' = c
  /\ UNCHANGED <<pid, parent, chan, killed, priority, cid, nextpid, active, pqlock, local>>

\* pq1_dequeue walks a closed list and never returns; both locks stay held.
ScheduleLoops(c) ==
  /\ cpu[c] = NULL /\ PtableFree /\ QueueFree
  /\ \/ ScanLoops(RunQueue, Runnable)
     \/ \E p \in Runnable : Picked(RunQueue, p, Runnable) /\ MoveLoops(RunQueue, p, priority)
  /\ ptlock' = c /\ pqlock' = c
  /\ UNCHANGED <<procVars, queueVars, nextpid, active, cpu, local>>

\* The return of sched() in yield and sleep, and forkret: release ptable.lock.
\* A process that slept on &ticks clears its chan and is back in sys_sleep, whose loop
\* either sleeps again (Sleep, from a later call) or returns; it tests killed as trap() does.
Resume(p) ==
  \E c \in CPUs :
    /\ cpu[c] = p /\ ptlock = c /\ pc[p] # "wait"
    /\ ptlock' = NoCpu
    /\ IF pc[p] = "sleep"
         THEN chan' = [chan EXCEPT ![p] = 0] /\ pc' = [pc EXCEPT ![p] = "user"]
         ELSE UNCHANGED <<chan, pc>>
    /\ UNCHANGED <<state, pid, parent, killed, priority, cid, queueVars, nextpid, active,
                   cpu, pqlock, ptr, num>>

\* The timer interrupt's yield(); exit holds interrupts off at "exit2".
Yield(p) ==
  \E c \in CPUs :
    /\ cpu[c] = p /\ PtableFree /\ pqlock # c /\ pc[p] # "exit2"
    /\ ~(pc[p] = "user" /\ killed[p])      \* trap() exits before it yields
    /\ state' = [state EXCEPT ![p] = "RUNNABLE"]
    /\ SwitchAway(c)
    /\ UNCHANGED <<pid, parent, chan, killed, priority, cid, queueVars, nextpid, active,
                   pqlock, local>>

\* The timer interrupt's wakeup(&ticks).
Tick ==
  /\ "sleep" \in Workload
  /\ PtableFree
  /\ state' = Wakeup1(state, Ticks)
  /\ state' # state
  /\ UNCHANGED <<pid, parent, chan, killed, priority, cid, queueVars, nextpid, active, cpu,
                 lockVars, local>>

-----------------------------------------------------------------------------
(* trap() *)

\* The killed test of trap() passes and syscall() dispatches.
Trap(p) ==
  /\ At(p, "user") /\ ~killed[p]
  /\ pc' = [pc EXCEPT ![p] = "sys"]
  /\ UNCHANGED <<procVars, queueVars, nextpid, active, cpu, lockVars, ptr, num>>

\* A system call that leaves the process table as it is: getpid, a kill that finds no
\* pid, a prio_set that is refused.
OtherCall(p) ==
  /\ At(p, "sys")
  /\ Return(p)
  /\ UNCHANGED <<procVars, queueVars, nextpid, active, cpu, lockVars>>

\* An exception in user space; init does not fault (exit would panic).
Fault(p) ==
  /\ "fault" \in Workload
  /\ p # initproc /\ At(p, "user") /\ ~killed[p]
  /\ killed' = [killed EXCEPT ![p] = TRUE]
  /\ UNCHANGED <<state, pid, parent, chan, priority, cid, queueVars, nextpid, active, cpu,
                 lockVars, local>>

-----------------------------------------------------------------------------
(* fork2(c): allocproc, then the copy of the parent, the run queue and the *)
(* RUNNABLE state, each under its own lock or under none.                  *)

\* setnextproc's test of the process limit of container c, which is alive.
WithinLimit(c) == c # NoCid => active[c] <= MaxProc[c] + 1

FirstUnused(q) == state[q] = "UNUSED" /\ \A r \in 1..(q - 1) : state[r] # "UNUSED"

\* Hands the same pid out again.
AllocSamePid(p, c) ==
  /\ "fork" \in Workload /\ At(p, "sys") /\ PtableFree
  /\ \E q \in Slots :
       /\ FirstUnused(q) /\ WithinLimit(c)
       /\ state' = [state EXCEPT ![q] = "EMBRYO"]
       /\ pid' = [pid EXCEPT ![q] = nextpid]
       /\ pc' = [pc EXCEPT ![p] = "fork1", ![q] = "user"]
       /\ ptr' = [ptr EXCEPT ![p] = q]
  /\ active' = IF c = NoCid THEN active ELSE [active EXCEPT ![c] = @ + 1]
  /\ num' = [num EXCEPT ![p] = c]
  /\ UNCHANGED <<parent, chan, killed, priority, cid, nextpid, queueVars, cpu, lockVars>>

\* Does not charge the container.
AllocUncounted(p, c) ==
  /\ "fork" \in Workload /\ At(p, "sys") /\ PtableFree
  /\ nextpid <= MAXPID
  /\ \E q \in Slots :
       /\ FirstUnused(q) /\ WithinLimit(c)
       /\ state' = [state EXCEPT ![q] = "EMBRYO"]
       /\ pid' = [pid EXCEPT ![q] = nextpid]
       /\ pc' = [pc EXCEPT ![p] = "fork1", ![q] = "user"]
       /\ ptr' = [ptr EXCEPT ![p] = q]
  /\ nextpid' = nextpid + 1
  /\ num' = [num EXCEPT ![p] = c]
  /\ UNCHANGED <<parent, chan, killed, priority, cid, active, queueVars, cpu, lockVars>>

\* allocproc's critical section; killed, chan and next keep what the slot's last user left.
AllocProc(p, c) ==
  /\ "fork" \in Workload /\ At(p, "sys") /\ PtableFree
  /\ nextpid <= MAXPID
  /\ \E q \in Slots :
       /\ FirstUnused(q)
       /\ WithinLimit(c)
       /\ state' = [state EXCEPT ![q] = "EMBRYO"]
       /\ pid' = [pid EXCEPT ![q] = nextpid]
       /\ pc' = [pc EXCEPT ![p] = "fork1", ![q] = "user"]  \* context->eip = forkret
       /\ ptr' = [ptr EXCEPT ![p] = q]
  /\ nextpid' = nextpid + 1
  /\ active' = IF c = NoCid THEN active ELSE [active EXCEPT ![c] = @ + 1]
  /\ num' = [num EXCEPT ![p] = c]
  /\ UNCHANGED <<parent, chan, killed, priority, cid, queueVars, cpu, lockVars>>

\* allocproc returns 0: no slot, or the container is full.
ForkRefused(p, c) ==
  /\ "fork" \in Workload /\ At(p, "sys") /\ PtableFree
  /\ ~WithinLimit(c) \/ \A q \in Slots : state[q] # "UNUSED"
  /\ Return(p)
  /\ UNCHANGED <<procVars, queueVars, nextpid, active, cpu, lockVars>>

\* kalloc or copyuvm fails: the slot is UNUSED again; its pid and the container's
\* count are not undone.
ForkFails(p) ==
  /\ "oom" \in Workload /\ At(p, "fork1")
  /\ state' = [state EXCEPT ![ptr[p]] = "UNUSED"]
  /\ Return(p)
  /\ UNCHANGED <<pid, parent, chan, killed, priority, cid, queueVars, nextpid, active, cpu,
                 lockVars>>

\* Gives the child the next worse priority and forgets that there is a last one.
ForkWorsens(p) ==
  /\ At(p, "fork1")
  /\ LET np == ptr[p] IN
     /\ cid' = [cid EXCEPT ![np] = num[p]]
     /\ parent' = [parent EXCEPT ![np] = p]
     /\ priority' = [priority EXCEPT ![np] = IF pid[np] = 2 THEN 5 ELSE priority[p] + 1]
  /\ pc' = [pc EXCEPT ![p] = "fork2"]
  /\ UNCHANGED <<state, pid, chan, killed, queueVars, nextpid, active, cpu, lockVars, ptr, num>>

\* The child gets its container, its parent and its priority; no lock is held.
ForkCopy(p) ==
  /\ At(p, "fork1")
  /\ LET np == ptr[p] IN
     /\ cid' = [cid EXCEPT ![np] = num[p]]
     /\ parent' = [parent EXCEPT ![np] = p]
     /\ priority' = [priority EXCEPT ![np] = IF pid[np] = 2 THEN 5 ELSE priority[p]]
  /\ pc' = [pc EXCEPT ![p] = "fork2"]
  /\ UNCHANGED <<state, pid, chan, killed, queueVars, nextpid, active, cpu, lockVars, ptr, num>>

ForkEnqueue(p) ==
  /\ At(p, "fork2") /\ QueueFree
  /\ SetQueue(Enqueue(RunQueue, ptr[p], priority[ptr[p]]))
  /\ pc' = [pc EXCEPT ![p] = "fork3"]
  /\ UNCHANGED <<procVars, nextpid, active, cpu, lockVars, ptr, num>>

ForkRunnable(p) ==
  /\ At(p, "fork3") /\ PtableFree
  /\ state' = [state EXCEPT ![ptr[p]] = "RUNNABLE"]
  /\ Return(p)
  /\ UNCHANGED <<pid, parent, chan, killed, priority, cid, queueVars, nextpid, active, cpu,
                 lockVars>>

-----------------------------------------------------------------------------
(* exit(): the call, or trap() on a killed process.  init does not exit    *)
(* (exit would panic).                                                     *)

Exiting(p) ==
  /\ p # initproc
  /\ PtableFree
  /\ \/ "exit" \in Workload /\ At(p, "sys")
     \/ At(p, "user") /\ killed[p]

\* Does not wake init for the zombies it inherits.
ExitWakesParentOnly(p) == Wakeup1(state, parent[p])

\* wakeup1(curproc->parent), and wakeup1(initproc) if a ZOMBIE child is handed over.
ExitWakes(p) ==
  LET st == Wakeup1(state, parent[p]) IN
  IF \E q \in Slots : parent[q] = p /\ state[q] = "ZOMBIE"
    THEN Wakeup1(st, initproc) ELSE st

\* Keeps its children.
ReparentNobody(p) == parent

\* p->parent = initproc for every child of p.
Reparent(p) == [q \in Slots |-> IF parent[q] = p THEN initproc ELSE parent[q]]

SamePid(p) == {q \in Slots : pid[q] = pid[p]}

\* The rest of exit when curproc owns no mutex: one critical section up to sched().
Exit(p) ==
  /\ Exiting(p) /\ QueueFree
  /\ ~RemoveLoops(RunQueue, priority[p], SamePid(p))
  /\ parent' = Reparent(p)
  /\ SetQueue(Remove(RunQueue, priority[p], SamePid(p)))
  /\ state' = [ExitWakes(p) EXCEPT ![p] = "ZOMBIE"]
  /\ \E c \in CPUs : cpu[c] = p /\ SwitchAway(c)
  /\ UNCHANGED <<pid, chan, killed, priority, cid, nextpid, active, pqlock, local>>

\* curproc owns a mutex: ptable.lock is released around releasesleep, after the
\* wake-up and before the ZOMBIE state.
ExitReleasesMutex(p) ==
  /\ "mutex" \in Workload
  /\ Exiting(p) /\ QueueFree
  /\ ~RemoveLoops(RunQueue, priority[p], SamePid(p))
  /\ parent' = Reparent(p)
  /\ SetQueue(Remove(RunQueue, priority[p], SamePid(p)))
  /\ state' = ExitWakes(p)
  /\ pc' = [pc EXCEPT ![p] = "exit2"]
  /\ UNCHANGED <<pid, chan, killed, priority, cid, nextpid, active, cpu, lockVars, ptr, num>>

ExitFinish(p) ==
  /\ At(p, "exit2") /\ PtableFree
  /\ state' = [state EXCEPT ![p] = "ZOMBIE"]
  /\ \E c \in CPUs : cpu[c] = p /\ SwitchAway(c)
  /\ UNCHANGED <<pid, parent, chan, killed, priority, cid, queueVars, nextpid, active, pqlock,
                 local>>

\* remove_node does not return; both locks stay held.
ExitLoops(p) ==
  /\ Exiting(p) /\ QueueFree
  /\ RemoveLoops(RunQueue, priority[p], SamePid(p))
  /\ parent' = Reparent(p)
  /\ state' = ExitWakes(p)
  /\ \E c \in CPUs : cpu[c] = p /\ ptlock' = c /\ pqlock' = c
  /\ UNCHANGED <<pid, chan, killed, priority, cid, queueVars, nextpid, active, cpu, local>>

-----------------------------------------------------------------------------
(* wait(): entered from the system call, or resumed in its sleep() with    *)
(* ptable.lock handed over by the scheduler.                               *)

Waits(p, c) ==
  /\ cpu[c] = p
  /\ \/ "wait" \in Workload /\ pc[p] = "sys" /\ PtableFree
     \/ pc[p] = "wait" /\ ptlock = c

Children(p)    == {q \in Slots : parent[q] = p}
Zombies(p)     == {q \in Children(p) : state[q] = "ZOMBIE"}
FirstZombie(p, q) == q \in Zombies(p) /\ \A r \in Zombies(p) : q <= r

\* The container's process count after q is reaped.
Uncount(q) ==
  IF cid[q] # NoCid /\ active[cid[q]] > 0 THEN [active EXCEPT ![cid[q]] = @ - 1] ELSE active

\* Leaves the slot as it is: returns the child's pid and forgets to free it.
WaitReapsKeepsSlot(p) ==
  \E c \in CPUs, q \in Slots :
    /\ Waits(p, c) /\ FirstZombie(p, q)
    /\ active' = Uncount(q)
    /\ chan' = [chan EXCEPT ![p] = 0]
    /\ Return(p)
    /\ ptlock' = NoCpu
    /\ UNCHANGED <<state, pid, parent, killed, priority, cid, queueVars, nextpid, cpu, pqlock>>

WaitReaps(p) ==
  \E c \in CPUs, q \in Slots :
    /\ Waits(p, c) /\ FirstZombie(p, q)
    /\ state' = [state EXCEPT ![q] = "UNUSED"]
    /\ pid' = [pid EXCEPT ![q] = 0]
    /\ parent' = [parent EXCEPT ![q] = NULL]
    /\ killed' = [killed EXCEPT ![q] = FALSE]
    /\ priority' = [priority EXCEPT ![q] = -1]
    /\ active' = Uncount(q)
    /\ chan' = [chan EXCEPT ![p] = 0]
    /\ Return(p)
    /\ ptlock' = NoCpu
    /\ UNCHANGED <<cid, queueVars, nextpid, cpu, pqlock>>

WaitReturns(p) ==
  \E c \in CPUs :
    /\ Waits(p, c)
    /\ Zombies(p) = {}
    /\ Children(p) = {} \/ killed[p]
    /\ chan' = [chan EXCEPT ![p] = 0]
    /\ Return(p)
    /\ ptlock' = NoCpu
    /\ UNCHANGED <<state, pid, parent, killed, priority, cid, queueVars, nextpid, active, cpu,
                   pqlock>>

WaitSleeps(p) ==
  \E c \in CPUs :
    /\ Waits(p, c)
    /\ Zombies(p) = {}
    /\ Children(p) # {} /\ ~killed[p]
    /\ chan' = [chan EXCEPT ![p] = p]
    /\ state' = [state EXCEPT ![p] = "SLEEPING"]
    /\ pc' = [pc EXCEPT ![p] = "wait"]
    /\ SwitchAway(c)
    /\ UNCHANGED <<pid, parent, killed, priority, cid, queueVars, nextpid, active, pqlock,
                   ptr, num>>

-----------------------------------------------------------------------------
(* kill() and sys_sleep() *)

\* The first slot whose pid matches, whatever its state.
FirstWithPid(q, k) == pid[q] = k /\ \A r \in 1..(q - 1) : pid[r] # k

\* Marks the victim but leaves it asleep.
KillSleeperStays(p, k) ==
  /\ "kill" \in Workload /\ At(p, "sys") /\ PtableFree
  /\ \E q \in Slots : FirstWithPid(q, k) /\ killed' = [killed EXCEPT ![q] = TRUE]
  /\ Return(p)
  /\ UNCHANGED <<state, pid, parent, chan, priority, cid, queueVars, nextpid, active, cpu,
                 lockVars>>

Kill(p, k) ==
  /\ "kill" \in Workload /\ At(p, "sys") /\ PtableFree
  /\ \E q \in Slots :
       /\ FirstWithPid(q, k)
       /\ killed' = [killed EXCEPT ![q] = TRUE]
       /\ state' = IF state[q] = "SLEEPING" THEN [state EXCEPT ![q] = "RUNNABLE"] ELSE state
  /\ Return(p)
  /\ UNCHANGED <<pid, parent, chan, priority, cid, queueVars, nextpid, active, cpu, lockVars>>

\* sleep(&ticks, &tickslock): chan, state and the switch under ptable.lock.
Sleep(p) ==
  /\ "sleep" \in Workload /\ At(p, "sys") /\ PtableFree
  /\ chan' = [chan EXCEPT ![p] = Ticks]
  /\ state' = [state EXCEPT ![p] = "SLEEPING"]
  /\ pc' = [pc EXCEPT ![p] = "sleep"]
  /\ \E c \in CPUs : cpu[c] = p /\ SwitchAway(c)
  /\ UNCHANGED <<pid, parent, killed, priority, cid, queueVars, nextpid, active, pqlock, ptr, num>>

-----------------------------------------------------------------------------
(* prio_set(): sys_prio_set fetches argument 0 twice, so the pid is also   *)
(* the priority.  The tests run under prioqueue.lock; remove_node, the     *)
(* assignment and pq1_enqueue follow one by one.                           *)

\* The last slot with pid k.
SetProc(k, q) == pid[q] = k /\ \A r \in (q + 1)..NPROC : pid[r] # k

\* p's pid is met on the way up from q.
InAncestry(p, q) ==
  LET up[i \in 0..NPROC] ==
        IF i = 0 THEN q ELSE IF up[i - 1] = NULL THEN NULL ELSE parent[up[i - 1]]
  IN  \E i \in 0..NPROC : up[i] # NULL /\ pid[up[i]] = pid[p]

PrioSet(p, k) ==
  /\ "prio_set" \in Workload /\ At(p, "sys") /\ QueueFree
  /\ k < PRIO_MAX /\ k >= priority[p]
  /\ \E q \in Slots :
       /\ SetProc(k, q) /\ InAncestry(p, q)
       /\ ptr' = [ptr EXCEPT ![p] = q]
  /\ num' = [num EXCEPT ![p] = k]
  /\ pc' = [pc EXCEPT ![p] = "prio1"]
  /\ UNCHANGED <<procVars, queueVars, nextpid, active, cpu, lockVars>>

\* remove_node(setproc).  A setproc that was reaped meanwhile has priority -1:
\* queue[-1] is the last word of prioqueue.lock, pcs[9], which is 0 at this call
\* depth, so nothing is removed.
PrioRemove(p) ==
  /\ At(p, "prio1") /\ QueueFree
  /\ LET s == ptr[p] IN
     IF priority[s] = -1
       THEN UNCHANGED queueVars
       ELSE /\ ~RemoveLoops(RunQueue, priority[s], SamePid(s))
            /\ SetQueue(Remove(RunQueue, priority[s], SamePid(s)))
  /\ pc' = [pc EXCEPT ![p] = "prio2"]
  /\ UNCHANGED <<procVars, nextpid, active, cpu, lockVars, ptr, num>>

PrioRemoveLoops(p) ==
  /\ At(p, "prio1") /\ QueueFree
  /\ priority[ptr[p]] # -1
  /\ RemoveLoops(RunQueue, priority[ptr[p]], SamePid(ptr[p]))
  /\ \E c \in CPUs : cpu[c] = p /\ pqlock' = c
  /\ UNCHANGED <<procVars, queueVars, nextpid, active, cpu, ptlock, local>>

PrioAssign(p) ==
  /\ At(p, "prio2")
  /\ priority' = [priority EXCEPT ![ptr[p]] = num[p]]
  /\ pc' = [pc EXCEPT ![p] = "prio3"]
  /\ UNCHANGED <<state, pid, parent, chan, killed, cid, queueVars, nextpid, active, cpu,
                 lockVars, ptr, num>>

PrioEnqueue(p) ==
  /\ At(p, "prio3") /\ QueueFree
  /\ SetQueue(Enqueue(RunQueue, ptr[p], num[p]))
  /\ Return(p)
  /\ UNCHANGED <<procVars, nextpid, active, cpu, lockVars>>

-----------------------------------------------------------------------------
Fork(p)     == \E c \in Cids \cup {NoCid} : AllocProc(p, c) \/ ForkRefused(p, c)
ForkRest(p) == ForkFails(p) \/ ForkCopy(p) \/ ForkEnqueue(p) \/ ForkRunnable(p)
Exits(p)    == Exit(p) \/ ExitReleasesMutex(p) \/ ExitFinish(p) \/ ExitLoops(p)
Wait(p)     == WaitReaps(p) \/ WaitReturns(p) \/ WaitSleeps(p)
Kills(p)    == \E k \in (0..MAXPID) \ {1} : Kill(p, k)   \* killing init would panic
PrioSets(p) == \E k \in 1..MAXPID : PrioSet(p, k)
PrioRest(p) == PrioRemove(p) \/ PrioRemoveLoops(p) \/ PrioAssign(p) \/ PrioEnqueue(p)

\* A step of a system call of p, or of its exit.
Syscall(p) ==
  \/ OtherCall(p) \/ Fork(p) \/ ForkRest(p) \/ Exits(p) \/ Wait(p) \/ Kills(p) \/ Sleep(p)
  \/ PrioSets(p) \/ PrioRest(p)

Next ==
  \/ \E c \in CPUs : Schedule(c) \/ ScheduleLoops(c)
  \/ \E p \in Slots : Resume(p) \/ Yield(p) \/ Trap(p) \/ Fault(p) \/ Syscall(p)
  \/ Tick

Spec == Init /\ [][Next]_vars

\* Every CPU runs its scheduler loop, lets go of ptable.lock after it and is interrupted
\* by its timer again and again; a process that is given the CPU again and again gets
\* instructions executed, and a CPU that spins for ptable.lock gets it; init.c calls
\* wait() for ever.
Fairness ==
  /\ \A c \in CPUs : /\ WF_vars(Schedule(c))
                     /\ WF_vars(\E p \in Slots : cpu[c] = p /\ Resume(p))
                     /\ SF_vars(\E p \in Slots : cpu[c] = p /\ Yield(p))
  /\ \A p \in Slots : SF_vars(Trap(p) \/ Syscall(p))
  /\ SF_vars(Tick)
  /\ SF_vars(Wait(initproc))

FairSpec == Spec /\ Fairness

-----------------------------------------------------------------------------
(* Safety *)

Alive(p) == state[p] \in {"SLEEPING", "RUNNABLE", "RUNNING"}

\* scheduler/sched: no process runs on two CPUs, and the RUNNING processes are
\* exactly those some cpus[c].proc points to.
RunningOnOneCpu ==
  /\ \A c, d \in CPUs : cpu[c] = cpu[d] /\ cpu[c] # NULL => c = d
  /\ \A p \in Slots : state[p] = "RUNNING" <=> \E c \in CPUs : cpu[c] = p

\* exit/wait: every process but init has a parent that is itself alive, so that
\* each zombie has somebody who can still wait for it.
ParentAlive ==
  \A p \in Slots :
    /\ parent[p] # NULL => Alive(parent[p]) /\ parent[p] # p
    /\ p # initproc /\ (Alive(p) \/ state[p] = "ZOMBIE") => parent[p] # NULL

\* exit/wait/sleep: nobody sleeps in wait() with a ZOMBIE child to reap.
NoMissedZombie ==
  \A p, q \in Slots :
    state[p] = "SLEEPING" /\ pc[p] = "wait" /\ parent[q] = p => state[q] # "ZOMBIE"

\* allocproc: two slots in use never have the same pid.
PidsUnique ==
  \A p, q \in Slots :
    p # q /\ state[p] # "UNUSED" /\ state[q] # "UNUSED" => pid[p] # pid[q]

\* pq1_enqueue/pq1_dequeue/remove_node: the lists end, a live process is linked
\* exactly into the bucket of its priority, a slot that is free or a zombie into none.
QueueOK ==
  LET in == [b \in Buckets |-> Bucket(RunQueue, b)] IN
  /\ queue \in [Buckets -> Ptr] /\ next \in [Slots -> Ptr]
  /\ \A b \in Buckets : ~Endless(RunQueue, b)
  /\ \A b \in Buckets : \A p \in in[b] : b = priority[p] /\ state[p] \notin {"UNUSED", "ZOMBIE"}
  /\ \A p \in Slots : Alive(p) /\ pc[p] # "exit2" => p \in in[priority[p]]

\* The processes container c is charged for.
Charged(c) ==
  {q \in Slots : \/ (Alive(q) \/ state[q] = "ZOMBIE") /\ cid[q] = c
                 \/ \E p \in Slots : /\ pc[p] \in {"fork1", "fork2", "fork3"}
                                     /\ ptr[p] = q /\ num[p] = c}

\* setnextproc/wait: active_processes is the number of processes of the container, those
\* still being forked and those not yet reaped included, unless a fork ran out of memory.
CountsExact ==
  "oom" \notin Workload => \A c \in Cids : Cardinality(Charged(c)) = active[c]

\* What pq1_dequeue's comment says, "If no runnable process was found, return NULL": it
\* searches the buckets only, so every RUNNABLE process must be linked into one.
RunnableLinked ==
  \A p \in Slots : state[p] = "RUNNABLE" => \E b \in Buckets : p \in Bucket(RunQueue, b)

-----------------------------------------------------------------------------
(* The lists as sequences *)

\* The list of bucket b as a sequence.
AsSeq(L, b) ==
  LET w == Walk(L, b) IN
  [i \in 1..Cardinality({j \in 0..NPROC : w[j] # NULL}) |-> w[i - 1]]

Queue == INSTANCE RunQueueSpec
           WITH Procs <- Slots, Prios <- Buckets, runnable <- Runnable,
                q <- [b \in Buckets |-> AsSeq(RunQueue, b)]

\* proc.c's linked lists implement the priority queue of RunQueueSpec, as long as
\* nobody calls prio_set.
ImplementsRunQueue == Queue!Spec

-----------------------------------------------------------------------------
(* Liveness, under FairSpec *)

\* exit/wait: a zombie that init has inherited is eventually reaped.
OrphanReaped ==
  \A p \in Slots : state[p] = "ZOMBIE" /\ parent[p] = initproc ~> state[p] = "UNUSED"

\* pq1_dequeue: a RUNNABLE process gets a CPU unless one of a better priority is
\* RUNNABLE again and again; those of its own priority do not pass it for ever.
RoundRobin ==
  \A p \in Slots :
    state[p] = "RUNNABLE"
      ~> \/ state[p] # "RUNNABLE"
         \/ \E q \in Slots : state[q] = "RUNNABLE" /\ priority[q] < priority[p]

\* kill/wait/trap: a killed process dies, wherever it is or sleeps, unless processes of a
\* better priority keep it from running.
KilledDies ==
  \A p \in Slots :
    killed[p] /\ Alive(p)
      ~> \/ ~Alive(p)
         \/ \E q \in Slots : state[q] = "RUNNABLE" /\ priority[q] < priority[p]

=============================================================================
