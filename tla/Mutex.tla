-------------------------------- MODULE Mutex --------------------------------
(***************************************************************************)
(* The named mutexes and condition variables of proc.c (mutex_create,      *)
(* mutex_get, mutex_delete, mutex_lock, mutex_unlock, cv_wait, cv_signal)  *)
(* on top of the sleeping locks of sleeplock.c, with what fork, exit and   *)
(* kill do to them.                                                        *)
(*                                                                         *)
(* A step is one section under mutexes[m].spin, slp.lk or ptable.lock, or  *)
(* one stretch of code between two of them, with two exceptions: every     *)
(* count++ and count-- is a load and a store, since mutex_create and       *)
(* mutex_delete hold spin there, exit ptable.lock and allocproc nothing;   *)
(* and exit gives ptable.lock up around releasesleep.  At the points Uncut *)
(* a process keeps its CPU: interrupts are off, or count++ is the one      *)
(* instruction the build makes of it.  NCPU CPUs run the others, so on one *)
(* CPU nobody sees the middle of a count++ or of exit's loop.              *)
(*                                                                         *)
(* sleep(chan, lk) releases lk and goes to sleep in one step (module Proc  *)
(* has the two locks).  mutex_create initialises a spin-lock that another  *)
(* CPU may hold; the holder's release then panics, and such a run is not   *)
(* followed.  Names have one length: strncpy without a terminator then     *)
(* overwrites the old name, and the prefix test of mutex_get is equality.  *)
(***************************************************************************)
EXTENDS Integers, FiniteSets

CONSTANTS Pids,        \* the pids processes get, the smallest first
          NCPU,        \* the CPUs; the Makefile's CPUS is 1
          MUX_MAXNUM,  \* param.h: size of mutexes[] and of p->locks[]
          NPROC,       \* param.h: length of waiting_procs[]
          Names,       \* the names programs use
          Creators,    \* the processes that call mutex_create
          MaxSignals,  \* bound on the calls of cv_signal
          Workload     \* the calls programs make in this instance

Calls == {"delete", "get", "cv", "fork", "exit", "kill",
          "oom"}       \* copyuvm may fail

ASSUME MutexAssumption ==
  /\ NPROC \in Nat /\ NCPU \in Nat \ {0}
  /\ Pids \subseteq 1..NPROC /\ Pids # {}
  /\ MUX_MAXNUM \in Nat \ {0}
  /\ "zeroed" \notin Names
  /\ Creators \subseteq Pids
  /\ MaxSignals \in Nat
  /\ Workload \subseteq Calls

Muxes   == 0..(MUX_MAXNUM - 1)
NoMux   == -1
NoName  == "zeroed"            \* the name of a slot never used
First   == CHOOSE p \in Pids : \A q \in Pids : p <= q
NoChan  == 0
SlpChan(m) == m + 1                 \* the address of mutexes[m].slp
CvChan(m)  == MUX_MAXNUM + m + 1    \* the address of mutexes[m]
Chans   == 0..(2 * MUX_MAXNUM)

\* Points at which p is not interrupted, and those of them at which it holds ptable.lock.
Uncut   == {"createadd", "deletesub", "forkadd", "exit", "exitsub", "exitown", "exitrel", "exitback"}
Ptable  == {"exit", "exitsub", "exitown"}
Points  == Uncut \cup {"user", "create1", "create2", "lock", "delete", "cv", "waited", "fork"}

VARIABLES
  name, count, cv,     \* mutexes[m].name, .count, .cv_count
  locked, owner,       \* mutexes[m].slp.locked, .slp.pid
  locks,               \* p->locks[]
  life, killed, chan,  \* the process table, as far as it matters here
  pc, tgt,             \* where p is in the kernel, and its local global_id or i
  reg, kid,            \* the count p has loaded, and the child it is making
  crit,                \* history: the mutexes p has locked and not given back
  signals, waits       \* history: cv_signal and cv_wait calls that succeeded

muxVars  == <<name, count, cv, locked, owner>>
procVars == <<life, killed, chan>>
history  == <<signals, waits>>
work     == <<reg, kid>>
vars     == <<muxVars, locks, procVars, pc, tgt, work, crit, history>>

TypeOK ==
  /\ name \in [Muxes -> Names \cup {NoName}]
  /\ count \in [Muxes -> Int]
  /\ cv \in [Muxes -> Nat]
  /\ locked \in [Muxes -> BOOLEAN]
  /\ owner \in [Muxes -> Pids \cup {0}]
  /\ locks \in [Pids -> [Muxes -> Muxes \cup {NoMux}]]
  /\ life \in [Pids -> {"unborn", "embryo", "alive", "dead"}]
  /\ killed \in [Pids -> BOOLEAN]
  /\ chan \in [Pids -> Chans]
  /\ pc \in [Pids -> Points]
  /\ tgt \in [Pids -> Muxes]
  /\ reg \in [Pids -> Int]
  /\ kid \in [Pids -> Pids \cup {0}]
  /\ crit \in [Pids -> SUBSET Muxes]
  /\ signals \in [Muxes -> Nat] /\ waits \in [Muxes -> Nat]

Init ==
  /\ name = [m \in Muxes |-> NoName]
  /\ count = [m \in Muxes |-> 0]
  /\ cv = [m \in Muxes |-> 0]
  /\ locked = [m \in Muxes |-> FALSE]
  /\ owner = [m \in Muxes |-> 0]
  /\ locks = [p \in Pids |-> [i \in Muxes |-> NoMux]]
  /\ life = [p \in Pids |-> IF p = First THEN "alive" ELSE "unborn"]
  /\ killed = [p \in Pids |-> FALSE]
  /\ chan = [p \in Pids |-> NoChan]
  /\ pc = [p \in Pids |-> "user"]
  /\ tgt = [p \in Pids |-> 0]
  /\ reg = [p \in Pids |-> 0] /\ kid = [p \in Pids |-> 0]
  /\ crit = [p \in Pids |-> {}]
  /\ signals = [m \in Muxes |-> 0] /\ waits = [m \in Muxes |-> 0]

-----------------------------------------------------------------------------
\* There is a CPU for a step of somebody outside S.
CpuBeside(S) == Cardinality({q \in Pids \ S : pc[q] \in Uncut}) < NCPU
PtableFree   == \A q \in Pids : pc[q] \notin Ptable
Runs(p, at)  == life[p] = "alive" /\ chan[p] = NoChan /\ pc[p] = at /\ CpuBeside({p})
User(p)      == Runs(p, "user") /\ ~killed[p]

\* wakeup(ch)
Woken(ch) == [q \in Pids |-> IF chan[q] = ch THEN NoChan ELSE chan[q]]

GoOn(p, at, m) == pc' = [pc EXCEPT ![p] = at] /\ tgt' = [tgt EXCEPT ![p] = m]
Return(p)      == GoOn(p, "user", 0)

\* The two halves of count++ (d = 1) and count-- (d = -1).
Load(p, m)     == reg' = [reg EXCEPT ![p] = count[m]] /\ UNCHANGED <<count, kid>>
Store(p, m, d) == /\ count' = [count EXCEPT ![m] = reg[p] + d]
                  /\ reg' = [reg EXCEPT ![p] = 0] /\ UNCHANGED kid

\* Nobody holds mutexes[m].spin between two steps.
SpinFree(m) ==
  \A q \in Pids : /\ ~(pc[q] = "createadd" /\ tgt[q] = m)
                  /\ ~(pc[q] = "deletesub" /\ locks[q][tgt[q]] = m)

\* The slots i of p's table that name mutex m.
Handles(p, m) == {i \in Muxes : locks[p][i] = m}

\* The first free slot of p->locks is set to m; nothing happens if none is free.
AddHandle(p, m) ==
  \/ Handles(p, NoMux) = {} /\ UNCHANGED locks
  \/ \E i \in Handles(p, NoMux) :
       /\ \A j \in Handles(p, NoMux) : i <= j
       /\ locks' = [locks EXCEPT ![p][i] = m]

-----------------------------------------------------------------------------
(* sleeplock.c *)

\* acquiresleep: one turn of its loop under slp.lk.
Acquire(p, m) ==
  IF locked[m]
    THEN /\ PtableFree
         /\ chan' = [chan EXCEPT ![p] = SlpChan(m)]
         /\ GoOn(p, "lock", m)
         /\ UNCHANGED <<locked, owner, crit>>
    ELSE /\ locked' = [locked EXCEPT ![m] = TRUE]
         /\ owner' = [owner EXCEPT ![m] = p]
         /\ crit' = [crit EXCEPT ![p] = @ \cup {m}]
         /\ Return(p)
         /\ UNCHANGED chan

\* Frees the lock and wakes nobody.
ReleaseQuietly(p, m) ==
  /\ locked' = [locked EXCEPT ![m] = FALSE]
  /\ owner' = [owner EXCEPT ![m] = 0]
  /\ crit' = [crit EXCEPT ![p] = @ \ {m}]
  /\ UNCHANGED chan

\* releasesleep, whose wakeup takes ptable.lock.
Release(p, m) ==
  /\ PtableFree
  /\ locked' = [locked EXCEPT ![m] = FALSE]
  /\ owner' = [owner EXCEPT ![m] = 0]
  /\ crit' = [crit EXCEPT ![p] = @ \ {m}]
  /\ chan' = Woken(SlpChan(m))

-----------------------------------------------------------------------------
(* mutex_create, mutex_get, mutex_delete *)

\* The slot is chosen with no lock held.
CreateFind(p) ==
  /\ User(p) /\ p \in Creators
  /\ \E m \in Muxes :
       /\ count[m] = 0 /\ \A n \in Muxes : n < m => count[n] # 0
       /\ GoOn(p, "create1", m)
  /\ UNCHANGED <<muxVars, locks, procVars, work, crit, history>>

CreateLoad(p) ==
  /\ Runs(p, "create1") /\ SpinFree(tgt[p])
  /\ Load(p, tgt[p])
  /\ GoOn(p, "createadd", tgt[p])
  /\ UNCHANGED <<name, cv, locked, owner, locks, procVars, crit, history>>

CreateStore(p, n) ==
  /\ Runs(p, "createadd")
  /\ Store(p, tgt[p], 1)
  /\ name' = [name EXCEPT ![tgt[p]] = n]
  /\ GoOn(p, "create2", tgt[p])
  /\ UNCHANGED <<cv, locked, owner, locks, procVars, crit, history>>

\* p->locks, then initsleeplock; the call fails, without undoing the count, when
\* p->locks is full.
CreateFinish(p) ==
  /\ Runs(p, "create2")
  /\ AddHandle(p, tgt[p])
  /\ locked' = [locked EXCEPT ![tgt[p]] = FALSE]
  /\ owner' = [owner EXCEPT ![tgt[p]] = 0]
  /\ Return(p)
  /\ UNCHANGED <<name, count, cv, procVars, work, crit, history>>

\* The mutex with that name gets a handle in p->locks and is not counted.  A handle to
\* the same mutex stops the search only if it comes before the first free slot.
Get(p, n) ==
  /\ "get" \in Workload /\ User(p)
  /\ \E m \in Muxes :
       /\ name[m] = n /\ \A k \in Muxes : k < m => name[k] # n
       /\ ~\E i \in Handles(p, m) : \A j \in Handles(p, NoMux) : i < j
       /\ AddHandle(p, m)
  /\ UNCHANGED <<muxVars, procVars, pc, tgt, work, crit, history>>

\* mutex_delete first unlocks a mutex the caller owns.
DeleteUnlock(p, i) ==
  /\ "delete" \in Workload /\ User(p) /\ locks[p][i] # NoMux
  /\ LET m == locks[p][i] IN
     IF owner[m] = p THEN Release(p, m) ELSE UNCHANGED <<locked, owner, crit, chan>>
  /\ GoOn(p, "delete", i)
  /\ UNCHANGED <<name, count, cv, locks, life, killed, work, history>>

DeleteLoad(p) ==
  /\ Runs(p, "delete") /\ SpinFree(locks[p][tgt[p]])
  /\ Load(p, locks[p][tgt[p]])
  /\ GoOn(p, "deletesub", tgt[p])
  /\ UNCHANGED <<name, cv, locked, owner, locks, procVars, crit, history>>

DeleteStore(p) ==
  /\ Runs(p, "deletesub")
  /\ Store(p, locks[p][tgt[p]], -1)
  /\ locks' = [locks EXCEPT ![p][tgt[p]] = NoMux]
  /\ Return(p)
  /\ UNCHANGED <<name, cv, locked, owner, procVars, crit, history>>

-----------------------------------------------------------------------------
(* mutex_lock, mutex_unlock *)

Lock(p, i) ==
  /\ User(p) /\ locks[p][i] # NoMux /\ owner[locks[p][i]] # p
  /\ Acquire(p, locks[p][i])
  /\ UNCHANGED <<name, count, cv, locks, life, killed, work, history>>

LockRetry(p) ==
  /\ Runs(p, "lock")
  /\ Acquire(p, tgt[p])
  /\ UNCHANGED <<name, count, cv, locks, life, killed, work, history>>

\* Does not ask who the owner is.
UnlockAnyones(p, i) ==
  /\ User(p) /\ locks[p][i] # NoMux
  /\ Release(p, locks[p][i])
  /\ UNCHANGED <<name, count, cv, locks, life, killed, pc, tgt, work, history>>

Unlock(p, i) ==
  /\ User(p) /\ locks[p][i] # NoMux /\ owner[locks[p][i]] = p
  /\ Release(p, locks[p][i])
  /\ UNCHANGED <<name, count, cv, locks, life, killed, pc, tgt, work, history>>

-----------------------------------------------------------------------------
(* cv_wait, cv_signal *)

\* Takes a signal whether there is one or not.
CvTurnUnchecked(p, m, c) ==
  /\ cv' = [c EXCEPT ![m] = @ - 1]
  /\ waits' = [waits EXCEPT ![m] = @ + 1]
  /\ GoOn(p, "waited", m)
  /\ UNCHANGED <<locked, owner, crit, chan>>

\* One turn of cv_wait's loop under mutexes[m].spin: take a signal, or give the mutex
\* back if the caller still owns it and sleep.  The mutex is not taken again.
CvTurn(p, m, c) ==
  IF c[m] > 0
    THEN /\ cv' = [c EXCEPT ![m] = @ - 1]
         /\ waits' = [waits EXCEPT ![m] = @ + 1]
         /\ GoOn(p, "waited", m)
         /\ UNCHANGED <<locked, owner, crit, chan>>
    ELSE /\ PtableFree
         /\ IF owner[m] = p
              THEN /\ locked' = [locked EXCEPT ![m] = FALSE]
                   /\ owner' = [owner EXCEPT ![m] = 0]
                   /\ crit' = [crit EXCEPT ![p] = @ \ {m}]
                   /\ chan' = [Woken(SlpChan(m)) EXCEPT ![p] = CvChan(m)]
              ELSE /\ chan' = [chan EXCEPT ![p] = CvChan(m)]
                   /\ UNCHANGED <<locked, owner, crit>>
         /\ GoOn(p, "cv", m)
         /\ cv' = c
         /\ UNCHANGED waits

\* waiting_procs[pid] = 1; the entry after the last one is cv_count.
Marked(p, m) == IF p = NPROC THEN [cv EXCEPT ![m] = 1] ELSE cv

CvWait(p, i) ==
  /\ "cv" \in Workload /\ User(p) /\ locks[p][i] # NoMux /\ owner[locks[p][i]] = p
  /\ SpinFree(locks[p][i])
  /\ CvTurn(p, locks[p][i], Marked(p, locks[p][i]))
  /\ UNCHANGED <<name, count, locks, life, killed, work, signals>>

\* Returns on any wake-up, without looking for a signal.
CvRetryOnce(p) ==
  /\ Runs(p, "cv")
  /\ GoOn(p, "waited", tgt[p])
  /\ waits' = [waits EXCEPT ![tgt[p]] = @ + 1]
  /\ UNCHANGED <<muxVars, locks, procVars, work, crit, signals>>

CvRetry(p) ==
  /\ Runs(p, "cv") /\ SpinFree(tgt[p])
  /\ CvTurn(p, tgt[p], cv)
  /\ UNCHANGED <<name, count, locks, life, killed, work, signals>>

CvReturn(p) ==
  /\ Runs(p, "waited")
  /\ Return(p)
  /\ UNCHANGED <<muxVars, locks, procVars, work, crit, history>>

\* Counts the signal without a wake-up.
CvSignalQuietly(p, i) ==
  /\ "cv" \in Workload /\ User(p) /\ locks[p][i] # NoMux /\ owner[locks[p][i]] = p
  /\ SpinFree(locks[p][i])
  /\ signals[locks[p][i]] < MaxSignals
  /\ cv' = [cv EXCEPT ![locks[p][i]] = @ + 1]
  /\ signals' = [signals EXCEPT ![locks[p][i]] = @ + 1]
  /\ UNCHANGED <<name, count, locked, owner, locks, procVars, pc, tgt, work, crit, waits>>

CvSignal(p, i) ==
  /\ "cv" \in Workload /\ User(p) /\ locks[p][i] # NoMux /\ owner[locks[p][i]] = p
  /\ SpinFree(locks[p][i])
  /\ LET m == locks[p][i] IN
     /\ PtableFree /\ signals[m] < MaxSignals
     /\ cv' = [cv EXCEPT ![m] = @ + 1]
     /\ signals' = [signals EXCEPT ![m] = @ + 1]
     /\ chan' = Woken(CvChan(m))
  /\ UNCHANGED <<name, count, locked, owner, locks, life, killed, pc, tgt, work, crit, waits>>

-----------------------------------------------------------------------------
(* What fork, exit and kill do to mutexes *)

ForkAlloc(p) ==
  /\ "fork" \in Workload /\ User(p) /\ PtableFree
  /\ \E q \in Pids :
       /\ life[q] = "unborn" /\ \A r \in Pids : r < q => life[r] # "unborn"
       /\ life' = [life EXCEPT ![q] = "embryo"]
       /\ kid' = [kid EXCEPT ![p] = q]
  /\ GoOn(p, "fork", 0)
  /\ UNCHANGED <<muxVars, locks, killed, chan, reg, crit, history>>

\* The handles of p its child does not have yet.
Unshared(p) == {i \in Muxes : locks[p][i] # NoMux /\ locks[kid[p]][i] = NoMux}

\* allocproc: the child gets its parent's handles one by one, each counted, with no lock held.
ForkLoad(p) ==
  /\ Runs(p, "fork")
  /\ \E i \in Unshared(p) :
       /\ \A j \in Unshared(p) : i <= j
       /\ Load(p, locks[p][i])
       /\ GoOn(p, "forkadd", i)
  /\ UNCHANGED <<name, cv, locked, owner, locks, procVars, crit, history>>

\* Shares the handle without counting it.
ForkUncounted(p) ==
  /\ Runs(p, "forkadd")
  /\ locks' = [locks EXCEPT ![kid[p]][tgt[p]] = locks[p][tgt[p]]]
  /\ GoOn(p, "fork", 0)
  /\ reg' = [reg EXCEPT ![p] = 0]
  /\ UNCHANGED <<muxVars, procVars, kid, crit, history>>

ForkStore(p) ==
  /\ Runs(p, "forkadd")
  /\ Store(p, locks[p][tgt[p]], 1)
  /\ locks' = [locks EXCEPT ![kid[p]][tgt[p]] = locks[p][tgt[p]]]
  /\ GoOn(p, "fork", 0)
  /\ UNCHANGED <<name, cv, locked, owner, procVars, crit, history>>

\* fork2 makes the child runnable.
ForkEnd(p) ==
  /\ Runs(p, "fork") /\ Unshared(p) = {} /\ PtableFree
  /\ life' = [life EXCEPT ![kid[p]] = "alive"]
  /\ kid' = [kid EXCEPT ![p] = 0]
  /\ Return(p)
  /\ UNCHANGED <<muxVars, locks, killed, chan, reg, crit, history>>

\* kalloc fails before the handles are shared, or copyuvm after it: the pid is spent, and
\* handles that were counted stay counted.
ForkFails(p) ==
  /\ "oom" \in Workload /\ Runs(p, "fork")
  /\ Unshared(p) \in {{}, {i \in Muxes : locks[p][i] # NoMux}}
  /\ life' = [life EXCEPT ![kid[p]] = "dead"]
  /\ locks' = [locks EXCEPT ![kid[p]] = [i \in Muxes |-> NoMux]]
  /\ kid' = [kid EXCEPT ![p] = 0]
  /\ Return(p)
  /\ UNCHANGED <<muxVars, killed, chan, reg, crit, history>>

\* exit() takes ptable.lock, which it has at the points Ptable.
ExitBegin(p) ==
  /\ Runs(p, "user") /\ ("exit" \in Workload \/ killed[p]) /\ PtableFree
  /\ GoOn(p, "exit", 0)
  /\ UNCHANGED <<muxVars, locks, procVars, work, crit, history>>

\* Its loop over locks[]; the slot's locks[] is overwritten when it is reused.
ExitLoad(p) ==
  /\ Runs(p, "exit")
  /\ \E i \in Muxes \ Handles(p, NoMux) :
       /\ \A j \in Muxes \ Handles(p, NoMux) : i <= j
       /\ Load(p, locks[p][i])
       /\ GoOn(p, "exitsub", i)
  /\ UNCHANGED <<name, cv, locked, owner, locks, procVars, crit, history>>

ExitStore(p) ==
  /\ Runs(p, "exitsub")
  /\ Store(p, locks[p][tgt[p]], -1)
  /\ locks' = [locks EXCEPT ![p][tgt[p]] = NoMux]
  /\ GoOn(p, "exitown", locks[p][tgt[p]])
  /\ UNCHANGED <<name, cv, locked, owner, procVars, crit, history>>

\* Keeps the mutexes it owns.
ExitKeepsMutexes(p) ==
  /\ Runs(p, "exitown")
  /\ GoOn(p, "exit", 0)
  /\ UNCHANGED <<muxVars, locks, procVars, work, crit, history>>

\* An owner gives ptable.lock up, with interrupts off, to release the mutex.
ExitOwn(p) ==
  /\ Runs(p, "exitown")
  /\ IF owner[tgt[p]] = p THEN GoOn(p, "exitrel", tgt[p]) ELSE GoOn(p, "exit", 0)
  /\ UNCHANGED <<muxVars, locks, procVars, work, crit, history>>

\* releasesleep does not ask whose the mutex is by now.
ExitRelease(p) ==
  /\ Runs(p, "exitrel")
  /\ Release(p, tgt[p])
  /\ GoOn(p, "exitback", 0)
  /\ UNCHANGED <<name, count, cv, locks, life, killed, work, history>>

ExitRelock(p) ==
  /\ Runs(p, "exitback") /\ PtableFree
  /\ GoOn(p, "exit", 0)
  /\ UNCHANGED <<muxVars, locks, procVars, work, crit, history>>

ExitZombie(p) ==
  /\ Runs(p, "exit") /\ Handles(p, NoMux) = Muxes
  /\ life' = [life EXCEPT ![p] = "dead"]
  /\ crit' = [crit EXCEPT ![p] = {}]
  /\ Return(p)
  /\ UNCHANGED <<muxVars, locks, killed, chan, work, history>>

\* kill, or a fault of p itself: p exits when it is back in user space; a sleeper wakes.
Kill(p) ==
  /\ "kill" \in Workload /\ life[p] \in {"embryo", "alive"} /\ ~killed[p]
  /\ CpuBeside({}) /\ PtableFree
  /\ killed' = [killed EXCEPT ![p] = TRUE]
  /\ chan' = [chan EXCEPT ![p] = NoChan]
  /\ UNCHANGED <<muxVars, locks, life, pc, tgt, work, crit, history>>

-----------------------------------------------------------------------------
Create(p) == \/ CreateFind(p) \/ CreateLoad(p) \/ (\E n \in Names : CreateStore(p, n))
             \/ CreateFinish(p)
Delete(p) == (\E i \in Muxes : DeleteUnlock(p, i)) \/ DeleteLoad(p) \/ DeleteStore(p)
Locks(p)  == (\E i \in Muxes : Lock(p, i) \/ Unlock(p, i)) \/ LockRetry(p)
Cv(p)     == (\E i \in Muxes : CvWait(p, i) \/ CvSignal(p, i)) \/ CvRetry(p) \/ CvReturn(p)
Fork(p)   == ForkAlloc(p) \/ ForkLoad(p) \/ ForkStore(p) \/ ForkEnd(p) \/ ForkFails(p)
Exit(p)   == \/ ExitBegin(p) \/ ExitLoad(p) \/ ExitStore(p) \/ ExitOwn(p)
             \/ ExitRelease(p) \/ ExitRelock(p) \/ ExitZombie(p)

Next ==
  \E p \in Pids :
    \/ Create(p) \/ (\E n \in Names : Get(p, n)) \/ Delete(p) \/ Locks(p) \/ Cv(p)
    \/ Fork(p) \/ Exit(p) \/ Kill(p)

Spec == Init /\ [][Next]_vars

-----------------------------------------------------------------------------
(* Safety *)

\* mutex_lock/mutex_unlock: a process that was given a mutex and has not given it back
\* is its owner, so no two processes are inside.
MutualExclusion ==
  \A p \in Pids : \A m \in crit[p] : locked[m] /\ owner[m] = p

\* acquiresleep/releasesleep: nobody sleeps for a mutex that is free.
NoLostRelease ==
  \A p \in Pids, m \in Muxes : chan[p] = SlpChan(m) => locked[m]

\* cv_wait/cv_signal: nobody sleeps for a signal that has been counted and not taken.
NoLostSignal ==
  \A p \in Pids, m \in Muxes : chan[p] = CvChan(m) => cv[m] = 0

\* cv_wait/cv_signal: each signal lets one cv_wait return, none returns without one.
SignalsBalance ==
  \A m \in Muxes : signals[m] = waits[m] + cv[m]

\* exit: no mutex stays locked by a process that is gone.
DeadOwnNothing ==
  \A m \in Muxes : owner[m] # 0 => life[owner[m]] = "alive"

\* The handles to m, with the one a mutex_create is about to store.
Reached(m) ==
  {h \in Pids \X Muxes : locks[h[1]][h[2]] = m} \cup {<<p, NoMux>> : p \in {q \in Pids : pc[q] = "create2" /\ tgt[q] = m}}

\* mutex_create/mutex_delete/fork/exit: count is the number of handles, so that a slot is
\* reused exactly when nobody can reach it, unless a fork ran out of memory.
CountsHandles ==
  "oom" \notin Workload => \A m \in Muxes : Cardinality(Reached(m)) = count[m]

=============================================================================
