----------------------------- MODULE MutexProofs -----------------------------
(***************************************************************************)
(* Invariants of Mutex, proved for every number of processes and mutexes   *)
(* and for every workload, concurrent creators, mutex_get and any number   *)
(* of CPUs included where a theorem does not say otherwise.                *)
(***************************************************************************)
EXTENDS Mutex, FiniteSetTheorems, TLAPS

\* Only a living process is inside the kernel or asleep.
KernelAlive ==
  \A p \in Pids : pc[p] # "user" \/ chan[p] # NoChan => life[p] = "alive"

\* Who waits for a mutex reaches it through a handle.
WaiterHasHandle ==
  \A p \in Pids : pc[p] = "lock" => \E i \in Muxes : locks[p][i] = tgt[p]

\* Who is about to drop a handle does not own the mutex any more.
DeleterOwnsNot ==
  \A p \in Pids : pc[p] \in {"delete", "deletesub"} =>
    locks[p][tgt[p]] \in Muxes /\ owner[locks[p][tgt[p]]] # p

\* An owner is alive and has a handle to the mutex, so that exit() finds the mutex, or is
\* about to release it.
OwnerHasHandle ==
  \A m \in Muxes, p \in Pids : owner[m] = p =>
    /\ life[p] = "alive"
    /\ \/ \E i \in Muxes : locks[p][i] = m
       \/ pc[p] \in {"exitown", "exitrel"} /\ tgt[p] = m

\* The count that fork or exit has loaded is that of a mutex.
IndexOK ==
  \A p \in Pids : pc[p] \in {"forkadd", "exitsub"} => locks[p][tgt[p]] \in Muxes

\* A process in fork2 has a child of its own, which does not run yet.
KidOK ==
  \A p \in Pids :
    /\ pc[p] \in {"fork", "forkadd"} => kid[p] # 0
    /\ kid[p] # 0 => life[kid[p]] = "embryo"
    /\ \A q \in Pids : kid[q] = kid[p] /\ kid[p] # 0 => q = p

\* The inductive invariant for ownership.
IInv == /\ TypeOK /\ KernelAlive /\ WaiterHasHandle /\ DeleterOwnsNot /\ OwnerHasHandle
        /\ IndexOK /\ KidOK

\* Indices, pids and sleep channels are numbers, and no two channels are equal.
LEMMA TypeFacts ==
  /\ MUX_MAXNUM \in Nat /\ NoMux \notin Muxes /\ Muxes \subseteq Nat /\ 0 \in Muxes
  /\ Pids \subseteq Nat /\ 0 \notin Pids
  /\ NoChan \in Chans
  /\ \A m \in Muxes : /\ SlpChan(m) \in Chans /\ SlpChan(m) # NoChan
                      /\ CvChan(m) \in Chans /\ CvChan(m) # NoChan
  /\ \A m, n \in Muxes : SlpChan(m) # CvChan(n) /\ (CvChan(m) = CvChan(n) => m = n)
  <1>1. MUX_MAXNUM \in Nat /\ MUX_MAXNUM > 0
    BY MutexAssumption
  <1>2. Pids \subseteq Nat /\ 0 \notin Pids
    BY MutexAssumption
  <1>3. NoMux \notin Muxes /\ Muxes \subseteq Nat /\ 0 \in Muxes
    BY <1>1 DEF Muxes, NoMux
  <1>4. NoChan \in Chans
    BY <1>1 DEF NoChan, Chans
  <1>5. ASSUME NEW m \in Muxes
        PROVE  /\ SlpChan(m) \in Chans /\ SlpChan(m) # NoChan
               /\ CvChan(m) \in Chans /\ CvChan(m) # NoChan
    <2>1. m \in Nat /\ m <= MUX_MAXNUM - 1
      BY <1>1 DEF Muxes
    <2>2. m + 1 \in 0..(2 * MUX_MAXNUM) /\ MUX_MAXNUM + m + 1 \in 0..(2 * MUX_MAXNUM)
      BY <1>1, <2>1
    <2>3. m + 1 # 0 /\ MUX_MAXNUM + m + 1 # 0
      BY <1>1, <2>1
    <2> QED BY <2>2, <2>3 DEF SlpChan, CvChan, Chans, NoChan
  <1>6. ASSUME NEW m \in Muxes, NEW n \in Muxes
        PROVE  SlpChan(m) # CvChan(n) /\ (CvChan(m) = CvChan(n) => m = n)
    <2>1. m \in Nat /\ n \in Nat /\ m <= MUX_MAXNUM - 1
      BY <1>1 DEF Muxes
    <2> QED BY <1>1, <2>1 DEF SlpChan, CvChan
  <1> QED BY <1>1, <1>2, <1>3, <1>4, <1>5, <1>6

\* The initial state satisfies the invariant.
LEMMA InitIInv == Init => IInv
  <1> SUFFICES ASSUME Init PROVE IInv
    OBVIOUS
  <1> USE TypeFacts DEF Init
  <1>1. TypeOK
    BY DEF TypeOK, Points
  <1>2. KernelAlive /\ WaiterHasHandle /\ DeleterOwnsNot /\ OwnerHasHandle /\ IndexOK /\ KidOK
    BY DEF KernelAlive, WaiterHasHandle, DeleterOwnsNot, OwnerHasHandle, IndexOK, KidOK
  <1> QED BY <1>1, <1>2 DEF IInv

-----------------------------------------------------------------------------
(* What the helpers of the actions do. *)

\* GoOn moves p and nobody else.
LEMMA MoveFacts ==
  ASSUME TypeOK, NEW p \in Pids, NEW at \in Points, NEW m \in Muxes, GoOn(p, at, m)
  PROVE  /\ pc' \in [Pids -> Points] /\ tgt' \in [Pids -> Muxes]
         /\ pc'[p] = at /\ tgt'[p] = m
         /\ \A q \in Pids : q # p => pc'[q] = pc[q] /\ tgt'[q] = tgt[q]
  BY DEF GoOn, TypeOK

\* The first half of count++ leaves memory alone.
LEMMA LoadFacts ==
  ASSUME TypeOK, NEW p \in Pids, NEW m \in Muxes, Load(p, m)
  PROVE  /\ reg' \in [Pids -> Int] /\ reg'[p] = count[m]
         /\ count' = count /\ kid' = kid
  BY DEF Load, TypeOK

\* The second half changes one count.
LEMMA StoreFacts ==
  ASSUME TypeOK, NEW p \in Pids, NEW m \in Muxes, NEW d \in Int, Store(p, m, d)
  PROVE  /\ reg' \in [Pids -> Int] /\ count' \in [Muxes -> Int]
         /\ count'[m] = reg[p] + d /\ \A n \in Muxes : n # m => count'[n] = count[n]
         /\ kid' = kid
  BY DEF Store, TypeOK

\* releasesleep frees one mutex and wakes those who sleep for it.
LEMMA ReleaseFacts ==
  ASSUME TypeOK, NEW p \in Pids, NEW m \in Muxes, Release(p, m)
  PROVE  /\ locked' \in [Muxes -> BOOLEAN] /\ owner' \in [Muxes -> Pids \cup {0}]
         /\ crit' \in [Pids -> SUBSET Muxes] /\ chan' \in [Pids -> Chans]
         /\ owner'[m] = 0 /\ \A n \in Muxes : n # m => owner'[n] = owner[n]
         /\ \A q \in Pids : chan'[q] \in {chan[q], NoChan}
  BY TypeFacts DEF Release, Woken, TypeOK

\* A new handle goes into a free slot.
LEMMA AddFacts ==
  ASSUME TypeOK, NEW p \in Pids, NEW m \in Muxes, AddHandle(p, m)
  PROVE  /\ locks' \in [Pids -> [Muxes -> Muxes \cup {NoMux}]]
         /\ \A q \in Pids, i \in Muxes : locks[q][i] # NoMux => locks'[q][i] = locks[q][i]
  <1>1. ASSUME NEW i \in Muxes, locks[p][i] = NoMux, locks' = [locks EXCEPT ![p][i] = m]
        PROVE  /\ locks' \in [Pids -> [Muxes -> Muxes \cup {NoMux}]]
               /\ \A q \in Pids, j \in Muxes : locks[q][j] # NoMux => locks'[q][j] = locks[q][j]
    BY <1>1 DEF TypeOK
  <1>2. CASE UNCHANGED locks
    BY <1>2 DEF TypeOK
  <1> QED BY <1>1, <1>2 DEF AddHandle, Handles

\* The points of the processes, for use without their definitions.
LEMMA PointFacts ==
  /\ {"user", "create1", "createadd", "create2", "lock", "delete", "deletesub", "cv", "waited",
      "fork", "forkadd", "exit", "exitsub", "exitown", "exitrel", "exitback"} = Points
  BY DEF Points, Uncut

-----------------------------------------------------------------------------
(* One lemma per action: the action preserves the invariant. *)

\* A step of p that leaves handles and children alone, wakes whom it likes, and gives no mutex
\* to p that p has no handle to.
LEMMA Kept ==
  ASSUME IInv, TypeOK', NEW p \in Pids, life[p] = "alive", UNCHANGED <<locks, life, kid>>,
         \A q \in Pids : q # p => pc'[q] = pc[q] /\ tgt'[q] = tgt[q],
         \A q \in Pids : q # p => chan'[q] \in {chan[q], NoChan},
         \A m \in Muxes : owner'[m] \in {owner[m], 0} \/
                          (owner'[m] = p /\ \E i \in Muxes : locks[p][i] = m),
         pc'[p] = "lock" => \E i \in Muxes : locks[p][i] = tgt'[p],
         pc'[p] \in {"delete", "deletesub"} =>
           locks[p][tgt'[p]] \in Muxes /\ owner'[locks[p][tgt'[p]]] # p,
         pc'[p] \in {"forkadd", "exitsub"} => locks[p][tgt'[p]] \in Muxes,
         pc'[p] \in {"fork", "forkadd"} => kid[p] # 0,
         \A m \in Muxes : pc[p] \in {"exitown", "exitrel"} /\ tgt[p] = m /\ owner'[m] = p =>
                          pc'[p] = "exitrel" /\ tgt'[p] = m
  PROVE  IInv'
  <1> USE TypeFacts
  <1>1. KernelAlive'
    BY DEF IInv, KernelAlive
  <1>2. WaiterHasHandle'
    <2> SUFFICES ASSUME NEW q \in Pids, pc'[q] = "lock" PROVE \E i \in Muxes : locks[q][i] = tgt'[q]
      BY DEF WaiterHasHandle
    <2>1. CASE q = p
      BY <2>1
    <2>2. CASE q # p
      BY <2>2 DEF IInv, WaiterHasHandle
    <2> QED BY <2>1, <2>2
  <1>3. DeleterOwnsNot'
    <2> SUFFICES ASSUME NEW q \in Pids, pc'[q] \in {"delete", "deletesub"}
                 PROVE  locks[q][tgt'[q]] \in Muxes /\ owner'[locks[q][tgt'[q]]] # q
      BY DEF DeleterOwnsNot
    <2>1. CASE q = p
      BY <2>1
    <2>2. CASE q # p
      <3>1. PICK m \in Muxes : m = locks[q][tgt[q]] /\ owner[m] # q
        BY <2>2 DEF IInv, DeleterOwnsNot
      <3>2. owner'[m] # q
        BY <2>2, <3>1
      <3> QED BY <2>2, <3>1, <3>2
    <2> QED BY <2>1, <2>2
  <1>4. OwnerHasHandle'
    <2> SUFFICES ASSUME NEW m \in Muxes, NEW q \in Pids, owner'[m] = q
                 PROVE  /\ life[q] = "alive"
                        /\ \/ \E i \in Muxes : locks[q][i] = m
                           \/ pc'[q] \in {"exitown", "exitrel"} /\ tgt'[q] = m
      BY DEF OwnerHasHandle
    <2>1. CASE owner[m] = q
      BY <2>1 DEF IInv, OwnerHasHandle
    <2>2. CASE owner[m] # q
      BY <2>2
    <2> QED BY <2>1, <2>2
  <1>5. IndexOK' /\ KidOK'
    BY DEF IInv, IndexOK, KidOK
  <1> QED BY <1>1, <1>2, <1>3, <1>4, <1>5 DEF IInv

\* mutex_create up to the count: the choice of a slot, count++ and the name.
LEMMA CreateStep ==
  ASSUME NEW p \in Pids, IInv,
         CreateFind(p) \/ CreateLoad(p) \/ (\E n \in Names : CreateStore(p, n))
  PROVE  IInv'
  <1>0. TypeOK /\ tgt[p] \in Muxes
    BY DEF IInv, TypeOK
  <1>1. CASE CreateFind(p)
    <2>1. PICK m \in Muxes : GoOn(p, "create1", m)
      BY <1>1 DEF CreateFind
    <2>2. /\ life[p] = "alive" /\ pc[p] = "user"
          /\ UNCHANGED <<muxVars, locks, procVars, work, crit, history>>
      BY <1>1 DEF CreateFind, User, Runs
    <2>3. /\ pc' \in [Pids -> Points] /\ tgt' \in [Pids -> Muxes] /\ pc'[p] = "create1"
          /\ \A q \in Pids : q # p => pc'[q] = pc[q] /\ tgt'[q] = tgt[q]
      BY <1>0, <2>1, MoveFacts, PointFacts
    <2>4. TypeOK'
      BY <1>0, <2>2, <2>3 DEF TypeOK, muxVars, procVars, work, history
    <2> QED BY <2>2, <2>3, <2>4, Kept DEF muxVars, procVars, work
  <1>2. CASE CreateLoad(p)
    <2>1. /\ life[p] = "alive" /\ pc[p] = "create1" /\ Load(p, tgt[p]) /\ GoOn(p, "createadd", tgt[p])
          /\ UNCHANGED <<name, cv, locked, owner, locks, procVars, crit, history>>
      BY <1>2 DEF CreateLoad, Runs
    <2>2. /\ pc' \in [Pids -> Points] /\ tgt' \in [Pids -> Muxes] /\ pc'[p] = "createadd"
          /\ \A q \in Pids : q # p => pc'[q] = pc[q] /\ tgt'[q] = tgt[q]
      BY <1>0, <2>1, MoveFacts, PointFacts
    <2>3. reg' \in [Pids -> Int] /\ UNCHANGED <<count, kid>>
      BY <1>0, <2>1, LoadFacts
    <2>4. TypeOK'
      BY <1>0, <2>1, <2>2, <2>3 DEF TypeOK, procVars, history
    <2> QED BY <2>1, <2>2, <2>3, <2>4, Kept DEF procVars
  <1>3. ASSUME NEW n \in Names, CreateStore(p, n) PROVE IInv'
    <2>1. /\ life[p] = "alive" /\ pc[p] = "createadd" /\ Store(p, tgt[p], 1)
          /\ GoOn(p, "create2", tgt[p]) /\ name' = [name EXCEPT ![tgt[p]] = n]
          /\ UNCHANGED <<cv, locked, owner, locks, procVars, crit, history>>
      BY <1>3 DEF CreateStore, Runs
    <2>2. /\ pc' \in [Pids -> Points] /\ tgt' \in [Pids -> Muxes] /\ pc'[p] = "create2"
          /\ \A q \in Pids : q # p => pc'[q] = pc[q] /\ tgt'[q] = tgt[q]
      BY <1>0, <2>1, MoveFacts, PointFacts
    <2>3. reg' \in [Pids -> Int] /\ count' \in [Muxes -> Int] /\ UNCHANGED kid
      BY <1>0, <2>1, StoreFacts
    <2>4. name' \in [Muxes -> Names \cup {NoName}]
      BY <1>0, <2>1 DEF TypeOK
    <2>5. TypeOK'
      BY <1>0, <2>1, <2>2, <2>3, <2>4 DEF TypeOK, procVars, history
    <2> QED BY <2>1, <2>2, <2>3, <2>5, Kept DEF procVars
  <1> QED BY <1>1, <1>2, <1>3

\* More handles, nothing else that matters to ownership but an owner less.
LEMMA KeptAdding ==
  ASSUME IInv, TypeOK', NEW p \in Pids, pc[p] \in {"user", "create2"}, UNCHANGED <<life, kid, chan>>,
         \A q \in Pids, i \in Muxes : locks[q][i] # NoMux => locks'[q][i] = locks[q][i],
         pc'[p] = "user", \A q \in Pids : q # p => pc'[q] = pc[q] /\ tgt'[q] = tgt[q],
         \A m \in Muxes : owner'[m] \in {owner[m], 0}
  PROVE  IInv'
  <1>0. /\ tgt \in [Pids -> Muxes] /\ owner \in [Muxes -> Pids \cup {0}]
        /\ 0 \notin Pids /\ NoMux \notin Muxes
    BY TypeFacts DEF IInv, TypeOK
  <1>1. KernelAlive'
    BY DEF IInv, KernelAlive
  <1>2. WaiterHasHandle'
    <2> SUFFICES ASSUME NEW q \in Pids, pc'[q] = "lock" PROVE \E i \in Muxes : locks'[q][i] = tgt'[q]
      BY DEF WaiterHasHandle
    <2>1. q # p
      OBVIOUS
    <2>2. PICK i \in Muxes : locks[q][i] = tgt[q]
      BY <2>1 DEF IInv, WaiterHasHandle
    <2>3. locks'[q][i] = locks[q][i]
      BY <1>0, <2>2
    <2> QED BY <2>1, <2>2, <2>3
  <1>3. IndexOK'
    <2> SUFFICES ASSUME NEW q \in Pids, pc'[q] \in {"forkadd", "exitsub"}
                 PROVE  locks'[q][tgt'[q]] \in Muxes
      BY DEF IndexOK
    <2>1. q # p
      OBVIOUS
    <2>2. locks[q][tgt[q]] \in Muxes
      BY <2>1 DEF IInv, IndexOK
    <2>3. locks'[q][tgt[q]] = locks[q][tgt[q]]
      BY <1>0, <2>2
    <2> QED BY <2>1, <2>2, <2>3
  <1>4. KidOK'
    BY DEF IInv, KidOK
  <1>5. DeleterOwnsNot'
    <2> SUFFICES ASSUME NEW q \in Pids, pc'[q] \in {"delete", "deletesub"}
                 PROVE  locks'[q][tgt'[q]] \in Muxes /\ owner'[locks'[q][tgt'[q]]] # q
      BY DEF DeleterOwnsNot
    <2>1. q # p
      OBVIOUS
    <2>2. PICK m \in Muxes : m = locks[q][tgt[q]] /\ owner[m] # q
      BY <2>1 DEF IInv, DeleterOwnsNot
    <2>3. locks'[q][tgt[q]] = m
      BY <1>0, <2>2
    <2>4. owner'[m] # q
      BY <1>0, <2>2
    <2> QED BY <2>1, <2>3, <2>4
  <1>6. OwnerHasHandle'
    <2>1. ASSUME NEW m \in Muxes, NEW q \in Pids, owner'[m] = q
          PROVE  /\ life[q] = "alive"
                 /\ \/ \E i \in Muxes : locks'[q][i] = m
                    \/ pc'[q] \in {"exitown", "exitrel"} /\ tgt'[q] = m
      <3>1. owner[m] = q
        BY <1>0, <2>1
      <3>2. life[q] = "alive"
        BY <3>1 DEF IInv, OwnerHasHandle
      <3>3. CASE \E i \in Muxes : locks[q][i] = m
        <4>1. PICK i \in Muxes : locks[q][i] = m
          BY <3>3
        <4>2. locks'[q][i] = m
          BY <1>0, <4>1
        <4> QED BY <3>2, <4>2
      <3>4. CASE pc[q] \in {"exitown", "exitrel"} /\ tgt[q] = m
        <4>1. q # p
          BY <3>4
        <4> QED BY <3>2, <3>4, <4>1
      <3> QED BY <3>1, <3>3, <3>4 DEF IInv, OwnerHasHandle
    <2> QED BY <2>1 DEF OwnerHasHandle
  <1> QED BY <1>1, <1>2, <1>3, <1>4, <1>5, <1>6 DEF IInv

\* mutex_create, the handle and initsleeplock.
LEMMA CreateFinishStep ==
  ASSUME NEW p \in Pids, IInv, CreateFinish(p)
  PROVE  IInv'
  <1>0. TypeOK /\ tgt[p] \in Muxes /\ 0 \in Muxes
    BY TypeFacts DEF IInv, TypeOK
  <1>1. /\ pc[p] = "create2" /\ AddHandle(p, tgt[p]) /\ GoOn(p, "user", 0)
        /\ locked' = [locked EXCEPT ![tgt[p]] = FALSE] /\ owner' = [owner EXCEPT ![tgt[p]] = 0]
        /\ UNCHANGED <<name, count, cv, procVars, work, crit, history>>
    BY DEF CreateFinish, Runs, Return
  <1>2. /\ pc' \in [Pids -> Points] /\ tgt' \in [Pids -> Muxes] /\ pc'[p] = "user"
        /\ \A q \in Pids : q # p => pc'[q] = pc[q] /\ tgt'[q] = tgt[q]
    BY <1>0, <1>1, MoveFacts, PointFacts
  <1>3. /\ locks' \in [Pids -> [Muxes -> Muxes \cup {NoMux}]]
        /\ \A q \in Pids, i \in Muxes : locks[q][i] # NoMux => locks'[q][i] = locks[q][i]
    BY <1>0, <1>1, AddFacts
  <1>4. /\ locked' \in [Muxes -> BOOLEAN] /\ owner' \in [Muxes -> Pids \cup {0}]
        /\ \A m \in Muxes : owner'[m] \in {owner[m], 0}
    BY <1>0, <1>1 DEF TypeOK
  <1>5. TypeOK'
    BY <1>0, <1>1, <1>2, <1>3, <1>4 DEF TypeOK, procVars, work, history
  <1> QED BY <1>1, <1>2, <1>3, <1>4, <1>5, KeptAdding DEF procVars, work

\* mutex_get.
LEMMA GetStep ==
  ASSUME NEW p \in Pids, NEW n \in Names, IInv, Get(p, n)
  PROVE  IInv'
  <1>0. TypeOK
    BY DEF IInv
  <1>1. PICK m \in Muxes : AddHandle(p, m)
    BY DEF Get
  <1>2. pc[p] = "user" /\ UNCHANGED <<muxVars, procVars, pc, tgt, work, crit, history>>
    BY DEF Get, User, Runs
  <1>3. /\ locks' \in [Pids -> [Muxes -> Muxes \cup {NoMux}]]
        /\ \A q \in Pids, i \in Muxes : locks[q][i] # NoMux => locks'[q][i] = locks[q][i]
    BY <1>0, <1>1, AddFacts
  <1>4. TypeOK'
    BY <1>0, <1>2, <1>3 DEF TypeOK, muxVars, procVars, work, history
  <1> QED BY <1>2, <1>3, <1>4, KeptAdding DEF muxVars, procVars, work

\* mutex_delete up to the count: the caller is no owner afterwards.
LEMMA DeleteStep ==
  ASSUME NEW p \in Pids, IInv, (\E i \in Muxes : DeleteUnlock(p, i)) \/ DeleteLoad(p)
  PROVE  IInv'
  <1>0. TypeOK /\ locks \in [Pids -> [Muxes -> Muxes \cup {NoMux}]] /\ tgt[p] \in Muxes
    BY DEF IInv, TypeOK
  <1>1. ASSUME NEW i \in Muxes, DeleteUnlock(p, i) PROVE IInv'
    <2>1. /\ life[p] = "alive" /\ pc[p] = "user" /\ GoOn(p, "delete", i)
          /\ UNCHANGED <<name, count, cv, locks, life, killed, work, history>>
      BY <1>1 DEF DeleteUnlock, User, Runs
    <2>2. PICK m \in Muxes : m = locks[p][i]
      BY <1>0, <1>1 DEF DeleteUnlock
    <2>3. /\ locked' \in [Muxes -> BOOLEAN] /\ owner' \in [Muxes -> Pids \cup {0}]
          /\ crit' \in [Pids -> SUBSET Muxes] /\ chan' \in [Pids -> Chans]
          /\ owner'[m] # p /\ \A n \in Muxes : owner'[n] \in {owner[n], 0}
          /\ \A q \in Pids : chan'[q] \in {chan[q], NoChan}
      <3>1. CASE owner[m] = p
        <4>1. Release(p, m)
          BY <1>1, <2>2, <3>1 DEF DeleteUnlock
        <4> QED BY <1>0, <4>1, ReleaseFacts, TypeFacts
      <3>2. CASE owner[m] # p
        <4>1. UNCHANGED <<locked, owner, crit, chan>>
          BY <1>1, <2>2, <3>2 DEF DeleteUnlock
        <4> QED BY <1>0, <3>2, <4>1 DEF TypeOK
      <3> QED BY <3>1, <3>2
    <2>4. /\ pc' \in [Pids -> Points] /\ tgt' \in [Pids -> Muxes] /\ pc'[p] = "delete" /\ tgt'[p] = i
          /\ \A q \in Pids : q # p => pc'[q] = pc[q] /\ tgt'[q] = tgt[q]
      BY <1>0, <2>1, MoveFacts, PointFacts
    <2>5. TypeOK'
      BY <1>0, <2>1, <2>3, <2>4 DEF TypeOK, work, history
    <2> QED BY <2>1, <2>2, <2>3, <2>4, <2>5, Kept DEF work
  <1>2. CASE DeleteLoad(p)
    <2>1. /\ life[p] = "alive" /\ pc[p] = "delete" /\ Load(p, locks[p][tgt[p]])
          /\ GoOn(p, "deletesub", tgt[p])
          /\ UNCHANGED <<name, cv, locked, owner, locks, procVars, crit, history>>
      BY <1>2 DEF DeleteLoad, Runs
    <2>2. locks[p][tgt[p]] \in Muxes /\ owner[locks[p][tgt[p]]] # p
      BY <2>1 DEF IInv, DeleterOwnsNot
    <2>3. /\ pc' \in [Pids -> Points] /\ tgt' \in [Pids -> Muxes]
          /\ pc'[p] = "deletesub" /\ tgt'[p] = tgt[p]
          /\ \A q \in Pids : q # p => pc'[q] = pc[q] /\ tgt'[q] = tgt[q]
      BY <1>0, <2>1, MoveFacts, PointFacts
    <2>4. reg' \in [Pids -> Int] /\ UNCHANGED <<count, kid>>
      BY <1>0, <2>1, <2>2, LoadFacts
    <2>5. TypeOK'
      BY <1>0, <2>1, <2>3, <2>4 DEF TypeOK, procVars, history
    <2> QED BY <2>1, <2>2, <2>3, <2>4, <2>5, Kept DEF procVars
  <1> QED BY <1>1, <1>2

\* A step of p that drops one handle of p, whose mutex p does not own or is about to release.
LEMMA KeptDropping ==
  ASSUME IInv, TypeOK', NEW p \in Pids, NEW i \in Muxes, NEW m \in Muxes,
         life[p] = "alive", pc[p] \in {"deletesub", "exitsub"}, locks[p][i] = m,
         UNCHANGED <<life, kid, chan, owner>>, locks' = [locks EXCEPT ![p][i] = NoMux],
         \A q \in Pids : q # p => pc'[q] = pc[q] /\ tgt'[q] = tgt[q],
         \/ pc'[p] = "user" /\ owner[m] # p
         \/ pc'[p] = "exitown" /\ tgt'[p] = m
  PROVE  IInv'
  <1> USE TypeFacts
  <1>0. tgt \in [Pids -> Muxes] /\ locks \in [Pids -> [Muxes -> Muxes \cup {NoMux}]]
    BY DEF IInv, TypeOK
  <1>1. /\ \A q \in Pids : q # p => locks'[q] = locks[q]
        /\ \A j \in Muxes : j # i => locks'[p][j] = locks[p][j]
    BY <1>0
  <1>2. KernelAlive' /\ KidOK'
    BY DEF IInv, KernelAlive, KidOK
  <1>3. WaiterHasHandle' /\ IndexOK' /\ DeleterOwnsNot'
    BY <1>1 DEF IInv, WaiterHasHandle, IndexOK, DeleterOwnsNot
  <1>4. OwnerHasHandle'
    <2> SUFFICES ASSUME NEW n \in Muxes, NEW q \in Pids, owner[n] = q
                 PROVE  /\ life[q] = "alive"
                        /\ \/ \E j \in Muxes : locks'[q][j] = n
                           \/ pc'[q] \in {"exitown", "exitrel"} /\ tgt'[q] = n
      BY DEF OwnerHasHandle
    <2>1. /\ life[q] = "alive"
          /\ \/ \E j \in Muxes : locks[q][j] = n
             \/ pc[q] \in {"exitown", "exitrel"} /\ tgt[q] = n
      BY DEF IInv, OwnerHasHandle
    <2>2. CASE q # p
      BY <1>1, <2>1, <2>2
    <2>3. CASE q = p /\ n = m
      BY <2>1, <2>3
    <2>4. CASE q = p /\ n # m
      BY <1>1, <2>1, <2>4
    <2> QED BY <2>2, <2>3, <2>4
  <1> QED BY <1>2, <1>3, <1>4 DEF IInv

\* mutex_delete, count and handle: the caller is no owner of what it drops.
LEMMA DeleteStoreStep ==
  ASSUME NEW p \in Pids, IInv, DeleteStore(p)
  PROVE  IInv'
  <1>0. TypeOK /\ locks \in [Pids -> [Muxes -> Muxes \cup {NoMux}]] /\ tgt[p] \in Muxes /\ 0 \in Muxes
    BY TypeFacts DEF IInv, TypeOK
  <1>1. /\ life[p] = "alive" /\ pc[p] = "deletesub" /\ Store(p, locks[p][tgt[p]], -1)
        /\ locks' = [locks EXCEPT ![p][tgt[p]] = NoMux] /\ GoOn(p, "user", 0)
        /\ UNCHANGED <<name, cv, locked, owner, procVars, crit, history>>
    BY DEF DeleteStore, Runs, Return
  <1>2. locks[p][tgt[p]] \in Muxes /\ owner[locks[p][tgt[p]]] # p
    BY <1>1 DEF IInv, DeleterOwnsNot
  <1>3. /\ pc' \in [Pids -> Points] /\ tgt' \in [Pids -> Muxes] /\ pc'[p] = "user"
        /\ \A q \in Pids : q # p => pc'[q] = pc[q] /\ tgt'[q] = tgt[q]
    BY <1>0, <1>1, MoveFacts, PointFacts
  <1>4. reg' \in [Pids -> Int] /\ count' \in [Muxes -> Int] /\ UNCHANGED kid
    BY <1>0, <1>1, <1>2, StoreFacts
  <1>5. locks' \in [Pids -> [Muxes -> Muxes \cup {NoMux}]]
    BY <1>0, <1>1
  <1>6. TypeOK'
    BY <1>0, <1>1, <1>3, <1>4, <1>5 DEF TypeOK, procVars, history
  <1> QED BY <1>0, <1>1, <1>2, <1>3, <1>4, <1>6, KeptDropping DEF procVars

\* acquiresleep, for a caller that has a handle to the mutex.
LEMMA AcquireStep ==
  ASSUME NEW p \in Pids, NEW m \in Muxes, IInv, Acquire(p, m),
         life[p] = "alive", pc[p] \in {"user", "lock"}, \E i \in Muxes : locks[p][i] = m,
         UNCHANGED <<name, count, cv, locks, life, killed, work, history>>
  PROVE  IInv'
  <1>0. TypeOK /\ 0 \in Muxes
    BY TypeFacts DEF IInv
  <1>1. CASE locked[m]
    <2>1. /\ chan' = [chan EXCEPT ![p] = SlpChan(m)] /\ GoOn(p, "lock", m)
          /\ UNCHANGED <<locked, owner, crit>>
      BY <1>1 DEF Acquire
    <2>2. /\ pc' \in [Pids -> Points] /\ tgt' \in [Pids -> Muxes] /\ pc'[p] = "lock" /\ tgt'[p] = m
          /\ \A q \in Pids : q # p => pc'[q] = pc[q] /\ tgt'[q] = tgt[q]
      BY <1>0, <2>1, MoveFacts, PointFacts
    <2>3. chan' \in [Pids -> Chans] /\ \A q \in Pids : q # p => chan'[q] = chan[q]
      BY <1>0, <2>1, TypeFacts DEF TypeOK
    <2>4. TypeOK'
      BY <1>0, <2>1, <2>2, <2>3 DEF TypeOK, work, history
    <2> QED BY <2>1, <2>2, <2>3, <2>4, Kept DEF work
  <1>2. CASE ~locked[m]
    <2>1. /\ locked' = [locked EXCEPT ![m] = TRUE] /\ owner' = [owner EXCEPT ![m] = p]
          /\ crit' = [crit EXCEPT ![p] = @ \cup {m}] /\ GoOn(p, "user", 0) /\ UNCHANGED chan
      BY <1>2 DEF Acquire, Return
    <2>2. /\ pc' \in [Pids -> Points] /\ tgt' \in [Pids -> Muxes] /\ pc'[p] = "user"
          /\ \A q \in Pids : q # p => pc'[q] = pc[q] /\ tgt'[q] = tgt[q]
      BY <1>0, <2>1, MoveFacts, PointFacts
    <2>3. /\ locked' \in [Muxes -> BOOLEAN] /\ owner' \in [Muxes -> Pids \cup {0}]
          /\ crit' \in [Pids -> SUBSET Muxes]
      BY <1>0, <2>1 DEF TypeOK
    <2>4. \A n \in Muxes : owner'[n] = owner[n] \/ (owner'[n] = p /\ n = m)
      BY <1>0, <2>1 DEF TypeOK
    <2>5. TypeOK'
      BY <1>0, <2>1, <2>2, <2>3 DEF TypeOK, work, history
    <2> QED BY <2>1, <2>2, <2>4, <2>5, Kept DEF work
  <1> QED BY <1>1, <1>2

\* mutex_lock, also after a wake-up, and mutex_unlock.
LEMMA LocksStep ==
  ASSUME NEW p \in Pids, IInv, Locks(p)
  PROVE  IInv'
  <1>0. TypeOK /\ locks \in [Pids -> [Muxes -> Muxes \cup {NoMux}]] /\ tgt[p] \in Muxes
    BY DEF IInv, TypeOK
  <1>1. ASSUME NEW i \in Muxes, Lock(p, i) PROVE IInv'
    <2>1. locks[p][i] \in Muxes
      BY <1>0, <1>1 DEF Lock
    <2> QED BY <1>1, <2>1, AcquireStep DEF Lock, User, Runs
  <1>2. CASE LockRetry(p)
    <2>1. \E i \in Muxes : locks[p][i] = tgt[p]
      BY <1>2 DEF IInv, WaiterHasHandle, LockRetry, Runs
    <2> QED BY <1>0, <1>2, <2>1, AcquireStep DEF LockRetry, Runs
  <1>3. ASSUME NEW i \in Muxes, Unlock(p, i) PROVE IInv'
    <2>1. PICK m \in Muxes : m = locks[p][i]
      BY <1>0, <1>3 DEF Unlock
    <2>2. /\ life[p] = "alive" /\ pc[p] = "user" /\ Release(p, m)
          /\ UNCHANGED <<name, count, cv, locks, life, killed, pc, tgt, work, history>>
      BY <1>3, <2>1 DEF Unlock, User, Runs
    <2>3. /\ locked' \in [Muxes -> BOOLEAN] /\ owner' \in [Muxes -> Pids \cup {0}]
          /\ crit' \in [Pids -> SUBSET Muxes] /\ chan' \in [Pids -> Chans]
          /\ \A n \in Muxes : owner'[n] \in {owner[n], 0}
          /\ \A q \in Pids : chan'[q] \in {chan[q], NoChan}
      BY <1>0, <2>2, ReleaseFacts
    <2>4. TypeOK'
      BY <1>0, <2>2, <2>3 DEF TypeOK, work, history
    <2> QED BY <2>2, <2>3, <2>4, Kept DEF work
  <1> QED BY <1>1, <1>2, <1>3 DEF Locks

\* One turn of cv_wait's loop, whatever cv_count it starts from.
LEMMA CvTurnStep ==
  ASSUME NEW p \in Pids, NEW m \in Muxes, NEW c \in [Muxes -> Nat], IInv, CvTurn(p, m, c),
         life[p] = "alive", pc[p] \in {"user", "cv"},
         UNCHANGED <<name, count, locks, life, killed, work, signals>>
  PROVE  IInv'
  <1> USE TypeFacts
  <1>0. TypeOK
    BY DEF IInv
  <1>a. ASSUME NEW at \in {"waited", "cv"}, GoOn(p, at, m)
        PROVE  /\ pc' \in [Pids -> Points] /\ tgt' \in [Pids -> Muxes] /\ pc'[p] = at
               /\ \A q \in Pids : q # p => pc'[q] = pc[q] /\ tgt'[q] = tgt[q]
    BY <1>0, <1>a, MoveFacts, PointFacts
  <1>1. CASE c[m] > 0
    <2>1. /\ cv' = [c EXCEPT ![m] = @ - 1] /\ waits' = [waits EXCEPT ![m] = @ + 1]
          /\ GoOn(p, "waited", m) /\ UNCHANGED <<locked, owner, crit, chan>>
      BY <1>1 DEF CvTurn
    <2>2. cv' \in [Muxes -> Nat] /\ waits' \in [Muxes -> Nat]
      BY <1>0, <1>1, <2>1 DEF TypeOK
    <2>3. TypeOK'
      BY <1>0, <1>a, <2>1, <2>2 DEF TypeOK, work
    <2> QED BY <1>a, <2>1, <2>3, Kept DEF work
  <1>2. CASE ~(c[m] > 0) /\ owner[m] = p
    <2>1. /\ locked' = [locked EXCEPT ![m] = FALSE] /\ owner' = [owner EXCEPT ![m] = 0]
          /\ crit' = [crit EXCEPT ![p] = @ \ {m}]
          /\ chan' = [Woken(SlpChan(m)) EXCEPT ![p] = CvChan(m)]
          /\ GoOn(p, "cv", m) /\ cv' = c /\ UNCHANGED waits
      BY <1>2 DEF CvTurn
    <2>2. /\ chan' \in [Pids -> Chans]
          /\ \A q \in Pids : q # p => chan'[q] \in {chan[q], NoChan}
      BY <1>0, <2>1 DEF TypeOK, Woken
    <2>3. /\ locked' \in [Muxes -> BOOLEAN] /\ owner' \in [Muxes -> Pids \cup {0}]
          /\ crit' \in [Pids -> SUBSET Muxes]
      BY <1>0, <2>1 DEF TypeOK
    <2>4. \A n \in Muxes : owner'[n] \in {owner[n], 0}
      BY <1>0, <2>1 DEF TypeOK
    <2>5. TypeOK'
      BY <1>0, <1>a, <2>1, <2>2, <2>3 DEF TypeOK, work
    <2> QED BY <1>a, <2>1, <2>2, <2>4, <2>5, Kept DEF work
  <1>3. CASE ~(c[m] > 0) /\ owner[m] # p
    <2>1. /\ chan' = [chan EXCEPT ![p] = CvChan(m)] /\ UNCHANGED <<locked, owner, crit>>
          /\ GoOn(p, "cv", m) /\ cv' = c /\ UNCHANGED waits
      BY <1>3 DEF CvTurn
    <2>2. chan' \in [Pids -> Chans] /\ \A q \in Pids : q # p => chan'[q] = chan[q]
      BY <1>0, <2>1 DEF TypeOK
    <2>3. TypeOK'
      BY <1>0, <1>a, <2>1, <2>2 DEF TypeOK, work
    <2> QED BY <1>a, <2>1, <2>2, <2>3, Kept DEF work
  <1> QED BY <1>1, <1>2, <1>3

\* A counter of a mutex goes up by one.
LEMMA CountsUp ==
  ASSUME NEW S, NEW f \in [S -> Nat], NEW s \in S
  PROVE  [f EXCEPT ![s] = f[s] + 1] \in [S -> Nat]
  OBVIOUS

\* cv_wait, also after a wake-up, and cv_signal.
LEMMA CvStep ==
  ASSUME NEW p \in Pids, IInv, Cv(p)
  PROVE  IInv'
  <1>0. /\ TypeOK /\ locks \in [Pids -> [Muxes -> Muxes \cup {NoMux}]] /\ tgt[p] \in Muxes /\ 0 \in Muxes
        /\ cv \in [Muxes -> Nat] /\ signals \in [Muxes -> Nat] /\ chan \in [Pids -> Chans]
    BY TypeFacts DEF IInv, TypeOK
  <1>1. ASSUME NEW i \in Muxes, CvWait(p, i) PROVE IInv'
    <2>1. locks[p][i] \in Muxes
      BY <1>0, <1>1 DEF CvWait
    <2>2. Marked(p, locks[p][i]) \in [Muxes -> Nat]
      BY <1>0, <2>1 DEF Marked
    <2> QED BY <1>1, <2>1, <2>2, CvTurnStep DEF CvWait, User, Runs
  <1>2. CASE CvRetry(p)
    BY <1>0, <1>2, CvTurnStep DEF CvRetry, Runs
  <1>3. CASE CvReturn(p)
    <2>1. /\ life[p] = "alive" /\ pc[p] = "waited" /\ GoOn(p, "user", 0)
          /\ UNCHANGED <<muxVars, locks, procVars, work, crit, history>>
      BY <1>3 DEF CvReturn, Runs, Return
    <2>2. /\ pc' \in [Pids -> Points] /\ tgt' \in [Pids -> Muxes] /\ pc'[p] = "user"
          /\ \A q \in Pids : q # p => pc'[q] = pc[q] /\ tgt'[q] = tgt[q]
      BY <1>0, <2>1, MoveFacts, PointFacts
    <2>3. TypeOK'
      BY <1>0, <2>1, <2>2 DEF TypeOK, muxVars, procVars, work, history
    <2> QED BY <2>1, <2>2, <2>3, Kept DEF muxVars, procVars, work
  <1>4. ASSUME NEW i \in Muxes, CvSignal(p, i) PROVE IInv'
    <2>1. PICK m \in Muxes : m = locks[p][i]
      BY <1>0, <1>4 DEF CvSignal
    <2>2. /\ life[p] = "alive" /\ pc[p] = "user" /\ chan' = Woken(CvChan(m))
          /\ cv' = [cv EXCEPT ![m] = cv[m] + 1] /\ signals' = [signals EXCEPT ![m] = signals[m] + 1]
          /\ UNCHANGED <<name, count, locked, owner, locks, life, killed, pc, tgt, work, crit, waits>>
      BY <1>4, <2>1 DEF CvSignal, User, Runs
    <2>3. cv' \in [Muxes -> Nat] /\ signals' \in [Muxes -> Nat]
      BY <1>0, <2>2, CountsUp
    <2>4. chan' \in [Pids -> Chans] /\ \A q \in Pids : chan'[q] \in {chan[q], NoChan}
      BY <1>0, <2>2, TypeFacts DEF Woken
    <2>5. TypeOK'
      BY <1>0, <2>2, <2>3, <2>4 DEF TypeOK, work
    <2> QED BY <2>2, <2>4, <2>5, Kept DEF work
  <1> QED BY <1>1, <1>2, <1>3, <1>4 DEF Cv

\* fork2 begins: the child has no handle, owns nothing and is nobody else's.
LEMMA ForkAllocStep ==
  ASSUME NEW p \in Pids, IInv, ForkAlloc(p)
  PROVE  IInv'
  <1> USE TypeFacts
  <1>0. /\ TypeOK /\ life \in [Pids -> {"unborn", "embryo", "alive", "dead"}]
        /\ kid \in [Pids -> Pids \cup {0}]
    BY DEF IInv, TypeOK
  <1>1. PICK q \in Pids : /\ life[q] = "unborn" /\ life' = [life EXCEPT ![q] = "embryo"]
                          /\ kid' = [kid EXCEPT ![p] = q]
    BY DEF ForkAlloc
  <1>2. /\ life[p] = "alive" /\ pc[p] = "user" /\ GoOn(p, "fork", 0)
        /\ UNCHANGED <<muxVars, locks, killed, chan, reg, crit, history>>
    BY DEF ForkAlloc, User, Runs
  <1>3. /\ pc' \in [Pids -> Points] /\ tgt' \in [Pids -> Muxes] /\ pc'[p] = "fork"
        /\ \A r \in Pids : r # p => pc'[r] = pc[r] /\ tgt'[r] = tgt[r]
    BY <1>0, <1>2, MoveFacts, PointFacts
  <1>4. /\ life' \in [Pids -> {"unborn", "embryo", "alive", "dead"}] /\ kid' \in [Pids -> Pids \cup {0}]
        /\ \A r \in Pids : life[r] # "unborn" => life'[r] = life[r]
        /\ life'[q] = "embryo" /\ kid'[p] = q /\ \A r \in Pids : r # p => kid'[r] = kid[r]
    BY <1>0, <1>1
  <1>5. TypeOK'
    BY <1>0, <1>2, <1>3, <1>4 DEF TypeOK, muxVars, history
  <1>6. KernelAlive' /\ WaiterHasHandle' /\ IndexOK'
    BY <1>2, <1>3, <1>4 DEF IInv, KernelAlive, WaiterHasHandle, IndexOK
  <1>7. DeleterOwnsNot' /\ OwnerHasHandle'
    BY <1>2, <1>3, <1>4 DEF IInv, DeleterOwnsNot, OwnerHasHandle, muxVars
  <1>8. KidOK'
    <2>1. \A r \in Pids : kid[r] # 0 => life[kid[r]] = "embryo" /\ kid[r] \in Pids /\ kid[r] # q
      BY <1>0, <1>1 DEF IInv, KidOK
    <2>2. \A r \in Pids : pc'[r] \in {"fork", "forkadd"} => kid'[r] # 0
      BY <1>3, <1>4 DEF IInv, KidOK
    <2>3. \A r \in Pids : kid'[r] # 0 => life'[kid'[r]] = "embryo"
      BY <1>4, <2>1
    <2>4. \A r, s \in Pids : kid'[s] = kid'[r] /\ kid'[r] # 0 => s = r
      BY <1>4, <2>1 DEF IInv, KidOK
    <2> QED BY <2>2, <2>3, <2>4 DEF KidOK
  <1> QED BY <1>5, <1>6, <1>7, <1>8 DEF IInv

\* allocproc's loop: the next handle is chosen and its count loaded.
LEMMA ForkLoadStep ==
  ASSUME NEW p \in Pids, IInv, ForkLoad(p)
  PROVE  IInv'
  <1>0. TypeOK /\ locks \in [Pids -> [Muxes -> Muxes \cup {NoMux}]]
    BY DEF IInv, TypeOK
  <1>1. PICK i \in Unshared(p) : Load(p, locks[p][i]) /\ GoOn(p, "forkadd", i)
    BY DEF ForkLoad
  <1>2. i \in Muxes /\ locks[p][i] \in Muxes
    BY <1>0 DEF Unshared
  <1>3. /\ life[p] = "alive" /\ pc[p] = "fork"
        /\ UNCHANGED <<name, cv, locked, owner, locks, procVars, crit, history>>
    BY DEF ForkLoad, Runs
  <1>4. /\ pc' \in [Pids -> Points] /\ tgt' \in [Pids -> Muxes] /\ pc'[p] = "forkadd" /\ tgt'[p] = i
        /\ \A r \in Pids : r # p => pc'[r] = pc[r] /\ tgt'[r] = tgt[r]
    BY <1>0, <1>1, <1>2, MoveFacts, PointFacts
  <1>5. reg' \in [Pids -> Int] /\ UNCHANGED <<count, kid>>
    BY <1>0, <1>1, <1>2, LoadFacts
  <1>6. kid[p] # 0
    BY <1>3 DEF IInv, KidOK
  <1>7. TypeOK'
    BY <1>0, <1>3, <1>4, <1>5 DEF TypeOK, procVars, history
  <1> QED BY <1>2, <1>3, <1>4, <1>5, <1>6, <1>7, Kept DEF procVars

\* allocproc's loop: the child's table gets an entry; it is in no call and owns nothing.
LEMMA ForkStoreStep ==
  ASSUME NEW p \in Pids, IInv, ForkStore(p)
  PROVE  IInv'
  <1> USE TypeFacts
  <1>0. /\ TypeOK /\ locks \in [Pids -> [Muxes -> Muxes \cup {NoMux}]] /\ tgt \in [Pids -> Muxes]
        /\ kid \in [Pids -> Pids \cup {0}]
    BY DEF IInv, TypeOK
  <1>1. /\ life[p] = "alive" /\ pc[p] = "forkadd" /\ Store(p, locks[p][tgt[p]], 1)
        /\ locks' = [locks EXCEPT ![kid[p]][tgt[p]] = locks[p][tgt[p]]] /\ GoOn(p, "fork", 0)
        /\ UNCHANGED <<name, cv, locked, owner, procVars, crit, history>>
    BY DEF ForkStore, Runs
  <1>2. locks[p][tgt[p]] \in Muxes /\ kid[p] # 0
    BY <1>1 DEF IInv, IndexOK, KidOK
  <1>3. PICK q \in Pids : q = kid[p]
    BY <1>0, <1>2
  <1>4. life[q] = "embryo"
    BY <1>2, <1>3 DEF IInv, KidOK
  <1>5. q # p /\ pc[q] = "user" /\ \A m \in Muxes : owner[m] # q
    BY <1>1, <1>4 DEF IInv, KernelAlive, OwnerHasHandle
  <1>6. /\ pc' \in [Pids -> Points] /\ tgt' \in [Pids -> Muxes] /\ pc'[p] = "fork"
        /\ \A r \in Pids : r # p => pc'[r] = pc[r] /\ tgt'[r] = tgt[r]
    BY <1>0, <1>1, MoveFacts, PointFacts
  <1>7. reg' \in [Pids -> Int] /\ count' \in [Muxes -> Int] /\ UNCHANGED kid
    <2>1. PICK m \in Muxes : m = locks[p][tgt[p]]
      BY <1>2
    <2> HIDE TypeFacts
    <2> QED BY <1>0, <1>1, <2>1, StoreFacts
  <1>8. /\ locks' \in [Pids -> [Muxes -> Muxes \cup {NoMux}]]
        /\ \A r \in Pids : r # q => locks'[r] = locks[r]
    BY <1>0, <1>1, <1>2, <1>3
  <1>9. TypeOK'
    BY <1>0, <1>1, <1>6, <1>7, <1>8 DEF TypeOK, procVars, history
  <1>10. KernelAlive' /\ KidOK'
    BY <1>1, <1>2, <1>6, <1>7 DEF IInv, KernelAlive, KidOK, procVars
  <1>11. WaiterHasHandle' /\ IndexOK' /\ DeleterOwnsNot'
    BY <1>1, <1>5, <1>6, <1>8 DEF IInv, WaiterHasHandle, IndexOK, DeleterOwnsNot
  <1>12. OwnerHasHandle'
    BY <1>1, <1>5, <1>6, <1>8 DEF IInv, OwnerHasHandle, procVars
  <1> QED BY <1>9, <1>10, <1>11, <1>12 DEF IInv

\* fork2 ends: the child is alive, or is gone with its handles.
LEMMA ForkEndStep ==
  ASSUME NEW p \in Pids, IInv, ForkEnd(p) \/ ForkFails(p)
  PROVE  IInv'
  <1> USE TypeFacts
  <1>0. /\ TypeOK /\ locks \in [Pids -> [Muxes -> Muxes \cup {NoMux}]] /\ tgt \in [Pids -> Muxes]
        /\ kid \in [Pids -> Pids \cup {0}] /\ life \in [Pids -> {"unborn", "embryo", "alive", "dead"}]
    BY DEF IInv, TypeOK
  <1>1. /\ life[p] = "alive" /\ pc[p] = "fork" /\ GoOn(p, "user", 0)
        /\ kid' = [kid EXCEPT ![p] = 0]
        /\ UNCHANGED <<muxVars, killed, chan, reg, crit, history>>
    BY DEF ForkEnd, ForkFails, Runs, Return
  <1>2. kid[p] # 0
    BY <1>1 DEF IInv, KidOK
  <1>3. PICK q \in Pids : q = kid[p]
    BY <1>0, <1>2
  <1>4. PICK l \in {"alive", "dead"} : life' = [life EXCEPT ![q] = l]
    BY <1>3 DEF ForkEnd, ForkFails
  <1>5. locks' = locks \/ locks' = [locks EXCEPT ![q] = [i \in Muxes |-> NoMux]]
    BY <1>3 DEF ForkEnd, ForkFails
  <1>6. life[q] = "embryo"
    BY <1>2, <1>3 DEF IInv, KidOK
  <1>7. q # p /\ pc[q] = "user" /\ chan[q] = NoChan /\ \A m \in Muxes : owner[m] # q
    BY <1>1, <1>6 DEF IInv, KernelAlive, OwnerHasHandle
  <1>8. /\ pc' \in [Pids -> Points] /\ tgt' \in [Pids -> Muxes] /\ pc'[p] = "user"
        /\ \A r \in Pids : r # p => pc'[r] = pc[r] /\ tgt'[r] = tgt[r]
    BY <1>0, <1>1, MoveFacts, PointFacts
  <1>9. /\ locks' \in [Pids -> [Muxes -> Muxes \cup {NoMux}]]
        /\ \A r \in Pids : r # q => locks'[r] = locks[r]
    BY <1>0, <1>5
  <1>10. /\ life' \in [Pids -> {"unborn", "embryo", "alive", "dead"}] /\ kid' \in [Pids -> Pids \cup {0}]
         /\ \A r \in Pids : r # q => life'[r] = life[r]
         /\ kid'[p] = 0 /\ \A r \in Pids : r # p => kid'[r] = kid[r]
    BY <1>0, <1>1, <1>4
  <1>11. TypeOK'
    BY <1>0, <1>1, <1>8, <1>9, <1>10 DEF TypeOK, muxVars, history
  <1>12. KernelAlive'
    BY <1>1, <1>7, <1>8, <1>10 DEF IInv, KernelAlive
  <1>13. KidOK'
    <2>1. ASSUME NEW r \in Pids, r # p, kid[r] # 0
          PROVE  kid[r] # q /\ kid[r] \in Pids /\ life[kid[r]] = "embryo"
      <3>1. kid[r] # kid[p]
        BY <1>2, <2>1 DEF IInv, KidOK
      <3> QED BY <1>0, <1>3, <2>1, <3>1 DEF IInv, KidOK
    <2>2. \A r \in Pids : pc'[r] \in {"fork", "forkadd"} => kid'[r] # 0
      BY <1>8, <1>10 DEF IInv, KidOK
    <2>3. \A r \in Pids : kid'[r] # 0 => life'[kid'[r]] = "embryo"
      BY <1>10, <2>1
    <2>4. \A r, t \in Pids : kid'[t] = kid'[r] /\ kid'[r] # 0 => t = r
      BY <1>10 DEF IInv, KidOK
    <2> QED BY <2>2, <2>3, <2>4 DEF KidOK
  <1>14. WaiterHasHandle' /\ IndexOK' /\ DeleterOwnsNot'
    BY <1>1, <1>7, <1>8, <1>9 DEF IInv, WaiterHasHandle, IndexOK, DeleterOwnsNot, muxVars
  <1>15. OwnerHasHandle'
    BY <1>1, <1>7, <1>8, <1>9, <1>10 DEF IInv, OwnerHasHandle, muxVars
  <1> QED BY <1>11, <1>12, <1>13, <1>14, <1>15 DEF IInv

\* exit's loop, except for the dropping of a handle.
LEMMA ExitTurnStep ==
  ASSUME NEW p \in Pids, IInv,
         ExitBegin(p) \/ ExitLoad(p) \/ ExitOwn(p) \/ ExitRelease(p) \/ ExitRelock(p)
  PROVE  IInv'
  <1> USE TypeFacts
  <1>0. TypeOK /\ locks \in [Pids -> [Muxes -> Muxes \cup {NoMux}]] /\ tgt[p] \in Muxes
    BY DEF IInv, TypeOK
  <1>a. ASSUME NEW at \in {"exit", "exitsub", "exitrel", "exitback"}, NEW m \in Muxes, GoOn(p, at, m)
        PROVE  /\ pc' \in [Pids -> Points] /\ tgt' \in [Pids -> Muxes] /\ pc'[p] = at /\ tgt'[p] = m
               /\ \A q \in Pids : q # p => pc'[q] = pc[q] /\ tgt'[q] = tgt[q]
    BY <1>0, <1>a, MoveFacts, PointFacts
  <1>1. CASE ExitBegin(p) \/ ExitRelock(p)
    <2>1. /\ life[p] = "alive" /\ pc[p] \in {"user", "exitback"} /\ GoOn(p, "exit", 0)
          /\ UNCHANGED <<muxVars, locks, procVars, work, crit, history>>
      BY <1>1 DEF ExitBegin, ExitRelock, Runs
    <2>2. TypeOK'
      BY <1>0, <1>a, <2>1 DEF TypeOK, muxVars, procVars, work, history
    <2> QED BY <1>a, <2>1, <2>2, Kept DEF muxVars, procVars, work
  <1>2. CASE ExitLoad(p)
    <2>1. PICK i \in Muxes : /\ locks[p][i] # NoMux /\ Load(p, locks[p][i]) /\ GoOn(p, "exitsub", i)
      BY <1>2 DEF ExitLoad, Handles
    <2>2. /\ life[p] = "alive" /\ pc[p] = "exit"
          /\ UNCHANGED <<name, cv, locked, owner, locks, procVars, crit, history>>
      BY <1>2 DEF ExitLoad, Runs
    <2>3. locks[p][i] \in Muxes
      BY <1>0, <2>1
    <2>4. reg' \in [Pids -> Int] /\ UNCHANGED <<count, kid>>
      BY <1>0, <2>1, <2>3, LoadFacts
    <2>5. TypeOK'
      BY <1>0, <1>a, <2>1, <2>2, <2>4 DEF TypeOK, procVars, history
    <2> QED BY <1>a, <2>1, <2>2, <2>3, <2>4, <2>5, Kept DEF procVars
  <1>3. CASE ExitOwn(p)
    <2>1. /\ life[p] = "alive" /\ pc[p] = "exitown"
          /\ \/ owner[tgt[p]] = p /\ GoOn(p, "exitrel", tgt[p])
             \/ owner[tgt[p]] # p /\ GoOn(p, "exit", 0)
          /\ UNCHANGED <<muxVars, locks, procVars, work, crit, history>>
      BY <1>3 DEF ExitOwn, Runs
    <2>2. TypeOK'
      BY <1>0, <1>a, <2>1 DEF TypeOK, muxVars, procVars, work, history
    <2> QED BY <1>0, <1>a, <2>1, <2>2, Kept DEF muxVars, procVars, work
  <1>4. CASE ExitRelease(p)
    <2>1. /\ life[p] = "alive" /\ pc[p] = "exitrel" /\ Release(p, tgt[p]) /\ GoOn(p, "exitback", 0)
          /\ UNCHANGED <<name, count, cv, locks, life, killed, work, history>>
      BY <1>4 DEF ExitRelease, Runs
    <2>2. /\ locked' \in [Muxes -> BOOLEAN] /\ owner' \in [Muxes -> Pids \cup {0}]
          /\ crit' \in [Pids -> SUBSET Muxes] /\ chan' \in [Pids -> Chans]
          /\ owner'[tgt[p]] = 0 /\ \A n \in Muxes : owner'[n] \in {owner[n], 0}
          /\ \A q \in Pids : chan'[q] \in {chan[q], NoChan}
      BY <1>0, <2>1, ReleaseFacts
    <2>3. TypeOK'
      BY <1>0, <1>a, <2>1, <2>2 DEF TypeOK, work, history
    <2> QED BY <1>a, <2>1, <2>2, <2>3, Kept DEF work
  <1> QED BY <1>1, <1>2, <1>3, <1>4

\* exit's loop: a handle is dropped, and whether the mutex is owned is looked at next.
LEMMA ExitStoreStep ==
  ASSUME NEW p \in Pids, IInv, ExitStore(p)
  PROVE  IInv'
  <1>0. TypeOK /\ locks \in [Pids -> [Muxes -> Muxes \cup {NoMux}]] /\ tgt[p] \in Muxes
    BY TypeFacts DEF IInv, TypeOK
  <1>1. /\ life[p] = "alive" /\ pc[p] = "exitsub" /\ Store(p, locks[p][tgt[p]], -1)
        /\ locks' = [locks EXCEPT ![p][tgt[p]] = NoMux] /\ GoOn(p, "exitown", locks[p][tgt[p]])
        /\ UNCHANGED <<name, cv, locked, owner, procVars, crit, history>>
    BY DEF ExitStore, Runs
  <1>2. locks[p][tgt[p]] \in Muxes
    BY <1>1 DEF IInv, IndexOK
  <1>3. /\ pc' \in [Pids -> Points] /\ tgt' \in [Pids -> Muxes]
        /\ pc'[p] = "exitown" /\ tgt'[p] = locks[p][tgt[p]]
        /\ \A q \in Pids : q # p => pc'[q] = pc[q] /\ tgt'[q] = tgt[q]
    <2>1. PICK m \in Muxes : m = locks[p][tgt[p]]
      BY <1>2
    <2>2. GoOn(p, "exitown", m)
      BY <1>1, <2>1
    <2>3. /\ pc' \in [Pids -> Points] /\ tgt' \in [Pids -> Muxes]
          /\ pc'[p] = "exitown" /\ tgt'[p] = m
          /\ \A q \in Pids : q # p => pc'[q] = pc[q] /\ tgt'[q] = tgt[q]
      BY <1>0, <2>2, MoveFacts, PointFacts
    <2> QED BY <2>1, <2>3
  <1>4. reg' \in [Pids -> Int] /\ count' \in [Muxes -> Int] /\ UNCHANGED kid
    <2>1. PICK m \in Muxes : m = locks[p][tgt[p]]
      BY <1>2
    <2> QED BY <1>0, <1>1, <2>1, StoreFacts
  <1>5. locks' \in [Pids -> [Muxes -> Muxes \cup {NoMux}]]
    BY <1>0, <1>1
  <1>6. TypeOK'
    BY <1>0, <1>1, <1>3, <1>4, <1>5 DEF TypeOK, procVars, history
  <1> QED BY <1>0, <1>1, <1>2, <1>3, <1>4, <1>6, KeptDropping DEF procVars

\* exit's end: a process without handles owns nothing.
LEMMA ExitZombieStep ==
  ASSUME NEW p \in Pids, IInv, ExitZombie(p)
  PROVE  IInv'
  <1> USE TypeFacts
  <1>0. /\ TypeOK /\ locks \in [Pids -> [Muxes -> Muxes \cup {NoMux}]]
        /\ kid \in [Pids -> Pids \cup {0}] /\ life \in [Pids -> {"unborn", "embryo", "alive", "dead"}]
    BY DEF IInv, TypeOK
  <1>1. /\ life[p] = "alive" /\ chan[p] = NoChan /\ pc[p] = "exit" /\ GoOn(p, "user", 0)
        /\ life' = [life EXCEPT ![p] = "dead"] /\ crit' = [crit EXCEPT ![p] = {}]
        /\ UNCHANGED <<muxVars, locks, killed, chan, work, history>>
    BY DEF ExitZombie, Runs, Return
  <1>2. \A i \in Muxes : locks[p][i] = NoMux
    BY DEF ExitZombie, Handles
  <1>3. \A m \in Muxes : owner[m] # p
    BY <1>1, <1>2 DEF IInv, OwnerHasHandle
  <1>4. /\ pc' \in [Pids -> Points] /\ tgt' \in [Pids -> Muxes] /\ pc'[p] = "user"
        /\ \A r \in Pids : r # p => pc'[r] = pc[r] /\ tgt'[r] = tgt[r]
    BY <1>0, <1>1, MoveFacts, PointFacts
  <1>5. /\ life' \in [Pids -> {"unborn", "embryo", "alive", "dead"}]
        /\ \A r \in Pids : r # p => life'[r] = life[r]
    BY <1>0, <1>1
  <1>6. crit' \in [Pids -> SUBSET Muxes]
    BY <1>0, <1>1 DEF TypeOK
  <1>7. TypeOK'
    BY <1>0, <1>1, <1>4, <1>5, <1>6 DEF TypeOK, muxVars, work, history
  <1>8. KernelAlive' /\ KidOK'
    <2>1. \A r \in Pids : kid[r] # 0 => kid[r] # p /\ kid[r] \in Pids
      BY <1>0, <1>1 DEF IInv, KidOK
    <2> QED BY <1>1, <1>4, <1>5, <2>1 DEF IInv, KernelAlive, KidOK, work
  <1>9. WaiterHasHandle' /\ IndexOK' /\ DeleterOwnsNot'
    BY <1>1, <1>4 DEF IInv, WaiterHasHandle, IndexOK, DeleterOwnsNot, muxVars
  <1>10. OwnerHasHandle'
    BY <1>1, <1>3, <1>4, <1>5 DEF IInv, OwnerHasHandle, muxVars
  <1> QED BY <1>7, <1>8, <1>9, <1>10 DEF IInv

\* kill.
LEMMA KillStep ==
  ASSUME NEW p \in Pids, IInv, Kill(p)
  PROVE  IInv'
  <1> USE TypeFacts
  <1>1. /\ killed' = [killed EXCEPT ![p] = TRUE] /\ chan' = [chan EXCEPT ![p] = NoChan]
        /\ UNCHANGED <<muxVars, locks, life, pc, tgt, work, crit, history>>
    BY DEF Kill
  <1>2. TypeOK'
    BY <1>1 DEF IInv, TypeOK, muxVars, work, history
  <1>3. \A q \in Pids : chan'[q] \in {chan[q], NoChan}
    BY <1>1 DEF IInv, TypeOK
  <1>4. KernelAlive' /\ KidOK'
    BY <1>1, <1>3 DEF IInv, KernelAlive, KidOK, work
  <1>5. WaiterHasHandle' /\ IndexOK' /\ DeleterOwnsNot' /\ OwnerHasHandle'
    BY <1>1 DEF IInv, WaiterHasHandle, IndexOK, DeleterOwnsNot, OwnerHasHandle, muxVars
  <1> QED BY <1>2, <1>4, <1>5 DEF IInv

-----------------------------------------------------------------------------
\* Every step preserves the invariant.
LEMMA NextIInv == IInv /\ [Next]_vars => IInv'
  <1> SUFFICES ASSUME IInv, [Next]_vars PROVE IInv'
    OBVIOUS
  <1>1. CASE UNCHANGED vars
    BY <1>1 DEF IInv, TypeOK, KernelAlive, WaiterHasHandle, DeleterOwnsNot, OwnerHasHandle,
                IndexOK, KidOK, vars, muxVars, procVars, work, history
  <1>2. CASE Next
    <2> PICK p \in Pids :
          \/ Create(p) \/ (\E n \in Names : Get(p, n)) \/ Delete(p) \/ Locks(p) \/ Cv(p)
          \/ Fork(p) \/ Exit(p) \/ Kill(p)
      BY <1>2 DEF Next
    <2>1. CASE Create(p)
      BY <2>1, CreateStep, CreateFinishStep DEF Create
    <2>2. CASE \E n \in Names : Get(p, n)
      BY <2>2, GetStep
    <2>3. CASE Delete(p)
      BY <2>3, DeleteStep, DeleteStoreStep DEF Delete
    <2>4. CASE Locks(p) \/ Cv(p) \/ Kill(p)
      BY <2>4, LocksStep, CvStep, KillStep
    <2>5. CASE Fork(p)
      BY <2>5, ForkAllocStep, ForkLoadStep, ForkStoreStep, ForkEndStep DEF Fork
    <2>6. CASE Exit(p)
      BY <2>6, ExitTurnStep, ExitStoreStep, ExitZombieStep DEF Exit
    <2> QED BY <2>1, <2>2, <2>3, <2>4, <2>5, <2>6
  <1> QED BY <1>1, <1>2

\* The inductive invariant holds in every behaviour.
LEMMA Invariance == Spec => []IInv
  BY InitIInv, NextIInv, PTL DEF Spec

\* mutexes[], p->locks[] and the sleep channels keep their types.
THEOREM TypeCorrect == Spec => []TypeOK
  <1>1. IInv => TypeOK
    BY DEF IInv
  <1> QED BY <1>1, Invariance, PTL

\* exit and mutex_delete never leave a mutex locked by a process that is gone, however
\* mutex_create, mutex_get, fork and kill interleave.
THEOREM NoDeadOwner == Spec => []DeadOwnNothing
  <1>1. IInv => DeadOwnNothing
    BY DEF IInv, TypeOK, OwnerHasHandle, DeadOwnNothing
  <1> QED BY <1>1, Invariance, PTL

-----------------------------------------------------------------------------
(* cv_wait and cv_signal, as long as no process has the pid NPROC, whose   *)
(* entry of waiting_procs[] is cv_count itself.                            *)

\* Nobody sleeps past a signal, and the signals are accounted for.
SInv == NoLostSignal /\ SignalsBalance

\* One turn of cv_wait's loop sleeps only if no signal is there.
LEMMA CvTurnSignals ==
  ASSUME NEW p \in Pids, NEW m \in Muxes, TypeOK, SInv, CvTurn(p, m, cv), UNCHANGED signals
  PROVE  SInv'
  <1> USE TypeFacts
  <1>0. cv \in [Muxes -> Nat] /\ waits \in [Muxes -> Nat] /\ signals \in [Muxes -> Nat]
    BY DEF TypeOK
  <1>1. CASE cv[m] > 0
    <2>1. /\ cv' = [cv EXCEPT ![m] = @ - 1] /\ waits' = [waits EXCEPT ![m] = @ + 1]
          /\ UNCHANGED <<chan, signals>>
      BY <1>1 DEF CvTurn
    <2>2. NoLostSignal'
      BY <1>0, <1>1, <2>1 DEF SInv, NoLostSignal
    <2>3. SignalsBalance'
      BY <1>0, <1>1, <2>1 DEF SInv, SignalsBalance
    <2> QED BY <2>2, <2>3 DEF SInv
  <1>2. CASE ~(cv[m] > 0)
    <2>1. /\ cv' = cv /\ UNCHANGED <<waits, signals>>
          /\ \/ chan' = [Woken(SlpChan(m)) EXCEPT ![p] = CvChan(m)]
             \/ chan' = [chan EXCEPT ![p] = CvChan(m)]
      BY <1>2 DEF CvTurn
    <2>2. cv[m] = 0
      BY <1>0, <1>2
    <2>3. \A q \in Pids : chan'[q] \in {chan[q], NoChan} \/ (q = p /\ chan'[q] = CvChan(m))
      BY <2>1 DEF TypeOK, Woken
    <2>4. NoLostSignal'
      BY <2>1, <2>2, <2>3 DEF SInv, NoLostSignal
    <2>5. SignalsBalance'
      BY <2>1 DEF SInv, SignalsBalance
    <2> QED BY <2>4, <2>5 DEF SInv
  <1> QED BY <1>1, <1>2

\* cv_signal wakes whoever its signal could be for.
LEMMA CvSignalSignals ==
  ASSUME NEW p \in Pids, NEW i \in Muxes, TypeOK, SInv, CvSignal(p, i)
  PROVE  SInv'
  <1> USE TypeFacts
  <1> DEFINE m == locks[p][i]
  <1>0. /\ cv \in [Muxes -> Nat] /\ waits \in [Muxes -> Nat] /\ signals \in [Muxes -> Nat]
        /\ m \in Muxes
    BY DEF TypeOK, CvSignal
  <1>1. /\ cv' = [cv EXCEPT ![m] = @ + 1] /\ signals' = [signals EXCEPT ![m] = @ + 1]
        /\ chan' = Woken(CvChan(m)) /\ UNCHANGED waits
    BY DEF CvSignal
  <1> HIDE DEF m
  <1>2. \A q \in Pids : chan'[q] = NoChan \/ (chan'[q] = chan[q] /\ chan[q] # CvChan(m))
    BY <1>1 DEF Woken
  <1>3. NoLostSignal'
    BY <1>0, <1>1, <1>2 DEF SInv, NoLostSignal
  <1>4. SignalsBalance'
    BY <1>0, <1>1 DEF SInv, SignalsBalance
  <1> QED BY <1>3, <1>4 DEF SInv

\* Acquiring a mutex puts at most the caller to sleep, and not for a signal.
LEMMA AcquireSignals ==
  ASSUME NEW p \in Pids, NEW m \in Muxes, TypeOK, SInv, Acquire(p, m), UNCHANGED <<cv, history>>
  PROVE  SInv'
  <1>1. \A q \in Pids : chan'[q] = chan[q] \/ chan'[q] = SlpChan(m)
    BY DEF TypeOK, Acquire
  <1> QED BY <1>1, TypeFacts DEF SInv, NoLostSignal, SignalsBalance, history

\* The other steps leave cv_count alone and put nobody to sleep.
LEMMA OtherSignals ==
  ASSUME TypeOK, SInv, UNCHANGED <<cv, history>>,
         \A q \in Pids : chan'[q] \in {chan[q], NoChan}
  PROVE  SInv'
  BY TypeFacts DEF SInv, NoLostSignal, SignalsBalance, history

\* Every step preserves the accounting of signals.
LEMMA NextSInv ==
  ASSUME NPROC \notin Pids, TypeOK, SInv, [Next]_vars
  PROVE  SInv'
  <1> USE TypeFacts
  <1>1. CASE UNCHANGED vars
    BY <1>1, OtherSignals DEF vars, muxVars, procVars, history
  <1>2. ASSUME NEW p \in Pids, Create(p) \/ (\E n \in Names : Get(p, n)) \/ Fork(p)
        PROVE  SInv'
    <2>1. UNCHANGED <<cv, history, chan>>
      BY <1>2 DEF Create, CreateFind, CreateLoad, CreateStore, CreateFinish, Get, Fork, ForkAlloc,
                  ForkLoad, ForkStore, ForkEnd, ForkFails, muxVars, procVars
    <2> QED BY <2>1, OtherSignals
  <1>3. ASSUME NEW p \in Pids, NEW i \in Muxes, DeleteUnlock(p, i) \/ Unlock(p, i)
        PROVE  SInv'
    <2>1. UNCHANGED <<cv, history>> /\ (UNCHANGED chan \/ chan' = Woken(SlpChan(locks[p][i])))
      BY <1>3 DEF DeleteUnlock, Unlock, Release
    <2>2. \A q \in Pids : chan'[q] \in {chan[q], NoChan}
      BY <2>1 DEF Woken
    <2> QED BY <2>1, <2>2, OtherSignals
  <1>4. ASSUME NEW p \in Pids, DeleteLoad(p) \/ DeleteStore(p) \/ CvReturn(p)
        PROVE  SInv'
    <2>1. UNCHANGED <<cv, history, chan>>
      BY <1>4 DEF DeleteLoad, DeleteStore, CvReturn, muxVars, procVars
    <2> QED BY <2>1, OtherSignals
  <1>5. ASSUME NEW p \in Pids, NEW i \in Muxes, Lock(p, i)
        PROVE  SInv'
    <2>1. locks[p][i] \in Muxes
      BY <1>5 DEF TypeOK, Lock
    <2> QED BY <1>5, <2>1, AcquireSignals DEF Lock
  <1>6. ASSUME NEW p \in Pids, LockRetry(p)
        PROVE  SInv'
    <2>1. tgt[p] \in Muxes
      BY DEF TypeOK
    <2> QED BY <1>6, <2>1, AcquireSignals DEF LockRetry
  <1>7. ASSUME NEW p \in Pids, NEW i \in Muxes, CvWait(p, i)
        PROVE  SInv'
    <2>1. locks[p][i] \in Muxes
      BY <1>7 DEF TypeOK, CvWait
    <2>2. Marked(p, locks[p][i]) = cv
      BY DEF Marked
    <2> QED BY <1>7, <2>1, <2>2, CvTurnSignals DEF CvWait
  <1>8. ASSUME NEW p \in Pids, CvRetry(p)
        PROVE  SInv'
    <2>1. tgt[p] \in Muxes
      BY DEF TypeOK
    <2> QED BY <1>8, <2>1, CvTurnSignals DEF CvRetry
  <1>9. ASSUME NEW p \in Pids, Exit(p) \/ Kill(p)
        PROVE  SInv'
    <2>1. UNCHANGED <<cv, history>>
      BY <1>9 DEF Exit, ExitBegin, ExitLoad, ExitStore, ExitOwn, ExitRelease, ExitRelock, ExitZombie,
                  Kill, muxVars
    <2>2. \A q \in Pids : chan'[q] \in {chan[q], NoChan}
      <3>1. CASE Exit(p)
        <4>1. UNCHANGED chan \/ chan' = Woken(SlpChan(tgt[p]))
          BY <3>1 DEF Exit, ExitBegin, ExitLoad, ExitStore, ExitOwn, ExitRelease, ExitRelock,
                      ExitZombie, Release, procVars
        <4> QED BY <4>1 DEF Woken
      <3>2. CASE Kill(p)
        BY <3>2 DEF TypeOK, Kill
      <3> QED BY <1>9, <3>1, <3>2
    <2> QED BY <2>1, <2>2, OtherSignals
  <1>10. CASE Next
    BY <1>10, <1>2, <1>3, <1>4, <1>5, <1>6, <1>7, <1>8, <1>9, CvSignalSignals
       DEF Next, Create, Delete, Locks, Cv
  <1> QED BY <1>1, <1>10

\* cv_wait/cv_signal lose no signal and invent none, whatever happens to the mutex
\* around them, as long as every pid is below NPROC.
THEOREM SignalsKept ==
  ASSUME NPROC \notin Pids
  PROVE  Spec => []NoLostSignal /\ []SignalsBalance
  <1>1. Init => SInv
    BY TypeFacts DEF Init, SInv, NoLostSignal, SignalsBalance
  <1>2. TypeOK /\ SInv /\ [Next]_vars => SInv'
    BY NextSInv
  <1>3. SInv => NoLostSignal /\ SignalsBalance
    BY DEF SInv
  <1> QED BY <1>1, <1>2, <1>3, TypeCorrect, PTL DEF Spec

-----------------------------------------------------------------------------
(***************************************************************************)
(* On one CPU nobody sees the middle of a count++ or of exit's loop.  The  *)
(* count of a mutex is then the number of its handles as long as nobody    *)
(* calls mutex_get, and with one process that creates mutexes the slots    *)
(* are reused so that mutual exclusion holds and no wake-up is lost.  On   *)
(* more CPUs all three fail (README, Disagreements).                       *)
(***************************************************************************)

\* A process that is not there has no handles, and nobody has two to one mutex.
GoneEmpty   == \A p \in Pids : life[p] \notin {"embryo", "alive"} => \A i \in Muxes : locks[p][i] = NoMux
HandlesOnce ==
  \A p \in Pids, i, j \in Muxes : locks[p][i] = locks[p][j] /\ locks[p][i] # NoMux => i = j

\* mutex_create makes a mutex that the caller had no handle to.
Creation   == {"create1", "createadd", "create2"}
CreatesNew == \A p \in Pids : pc[p] \in Creation => \A i \in Muxes : locks[p][i] # tgt[p]

\* What a child has so far is its parent's, and not the handle the parent is counting.
KidCopies ==
  \A p \in Pids : kid[p] # 0 =>
    /\ pc[p] \in {"fork", "forkadd"}
    /\ \A i \in Muxes : locks[kid[p]][i] \in {NoMux, locks[p][i]}
    /\ pc[p] = "forkadd" => locks[kid[p]][tgt[p]] = NoMux

\* The count that a process has loaded is still the count.
RegCurrent ==
  \A p \in Pids :
    /\ pc[p] = "createadd" => reg[p] = count[tgt[p]]
    /\ pc[p] \in {"deletesub", "forkadd", "exitsub"} => reg[p] = count[locks[p][tgt[p]]]

\* The count is never too low, and exact unless a fork has run out of memory.
Counted(m) ==
  /\ Cardinality(Reached(m)) <= count[m]
  /\ "oom" \notin Workload => Cardinality(Reached(m)) = count[m]
CountsReached == \A m \in Muxes : Counted(m)

\* The inductive invariant of the counts.
CInv ==
  /\ NCPU = 1 /\ "get" \notin Workload
  /\ IInv /\ GoneEmpty /\ HandlesOnce /\ CreatesNew /\ KidCopies /\ RegCurrent /\ CountsReached

SingleCreator == \A p, q \in Creators : p = q

\* The slot that the one creator has chosen is reached by nobody until it is ready.
CreatesUnreached ==
  \A p \in Pids : pc[p] \in Creation =>
    p \in Creators /\ \A q \in Pids, i \in Muxes : locks[q][i] # tgt[p]

\* Who sleeps for a mutex is in acquiresleep.
SleeperLocks ==
  \A p \in Pids, m \in Muxes : chan[p] = SlpChan(m) => pc[p] = "lock" /\ tgt[p] = m

\* exit releases a mutex that is still its own.
ReleaserOwns == \A p \in Pids : pc[p] = "exitrel" => owner[tgt[p]] = p

\* The inductive invariant of the locks.
XInv ==
  /\ SingleCreator
  /\ CInv /\ CreatesUnreached /\ SleeperLocks /\ ReleaserOwns /\ MutualExclusion /\ NoLostRelease

-----------------------------------------------------------------------------
(* Counting *)

\* Processes, mutexes and handles are finitely many.
LEMMA FiniteFacts ==
  /\ IsFiniteSet(Pids) /\ IsFiniteSet(Muxes) /\ Cardinality(Muxes) \in Nat
  /\ \A m : IsFiniteSet(Reached(m)) /\ IsFiniteSet(Reached(m)')
  <1>1. IsFiniteSet(Pids)
    <2>1. IsFiniteSet(1..NPROC)
      BY MutexAssumption, FS_Interval
    <2> QED BY <2>1, MutexAssumption, FS_Subset
  <1>2. IsFiniteSet(Muxes) /\ IsFiniteSet({NoMux})
    <2>1. 0 \in Int /\ MUX_MAXNUM - 1 \in Int
      BY MutexAssumption
    <2> QED BY <2>1, FS_Interval, FS_Singleton DEF Muxes
  <1>3. IsFiniteSet(Pids \X Muxes) /\ IsFiniteSet(Pids \X {NoMux})
    BY <1>1, <1>2, FS_Product
  <1>4. IsFiniteSet((Pids \X Muxes) \cup (Pids \X {NoMux}))
    BY <1>3, FS_Union
  <1>5. \A m : /\ Reached(m) \subseteq (Pids \X Muxes) \cup (Pids \X {NoMux})
               /\ Reached(m)' \subseteq (Pids \X Muxes) \cup (Pids \X {NoMux})
    BY DEF Reached
  <1> QED BY <1>1, <1>2, <1>4, <1>5, FS_Subset, FS_CardinalityType

\* Who reaches m, and who reaches it after a step.
LEMMA ReachedFacts ==
  ASSUME NEW m \in Muxes
  PROVE  /\ \A p \in Pids, i \in Muxes : <<p, i>> \in Reached(m) <=> locks[p][i] = m
         /\ \A p \in Pids : <<p, NoMux>> \in Reached(m) <=> pc[p] = "create2" /\ tgt[p] = m
  <1>1. ASSUME NEW p \in Pids, NEW i \in Muxes PROVE <<p, i>> \in Reached(m) <=> locks[p][i] = m
    <2>1. i # NoMux
      BY TypeFacts
    <2> QED BY <2>1 DEF Reached
  <1>2. ASSUME NEW p \in Pids
        PROVE  <<p, NoMux>> \in Reached(m) <=> pc[p] = "create2" /\ tgt[p] = m
    BY TypeFacts DEF Reached
  <1> QED BY <1>1, <1>2

\* A set of handles is what reaches m after a step if it has the right members.
LEMMA ReachedNext ==
  ASSUME NEW m \in Muxes, NEW S \in SUBSET (Pids \X (Muxes \cup {NoMux})),
         \A q \in Pids, j \in Muxes : <<q, j>> \in S <=> locks'[q][j] = m,
         \A q \in Pids : <<q, NoMux>> \in S <=> pc'[q] = "create2" /\ tgt'[q] = m
  PROVE  Reached(m)' = S
  <1>1. ASSUME NEW h \in S PROVE h \in Reached(m)'
    <2>1. PICK q \in Pids, j \in Muxes \cup {NoMux} : h = <<q, j>>
      OBVIOUS
    <2>2. CASE j = NoMux
      BY <2>1, <2>2 DEF Reached
    <2>3. CASE j \in Muxes
      BY <2>1, <2>3 DEF Reached
    <2> QED BY <2>2, <2>3
  <1>2. ASSUME NEW h \in Reached(m)' PROVE h \in S
    <2>1. CASE \E q \in Pids, j \in Muxes : h = <<q, j>> /\ locks'[q][j] = m
      BY <2>1
    <2>2. CASE \E q \in Pids : h = <<q, NoMux>> /\ pc'[q] = "create2" /\ tgt'[q] = m
      BY <2>2
    <2> QED BY <2>1, <2>2 DEF Reached
  <1> QED BY <1>1, <1>2

\* A handle, or a mutex_create under way, is a process and a place.
LEMMA ReachedShape ==
  ASSUME NEW m \in Muxes PROVE Reached(m) \in SUBSET (Pids \X (Muxes \cup {NoMux}))
  BY DEF Reached

\* A mutex that nothing happens to stays counted.
LEMMA CountSame ==
  ASSUME CInv, NEW m \in Muxes, Reached(m)' = Reached(m), count'[m] = count[m]
  PROVE  Counted(m)'
  BY DEF CInv, CountsReached, Counted

\* One more handle and one more in count.
LEMMA CountUp ==
  ASSUME CInv, NEW m \in Muxes, NEW x, x \notin Reached(m), Reached(m)' = Reached(m) \cup {x},
         count'[m] = count[m] + 1
  PROVE  Counted(m)'
  <1>1. Cardinality(Reached(m)') = Cardinality(Reached(m)) + 1 /\ Cardinality(Reached(m)) \in Nat
    BY FiniteFacts, FS_AddElement, FS_CardinalityType
  <1>2. count[m] \in Int /\ Counted(m)
    BY DEF CInv, IInv, TypeOK, CountsReached
  <1> QED BY <1>1, <1>2 DEF Counted

\* One handle less and one less in count.
LEMMA CountDown ==
  ASSUME CInv, NEW m \in Muxes, NEW x \in Reached(m), Reached(m)' = Reached(m) \ {x},
         count'[m] = count[m] - 1
  PROVE  Counted(m)'
  <1>1. Cardinality(Reached(m)') = Cardinality(Reached(m)) - 1 /\ Cardinality(Reached(m)) \in Nat
    BY FiniteFacts, FS_RemoveElement, FS_CardinalityType
  <1>2. count[m] \in Int /\ Counted(m)
    BY DEF CInv, IInv, TypeOK, CountsReached
  <1> QED BY <1>1, <1>2 DEF Counted

\* A slot with count 0 is reached by nobody.
LEMMA UncountedUnreached ==
  ASSUME CInv, NEW m \in Muxes, count[m] = 0
  PROVE  /\ \A p \in Pids, i \in Muxes : locks[p][i] # m
         /\ \A p \in Pids : ~(pc[p] = "create2" /\ tgt[p] = m)
  <1>1. Cardinality(Reached(m)) <= 0 /\ Cardinality(Reached(m)) \in Nat
    BY FiniteFacts, FS_CardinalityType DEF CInv, CountsReached, Counted
  <1>2. Reached(m) = {}
    BY <1>1, FiniteFacts, FS_EmptySet
  <1> QED BY <1>2, ReachedFacts

\* A process that is about to get a handle to a mutex it has none to has a free slot.
LEMMA FreeSlot ==
  ASSUME CInv, NEW p \in Pids, NEW m \in Muxes, \A i \in Muxes : locks[p][i] # m
  PROVE  Handles(p, NoMux) # {}
  <1> SUFFICES ASSUME Handles(p, NoMux) = {} PROVE FALSE
    OBVIOUS
  <1>1. locks[p] \in [Muxes -> Muxes \cup {NoMux}]
    BY DEF CInv, IInv, TypeOK
  <1>2. \A i \in Muxes : locks[p][i] # NoMux
    BY DEF Handles
  <1>3. locks[p] \in [Muxes -> Muxes \ {m}]
    BY <1>1, <1>2
  <1>4. IsFiniteSet(Muxes \ {m}) /\ Cardinality(Muxes \ {m}) = Cardinality(Muxes) - 1
    BY FiniteFacts, FS_RemoveElement
  <1>5. Cardinality(Muxes \ {m}) < Cardinality(Muxes)
    BY <1>4, FiniteFacts
  <1>6. \E x, y \in Muxes : x # y /\ locks[p][x] = locks[p][y]
    BY <1>3, <1>4, <1>5, FiniteFacts, FS_PigeonHole
  <1> QED BY <1>2, <1>6 DEF CInv, HandlesOnce

-----------------------------------------------------------------------------
(* CInv is inductive *)

\* There is no mutex at first.
LEMMA InitCInv == NCPU = 1 /\ "get" \notin Workload /\ Init => CInv
  <1> SUFFICES ASSUME NCPU = 1, "get" \notin Workload, Init PROVE CInv
    OBVIOUS
  <1>1. /\ count = [m \in Muxes |-> 0] /\ locks = [p \in Pids |-> [i \in Muxes |-> NoMux]]
        /\ pc = [p \in Pids |-> "user"] /\ kid = [p \in Pids |-> 0]
    BY DEF Init
  <1>2. IInv
    BY InitIInv
  <1> HIDE DEF Init
  <1>3. GoneEmpty /\ HandlesOnce /\ CreatesNew /\ KidCopies /\ RegCurrent
    BY <1>1 DEF GoneEmpty, HandlesOnce, CreatesNew, Creation, KidCopies, RegCurrent
  <1>4. ASSUME NEW m \in Muxes PROVE Counted(m)
    <2>1. Reached(m) = {}
      BY <1>1, TypeFacts DEF Reached
    <2>2. Cardinality(Reached(m)) = 0
      BY <2>1, FS_EmptySet
    <2> QED BY <1>1, <2>2 DEF Counted
  <1> QED BY <1>2, <1>3, <1>4 DEF CInv, CountsReached

\* On one CPU nobody runs while another process must not be interrupted.
LEMMA Alone ==
  ASSUME CInv, NEW p \in Pids, CpuBeside({p})
  PROVE  \A q \in Pids : q # p => pc[q] \notin Uncut
  <1> DEFINE S == {q \in Pids \ {p} : pc[q] \in Uncut}
  <1>1. IsFiniteSet(S)
    BY FiniteFacts, FS_Subset
  <1>2. Cardinality(S) < 1
    BY DEF CpuBeside, CInv
  <1> HIDE DEF S
  <1>3. Cardinality(S) = 0
    BY <1>1, <1>2, FS_CardinalityType
  <1>4. S = {}
    BY <1>1, <1>3, FS_EmptySet
  <1> QED BY <1>4 DEF S

\* A step of p keeps loaded counts current if it keeps its own so.
LEMMA RegKept ==
  ASSUME CInv, NEW p \in Pids, CpuBeside({p}), \A q \in Pids : q # p => pc'[q] = pc[q],
         pc'[p] = "createadd" => reg'[p] = count'[tgt'[p]],
         pc'[p] \in {"deletesub", "forkadd", "exitsub"} => reg'[p] = count'[locks'[p][tgt'[p]]]
  PROVE  RegCurrent'
  <1>1. \A q \in Pids : q # p => pc'[q] \notin Uncut
    BY Alone
  <1> QED BY <1>1 DEF RegCurrent, Uncut

\* A step of p, who is not in fork2, keeps what is known of the others' children.
LEMMA KidsKept ==
  ASSUME CInv, NEW p \in Pids, life[p] = "alive", UNCHANGED kid, pc[p] \notin {"fork", "forkadd"},
         \A q \in Pids : q # p => pc'[q] = pc[q] /\ tgt'[q] = tgt[q] /\ locks'[q] = locks[q]
  PROVE  KidCopies'
  <1>1. \A q \in Pids : kid[q] # 0 => q # p /\ kid[q] # p /\ kid[q] \in Pids
    BY DEF CInv, KidCopies, IInv, KidOK, TypeOK
  <1> QED BY <1>1 DEF CInv, KidCopies

\* Steps of p that touch neither handles nor counts, and are not the ones of mutex_create that
\* begin or end its claim to a handle.
LEMMA CountsQuiet ==
  ASSUME CInv, IInv', NEW p \in Pids, life[p] = "alive", CpuBeside({p}),
         UNCHANGED <<locks, count, life, kid>>,
         \A q \in Pids : q # p => pc'[q] = pc[q] /\ tgt'[q] = tgt[q],
         pc[p] # "create2", pc'[p] # "create2",
         pc'[p] \in Creation => \A i \in Muxes : locks[p][i] # tgt'[p],
         pc'[p] = "createadd" => reg'[p] = count[tgt'[p]],
         pc'[p] \in {"deletesub", "forkadd", "exitsub"} => reg'[p] = count[locks[p][tgt'[p]]],
         pc[p] \in {"fork", "forkadd"} =>
           pc'[p] = "forkadd" /\ locks[kid[p]][tgt'[p]] = NoMux
  PROVE  CInv'
  <1>1. GoneEmpty' /\ HandlesOnce' /\ CreatesNew'
    BY DEF CInv, GoneEmpty, HandlesOnce, CreatesNew
  <1>2. RegCurrent'
    BY RegKept
  <1>3. KidCopies'
    <2>1. CASE pc[p] \notin {"fork", "forkadd"}
      BY <2>1, KidsKept
    <2>2. CASE pc[p] \in {"fork", "forkadd"}
      BY <2>2 DEF CInv, KidCopies
    <2> QED BY <2>1, <2>2
  <1>4. ASSUME NEW m \in Muxes PROVE Counted(m)'
    <2>1. \A q \in Pids : pc'[q] = "create2" /\ tgt'[q] = m <=> pc[q] = "create2" /\ tgt[q] = m
      OBVIOUS
    <2>2. Reached(m)' = Reached(m)
      BY <2>1 DEF Reached
    <2> QED BY <2>2, CountSame
  <1> QED BY <1>1, <1>2, <1>3, <1>4 DEF CInv, CountsReached

\* A quiet step that goes on somewhere outside mutex_create, fork2 and any count++.
LEMMA CountsMove ==
  ASSUME CInv, IInv', NEW p \in Pids, life[p] = "alive", CpuBeside({p}),
         UNCHANGED <<locks, count, life, kid>>,
         pc[p] \notin {"create2", "fork", "forkadd"},
         \/ UNCHANGED <<pc, tgt>> /\ pc[p] \notin Uncut \cup Creation
         \/ \E at \in {"user", "lock", "delete", "cv", "waited", "exit", "exitown", "exitrel", "exitback"},
               m \in Muxes : GoOn(p, at, m)
  PROVE  CInv'
  <1>1. CASE UNCHANGED <<pc, tgt>> /\ pc[p] \notin Uncut \cup Creation
    BY <1>1, CountsQuiet DEF Creation, Uncut
  <1>2. ASSUME NEW at \in {"user", "lock", "delete", "cv", "waited", "exit", "exitown", "exitrel", "exitback"},
               NEW m \in Muxes, GoOn(p, at, m)
        PROVE  CInv'
    <2>1. pc'[p] = at /\ \A q \in Pids : q # p => pc'[q] = pc[q] /\ tgt'[q] = tgt[q]
      BY <1>2, MoveFacts, PointFacts DEF CInv, IInv
    <2> QED BY <2>1, CountsQuiet DEF Creation
  <1> QED BY <1>1, <1>2

\* Nothing the counts depend on changes.
LEMMA CountsStill ==
  ASSUME CInv, IInv', UNCHANGED <<locks, count, life, kid, reg, pc, tgt>>
  PROVE  CInv'
  <1>1. GoneEmpty' /\ HandlesOnce' /\ CreatesNew' /\ KidCopies' /\ RegCurrent'
    BY DEF CInv, GoneEmpty, HandlesOnce, CreatesNew, KidCopies, RegCurrent
  <1>2. ASSUME NEW m \in Muxes PROVE Counted(m)'
    <2>1. Reached(m)' = Reached(m)
      BY DEF Reached
    <2> QED BY <2>1, CountSame
  <1> QED BY <1>1, <1>2 DEF CInv, CountsReached

\* mutex_create chooses a slot whose count is 0, and loads the count.
LEMMA CreateFindCounts ==
  ASSUME CInv, IInv', NEW p \in Pids, CreateFind(p) \/ CreateLoad(p)
  PROVE  CInv'
  <1>0. TypeOK /\ tgt[p] \in Muxes
    BY DEF CInv, IInv, TypeOK
  <1>1. CASE CreateFind(p)
    <2>1. PICK m \in Muxes : count[m] = 0 /\ GoOn(p, "create1", m)
      BY <1>1 DEF CreateFind
    <2>2. /\ life[p] = "alive" /\ CpuBeside({p}) /\ pc[p] = "user" /\ UNCHANGED <<locks, count, life, kid>>
      BY <1>1 DEF CreateFind, muxVars, procVars, work, User, Runs
    <2>3. /\ pc'[p] = "create1" /\ tgt'[p] = m
          /\ \A q \in Pids : q # p => pc'[q] = pc[q] /\ tgt'[q] = tgt[q]
      BY <1>0, <2>1, MoveFacts, PointFacts
    <2>4. \A i \in Muxes : locks[p][i] # m
      BY <2>1, UncountedUnreached
    <2> QED BY <2>2, <2>3, <2>4, CountsQuiet
  <1>2. CASE CreateLoad(p)
    <2>1. /\ life[p] = "alive" /\ CpuBeside({p}) /\ pc[p] = "create1" /\ UNCHANGED <<locks, life>>
          /\ Load(p, tgt[p]) /\ GoOn(p, "createadd", tgt[p])
      BY <1>2 DEF CreateLoad, procVars, Runs
    <2>2. /\ pc'[p] = "createadd" /\ tgt'[p] = tgt[p]
          /\ \A q \in Pids : q # p => pc'[q] = pc[q] /\ tgt'[q] = tgt[q]
      BY <1>0, <2>1, MoveFacts, PointFacts
    <2>3. reg'[p] = count[tgt[p]] /\ UNCHANGED <<count, kid>>
      BY <1>0, <2>1, LoadFacts
    <2>4. \A i \in Muxes : locks[p][i] # tgt[p]
      BY <2>1 DEF CInv, CreatesNew, Creation
    <2> QED BY <2>1, <2>2, <2>3, <2>4, CountsQuiet
  <1> QED BY <1>1, <1>2

\* mutex_create counts itself before it has the handle.
LEMMA CreateStoreCounts ==
  ASSUME CInv, IInv', NEW p \in Pids, NEW n \in Names, CreateStore(p, n)
  PROVE  CInv'
  <1>1. PICK m \in Muxes : m = tgt[p]
    BY DEF CInv, IInv, TypeOK
  <1>2. /\ life[p] = "alive" /\ CpuBeside({p}) /\ pc[p] = "createadd" /\ UNCHANGED <<locks, life>>
        /\ Store(p, m, 1) /\ GoOn(p, "create2", m)
    BY <1>1 DEF CreateStore, Runs, procVars
  <1>3. TypeOK /\ count \in [Muxes -> Int]
    BY DEF CInv, IInv, TypeOK
  <1>4. /\ pc'[p] = "create2" /\ tgt'[p] = m
        /\ \A q \in Pids : q # p => pc'[q] = pc[q] /\ tgt'[q] = tgt[q]
    BY <1>2, <1>3, MoveFacts, PointFacts
  <1>5. /\ count'[m] = reg[p] + 1 /\ \A k \in Muxes : k # m => count'[k] = count[k]
        /\ UNCHANGED kid
    BY <1>2, <1>3, StoreFacts
  <1>6. reg[p] = count[m]
    BY <1>1, <1>2 DEF CInv, RegCurrent
  <1>7. GoneEmpty' /\ HandlesOnce'
    BY <1>2 DEF CInv, GoneEmpty, HandlesOnce
  <1>8. CreatesNew'
    BY <1>1, <1>2, <1>4 DEF CInv, CreatesNew, Creation
  <1>9. RegCurrent' /\ KidCopies'
    BY <1>2, <1>4, <1>5, RegKept, KidsKept
  <1>10. ASSUME NEW k \in Muxes PROVE Counted(k)'
    <2>1. CASE k = m
      <3>1. <<p, NoMux>> \notin Reached(k)
        BY <1>2, ReachedFacts
      <3>2. Reached(k)' = Reached(k) \cup {<<p, NoMux>>}
        BY <1>1, <1>2, <1>4, <2>1 DEF Reached
      <3>3. count'[k] = count[k] + 1
        BY <1>5, <1>6, <2>1
      <3> QED BY <3>1, <3>2, <3>3, CountUp
    <2>2. CASE k # m
      <3>1. Reached(k)' = Reached(k)
        BY <1>1, <1>2, <1>4, <2>2 DEF Reached
      <3> QED BY <1>5, <2>2, <3>1, CountSame
    <2> QED BY <2>1, <2>2
  <1> QED BY <1>7, <1>8, <1>9, <1>10 DEF CInv, CountsReached

\* mutex_create fills in the handle that was counted.
LEMMA CreateFinishCounts ==
  ASSUME CInv, IInv', NEW p \in Pids, CreateFinish(p)
  PROVE  CInv'
  <1>1. PICK m \in Muxes : m = tgt[p]
    BY DEF CInv, IInv, TypeOK
  <1>2. /\ life[p] = "alive" /\ CpuBeside({p}) /\ pc[p] = "create2" /\ UNCHANGED <<count, life, kid>>
        /\ AddHandle(p, m) /\ GoOn(p, "user", 0)
    BY <1>1 DEF CreateFinish, Runs, procVars, work, Return
  <1>3. /\ pc'[p] = "user"
        /\ \A q \in Pids : q # p => pc'[q] = pc[q] /\ tgt'[q] = tgt[q]
    BY <1>2, MoveFacts, PointFacts, TypeFacts DEF CInv, IInv
  <1>5. \A j \in Muxes : locks[p][j] # m
    BY <1>1, <1>2 DEF CInv, CreatesNew, Creation
  <1>6. PICK i \in Muxes : locks[p][i] = NoMux /\ locks' = [locks EXCEPT ![p][i] = m]
    BY <1>2, <1>5, FreeSlot DEF AddHandle, Handles
  <1>7. locks \in [Pids -> [Muxes -> Muxes \cup {NoMux}]]
    BY DEF CInv, IInv, TypeOK
  <1>8. \A q \in Pids, j \in Muxes : locks'[q][j] = IF q = p /\ j = i THEN m ELSE locks[q][j]
    BY <1>6, <1>7
  <1>9. GoneEmpty' /\ CreatesNew'
    BY <1>2, <1>3, <1>8 DEF CInv, GoneEmpty, CreatesNew, Creation
  <1>10. HandlesOnce'
    BY <1>5, <1>8 DEF CInv, HandlesOnce
  <1>11. RegCurrent' /\ KidCopies'
    <2>1. \A q \in Pids : q # p => locks'[q] = locks[q]
      BY <1>6, <1>7
    <2> QED BY <1>2, <1>3, <2>1, RegKept, KidsKept
  <1>12. ASSUME NEW k \in Muxes PROVE Counted(k)'
    <2>1. CASE k = m
      <3>1. <<p, NoMux>> \in Reached(k) /\ <<p, i>> \notin Reached(k) /\ <<p, i>> # <<p, NoMux>>
        BY <1>1, <1>2, <1>5, <2>1, ReachedFacts, TypeFacts
      <3>2. Reached(k)' = (Reached(k) \ {<<p, NoMux>>}) \cup {<<p, i>>}
        <4> DEFINE S == (Reached(k) \ {<<p, NoMux>>}) \cup {<<p, i>>}
        <4>1. S \in SUBSET (Pids \X (Muxes \cup {NoMux}))
          BY ReachedShape
        <4>2. ASSUME NEW q \in Pids, NEW j \in Muxes
             PROVE  <<q, j>> \in S <=> locks'[q][j] = k
          <5>1. <<q, j>> \in Reached(k) <=> locks[q][j] = k
            BY ReachedFacts
          <5>2. j # NoMux /\ k # NoMux
            BY TypeFacts
          <5> QED BY <5>1, <5>2, <1>8, <2>1
        <4>3. \A q \in Pids : <<q, NoMux>> \in S <=> pc'[q] = "create2" /\ tgt'[q] = k
          BY <1>3, ReachedFacts, TypeFacts
        <4> HIDE DEF S
        <4>4. Reached(k)' = S
          BY <4>1, <4>2, <4>3, ReachedNext
        <4> QED BY <4>4 DEF S
      <3>3. /\ IsFiniteSet(Reached(k) \ {<<p, NoMux>>})
            /\ Cardinality(Reached(k) \ {<<p, NoMux>>}) = Cardinality(Reached(k)) - 1
        BY <3>1, FiniteFacts, FS_RemoveElement
      <3>4. Cardinality(Reached(k)') = Cardinality(Reached(k)) - 1 + 1
        BY <3>1, <3>2, <3>3, FS_AddElement
      <3>5. Cardinality(Reached(k)') = Cardinality(Reached(k))
        BY <3>4, FiniteFacts, FS_CardinalityType
      <3> QED BY <1>2, <3>5 DEF CInv, CountsReached, Counted
    <2>2. CASE k # m
      <3>1. Reached(k)' = Reached(k)
        BY <1>1, <1>2, <1>3, <1>6, <1>8, <2>2, TypeFacts DEF Reached
      <3> QED BY <1>2, <3>1, CountSame
    <2> QED BY <2>1, <2>2
  <1> QED BY <1>9, <1>10, <1>11, <1>12 DEF CInv, CountsReached

\* One handle of p and its count go together.
LEMMA DropCounts ==
  ASSUME CInv, IInv', NEW p \in Pids, NEW i \in Muxes, NEW m \in Muxes, NEW at \in {"user", "exitown"},
         life[p] = "alive", CpuBeside({p}), pc[p] \in {"deletesub", "exitsub"},
         locks[p][i] = m, locks' = [locks EXCEPT ![p][i] = NoMux], UNCHANGED <<life, kid>>,
         count'[m] = count[m] - 1, \A k \in Muxes : k # m => count'[k] = count[k],
         pc'[p] = at, \A q \in Pids : q # p => pc'[q] = pc[q] /\ tgt'[q] = tgt[q]
  PROVE  CInv'
  <1>1. locks \in [Pids -> [Muxes -> Muxes \cup {NoMux}]]
    BY DEF CInv, IInv, TypeOK
  <1>2. /\ \A q \in Pids, j \in Muxes : locks'[q][j] = IF q = p /\ j = i THEN NoMux ELSE locks[q][j]
        /\ \A q \in Pids : q # p => locks'[q] = locks[q]
    BY <1>1
  <1>3. GoneEmpty' /\ HandlesOnce'
    BY <1>2 DEF CInv, GoneEmpty, HandlesOnce
  <1>4. CreatesNew'
    BY <1>2 DEF CInv, CreatesNew, Creation
  <1>5. RegCurrent' /\ KidCopies'
    BY <1>2, RegKept, KidsKept
  <1>6. ASSUME NEW k \in Muxes PROVE Counted(k)'
    <2>1. CASE k = m
      <3>1. <<p, i>> \in Reached(k)
        BY <2>1, ReachedFacts
      <3>2. Reached(k)' = Reached(k) \ {<<p, i>>}
        <4> DEFINE S == Reached(k) \ {<<p, i>>}
        <4>1. S \in SUBSET (Pids \X (Muxes \cup {NoMux}))
          BY ReachedShape
        <4>2. ASSUME NEW q \in Pids, NEW j \in Muxes
             PROVE  <<q, j>> \in S <=> locks'[q][j] = k
          <5>1. <<q, j>> \in Reached(k) <=> locks[q][j] = k
            BY ReachedFacts
          <5>2. j # NoMux /\ k # NoMux
            BY TypeFacts
          <5> QED BY <5>1, <5>2, <1>2
        <4>3. \A q \in Pids : <<q, NoMux>> \in S <=> pc'[q] = "create2" /\ tgt'[q] = k
          BY ReachedFacts, TypeFacts
        <4> HIDE DEF S
        <4>4. Reached(k)' = S
          BY <4>1, <4>2, <4>3, ReachedNext
        <4> QED BY <4>4 DEF S
      <3> QED BY <2>1, <3>1, <3>2, CountDown
    <2>2. CASE k # m
      <3>1. Reached(k)' = Reached(k)
        <4>1. ASSUME NEW q \in Pids, NEW j \in Muxes
             PROVE  <<q, j>> \in Reached(k) <=> locks'[q][j] = k
          <5>1. <<q, j>> \in Reached(k) <=> locks[q][j] = k
            BY ReachedFacts
          <5>2. j # NoMux /\ k # NoMux
            BY TypeFacts
          <5> QED BY <5>1, <5>2, <1>2, <2>2
        <4>2. \A q \in Pids : <<q, NoMux>> \in Reached(k) <=> pc'[q] = "create2" /\ tgt'[q] = k
          BY ReachedFacts
        <4> QED BY <4>1, <4>2, ReachedNext, ReachedShape
      <3> QED BY <2>2, <3>1, CountSame
    <2> QED BY <2>1, <2>2
  <1> QED BY <1>3, <1>4, <1>5, <1>6 DEF CInv, CountsReached

\* mutex_delete and exit drop a handle and its count together.
LEMMA DeleteCounts ==
  ASSUME CInv, IInv', NEW p \in Pids, DeleteStore(p) \/ ExitStore(p)
  PROVE  CInv'
  <1>0. TypeOK /\ 0 \in Muxes /\ count \in [Muxes -> Int]
    BY TypeFacts DEF CInv, IInv, TypeOK
  <1>1. PICK i \in Muxes : i = tgt[p]
    BY DEF CInv, IInv, TypeOK
  <1>2. /\ life[p] = "alive" /\ CpuBeside({p}) /\ pc[p] \in {"deletesub", "exitsub"}
        /\ Store(p, locks[p][i], -1) /\ locks' = [locks EXCEPT ![p][i] = NoMux] /\ UNCHANGED life
        /\ GoOn(p, "user", 0) \/ GoOn(p, "exitown", locks[p][i])
    BY <1>1 DEF DeleteStore, ExitStore, Runs, Return, procVars
  <1>3. PICK m \in Muxes : m = locks[p][i]
    BY <1>1, <1>2 DEF CInv, IInv, DeleterOwnsNot, IndexOK
  <1>4. Store(p, m, -1)
    BY <1>2, <1>3 DEF Store
  <1>5. GoOn(p, "user", 0) \/ GoOn(p, "exitown", m)
    BY <1>2, <1>3 DEF GoOn
  <1>6. /\ count'[m] = reg[p] - 1 /\ \A k \in Muxes : k # m => count'[k] = count[k]
        /\ UNCHANGED kid
    <2>1. /\ count'[m] = reg[p] + (-1) /\ \A k \in Muxes : k # m => count'[k] = count[k]
          /\ UNCHANGED kid
      BY <1>0, <1>4, StoreFacts
    <2>2. reg[p] \in Int
      BY <1>0 DEF TypeOK
    <2> QED BY <2>1, <2>2
  <1>7. reg[p] = count[m]
    BY <1>1, <1>2, <1>3 DEF CInv, RegCurrent
  <1>8. PICK at \in {"user", "exitown"} :
          pc'[p] = at /\ \A q \in Pids : q # p => pc'[q] = pc[q] /\ tgt'[q] = tgt[q]
    <2>1. CASE GoOn(p, "user", 0)
      BY <1>0, <2>1, MoveFacts, PointFacts
    <2>2. CASE GoOn(p, "exitown", m)
      <3>1. "exitown" \in Points
        BY PointFacts
      <3>2. pc'[p] = "exitown" /\ \A q \in Pids : q # p => pc'[q] = pc[q] /\ tgt'[q] = tgt[q]
        BY <1>0, <2>2, <3>1, MoveFacts
      <3> QED BY <3>2
    <2> QED BY <1>5, <2>1, <2>2
  <1>9. /\ life[p] = "alive" /\ CpuBeside({p}) /\ pc[p] \in {"deletesub", "exitsub"}
        /\ locks[p][i] = m /\ locks' = [locks EXCEPT ![p][i] = NoMux] /\ UNCHANGED <<life, kid>>
    BY <1>2, <1>3, <1>6
  <1>10. count'[m] = count[m] - 1 /\ \A k \in Muxes : k # m => count'[k] = count[k]
    BY <1>6, <1>7
  <1> QED BY <1>8, <1>9, <1>10, DropCounts

\* fork2 begins with a child that has no handle.
LEMMA ForkAllocCounts ==
  ASSUME CInv, IInv', NEW p \in Pids, ForkAlloc(p)
  PROVE  CInv'
  <1>0. /\ TypeOK /\ 0 \in Muxes /\ life \in [Pids -> {"unborn", "embryo", "alive", "dead"}]
        /\ kid \in [Pids -> Pids \cup {0}]
    BY TypeFacts DEF CInv, IInv, TypeOK
  <1>1. PICK q \in Pids : /\ life[q] = "unborn" /\ life' = [life EXCEPT ![q] = "embryo"]
                          /\ kid' = [kid EXCEPT ![p] = q]
    BY DEF ForkAlloc
  <1>2. /\ life[p] = "alive" /\ CpuBeside({p}) /\ pc[p] = "user" /\ GoOn(p, "fork", 0)
        /\ UNCHANGED <<locks, count>>
    BY DEF ForkAlloc, User, Runs, muxVars
  <1>3. /\ pc'[p] = "fork" /\ \A r \in Pids : r # p => pc'[r] = pc[r] /\ tgt'[r] = tgt[r]
    BY <1>0, <1>2, MoveFacts, PointFacts
  <1>4. /\ \A r \in Pids : life'[r] = (IF r = q THEN "embryo" ELSE life[r])
        /\ \A r \in Pids : kid'[r] = (IF r = p THEN q ELSE kid[r])
    BY <1>0, <1>1
  <1>5. \A i \in Muxes : locks[q][i] = NoMux
    BY <1>1 DEF CInv, GoneEmpty
  <1>6. GoneEmpty' /\ HandlesOnce' /\ CreatesNew'
    BY <1>2, <1>3, <1>4 DEF CInv, GoneEmpty, HandlesOnce, CreatesNew, Creation
  <1>7. RegCurrent'
    BY <1>2, <1>3, RegKept
  <1>8. KidCopies'
    BY <1>2, <1>3, <1>4, <1>5 DEF CInv, KidCopies
  <1>9. ASSUME NEW m \in Muxes PROVE Counted(m)'
    <2>1. \A r \in Pids : pc'[r] = "create2" /\ tgt'[r] = m <=> pc[r] = "create2" /\ tgt[r] = m
      BY <1>2, <1>3
    <2>2. Reached(m)' = Reached(m)
      BY <1>2, <2>1 DEF Reached
    <2> QED BY <1>2, <2>2, CountSame
  <1> QED BY <1>6, <1>7, <1>8, <1>9 DEF CInv, CountsReached

\* allocproc loads the count of the next handle to share.
LEMMA ForkLoadCounts ==
  ASSUME CInv, IInv', NEW p \in Pids, ForkLoad(p)
  PROVE  CInv'
  <1>0. TypeOK /\ locks \in [Pids -> [Muxes -> Muxes \cup {NoMux}]]
    BY DEF CInv, IInv, TypeOK
  <1>1. PICK i \in Unshared(p) : Load(p, locks[p][i]) /\ GoOn(p, "forkadd", i)
    BY DEF ForkLoad
  <1>2. i \in Muxes /\ locks[p][i] \in Muxes /\ locks[kid[p]][i] = NoMux
    BY <1>0 DEF Unshared
  <1>3. life[p] = "alive" /\ CpuBeside({p}) /\ pc[p] = "fork" /\ UNCHANGED <<locks, life>>
    BY DEF ForkLoad, Runs, procVars
  <1>4. /\ pc'[p] = "forkadd" /\ tgt'[p] = i
        /\ \A r \in Pids : r # p => pc'[r] = pc[r] /\ tgt'[r] = tgt[r]
    BY <1>0, <1>1, <1>2, MoveFacts, PointFacts
  <1>5. reg'[p] = count[locks[p][i]] /\ UNCHANGED <<count, kid>>
    BY <1>0, <1>1, <1>2, LoadFacts
  <1> QED BY <1>2, <1>3, <1>4, <1>5, CountsQuiet DEF Creation

\* allocproc: the child gets one more of its parent's handles, and it is counted.
LEMMA ForkStoreCounts ==
  ASSUME CInv, IInv', NEW p \in Pids, ForkStore(p)
  PROVE  CInv'
  <1>0. /\ TypeOK /\ 0 \in Muxes /\ locks \in [Pids -> [Muxes -> Muxes \cup {NoMux}]]
        /\ kid \in [Pids -> Pids \cup {0}]
    BY TypeFacts DEF CInv, IInv, TypeOK
  <1>1. PICK i \in Muxes : i = tgt[p]
    BY DEF CInv, IInv, TypeOK
  <1>2. /\ life[p] = "alive" /\ CpuBeside({p}) /\ pc[p] = "forkadd" /\ GoOn(p, "fork", 0)
        /\ Store(p, locks[p][i], 1) /\ locks' = [locks EXCEPT ![kid[p]][i] = locks[p][i]]
        /\ UNCHANGED life
    BY <1>1 DEF ForkStore, Runs, procVars
  <1>3. PICK m \in Muxes : m = locks[p][i]
    BY <1>1, <1>2 DEF CInv, IInv, IndexOK
  <1>4. PICK q \in Pids : q = kid[p] /\ life[q] = "embryo"
    BY <1>0, <1>2 DEF CInv, IInv, KidOK
  <1>5. /\ locks[q][i] = NoMux /\ \A j \in Muxes : locks[q][j] \in {NoMux, locks[p][j]}
    BY <1>1, <1>2, <1>4, TypeFacts DEF CInv, KidCopies
  <1>6. q # p /\ pc[q] = "user"
    BY <1>2, <1>4 DEF CInv, IInv, KernelAlive
  <1>7. /\ pc'[p] = "fork" /\ \A r \in Pids : r # p => pc'[r] = pc[r] /\ tgt'[r] = tgt[r]
    BY <1>0, <1>2, MoveFacts, PointFacts
  <1>8. Store(p, m, 1)
    BY <1>2, <1>3 DEF Store
  <1>9. /\ count'[m] = reg[p] + 1 /\ \A k \in Muxes : k # m => count'[k] = count[k]
        /\ UNCHANGED kid
    BY <1>0, <1>8, StoreFacts
  <1>10. reg[p] = count[m]
    BY <1>1, <1>2, <1>3 DEF CInv, RegCurrent
  <1>11. /\ \A r \in Pids, j \in Muxes : locks'[r][j] = IF r = q /\ j = i THEN m ELSE locks[r][j]
         /\ \A r \in Pids : r # q => locks'[r] = locks[r]
    BY <1>0, <1>2, <1>3, <1>4
  <1>12. GoneEmpty'
    BY <1>2, <1>4, <1>11 DEF CInv, GoneEmpty
  <1>13. HandlesOnce'
    <2>1. ASSUME NEW j \in Muxes, j # i, locks[q][j] = m PROVE FALSE
      <3>0. m # NoMux
        BY TypeFacts
      <3>1. locks[p][j] = m
        BY <1>5, <2>1, <3>0
      <3> QED BY <1>3, <2>1, <3>0, <3>1 DEF CInv, HandlesOnce
    <2> QED BY <1>11, <2>1 DEF CInv, HandlesOnce
  <1>14. CreatesNew'
    BY <1>6, <1>7, <1>11 DEF CInv, CreatesNew, Creation
  <1>15. RegCurrent'
    BY <1>2, <1>7, RegKept
  <1>16. KidCopies'
    <2>1. ASSUME NEW r \in Pids, kid[r] # 0, r # p
          PROVE  r # q /\ kid[r] # q /\ kid[r] \in Pids
      <3>1. pc[r] \in {"fork", "forkadd"}
        BY <2>1 DEF CInv, KidCopies
      <3>2. kid[r] # kid[p]
        BY <1>2, <2>1 DEF CInv, IInv, KidOK
      <3> QED BY <1>0, <1>4, <1>6, <2>1, <3>1, <3>2
    <2>2. ASSUME NEW r \in Pids, kid[r] # 0, r # p
          PROVE  /\ pc'[r] \in {"fork", "forkadd"}
                 /\ \A j \in Muxes : locks'[kid[r]][j] \in {NoMux, locks'[r][j]}
                 /\ pc'[r] = "forkadd" => locks'[kid[r]][tgt'[r]] = NoMux
      <3>1. locks'[r] = locks[r] /\ locks'[kid[r]] = locks[kid[r]]
        BY <1>11, <2>1, <2>2
      <3> QED BY <1>7, <2>2, <3>1 DEF CInv, KidCopies
    <2>3. \A j \in Muxes : locks'[q][j] \in {NoMux, locks'[p][j]}
      BY <1>3, <1>5, <1>6, <1>11
    <2>4. ASSUME NEW r \in Pids, kid'[r] # 0
          PROVE  /\ pc'[r] \in {"fork", "forkadd"}
                 /\ \A j \in Muxes : locks'[kid'[r]][j] \in {NoMux, locks'[r][j]}
                 /\ pc'[r] = "forkadd" => locks'[kid'[r]][tgt'[r]] = NoMux
      <3>1. CASE r = p
        BY <1>4, <1>7, <1>9, <2>3, <3>1
      <3>2. CASE r # p
        BY <1>9, <2>2, <2>4, <3>2
      <3> QED BY <3>1, <3>2
    <2> QED BY <2>4 DEF KidCopies
  <1>17. ASSUME NEW k \in Muxes PROVE Counted(k)'
    <2>1. CASE k = m
      <3>1. <<q, i>> \notin Reached(k)
        BY <1>5, ReachedFacts, TypeFacts
      <3>2. Reached(k)' = Reached(k) \cup {<<q, i>>}
        <4> DEFINE S == Reached(k) \cup {<<q, i>>}
        <4>1. S \in SUBSET (Pids \X (Muxes \cup {NoMux}))
          BY ReachedShape
        <4>2. ASSUME NEW r \in Pids, NEW j \in Muxes
             PROVE  <<r, j>> \in S <=> locks'[r][j] = k
          <5>1. <<r, j>> \in Reached(k) <=> locks[r][j] = k
            BY ReachedFacts
          <5> QED BY <5>1, <1>11, <2>1
        <4>3. \A r \in Pids : <<r, NoMux>> \in S <=> pc'[r] = "create2" /\ tgt'[r] = k
          BY <1>2, <1>7, ReachedFacts, TypeFacts
        <4> HIDE DEF S
        <4>4. Reached(k)' = S
          BY <4>1, <4>2, <4>3, ReachedNext
        <4> QED BY <4>4 DEF S
      <3>3. count'[k] = count[k] + 1
        BY <1>9, <1>10, <2>1
      <3> QED BY <3>1, <3>2, <3>3, CountUp
    <2>2. CASE k # m
      <3>1. Reached(k)' = Reached(k)
        <4>1. ASSUME NEW r \in Pids, NEW j \in Muxes
             PROVE  <<r, j>> \in Reached(k) <=> locks'[r][j] = k
          <5>1. <<r, j>> \in Reached(k) <=> locks[r][j] = k
            BY ReachedFacts
          <5>2. k # NoMux
            BY TypeFacts
          <5> QED BY <5>1, <5>2, <1>5, <1>11, <2>2
        <4>2. \A r \in Pids : <<r, NoMux>> \in Reached(k) <=> pc'[r] = "create2" /\ tgt'[r] = k
          BY <1>2, <1>7, ReachedFacts
        <4> QED BY <4>1, <4>2, ReachedNext, ReachedShape
      <3> QED BY <1>9, <2>2, <3>1, CountSame
    <2> QED BY <2>1, <2>2
  <1> QED BY <1>12, <1>13, <1>14, <1>15, <1>16, <1>17 DEF CInv, CountsReached

\* The end of fork2 moves neither handles nor counts; when it fails, the counts stay too high
\* and never too low.
LEMMA ForkEndCounts ==
  ASSUME CInv, IInv', NEW p \in Pids, ForkEnd(p) \/ ForkFails(p)
  PROVE  CInv'
  <1>0. /\ TypeOK /\ 0 \in Muxes /\ locks \in [Pids -> [Muxes -> Muxes \cup {NoMux}]]
        /\ kid \in [Pids -> Pids \cup {0}] /\ life \in [Pids -> {"unborn", "embryo", "alive", "dead"}]
        /\ count \in [Muxes -> Int]
    BY TypeFacts DEF CInv, IInv, TypeOK
  <1>1. /\ life[p] = "alive" /\ CpuBeside({p}) /\ pc[p] = "fork" /\ GoOn(p, "user", 0)
        /\ kid' = [kid EXCEPT ![p] = 0] /\ UNCHANGED count
    BY DEF ForkEnd, ForkFails, Runs, Return, muxVars
  <1>2. PICK q \in Pids : q = kid[p] /\ life[q] = "embryo"
    BY <1>0, <1>1 DEF CInv, IInv, KidOK
  <1>3. \/ locks' = locks /\ life' = [life EXCEPT ![q] = "alive"]
        \/ /\ "oom" \in Workload
           /\ locks' = [locks EXCEPT ![q] = [i \in Muxes |-> NoMux]] /\ life' = [life EXCEPT ![q] = "dead"]
    BY <1>2 DEF ForkEnd, ForkFails
  <1>4. q # p /\ pc[q] = "user"
    BY <1>1, <1>2 DEF CInv, IInv, KernelAlive
  <1>5. /\ pc'[p] = "user" /\ \A r \in Pids : r # p => pc'[r] = pc[r] /\ tgt'[r] = tgt[r]
    BY <1>0, <1>1, MoveFacts, PointFacts
  <1>6. kid'[p] = 0 /\ \A r \in Pids : r # p => kid'[r] = kid[r]
    BY <1>0, <1>1
  <1>7. /\ \A r \in Pids : r # q => locks'[r] = locks[r] /\ life'[r] = life[r]
        /\ \/ life'[q] = "alive" /\ locks'[q] = locks[q]
           \/ \A i \in Muxes : locks'[q][i] = NoMux
    BY <1>0, <1>3
  <1>8. GoneEmpty'
    <2> SUFFICES ASSUME NEW r \in Pids, life'[r] \notin {"embryo", "alive"}, NEW i \in Muxes
                 PROVE  locks'[r][i] = NoMux
      BY DEF GoneEmpty
    <2>1. CASE r = q
      BY <1>7, <2>1
    <2>2. CASE r # q
      BY <1>7, <2>2 DEF CInv, GoneEmpty
    <2> QED BY <2>1, <2>2
  <1>9. HandlesOnce'
    <2> SUFFICES ASSUME NEW r \in Pids, NEW i \in Muxes, NEW j \in Muxes,
                        locks'[r][i] = locks'[r][j], locks'[r][i] # NoMux
                 PROVE  i = j
      BY DEF HandlesOnce
    <2>1. locks'[r] = locks[r]
      BY <1>7
    <2> QED BY <2>1 DEF CInv, HandlesOnce
  <1>10. CreatesNew'
    <2> SUFFICES ASSUME NEW r \in Pids, pc'[r] \in Creation, NEW i \in Muxes
                 PROVE  locks'[r][i] # tgt'[r]
      BY DEF CreatesNew
    <2>1. r # p /\ r # q
      BY <1>4, <1>5 DEF Creation
    <2> QED BY <1>5, <1>7, <2>1 DEF CInv, CreatesNew
  <1>11. RegCurrent'
    BY <1>1, <1>5, RegKept
  <1>12. KidCopies'
    <2> SUFFICES ASSUME NEW r \in Pids, kid'[r] # 0
                 PROVE  /\ pc'[r] \in {"fork", "forkadd"}
                        /\ \A j \in Muxes : locks'[kid'[r]][j] \in {NoMux, locks'[r][j]}
                        /\ pc'[r] = "forkadd" => locks'[kid'[r]][tgt'[r]] = NoMux
      BY DEF KidCopies
    <2>1. r # p /\ kid'[r] = kid[r] /\ kid[r] # 0
      BY <1>6
    <2>2. pc[r] \in {"fork", "forkadd"} /\ kid[r] \in Pids
      BY <1>0, <2>1 DEF CInv, KidCopies
    <2>3. kid[r] # q
      BY <1>1, <1>2, <2>1 DEF CInv, IInv, KidOK
    <2>4. locks'[r] = locks[r] /\ locks'[kid[r]] = locks[kid[r]]
      BY <1>4, <1>7, <2>2, <2>3
    <2> QED BY <1>5, <2>1, <2>4 DEF CInv, KidCopies
  <1>13. ASSUME NEW k \in Muxes PROVE Counted(k)'
    <2>0. \A r \in Pids : pc'[r] = "create2" /\ tgt'[r] = k <=> pc[r] = "create2" /\ tgt[r] = k
      BY <1>1, <1>5
    <2>1. CASE locks' = locks
      <3>1. Reached(k)' = Reached(k)
        BY <2>0, <2>1 DEF Reached
      <3> QED BY <1>1, <3>1, CountSame
    <2>2. CASE "oom" \in Workload /\ locks' = [locks EXCEPT ![q] = [i \in Muxes |-> NoMux]]
      <3>1. \A r \in Pids, j \in Muxes : locks'[r][j] = NoMux \/ locks'[r][j] = locks[r][j]
        BY <1>0, <2>2
      <3>2. Reached(k)' \subseteq Reached(k)
        <4>1. k # NoMux
          BY TypeFacts
        <4>2. ASSUME NEW r \in Pids, NEW j \in Muxes, locks'[r][j] = k PROVE locks[r][j] = k
          BY <3>1, <4>1, <4>2
        <4>3. /\ {h \in Pids \X Muxes : locks'[h[1]][h[2]] = k} \subseteq
                 {h \in Pids \X Muxes : locks[h[1]][h[2]] = k}
              /\ {r \in Pids : pc'[r] = "create2" /\ tgt'[r] = k} =
                 {r \in Pids : pc[r] = "create2" /\ tgt[r] = k}
          BY <2>0, <4>2
        <4> QED BY <4>3 DEF Reached
      <3>3. Cardinality(Reached(k)') <= Cardinality(Reached(k)) /\ Cardinality(Reached(k)') \in Nat
        BY <3>2, FiniteFacts, FS_Subset, FS_CardinalityType
      <3>4. Cardinality(Reached(k)) <= count[k] /\ Cardinality(Reached(k)) \in Nat /\ count[k] \in Int
        BY <1>0, FiniteFacts, FS_CardinalityType DEF CInv, CountsReached, Counted
      <3> QED BY <1>1, <2>2, <3>3, <3>4 DEF Counted
    <2> QED BY <1>3, <2>1, <2>2
  <1> QED BY <1>8, <1>9, <1>10, <1>11, <1>12, <1>13 DEF CInv, CountsReached

\* exit loads the count of the next handle, or goes on between two of them.
LEMMA ExitTurnCounts ==
  ASSUME CInv, IInv', NEW p \in Pids,
         ExitBegin(p) \/ ExitLoad(p) \/ ExitOwn(p) \/ ExitRelease(p) \/ ExitRelock(p)
  PROVE  CInv'
  <1>0. /\ TypeOK /\ 0 \in Muxes /\ tgt[p] \in Muxes
        /\ locks \in [Pids -> [Muxes -> Muxes \cup {NoMux}]]
    BY TypeFacts DEF CInv, IInv, TypeOK
  <1>1. CASE ExitBegin(p) \/ ExitOwn(p) \/ ExitRelease(p) \/ ExitRelock(p)
    <2>1. /\ life[p] = "alive" /\ CpuBeside({p}) /\ pc[p] \in {"user", "exitown", "exitrel", "exitback"}
          /\ UNCHANGED <<locks, count, life, kid>>
      BY <1>1 DEF ExitBegin, ExitOwn, ExitRelease, ExitRelock, Runs, muxVars, procVars, work
    <2>2. \E at \in {"exit", "exitrel", "exitback"}, m \in Muxes : GoOn(p, at, m)
      BY <1>0, <1>1 DEF ExitBegin, ExitOwn, ExitRelease, ExitRelock
    <2> QED BY <2>1, <2>2, CountsMove
  <1>2. CASE ExitLoad(p)
    <2>1. PICK i \in Muxes : /\ locks[p][i] # NoMux /\ Load(p, locks[p][i]) /\ GoOn(p, "exitsub", i)
      BY <1>2 DEF ExitLoad, Handles
    <2>2. life[p] = "alive" /\ CpuBeside({p}) /\ pc[p] = "exit" /\ UNCHANGED <<locks, life>>
      BY <1>2 DEF ExitLoad, Runs, procVars
    <2>3. locks[p][i] \in Muxes
      BY <1>0, <2>1
    <2>4. reg'[p] = count[locks[p][i]] /\ UNCHANGED <<count, kid>>
      BY <1>0, <2>1, <2>3, LoadFacts
    <2>5. /\ pc'[p] = "exitsub" /\ tgt'[p] = i
          /\ \A q \in Pids : q # p => pc'[q] = pc[q] /\ tgt'[q] = tgt[q]
      BY <1>0, <2>1, MoveFacts, PointFacts
    <2> QED BY <2>2, <2>4, <2>5, CountsQuiet DEF Creation
  <1> QED BY <1>1, <1>2

\* exit ends without handles.
LEMMA ExitZombieCounts ==
  ASSUME CInv, IInv', NEW p \in Pids, ExitZombie(p)
  PROVE  CInv'
  <1>0. TypeOK /\ 0 \in Muxes /\ life \in [Pids -> {"unborn", "embryo", "alive", "dead"}]
    BY TypeFacts DEF CInv, IInv, TypeOK
  <1>1. /\ life[p] = "alive" /\ CpuBeside({p}) /\ pc[p] = "exit" /\ GoOn(p, "user", 0)
        /\ life' = [life EXCEPT ![p] = "dead"] /\ UNCHANGED <<locks, count, kid>>
        /\ \A i \in Muxes : locks[p][i] = NoMux
    BY DEF ExitZombie, Runs, Return, Handles, muxVars, work
  <1>2. /\ pc'[p] = "user" /\ \A r \in Pids : r # p => pc'[r] = pc[r] /\ tgt'[r] = tgt[r]
    BY <1>0, <1>1, MoveFacts, PointFacts
  <1>3. GoneEmpty' /\ HandlesOnce' /\ CreatesNew'
    BY <1>0, <1>1, <1>2 DEF CInv, GoneEmpty, HandlesOnce, CreatesNew, Creation
  <1>4. RegCurrent' /\ KidCopies'
    BY <1>1, <1>2, RegKept, KidsKept
  <1>5. ASSUME NEW k \in Muxes PROVE Counted(k)'
    <2>1. \A r \in Pids : pc'[r] = "create2" /\ tgt'[r] = k <=> pc[r] = "create2" /\ tgt[r] = k
      BY <1>1, <1>2
    <2>2. Reached(k)' = Reached(k)
      BY <1>1, <2>1 DEF Reached
    <2> QED BY <1>1, <2>2, CountSame
  <1> QED BY <1>3, <1>4, <1>5 DEF CInv, CountsReached

\* The quiet steps: locks, condition variables and mutex_delete up to its count.
LEMMA QuietCounts ==
  ASSUME CInv, IInv', NEW p \in Pids,
         (\E i \in Muxes : DeleteUnlock(p, i)) \/ DeleteLoad(p) \/ Locks(p) \/ Cv(p)
  PROVE  CInv'
  <1>0. TypeOK /\ locks \in [Pids -> [Muxes -> Muxes \cup {NoMux}]]
    BY DEF CInv, IInv, TypeOK
  <1>1. ASSUME NEW i \in Muxes, locks[p][i] # NoMux PROVE locks[p][i] \in Muxes
    BY <1>0, <1>1
  <1>2. tgt[p] \in Muxes /\ 0 \in Muxes
    BY TypeFacts DEF CInv, IInv, TypeOK
  <1>3. ASSUME NEW i \in Muxes, DeleteUnlock(p, i) PROVE CInv'
    BY <1>3, CountsMove DEF DeleteUnlock, User, Runs, work
  <1>4. ASSUME NEW m \in Muxes, Acquire(p, m), life[p] = "alive", CpuBeside({p}),
               pc[p] \in {"user", "lock"}, UNCHANGED <<locks, count, life, kid>>
        PROVE  CInv'
    <2>1. GoOn(p, "lock", m) \/ GoOn(p, "user", 0)
      BY <1>4 DEF Acquire, Return
    <2> QED BY <1>2, <1>4, <2>1, CountsMove
  <1>5. CASE Locks(p)
    <2>1. ASSUME NEW i \in Muxes, Lock(p, i) PROVE CInv'
      BY <1>1, <1>4, <2>1 DEF Lock, User, Runs, work
    <2>2. ASSUME NEW i \in Muxes, Unlock(p, i) PROVE CInv'
      <3>1. /\ life[p] = "alive" /\ CpuBeside({p}) /\ pc[p] = "user"
            /\ UNCHANGED <<locks, count, life, kid, pc, tgt>>
        BY <2>2 DEF Unlock, User, Runs, work
      <3> QED BY <3>1, CountsMove DEF Uncut, Creation
    <2>3. CASE LockRetry(p)
      BY <1>2, <1>4, <2>3 DEF LockRetry, Runs, work
    <2> QED BY <1>5, <2>1, <2>2, <2>3 DEF Locks
  <1>6. ASSUME NEW m \in Muxes, NEW c, CvTurn(p, m, c), life[p] = "alive", CpuBeside({p}),
               pc[p] \in {"user", "cv"}, UNCHANGED <<locks, count, life, kid>>
        PROVE  CInv'
    <2>1. GoOn(p, "waited", m) \/ GoOn(p, "cv", m)
      BY <1>6 DEF CvTurn
    <2> QED BY <1>6, <2>1, CountsMove
  <1>7. CASE Cv(p)
    <2>1. ASSUME NEW i \in Muxes, CvWait(p, i) PROVE CInv'
      BY <1>1, <1>6, <2>1 DEF CvWait, User, Runs, work
    <2>2. ASSUME NEW i \in Muxes, CvSignal(p, i) PROVE CInv'
      <3>1. /\ life[p] = "alive" /\ CpuBeside({p}) /\ pc[p] = "user"
            /\ UNCHANGED <<locks, count, life, kid, pc, tgt>>
        BY <2>2 DEF CvSignal, User, Runs, work
      <3> QED BY <3>1, CountsMove DEF Uncut, Creation
    <2>3. CASE CvRetry(p)
      BY <1>2, <1>6, <2>3 DEF CvRetry, Runs, work
    <2>4. CASE CvReturn(p)
      BY <1>2, <2>4, CountsMove DEF CvReturn, Return, Runs, muxVars, procVars, work
    <2> QED BY <1>7, <2>1, <2>2, <2>3, <2>4 DEF Cv
  <1>8. CASE DeleteLoad(p)
    <2>1. /\ life[p] = "alive" /\ CpuBeside({p}) /\ pc[p] = "delete" /\ UNCHANGED <<locks, life>>
          /\ Load(p, locks[p][tgt[p]]) /\ GoOn(p, "deletesub", tgt[p])
      BY <1>8 DEF DeleteLoad, Runs, procVars
    <2>2. locks[p][tgt[p]] \in Muxes
      BY <2>1 DEF CInv, IInv, DeleterOwnsNot
    <2>3. reg'[p] = count[locks[p][tgt[p]]] /\ UNCHANGED <<count, kid>>
      BY <1>0, <2>1, <2>2, LoadFacts
    <2>4. /\ pc'[p] = "deletesub" /\ tgt'[p] = tgt[p]
          /\ \A q \in Pids : q # p => pc'[q] = pc[q] /\ tgt'[q] = tgt[q]
      BY <1>0, <1>2, <2>1, MoveFacts, PointFacts
    <2> QED BY <2>1, <2>3, <2>4, CountsQuiet DEF Creation
  <1> QED BY <1>3, <1>5, <1>7, <1>8

\* Every step keeps the counts.
LEMMA NextCInv == CInv /\ [Next]_vars => CInv'
  <1> SUFFICES ASSUME CInv, [Next]_vars PROVE CInv'
    OBVIOUS
  <1>1. IInv'
    BY NextIInv DEF CInv
  <1>2. CASE UNCHANGED vars
    BY <1>1, <1>2, CountsStill DEF vars, muxVars, procVars, work
  <1>3. CASE Next
    <2>1. PICK p \in Pids :
            \/ Create(p) \/ (\E n \in Names : Get(p, n)) \/ Delete(p) \/ Locks(p) \/ Cv(p)
            \/ Fork(p) \/ Exit(p) \/ Kill(p)
      BY <1>3 DEF Next
    <2>2. ~ \E n \in Names : Get(p, n)
      BY DEF Get, CInv
    <2>3. CASE Create(p)
      BY <1>1, <2>3, CreateFindCounts, CreateStoreCounts, CreateFinishCounts DEF Create
    <2>4. CASE Delete(p)
      BY <1>1, <2>4, DeleteCounts, QuietCounts DEF Delete
    <2>5. CASE Locks(p) \/ Cv(p)
      BY <1>1, <2>5, QuietCounts
    <2>6. CASE Fork(p)
      BY <1>1, <2>6, ForkAllocCounts, ForkLoadCounts, ForkStoreCounts, ForkEndCounts DEF Fork
    <2>7. CASE Exit(p)
      BY <1>1, <2>7, ExitTurnCounts, DeleteCounts, ExitZombieCounts DEF Exit
    <2>8. CASE Kill(p)
      BY <1>1, <2>8, CountsStill DEF Kill, muxVars, work
    <2> QED BY <2>1, <2>2, <2>3, <2>4, <2>5, <2>6, <2>7, <2>8
  <1> QED BY <1>2, <1>3

\* mutexes[m].count is the number of handles to m, for any number of processes that create,
\* delete, fork and exit on one CPU, preempted between any two steps, as long as nobody calls
\* mutex_get, which counts nothing (proc.c).  On several CPUs allocproc's unlocked count++ and
\* the count-- of mutex_delete or exit can lose each other.
THEOREM CountIsHandles ==
  NCPU = 1 /\ "get" \notin Workload => (Spec => []CountsHandles)
  <1>1. CInv => CountsHandles
    BY DEF CInv, CountsReached, Counted, CountsHandles
  <1> QED BY <1>1, InitCInv, NextCInv, PTL DEF Spec

-----------------------------------------------------------------------------
(* XInv is inductive *)

\* Every mutex has sleep channels of its own.
LEMMA ChanFacts ==
  \A m, n \in Muxes : /\ SlpChan(m) # NoChan /\ CvChan(m) # NoChan /\ CvChan(m) # SlpChan(n)
                      /\ SlpChan(m) = SlpChan(n) => m = n
  <1>1. \A m, n \in Muxes : SlpChan(m) = SlpChan(n) => m = n
    BY TypeFacts DEF SlpChan
  <1> QED BY <1>1, TypeFacts

\* The invariant in parts.
LEMMA XFacts ==
  ASSUME XInv
  PROVE  /\ CInv /\ IInv /\ SingleCreator /\ CreatesUnreached /\ SleeperLocks
         /\ ReleaserOwns /\ MutualExclusion /\ NoLostRelease /\ TypeOK
         /\ locked \in [Muxes -> BOOLEAN] /\ owner \in [Muxes -> Pids \cup {0}]
         /\ crit \in [Pids -> SUBSET Muxes] /\ chan \in [Pids -> Chans]
         /\ locks \in [Pids -> [Muxes -> Muxes \cup {NoMux}]]
         /\ tgt \in [Pids -> Muxes] /\ pc \in [Pids -> Points]
  BY DEF XInv, CInv, IInv, TypeOK

\* No creator begins or moves, and nobody gets a handle to a mutex that nobody had one to.
LEMMA CreatesKept ==
  ASSUME XInv,
         \A q \in Pids : pc'[q] \in Creation => pc[q] \in Creation /\ tgt'[q] = tgt[q],
         \A q \in Pids, i \in Muxes : locks'[q][i] \in Muxes =>
           \E r \in Pids, j \in Muxes : locks'[q][i] = locks[r][j]
  PROVE  CreatesUnreached'
  <1>1. \A q \in Pids : tgt[q] \in Muxes
    BY XFacts
  <1> QED BY <1>1, XFacts DEF CreatesUnreached, Creation

\* Nobody goes to sleep for a mutex, and sleepers stay where they are or wake.
LEMMA SleepersKept ==
  ASSUME XInv,
         \A q \in Pids : \/ chan'[q] = NoChan \/ \E m \in Muxes : chan'[q] = CvChan(m)
                         \/ chan'[q] = chan[q] /\ pc'[q] = pc[q] /\ tgt'[q] = tgt[q]
  PROVE  SleeperLocks' /\ \A q \in Pids, m \in Muxes : chan'[q] = SlpChan(m) => chan[q] = SlpChan(m)
  BY XFacts, ChanFacts DEF SleeperLocks

\* Nothing changes for owners, and nobody goes to sleep for a mutex.
LEMMA OwnersKept ==
  ASSUME XInv, UNCHANGED <<locked, owner, crit>>,
         \A q \in Pids, m \in Muxes : chan'[q] = SlpChan(m) => chan[q] = SlpChan(m)
  PROVE  MutualExclusion' /\ NoLostRelease'
  BY XFacts DEF MutualExclusion, NoLostRelease

\* releasesleep by the owner, in mutex_unlock, mutex_delete and cv_wait.
LEMMA ReleaseFrees ==
  ASSUME XInv, NEW p \in Pids, NEW m \in Muxes, owner[m] = p,
         locked' = [locked EXCEPT ![m] = FALSE], owner' = [owner EXCEPT ![m] = 0],
         crit' = [crit EXCEPT ![p] = @ \ {m}],
         \A q \in Pids, n \in Muxes : chan'[q] = SlpChan(n) => chan[q] = SlpChan(n) /\ n # m
  PROVE  MutualExclusion' /\ NoLostRelease'
  <1>1. \A n \in Muxes : n # m => locked'[n] = locked[n] /\ owner'[n] = owner[n]
    BY XFacts
  <1>2. MutualExclusion'
    <2> SUFFICES ASSUME NEW q \in Pids, NEW n \in crit'[q] PROVE locked'[n] /\ owner'[n] = q
      BY DEF MutualExclusion
    <2>1. n \in crit[q] /\ (q = p => n # m) /\ n \in Muxes
      BY XFacts
    <2>2. locked[n] /\ owner[n] = q
      BY <2>1, XFacts DEF MutualExclusion
    <2>3. n # m
      BY <2>1, <2>2
    <2> QED BY <1>1, <2>1, <2>2, <2>3
  <1>3. NoLostRelease'
    BY <1>1, XFacts DEF NoLostRelease
  <1> QED BY <1>2, <1>3

\* wakeup of a sleep-lock's channel wakes all that sleep on it and nobody else.
LEMMA WokenFacts ==
  ASSUME XInv, NEW m \in Muxes, chan' = Woken(SlpChan(m))
  PROVE  /\ \A q \in Pids : chan'[q] = NoChan \/ chan'[q] = chan[q]
         /\ \A q \in Pids, n \in Muxes : chan'[q] = SlpChan(n) => chan[q] = SlpChan(n) /\ n # m
  BY ChanFacts DEF Woken

\* While p steps no other process is in exit, so a step that does not take p to the release
\* leaves nobody about to release.
LEMMA ReleasersKept ==
  ASSUME XInv, NEW p \in Pids, CpuBeside({p}), pc'[p] # "exitrel",
         \A q \in Pids : q # p => pc'[q] = pc[q]
  PROVE  ReleaserOwns'
  <1>1. \A q \in Pids : q # p => pc'[q] \notin Uncut
    BY Alone, XFacts
  <1> QED BY <1>1 DEF ReleaserOwns, Uncut

\* Nobody holds or waits for a mutex at first.
LEMMA InitXInv == NCPU = 1 /\ "get" \notin Workload /\ SingleCreator /\ Init => XInv
  <1> SUFFICES ASSUME NCPU = 1, "get" \notin Workload, SingleCreator, Init PROVE XInv
    OBVIOUS
  <1>1. CInv
    BY InitCInv
  <1>2. /\ chan = [p \in Pids |-> NoChan] /\ pc = [p \in Pids |-> "user"] /\ crit = [p \in Pids |-> {}]
    BY DEF Init
  <1> HIDE DEF Init
  <1>3. CreatesUnreached /\ SleeperLocks /\ ReleaserOwns /\ MutualExclusion /\ NoLostRelease
    BY <1>2, ChanFacts DEF CreatesUnreached, Creation, SleeperLocks, ReleaserOwns, MutualExclusion, NoLostRelease
  <1> QED BY <1>1, <1>3 DEF XInv

\* mutex_create chooses a slot that nobody has a handle to.
LEMMA CreateFindLocks ==
  ASSUME XInv, CInv', NEW p \in Pids, CreateFind(p)
  PROVE  XInv'
  <1>1. PICK m \in Muxes : count[m] = 0 /\ GoOn(p, "create1", m)
    BY DEF CreateFind
  <1>2. /\ UNCHANGED <<locks, chan, locked, owner, crit>> /\ p \in Creators /\ chan[p] = NoChan
        /\ CpuBeside({p})
    BY DEF CreateFind, muxVars, procVars, User, Runs
  <1>3. /\ pc'[p] = "create1" /\ tgt'[p] = m
        /\ \A q \in Pids : q # p => pc'[q] = pc[q] /\ tgt'[q] = tgt[q]
    BY <1>1, MoveFacts, PointFacts, XFacts
  <1>4. \A q \in Pids, i \in Muxes : locks[q][i] # m
    BY <1>1, UncountedUnreached, XFacts
  <1>5. CreatesUnreached'
    BY <1>2, <1>3, <1>4, XFacts DEF CreatesUnreached
  <1>6. ReleaserOwns' /\ SleeperLocks' /\ MutualExclusion' /\ NoLostRelease'
    BY <1>2, <1>3, ReleasersKept, SleepersKept, OwnersKept
  <1> QED BY <1>5, <1>6 DEF XInv

\* A step that leaves locks, owners and sleepers alone, drops handles or hands some on, and
\* goes on somewhere outside mutex_create or further in it.
LEMMA LocksStill ==
  ASSUME XInv, CInv', NEW p \in Pids, NEW at \in Points, NEW m \in Muxes, GoOn(p, at, m),
         CpuBeside({p}), chan[p] = NoChan, UNCHANGED <<chan, locked, owner>>,
         \A q \in Pids : crit'[q] \subseteq crit[q],
         at \in Creation => pc[p] \in Creation /\ m = tgt[p],
         at = "exitrel" => owner[m] = p,
         \A q \in Pids, i \in Muxes : locks'[q][i] \in Muxes =>
           \E r \in Pids, j \in Muxes : locks'[q][i] = locks[r][j]
  PROVE  XInv'
  <1>1. /\ pc'[p] = at /\ tgt'[p] = m
        /\ \A q \in Pids : q # p => pc'[q] = pc[q] /\ tgt'[q] = tgt[q]
    BY MoveFacts, XFacts
  <1>2. CreatesUnreached'
    BY <1>1, CreatesKept
  <1>3. SleeperLocks' /\ \A q \in Pids, n \in Muxes : chan'[q] = SlpChan(n) => chan[q] = SlpChan(n)
    BY <1>1, SleepersKept
  <1>4. MutualExclusion' /\ NoLostRelease'
    BY XFacts DEF MutualExclusion, NoLostRelease
  <1>5. ReleaserOwns'
    <2>1. CASE at = "exitrel"
      <3>1. \A q \in Pids : q # p => pc'[q] # "exitrel"
        BY <1>1, Alone, XFacts DEF Uncut
      <3> QED BY <1>1, <2>1, <3>1 DEF ReleaserOwns
    <2>2. CASE at # "exitrel"
      BY <1>1, <2>2, ReleasersKept
    <2> QED BY <2>1, <2>2
  <1> QED BY <1>2, <1>3, <1>4, <1>5 DEF XInv

\* The slot that mutex_create counts is still free.
LEMMA CreateCountLocks ==
  ASSUME XInv, CInv', NEW p \in Pids, CreateLoad(p) \/ \E n \in Names : CreateStore(p, n)
  PROVE  XInv'
  <1>0. tgt[p] \in Muxes /\ "createadd" \in Points /\ "create2" \in Points
    BY XFacts, PointFacts
  <1>1. /\ pc[p] \in {"create1", "createadd"} /\ chan[p] = NoChan /\ CpuBeside({p})
        /\ UNCHANGED <<locks, chan, locked, owner, crit>>
    BY DEF CreateLoad, CreateStore, Runs, procVars
  <1>2. GoOn(p, "createadd", tgt[p]) \/ GoOn(p, "create2", tgt[p])
    BY DEF CreateLoad, CreateStore
  <1>3. "createadd" # "exitrel" /\ "create2" # "exitrel" /\ pc[p] \in Creation
    BY <1>1 DEF Creation
  <1> QED BY <1>0, <1>1, <1>2, <1>3, LocksStill

\* initsleeplock on a slot that nobody reaches takes the lock from nobody.
LEMMA CreateFinishLocks ==
  ASSUME XInv, CInv', NEW p \in Pids, CreateFinish(p)
  PROVE  XInv'
  <1>1. PICK m \in Muxes : m = tgt[p]
    BY XFacts
  <1>2. /\ pc[p] = "create2" /\ chan[p] = NoChan /\ CpuBeside({p}) /\ GoOn(p, "user", 0)
        /\ UNCHANGED <<chan, crit>>
        /\ locked' = [locked EXCEPT ![m] = FALSE] /\ owner' = [owner EXCEPT ![m] = 0]
    BY <1>1 DEF CreateFinish, Runs, procVars, Return
  <1>3. /\ pc'[p] = "user" /\ \A q \in Pids : q # p => pc'[q] = pc[q] /\ tgt'[q] = tgt[q]
    BY <1>2, MoveFacts, PointFacts, TypeFacts, XFacts
  <1>4. p \in Creators /\ \A q \in Pids, i \in Muxes : locks[q][i] # m
    BY <1>1, <1>2, XFacts DEF CreatesUnreached, Creation
  <1>5. \A q \in Pids : pc'[q] \notin Creation
    BY <1>3, <1>4, XFacts DEF CreatesUnreached, SingleCreator, Creation
  <1>6. CreatesUnreached'
    BY <1>5 DEF CreatesUnreached, Creation
  <1>7. SleeperLocks' /\ \A q \in Pids, n \in Muxes : chan'[q] = SlpChan(n) => chan[q] = SlpChan(n)
    BY <1>2, <1>3, SleepersKept
  <1>8. \A n \in Muxes : n # m => locked'[n] = locked[n] /\ owner'[n] = owner[n]
    BY <1>2, XFacts
  <1>9. MutualExclusion'
    <2> SUFFICES ASSUME NEW q \in Pids, NEW n \in crit[q] PROVE locked'[n] /\ owner'[n] = q
      BY <1>2 DEF MutualExclusion
    <2>1. n \in Muxes /\ locked[n] /\ owner[n] = q
      BY XFacts DEF MutualExclusion
    <2>2. pc[q] \notin {"exitown", "exitrel"}
      BY <1>2, Alone, XFacts DEF Uncut
    <2>3. n # m
      BY <1>4, <2>1, <2>2, XFacts DEF IInv, OwnerHasHandle
    <2> QED BY <1>8, <2>1, <2>3
  <1>10. NoLostRelease'
    <2> SUFFICES ASSUME NEW q \in Pids, NEW n \in Muxes, chan[q] = SlpChan(n) PROVE locked'[n]
      BY <1>2 DEF NoLostRelease
    <2>1. locked[n] /\ pc[q] = "lock" /\ tgt[q] = n
      BY XFacts DEF NoLostRelease, SleeperLocks
    <2>2. n # m
      BY <1>4, <2>1, XFacts DEF IInv, WaiterHasHandle
    <2> QED BY <1>8, <2>1, <2>2
  <1>11. ReleaserOwns'
    BY <1>2, <1>3, ReleasersKept
  <1> QED BY <1>6, <1>7, <1>9, <1>10, <1>11 DEF XInv

\* mutex_delete unlocks before it drops the handle.
LEMMA DeleteUnlockLocks ==
  ASSUME XInv, CInv', NEW p \in Pids, NEW i \in Muxes, DeleteUnlock(p, i)
  PROVE  XInv'
  <1>1. PICK m \in Muxes : m = locks[p][i]
    BY XFacts DEF DeleteUnlock
  <1>2. UNCHANGED locks /\ chan[p] = NoChan /\ CpuBeside({p}) /\ pc[p] = "user" /\ GoOn(p, "delete", i)
    BY DEF DeleteUnlock, User, Runs
  <1>3. /\ pc'[p] = "delete" /\ \A q \in Pids : q # p => pc'[q] = pc[q] /\ tgt'[q] = tgt[q]
    BY <1>2, MoveFacts, PointFacts, XFacts
  <1>4. CreatesUnreached' /\ ReleaserOwns'
    BY <1>2, <1>3, CreatesKept, ReleasersKept DEF Creation
  <1>5. CASE owner[m] = p
    <2>1. Release(p, m)
      BY <1>1, <1>5 DEF DeleteUnlock
    <2>2. MutualExclusion' /\ NoLostRelease'
      BY <1>5, <2>1, WokenFacts, ReleaseFrees DEF Release
    <2>3. SleeperLocks'
      BY <1>2, <1>3, <2>1, WokenFacts, SleepersKept DEF Release
    <2> QED BY <1>4, <2>2, <2>3 DEF XInv
  <1>6. CASE owner[m] # p
    <2>1. UNCHANGED <<locked, owner, crit, chan>>
      BY <1>1, <1>6 DEF DeleteUnlock
    <2>2. SleeperLocks' /\ MutualExclusion' /\ NoLostRelease'
      BY <1>2, <1>3, <2>1, SleepersKept, OwnersKept
    <2> QED BY <1>4, <2>2 DEF XInv
  <1> QED BY <1>5, <1>6

\* The handle that is dropped is not the owner's.
LEMMA DeleteCountLocks ==
  ASSUME XInv, CInv', NEW p \in Pids, DeleteLoad(p) \/ DeleteStore(p)
  PROVE  XInv'
  <1>0. tgt[p] \in Muxes /\ 0 \in Muxes /\ "deletesub" \in Points /\ "user" \in Points
    BY XFacts, PointFacts, TypeFacts
  <1>1. /\ chan[p] = NoChan /\ CpuBeside({p}) /\ UNCHANGED <<chan, locked, owner, crit>>
        /\ UNCHANGED locks \/ locks' = [locks EXCEPT ![p][tgt[p]] = NoMux]
    BY DEF DeleteLoad, DeleteStore, Runs, procVars
  <1>2. \A q \in Pids, j \in Muxes : locks'[q][j] = NoMux \/ locks'[q][j] = locks[q][j]
    BY <1>1, XFacts
  <1>3. GoOn(p, "deletesub", tgt[p]) \/ GoOn(p, "user", 0)
    BY DEF DeleteLoad, DeleteStore, Return
  <1>4. "deletesub" \notin Creation /\ "user" \notin Creation
    BY DEF Creation
  <1> QED BY <1>0, <1>1, <1>2, <1>3, <1>4, TypeFacts, LocksStill

\* acquiresleep, in mutex_lock and after a wake-up: a lock that is taken was free, so nobody
\* is inside; who sleeps for it has seen it taken.
LEMMA AcquireLocks ==
  ASSUME XInv, CInv', NEW p \in Pids, NEW m \in Muxes, Acquire(p, m),
         pc[p] \in {"user", "lock"}, chan[p] = NoChan, CpuBeside({p}), UNCHANGED locks
  PROVE  XInv'
  <1>1. CASE locked[m]
    <2>1. /\ chan' = [chan EXCEPT ![p] = SlpChan(m)] /\ GoOn(p, "lock", m)
          /\ UNCHANGED <<locked, owner, crit>>
      BY <1>1 DEF Acquire
    <2>2. /\ pc'[p] = "lock" /\ tgt'[p] = m
          /\ \A q \in Pids : q # p => pc'[q] = pc[q] /\ tgt'[q] = tgt[q]
      BY <2>1, MoveFacts, PointFacts, XFacts
    <2>3. \A q \in Pids : chan'[q] = IF q = p THEN SlpChan(m) ELSE chan[q]
      BY <2>1, XFacts
    <2>4. CreatesUnreached' /\ ReleaserOwns'
      BY <2>2, CreatesKept, ReleasersKept DEF Creation
    <2>5. SleeperLocks'
      BY <2>2, <2>3, ChanFacts, XFacts DEF SleeperLocks
    <2>6. MutualExclusion' /\ NoLostRelease'
      BY <1>1, <2>1, <2>3, ChanFacts, XFacts DEF MutualExclusion, NoLostRelease
    <2> QED BY <2>4, <2>5, <2>6 DEF XInv
  <1>2. CASE ~locked[m]
    <2>1. /\ locked' = [locked EXCEPT ![m] = TRUE] /\ owner' = [owner EXCEPT ![m] = p]
          /\ crit' = [crit EXCEPT ![p] = @ \cup {m}] /\ GoOn(p, "user", 0) /\ UNCHANGED chan
      BY <1>2 DEF Acquire, Return
    <2>2. /\ pc'[p] = "user" /\ \A q \in Pids : q # p => pc'[q] = pc[q] /\ tgt'[q] = tgt[q]
      BY <2>1, MoveFacts, PointFacts, TypeFacts, XFacts
    <2>3. locked'[m] /\ owner'[m] = p /\ \A n \in Muxes : n # m => locked'[n] = locked[n] /\ owner'[n] = owner[n]
      BY <2>1, XFacts
    <2>4. CreatesUnreached' /\ ReleaserOwns'
      BY <2>2, CreatesKept, ReleasersKept DEF Creation
    <2>5. SleeperLocks'
      BY <2>1, <2>2, SleepersKept
    <2>6. MutualExclusion'
      <3> SUFFICES ASSUME NEW q \in Pids, NEW n \in crit'[q] PROVE locked'[n] /\ owner'[n] = q
        BY DEF MutualExclusion
      <3>1. n \in crit[q] \/ (q = p /\ n = m)
        BY <2>1, XFacts
      <3>2. CASE q = p /\ n = m
        BY <2>3, <3>2
      <3>3. CASE n \in crit[q]
        <4>1. n \in Muxes /\ locked[n] /\ owner[n] = q
          BY <3>3, XFacts DEF MutualExclusion
        <4>2. n # m
          BY <1>2, <4>1
        <4> QED BY <2>3, <4>1, <4>2
      <3> QED BY <3>1, <3>2, <3>3
    <2>7. NoLostRelease'
      BY <2>1, <2>3, XFacts DEF NoLostRelease
    <2> QED BY <2>4, <2>5, <2>6, <2>7 DEF XInv
  <1> QED BY <1>1, <1>2

\* mutex_lock and mutex_unlock.
LEMMA LocksLocks ==
  ASSUME XInv, CInv', NEW p \in Pids, Locks(p)
  PROVE  XInv'
  <1>1. ASSUME NEW i \in Muxes, Lock(p, i) PROVE XInv'
    <2>1. locks[p][i] \in Muxes
      BY <1>1, XFacts DEF Lock
    <2> QED BY <1>1, <2>1, AcquireLocks DEF Lock, User, Runs
  <1>2. ASSUME NEW i \in Muxes, Unlock(p, i) PROVE XInv'
    <2>1. PICK m \in Muxes : m = locks[p][i]
      BY <1>2, XFacts DEF Unlock
    <2>2. /\ owner[m] = p /\ Release(p, m) /\ UNCHANGED <<locks, pc, tgt>>
          /\ CpuBeside({p}) /\ pc[p] = "user"
      BY <1>2, <2>1 DEF Unlock, User, Runs
    <2>3. CreatesUnreached' /\ ReleaserOwns'
      BY <2>2, CreatesKept, ReleasersKept
    <2>4. MutualExclusion' /\ NoLostRelease'
      BY <2>2, WokenFacts, ReleaseFrees DEF Release
    <2>5. SleeperLocks'
      BY <2>2, WokenFacts, SleepersKept DEF Release
    <2> QED BY <2>3, <2>4, <2>5 DEF XInv
  <1>3. CASE LockRetry(p)
    <2>1. tgt[p] \in Muxes
      BY XFacts
    <2> QED BY <1>3, <2>1, AcquireLocks DEF LockRetry, Runs
  <1> QED BY <1>1, <1>2, <1>3 DEF Locks

\* A turn of cv_wait releases the mutex only for its owner.
LEMMA CvTurnLocks ==
  ASSUME XInv, CInv', NEW p \in Pids, NEW m \in Muxes, NEW c, CvTurn(p, m, c),
         pc[p] \in {"user", "cv"}, chan[p] = NoChan, CpuBeside({p}), UNCHANGED locks
  PROVE  XInv'
  <1>1. PICK at \in {"waited", "cv"} : GoOn(p, at, m)
    BY DEF CvTurn
  <1>2. /\ pc'[p] = at /\ \A q \in Pids : q # p => pc'[q] = pc[q] /\ tgt'[q] = tgt[q]
    BY <1>1, MoveFacts, PointFacts, XFacts
  <1>3. CreatesUnreached' /\ ReleaserOwns'
    BY <1>2, CreatesKept, ReleasersKept DEF Creation
  <1>4. CASE UNCHANGED <<locked, owner, crit, chan>>
    BY <1>2, <1>3, <1>4, SleepersKept, OwnersKept DEF XInv
  <1>5. CASE chan' = [chan EXCEPT ![p] = CvChan(m)] /\ UNCHANGED <<locked, owner, crit>>
    <2>1. \A q \in Pids : chan'[q] = IF q = p THEN CvChan(m) ELSE chan[q]
      BY <1>5, XFacts
    <2>2. SleeperLocks' /\ MutualExclusion' /\ NoLostRelease'
      BY <1>2, <1>5, <2>1, SleepersKept, OwnersKept
    <2> QED BY <1>3, <2>2 DEF XInv
  <1>6. CASE /\ owner[m] = p
             /\ locked' = [locked EXCEPT ![m] = FALSE] /\ owner' = [owner EXCEPT ![m] = 0]
             /\ crit' = [crit EXCEPT ![p] = @ \ {m}]
             /\ chan' = [Woken(SlpChan(m)) EXCEPT ![p] = CvChan(m)]
    <2>1. \A q \in Pids : chan'[q] = IF q = p THEN CvChan(m)
                                     ELSE IF chan[q] = SlpChan(m) THEN NoChan ELSE chan[q]
      BY <1>6 DEF Woken
    <2>2. SleeperLocks'
      BY <1>2, <2>1, SleepersKept
    <2>3. \A q \in Pids, n \in Muxes : chan'[q] = SlpChan(n) => chan[q] = SlpChan(n) /\ n # m
      BY <2>1, ChanFacts
    <2>4. MutualExclusion' /\ NoLostRelease'
      BY <1>6, <2>3, ReleaseFrees
    <2> QED BY <1>3, <2>2, <2>4 DEF XInv
  <1> QED BY <1>4, <1>5, <1>6 DEF CvTurn

\* cv_wait gives the mutex up, cv_signal wakes the sleepers on its own channel.
LEMMA CvLocks ==
  ASSUME XInv, CInv', NEW p \in Pids, Cv(p)
  PROVE  XInv'
  <1>1. ASSUME NEW i \in Muxes, CvWait(p, i) PROVE XInv'
    <2>1. locks[p][i] \in Muxes
      BY <1>1, XFacts DEF CvWait
    <2> QED BY <1>1, <2>1, CvTurnLocks DEF CvWait, User, Runs
  <1>2. ASSUME NEW i \in Muxes, CvSignal(p, i) PROVE XInv'
    <2>1. PICK m \in Muxes : m = locks[p][i]
      BY <1>2, XFacts DEF CvSignal
    <2>2. /\ chan' = Woken(CvChan(m)) /\ UNCHANGED <<locked, owner, locks, pc, tgt, crit>>
          /\ CpuBeside({p}) /\ pc[p] = "user"
      BY <1>2, <2>1 DEF CvSignal, User, Runs
    <2>3. \A q \in Pids : chan'[q] = NoChan \/ chan'[q] = chan[q]
      BY <2>2 DEF Woken
    <2>4. CreatesUnreached' /\ ReleaserOwns'
      BY <2>2, CreatesKept, ReleasersKept
    <2>5. SleeperLocks' /\ MutualExclusion' /\ NoLostRelease'
      BY <2>2, <2>3, SleepersKept, OwnersKept
    <2> QED BY <2>4, <2>5 DEF XInv
  <1>3. CASE CvRetry(p)
    <2>1. tgt[p] \in Muxes
      BY XFacts
    <2> QED BY <1>3, <2>1, CvTurnLocks DEF CvRetry, Runs
  <1>4. CASE CvReturn(p)
    <2>1. /\ chan[p] = NoChan /\ CpuBeside({p}) /\ GoOn(p, "user", 0)
          /\ UNCHANGED <<locks, chan, locked, owner, crit>>
      BY <1>4 DEF CvReturn, Runs, Return, muxVars, procVars
    <2>2. 0 \in Muxes /\ "user" \in Points /\ "user" \notin Creation
      BY TypeFacts, PointFacts DEF Creation
    <2> QED BY <2>1, <2>2, LocksStill
  <1> QED BY <1>1, <1>2, <1>3, <1>4 DEF Cv

\* The child owns nothing, and its handles are its parent's.
LEMMA ForkLocks ==
  ASSUME XInv, CInv', NEW p \in Pids, Fork(p)
  PROVE  XInv'
  <1>0. /\ 0 \in Muxes /\ {"fork", "forkadd", "user"} \subseteq Points
        /\ "fork" \notin Creation /\ "forkadd" \notin Creation /\ "user" \notin Creation
    BY TypeFacts, PointFacts DEF Creation
  <1>1. UNCHANGED <<chan, locked, owner, crit>>
    BY DEF Fork, ForkAlloc, ForkLoad, ForkStore, ForkEnd, ForkFails, muxVars, procVars
  <1>2. chan[p] = NoChan /\ CpuBeside({p})
    BY DEF Fork, ForkAlloc, ForkLoad, ForkStore, ForkEnd, ForkFails, User, Runs
  <1>3. PICK at \in {"fork", "forkadd", "user"}, m \in Muxes : GoOn(p, at, m)
    <2>1. CASE ForkLoad(p)
      BY <2>1 DEF ForkLoad, Unshared
    <2>2. CASE ForkAlloc(p) \/ ForkStore(p)
      BY <1>0, <2>2 DEF ForkAlloc, ForkStore
    <2>3. CASE ForkEnd(p) \/ ForkFails(p)
      BY <1>0, <2>3 DEF ForkEnd, ForkFails, Return
    <2> QED BY <2>1, <2>2, <2>3 DEF Fork
  <1>4. ASSUME NEW q \in Pids, NEW i \in Muxes, locks'[q][i] \in Muxes
        PROVE  \E r \in Pids, j \in Muxes : locks'[q][i] = locks[r][j]
    <2>1. CASE UNCHANGED locks
      BY <2>1
    <2>2. CASE locks' = [locks EXCEPT ![kid[p]][tgt[p]] = locks[p][tgt[p]]]
      BY <2>2, XFacts
    <2>3. CASE locks' = [locks EXCEPT ![kid[p]] = [k \in Muxes |-> NoMux]]
      BY <1>4, <2>3, XFacts, TypeFacts
    <2> QED BY <2>1, <2>2, <2>3 DEF Fork, ForkAlloc, ForkLoad, ForkStore, ForkEnd, ForkFails
  <1> QED BY <1>0, <1>1, <1>2, <1>3, <1>4, LocksStill

\* The release of exit frees a mutex that is still the caller's, and wakes who sleeps for it.
LEMMA ExitReleaseLocks ==
  ASSUME XInv, CInv', NEW p \in Pids, ExitRelease(p)
  PROVE  XInv'
  <1>1. PICK m \in Muxes : m = tgt[p]
    BY XFacts
  <1>2. /\ pc[p] = "exitrel" /\ chan[p] = NoChan /\ CpuBeside({p}) /\ Release(p, m)
        /\ GoOn(p, "exitback", 0) /\ UNCHANGED locks
    BY <1>1 DEF ExitRelease, Runs
  <1>3. /\ pc'[p] = "exitback" /\ \A q \in Pids : q # p => pc'[q] = pc[q] /\ tgt'[q] = tgt[q]
    BY <1>2, MoveFacts, PointFacts, TypeFacts, XFacts
  <1>4. owner[m] = p
    BY <1>1, <1>2, XFacts DEF ReleaserOwns
  <1>5. CreatesUnreached' /\ ReleaserOwns'
    BY <1>2, <1>3, CreatesKept, ReleasersKept DEF Creation
  <1>6. MutualExclusion' /\ NoLostRelease'
    BY <1>2, <1>4, WokenFacts, ReleaseFrees DEF Release
  <1>7. SleeperLocks'
    BY <1>2, <1>3, WokenFacts, SleepersKept DEF Release
  <1> QED BY <1>5, <1>6, <1>7 DEF XInv

\* The other steps of exit touch no lock; the process is inside nothing when it is gone.
LEMMA ExitLocks ==
  ASSUME XInv, CInv', NEW p \in Pids,
         ExitBegin(p) \/ ExitLoad(p) \/ ExitStore(p) \/ ExitOwn(p) \/ ExitRelock(p) \/ ExitZombie(p)
  PROVE  XInv'
  <1>0. /\ 0 \in Muxes /\ tgt[p] \in Muxes
        /\ {"exit", "exitsub", "exitown", "exitrel", "user"} \subseteq Points
        /\ \A at \in {"exit", "exitsub", "exitown", "exitrel", "user"} : at \notin Creation
    BY TypeFacts, PointFacts, XFacts DEF Creation
  <1>1. chan[p] = NoChan /\ CpuBeside({p}) /\ UNCHANGED <<chan, locked, owner>>
    BY DEF ExitBegin, ExitLoad, ExitStore, ExitOwn, ExitRelock, ExitZombie, Runs, muxVars, procVars
  <1>2. UNCHANGED crit \/ crit' = [crit EXCEPT ![p] = {}]
    BY DEF ExitBegin, ExitLoad, ExitStore, ExitOwn, ExitRelock, ExitZombie
  <1>3. \A q \in Pids : crit'[q] \subseteq crit[q]
    BY <1>2, XFacts
  <1>4. UNCHANGED locks \/ locks' = [locks EXCEPT ![p][tgt[p]] = NoMux]
    BY DEF ExitBegin, ExitLoad, ExitStore, ExitOwn, ExitRelock, ExitZombie
  <1>5. \A q \in Pids, j \in Muxes : locks'[q][j] = NoMux \/ locks'[q][j] = locks[q][j]
    BY <1>4, XFacts
  <1>6. \A q \in Pids, i \in Muxes : locks'[q][i] \in Muxes =>
           \E r \in Pids, j \in Muxes : locks'[q][i] = locks[r][j]
    BY <1>5, TypeFacts
  <1>7. PICK at \in {"exit", "exitsub", "exitown", "exitrel", "user"}, m \in Muxes :
          GoOn(p, at, m) /\ (at = "exitrel" => owner[m] = p)
    <2>1. CASE ExitStore(p)
      <3>1. pc[p] = "exitsub" /\ GoOn(p, "exitown", locks[p][tgt[p]])
        BY <2>1 DEF ExitStore, Runs
      <3>2. locks[p][tgt[p]] \in Muxes
        BY <3>1, XFacts DEF IInv, IndexOK
      <3> QED BY <3>1, <3>2
    <2>2. CASE ExitOwn(p)
      BY <1>0, <2>2 DEF ExitOwn
    <2>3. CASE ExitLoad(p)
      BY <2>3 DEF ExitLoad
    <2>4. CASE ExitBegin(p) \/ ExitRelock(p) \/ ExitZombie(p)
      BY <1>0, <2>4 DEF ExitBegin, ExitRelock, ExitZombie, Return
    <2> QED BY <2>1, <2>2, <2>3, <2>4
  <1>8. at \in Points /\ at \notin Creation
    BY <1>0
  <1> QED BY <1>1, <1>3, <1>6, <1>7, <1>8, LocksStill

\* Every step keeps mutual exclusion and leaves no sleeper on a free lock.
LEMMA NextXInv == XInv /\ [Next]_vars => XInv'
  <1> SUFFICES ASSUME XInv, [Next]_vars PROVE XInv'
    OBVIOUS
  <1>1. CInv'
    BY NextCInv, XFacts
  <1>2. CASE UNCHANGED vars
    <2>1. UNCHANGED <<locks, chan, locked, owner, crit, pc, tgt>>
      BY <1>2 DEF vars, muxVars, procVars
    <2>2. /\ CreatesUnreached' /\ SleeperLocks' /\ MutualExclusion' /\ NoLostRelease'
          /\ ReleaserOwns'
      BY <2>1, CreatesKept, SleepersKept, OwnersKept, XFacts DEF ReleaserOwns
    <2> QED BY <1>1, <2>2 DEF XInv
  <1>3. CASE Next
    <2>1. PICK p \in Pids :
            \/ Create(p) \/ (\E n \in Names : Get(p, n)) \/ Delete(p) \/ Locks(p) \/ Cv(p)
            \/ Fork(p) \/ Exit(p) \/ Kill(p)
      BY <1>3 DEF Next
    <2>2. ~ \E n \in Names : Get(p, n)
      BY XFacts DEF Get, CInv
    <2>3. CASE Create(p)
      BY <1>1, <2>3, CreateFindLocks, CreateCountLocks, CreateFinishLocks DEF Create
    <2>4. CASE Delete(p)
      BY <1>1, <2>4, DeleteUnlockLocks, DeleteCountLocks DEF Delete
    <2>5. CASE Locks(p) \/ Cv(p)
      BY <1>1, <2>5, LocksLocks, CvLocks
    <2>6. CASE Fork(p) \/ Exit(p)
      BY <1>1, <2>6, ForkLocks, ExitLocks, ExitReleaseLocks DEF Exit
    <2>7. CASE Kill(p)
      <3>1. UNCHANGED <<locks, locked, owner, crit, pc, tgt>> /\ chan' = [chan EXCEPT ![p] = NoChan]
        BY <2>7 DEF Kill, muxVars
      <3>2. \A q \in Pids : chan'[q] = NoChan \/ chan'[q] = chan[q]
        BY <3>1, XFacts
      <3>3. /\ CreatesUnreached' /\ SleeperLocks' /\ MutualExclusion' /\ NoLostRelease'
            /\ ReleaserOwns'
        BY <3>1, <3>2, CreatesKept, SleepersKept, OwnersKept, XFacts DEF ReleaserOwns
      <3> QED BY <1>1, <3>3 DEF XInv
    <2> QED BY <2>1, <2>2, <2>3, <2>4, <2>5, <2>6, <2>7
  <1> QED BY <1>2, <1>3

\* mutex_lock, mutex_unlock, cv_wait and exit: a process that was given a mutex and has not
\* given it back is its owner, for any number of processes and mutexes, when one CPU runs
\* them, one process creates the mutexes and nobody calls mutex_get (proc.c).  With a second
\* creator or mutex_get a slot can be initialised again while somebody is inside, and with a
\* second CPU exit's late releasesleep can free a slot that has become another's.
THEOREM OneInside ==
  NCPU = 1 /\ "get" \notin Workload /\ SingleCreator => (Spec => []MutualExclusion)
  <1>1. XInv => MutualExclusion
    BY DEF XInv
  <1> QED BY <1>1, InitXInv, NextXInv, PTL DEF Spec

\* acquiresleep and releasesleep: nobody sleeps for a mutex that is free, under the same
\* three conditions (sleeplock.c).
THEOREM NoSleepOnFree ==
  NCPU = 1 /\ "get" \notin Workload /\ SingleCreator => (Spec => []NoLostRelease)
  <1>1. XInv => NoLostRelease
    BY DEF XInv
  <1> QED BY <1>1, InitXInv, NextXInv, PTL DEF Spec

=============================================================================
