-------------------------------- MODULE Disk --------------------------------
(***************************************************************************)
(* The buffer cache of bio.c above the drivers ide.c and memide.c.         *)
(*                                                                         *)
(* A step is a critical section of bcache.lock or idelock, or the taking   *)
(* or giving of a buffer's sleep-lock.  ideintr comes when the drive has   *)
(* finished what idestart told it; the drive's errors, after which ideintr *)
(* marks a buffer valid that was not read, are left out.                   *)
(***************************************************************************)
EXTENDS Integers, Sequences, SequencesExt, FiniteSets, FiniteSetsExt

CONSTANTS Procs, Blocks, Values, NBUF, Drivers

ASSUME DiskAssumption ==
  /\ NBUF \in Nat \ {0} /\ IsFiniteSet(Procs) /\ Values # {}
  /\ 0 \notin Procs /\ 0 \notin Blocks /\ Drivers \subseteq {"ide", "memide"}

VARIABLES driver,   \* ide.c, or memide.c for the kernel with a disk in memory
          buf,      \* bcache.buf
          mru,      \* the list of buffers, the most recently used one first
          queue,    \* idequeue
          drive,    \* what idestart has told the drive to do
          disk,
          at,       \* where a process is, and its buffer
          panic

vars == <<driver, buf, mru, queue, drive, disk, at, panic>>

Bufs    == 1..NBUF
Idling  == [wr |-> FALSE, blk |-> 0, data |-> CHOOSE v \in Values : TRUE]
NoBuf   == [blk |-> 0, valid |-> FALSE, dirty |-> FALSE, ref |-> 0, lock |-> 0, data |-> Idling.data]

\* binit puts every buffer in front of the ones before it.
Init ==
  /\ driver \in Drivers
  /\ buf = [b \in Bufs |-> NoBuf]
  /\ mru = [k \in Bufs |-> NBUF - k + 1]
  /\ queue = <<>> /\ drive = Idling
  /\ disk = [n \in Blocks |-> Idling.data]
  /\ at = [p \in Procs |-> [pc |-> "user", b |-> 0]]
  /\ panic = FALSE

Is(p, pc)   == ~panic /\ at[p].pc = pc
Go(p, pc)   == at' = [at EXCEPT ![p].pc = pc]
Cached(n)   == {b \in Bufs : buf[b].blk = n}
devices     == <<queue, drive, disk>>
-----------------------------------------------------------------------------
(* bio.c *)

\* A buffer in use or with changes that the log has not written is not recycled.
UnusedOrDirty(b) == buf[b].ref = 0
Unused(b) == buf[b].ref = 0 /\ ~buf[b].dirty

BgetHitUncounted(p, n) ==
  /\ Is(p, "user") /\ Cached(n) # {}
  /\ at' = [at EXCEPT ![p] = [pc |-> "lock", b |-> CHOOSE c \in Cached(n) : TRUE]]
  /\ UNCHANGED <<driver, buf, mru, devices, panic>>

\* bget under bcache.lock: the cached buffer, or the least recently used free one.
BgetHit(p, n) ==
  /\ Is(p, "user") /\ Cached(n) # {}
  /\ LET b == CHOOSE c \in Cached(n) : TRUE
     IN /\ buf' = [buf EXCEPT ![b].ref = @ + 1]
        /\ at' = [at EXCEPT ![p] = [pc |-> "lock", b |-> b]]
  /\ UNCHANGED <<driver, mru, devices, panic>>

BgetRecycle(p, n) ==
  LET free == {k \in DOMAIN mru : Unused(mru[k])}
      b    == mru[Max(free)]
  IN /\ Is(p, "user") /\ Cached(n) = {} /\ free # {}
     /\ buf' = [buf EXCEPT ![b] = [@ EXCEPT !.blk = n, !.valid = FALSE, !.dirty = FALSE, !.ref = 1]]
     /\ at' = [at EXCEPT ![p] = [pc |-> "lock", b |-> b]]
     /\ UNCHANGED <<driver, mru, devices, panic>>

BgetPanics(p, n) ==
  /\ Is(p, "user") /\ Cached(n) = {} /\ \A b \in Bufs : ~Unused(b)
  /\ panic' = TRUE
  /\ UNCHANGED <<driver, buf, mru, devices, at>>

\* acquiresleep, and bread's look at B_VALID.
Lock(p) ==
  LET b == at[p].b
  IN /\ Is(p, "lock") /\ buf[b].lock = 0
     /\ buf' = [buf EXCEPT ![b].lock = p]
     /\ Go(p, IF buf[b].valid THEN "have" ELSE "rw")
     /\ UNCHANGED <<driver, mru, devices, panic>>

\* The holder changes the data and calls bwrite, or log_write, which only pins it.
Bwrite(p, v) ==
  /\ Is(p, "have")
  /\ buf' = [buf EXCEPT ![at[p].b] = [@ EXCEPT !.data = v, !.dirty = TRUE]]
  /\ Go(p, "rw")
  /\ UNCHANGED <<driver, mru, devices, panic>>
LogWrite(p, v) ==
  /\ Is(p, "have")
  /\ buf' = [buf EXCEPT ![at[p].b] = [@ EXCEPT !.data = v, !.dirty = TRUE]]
  /\ Go(p, "logged")
  /\ UNCHANGED <<driver, mru, devices, panic>>

\* brelse: first the sleep-lock, then the count and the list.
Brelse(p) ==
  /\ Is(p, "have") \/ Is(p, "logged")
  /\ buf' = [buf EXCEPT ![at[p].b].lock = 0]
  /\ Go(p, "release")
  /\ UNCHANGED <<driver, mru, devices, panic>>
BrelseCount(p) ==
  LET b == at[p].b
  IN /\ Is(p, "release")
     /\ buf' = [buf EXCEPT ![b].ref = @ - 1]
     /\ mru' = IF buf[b].ref = 1
                 THEN <<b>> \o RemoveAt(mru, CHOOSE k \in DOMAIN mru : mru[k] = b) ELSE mru
     /\ at' = [at EXCEPT ![p] = [pc |-> "user", b |-> 0]]
     /\ UNCHANGED <<driver, devices, panic>>
-----------------------------------------------------------------------------
(* ide.c and memide.c *)

\* idestart: sector and command, and the data of a write.
Idestart(b) == [wr |-> buf[b].dirty, blk |-> buf[b].blk, data |-> buf[b].data]
Synced(b, data) == [buf EXCEPT ![b] = [@ EXCEPT !.valid = TRUE, !.dirty = FALSE, !.data = data]]

\* iderw appends the request, starts an idle drive and sleeps, all under idelock.
Iderw(p) ==
  LET b == at[p].b
  IN /\ Is(p, "rw") /\ driver = "ide"
     /\ queue' = Append(queue, b)
     /\ drive' = IF queue = <<>> THEN Idestart(b) ELSE drive
     /\ Go(p, "asleep")
     /\ UNCHANGED <<driver, buf, mru, disk, panic>>

IdeintrStops ==
  LET b == Head(queue)
  IN /\ ~panic /\ drive.blk # 0
     /\ queue' = Tail(queue)
     /\ disk' = IF drive.wr THEN [disk EXCEPT ![drive.blk] = drive.data] ELSE disk
     /\ buf' = Synced(b, IF buf[b].dirty THEN buf[b].data ELSE disk[drive.blk])
     /\ at' = [p \in Procs |-> IF at[p].pc = "asleep" /\ at[p].b = b THEN [at[p] EXCEPT !.pc = "awake"] ELSE at[p]]
     /\ drive' = Idling
     /\ UNCHANGED <<driver, mru, panic>>

\* The head of the queue is done: its owner is woken and the next request started.
Ideintr ==
  LET b == Head(queue)
  IN /\ ~panic /\ drive.blk # 0
     /\ queue' = Tail(queue)
     /\ disk' = IF drive.wr THEN [disk EXCEPT ![drive.blk] = drive.data] ELSE disk
     /\ buf' = Synced(b, IF buf[b].dirty THEN buf[b].data ELSE disk[drive.blk])
     /\ at' = [p \in Procs |-> IF at[p].pc = "asleep" /\ at[p].b = b THEN [at[p] EXCEPT !.pc = "awake"] ELSE at[p]]
     /\ drive' = IF Tail(queue) # <<>> THEN Idestart(queue[2]) ELSE Idling
     /\ UNCHANGED <<driver, mru, panic>>

\* The test of iderw's loop, after the wake-up.
IderwDone(p) ==
  /\ Is(p, "awake") /\ buf[at[p].b].valid /\ ~buf[at[p].b].dirty
  /\ Go(p, "have")
  /\ UNCHANGED <<driver, buf, mru, devices, panic>>

IderwMem(p) ==
  LET b == at[p].b
      n == buf[b].blk
  IN /\ Is(p, "rw") /\ driver = "memide"
     /\ disk' = IF buf[b].dirty THEN [disk EXCEPT ![n] = buf[b].data] ELSE disk
     /\ buf' = Synced(b, IF buf[b].dirty THEN buf[b].data ELSE disk[n])
     /\ Go(p, "have")
     /\ UNCHANGED <<driver, mru, queue, drive, panic>>
-----------------------------------------------------------------------------
Works(p) ==
  Lock(p) \/ Brelse(p) \/ BrelseCount(p) \/ Iderw(p) \/ IderwDone(p) \/ IderwMem(p)
Chooses(p) ==
  \/ \E n \in Blocks : BgetHit(p, n) \/ BgetRecycle(p, n) \/ BgetPanics(p, n)
  \/ \E v \in Values : Bwrite(p, v) \/ LogWrite(p, v)

Next == Ideintr \/ \E p \in Procs : Works(p) \/ Chooses(p)
Spec == Init /\ [][Next]_vars
\* The drive interrupts when it is done, and a process with a step to take is scheduled.
FairSpec == Spec /\ WF_vars(Ideintr) /\ \A p \in Procs : WF_vars(Iderw(p) \/ IderwDone(p) \/ IderwMem(p))
-----------------------------------------------------------------------------
\* The current content of a block: the valid buffer's, or the disk's.
Current == [n \in Blocks |-> IF \E b \in Cached(n) : buf[b].valid
                             THEN buf[CHOOSE b \in Cached(n) : buf[b].valid].data ELSE disk[n]]
Holder  == [n \in Blocks |-> IF \E b \in Cached(n) : buf[b].lock # 0
                             THEN buf[CHOOSE b \in Cached(n) : buf[b].lock # 0].lock ELSE 0]

Store == INSTANCE BlockStore WITH current <- Current, holder <- Holder, Nobody <- 0

\* Whatever is recycled, pinned, queued and written when, the users of the cache see a
\* BlockStore: bget never gives two buffers for one block nor drops a change, and
\* ideintr completes the right buffer.
ImplementsStore == Store!Spec

\* A process that has a buffer, or waits for its lock, has it counted, and the buffer is
\* still the one of its block: bget's second loop cannot take it away (brelse lets the
\* lock go before the count).
Users(b)   == {p \in Procs : at[p].b = b}
CountExact == \A b \in Bufs : buf[b].ref = Cardinality(Users(b))

\* Every read and write comes back, in whatever order the requests are queued and the
\* interrupts come (iderw, ideintr); unless bget has panicked.
RequestServed == \A p \in Procs : at[p].pc = "rw" ~> (at[p].pc = "have" \/ panic)
=============================================================================
