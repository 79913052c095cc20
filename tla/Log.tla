--------------------------------- MODULE Log ---------------------------------
(***************************************************************************)
(* The redo log of log.c over the disk blocks and the buffer cache of      *)
(* bio.c: begin_op, log_write, end_op with commit(), and recovery after a  *)
(* crash at any point, in the middle of a recovery included.               *)
(*                                                                         *)
(* A step is one section under log.lock or one write of a block to disk.   *)
(* A block is one sector (BSIZE is 512), which the disk writes whole or    *)
(* not at all.  Of the buffer cache the model keeps what the log depends   *)
(* on: a buffer may be recycled at any time unless log_write has marked it *)
(* B_DIRTY.  Commit runs with no operation in progress and recovery before *)
(* the first one, so a position in the log is kept once, in tail.          *)
(***************************************************************************)
EXTENDS Integers, Sequences, FiniteSets

CONSTANTS Procs,        \* processes that make file system calls
          Blocks,       \* home blocks
          Values,       \* contents of a block
          MAXOPBLOCKS,  \* param.h: blocks an operation reserves
          LOGSIZE,      \* param.h: blocks in the log
          nlog,         \* superblock (mkfs.c): size of the log on disk
          MaxWrites,    \* bound on the blocks an operation writes
          Crashes       \* whether the machine may crash

ASSUME LogAssumption ==
  /\ IsFiniteSet(Procs)
  /\ MAXOPBLOCKS \in Nat \ {0} /\ LOGSIZE \in Nat \ {0} /\ nlog \in Nat \ {0}
  /\ MAXOPBLOCKS <= LOGSIZE
  /\ MaxWrites \in Nat
  /\ Crashes \in BOOLEAN
  /\ Blocks \subseteq Nat
  /\ Values \subseteq Nat /\ Values # {}

NoData  == -1   \* no buffer holds the block
NoBlock == -1

VARIABLES
  home, logged, head,   \* on disk: home blocks, log blocks, block numbers in the header
  cache, dirty,         \* the buffer of a home block, and its flag B_DIRTY
  lh,                   \* log.lh in memory
  outstanding, committing,
  tail,                 \* the local tail of write_log and install_trans
  boot,                 \* how far initlog is
  pc, locked, wrote,    \* where an operation is, the buffer it has changed and still
                        \* holds, and the blocks it has written
  panicked

diskVars == <<home, logged, head>>
bufVars  == <<cache, dirty>>
vars     == <<diskVars, bufVars, lh, outstanding, committing, tail, boot, pc, locked, wrote, panicked>>

Points == {"idle", "begin", "asleep", "op", "log_write", "write_log", "write_head", "install", "clear", "done"}

TypeOK ==
  /\ home \in [Blocks -> Values]
  /\ logged \in [1..LOGSIZE -> Values]
  /\ head \in Seq(Blocks)
  /\ cache \in [Blocks -> Values \cup {NoData}]
  /\ dirty \in [Blocks -> BOOLEAN]
  /\ lh \in Seq(Blocks)
  /\ outstanding \in Nat
  /\ committing \in BOOLEAN
  /\ tail \in 0..LOGSIZE
  /\ boot \in {"read_head", "install", "clear", "up"}
  /\ pc \in [Procs -> Points]
  /\ locked \in [Procs -> Blocks \cup {NoBlock}]
  /\ wrote \in [Procs -> SUBSET Blocks]
  /\ panicked \in BOOLEAN

\* The first boot of a fresh disk: mkfs leaves an empty log.
Init ==
  /\ \E v \in Values : home = [b \in Blocks |-> v] /\ logged = [i \in 1..LOGSIZE |-> v]
  /\ head = <<>>
  /\ cache = [b \in Blocks |-> NoData]
  /\ dirty = [b \in Blocks |-> FALSE]
  /\ lh = <<>>
  /\ outstanding = 0 /\ committing = FALSE
  /\ tail = 0
  /\ boot = "read_head"
  /\ pc = [p \in Procs |-> "idle"]
  /\ locked = [p \in Procs |-> NoBlock]
  /\ wrote = [p \in Procs |-> {}]
  /\ panicked = FALSE

-----------------------------------------------------------------------------
Up         == boot = "up" /\ ~panicked
At(p, at)  == Up /\ pc[p] = at
Go(p, at)  == pc' = [pc EXCEPT ![p] = at]

\* p goes to at, and wakeup(&log).
GoWaking(p, at) ==
  pc' = [q \in Procs |-> IF q = p THEN at ELSE IF pc[q] = "asleep" THEN "begin" ELSE pc[q]]

\* No process holds the buffer of b (refcnt and the buffer's sleep-lock).
Free(b) == \A q \in Procs : locked[q] # b

\* What bread(b) returns.
Read(b) == IF cache[b] # NoData THEN cache[b] ELSE home[b]

-----------------------------------------------------------------------------
(* bio.c *)

\* bread of a block that has no buffer.
Fill(b) ==
  /\ Up /\ cache[b] = NoData
  /\ cache' = [cache EXCEPT ![b] = home[b]]
  /\ UNCHANGED <<diskVars, dirty, lh, outstanding, committing, tail, boot, pc, locked, wrote, panicked>>

\* bget recycles the buffer of b for another block.
Evict(b) ==
  /\ Up /\ cache[b] # NoData /\ ~dirty[b] /\ Free(b)
  /\ cache' = [cache EXCEPT ![b] = NoData]
  /\ UNCHANGED <<diskVars, dirty, lh, outstanding, committing, tail, boot, pc, locked, wrote, panicked>>

-----------------------------------------------------------------------------
(* begin_op *)

Fits == Len(lh) + (outstanding + 1) * MAXOPBLOCKS <= LOGSIZE

\* Does not count the operation.
BeginOpUncounted(p) ==
  /\ At(p, "idle") \/ At(p, "begin")
  /\ ~committing /\ Fits
  /\ Go(p, "op")
  /\ UNCHANGED <<diskVars, bufVars, lh, outstanding, committing, tail, boot, locked, wrote, panicked>>

BeginOp(p) ==
  /\ At(p, "idle") \/ At(p, "begin")
  /\ ~committing /\ Fits
  /\ outstanding' = outstanding + 1
  /\ Go(p, "op")
  /\ UNCHANGED <<diskVars, bufVars, lh, committing, tail, boot, locked, wrote, panicked>>

BeginSleeps(p) ==
  /\ At(p, "idle") \/ At(p, "begin")
  /\ committing \/ ~Fits
  /\ Go(p, "asleep")
  /\ UNCHANGED <<diskVars, bufVars, lh, outstanding, committing, tail, boot, locked, wrote, panicked>>

\* kill() makes the sleeper runnable; begin_op looks at the log again.
KillWakes(p) ==
  /\ At(p, "asleep")
  /\ Go(p, "begin")
  /\ UNCHANGED <<diskVars, bufVars, lh, outstanding, committing, tail, boot, locked, wrote, panicked>>

-----------------------------------------------------------------------------
(* A block written by an operation: bread, a change of the data, log_write *)

Full == Len(lh) >= LOGSIZE \/ Len(lh) >= nlog - 1

MayWrite(p, b) ==
  At(p, "op") /\ cache[b] # NoData /\ Free(b) /\ Cardinality(wrote[p] \cup {b}) <= MaxWrites

\* The caller changes a buffer it holds and calls log_write, which looks at log.lh.n
\* before it takes log.lock.
Modify(p, b, v) ==
  /\ MayWrite(p, b) /\ ~Full
  /\ cache' = [cache EXCEPT ![b] = v]
  /\ locked' = [locked EXCEPT ![p] = b]
  /\ wrote' = [wrote EXCEPT ![p] = @ \cup {b}]
  /\ Go(p, "log_write")
  /\ UNCHANGED <<diskVars, dirty, lh, outstanding, committing, tail, boot, panicked>>

\* "too big a transaction", also when the block is in the log already.
LogPanics(p, b) ==
  /\ MayWrite(p, b) /\ Full
  /\ panicked' = TRUE
  /\ UNCHANGED <<diskVars, bufVars, lh, outstanding, committing, tail, boot, pc, locked, wrote>>

\* The block list with b, once.
WithBlock(b) == IF \E i \in 1..Len(lh) : lh[i] = b THEN lh ELSE Append(lh, b)

\* Records the block but does not pin its buffer.
LogWriteUnpinned(p) ==
  /\ At(p, "log_write")
  /\ lh' = WithBlock(locked[p])
  /\ locked' = [locked EXCEPT ![p] = NoBlock]
  /\ Go(p, "op")
  /\ UNCHANGED <<diskVars, bufVars, outstanding, committing, tail, boot, wrote, panicked>>

\* log_write under log.lock, and the caller's brelse.
LogWrite(p) ==
  /\ At(p, "log_write")
  /\ lh' = WithBlock(locked[p])
  /\ dirty' = [dirty EXCEPT ![locked[p]] = TRUE]
  /\ locked' = [locked EXCEPT ![p] = NoBlock]
  /\ Go(p, "op")
  /\ UNCHANGED <<diskVars, cache, outstanding, committing, tail, boot, wrote, panicked>>

-----------------------------------------------------------------------------
(* end_op and commit; the last operation to end commits for all *)

EndOp(p) ==
  /\ At(p, "op")
  /\ outstanding' = outstanding - 1
  /\ IF outstanding = 1
       THEN /\ committing' = TRUE
            /\ tail' = 0
            /\ Go(p, IF lh = <<>> THEN "done" ELSE "write_log")
       ELSE GoWaking(p, "idle") /\ UNCHANGED <<committing, tail>>
  /\ wrote' = [wrote EXCEPT ![p] = {}]
  /\ UNCHANGED <<diskVars, bufVars, lh, boot, locked, panicked>>

\* write_log: one block.
WriteLog(p) ==
  /\ At(p, "write_log")
  /\ logged' = [logged EXCEPT ![tail + 1] = Read(lh[tail + 1])]
  /\ IF tail + 1 < Len(lh)
       THEN tail' = tail + 1 /\ UNCHANGED pc
       ELSE tail' = 0 /\ Go(p, "write_head")
  /\ UNCHANGED <<home, head, bufVars, lh, outstanding, committing, boot, locked, wrote, panicked>>

\* write_head: the point of commit.
WriteHead(p) ==
  /\ At(p, "write_head")
  /\ head' = lh
  /\ Go(p, "install")
  /\ UNCHANGED <<home, logged, bufVars, lh, outstanding, committing, tail, boot, locked, wrote, panicked>>

\* install_trans, one block: the destination's buffer gets the log block, and bwrite
\* writes it and clears B_DIRTY.
InstallBlock(b) ==
  /\ home' = [home EXCEPT ![b] = logged[tail + 1]]
  /\ cache' = [cache EXCEPT ![b] = logged[tail + 1]]
  /\ dirty' = [dirty EXCEPT ![b] = FALSE]
  /\ tail' = IF tail + 1 < Len(lh) THEN tail + 1 ELSE 0

\* Stops one block short.
InstallShort(p) ==
  /\ At(p, "install")
  /\ IF tail + 1 < Len(lh)
       THEN InstallBlock(lh[tail + 1]) /\ UNCHANGED pc
       ELSE tail' = 0 /\ Go(p, "clear") /\ UNCHANGED <<home, bufVars>>
  /\ UNCHANGED <<logged, head, lh, outstanding, committing, boot, locked, wrote, panicked>>

Install(p) ==
  /\ At(p, "install")
  /\ InstallBlock(lh[tail + 1])
  /\ IF tail + 1 < Len(lh) THEN UNCHANGED pc ELSE Go(p, "clear")
  /\ UNCHANGED <<logged, head, lh, outstanding, committing, boot, locked, wrote, panicked>>

ClearHead(p) ==
  /\ At(p, "clear")
  /\ lh' = <<>> /\ head' = <<>>
  /\ Go(p, "done")
  /\ UNCHANGED <<home, logged, bufVars, outstanding, committing, tail, boot, locked, wrote, panicked>>

\* Ends the commit and wakes nobody.
CommitDoneQuietly(p) ==
  /\ At(p, "done")
  /\ committing' = FALSE
  /\ Go(p, "idle")
  /\ UNCHANGED <<diskVars, bufVars, lh, outstanding, tail, boot, locked, wrote, panicked>>

CommitDone(p) ==
  /\ At(p, "done")
  /\ committing' = FALSE
  /\ GoWaking(p, "idle")
  /\ UNCHANGED <<diskVars, bufVars, lh, outstanding, tail, boot, locked, wrote, panicked>>

-----------------------------------------------------------------------------
(* A crash, or the reset after a panic, and initlog: recover_from_log *)

Crash ==
  /\ Crashes
  /\ cache' = [b \in Blocks |-> NoData]
  /\ dirty' = [b \in Blocks |-> FALSE]
  /\ lh' = <<>>
  /\ outstanding' = 0 /\ committing' = FALSE
  /\ tail' = 0
  /\ boot' = "read_head"
  /\ pc' = [p \in Procs |-> "idle"]
  /\ locked' = [p \in Procs |-> NoBlock]
  /\ wrote' = [p \in Procs |-> {}]
  /\ panicked' = FALSE
  /\ UNCHANGED diskVars

ReadHead ==
  /\ boot = "read_head"
  /\ lh' = head
  /\ boot' = IF head = <<>> THEN "clear" ELSE "install"
  /\ UNCHANGED <<diskVars, bufVars, outstanding, committing, tail, pc, locked, wrote, panicked>>

RecoverBlock ==
  /\ boot = "install"
  /\ InstallBlock(lh[tail + 1])
  /\ boot' = IF tail + 1 < Len(lh) THEN boot ELSE "clear"
  /\ UNCHANGED <<logged, head, lh, outstanding, committing, pc, locked, wrote, panicked>>

ClearLog ==
  /\ boot = "clear"
  /\ lh' = <<>> /\ head' = <<>>
  /\ boot' = "up"
  /\ UNCHANGED <<home, logged, bufVars, outstanding, committing, tail, pc, locked, wrote, panicked>>

-----------------------------------------------------------------------------
Begin(p)  == BeginOp(p) \/ BeginSleeps(p) \/ KillWakes(p)
Writes(p) ==
  \/ LogWrite(p)
  \/ \E b \in Blocks : LogPanics(p, b) \/ \E v \in Values : Modify(p, b, v)
Commit(p) == WriteLog(p) \/ WriteHead(p) \/ Install(p) \/ ClearHead(p) \/ CommitDone(p)
Recover   == ReadHead \/ RecoverBlock \/ ClearLog

Next ==
  \/ \E p \in Procs : Begin(p) \/ Writes(p) \/ EndOp(p) \/ Commit(p)
  \/ \E b \in Blocks : Fill(b) \/ Evict(b)
  \/ Crash \/ Recover

Spec == Init /\ [][Next]_vars

\* A running kernel makes progress: recovery and commits go on, a log_write gets log.lock,
\* and an operation, which writes finitely many blocks, ends.
FairSpec ==
  /\ Spec
  /\ WF_vars(Recover)
  /\ \A p \in Procs : WF_vars(LogWrite(p)) /\ WF_vars(Commit(p)) /\ SF_vars(EndOp(p))

-----------------------------------------------------------------------------
(* Properties *)

\* What recover_from_log would make of the disk as it is.
Recovered ==
  [b \in Blocks |->
     IF \E i \in 1..Len(head) : head[i] = b
       THEN logged[CHOOSE i \in 1..Len(head) : head[i] = b] ELSE home[b]]

\* What an operation reads; before initlog has ended, what it will find.
Current == IF boot = "up" THEN [b \in Blocks |-> Read(b)] ELSE Recovered

Disk == INSTANCE AtomicDisk WITH store <- Recovered, cur <- Current, open <- outstanding

\* log.c: the log, the cache and recovery together behave as one disk that changes
\* atomically between operations, whenever the machine crashes.
ImplementsAtomicDisk == Disk!Spec

\* end_op: when the last operation has returned, all that was written is on disk and in
\* its home block.
IdleDurable ==
  Up /\ outstanding = 0 /\ ~committing => \A b \in Blocks : home[b] = Read(b) /\ Recovered[b] = Read(b)

\* begin_op/end_op: who sleeps in begin_op is going to be woken, by a commit or by the
\* end of another operation.
SleeperHasWaker ==
  \A p \in Procs : pc[p] = "asleep" => committing \/ outstanding > 0

\* begin_op: nobody sleeps for ever, unless the kernel panics.
SleeperWoken == \A p \in Procs : pc[p] = "asleep" ~> pc[p] # "asleep" \/ panicked

\* filewrite writes "a few blocks at a time to avoid exceeding the maximum log transaction
\* size", and log_write panics rather than write past the array log.lh.block.
LogFits == Len(lh) <= LOGSIZE

=============================================================================
