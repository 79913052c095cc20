----------------------------- MODULE LogProofs -----------------------------
(***************************************************************************)
(* The log of log.c makes the disk atomic, for every number of processes   *)
(* and blocks, as long as the blocks of the operations fit in log.lh; and  *)
(* they fit when no operation writes more blocks than begin_op reserves.   *)
(***************************************************************************)
EXTENDS Log, FiniteSetTheorems, SequenceTheorems, TLAPS

-----------------------------------------------------------------------------
(* Who runs and who commits *)

Committing == {"write_log", "write_head", "install", "clear", "done"}
Open       == {p \in Procs : pc[p] \in {"op", "log_write"}}

ControlOK ==
  /\ lh \in Seq(Blocks) /\ head \in Seq(Blocks)
  /\ outstanding \in Nat /\ committing \in BOOLEAN /\ panicked \in BOOLEAN
  /\ boot \in {"read_head", "install", "clear", "up"}
  /\ pc \in [Procs -> Points]
  /\ locked \in [Procs -> Blocks \cup {NoBlock}]

\* log.outstanding counts the operations between begin_op and end_op.
OpenCounted == outstanding = Cardinality(Open)

\* One process commits, while no operation is in progress.
OneCommitter ==
  /\ committing <=> \E p \in Procs : pc[p] \in Committing
  /\ \A p, q \in Procs : pc[p] \in Committing /\ pc[q] \in Committing => p = q
  /\ committing => outstanding = 0

\* Nobody runs before initlog has ended.
BootAlone == boot # "up" => ~committing /\ \A p \in Procs : pc[p] = "idle"

\* A process has a changed buffer on its way through log_write only.
HeldInLogWrite == \A p \in Procs : locked[p] # NoBlock <=> pc[p] = "log_write"

\* The last operation takes the blocks it found in the log with it.
IdleEmpty ==
  /\ boot = "up" /\ outstanding = 0 /\ ~committing => lh = <<>>
  /\ \A p \in Procs : pc[p] = "done" => lh = <<>>

\* The inductive invariant of the processes; it needs nothing of the blocks' contents.
ControlInv ==
  /\ ControlOK /\ OpenCounted /\ OneCommitter /\ BootAlone /\ HeldInLogWrite /\ IdleEmpty
  /\ SleeperHasWaker

-----------------------------------------------------------------------------
(* What is in the log, in the cache and on disk *)

DataOK ==
  /\ home \in [Blocks -> Values]
  /\ logged \in [1..LOGSIZE -> Values]
  /\ cache \in [Blocks -> Values \cup {NoData}]
  /\ dirty \in [Blocks -> BOOLEAN]
  /\ tail \in 0..LOGSIZE
  /\ wrote \in [Procs -> SUBSET Blocks]

Once(s) == \A i, j \in 1..Len(s) : s[i] = s[j] => i = j

\* log_write absorbs: no block is in the list twice.
ListsOnce == Once(lh) /\ Once(head) /\ Len(head) <= LOGSIZE

\* A buffer that is held or dirty is not recycled, and every dirty one is in the log.
Kept ==
  /\ \A p \in Procs : locked[p] # NoBlock => cache[locked[p]] # NoData
  /\ \A b \in Blocks : dirty[b] => cache[b] # NoData /\ \E i \in 1..Len(lh) : lh[i] = b

\* Any other buffer is a copy of its home block.
CleanSame == \A b \in Blocks : ~dirty[b] /\ cache[b] # NoData /\ Free(b) => cache[b] = home[b]

\* Until the header is written it is empty on disk and the log's blocks are dirty.
Installing == {p \in Procs : pc[p] \in {"install", "clear"}}
Uncommitted ==
  boot = "up" /\ Installing = {} => head = <<>> /\ \A i \in 1..Len(lh) : dirty[lh[i]]

\* The first n blocks of the log are copies of what an operation reads, or are at home.
Copied(n)    == \A i \in 1..n : logged[i] = Read(lh[i])
Installed(n) == \A i \in 1..n : home[lh[i]] = logged[i]
Clean(n)     == \A i \in 1..n : ~dirty[lh[i]]

CommitPhase(p) ==
  /\ pc[p] = "write_log"  => tail < Len(lh) /\ Copied(tail)
  /\ pc[p] = "write_head" => tail = 0 /\ lh # <<>> /\ Copied(Len(lh))
  /\ pc[p] = "install" => head = lh /\ tail < Len(lh) /\ Copied(Len(lh)) /\ Installed(tail) /\ Clean(tail)
  /\ pc[p] = "clear"   => head = lh /\ Copied(Len(lh)) /\ Installed(Len(lh)) /\ Clean(Len(lh))

BootPhase ==
  /\ boot # "up"        => \A b \in Blocks : ~dirty[b]
  /\ boot = "read_head" => lh = <<>> /\ tail = 0
  /\ boot = "install"   => lh = head /\ tail < Len(lh) /\ Installed(tail)
  /\ boot = "clear"     => lh = head /\ Installed(Len(lh))

\* The inductive invariant of the contents.
DataInv ==
  /\ DataOK /\ ListsOnce /\ Kept /\ CleanSame /\ Uncommitted /\ BootPhase
  /\ \A p \in Procs : CommitPhase(p)

-----------------------------------------------------------------------------
(* The space in the log *)

\* The blocks of an operation that are in the log, and what the operations in progress
\* have reserved and not used.
Used(p)  == {b \in wrote[p] : \E i \in 1..Len(lh) : lh[i] = b}
Reserved == {r \in Procs \X (1..MAXOPBLOCKS) : r[1] \in Open /\ r[2] > Cardinality(Used(r[1]))}

WroteOK ==
  /\ wrote \in [Procs -> SUBSET Blocks]
  /\ \A p \in Procs : IsFiniteSet(wrote[p]) /\ Cardinality(wrote[p]) <= MaxWrites
  /\ \A p \in Procs : locked[p] # NoBlock => locked[p] \in wrote[p]

\* The inductive invariant of the space: what is in the log and what is reserved fit.
SpaceInv ==
  /\ MaxWrites <= MAXOPBLOCKS
  /\ WroteOK
  /\ Len(lh) + Cardinality(Reserved) <= LOGSIZE
  /\ Len(head) <= LOGSIZE

-----------------------------------------------------------------------------
(* The processes: ControlInv is inductive *)

\* What the assumption says about the constants.
LEMMA ConstFacts ==
  /\ IsFiniteSet(Procs) /\ MAXOPBLOCKS \in Nat /\ MAXOPBLOCKS > 0 /\ LOGSIZE \in Nat
  /\ MAXOPBLOCKS <= LOGSIZE /\ MaxWrites \in Nat /\ nlog \in Nat /\ Blocks \subseteq Nat
  /\ NoBlock \notin Blocks /\ NoData \notin Values
  BY LogAssumption DEF NoBlock, NoData

\* The empty header lists blocks.
LEMMA EmptyList == <<>> \in Seq(Blocks)
  OBVIOUS

\* Finitely many operations are in progress.
LEMMA OpenFinite == IsFiniteSet(Open) /\ IsFiniteSet(Open')
  <1>1. Open \subseteq Procs /\ Open' \subseteq Procs
    BY DEF Open
  <1> QED BY <1>1, ConstFacts, FS_Subset

\* The count stays exact when an operation begins, ends or goes on.
LEMMA OpenSame ==
  ASSUME OpenCounted, outstanding' = outstanding,
         \A q \in Procs : pc'[q] \in {"op", "log_write"} <=> pc[q] \in {"op", "log_write"}
  PROVE  OpenCounted'
  <1>1. Open' = Open
    BY DEF Open
  <1> QED BY <1>1 DEF OpenCounted

\* begin_op counts one more operation.
LEMMA OpenMore ==
  ASSUME OpenCounted, NEW p \in Procs, outstanding' = outstanding + 1, p \notin Open,
         \A q \in Procs : pc'[q] \in {"op", "log_write"} <=> q = p \/ pc[q] \in {"op", "log_write"}
  PROVE  OpenCounted' /\ Open' = Open \cup {p}
  <1>1. Open' = Open \cup {p}
    BY DEF Open
  <1>2. Cardinality(Open \cup {p}) = Cardinality(Open) + 1
    BY OpenFinite, FS_AddElement
  <1> QED BY <1>1, <1>2 DEF OpenCounted

\* end_op counts one less.
LEMMA OpenLess ==
  ASSUME OpenCounted, NEW p \in Open, outstanding' = outstanding - 1,
         \A q \in Procs : pc'[q] \in {"op", "log_write"} <=> q # p /\ pc[q] \in {"op", "log_write"}
  PROVE  OpenCounted' /\ Open' = Open \ {p}
  <1>1. Open' = Open \ {p}
    BY DEF Open
  <1>2. Cardinality(Open \ {p}) = Cardinality(Open) - 1
    BY OpenFinite, FS_RemoveElement
  <1> QED BY <1>1, <1>2 DEF OpenCounted

\* An operation in progress is counted, and the only one when the count is one.
LEMMA OpenPositive ==
  ASSUME ControlInv, NEW p \in Procs, pc[p] \in {"op", "log_write"}
  PROVE  /\ outstanding > 0 /\ outstanding \in Nat
         /\ outstanding = 1 => \A q \in Procs : pc[q] \in {"op", "log_write"} => q = p
         /\ ~committing /\ boot = "up" /\ \A q \in Procs : pc[q] \notin Committing
  <1>1. p \in Open
    BY DEF Open
  <1>2. outstanding \in Nat /\ outstanding = Cardinality(Open)
    BY DEF ControlInv, ControlOK, OpenCounted
  <1>3. outstanding # 0
    BY <1>1, <1>2, OpenFinite, FS_EmptySet
  <1>4. ASSUME outstanding = 1, NEW q \in Procs, pc[q] \in {"op", "log_write"} PROVE q = p
    <2>1. q \in Open
      BY <1>4 DEF Open
    <2>2. PICK r : Open = {r}
      BY <1>2, <1>4, OpenFinite, FS_Singleton
    <2> QED BY <1>1, <2>1, <2>2
  <1> QED BY <1>2, <1>3, <1>4 DEF ControlInv, OneCommitter, BootAlone

\* With no operation in progress nobody is between begin_op and end_op.
LEMMA OpenNone ==
  ASSUME ControlInv, outstanding = 0
  PROVE  Open = {} /\ \A q \in Procs : pc[q] \notin {"op", "log_write"} /\ locked[q] = NoBlock
  <1>1. Open = {}
    BY OpenFinite, FS_EmptySet DEF ControlInv, OpenCounted
  <1> QED BY <1>1 DEF Open, ControlInv, HeldInLogWrite

\* What Go does to the points of the processes.
LEMMA PcGo ==
  ASSUME ControlInv, NEW p \in Procs, NEW at \in Points, Go(p, at)
  PROVE  pc' \in [Procs -> Points] /\ pc'[p] = at /\ \A q \in Procs : q # p => pc'[q] = pc[q]
  BY DEF ControlInv, ControlOK, Go

\* What GoWaking does to them.
LEMMA PcWaking ==
  ASSUME ControlInv, NEW p \in Procs, NEW at \in Points, GoWaking(p, at)
  PROVE  /\ pc' \in [Procs -> Points] /\ pc'[p] = at
         /\ \A q \in Procs : q # p => pc'[q] = IF pc[q] = "asleep" THEN "begin" ELSE pc[q]
  BY DEF ControlInv, ControlOK, GoWaking, Points

\* Nobody runs or commits at first.
LEMMA ControlInit == Init => ControlInv
  <1> SUFFICES ASSUME Init PROVE ControlInv
    OBVIOUS
  <1>0. /\ lh = <<>> /\ head = <<>> /\ outstanding = 0 /\ committing = FALSE /\ panicked = FALSE
        /\ boot = "read_head" /\ pc = [p \in Procs |-> "idle"] /\ locked = [p \in Procs |-> NoBlock]
    BY DEF Init
  <1>1. ControlOK
    <2> HIDE DEF Init
    <2> QED BY <1>0, EmptyList DEF ControlOK, Points
  <1>2. Open = {}
    BY DEF Init, Open
  <1>3. OpenCounted
    BY <1>2, FS_EmptySet DEF OpenCounted, Init
  <1>4. OneCommitter /\ BootAlone /\ HeldInLogWrite /\ IdleEmpty /\ SleeperHasWaker
    BY DEF Init, OneCommitter, Committing, BootAlone, HeldInLogWrite, IdleEmpty, SleeperHasWaker
  <1> QED BY <1>1, <1>3, <1>4 DEF ControlInv

\* Steps that leave the processes where they are.
LEMMA ControlQuiet ==
  ASSUME ControlInv, UNCHANGED <<lh, head, outstanding, committing, boot, pc, locked>>,
         panicked' \in BOOLEAN
  PROVE  ControlInv'
  <1>1. OpenCounted'
    BY OpenSame DEF ControlInv
  <1>2. ControlOK' /\ OneCommitter' /\ BootAlone' /\ HeldInLogWrite' /\ IdleEmpty' /\ SleeperHasWaker'
    BY DEF ControlInv, ControlOK, OneCommitter, BootAlone, HeldInLogWrite, IdleEmpty, SleeperHasWaker
  <1> QED BY <1>1, <1>2 DEF ControlInv

\* begin_op goes on or sleeps.
LEMMA ControlBeginOp ==
  ASSUME ControlInv, NEW p \in Procs, BeginOp(p)
  PROVE  ControlInv'
  <1>1. /\ boot = "up" /\ pc[p] \in {"idle", "begin"} /\ ~committing /\ outstanding' = outstanding + 1
        /\ UNCHANGED <<lh, head, committing, boot, locked, panicked>>
    BY DEF BeginOp, At, Up, diskVars
  <1>2. pc' \in [Procs -> Points] /\ pc'[p] = "op" /\ \A q \in Procs : q # p => pc'[q] = pc[q]
    BY PcGo DEF BeginOp, Points
  <1>3. OpenCounted'
    BY <1>1, <1>2, OpenMore DEF ControlInv, Open
  <1>4. outstanding \in Nat /\ ControlOK'
    BY <1>1, <1>2 DEF ControlInv, ControlOK
  <1>5. OneCommitter' /\ BootAlone' /\ HeldInLogWrite' /\ IdleEmpty' /\ SleeperHasWaker'
    BY <1>1, <1>2, <1>4
       DEF ControlInv, OneCommitter, Committing, BootAlone, HeldInLogWrite, IdleEmpty, SleeperHasWaker
  <1> QED BY <1>3, <1>4, <1>5 DEF ControlInv

\* A process that finds no room while nothing is in progress would never be woken; but then
\* the log is empty, and one operation fits.
LEMMA ControlBeginSleeps ==
  ASSUME ControlInv, NEW p \in Procs, BeginSleeps(p) \/ KillWakes(p)
  PROVE  ControlInv'
  <1>1. /\ boot = "up" /\ pc[p] \in {"idle", "begin", "asleep"}
        /\ UNCHANGED <<lh, head, outstanding, committing, boot, locked, panicked>>
    BY DEF BeginSleeps, KillWakes, At, Up, diskVars
  <1>2. PICK at \in {"asleep", "begin"} :
          pc' \in [Procs -> Points] /\ pc'[p] = at /\ \A q \in Procs : q # p => pc'[q] = pc[q]
    BY PcGo DEF BeginSleeps, KillWakes, Points
  <1>3. at = "asleep" => committing \/ outstanding > 0
    <2> SUFFICES ASSUME at = "asleep", ~committing, outstanding = 0 PROVE FALSE
      BY DEF ControlInv, ControlOK
    <2>1. BeginSleeps(p)
      BY <1>2 DEF KillWakes, Go, ControlInv, ControlOK
    <2>2. lh = <<>>
      BY <1>1 DEF ControlInv, IdleEmpty
    <2>3. Fits
      BY <2>2, ConstFacts DEF Fits
    <2> QED BY <2>1, <2>3 DEF BeginSleeps
  <1>4. OpenCounted'
    BY <1>1, <1>2, OpenSame DEF ControlInv
  <1>5. ControlOK' /\ OneCommitter' /\ BootAlone' /\ HeldInLogWrite' /\ IdleEmpty' /\ SleeperHasWaker'
    BY <1>1, <1>2, <1>3
       DEF ControlInv, ControlOK, OneCommitter, Committing, BootAlone, HeldInLogWrite, IdleEmpty, SleeperHasWaker
  <1> QED BY <1>4, <1>5 DEF ControlInv

\* A write into a cached block.
LEMMA ControlModify ==
  ASSUME ControlInv, NEW p \in Procs, NEW b \in Blocks, NEW v \in Values, Modify(p, b, v)
  PROVE  ControlInv'
  <1>1. /\ boot = "up" /\ pc[p] = "op" /\ locked' = [locked EXCEPT ![p] = b]
        /\ UNCHANGED <<lh, head, outstanding, committing, boot, panicked>>
    BY DEF Modify, MayWrite, At, Up, diskVars
  <1>2. pc' \in [Procs -> Points] /\ pc'[p] = "log_write" /\ \A q \in Procs : q # p => pc'[q] = pc[q]
    BY PcGo DEF Modify, Points
  <1>3. OpenCounted'
    BY <1>1, <1>2, OpenSame DEF ControlInv
  <1>4. ControlOK'
    BY <1>1, <1>2 DEF ControlInv, ControlOK
  <1>5. HeldInLogWrite'
    BY <1>1, <1>2, ConstFacts DEF ControlInv, ControlOK, HeldInLogWrite
  <1>6. OneCommitter' /\ BootAlone' /\ IdleEmpty' /\ SleeperHasWaker'
    BY <1>1, <1>2
       DEF ControlInv, OneCommitter, Committing, BootAlone, IdleEmpty, SleeperHasWaker
  <1> QED BY <1>3, <1>4, <1>5, <1>6 DEF ControlInv

\* log_write.
LEMMA ControlLogWrite ==
  ASSUME ControlInv, NEW p \in Procs, LogWrite(p)
  PROVE  ControlInv'
  <1>1. /\ boot = "up" /\ pc[p] = "log_write" /\ locked' = [locked EXCEPT ![p] = NoBlock]
        /\ lh' = WithBlock(locked[p])
        /\ UNCHANGED <<head, outstanding, committing, boot, panicked>>
    BY DEF LogWrite, At, Up, diskVars
  <1>2. pc' \in [Procs -> Points] /\ pc'[p] = "op" /\ \A q \in Procs : q # p => pc'[q] = pc[q]
    BY PcGo DEF LogWrite, Points
  <1>3. OpenCounted'
    BY <1>1, <1>2, OpenSame DEF ControlInv
  <1>4. locked[p] \in Blocks
    BY <1>1 DEF ControlInv, ControlOK, HeldInLogWrite
  <1>5. lh' \in Seq(Blocks)
    BY <1>1, <1>4 DEF ControlInv, ControlOK, WithBlock
  <1>6. ControlOK'
    BY <1>1, <1>2, <1>5 DEF ControlInv, ControlOK
  <1>7. HeldInLogWrite'
    BY <1>1, <1>2 DEF ControlInv, ControlOK, HeldInLogWrite
  <1>8. outstanding > 0 /\ \A q \in Procs : pc[q] \notin Committing
    BY <1>1, OpenPositive
  <1>9. OneCommitter' /\ BootAlone' /\ IdleEmpty' /\ SleeperHasWaker'
    BY <1>1, <1>2, <1>8
       DEF ControlInv, OneCommitter, Committing, BootAlone, IdleEmpty, SleeperHasWaker
  <1> QED BY <1>3, <1>6, <1>7, <1>9 DEF ControlInv

\* end_op: the last operation starts the commit, any other wakes those who wait for room.
LEMMA ControlEndOp ==
  ASSUME ControlInv, NEW p \in Procs, EndOp(p)
  PROVE  ControlInv'
  <1>1. /\ boot = "up" /\ pc[p] = "op" /\ outstanding' = outstanding - 1
        /\ UNCHANGED <<lh, head, boot, locked, panicked>>
    BY DEF EndOp, At, Up, diskVars
  <1>2. /\ outstanding > 0 /\ outstanding \in Nat /\ ~committing
        /\ outstanding = 1 => \A q \in Procs : pc[q] \in {"op", "log_write"} => q = p
        /\ \A q \in Procs : pc[q] \notin Committing
    BY <1>1, OpenPositive
  <1>3. CASE outstanding = 1
    <2>1. PICK at \in {"done", "write_log"} :
            /\ at = (IF lh = <<>> THEN "done" ELSE "write_log")
            /\ pc' \in [Procs -> Points] /\ pc'[p] = at /\ \A q \in Procs : q # p => pc'[q] = pc[q]
      BY <1>3, PcGo DEF EndOp, Points
    <2>2. committing' = TRUE
      BY <1>3 DEF EndOp
    <2>3. OpenCounted'
      BY <1>1, <2>1, OpenLess DEF ControlInv, Open
    <2>4. ControlOK' /\ OneCommitter'
      BY <1>1, <1>2, <1>3, <2>1, <2>2 DEF ControlInv, ControlOK, OneCommitter, Committing
    <2>5. BootAlone' /\ HeldInLogWrite' /\ IdleEmpty' /\ SleeperHasWaker'
      BY <1>1, <1>2, <1>3, <2>1, <2>2
         DEF ControlInv, Committing, BootAlone, HeldInLogWrite, IdleEmpty, SleeperHasWaker
    <2> QED BY <2>3, <2>4, <2>5 DEF ControlInv
  <1>4. CASE outstanding # 1
    <2>1. /\ pc' \in [Procs -> Points] /\ pc'[p] = "idle"
          /\ \A q \in Procs : q # p => pc'[q] = IF pc[q] = "asleep" THEN "begin" ELSE pc[q]
      BY <1>4, PcWaking DEF EndOp, Points
    <2>2. committing' = committing
      BY <1>4 DEF EndOp
    <2>3. OpenCounted'
      BY <1>1, <2>1, OpenLess DEF ControlInv, Open
    <2>4. ControlOK' /\ OneCommitter'
      BY <1>1, <1>2, <1>4, <2>1, <2>2 DEF ControlInv, ControlOK, OneCommitter, Committing
    <2>5. BootAlone' /\ HeldInLogWrite' /\ IdleEmpty' /\ SleeperHasWaker'
      BY <1>1, <1>2, <1>4, <2>1, <2>2
         DEF ControlInv, Committing, BootAlone, HeldInLogWrite, IdleEmpty, SleeperHasWaker
    <2> QED BY <2>3, <2>4, <2>5 DEF ControlInv
  <1> QED BY <1>3, <1>4

\* The committer goes on to its next phase, alone.
LEMMA ControlCommit ==
  ASSUME ControlInv, NEW p \in Procs, pc[p] \in Committing, NEW at \in Committing,
         boot = "up", pc' = pc \/ Go(p, at), head' \in Seq(Blocks),
         lh' = lh \/ lh' = <<>>, at = "done" => lh' = <<>>,
         UNCHANGED <<outstanding, committing, boot, locked, panicked>>
  PROVE  ControlInv'
  <1>0. lh' \in Seq(Blocks)
    BY EmptyList DEF ControlInv, ControlOK
  <1>1. CASE pc' = pc
    <2>1. OpenCounted'
      BY <1>1, OpenSame DEF ControlInv
    <2>2. ControlOK'
      BY <1>0, <1>1 DEF ControlInv, ControlOK
    <2>3. OneCommitter' /\ BootAlone' /\ HeldInLogWrite' /\ IdleEmpty' /\ SleeperHasWaker'
      BY <1>1 DEF ControlInv, OneCommitter, BootAlone, HeldInLogWrite, IdleEmpty, SleeperHasWaker
    <2> QED BY <2>1, <2>2, <2>3 DEF ControlInv
  <1>2. CASE Go(p, at)
    <2>0. at \in Points
      BY DEF Committing, Points
    <2>1. pc' \in [Procs -> Points] /\ pc'[p] = at /\ \A q \in Procs : q # p => pc'[q] = pc[q]
      BY <1>2, <2>0, PcGo
    <2>2. committing /\ outstanding = 0 /\ \A q \in Procs : q # p => pc[q] \notin Committing
      BY DEF ControlInv, OneCommitter
    <2>3. OpenCounted'
      BY <2>1, OpenSame DEF ControlInv, Committing
    <2>4. ControlOK'
      BY <1>0, <2>1 DEF ControlInv, ControlOK
    <2>5. OneCommitter' /\ BootAlone' /\ HeldInLogWrite' /\ IdleEmpty' /\ SleeperHasWaker'
      BY <2>1, <2>2
         DEF ControlInv, OneCommitter, Committing, BootAlone, HeldInLogWrite, IdleEmpty, SleeperHasWaker
    <2> QED BY <2>3, <2>4, <2>5 DEF ControlInv
  <1> QED BY <1>1, <1>2

\* The commit ends and wakes everybody.
LEMMA ControlCommitDone ==
  ASSUME ControlInv, NEW p \in Procs, CommitDone(p)
  PROVE  ControlInv'
  <1>1. /\ boot = "up" /\ pc[p] = "done" /\ committing' = FALSE
        /\ UNCHANGED <<lh, head, outstanding, boot, locked, panicked>>
    BY DEF CommitDone, At, Up, diskVars
  <1>2. /\ pc' \in [Procs -> Points] /\ pc'[p] = "idle"
        /\ \A q \in Procs : q # p => pc'[q] = IF pc[q] = "asleep" THEN "begin" ELSE pc[q]
    BY PcWaking DEF CommitDone, Points
  <1>3. committing /\ outstanding = 0 /\ lh = <<>> /\ \A q \in Procs : q # p => pc[q] \notin Committing
    BY <1>1 DEF ControlInv, OneCommitter, Committing, IdleEmpty
  <1>4. OpenCounted'
    BY <1>1, <1>2, OpenSame DEF ControlInv
  <1>5. ControlOK'
    BY <1>1, <1>2 DEF ControlInv, ControlOK
  <1>6. OneCommitter' /\ BootAlone' /\ HeldInLogWrite' /\ IdleEmpty' /\ SleeperHasWaker'
    BY <1>1, <1>2, <1>3
       DEF ControlInv, OneCommitter, Committing, BootAlone, HeldInLogWrite, IdleEmpty, SleeperHasWaker
  <1> QED BY <1>4, <1>5, <1>6 DEF ControlInv

\* A crash leaves no process and no operation.
LEMMA ControlCrash ==
  ASSUME ControlInv, Crash
  PROVE  ControlInv'
  <1>1. /\ lh' = <<>> /\ head' = head /\ outstanding' = 0 /\ committing' = FALSE /\ panicked' = FALSE
        /\ boot' = "read_head" /\ pc' = [p \in Procs |-> "idle"] /\ locked' = [p \in Procs |-> NoBlock]
    BY DEF Crash, diskVars
  <1>2. Open' = {}
    BY <1>1 DEF Open
  <1>3. OpenCounted'
    BY <1>1, <1>2, FS_EmptySet DEF OpenCounted
  <1>4. ControlOK'
    BY <1>1, EmptyList DEF ControlInv, ControlOK, Points
  <1>5. OneCommitter' /\ BootAlone' /\ HeldInLogWrite' /\ IdleEmpty' /\ SleeperHasWaker'
    BY <1>1 DEF OneCommitter, Committing, BootAlone, HeldInLogWrite, IdleEmpty, SleeperHasWaker
  <1> QED BY <1>3, <1>4, <1>5 DEF ControlInv

\* Recovery runs alone.
LEMMA ControlRecover ==
  ASSUME ControlInv, Recover
  PROVE  ControlInv'
  <1>1. /\ boot # "up" /\ boot' \in {"install", "clear", "up"} /\ lh' \in Seq(Blocks) /\ head' \in Seq(Blocks)
        /\ boot' = "up" => lh' = <<>>
        /\ UNCHANGED <<outstanding, committing, pc, locked, panicked>>
    BY EmptyList DEF Recover, ReadHead, RecoverBlock, ClearLog, InstallBlock, diskVars, ControlInv, ControlOK
  <1>2. OpenCounted'
    BY <1>1, OpenSame DEF ControlInv
  <1>3. ControlOK'
    BY <1>1 DEF ControlInv, ControlOK
  <1>4. OneCommitter' /\ BootAlone' /\ HeldInLogWrite' /\ IdleEmpty' /\ SleeperHasWaker'
    BY <1>1 DEF ControlInv, OneCommitter, BootAlone, HeldInLogWrite, IdleEmpty, SleeperHasWaker
  <1> QED BY <1>2, <1>3, <1>4 DEF ControlInv

\* Every step preserves ControlInv, whatever the data.
LEMMA ControlNext == ControlInv /\ [Next]_vars => ControlInv'
  <1> SUFFICES ASSUME ControlInv, [Next]_vars PROVE ControlInv'
    OBVIOUS
  <1>1. ASSUME NEW p \in Procs, Begin(p) \/ Writes(p) \/ EndOp(p) PROVE ControlInv'
    <2>1. ASSUME NEW b \in Blocks, LogPanics(p, b) PROVE ControlInv'
      BY <2>1, ControlQuiet DEF LogPanics, diskVars
    <2> QED BY <1>1, <2>1, ControlBeginOp, ControlBeginSleeps, ControlLogWrite, ControlModify, ControlEndOp
            DEF Begin, Writes
  <1>2. ASSUME NEW p \in Procs, Commit(p) PROVE ControlInv'
    <2>0. lh \in Seq(Blocks) /\ head \in Seq(Blocks)
      BY DEF ControlInv, ControlOK
    <2>1. CASE WriteLog(p)
      <3>1. pc' = pc \/ Go(p, "write_head")
        BY <2>1 DEF WriteLog
      <3> QED BY <2>0, <2>1, <3>1, ControlCommit DEF WriteLog, At, Up, Committing
    <2>2. CASE WriteHead(p)
      BY <2>0, <2>2, ControlCommit DEF WriteHead, At, Up, Committing
    <2>3. CASE Install(p)
      <3>1. pc' = pc \/ Go(p, "clear")
        BY <2>3 DEF Install
      <3> QED BY <2>0, <2>3, <3>1, ControlCommit DEF Install, At, Up, Committing
    <2>4. CASE ClearHead(p)
      BY <2>0, <2>4, ControlCommit DEF ClearHead, At, Up, Committing
    <2> QED BY <1>2, <2>1, <2>2, <2>3, <2>4, ControlCommitDone DEF Commit
  <1>3. ASSUME NEW b \in Blocks, Fill(b) \/ Evict(b) PROVE ControlInv'
    BY <1>3, ControlQuiet DEF Fill, Evict, diskVars, ControlInv, ControlOK
  <1>4. CASE UNCHANGED vars
    BY <1>4, ControlQuiet DEF vars, diskVars, ControlInv, ControlOK
  <1> QED BY <1>1, <1>2, <1>3, <1>4, ControlCrash, ControlRecover DEF Next

\* Whoever sleeps in begin_op for want of room, or because of a commit, has a process that is
\* going to wake it (log.c: begin_op, end_op), however many blocks the operations write.
THEOREM SleepersHaveWakers == Spec => []SleeperHasWaker
  <1>1. ControlInv => SleeperHasWaker
    BY DEF ControlInv
  <1> QED BY <1>1, ControlInit, ControlNext, PTL DEF Spec

-----------------------------------------------------------------------------
(* The contents: DataInv is inductive while log.lh fits in its array *)

Inv == ControlInv /\ DataInv /\ LogFits

Phases == {"write_log", "write_head", "install", "clear"}

\* The invariant in parts.
LEMMA InvFacts ==
  ASSUME Inv
  PROVE  /\ DataOK /\ ListsOnce /\ Kept /\ CleanSame /\ Uncommitted /\ BootPhase
         /\ \A p \in Procs : CommitPhase(p)
         /\ ControlOK /\ LogFits /\ ControlInv
         /\ Len(lh) \in Nat /\ Len(head) \in Nat /\ Len(lh) <= LOGSIZE /\ Len(head) <= LOGSIZE
         /\ \A i \in 1..Len(lh) : lh[i] \in Blocks
         /\ \A i \in 1..Len(head) : head[i] \in Blocks
  BY DEF Inv, DataInv, ControlInv, ControlOK, LogFits, ListsOnce

\* The first disk has an empty header and an empty cache.
LEMMA DataInit == Init => DataInv
  <1> SUFFICES ASSUME Init PROVE DataInv
    OBVIOUS
  <1>1. PICK v \in Values : home = [b \in Blocks |-> v] /\ logged = [i \in 1..LOGSIZE |-> v]
    BY DEF Init
  <1>2. /\ head = <<>> /\ cache = [b \in Blocks |-> NoData] /\ dirty = [b \in Blocks |-> FALSE]
        /\ lh = <<>> /\ tail = 0 /\ boot = "read_head" /\ pc = [p \in Procs |-> "idle"]
        /\ locked = [p \in Procs |-> NoBlock] /\ wrote = [p \in Procs |-> {}]
    BY DEF Init
  <1> HIDE DEF Init
  <1>3. DataOK
    BY <1>1, <1>2, ConstFacts DEF DataOK
  <1>4. ListsOnce /\ Kept /\ CleanSame /\ Uncommitted /\ BootPhase
    BY <1>2, ConstFacts DEF ListsOnce, Once, Kept, CleanSame, Uncommitted, BootPhase
  <1>5. \A p \in Procs : CommitPhase(p)
    BY <1>2 DEF CommitPhase
  <1> QED BY <1>3, <1>4, <1>5 DEF DataInv

\* A step that touches neither the log nor the disk, and changes nothing that is read,
\* keeps the phases of the commit.
LEMMA PhasesKept ==
  ASSUME Inv, UNCHANGED <<home, logged, head, dirty, lh, tail, boot>>,
         \A c \in Blocks : Read(c)' = Read(c),
         \A q \in Procs : pc[q] \in Phases \/ pc'[q] \in Phases => pc'[q] = pc[q]
  PROVE  ListsOnce' /\ Uncommitted' /\ BootPhase' /\ \A q \in Procs : CommitPhase(q)'
  <1>1. ListsOnce' /\ BootPhase'
    BY InvFacts DEF ListsOnce, Once, BootPhase, Installed
  <1>2. Uncommitted'
    <2>1. Installing' = Installing
      BY DEF Installing, Phases
    <2> QED BY <2>1, InvFacts DEF Uncommitted
  <1>3. ASSUME NEW q \in Procs PROVE CommitPhase(q)'
    <2>1. \A n \in 0..Len(lh) : Copied(n) => Copied(n)'
      BY InvFacts DEF Copied
    <2>2. tail \in Nat /\ CommitPhase(q)
      BY InvFacts, ConstFacts DEF DataOK
    <2>3. CASE pc'[q] \notin Phases
      BY <2>3 DEF CommitPhase, Phases
    <2>4. CASE pc'[q] = pc[q]
      BY <2>1, <2>2, <2>4, InvFacts DEF CommitPhase, Installed, Clean, Copied
    <2> QED BY <2>3, <2>4
  <1> QED BY <1>1, <1>2, <1>3

\* The contents and the buffers stay; processes that are not committing move.
LEMMA DataQuiet ==
  ASSUME Inv, UNCHANGED <<home, logged, head, cache, dirty, lh, tail, boot, locked>>,
         wrote' \in [Procs -> SUBSET Blocks],
         \A q \in Procs : pc[q] \in Phases \/ pc'[q] \in Phases => pc'[q] = pc[q]
  PROVE  DataInv'
  <1>1. \A c \in Blocks : Read(c)' = Read(c)
    BY DEF Read
  <1>2. ListsOnce' /\ Uncommitted' /\ BootPhase' /\ \A q \in Procs : CommitPhase(q)'
    BY <1>1, PhasesKept
  <1>3. DataOK' /\ Kept' /\ CleanSame'
    BY InvFacts DEF DataOK, Kept, CleanSame, Free
  <1> QED BY <1>2, <1>3 DEF DataInv

\* A block read into the cache, or dropped from it when clean, reads as before.
LEMMA DataFill ==
  ASSUME Inv, NEW b \in Blocks, Fill(b) \/ Evict(b)
  PROVE  DataInv' /\ \A c \in Blocks : Read(c)' = Read(c)
  <1>1. /\ UNCHANGED <<home, logged, head, dirty, lh, tail, boot, pc, locked, wrote>>
        /\ cache \in [Blocks -> Values \cup {NoData}] /\ home \in [Blocks -> Values]
    BY InvFacts DEF Fill, Evict, diskVars, DataOK
  <1>2. PICK x \in {home[b], NoData} :
          /\ cache' = [cache EXCEPT ![b] = x]
          /\ x = NoData => ~dirty[b] /\ Free(b) /\ cache[b] # NoData
          /\ x # NoData => cache[b] = NoData
    BY <1>1, ConstFacts DEF Fill, Evict
  <1>3. \A c \in Blocks : cache'[c] = IF c = b THEN x ELSE cache[c]
    BY <1>1, <1>2
  <1>4. x = NoData => cache[b] = home[b]
    BY <1>2, InvFacts DEF CleanSame
  <1>5. \A c \in Blocks : Read(c)' = Read(c)
    BY <1>1, <1>2, <1>3, <1>4 DEF Read
  <1>6. ListsOnce' /\ Uncommitted' /\ BootPhase' /\ \A q \in Procs : CommitPhase(q)'
    BY <1>1, <1>5, PhasesKept
  <1>7. DataOK'
    BY <1>1, <1>2, InvFacts DEF DataOK
  <1>8. Kept'
    BY <1>1, <1>2, <1>3, ConstFacts, InvFacts DEF Kept, Free, DataOK, ControlOK
  <1>9. CleanSame'
    BY <1>1, <1>2, <1>3, InvFacts DEF CleanSame, Free
  <1> QED BY <1>5, <1>6, <1>7, <1>8, <1>9 DEF DataInv

\* Only operations change a buffer, while nobody commits.
LEMMA DataModify ==
  ASSUME Inv, NEW p \in Procs, NEW b \in Blocks, NEW v \in Values, Modify(p, b, v)
  PROVE  DataInv'
  <1>1. /\ UNCHANGED <<home, logged, head, dirty, lh, tail, boot>>
        /\ pc[p] = "op" /\ cache' = [cache EXCEPT ![b] = v]
        /\ locked' = [locked EXCEPT ![p] = b] /\ wrote' = [wrote EXCEPT ![p] = @ \cup {b}]
    BY DEF Modify, MayWrite, At, diskVars
  <1>2. pc'[p] = "log_write" /\ \A q \in Procs : q # p => pc'[q] = pc[q]
    BY InvFacts, PcGo DEF Modify, Points
  <1>3. boot = "up" /\ \A q \in Procs : pc[q] \notin Committing
    BY <1>1, InvFacts, OpenPositive
  <1>4. /\ locked \in [Procs -> Blocks \cup {NoBlock}] /\ cache \in [Blocks -> Values \cup {NoData}]
        /\ wrote \in [Procs -> SUBSET Blocks]
    BY InvFacts DEF DataOK, ControlOK
  <1>5. locked[p] = NoBlock
    BY <1>1, InvFacts DEF ControlInv, HeldInLogWrite
  <1>6. DataOK'
    BY <1>1, <1>4, InvFacts DEF DataOK
  <1>7. ListsOnce' /\ BootPhase'
    BY <1>1, <1>3, InvFacts DEF ListsOnce, Once, BootPhase
  <1>8. Uncommitted'
    <2>1. Installing = {}
      BY <1>3 DEF Installing, Committing
    <2> QED BY <1>1, <2>1, InvFacts DEF Uncommitted
  <1>9. Kept'
    BY <1>1, <1>4, ConstFacts, InvFacts DEF Kept
  <1>10. CleanSame'
    <2> SUFFICES ASSUME NEW c \in Blocks, ~dirty'[c], cache'[c] # NoData, Free(c)' PROVE cache'[c] = home'[c]
      BY DEF CleanSame
    <2>1. c # b
      BY <1>1, <1>4 DEF Free
    <2>2. Free(c)
      BY <1>1, <1>4, <1>5, ConstFacts DEF Free
    <2> QED BY <1>1, <1>4, <2>1, <2>2, InvFacts DEF CleanSame
  <1>11. \A q \in Procs : CommitPhase(q)'
    BY <1>2, <1>3 DEF CommitPhase, Committing
  <1> QED BY <1>6, <1>7, <1>8, <1>9, <1>10, <1>11 DEF DataInv

\* log_write pins the block and lists it once.
LEMMA DataLogWrite ==
  ASSUME Inv, NEW p \in Procs, LogWrite(p)
  PROVE  DataInv'
  <1>1. /\ UNCHANGED <<home, logged, head, cache, tail, boot, wrote>> /\ pc[p] = "log_write"
        /\ lh' = WithBlock(locked[p]) /\ dirty' = [dirty EXCEPT ![locked[p]] = TRUE]
        /\ locked' = [locked EXCEPT ![p] = NoBlock]
    BY DEF LogWrite, At, diskVars
  <1>2. pc'[p] = "op" /\ \A q \in Procs : q # p => pc'[q] = pc[q]
    BY InvFacts, PcGo DEF LogWrite, Points
  <1>3. boot = "up" /\ \A q \in Procs : pc[q] \notin Committing
    BY <1>1, InvFacts, OpenPositive
  <1>4. /\ locked \in [Procs -> Blocks \cup {NoBlock}] /\ dirty \in [Blocks -> BOOLEAN]
        /\ lh \in Seq(Blocks)
    BY InvFacts DEF DataOK, ControlOK
  <1>5. PICK b \in Blocks : b = locked[p]
    BY <1>1, <1>4, InvFacts DEF ControlInv, HeldInLogWrite
  <1>6. cache[b] # NoData
    BY <1>5, InvFacts, ConstFacts DEF Kept
  <1>7. DataOK'
    BY <1>1, <1>4, <1>5, InvFacts DEF DataOK
  <1>8. /\ Once(lh') /\ \A i \in 1..Len(lh') : lh'[i] = b \/ dirty[lh'[i]]
        /\ \E i \in 1..Len(lh') : lh'[i] = b
        /\ \A c \in Blocks : (\E i \in 1..Len(lh) : lh[i] = c) => \E i \in 1..Len(lh') : lh'[i] = c
    <2>0. \A i \in 1..Len(lh) : dirty[lh[i]]
      <3>1. Installing = {}
        BY <1>3 DEF Installing, Committing
      <3> QED BY <1>3, <3>1, InvFacts DEF Uncommitted
    <2>1. CASE \E i \in 1..Len(lh) : lh[i] = b
      BY <1>1, <1>5, <2>0, <2>1, InvFacts DEF WithBlock, ListsOnce
    <2>2. CASE ~ \E i \in 1..Len(lh) : lh[i] = b
      <3>1. lh' = Append(lh, b) /\ Len(lh') = Len(lh) + 1 /\ Len(lh) \in Nat
        BY <1>1, <1>4, <1>5, <2>2 DEF WithBlock
      <3>2. lh'[Len(lh) + 1] = b /\ \A i \in 1..Len(lh) : lh'[i] = lh[i]
        BY <1>4, <3>1
      <3>3. \A i \in 1..Len(lh') : i = Len(lh) + 1 \/ i \in 1..Len(lh)
        BY <3>1
      <3>4. Once(lh)
        BY InvFacts DEF ListsOnce
      <3>5. Once(lh')
        BY <2>2, <3>2, <3>3, <3>4 DEF Once
      <3>6. \A i \in 1..Len(lh) : i \in 1..Len(lh')
        BY <3>1
      <3> QED BY <2>0, <3>1, <3>2, <3>3, <3>5, <3>6
    <2> QED BY <2>1, <2>2
  <1>9. \A c \in Blocks : dirty'[c] = (c = b \/ dirty[c])
    BY <1>1, <1>4, <1>5
  <1>10. ListsOnce' /\ BootPhase'
    BY <1>1, <1>3, <1>8, InvFacts DEF ListsOnce, Once, BootPhase
  <1>11. Uncommitted'
    <2>1. Installing = {}
      BY <1>3 DEF Installing, Committing
    <2>2. lh' \in Seq(Blocks)
      BY <1>1, <1>4, <1>5 DEF WithBlock
    <2>3. head = <<>>
      BY <1>3, <2>1, InvFacts DEF Uncommitted
    <2>4. \A i \in 1..Len(lh') : lh'[i] \in Blocks
      BY <2>2
    <2>5. \A i \in 1..Len(lh') : dirty'[lh'[i]]
      BY <1>8, <1>9, <2>4
    <2> QED BY <1>1, <2>3, <2>5 DEF Uncommitted
  <1>12. Kept'
    BY <1>1, <1>4, <1>5, <1>6, <1>8, <1>9, ConstFacts, InvFacts DEF Kept
  <1>13. CleanSame'
    <2> SUFFICES ASSUME NEW c \in Blocks, ~dirty'[c], cache'[c] # NoData, Free(c)' PROVE cache'[c] = home'[c]
      BY DEF CleanSame
    <2>1. c # b /\ ~dirty[c]
      BY <1>9
    <2>2. Free(c)
      BY <1>1, <1>4, <1>5, <2>1 DEF Free
    <2> QED BY <1>1, <2>1, <2>2, InvFacts DEF CleanSame
  <1>14. \A q \in Procs : CommitPhase(q)'
    BY <1>2, <1>3 DEF CommitPhase, Committing
  <1> QED BY <1>7, <1>10, <1>11, <1>12, <1>13, <1>14 DEF DataInv

\* end_op starts the commit when it is the last operation.
LEMMA DataEndOp ==
  ASSUME Inv, NEW p \in Procs, EndOp(p)
  PROVE  DataInv'
  <1>1. /\ UNCHANGED <<home, logged, head, cache, dirty, lh, boot, locked>> /\ pc[p] = "op"
        /\ wrote' = [wrote EXCEPT ![p] = {}]
    BY DEF EndOp, At, diskVars, bufVars
  <1>2. wrote' \in [Procs -> SUBSET Blocks]
    BY <1>1, InvFacts DEF DataOK
  <1>3. boot = "up" /\ \A q \in Procs : pc[q] \notin Committing
    BY <1>1, InvFacts, OpenPositive
  <1>4. CASE outstanding # 1
    <2>1. /\ pc'[p] = "idle"
          /\ \A q \in Procs : q # p => pc'[q] = IF pc[q] = "asleep" THEN "begin" ELSE pc[q]
      BY <1>4, InvFacts, PcWaking DEF EndOp, Points
    <2>2. tail' = tail
      BY <1>4 DEF EndOp
    <2> QED BY <1>1, <1>2, <2>1, <2>2, DataQuiet DEF Phases
  <1>5. CASE outstanding = 1
    <2>1. PICK at \in {"done", "write_log"} :
            /\ at = (IF lh = <<>> THEN "done" ELSE "write_log")
            /\ pc'[p] = at /\ \A q \in Procs : q # p => pc'[q] = pc[q]
      BY <1>5, InvFacts, PcGo DEF EndOp, Points
    <2>2. tail' = 0
      BY <1>5 DEF EndOp
    <2>3. DataOK' /\ ListsOnce' /\ Kept' /\ CleanSame' /\ BootPhase'
      BY <1>1, <1>2, <1>3, <2>2, ConstFacts, InvFacts
         DEF DataOK, ListsOnce, Once, Kept, CleanSame, Free, BootPhase
    <2>4. Uncommitted'
      <3>1. Installing = {}
        BY <1>3 DEF Installing, Committing
      <3> QED BY <1>1, <3>1, InvFacts DEF Uncommitted
    <2>5. lh # <<>> => 0 < Len(lh)
      BY InvFacts DEF ControlOK
    <2>6. \A q \in Procs : CommitPhase(q)'
      BY <1>1, <1>3, <2>1, <2>2, <2>5 DEF CommitPhase, Committing, Copied
    <2> QED BY <2>3, <2>4, <2>6 DEF DataInv
  <1> QED BY <1>4, <1>5

\* The process in a phase of the commit is the only one, and nobody holds a buffer.
LEMMA CommitterAlone ==
  ASSUME Inv, NEW p \in Procs, pc[p] \in Phases
  PROVE  /\ boot = "up" /\ outstanding = 0 /\ committing
         /\ \A q \in Procs : q # p => pc[q] \notin Phases
         /\ \A q \in Procs : locked[q] = NoBlock
         /\ \A b \in Blocks : Free(b)
  <1>1. boot = "up" /\ committing /\ outstanding = 0 /\ \A q \in Procs : q # p => pc[q] \notin Phases
    BY InvFacts DEF ControlInv, OneCommitter, BootAlone, Committing, Phases
  <1>2. \A q \in Procs : locked[q] = NoBlock
    BY <1>1, InvFacts, OpenNone
  <1> QED BY <1>1, <1>2, ConstFacts DEF Free

\* write_log copies the cache into the log, block by block.
LEMMA DataWriteLog ==
  ASSUME Inv, NEW p \in Procs, WriteLog(p)
  PROVE  DataInv'
  <1>1. /\ UNCHANGED <<home, head, cache, dirty, lh, boot, locked, wrote>> /\ pc[p] = "write_log"
        /\ logged' = [logged EXCEPT ![tail + 1] = Read(lh[tail + 1])]
    BY DEF WriteLog, At, bufVars
  <1>2. /\ boot = "up" /\ \A q \in Procs : q # p => pc[q] \notin Phases
        /\ tail < Len(lh) /\ Copied(tail) /\ tail \in Nat
    BY <1>1, InvFacts, ConstFacts, CommitterAlone DEF CommitPhase, DataOK, Phases
  <1>3. tail + 1 \in 1..Len(lh) /\ tail + 1 \in 1..LOGSIZE /\ lh[tail + 1] \in Blocks
    BY <1>2, InvFacts, ConstFacts
  <1>4. logged \in [1..LOGSIZE -> Values] /\ Read(lh[tail + 1]) \in Values
    BY <1>3, InvFacts DEF DataOK, Read
  <1>5. \A c \in Blocks : Read(c)' = Read(c)
    BY <1>1 DEF Read
  <1>6. ASSUME NEW i \in 1..(tail + 1) PROVE logged'[i] = Read(lh[i])
    <2>1. CASE i = tail + 1
      BY <1>1, <1>3, <1>4, <2>1
    <2>2. CASE i # tail + 1
      <3>1. i \in 1..tail /\ i \in 1..LOGSIZE
        BY <1>2, <1>3, <2>2, ConstFacts
      <3> QED BY <1>1, <1>2, <1>4, <2>2, <3>1 DEF Copied
    <2> QED BY <2>1, <2>2
  <1>7. DataOK'
    <2>1. tail' \in 0..LOGSIZE
      BY <1>2, <1>3, ConstFacts DEF WriteLog
    <2>2. logged' \in [1..LOGSIZE -> Values]
      BY <1>1, <1>4
    <2> QED BY <1>1, <2>1, <2>2, InvFacts DEF DataOK
  <1>8. ListsOnce' /\ Kept' /\ CleanSame' /\ BootPhase'
    BY <1>1, <1>2, InvFacts DEF ListsOnce, Once, Kept, CleanSame, Free, BootPhase
  <1>9. Uncommitted'
    <2>1. Installing = {}
      BY <1>1, <1>2 DEF Installing, Phases
    <2> QED BY <1>1, <2>1, InvFacts DEF Uncommitted
  <1>10. ASSUME NEW q \in Procs PROVE CommitPhase(q)'
    <2>1. CASE tail + 1 < Len(lh)
      <3>1. tail' = tail + 1 /\ pc' = pc
        BY <2>1 DEF WriteLog
      <3>2. Copied(tail)'
        BY <1>1, <1>2, <1>3, <1>5, <1>6, <3>1, InvFacts DEF Copied
      <3> QED BY <1>1, <1>2, <2>1, <3>1, <3>2 DEF CommitPhase, Phases
    <2>2. CASE ~(tail + 1 < Len(lh))
      <3>1. tail' = 0 /\ pc'[p] = "write_head" /\ \A r \in Procs : r # p => pc'[r] = pc[r]
        BY <2>2, InvFacts, PcGo DEF WriteLog, Points
      <3>2. Len(lh) = tail + 1
        BY <1>2, <2>2, InvFacts
      <3>3. Copied(Len(lh))'
        BY <1>1, <1>5, <1>6, <3>2, InvFacts DEF Copied
      <3>4. lh # <<>>
        BY <1>2
      <3> QED BY <1>1, <1>2, <3>1, <3>3, <3>4 DEF CommitPhase, Phases
    <2> QED BY <2>1, <2>2
  <1> QED BY <1>7, <1>8, <1>9, <1>10 DEF DataInv

\* write_head lists the blocks, which the log holds by now.
LEMMA DataWriteHead ==
  ASSUME Inv, NEW p \in Procs, WriteHead(p)
  PROVE  DataInv'
  <1>1. /\ UNCHANGED <<home, logged, cache, dirty, lh, tail, boot, locked, wrote>>
        /\ pc[p] = "write_head" /\ head' = lh
    BY DEF WriteHead, At, bufVars
  <1>2. /\ boot = "up" /\ \A q \in Procs : q # p => pc[q] \notin Phases
        /\ tail = 0 /\ lh # <<>> /\ Copied(Len(lh))
    BY <1>1, InvFacts, CommitterAlone DEF CommitPhase, Phases
  <1>3. pc'[p] = "install" /\ \A q \in Procs : q # p => pc'[q] = pc[q]
    BY InvFacts, PcGo DEF WriteHead, Points
  <1>4. DataOK' /\ ListsOnce' /\ Kept' /\ CleanSame' /\ BootPhase'
    BY <1>1, <1>2, InvFacts DEF DataOK, ListsOnce, Once, Kept, CleanSame, Free, BootPhase
  <1>5. Uncommitted'
    BY <1>3 DEF Uncommitted, Installing
  <1>6. 0 < Len(lh)
    BY <1>2, InvFacts DEF ControlOK
  <1>7. Copied(Len(lh))'
    BY <1>1, <1>2 DEF Copied, Read
  <1>8. \A q \in Procs : CommitPhase(q)'
    BY <1>1, <1>2, <1>3, <1>6, <1>7 DEF CommitPhase, Phases, Installed, Clean
  <1> QED BY <1>4, <1>5, <1>8 DEF DataInv

\* What install_trans does to one block, in a commit and in a recovery.
LEMMA InstallFacts ==
  ASSUME Inv, InstallBlock(lh[tail + 1]), tail < Len(lh), Installed(tail)
  PROVE  /\ tail + 1 \in 1..Len(lh) /\ lh[tail + 1] \in Blocks
         /\ tail + 1 \in 1..LOGSIZE /\ logged[tail + 1] \in Values
         /\ \A c \in Blocks :
              /\ home'[c] = IF c = lh[tail + 1] THEN logged[tail + 1] ELSE home[c]
              /\ cache'[c] = IF c = lh[tail + 1] THEN logged[tail + 1] ELSE cache[c]
              /\ dirty'[c] = (c # lh[tail + 1] /\ dirty[c])
         /\ \A i \in 1..(tail + 1) : home'[lh[i]] = logged[i]
         /\ home' \in [Blocks -> Values] /\ cache' \in [Blocks -> Values \cup {NoData}]
         /\ dirty' \in [Blocks -> BOOLEAN] /\ tail' \in 0..LOGSIZE
  <1>1. /\ home \in [Blocks -> Values] /\ cache \in [Blocks -> Values \cup {NoData}]
        /\ dirty \in [Blocks -> BOOLEAN] /\ tail \in Nat /\ logged \in [1..LOGSIZE -> Values]
    BY InvFacts, ConstFacts DEF DataOK
  <1>2. tail + 1 \in 1..Len(lh) /\ lh[tail + 1] \in Blocks /\ tail + 1 \in 1..LOGSIZE
    BY <1>1, InvFacts, ConstFacts
  <1>3. logged[tail + 1] \in Values
    BY <1>1, <1>2
  <1>4. /\ home' = [home EXCEPT ![lh[tail + 1]] = logged[tail + 1]]
        /\ cache' = [cache EXCEPT ![lh[tail + 1]] = logged[tail + 1]]
        /\ dirty' = [dirty EXCEPT ![lh[tail + 1]] = FALSE]
        /\ tail' = IF tail + 1 < Len(lh) THEN tail + 1 ELSE 0
    BY DEF InstallBlock
  <1>5. \A c \in Blocks :
          /\ home'[c] = IF c = lh[tail + 1] THEN logged[tail + 1] ELSE home[c]
          /\ cache'[c] = IF c = lh[tail + 1] THEN logged[tail + 1] ELSE cache[c]
          /\ dirty'[c] = (c # lh[tail + 1] /\ dirty[c])
    BY <1>1, <1>4
  <1>6. ASSUME NEW i \in 1..(tail + 1) PROVE home'[lh[i]] = logged[i]
    <2>1. i \in 1..Len(lh) /\ lh[i] \in Blocks
      BY <1>1, <1>2, InvFacts
    <2>2. CASE i = tail + 1
      BY <1>2, <1>5, <2>2
    <2>3. CASE i # tail + 1
      <3>1. i \in 1..tail
        BY <1>1, <2>3
      <3>2. lh[i] # lh[tail + 1]
        BY <1>2, <2>1, <2>3, InvFacts DEF ListsOnce, Once
      <3> QED BY <1>5, <2>1, <3>1, <3>2 DEF Installed
    <2> QED BY <2>2, <2>3
  <1>7. /\ home' \in [Blocks -> Values] /\ cache' \in [Blocks -> Values \cup {NoData}]
        /\ dirty' \in [Blocks -> BOOLEAN] /\ tail' \in 0..LOGSIZE
    BY <1>1, <1>2, <1>3, <1>4, ConstFacts
  <1> QED BY <1>2, <1>3, <1>5, <1>6, <1>7

\* install_trans copies a block home: it reads as before.
LEMMA DataInstall ==
  ASSUME Inv, NEW p \in Procs, Install(p)
  PROVE  DataInv' /\ \A c \in Blocks : Read(c)' = Read(c)
  <1>1. /\ UNCHANGED <<logged, head, lh, boot, locked, wrote>> /\ pc[p] = "install"
        /\ InstallBlock(lh[tail + 1])
    BY DEF Install, At
  <1>2. /\ boot = "up" /\ \A q \in Procs : q # p => pc[q] \notin Phases
        /\ tail < Len(lh) /\ head = lh /\ Copied(Len(lh)) /\ Installed(tail) /\ Clean(tail)
        /\ \A q \in Procs : locked[q] = NoBlock
        /\ \A c \in Blocks : Free(c)
    BY <1>1, InvFacts, CommitterAlone DEF CommitPhase, Phases
  <1>3. PICK b \in Blocks : b = lh[tail + 1]
    BY <1>1, <1>2, InstallFacts
  <1>4. PICK v \in Values : v = logged[tail + 1]
    BY <1>1, <1>2, InstallFacts
  <1>5. \A c \in Blocks : /\ home'[c] = (IF c = b THEN v ELSE home[c])
                          /\ cache'[c] = (IF c = b THEN v ELSE cache[c])
                          /\ dirty'[c] = (c # b /\ dirty[c])
    BY <1>1, <1>2, <1>3, <1>4, InstallFacts
  <1>6. \A i \in 1..(tail + 1) : home'[lh[i]] = logged[i]
    BY <1>1, <1>2, InstallFacts
  <1>7. v = Read(b) /\ v # NoData /\ tail + 1 \in 1..Len(lh) /\ tail \in Nat
    <2>1. tail + 1 \in 1..Len(lh)
      BY <1>1, <1>2, InstallFacts
    <2> QED BY <1>2, <1>3, <1>4, <2>1, InvFacts, ConstFacts DEF Copied, DataOK
  <1>8. \A c \in Blocks : Read(c)' = Read(c)
    BY <1>5, <1>7 DEF Read
  <1>9. \A i \in 1..(tail + 1) : lh[i] \in Blocks /\ ~dirty'[lh[i]]
    <2> SUFFICES ASSUME NEW i \in 1..(tail + 1) PROVE lh[i] \in Blocks /\ ~dirty'[lh[i]]
      OBVIOUS
    <2>1. lh[i] \in Blocks
      BY <1>7, InvFacts
    <2>2. CASE i = tail + 1
      BY <1>3, <1>5, <2>2
    <2>3. CASE i # tail + 1
      <3>1. i \in 1..tail
        BY <1>7, <2>3
      <3> QED BY <1>2, <1>5, <2>1, <3>1 DEF Clean
    <2> QED BY <2>1, <2>2, <2>3
  <1>10. DataOK'
    <2>1. /\ home' \in [Blocks -> Values] /\ cache' \in [Blocks -> Values \cup {NoData}]
          /\ dirty' \in [Blocks -> BOOLEAN] /\ tail' \in 0..LOGSIZE
      BY <1>1, <1>2, InstallFacts
    <2> QED BY <1>1, <2>1, InvFacts DEF DataOK
  <1>11. ListsOnce' /\ BootPhase'
    BY <1>1, <1>2, InvFacts DEF ListsOnce, Once, BootPhase
  <1>12. Kept'
    BY <1>1, <1>2, <1>5, <1>7, InvFacts DEF Kept
  <1>13. CleanSame'
    BY <1>2, <1>5, InvFacts DEF CleanSame
  <1>14. Copied(Len(lh))'
    BY <1>1, <1>2, <1>8, InvFacts DEF Copied
  <1>15. CASE tail + 1 < Len(lh)
    <2>1. tail' = tail + 1 /\ pc' = pc
      BY <1>15 DEF Install, InstallBlock
    <2>2. Uncommitted'
      BY <1>1, <2>1 DEF Uncommitted, Installing
    <2>3. Installed(tail)' /\ Clean(tail)'
      BY <1>1, <1>6, <1>9, <2>1 DEF Installed, Clean
    <2>4. \A q \in Procs : CommitPhase(q)'
      BY <1>1, <1>2, <1>14, <1>15, <2>1, <2>3 DEF CommitPhase, Phases
    <2> QED BY <1>8, <1>10, <1>11, <1>12, <1>13, <2>2, <2>4 DEF DataInv
  <1>16. CASE ~(tail + 1 < Len(lh))
    <2>1. pc'[p] = "clear" /\ \A q \in Procs : q # p => pc'[q] = pc[q]
      BY <1>16, InvFacts, PcGo DEF Install, Points
    <2>2. Uncommitted'
      BY <2>1 DEF Uncommitted, Installing
    <2>3. Len(lh) = tail + 1
      BY <1>7, <1>16, InvFacts
    <2>4. Installed(Len(lh))' /\ Clean(Len(lh))'
      BY <1>1, <1>6, <1>9, <2>3 DEF Installed, Clean
    <2>5. \A q \in Procs : CommitPhase(q)'
      BY <1>1, <1>2, <1>14, <2>1, <2>4 DEF CommitPhase, Phases
    <2> QED BY <1>8, <1>10, <1>11, <1>12, <1>13, <2>2, <2>5 DEF DataInv
  <1> QED BY <1>15, <1>16

\* With the header cleared after the last block is at home, nothing is dirty.
LEMMA DataClearHead ==
  ASSUME Inv, NEW p \in Procs, ClearHead(p)
  PROVE  DataInv'
  <1>1. /\ UNCHANGED <<home, logged, cache, dirty, tail, boot, locked, wrote>> /\ pc[p] = "clear"
        /\ lh' = <<>> /\ head' = <<>>
    BY DEF ClearHead, At, bufVars
  <1>2. boot = "up" /\ Clean(Len(lh)) /\ \A q \in Procs : q # p => pc[q] \notin Phases
    BY <1>1, InvFacts, CommitterAlone DEF CommitPhase, Phases
  <1>3. pc'[p] = "done" /\ \A q \in Procs : q # p => pc'[q] = pc[q]
    BY InvFacts, PcGo DEF ClearHead, Points
  <1>4. \A c \in Blocks : ~dirty[c]
    BY <1>2, InvFacts DEF Kept, Clean
  <1>5. DataOK' /\ Kept' /\ CleanSame' /\ BootPhase'
    BY <1>1, <1>2, <1>4, InvFacts DEF DataOK, Kept, CleanSame, Free, BootPhase
  <1>6. ListsOnce' /\ Uncommitted'
    BY <1>1, ConstFacts DEF ListsOnce, Once, Uncommitted
  <1>7. \A q \in Procs : CommitPhase(q)'
    BY <1>2, <1>3 DEF CommitPhase, Phases
  <1> QED BY <1>5, <1>6, <1>7 DEF DataInv

\* A crash drops the cache; the log and its header stay.
LEMMA DataCrash ==
  ASSUME Inv, Crash
  PROVE  DataInv'
  <1>1. /\ UNCHANGED <<home, logged, head>>
        /\ cache' = [b \in Blocks |-> NoData] /\ dirty' = [b \in Blocks |-> FALSE]
        /\ lh' = <<>> /\ tail' = 0 /\ boot' = "read_head" /\ pc' = [p \in Procs |-> "idle"]
        /\ locked' = [p \in Procs |-> NoBlock] /\ wrote' = [p \in Procs |-> {}]
    BY DEF Crash, diskVars
  <1>2. DataOK'
    BY <1>1, ConstFacts, InvFacts DEF DataOK
  <1>3. ListsOnce' /\ Kept' /\ CleanSame' /\ Uncommitted' /\ BootPhase'
    BY <1>1, InvFacts DEF ListsOnce, Once, Kept, CleanSame, Uncommitted, BootPhase
  <1>4. \A q \in Procs : CommitPhase(q)'
    BY <1>1 DEF CommitPhase
  <1> QED BY <1>2, <1>3, <1>4 DEF DataInv

\* While initlog runs nobody holds a buffer, and every buffer is a copy of its block.
LEMMA BootFacts ==
  ASSUME Inv, boot # "up"
  PROVE  /\ \A q \in Procs : pc[q] = "idle" /\ locked[q] = NoBlock
         /\ \A b \in Blocks : ~dirty[b] /\ Free(b) /\ (cache[b] # NoData => cache[b] = home[b])
  <1>1. \A q \in Procs : pc[q] = "idle" /\ locked[q] = NoBlock
    BY InvFacts DEF ControlInv, BootAlone, HeldInLogWrite
  <1>2. \A b \in Blocks : ~dirty[b] /\ Free(b)
    BY <1>1, InvFacts, ConstFacts DEF BootPhase, Free
  <1> QED BY <1>1, <1>2, InvFacts DEF CleanSame

\* read_head.
LEMMA DataReadHead ==
  ASSUME Inv, ReadHead
  PROVE  DataInv'
  <1>1. /\ UNCHANGED <<home, logged, head, cache, dirty, tail, pc, locked, wrote>> /\ boot = "read_head"
        /\ lh' = head /\ boot' = IF head = <<>> THEN "clear" ELSE "install"
    BY DEF ReadHead, diskVars, bufVars
  <1>2. tail = 0 /\ \A q \in Procs : pc[q] = "idle" /\ locked[q] = NoBlock
    BY <1>1, InvFacts, BootFacts DEF BootPhase
  <1>3. \A b \in Blocks : ~dirty[b]
    BY <1>1, BootFacts
  <1>4. DataOK' /\ ListsOnce' /\ Kept' /\ CleanSame' /\ Uncommitted'
    BY <1>1, <1>2, <1>3, InvFacts DEF DataOK, ListsOnce, Once, Kept, CleanSame, Free, Uncommitted
  <1>5. head # <<>> => 0 < Len(head)
    BY InvFacts DEF ControlOK
  <1>6. head = <<>> => Len(head) = 0
    OBVIOUS
  <1>7. BootPhase'
    BY <1>1, <1>2, <1>3, <1>5, <1>6 DEF BootPhase, Installed
  <1>8. \A q \in Procs : CommitPhase(q)'
    BY <1>1, <1>2 DEF CommitPhase
  <1> QED BY <1>4, <1>7, <1>8 DEF DataInv

\* install_trans in a recovery copies a listed block home.
LEMMA DataRecoverBlock ==
  ASSUME Inv, RecoverBlock
  PROVE  DataInv'
  <1>1. /\ UNCHANGED <<logged, head, lh, pc, locked, wrote>> /\ boot = "install"
        /\ boot' = (IF tail + 1 < Len(lh) THEN boot ELSE "clear")
        /\ InstallBlock(lh[tail + 1])
    BY DEF RecoverBlock
  <1>2. lh = head /\ tail < Len(lh) /\ Installed(tail)
    BY <1>1, InvFacts DEF BootPhase
  <1>3. PICK b \in Blocks : b = lh[tail + 1]
    BY <1>1, <1>2, InstallFacts
  <1>4. PICK v \in Values : v = logged[tail + 1]
    BY <1>1, <1>2, InstallFacts
  <1>5. \A c \in Blocks : /\ home'[c] = (IF c = b THEN v ELSE home[c])
                          /\ cache'[c] = (IF c = b THEN v ELSE cache[c])
                          /\ dirty'[c] = (c # b /\ dirty[c])
    BY <1>1, <1>2, <1>3, <1>4, InstallFacts
  <1>6. \A i \in 1..(tail + 1) : home'[lh[i]] = logged[i]
    BY <1>1, <1>2, InstallFacts
  <1>7. /\ \A q \in Procs : pc[q] = "idle" /\ locked[q] = NoBlock
        /\ \A c \in Blocks : ~dirty[c] /\ (cache[c] # NoData => cache[c] = home[c])
    BY <1>1, BootFacts
  <1>8. DataOK'
    <2>1. /\ home' \in [Blocks -> Values] /\ cache' \in [Blocks -> Values \cup {NoData}]
          /\ dirty' \in [Blocks -> BOOLEAN] /\ tail' \in 0..LOGSIZE
      BY <1>1, <1>2, InstallFacts
    <2> QED BY <1>1, <2>1, InvFacts DEF DataOK
  <1>9. ListsOnce' /\ Kept' /\ CleanSame' /\ Uncommitted'
    <2>1. ListsOnce' /\ Uncommitted'
      BY <1>1, InvFacts DEF ListsOnce, Once, Uncommitted
    <2>2. \A c \in Blocks : ~dirty'[c] /\ (cache'[c] # NoData => cache'[c] = home'[c])
      BY <1>5, <1>7
    <2> QED BY <1>1, <1>7, <2>1, <2>2 DEF Kept, CleanSame
  <1>10. tail \in Nat
    BY InvFacts, ConstFacts DEF DataOK
  <1>11. BootPhase'
    <2>1. CASE tail + 1 < Len(lh)
      <3>1. tail' = tail + 1 /\ boot' = "install"
        BY <1>1, <2>1 DEF InstallBlock
      <3>2. Installed(tail)'
        BY <1>1, <1>6, <3>1 DEF Installed
      <3> QED BY <1>1, <1>2, <1>5, <1>7, <2>1, <3>1, <3>2 DEF BootPhase
    <2>2. CASE ~(tail + 1 < Len(lh))
      <3>1. boot' = "clear" /\ Len(lh) = tail + 1
        BY <1>1, <1>2, <1>10, <2>2, InvFacts
      <3>2. Installed(Len(lh))'
        BY <1>1, <1>6, <3>1 DEF Installed
      <3> QED BY <1>1, <1>2, <1>5, <1>7, <3>1, <3>2 DEF BootPhase
    <2> QED BY <2>1, <2>2
  <1>12. \A q \in Procs : CommitPhase(q)'
    BY <1>1, <1>7 DEF CommitPhase
  <1> QED BY <1>8, <1>9, <1>11, <1>12 DEF DataInv

\* The recovery clears the header when all listed blocks are home.
LEMMA DataClearLog ==
  ASSUME Inv, ClearLog
  PROVE  DataInv'
  <1>1. /\ UNCHANGED <<home, logged, cache, dirty, tail, pc, locked, wrote>> /\ boot = "clear"
        /\ lh' = <<>> /\ head' = <<>> /\ boot' = "up"
    BY DEF ClearLog, bufVars
  <1>2. /\ \A q \in Procs : pc[q] = "idle" /\ locked[q] = NoBlock
        /\ \A c \in Blocks : ~dirty[c]
    BY <1>1, BootFacts
  <1>3. DataOK' /\ Kept' /\ CleanSame' /\ BootPhase'
    BY <1>1, <1>2, InvFacts DEF DataOK, Kept, CleanSame, Free, BootPhase
  <1>4. ListsOnce' /\ Uncommitted'
    BY <1>1, ConstFacts DEF ListsOnce, Once, Uncommitted
  <1>5. \A q \in Procs : CommitPhase(q)'
    BY <1>1, <1>2 DEF CommitPhase
  <1> QED BY <1>3, <1>4, <1>5 DEF DataInv

\* Every step preserves DataInv while the log is not overrun.
LEMMA DataNext == Inv /\ [Next]_vars => DataInv'
  <1> SUFFICES ASSUME Inv, [Next]_vars PROVE DataInv'
    OBVIOUS
  <1>0. wrote \in [Procs -> SUBSET Blocks] /\ pc \in [Procs -> Points]
    BY InvFacts DEF DataOK, ControlOK
  <1>1. ASSUME NEW p \in Procs, Begin(p) PROVE DataInv'
    <2>1. PICK at \in {"op", "asleep", "begin"} : Go(p, at)
      BY <1>1 DEF Begin, BeginOp, BeginSleeps, KillWakes
    <2>2. pc'[p] = at /\ \A q \in Procs : q # p => pc'[q] = pc[q]
      BY <2>1, InvFacts, PcGo DEF Points
    <2>3. pc[p] \in {"idle", "begin", "asleep"}
      BY <1>1 DEF Begin, BeginOp, BeginSleeps, KillWakes, At
    <2> QED BY <1>0, <1>1, <2>2, <2>3, DataQuiet
            DEF Begin, BeginOp, BeginSleeps, KillWakes, diskVars, bufVars, Phases
  <1>2. ASSUME NEW p \in Procs, Writes(p) \/ EndOp(p) PROVE DataInv'
    <2>1. ASSUME NEW b \in Blocks, LogPanics(p, b) PROVE DataInv'
      BY <1>0, <2>1, DataQuiet DEF LogPanics, diskVars, bufVars
    <2> QED BY <1>2, <2>1, DataLogWrite, DataModify, DataEndOp DEF Writes
  <1>3. ASSUME NEW p \in Procs, Commit(p) PROVE DataInv'
    <2>1. CASE CommitDone(p)
      <3>1. /\ pc'[p] = "idle" /\ pc[p] = "done"
            /\ \A q \in Procs : q # p => pc'[q] = IF pc[q] = "asleep" THEN "begin" ELSE pc[q]
        BY <2>1, InvFacts, PcWaking DEF CommitDone, Points, At
      <3> QED BY <1>0, <2>1, <3>1, DataQuiet DEF CommitDone, diskVars, bufVars, Phases
    <2> QED BY <1>3, <2>1, DataWriteLog, DataWriteHead, DataInstall, DataClearHead DEF Commit
  <1>4. ASSUME NEW b \in Blocks, Fill(b) \/ Evict(b) PROVE DataInv'
    BY <1>4, DataFill
  <1>5. CASE Recover
    BY <1>5, DataReadHead, DataRecoverBlock, DataClearLog DEF Recover
  <1>6. CASE UNCHANGED vars
    BY <1>0, <1>6, DataQuiet DEF vars, diskVars, bufVars
  <1> QED BY <1>1, <1>2, <1>3, <1>4, <1>5, <1>6, DataCrash DEF Next

-----------------------------------------------------------------------------
(* The refinement *)

\* What a restart finds in a block of the header, and in any other block.
LEMMA RecoveredListed ==
  ASSUME Once(head), NEW i \in 1..Len(head)
  PROVE  head[i] \in Blocks => Recovered[head[i]] = logged[i]
  <1>1. \A j \in 1..Len(head) : head[j] = head[i] => j = i
    BY DEF Once
  <1>2. (CHOOSE j \in 1..Len(head) : head[j] = head[i]) = i
    BY <1>1
  <1> QED BY <1>2 DEF Recovered

\* A block that the header does not list is recovered as it is at home.
LEMMA RecoveredOther ==
  ASSUME NEW b \in Blocks, \A i \in 1..Len(head) : head[i] # b
  PROVE  Recovered[b] = home[b]
  BY DEF Recovered

\* After a step a listed block is recovered from the log.
LEMMA RecoveredListedNext ==
  ASSUME Once(head'), NEW i \in 1..Len(head')
  PROVE  head'[i] \in Blocks => Recovered'[head'[i]] = logged'[i]
  <1>1. \A j \in 1..Len(head') : head'[j] = head'[i] => j = i
    BY DEF Once
  <1>2. (CHOOSE j \in 1..Len(head') : head'[j] = head'[i]) = i
    BY <1>1
  <1> QED BY <1>2 DEF Recovered

\* After a step any other block is recovered as it is at home.
LEMMA RecoveredOtherNext ==
  ASSUME NEW b \in Blocks, \A i \in 1..Len(head') : head'[i] # b
  PROVE  Recovered'[b] = home'[b]
  BY DEF Recovered

\* Block by block the same means the same.
LEMMA RecoveredSame ==
  ASSUME \A b \in Blocks : Recovered'[b] = Recovered[b]
  PROVE  Recovered' = Recovered
  BY DEF Recovered

\* Steps that write neither home blocks nor the header, and write no log block that the
\* header names.
LEMMA RecoveredKept ==
  ASSUME UNCHANGED <<home, head>>, head = <<>> \/ logged' = logged
  PROVE  Recovered' = Recovered
  <1>1. CASE head = <<>>
    <2>1. Len(head) = 0
      BY <1>1
    <2>2. \A b \in Blocks : Recovered'[b] = Recovered[b]
      BY <2>1, RecoveredOther, RecoveredOtherNext
    <2> QED BY <2>2, RecoveredSame
  <1>2. CASE logged' = logged
    BY <1>2 DEF Recovered
  <1> QED BY <1>1, <1>2

\* A step that leaves every block reading the same leaves the current contents.
LEMMA CurrentKept ==
  ASSUME boot = "up", boot' = "up", \A b \in Blocks : Read(b)' = Read(b)
  PROVE  Current' = Current
  BY DEF Current

Seen == <<Recovered, Current, outstanding>>

\* write_head commits: the disk becomes, in one step, what the operations had read.
LEMMA HeadSeen ==
  ASSUME Inv, DataInv', NEW p \in Procs, WriteHead(p)
  PROVE  Disk!Commit
  <1>1. /\ UNCHANGED <<home, logged, cache, dirty, lh, boot, outstanding>>
        /\ pc[p] = "write_head" /\ head' = lh
    BY DEF WriteHead, At, bufVars
  <1>2. boot = "up" /\ outstanding = 0 /\ Copied(Len(lh)) /\ \A b \in Blocks : Free(b)
    BY <1>1, InvFacts, CommitterAlone DEF CommitPhase, Phases
  <1>3. Once(head')
    BY <1>1, InvFacts DEF ListsOnce
  <1>4. ASSUME NEW b \in Blocks PROVE Recovered'[b] = Read(b)
    <2>1. ASSUME NEW i \in 1..Len(lh), lh[i] = b PROVE Recovered'[b] = Read(b)
      BY <1>1, <1>2, <1>3, <2>1, RecoveredListedNext DEF Copied
    <2>2. CASE \A i \in 1..Len(lh) : lh[i] # b
      <3>1. Recovered'[b] = home[b]
        BY <1>1, <2>2, RecoveredOtherNext
      <3>2. ~dirty[b]
        BY <2>2, InvFacts DEF Kept
      <3> QED BY <1>2, <3>1, <3>2, InvFacts DEF CleanSame, Read
    <2> QED BY <2>1, <2>2
  <1>5. Current = [b \in Blocks |-> Read(b)]
    BY <1>2 DEF Current
  <1>6. Recovered' = Current
    BY <1>4, <1>5 DEF Recovered
  <1>7. Current' = Current
    BY <1>1, <1>2, CurrentKept DEF Read
  <1> QED BY <1>1, <1>2, <1>6, <1>7 DEF Disk!Commit

\* A block moves from the log to its home, which a restart would do as well.
LEMMA InstallSeen ==
  ASSUME Inv, InstallBlock(lh[tail + 1]), tail < Len(lh), Installed(tail), head = lh,
         UNCHANGED <<logged, head>>
  PROVE  Recovered' = Recovered
  <1>1. Once(head)
    BY InvFacts DEF ListsOnce
  <1>2. ASSUME NEW b \in Blocks PROVE Recovered'[b] = Recovered[b]
    <2>1. ASSUME NEW i \in 1..Len(head), head[i] = b PROVE Recovered'[b] = Recovered[b]
      BY <1>1, <2>1, RecoveredListed, RecoveredListedNext
    <2>2. CASE \A i \in 1..Len(head) : head[i] # b
      <3>1. Recovered'[b] = home'[b] /\ Recovered[b] = home[b]
        BY <2>2, RecoveredOther, RecoveredOtherNext
      <3>2. home'[b] = home[b]
        BY <2>2, InstallFacts
      <3> QED BY <3>1, <3>2
    <2> QED BY <2>1, <2>2
  <1> QED BY <1>2, RecoveredSame

\* Clearing a header whose blocks are all at home changes nothing a restart would find.
LEMMA ClearSeen ==
  ASSUME Inv, Installed(Len(lh)), head = lh, head' = <<>>, home' = home
  PROVE  Recovered' = Recovered /\ \A b \in Blocks : Recovered[b] = home[b]
  <1>1. Once(head)
    BY InvFacts DEF ListsOnce
  <1>2. Len(head') = 0
    OBVIOUS
  <1>3. ASSUME NEW b \in Blocks PROVE Recovered[b] = home[b] /\ Recovered'[b] = home[b]
    <2>1. ASSUME NEW i \in 1..Len(head), head[i] = b PROVE Recovered[b] = home[b]
      BY <1>1, <2>1, RecoveredListed DEF Installed
    <2>2. ASSUME \A i \in 1..Len(head) : head[i] # b PROVE Recovered[b] = home[b]
      BY <2>2, RecoveredOther
    <2>3. Recovered'[b] = home[b]
      BY <1>2, RecoveredOtherNext
    <2> QED BY <2>1, <2>2, <2>3
  <1> QED BY <1>3, RecoveredSame

\* The steps of an operation.
LEMMA OperationSeen ==
  ASSUME Inv, NEW p \in Procs, Begin(p) \/ Writes(p) \/ EndOp(p)
  PROVE  Disk!Next \/ UNCHANGED Seen
  <1>1. UNCHANGED <<home, logged, head, boot>> /\ boot = "up"
    BY DEF Begin, BeginOp, BeginSleeps, KillWakes, Writes, LogWrite, LogPanics, Modify, MayWrite,
           EndOp, At, Up, diskVars
  <1>2. Recovered' = Recovered
    BY <1>1, RecoveredKept
  <1>3. ASSUME cache' = cache PROVE Current' = Current
    BY <1>1, <1>3, CurrentKept DEF Read
  <1>4. CASE BeginOp(p)
    BY <1>2, <1>3, <1>4 DEF BeginOp, bufVars, Disk!Begin, Disk!Next
  <1>5. CASE BeginSleeps(p) \/ KillWakes(p) \/ LogWrite(p)
    BY <1>2, <1>3, <1>5 DEF BeginSleeps, KillWakes, LogWrite, bufVars, Seen
  <1>6. ASSUME NEW b \in Blocks, LogPanics(p, b) PROVE UNCHANGED Seen
    BY <1>2, <1>3, <1>6 DEF LogPanics, bufVars, Seen
  <1>7. ASSUME NEW b \in Blocks, NEW v \in Values, Modify(p, b, v) PROVE Disk!Next
    <2>1. cache' = [cache EXCEPT ![b] = v] /\ outstanding' = outstanding /\ pc[p] = "op"
      BY <1>7 DEF Modify, MayWrite, At
    <2>2. outstanding > 0
      BY <2>1, InvFacts, OpenPositive
    <2>3. \A c \in Blocks : Read(c)' = IF c = b THEN v ELSE Read(c)
      BY <1>1, <2>1, InvFacts, ConstFacts DEF Read, DataOK
    <2>4. Current' = [Current EXCEPT ![b] = v]
      BY <1>1, <2>3 DEF Current
    <2>5. Disk!Write
      BY <1>2, <2>1, <2>2, <2>4 DEF Disk!Write
    <2> QED BY <2>5 DEF Disk!Next
  <1>8. CASE EndOp(p)
    <2>1. pc[p] = "op" /\ outstanding' = outstanding - 1 /\ cache' = cache
      BY <1>8 DEF EndOp, At, bufVars
    <2>2. outstanding > 0
      BY <2>1, InvFacts, OpenPositive
    <2> QED BY <1>2, <1>3, <2>1, <2>2 DEF Disk!End, Disk!Next
  <1> QED BY <1>4, <1>5, <1>6, <1>7, <1>8 DEF Begin, Writes

\* The steps of a commit.
LEMMA CommitSeen ==
  ASSUME Inv, DataInv', NEW p \in Procs, Commit(p)
  PROVE  Disk!Next \/ UNCHANGED Seen
  <1>1. boot = "up" /\ boot' = "up" /\ outstanding' = outstanding
    BY DEF Commit, WriteLog, WriteHead, Install, ClearHead, CommitDone, At, Up
  <1>2. CASE WriteLog(p)
    <2>1. pc[p] = "write_log" /\ UNCHANGED <<home, head, cache>>
      BY <1>2 DEF WriteLog, At, bufVars
    <2>2. Installing = {}
      BY <2>1, InvFacts, CommitterAlone DEF Installing, Phases
    <2>3. head = <<>>
      BY <1>1, <2>2, InvFacts DEF Uncommitted
    <2>4. Recovered' = Recovered
      BY <2>1, <2>3, RecoveredKept
    <2>5. Current' = Current
      BY <1>1, <2>1, CurrentKept DEF Read
    <2> QED BY <1>1, <2>4, <2>5 DEF Seen
  <1>3. CASE WriteHead(p)
    BY <1>3, HeadSeen DEF Disk!Next
  <1>4. CASE Install(p)
    <2>1. /\ UNCHANGED <<logged, head>> /\ pc[p] = "install" /\ InstallBlock(lh[tail + 1])
      BY <1>4 DEF Install, At
    <2>2. tail < Len(lh) /\ head = lh /\ Installed(tail)
      BY <2>1, InvFacts DEF CommitPhase
    <2>3. Recovered' = Recovered
      BY <2>1, <2>2, InstallSeen
    <2>4. Current' = Current
      BY <1>1, <1>4, DataInstall, CurrentKept
    <2> QED BY <1>1, <2>3, <2>4 DEF Seen
  <1>5. CASE ClearHead(p)
    <2>1. pc[p] = "clear" /\ head' = <<>> /\ UNCHANGED <<home, cache>>
      BY <1>5 DEF ClearHead, At, bufVars
    <2>2. head = lh /\ Installed(Len(lh))
      BY <2>1, InvFacts DEF CommitPhase
    <2>3. Recovered' = Recovered
      BY <2>1, <2>2, ClearSeen
    <2>4. Current' = Current
      BY <1>1, <2>1, CurrentKept DEF Read
    <2> QED BY <1>1, <2>3, <2>4 DEF Seen
  <1>6. CASE CommitDone(p)
    <2>1. UNCHANGED <<home, logged, head, cache>>
      BY <1>6 DEF CommitDone, diskVars, bufVars
    <2>2. Recovered' = Recovered
      BY <2>1, RecoveredKept
    <2>3. Current' = Current
      BY <1>1, <2>1, CurrentKept DEF Read
    <2> QED BY <1>1, <2>2, <2>3 DEF Seen
  <1> QED BY <1>2, <1>3, <1>4, <1>5, <1>6 DEF Commit

\* A crash takes the operations back to the disk, and no step of the recovery shows.
LEMMA RestartSeen ==
  ASSUME Inv, Crash \/ Recover
  PROVE  Disk!Next \/ UNCHANGED Seen
  <1>1. CASE Crash
    <2>1. UNCHANGED <<home, logged, head>> /\ boot' = "read_head" /\ outstanding' = 0
      BY <1>1 DEF Crash, diskVars
    <2>2. Recovered' = Recovered
      BY <2>1, RecoveredKept
    <2>3. Current' = Recovered'
      BY <2>1 DEF Current
    <2> QED BY <2>1, <2>2, <2>3 DEF Disk!Crash, Disk!Next
  <1>2. CASE ReadHead
    <2>1. UNCHANGED <<home, logged, head, outstanding>> /\ boot # "up" /\ boot' # "up"
      BY <1>2 DEF ReadHead, diskVars
    <2> QED BY <2>1, RecoveredKept DEF Current, Seen
  <1>3. CASE RecoverBlock
    <2>1. /\ UNCHANGED <<logged, head, outstanding>> /\ InstallBlock(lh[tail + 1])
          /\ boot = "install" /\ boot' # "up"
      BY <1>3 DEF RecoverBlock
    <2>2. tail < Len(lh) /\ head = lh /\ Installed(tail)
      BY <2>1, InvFacts DEF BootPhase
    <2>3. Recovered' = Recovered
      BY <2>1, <2>2, InstallSeen
    <2> QED BY <2>1, <2>3 DEF Current, Seen
  <1>4. CASE ClearLog
    <2>1. /\ UNCHANGED <<home, cache, outstanding>> /\ head' = <<>>
          /\ boot = "clear" /\ boot' = "up"
      BY <1>4 DEF ClearLog, bufVars
    <2>2. head = lh /\ Installed(Len(lh))
      BY <2>1, InvFacts DEF BootPhase
    <2>3. Recovered' = Recovered /\ \A b \in Blocks : Recovered[b] = home[b]
      BY <2>1, <2>2, ClearSeen
    <2>4. \A b \in Blocks : Read(b)' = home[b]
      BY <2>1, BootFacts DEF Read
    <2>5. Current = Recovered /\ Current' = [b \in Blocks |-> Read(b)']
      BY <2>1 DEF Current
    <2>6. Recovered = [b \in Blocks |-> Recovered[b]]
      BY DEF Recovered
    <2>7. \A b \in Blocks : Recovered[b] = Read(b)'
      BY <2>3, <2>4
    <2>8. Current' = Current
      BY <2>5, <2>6, <2>7
    <2> QED BY <2>1, <2>3, <2>8 DEF Seen
  <1> QED BY <1>1, <1>2, <1>3, <1>4 DEF Recover

\* Every step is a step of AtomicDisk, or shows nothing.
LEMMA StepSeen == Inv /\ DataInv' /\ [Next]_vars => [Disk!Next]_Seen
  <1> SUFFICES ASSUME Inv, DataInv', [Next]_vars PROVE Disk!Next \/ UNCHANGED Seen
    OBVIOUS
  <1>1. ASSUME NEW b \in Blocks, Fill(b) \/ Evict(b) PROVE UNCHANGED Seen
    <2>1. UNCHANGED <<home, logged, head, boot, outstanding>> /\ boot = "up"
      BY <1>1 DEF Fill, Evict, Up, diskVars
    <2>2. Recovered' = Recovered
      BY <2>1, RecoveredKept
    <2>3. Current' = Current
      BY <1>1, <2>1, DataFill, CurrentKept
    <2> QED BY <2>1, <2>2, <2>3 DEF Seen
  <1>2. CASE UNCHANGED vars
    <2>1. UNCHANGED <<home, logged, head, cache, boot, outstanding>>
      BY <1>2 DEF vars, diskVars, bufVars
    <2>2. Recovered' = Recovered
      BY <2>1, RecoveredKept
    <2>3. Current' = Current
      BY <2>1, <2>2 DEF Current, Read
    <2> QED BY <2>1, <2>2, <2>3 DEF Seen
  <1> QED BY <1>1, <1>2, OperationSeen, CommitSeen, RestartSeen DEF Next

\* The first disk is an initial AtomicDisk.
LEMMA InitSeen == Init => Disk!Init
  <1> SUFFICES ASSUME Init PROVE Disk!Init
    OBVIOUS
  <1>1. PICK v \in Values : home = [b \in Blocks |-> v]
    BY DEF Init
  <1>2. head = <<>> /\ boot = "read_head" /\ outstanding = 0
    BY DEF Init
  <1>3. Len(head) = 0
    BY <1>2
  <1>4. \A b \in Blocks : Recovered[b] \in Values
    BY <1>1, <1>3, RecoveredOther
  <1>5. Recovered \in [Blocks -> Values]
    BY <1>4 DEF Recovered
  <1> QED BY <1>2, <1>5 DEF Disk!Init, Current

\* The log, the cache and recover_from_log together are one disk that changes atomically
\* between operations, wherever the machine crashes, in a recovery too (log.c), as long as
\* log_write does not run over the array log.lh.block, which it does not check under log.lock.
THEOREM LogImplementsAtomicDisk == Spec /\ []LogFits => ImplementsAtomicDisk
  <1>1. ControlInv /\ DataInv /\ LogFits <=> Inv
    BY DEF Inv
  <1>2. [Disk!Next]_Seen => [Disk!Next]_<<Recovered, Current, outstanding>>
    BY DEF Seen
  <1> QED BY <1>1, <1>2, ControlInit, ControlNext, DataInit, DataNext, StepSeen, InitSeen, PTL
          DEF Spec, ImplementsAtomicDisk, Disk!Spec

\* When the last operation has returned from end_op, all that was written is in its home
\* block, and no recovery would change it (log.c: end_op, commit).
THEOREM IdleIsDurable == Spec /\ []LogFits => []IdleDurable
  <1>1. Inv => IdleDurable
    <2> SUFFICES ASSUME Inv, Up, outstanding = 0, ~committing, NEW b \in Blocks
                 PROVE  home[b] = Read(b) /\ Recovered[b] = Read(b)
      BY DEF IdleDurable
    <2>1. lh = <<>> /\ Len(lh) = 0
      BY InvFacts DEF ControlInv, IdleEmpty, Up
    <2>2. Installing = {}
      BY InvFacts DEF ControlInv, OneCommitter, Committing, Installing
    <2>3. head = <<>> /\ Len(head) = 0
      BY <2>2, InvFacts DEF Uncommitted, Up
    <2>4. Free(b)
      BY InvFacts, OpenNone, ConstFacts DEF Free
    <2>5. ~dirty[b]
      BY <2>1, InvFacts DEF Kept
    <2>6. home[b] = Read(b)
      BY <2>4, <2>5, InvFacts DEF CleanSame, Read
    <2> QED BY <2>3, <2>6, RecoveredOther
  <1>2. ControlInv /\ DataInv /\ LogFits <=> Inv
    BY DEF Inv
  <1> QED BY <1>1, <1>2, ControlInit, ControlNext, DataInit, DataNext, PTL DEF Spec

\* log.c: every variable keeps its type, tail and the lists of blocks staying within the log.
THEOREM LogTypes == Spec /\ []LogFits => []TypeOK
  <1>1. Inv => TypeOK
    BY InvFacts DEF TypeOK, DataOK, ControlOK
  <1>2. ControlInv /\ DataInv /\ LogFits <=> Inv
    BY DEF Inv
  <1> QED BY <1>1, <1>2, ControlInit, ControlNext, DataInit, DataNext, PTL DEF Spec

-----------------------------------------------------------------------------
(* The space: what begin_op reserves is enough for operations that keep to it *)

\* What is reserved and not used is finite.
LEMMA ReservedFinite ==
  /\ IsFiniteSet(Reserved) /\ Cardinality(Reserved) \in Nat
  /\ IsFiniteSet(Reserved') /\ Cardinality(Reserved') \in Nat
  <1>1. IsFiniteSet(1..MAXOPBLOCKS)
    BY ConstFacts, FS_Interval
  <1>2. IsFiniteSet(Procs \X (1..MAXOPBLOCKS))
    BY <1>1, ConstFacts, FS_Product
  <1>3. Reserved \subseteq Procs \X (1..MAXOPBLOCKS) /\ Reserved' \subseteq Procs \X (1..MAXOPBLOCKS)
    BY DEF Reserved
  <1>4. IsFiniteSet(Reserved) /\ IsFiniteSet(Reserved')
    BY <1>2, <1>3, FS_Subset
  <1> QED BY <1>4, FS_CardinalityType

\* An operation uses finitely many blocks of the log, at most those it wrote.
LEMMA UsedFinite ==
  ASSUME WroteOK, NEW p \in Procs
  PROVE  IsFiniteSet(Used(p)) /\ Cardinality(Used(p)) \in Nat /\ Cardinality(Used(p)) <= Cardinality(wrote[p])
  <1>1. Used(p) \subseteq wrote[p] /\ IsFiniteSet(wrote[p])
    BY DEF Used, WroteOK
  <1> QED BY <1>1, FS_Subset, FS_CardinalityType

\* The same after a step.
LEMMA UsedFiniteNext ==
  ASSUME WroteOK', NEW p \in Procs
  PROVE  IsFiniteSet(Used(p)') /\ Cardinality(Used(p)') \in Nat
  <1>1. Used(p)' \subseteq wrote'[p] /\ IsFiniteSet(wrote'[p])
    BY DEF Used, WroteOK
  <1> QED BY <1>1, FS_Subset, FS_CardinalityType

\* Using what was reserved takes it from the reservation.
LEMMA ReservedLess ==
  ASSUME WroteOK, WroteOK', Open' \subseteq Open, \A q \in Open' : Used(q) \subseteq Used(q)'
  PROVE  Reserved' \subseteq Reserved
  <1> SUFFICES ASSUME NEW r \in Reserved' PROVE r \in Reserved
    OBVIOUS
  <1>1. PICK q \in Procs, k \in 1..MAXOPBLOCKS : r = <<q, k>>
    BY DEF Reserved
  <1>2. q \in Open' /\ k > Cardinality(Used(q)')
    BY <1>1 DEF Reserved
  <1>3. Cardinality(Used(q)) <= Cardinality(Used(q)')
    BY <1>2, UsedFiniteNext, FS_Subset
  <1>4. Cardinality(Used(q)) \in Nat /\ Cardinality(Used(q)') \in Nat
    BY UsedFinite, UsedFiniteNext
  <1>5. q \in Open /\ k > Cardinality(Used(q))
    BY <1>2, <1>3, <1>4, ConstFacts
  <1> QED BY <1>1, <1>5 DEF Reserved

\* A step that lists no block and admits no operation keeps the reservation.
LEMMA SpaceKept ==
  ASSUME ControlInv, SpaceInv, WroteOK', lh' = lh, head' = head \/ head' = lh,
         Open' \subseteq Open, \A q \in Open' : wrote[q] \subseteq wrote'[q]
  PROVE  SpaceInv'
  <1>1. \A q \in Open' : Used(q) \subseteq Used(q)'
    BY DEF Used
  <1>2. Reserved' \subseteq Reserved
    BY <1>1, ReservedLess DEF SpaceInv
  <1>3. Cardinality(Reserved') <= Cardinality(Reserved)
    BY <1>2, ReservedFinite, FS_Subset
  <1>4. Len(lh) \in Nat /\ Len(head) \in Nat
    BY DEF ControlInv, ControlOK
  <1> QED BY <1>3, <1>4, ReservedFinite, ConstFacts DEF SpaceInv

\* With no operation in progress the blocks listed need only fit.
LEMMA SpaceEmpty ==
  ASSUME SpaceInv, WroteOK', Open' = {}, Len(lh') <= LOGSIZE, Len(lh') \in Nat, Len(head') <= LOGSIZE
  PROVE  SpaceInv'
  <1>1. Reserved' = {}
    BY DEF Reserved
  <1>2. Cardinality(Reserved') = 0
    BY <1>1, FS_EmptySet
  <1> QED BY <1>2, ConstFacts DEF SpaceInv

\* At first the log is empty.
LEMMA SpaceInit == MaxWrites <= MAXOPBLOCKS /\ Init => SpaceInv
  <1> SUFFICES ASSUME MaxWrites <= MAXOPBLOCKS, Init PROVE SpaceInv
    OBVIOUS
  <1>1. /\ lh = <<>> /\ head = <<>> /\ pc = [p \in Procs |-> "idle"]
        /\ locked = [p \in Procs |-> NoBlock] /\ wrote = [p \in Procs |-> {}]
    BY DEF Init
  <1> HIDE DEF Init
  <1>2. WroteOK
    BY <1>1, FS_EmptySet, ConstFacts DEF WroteOK
  <1>3. Reserved = {}
    BY <1>1 DEF Reserved, Open
  <1>4. Cardinality(Reserved) = 0
    BY <1>3, FS_EmptySet
  <1> QED BY <1>1, <1>2, <1>4, ConstFacts DEF SpaceInv

\* begin_op admits an operation only if it and all that are in progress find room.
LEMMA SpaceBeginOp ==
  ASSUME ControlInv, SpaceInv, NEW p \in Procs, BeginOp(p)
  PROVE  SpaceInv'
  <1>1. /\ pc[p] \in {"idle", "begin"} /\ Fits /\ outstanding' = outstanding + 1
        /\ UNCHANGED <<lh, head, locked, wrote>>
    BY DEF BeginOp, At, diskVars
  <1>2. pc'[p] = "op" /\ \A q \in Procs : q # p => pc'[q] = pc[q]
    BY PcGo DEF BeginOp, Points
  <1>3. Cardinality(Open') = outstanding + 1 /\ outstanding \in Nat
    BY <1>1, <1>2, OpenMore DEF ControlInv, ControlOK, Open, OpenCounted
  <1>4. Cardinality(1..MAXOPBLOCKS) = MAXOPBLOCKS /\ IsFiniteSet(1..MAXOPBLOCKS)
    BY ConstFacts, FS_Interval
  <1>5. /\ IsFiniteSet(Open' \X (1..MAXOPBLOCKS))
        /\ Cardinality(Open' \X (1..MAXOPBLOCKS)) = (outstanding + 1) * MAXOPBLOCKS
    BY <1>3, <1>4, OpenFinite, FS_Product
  <1>6. Reserved' \subseteq Open' \X (1..MAXOPBLOCKS)
    BY DEF Reserved
  <1>7. Cardinality(Reserved') <= (outstanding + 1) * MAXOPBLOCKS
    BY <1>5, <1>6, FS_Subset
  <1>8. PICK n \in Nat : n = (outstanding + 1) * MAXOPBLOCKS
    BY <1>3, ConstFacts
  <1>9. Len(lh) + n <= LOGSIZE /\ Len(lh) \in Nat
    BY <1>1, <1>8 DEF Fits, ControlInv, ControlOK
  <1>10. Len(lh') + Cardinality(Reserved') <= LOGSIZE
    BY <1>1, <1>7, <1>8, <1>9, ReservedFinite, ConstFacts
  <1>11. WroteOK'
    BY <1>1 DEF SpaceInv, WroteOK
  <1> QED BY <1>1, <1>10, <1>11 DEF SpaceInv

\* An operation writes at most MaxWrites different blocks.
LEMMA SpaceModify ==
  ASSUME ControlInv, SpaceInv, NEW p \in Procs, NEW b \in Blocks, NEW v \in Values, Modify(p, b, v)
  PROVE  SpaceInv'
  <1>1. /\ pc[p] = "op" /\ UNCHANGED <<lh, head>>
        /\ locked' = [locked EXCEPT ![p] = b] /\ wrote' = [wrote EXCEPT ![p] = @ \cup {b}]
        /\ Cardinality(wrote[p] \cup {b}) <= MaxWrites
    BY DEF Modify, MayWrite, At, diskVars
  <1>2. pc'[p] = "log_write" /\ \A q \in Procs : q # p => pc'[q] = pc[q]
    BY PcGo DEF Modify, Points
  <1>3. Open' \subseteq Open
    BY <1>1, <1>2 DEF Open
  <1>4. wrote \in [Procs -> SUBSET Blocks] /\ locked \in [Procs -> Blocks \cup {NoBlock}]
    BY DEF SpaceInv, WroteOK, ControlInv, ControlOK
  <1>5. \A q \in Procs : wrote'[q] = IF q = p THEN wrote[p] \cup {b} ELSE wrote[q]
    BY <1>1, <1>4
  <1>6. IsFiniteSet(wrote[p] \cup {b})
    BY FS_AddElement DEF SpaceInv, WroteOK
  <1>7. WroteOK'
    <2>1. wrote' \in [Procs -> SUBSET Blocks]
      BY <1>1, <1>4
    <2>2. \A q \in Procs : IsFiniteSet(wrote'[q]) /\ Cardinality(wrote'[q]) <= MaxWrites
      BY <1>1, <1>5, <1>6 DEF SpaceInv, WroteOK
    <2>3. \A q \in Procs : locked'[q] # NoBlock => locked'[q] \in wrote'[q]
      BY <1>1, <1>4, <1>5 DEF SpaceInv, WroteOK
    <2> QED BY <2>1, <2>2, <2>3 DEF WroteOK
  <1>8. \A q \in Open' : wrote[q] \subseteq wrote'[q]
    BY <1>5 DEF Open
  <1> QED BY <1>1, <1>3, <1>7, <1>8, SpaceKept

\* log_write: a block that is new in the log uses one that its operation has reserved.
LEMMA SpaceLogWrite ==
  ASSUME ControlInv, SpaceInv, NEW p \in Procs, LogWrite(p)
  PROVE  SpaceInv'
  <1>1. /\ pc[p] = "log_write" /\ UNCHANGED <<head, wrote>>
        /\ lh' = WithBlock(locked[p]) /\ locked' = [locked EXCEPT ![p] = NoBlock]
    BY DEF LogWrite, At, diskVars
  <1>2. pc'[p] = "op" /\ \A q \in Procs : q # p => pc'[q] = pc[q]
    BY PcGo DEF LogWrite, Points
  <1>3. Open' = Open /\ p \in Open
    BY <1>1, <1>2 DEF Open
  <1>4. /\ wrote \in [Procs -> SUBSET Blocks] /\ locked \in [Procs -> Blocks \cup {NoBlock}]
        /\ lh \in Seq(Blocks) /\ Len(lh) \in Nat
    BY DEF SpaceInv, WroteOK, ControlInv, ControlOK
  <1>5. PICK b \in Blocks : b = locked[p] /\ b \in wrote[p]
    BY <1>1, <1>4 DEF ControlInv, HeldInLogWrite, SpaceInv, WroteOK
  <1>6. WroteOK'
    BY <1>1, <1>4 DEF SpaceInv, WroteOK
  <1>7. CASE \E i \in 1..Len(lh) : lh[i] = b
    <2>1. lh' = lh
      BY <1>1, <1>5, <1>7 DEF WithBlock
    <2> QED BY <1>1, <1>3, <1>6, <2>1, SpaceKept
  <1>8. CASE ~ \E i \in 1..Len(lh) : lh[i] = b
    <2>1. lh' = Append(lh, b) /\ Len(lh') = Len(lh) + 1
      BY <1>1, <1>4, <1>5, <1>8 DEF WithBlock
    <2>2. lh'[Len(lh) + 1] = b /\ \A i \in 1..Len(lh) : lh'[i] = lh[i]
      BY <1>4, <2>1
    <2>3. (\A i \in 1..Len(lh) : i \in 1..Len(lh')) /\ Len(lh) + 1 \in 1..Len(lh')
      BY <1>4, <2>1
    <2>4. \A q \in Procs : Used(q) \subseteq Used(q)'
      BY <1>1, <2>2, <2>3 DEF Used
    <2>5. Used(p) \cup {b} \subseteq Used(p)' /\ b \notin Used(p)
      BY <1>1, <1>5, <1>8, <2>2, <2>3, <2>4 DEF Used
    <2>6. PICK u \in Nat : u = Cardinality(Used(p))
      BY UsedFinite DEF SpaceInv
    <2>7. Cardinality(Used(p) \cup {b}) = u + 1
      BY <2>5, <2>6, UsedFinite, FS_AddElement DEF SpaceInv
    <2>8. u + 1 <= Cardinality(Used(p)') /\ Cardinality(Used(p)') \in Nat
      BY <1>6, <2>5, <2>7, UsedFiniteNext, FS_Subset
    <2>9. u + 1 \in 1..MAXOPBLOCKS
      <3>1. Used(p)' \subseteq wrote[p] /\ IsFiniteSet(wrote[p]) /\ Cardinality(wrote[p]) <= MaxWrites
        BY <1>1 DEF Used, SpaceInv, WroteOK
      <3>2. Cardinality(Used(p)') <= Cardinality(wrote[p]) /\ Cardinality(wrote[p]) \in Nat
        BY <3>1, FS_Subset, FS_CardinalityType
      <3> QED BY <2>8, <3>1, <3>2, ConstFacts DEF SpaceInv
    <2>10. <<p, u + 1>> \in Reserved
      BY <1>3, <2>6, <2>9 DEF Reserved
    <2>11. <<p, u + 1>> \notin Reserved'
      BY <2>8 DEF Reserved
    <2>12. Reserved' \subseteq Reserved
      BY <1>3, <1>6, <2>4, ReservedLess DEF SpaceInv, Open
    <2>13. Reserved' \subseteq Reserved \ {<<p, u + 1>>}
      BY <2>11, <2>12
    <2>14. /\ IsFiniteSet(Reserved \ {<<p, u + 1>>})
           /\ Cardinality(Reserved \ {<<p, u + 1>>}) = Cardinality(Reserved) - 1
      BY <2>10, ReservedFinite, FS_RemoveElement
    <2>15. Cardinality(Reserved') <= Cardinality(Reserved) - 1
      BY <2>13, <2>14, FS_Subset
    <2> QED BY <1>1, <1>4, <1>6, <2>1, <2>15, ReservedFinite, ConstFacts DEF SpaceInv
  <1> QED BY <1>7, <1>8

\* end_op gives its reservation back, what it has listed stays.
LEMMA SpaceEndOp ==
  ASSUME ControlInv, SpaceInv, NEW p \in Procs, EndOp(p)
  PROVE  SpaceInv'
  <1>1. /\ pc[p] = "op" /\ UNCHANGED <<lh, head, locked>> /\ wrote' = [wrote EXCEPT ![p] = {}]
    BY DEF EndOp, At, diskVars
  <1>2. \A q \in Procs : pc'[q] \in {"op", "log_write"} => q # p /\ pc[q] \in {"op", "log_write"}
    <2>1. CASE outstanding = 1
      <3>1. PICK at \in {"done", "write_log"} : Go(p, at)
        BY <2>1 DEF EndOp
      <3> QED BY <3>1, PcGo DEF Points
    <2>2. CASE outstanding # 1
      <3>1. GoWaking(p, "idle")
        BY <2>2 DEF EndOp
      <3> QED BY <3>1, PcWaking DEF Points
    <2> QED BY <2>1, <2>2
  <1>3. Open' \subseteq Open /\ p \notin Open'
    BY <1>2 DEF Open
  <1>4. wrote \in [Procs -> SUBSET Blocks] /\ locked[p] = NoBlock
    BY <1>1 DEF SpaceInv, WroteOK, ControlInv, HeldInLogWrite
  <1>5. \A q \in Procs : wrote'[q] = IF q = p THEN {} ELSE wrote[q]
    BY <1>1, <1>4
  <1>6. WroteOK'
    <2>1. wrote' \in [Procs -> SUBSET Blocks]
      BY <1>1, <1>4
    <2>2. \A q \in Procs : IsFiniteSet(wrote'[q]) /\ Cardinality(wrote'[q]) <= MaxWrites
      BY <1>5, FS_EmptySet, ConstFacts DEF SpaceInv, WroteOK
    <2>3. \A q \in Procs : locked'[q] # NoBlock => locked'[q] \in wrote'[q]
      BY <1>1, <1>4, <1>5 DEF SpaceInv, WroteOK
    <2> QED BY <2>1, <2>2, <2>3 DEF WroteOK
  <1>7. \A q \in Open' : wrote[q] \subseteq wrote'[q]
    BY <1>3, <1>5 DEF Open
  <1> QED BY <1>1, <1>3, <1>6, <1>7, SpaceKept

\* The steps that leave the operations in progress and their blocks as they are.
LEMMA SpaceQuiet ==
  ASSUME ControlInv, SpaceInv, UNCHANGED <<lh, locked, wrote>>, head' = head \/ head' = lh,
         \A q \in Procs : pc'[q] \in {"op", "log_write"} => pc[q] \in {"op", "log_write"}
  PROVE  SpaceInv'
  <1>1. Open' \subseteq Open
    BY DEF Open
  <1>2. WroteOK'
    BY DEF SpaceInv, WroteOK
  <1> QED BY <1>1, <1>2, SpaceKept

\* The steps of a commit list nothing new.
LEMMA SpaceCommit ==
  ASSUME ControlInv, SpaceInv, NEW p \in Procs, Commit(p)
  PROVE  SpaceInv'
  <1>1. CASE WriteLog(p) \/ WriteHead(p) \/ Install(p)
    <2>1. pc' = pc \/ Go(p, "write_head") \/ Go(p, "install") \/ Go(p, "clear")
      BY <1>1 DEF WriteLog, WriteHead, Install
    <2>2. \A q \in Procs : pc'[q] \in {"op", "log_write"} => pc[q] \in {"op", "log_write"}
      BY <2>1, PcGo DEF Points
    <2> QED BY <1>1, <2>2, SpaceQuiet DEF WriteLog, WriteHead, Install
  <1>2. CASE ClearHead(p)
    <2>1. lh' = <<>> /\ head' = <<>> /\ UNCHANGED <<locked, wrote>> /\ pc[p] = "clear"
      BY <1>2 DEF ClearHead, At
    <2>2. Open = {}
      BY <2>1, OpenNone DEF ControlInv, OneCommitter, Committing
    <2>3. Open' = {}
      BY <1>2, <2>2, PcGo DEF ClearHead, Points, Open
    <2>4. WroteOK'
      BY <2>1 DEF SpaceInv, WroteOK
    <2> QED BY <2>1, <2>3, <2>4, SpaceEmpty, ConstFacts
  <1>3. CASE CommitDone(p)
    <2>1. \A q \in Procs : pc'[q] \in {"op", "log_write"} => pc[q] \in {"op", "log_write"}
      BY <1>3, PcWaking DEF CommitDone, Points
    <2> QED BY <1>3, <2>1, SpaceQuiet DEF CommitDone, diskVars
  <1> QED BY <1>1, <1>2, <1>3 DEF Commit

\* A crash empties log.lh, and recovery lists what the header lists.
LEMMA SpaceRestart ==
  ASSUME ControlInv, SpaceInv, Crash \/ Recover
  PROVE  SpaceInv'
  <1>0. Len(lh) \in Nat /\ Len(head) \in Nat
    BY DEF ControlInv, ControlOK
  <1>1. CASE Crash
    <2>1. /\ lh' = <<>> /\ head' = head /\ pc' = [p \in Procs |-> "idle"]
          /\ locked' = [p \in Procs |-> NoBlock] /\ wrote' = [p \in Procs |-> {}]
      BY <1>1 DEF Crash, diskVars
    <2>2. WroteOK'
      BY <2>1, FS_EmptySet, ConstFacts DEF WroteOK
    <2>3. Open' = {}
      BY <2>1 DEF Open
    <2> QED BY <2>1, <2>2, <2>3, SpaceEmpty, ConstFacts DEF SpaceInv
  <1>2. CASE ReadHead \/ ClearLog
    <2>1. /\ lh' \in {<<>>, head} /\ head' \in {<<>>, head} /\ boot # "up"
          /\ UNCHANGED <<pc, locked, wrote>>
      BY <1>2 DEF ReadHead, ClearLog, diskVars
    <2>2. Open' = {}
      BY <2>1 DEF Open, ControlInv, BootAlone
    <2>3. WroteOK'
      BY <2>1 DEF SpaceInv, WroteOK
    <2>4. Len(<<>>) = 0
      OBVIOUS
    <2>5. Len(lh') <= LOGSIZE /\ Len(lh') \in Nat /\ Len(head') <= LOGSIZE
      BY <1>0, <2>1, <2>4, ConstFacts DEF SpaceInv
    <2> QED BY <2>2, <2>3, <2>5, SpaceEmpty
  <1>3. CASE RecoverBlock
    BY <1>3, SpaceQuiet DEF RecoverBlock
  <1> QED BY <1>1, <1>2, <1>3 DEF Recover

\* Every step preserves SpaceInv.
LEMMA SpaceNext == ControlInv /\ SpaceInv /\ [Next]_vars => SpaceInv'
  <1> SUFFICES ASSUME ControlInv, SpaceInv, [Next]_vars PROVE SpaceInv'
    OBVIOUS
  <1>1. ASSUME NEW p \in Procs, BeginSleeps(p) \/ KillWakes(p) PROVE SpaceInv'
    <2>1. Go(p, "asleep") \/ Go(p, "begin")
      BY <1>1 DEF BeginSleeps, KillWakes
    <2>2. \A q \in Procs : pc'[q] \in {"op", "log_write"} => pc[q] \in {"op", "log_write"}
      BY <2>1, PcGo DEF Points
    <2> QED BY <1>1, <2>2, SpaceQuiet DEF BeginSleeps, KillWakes, diskVars
  <1>2. ASSUME NEW p \in Procs, NEW b \in Blocks, LogPanics(p, b) PROVE SpaceInv'
    BY <1>2, SpaceQuiet DEF LogPanics, diskVars
  <1>3. ASSUME NEW b \in Blocks, Fill(b) \/ Evict(b) PROVE SpaceInv'
    BY <1>3, SpaceQuiet DEF Fill, Evict, diskVars
  <1>4. CASE UNCHANGED vars
    BY <1>4, SpaceQuiet DEF vars, diskVars
  <1>5. ASSUME NEW p \in Procs, Begin(p) \/ Writes(p) \/ EndOp(p) \/ Commit(p) PROVE SpaceInv'
    BY <1>1, <1>2, <1>5, SpaceBeginOp, SpaceModify, SpaceLogWrite, SpaceEndOp, SpaceCommit DEF Begin, Writes
  <1> QED BY <1>3, <1>4, <1>5, SpaceRestart DEF Next

\* Reservations keep the list within LOGSIZE.
LEMMA SpaceFits == ControlInv /\ SpaceInv => LogFits
  BY ReservedFinite, ConstFacts DEF SpaceInv, LogFits, ControlInv, ControlOK

\* begin_op's reservation keeps log_write from writing past log.lh.block, if no operation
\* writes more than MAXOPBLOCKS blocks: log_write's own check, made before log.lock is taken,
\* is not needed (log.c: begin_op, log_write).
THEOREM ReservationKeepsLog == MaxWrites <= MAXOPBLOCKS => (Spec => []LogFits)
  BY SpaceFits, ControlInit, ControlNext, SpaceInit, SpaceNext, PTL DEF Spec

\* With such operations the file system has its atomic disk without further conditions.
THEOREM ReservedLogImplementsAtomicDisk == MaxWrites <= MAXOPBLOCKS => (Spec => ImplementsAtomicDisk)
  BY ReservationKeepsLog, LogImplementsAtomicDisk, PTL

=============================================================================
