----------------------------- MODULE DiskProofs -----------------------------
(***************************************************************************)
(* The buffer cache implements BlockStore and counts its users exactly,    *)
(* for every number of processes, buffers and blocks and both drivers.     *)
(***************************************************************************)
EXTENDS Disk, FiniteSetTheorems, SequenceTheorems, WellFoundedInduction, TLAPS

Holding == {"have", "rw", "asleep", "awake", "logged"}
Points  == {"user", "lock", "release"} \cup Holding

Buffer == [blk : Blocks \cup {0}, valid : BOOLEAN, dirty : BOOLEAN, ref : Nat,
           lock : Procs \cup {0}, data : Values]

TypeOK ==
  /\ buf \in [Bufs -> Buffer]
  /\ mru \in Seq(Bufs)
  /\ queue \in Seq(Bufs)
  /\ drive \in [wr : BOOLEAN, blk : Blocks \cup {0}, data : Values]
  /\ disk \in [Blocks -> Values]
  /\ at \in [Procs -> [pc : Points, b : Bufs \cup {0}]]

\* Every buffer is in the list, so that brelse finds the one it moves.
MruAll == Bufs \subseteq Range(mru)

\* bget makes no second buffer for a block.
OneBuffer == \A b, c \in Bufs : buf[b].blk = buf[c].blk /\ buf[b].blk # 0 => b = c

\* A process between bget and the end of brelse has a buffer with a block.
UserHasBuffer ==
  \A p \in Procs : IF at[p].pc = "user" THEN at[p].b = 0
                   ELSE at[p].b \in Bufs /\ buf[at[p].b].blk # 0

\* The sleep-lock names the process that is between acquiresleep and releasesleep.
LockExact ==
  \A p \in Procs, b \in Bufs : buf[b].lock = p <=> at[p].b = b /\ at[p].pc \in Holding

\* bread returns a valid buffer, and only a valid one is changed.
HaveValid  == \A p \in Procs : at[p].pc \in {"have", "logged"} => buf[at[p].b].valid
DirtyValid == \A b \in Bufs : buf[b].dirty => buf[b].valid

\* A clean buffer is a copy of its block, so that recycling it loses nothing.
CleanSame ==
  \A b \in Bufs : buf[b].blk # 0 /\ buf[b].valid /\ ~buf[b].dirty => buf[b].data = disk[buf[b].blk]

\* The queue holds buffers of sleepers, each once, and the drive works on the first.
QueueAsleep ==
  \A k \in 1..Len(queue) : \E p \in Procs : at[p].pc = "asleep" /\ at[p].b = queue[k]
QueueOnce == \A j, k \in 1..Len(queue) : queue[j] = queue[k] => j = k
DriveHead == IF queue = <<>> THEN drive.blk = 0 ELSE drive = Idestart(Head(queue))

\* The inductive invariant.
Inv ==
  /\ TypeOK /\ MruAll /\ OneBuffer /\ UserHasBuffer /\ LockExact /\ HaveValid /\ DirtyValid
  /\ CleanSame /\ QueueAsleep /\ QueueOnce /\ DriveHead /\ CountExact

-----------------------------------------------------------------------------
(* Facts about the constants and the operators *)

\* What the assumption says about the constants.
LEMMA ConstFacts ==
  /\ NBUF \in Nat /\ NBUF > 0 /\ IsFiniteSet(Procs) /\ 0 \notin Procs /\ 0 \notin Blocks
  /\ 0 \notin Bufs /\ Bufs \subseteq Nat /\ Idling.data \in Values
  <1>1. (CHOOSE v \in Values : TRUE) \in Values
    BY DiskAssumption
  <1> QED BY <1>1, DiskAssumption DEF Bufs, Idling

\* A set of positions in a list has a last one, which Max returns.
LEMMA MaxIn ==
  ASSUME NEW n \in Nat, NEW S, S \subseteq 1..n, S # {}
  PROVE  Max(S) \in S
  <1> DEFINE Above(x) == {y \in S : y > x}
             T == {Above(x) : x \in S}
             R == StrictSubsetOrdering(1..n)
  <1>1. T # {} /\ T \subseteq SUBSET (1..n)
    OBVIOUS
  <1>2. IsWellFoundedOn(R, SUBSET (1..n))
    <2>1. IsFiniteSet(1..n)
      BY FS_Interval
    <2>2. FiniteSubsetsOf(1..n) = SUBSET (1..n)
      BY <2>1, FS_FiniteSubsetsOfFinite
    <2>3. IsWellFoundedOn(StrictSubsetOrdering(1..n), FiniteSubsetsOf(1..n))
      BY FS_StrictSubsetOrderingWellFounded
    <2> QED BY <2>2, <2>3
  <1>3. PICK A \in T : \A B \in T : ~ (<<B, A>> \in R)
    <2> HIDE DEF T, R
    <2> QED BY <1>1, <1>2, WFMin
  <1>4. PICK x \in S : A = Above(x)
    OBVIOUS
  <1>5. ASSUME NEW y \in S, ~ (x >= y) PROVE FALSE
    <2>1. x \in Int /\ y \in Int /\ y > x
      BY <1>5
    <2>2. Above(y) \subseteq A /\ y \in A /\ y \notin Above(y)
      <3>1. \A z \in S : z \in Int
        OBVIOUS
      <3>2. ASSUME NEW z \in S, z > y PROVE z > x
        <4>1. z \in Int
          BY <3>1
        <4> QED BY <2>1, <3>2, <4>1
      <3>3. ~ (y > y)
        BY <2>1
      <3> HIDE <1>5
      <3>4. Above(y) \subseteq A
        BY <1>4, <3>2
      <3>5. y \in A
        BY <1>4, <2>1
      <3> QED BY <3>3, <3>4, <3>5
    <2>3. Above(y) \in T /\ Above(y) \in SUBSET (1..n) /\ A \in SUBSET (1..n)
      BY <1>1
    <2>4. <<Above(y), A>> \in R
      BY <2>2, <2>3 DEF StrictSubsetOrdering
    <2> HIDE DEF T, R, Above
    <2> QED BY <1>3, <2>3, <2>4
  <1> QED BY <1>5 DEF Max

\* The initial state satisfies the invariant.
LEMMA InitInv == Init => Inv
  <1> SUFFICES ASSUME Init PROVE Inv
    OBVIOUS
  <1> USE ConstFacts DEF Init
  <1>0. mru \in [1..NBUF -> Bufs] /\ mru \in Seq(Bufs) /\ Len(mru) = NBUF
    <2>1. \A k \in 1..NBUF : NBUF - k + 1 \in 1..NBUF
      OBVIOUS
    <2>2. mru = [k \in 1..NBUF |-> NBUF - k + 1]
      BY DEF Bufs
    <2>3. mru \in [1..NBUF -> Bufs]
      BY <2>1, <2>2 DEF Bufs
    <2> QED BY <2>3, IsASeq, LenProperties
  <1>1. TypeOK
    <2>1. NoBuf \in Buffer
      BY DEF NoBuf, Buffer
    <2>2. drive \in [wr : BOOLEAN, blk : Blocks \cup {0}, data : Values]
      BY DEF Idling
    <2>3. at \in [Procs -> [pc : Points, b : Bufs \cup {0}]]
      BY DEF Points
    <2> QED BY <1>0, <2>1, <2>2, <2>3 DEF TypeOK
  <1>2. MruAll
    <2>1. Range(mru) = {mru[i] : i \in 1..Len(mru)}
      <3> HIDE DEF Init
      <3> QED BY <1>0, RangeEquality
    <2>2. ASSUME NEW b \in Bufs PROVE \E k \in 1..Len(mru) : mru[k] = b
      <3>1. NBUF - b + 1 \in 1..NBUF /\ NBUF - (NBUF - b + 1) + 1 = b
        BY DEF Bufs
      <3> QED BY <1>0, <3>1 DEF Bufs
    <2>3. Bufs \subseteq {mru[i] : i \in 1..Len(mru)}
      BY <2>2
    <2> QED BY <2>1, <2>3 DEF MruAll
  <1>3. OneBuffer /\ UserHasBuffer /\ HaveValid /\ DirtyValid /\ CleanSame
    BY DEF OneBuffer, UserHasBuffer, HaveValid, DirtyValid, CleanSame, NoBuf
  <1>4. LockExact
    BY DEF LockExact, NoBuf, Holding
  <1>5. QueueAsleep /\ QueueOnce /\ DriveHead
    BY DEF QueueAsleep, QueueOnce, DriveHead, Idling
  <1>6. CountExact
    <2>1. \A b \in Bufs : Users(b) = {}
      BY DEF Users
    <2> QED BY <2>1, FS_EmptySet DEF CountExact, NoBuf
  <1> QED BY <1>1, <1>2, <1>3, <1>4, <1>5, <1>6 DEF Inv

-----------------------------------------------------------------------------
(* Consequences of the invariant that the steps below need *)

\* A process that is past bget has a buffer of the cache with one of the blocks.
LEMMA UserFacts ==
  ASSUME Inv, NEW p \in Procs, at[p].pc # "user"
  PROVE  at[p].b \in Bufs /\ buf[at[p].b] \in Buffer /\ buf[at[p].b].blk \in Blocks
  BY DEF Inv, TypeOK, UserHasBuffer, Buffer

\* A buffer has finitely many users.
LEMMA UsersFinite ==
  ASSUME NEW b PROVE IsFiniteSet(Users(b)) /\ IsFiniteSet(Users(b)')
  <1>1. Users(b) \subseteq Procs /\ Users(b)' \subseteq Procs
    BY DEF Users
  <1> QED BY <1>1, ConstFacts, FS_Subset

\* A buffer that is not counted has no users.
LEMMA UncountedFree ==
  ASSUME Inv, NEW b \in Bufs, buf[b].ref = 0, NEW q \in Procs
  PROVE  at[q].b # b
  <1>1. Cardinality(Users(b)) = 0
    BY DEF Inv, CountExact
  <1>2. Users(b) = {}
    BY <1>1, UsersFinite, FS_EmptySet
  <1> QED BY <1>2 DEF Users

\* A buffer is not in the queue unless the process that has its lock is asleep.
LEMMA NotQueued ==
  ASSUME Inv, NEW b \in Bufs, \A q \in Procs : ~ (at[q].b = b /\ at[q].pc = "asleep")
  PROVE  \A k \in 1..Len(queue) : queue[k] # b
  BY DEF Inv, QueueAsleep

\* Two processes do not hold one buffer.
LEMMA OneHolder ==
  ASSUME Inv, NEW p \in Procs, NEW q \in Procs, at[p].b \in Bufs, at[p].b = at[q].b,
         at[p].pc \in Holding, at[q].pc \in Holding
  PROVE  p = q
  BY DEF Inv, LockExact

\* What the drive was told stays right while the queued buffers do not change.
LEMMA DriveKept ==
  ASSUME Inv, UNCHANGED <<queue, drive>>,
         \A k \in 1..Len(queue) : /\ buf'[queue[k]].blk = buf[queue[k]].blk
                                  /\ buf'[queue[k]].dirty = buf[queue[k]].dirty
                                  /\ buf'[queue[k]].data = buf[queue[k]].data
  PROVE  DriveHead'
  <1>1. CASE queue = <<>>
    BY <1>1 DEF Inv, DriveHead
  <1>2. CASE queue # <<>>
    <2>1. queue \in Seq(Bufs) /\ Len(queue) >= 1 /\ Head(queue) = queue[1]
      BY <1>2 DEF Inv, TypeOK
    <2>2. drive = Idestart(Head(queue))
      BY <1>2 DEF Inv, DriveHead
    <2>3. Idestart(Head(queue))' = Idestart(Head(queue))
      BY <2>1 DEF Idestart
    <2> QED BY <1>2, <2>2, <2>3 DEF DriveHead
  <1> QED BY <1>1, <1>2

\* The counts stay exact while nobody gets or drops a buffer.
LEMMA CountKept ==
  ASSUME Inv, \A q \in Procs : at'[q].b = at[q].b, \A b \in Bufs : buf'[b].ref = buf[b].ref
  PROVE  CountExact'
  <1>1. \A b \in Bufs : Users(b)' = Users(b)
    BY DEF Users
  <1> QED BY <1>1 DEF Inv, CountExact

-----------------------------------------------------------------------------
(* One lemma per action: the action preserves the invariant. *)

\* bget finds the block in a buffer and counts one more user.
LEMMA BgetHitStep ==
  ASSUME Inv, NEW p \in Procs, NEW n \in Blocks, BgetHit(p, n)
  PROVE  Inv'
  <1>1. PICK b \in Bufs : b = (CHOOSE c \in Cached(n) : TRUE) /\ buf[b].blk = n
    BY DEF BgetHit, Cached
  <1>2. /\ buf' = [buf EXCEPT ![b].ref = @ + 1]
        /\ at' = [at EXCEPT ![p] = [pc |-> "lock", b |-> b]]
        /\ at[p].pc = "user"
        /\ UNCHANGED <<mru, queue, drive, disk>>
    BY <1>1 DEF BgetHit, Is, devices
  <1>3. buf \in [Bufs -> Buffer] /\ at \in [Procs -> [pc : Points, b : Bufs \cup {0}]] /\ buf[b].blk # 0 /\ at[p].b = 0
    BY <1>1, <1>2, ConstFacts DEF Inv, TypeOK, UserHasBuffer
  <1>4. \A c \in Bufs : /\ buf'[c].blk = buf[c].blk /\ buf'[c].valid = buf[c].valid
                        /\ buf'[c].dirty = buf[c].dirty /\ buf'[c].lock = buf[c].lock
                        /\ buf'[c].data = buf[c].data
                        /\ buf'[c].ref = IF c = b THEN buf[c].ref + 1 ELSE buf[c].ref
    BY <1>2, <1>3 DEF Buffer
  <1>5. \A q \in Procs : q # p => at'[q] = at[q]
    BY <1>2, <1>3
  <1>6. at'[p].pc = "lock" /\ at'[p].b = b
    BY <1>2, <1>3
  <1>7. TypeOK'
    <2>1. buf' \in [Bufs -> Buffer]
      BY <1>2, <1>3 DEF Buffer
    <2>2. at' \in [Procs -> [pc : Points, b : Bufs \cup {0}]]
      BY <1>2, <1>3 DEF Points
    <2> QED BY <1>2, <2>1, <2>2 DEF Inv, TypeOK
  <1>8. MruAll' /\ QueueOnce'
    BY <1>2 DEF Inv, MruAll, QueueOnce
  <1>9. OneBuffer' /\ DirtyValid' /\ CleanSame'
    BY <1>2, <1>4 DEF Inv, OneBuffer, DirtyValid, CleanSame
  <1>10. UserHasBuffer'
    BY <1>3, <1>4, <1>5, <1>6 DEF Inv, UserHasBuffer
  <1>11. LockExact'
    BY <1>2, <1>3, <1>4, <1>5, <1>6, ConstFacts DEF Inv, LockExact, Holding
  <1>12. HaveValid'
    BY <1>3, <1>4, <1>5, <1>6 DEF Inv, HaveValid, UserHasBuffer
  <1>13. QueueAsleep'
    BY <1>2, <1>5 DEF Inv, QueueAsleep
  <1>14. DriveHead'
    BY <1>2, <1>4, DriveKept DEF Inv, TypeOK
  <1>15. CountExact'
    <2>1. Users(b)' = Users(b) \cup {p} /\ p \notin Users(b)
      BY <1>3, <1>5, <1>6, ConstFacts DEF Users
    <2>2. \A c \in Bufs : c # b => Users(c)' = Users(c)
      BY <1>3, <1>5, <1>6, ConstFacts DEF Users
    <2>3. Cardinality(Users(b)') = Cardinality(Users(b)) + 1
      BY <2>1, UsersFinite, FS_AddElement
    <2> QED BY <1>4, <2>2, <2>3 DEF Inv, CountExact
  <1> QED BY <1>7, <1>8, <1>9, <1>10, <1>11, <1>12, <1>13, <1>14, <1>15 DEF Inv

\* bget takes a buffer that nobody uses and that is not dirty.
LEMMA BgetRecycleStep ==
  ASSUME Inv, NEW p \in Procs, NEW n \in Blocks, BgetRecycle(p, n)
  PROVE  Inv'
  <1> DEFINE free == {k \in DOMAIN mru : Unused(mru[k])}
  <1>0. free \subseteq 1..Len(mru) /\ Len(mru) \in Nat /\ free # {}
    BY DEF Inv, TypeOK, BgetRecycle
  <1>1. PICK b \in Bufs : b = mru[Max(free)] /\ buf[b].ref = 0 /\ ~buf[b].dirty
    <2>1. Max(free) \in free
      <3> HIDE DEF free
      <3> QED BY <1>0, MaxIn
    <2>2. mru[Max(free)] \in Bufs
      BY <1>0, <2>1 DEF Inv, TypeOK
    <2> QED BY <2>1, <2>2 DEF Unused
  <1>2. /\ buf' = [buf EXCEPT ![b] = [@ EXCEPT !.blk = n, !.valid = FALSE, !.dirty = FALSE, !.ref = 1]]
        /\ at' = [at EXCEPT ![p] = [pc |-> "lock", b |-> b]]
        /\ at[p].pc = "user" /\ \A c \in Bufs : buf[c].blk # n
        /\ UNCHANGED <<mru, queue, drive, disk>>
    BY <1>1 DEF BgetRecycle, Is, devices, Cached
  <1>3. buf \in [Bufs -> Buffer] /\ at \in [Procs -> [pc : Points, b : Bufs \cup {0}]] /\ n # 0 /\ at[p].b = 0
    BY <1>2, ConstFacts DEF Inv, TypeOK, UserHasBuffer
  <1>4. \A q \in Procs : at[q].b # b
    BY <1>1, UncountedFree
  <1> HIDE <1>1 DEF free
  <1>5. \A c \in Bufs : IF c = b THEN /\ buf'[c].blk = n /\ buf'[c].valid = FALSE /\ buf'[c].dirty = FALSE
                                      /\ buf'[c].ref = 1 /\ buf'[c].lock = buf[c].lock
                                 ELSE buf'[c] = buf[c]
    BY <1>2, <1>3 DEF Buffer
  <1>6. \A q \in Procs : q # p => at'[q] = at[q]
    BY <1>2, <1>3
  <1>7. at'[p].pc = "lock" /\ at'[p].b = b
    BY <1>2, <1>3
  <1>8. TypeOK'
    <2>1. buf' \in [Bufs -> Buffer]
      <3>1. PICK x \in Buffer : x = buf[b]
        BY <1>3
      <3>2. [x EXCEPT !.blk = n] \in Buffer
        BY DEF Buffer
      <3>3. [x EXCEPT !.blk = n, !.valid = FALSE] \in Buffer
        BY DEF Buffer
      <3>4. [x EXCEPT !.blk = n, !.valid = FALSE, !.dirty = FALSE] \in Buffer
        BY DEF Buffer
      <3>5. [x EXCEPT !.blk = n, !.valid = FALSE, !.dirty = FALSE, !.ref = 1] \in Buffer
        BY DEF Buffer
      <3> QED BY <1>2, <1>3, <3>1, <3>5
    <2>2. at' \in [Procs -> [pc : Points, b : Bufs \cup {0}]]
      BY <1>2, <1>3 DEF Points
    <2> QED BY <1>2, <2>1, <2>2 DEF Inv, TypeOK
  <1>9. MruAll' /\ QueueOnce'
    BY <1>2 DEF Inv, MruAll, QueueOnce
  <1>10. OneBuffer' /\ DirtyValid' /\ CleanSame'
    BY <1>2, <1>5 DEF Inv, OneBuffer, DirtyValid, CleanSame
  <1>11. UserHasBuffer'
    BY <1>3, <1>4, <1>5, <1>6, <1>7 DEF Inv, UserHasBuffer
  <1>12. LockExact'
    BY <1>2, <1>3, <1>4, <1>5, <1>6, <1>7, ConstFacts DEF Inv, LockExact, Holding
  <1>13. HaveValid'
    BY <1>3, <1>4, <1>5, <1>6, <1>7 DEF Inv, HaveValid, UserHasBuffer
  <1>14. QueueAsleep'
    BY <1>2, <1>6 DEF Inv, QueueAsleep
  <1>15. DriveHead'
    <2>1. \A k \in 1..Len(queue) : queue[k] \in Bufs /\ queue[k] # b
      BY <1>4, NotQueued DEF Inv, TypeOK
    <2> QED BY <1>2, <1>5, <2>1, DriveKept
  <1>16. CountExact'
    <2>1. Users(b)' = {p}
      BY <1>3, <1>4, <1>6, <1>7 DEF Users
    <2>2. \A c \in Bufs : c # b => Users(c)' = Users(c)
      BY <1>3, <1>6, <1>7, ConstFacts DEF Users
    <2>3. Cardinality(Users(b)') = 1
      BY <2>1, FS_Singleton
    <2> QED BY <1>5, <2>2, <2>3 DEF Inv, CountExact
  <1> QED BY <1>8, <1>9, <1>10, <1>11, <1>12, <1>13, <1>14, <1>15, <1>16 DEF Inv

\* acquiresleep of a buffer that is counted already.
LEMMA LockStep ==
  ASSUME Inv, NEW p \in Procs, Lock(p)
  PROVE  Inv'
  <1>1. PICK b \in Bufs : b = at[p].b /\ buf[b].blk \in Blocks /\ buf[b].lock = 0
    BY UserFacts DEF Lock, Is
  <1>2. PICK pc \in {"have", "rw"} : pc = (IF buf[b].valid THEN "have" ELSE "rw")
    OBVIOUS
  <1>3. /\ buf' = [buf EXCEPT ![b].lock = p]
        /\ at' = [at EXCEPT ![p].pc = pc]
        /\ at[p].pc = "lock"
        /\ UNCHANGED <<mru, queue, drive, disk>>
    BY <1>1, <1>2 DEF Lock, Is, Go, devices
  <1>4. buf \in [Bufs -> Buffer] /\ at \in [Procs -> [pc : Points, b : Bufs \cup {0}]]
    BY DEF Inv, TypeOK
  <1>5. \A c \in Bufs : /\ buf'[c].blk = buf[c].blk /\ buf'[c].valid = buf[c].valid
                        /\ buf'[c].dirty = buf[c].dirty /\ buf'[c].ref = buf[c].ref
                        /\ buf'[c].data = buf[c].data
                        /\ buf'[c].lock = IF c = b THEN p ELSE buf[c].lock
    BY <1>3, <1>4 DEF Buffer
  <1>6. \A q \in Procs : at'[q].b = at[q].b /\ (q # p => at'[q] = at[q])
    BY <1>3, <1>4
  <1>7. at'[p].pc = pc
    BY <1>3, <1>4
  <1>8. TypeOK'
    <2>1. buf' \in [Bufs -> Buffer]
      BY <1>3, <1>4 DEF Buffer
    <2>2. at' \in [Procs -> [pc : Points, b : Bufs \cup {0}]]
      BY <1>3, <1>4 DEF Points, Holding
    <2> QED BY <1>3, <2>1, <2>2 DEF Inv, TypeOK
  <1>9. MruAll' /\ QueueOnce'
    BY <1>3 DEF Inv, MruAll, QueueOnce
  <1>10. OneBuffer' /\ DirtyValid' /\ CleanSame'
    BY <1>3, <1>5 DEF Inv, OneBuffer, DirtyValid, CleanSame
  <1>11. UserHasBuffer'
    BY <1>3, <1>5, <1>6, <1>7 DEF Inv, UserHasBuffer
  <1>12. LockExact'
    BY <1>1, <1>3, <1>5, <1>6, <1>7, ConstFacts DEF Inv, LockExact, Holding
  <1>13. HaveValid'
    BY <1>1, <1>2, <1>5, <1>6, <1>7 DEF Inv, HaveValid, UserHasBuffer
  <1>14. QueueAsleep'
    BY <1>3, <1>6 DEF Inv, QueueAsleep
  <1>15. DriveHead'
    BY <1>3, <1>5, DriveKept DEF Inv, TypeOK
  <1>16. CountExact'
    BY <1>5, <1>6, CountKept
  <1> QED BY <1>8, <1>9, <1>10, <1>11, <1>12, <1>13, <1>14, <1>15, <1>16 DEF Inv

\* Bwrite and LogWrite change the buffer alike.
LEMMA ChangeStep ==
  ASSUME Inv, NEW p \in Procs, NEW v \in Values, Bwrite(p, v) \/ LogWrite(p, v)
  PROVE  Inv'
  <1>1. PICK b \in Bufs : b = at[p].b /\ buf[b].blk \in Blocks /\ buf[b].valid
    BY UserFacts DEF Bwrite, LogWrite, Is, Inv, HaveValid
  <1>2. PICK pc \in {"rw", "logged"} : at' = [at EXCEPT ![p].pc = pc]
    BY DEF Bwrite, LogWrite, Go
  <1>3. /\ buf' = [buf EXCEPT ![b] = [@ EXCEPT !.data = v, !.dirty = TRUE]]
        /\ at[p].pc = "have"
        /\ UNCHANGED <<mru, queue, drive, disk>>
    BY <1>1 DEF Bwrite, LogWrite, Is, devices
  <1>4. buf \in [Bufs -> Buffer] /\ at \in [Procs -> [pc : Points, b : Bufs \cup {0}]]
    BY DEF Inv, TypeOK
  <1>5. \A c \in Bufs : /\ buf'[c].blk = buf[c].blk /\ buf'[c].valid = buf[c].valid
                        /\ buf'[c].lock = buf[c].lock /\ buf'[c].ref = buf[c].ref
                        /\ buf'[c].dirty = (c = b \/ buf[c].dirty)
                        /\ (c # b => buf'[c] = buf[c])
    BY <1>3, <1>4 DEF Buffer
  <1>6. \A q \in Procs : at'[q].b = at[q].b /\ (q # p => at'[q] = at[q])
    BY <1>2, <1>4
  <1>7. at'[p].pc = pc
    BY <1>2, <1>4
  <1>8. TypeOK'
    <2>1. buf' \in [Bufs -> Buffer]
      BY <1>3, <1>4 DEF Buffer
    <2>2. at' \in [Procs -> [pc : Points, b : Bufs \cup {0}]]
      BY <1>2, <1>4 DEF Points, Holding
    <2> QED BY <1>3, <2>1, <2>2 DEF Inv, TypeOK
  <1>9. MruAll' /\ QueueOnce'
    BY <1>3 DEF Inv, MruAll, QueueOnce
  <1>10. OneBuffer' /\ DirtyValid' /\ CleanSame'
    BY <1>1, <1>3, <1>5 DEF Inv, OneBuffer, DirtyValid, CleanSame
  <1>11. UserHasBuffer'
    BY <1>3, <1>5, <1>6, <1>7 DEF Inv, UserHasBuffer
  <1>12. LockExact'
    BY <1>3, <1>5, <1>6, <1>7 DEF Inv, LockExact, Holding
  <1>13. HaveValid'
    BY <1>1, <1>5, <1>6, <1>7 DEF Inv, HaveValid, UserHasBuffer
  <1>14. QueueAsleep'
    BY <1>3, <1>6 DEF Inv, QueueAsleep
  <1>15. DriveHead'
    <2>1. \A q \in Procs : ~ (at[q].b = b /\ at[q].pc = "asleep")
      BY <1>1, <1>3, OneHolder DEF Holding
    <2>2. \A k \in 1..Len(queue) : queue[k] \in Bufs /\ queue[k] # b
      BY <2>1, NotQueued DEF Inv, TypeOK
    <2> QED BY <1>3, <1>5, <2>2, DriveKept
  <1>16. CountExact'
    BY <1>5, <1>6, CountKept
  <1> QED BY <1>8, <1>9, <1>10, <1>11, <1>12, <1>13, <1>14, <1>15, <1>16 DEF Inv

\* brelse releases the lock first.
LEMMA BrelseStep ==
  ASSUME Inv, NEW p \in Procs, Brelse(p)
  PROVE  Inv'
  <1>1. PICK b \in Bufs : b = at[p].b /\ buf[b].blk \in Blocks
    BY UserFacts DEF Brelse, Is
  <1>3. /\ buf' = [buf EXCEPT ![b].lock = 0]
        /\ at' = [at EXCEPT ![p].pc = "release"]
        /\ at[p].pc \in {"have", "logged"}
        /\ UNCHANGED <<mru, queue, drive, disk>>
    BY <1>1 DEF Brelse, Is, Go, devices
  <1>4. buf \in [Bufs -> Buffer] /\ at \in [Procs -> [pc : Points, b : Bufs \cup {0}]]
    BY DEF Inv, TypeOK
  <1>5. \A c \in Bufs : /\ buf'[c].blk = buf[c].blk /\ buf'[c].valid = buf[c].valid
                        /\ buf'[c].dirty = buf[c].dirty /\ buf'[c].ref = buf[c].ref
                        /\ buf'[c].data = buf[c].data
                        /\ buf'[c].lock = IF c = b THEN 0 ELSE buf[c].lock
    BY <1>3, <1>4 DEF Buffer
  <1>6. \A q \in Procs : at'[q].b = at[q].b /\ (q # p => at'[q] = at[q])
    BY <1>3, <1>4
  <1>7. at'[p].pc = "release"
    BY <1>3, <1>4
  <1>8. TypeOK'
    <2>1. buf' \in [Bufs -> Buffer]
      BY <1>3, <1>4 DEF Buffer
    <2>2. at' \in [Procs -> [pc : Points, b : Bufs \cup {0}]]
      BY <1>3, <1>4 DEF Points
    <2> QED BY <1>3, <2>1, <2>2 DEF Inv, TypeOK
  <1>9. MruAll' /\ QueueOnce'
    BY <1>3 DEF Inv, MruAll, QueueOnce
  <1>10. OneBuffer' /\ DirtyValid' /\ CleanSame'
    BY <1>3, <1>5 DEF Inv, OneBuffer, DirtyValid, CleanSame
  <1>11. UserHasBuffer'
    BY <1>3, <1>5, <1>6, <1>7 DEF Inv, UserHasBuffer
  <1>12. LockExact'
    BY <1>1, <1>3, <1>5, <1>6, <1>7, ConstFacts DEF Inv, LockExact, Holding
  <1>13. HaveValid'
    BY <1>5, <1>6, <1>7 DEF Inv, HaveValid, UserHasBuffer
  <1>14. QueueAsleep'
    BY <1>3, <1>6 DEF Inv, QueueAsleep
  <1>15. DriveHead'
    BY <1>3, <1>5, DriveKept DEF Inv, TypeOK
  <1>16. CountExact'
    BY <1>5, <1>6, CountKept
  <1> QED BY <1>8, <1>9, <1>10, <1>11, <1>12, <1>13, <1>14, <1>15, <1>16 DEF Inv

\* The list after brelse has moved b to its front still has every buffer.
LEMMA MoveToFront ==
  ASSUME Inv, NEW b \in Bufs, NEW m,
         m = <<b>> \o RemoveAt(mru, CHOOSE k \in DOMAIN mru : mru[k] = b)
  PROVE  m \in Seq(Bufs) /\ Bufs \subseteq Range(m)
  <1>1. mru \in Seq(Bufs) /\ Len(mru) \in Nat /\ DOMAIN mru = 1..Len(mru) /\ Bufs \subseteq Range(mru)
    BY DEF Inv, TypeOK, MruAll
  <1>2. PICK k \in 1..Len(mru) : k = (CHOOSE i \in DOMAIN mru : mru[i] = b) /\ mru[k] = b
    <2>1. \E i \in DOMAIN mru : mru[i] = b
      BY <1>1, RangeEquality
    <2> QED BY <1>1, <2>1
  <1> DEFINE l == SubSeq(mru, 1, k - 1)
             r == SubSeq(mru, k + 1, Len(mru))
  <1>3. m = <<b>> \o (l \o r)
    BY <1>2 DEF RemoveAt
  <1>4. mru = l \o (<<b>> \o r)
    <2>1. k - 1 \in Nat /\ (k - 1) + 1 = k /\ k - 1 \in 1 - 1 .. Len(mru)
          /\ Len(mru) \in k - 1 .. Len(mru) /\ 1 \in 1 .. Len(mru) + 1
      BY <1>1
    <2>2. SubSeq(mru, 1, k - 1) \o SubSeq(mru, k, Len(mru)) = SubSeq(mru, 1, Len(mru))
      BY <1>1, <2>1, ConcatAdjacentSubSeq
    <2>3. SubSeq(mru, 1, Len(mru)) = mru
      BY <1>1, SubSeqFull
    <2>4. SubSeq(mru, k, Len(mru)) = <<mru[k]>> \o r
      <3>1. Len(mru) \in k .. Len(mru)
        BY <1>1
      <3> QED BY <1>1, <3>1, SubSeqRecursiveFirst
    <2> QED BY <1>2, <2>2, <2>3, <2>4
  <1>5. l \in Seq(Bufs) /\ r \in Seq(Bufs) /\ <<b>> \in Seq(Bufs)
    <2>1. \A i \in 1 .. k - 1 : mru[i] \in Bufs
      BY <1>1
    <2>2. \A i \in k + 1 .. Len(mru) : mru[i] \in Bufs
      BY <1>1
    <2>3. k - 1 \in Int /\ k + 1 \in Int /\ 1 \in Int /\ Len(mru) \in Int
      BY <1>1
    <2>4. l \in Seq(Bufs)
      BY <2>1, <2>3, SubSeqProperties
    <2>5. r \in Seq(Bufs)
      BY <2>2, <2>3, SubSeqProperties
    <2> QED BY <2>4, <2>5
  <1> HIDE DEF l, r
  <1>6. <<b>> \o r \in Seq(Bufs) /\ l \o r \in Seq(Bufs) /\ m \in Seq(Bufs)
    BY <1>3, <1>5, ConcatProperties
  <1>7. Range(mru) = Range(l) \cup (Range(<<b>>) \cup Range(r))
    <2>1. Range(l \o (<<b>> \o r)) = Range(l) \cup Range(<<b>> \o r)
      <3> DEFINE x == <<b>> \o r
      <3> HIDE DEF x
      <3>1. x \in Seq(Bufs)
        BY <1>6 DEF x
      <3>2. Range(l \o x) = Range(l) \cup Range(x)
        BY <1>5, <3>1, RangeConcatenation
      <3> QED BY <3>2 DEF x
    <2>2. Range(<<b>> \o r) = Range(<<b>>) \cup Range(r)
      BY <1>5, RangeConcatenation
    <2> QED BY <1>4, <2>1, <2>2
  <1>8. Range(m) = Range(<<b>>) \cup (Range(l) \cup Range(r))
    <2>1. Range(<<b>> \o (l \o r)) = Range(<<b>>) \cup Range(l \o r)
      <3> DEFINE x == l \o r
      <3> HIDE DEF x
      <3>1. x \in Seq(Bufs)
        BY <1>6 DEF x
      <3>2. Range(<<b>> \o x) = Range(<<b>>) \cup Range(x)
        BY <1>5, <3>1, RangeConcatenation
      <3> QED BY <3>2 DEF x
    <2>2. Range(l \o r) = Range(l) \cup Range(r)
      BY <1>5, RangeConcatenation
    <2> QED BY <1>3, <2>1, <2>2
  <1> QED BY <1>1, <1>6, <1>7, <1>8

\* brelse gives the count back and moves the buffer in the list.
LEMMA BrelseCountStep ==
  ASSUME Inv, NEW p \in Procs, BrelseCount(p)
  PROVE  Inv'
  <1>1. PICK b \in Bufs : b = at[p].b /\ buf[b].blk \in Blocks
    BY UserFacts DEF BrelseCount, Is
  <1>2. mru' \in Seq(Bufs) /\ MruAll'
    <2>1. CASE buf[b].ref = 1
      <3>1. mru' = <<b>> \o RemoveAt(mru, CHOOSE k \in DOMAIN mru : mru[k] = b)
        BY <1>1, <2>1 DEF BrelseCount
      <3> QED BY <3>1, MoveToFront DEF MruAll
    <2>2. CASE buf[b].ref # 1
      <3>1. mru' = mru
        BY <1>1, <2>2 DEF BrelseCount
      <3> QED BY <3>1 DEF Inv, TypeOK, MruAll
    <2> QED BY <2>1, <2>2
  <1>3. /\ buf' = [buf EXCEPT ![b].ref = @ - 1]
        /\ at' = [at EXCEPT ![p] = [pc |-> "user", b |-> 0]]
        /\ at[p].pc = "release"
        /\ UNCHANGED <<queue, drive, disk>>
    BY <1>1 DEF BrelseCount, Is, Go, devices
  <1>4. buf \in [Bufs -> Buffer] /\ at \in [Procs -> [pc : Points, b : Bufs \cup {0}]]
    BY DEF Inv, TypeOK
  <1>5. \A c \in Bufs : /\ buf'[c].blk = buf[c].blk /\ buf'[c].valid = buf[c].valid
                        /\ buf'[c].dirty = buf[c].dirty /\ buf'[c].lock = buf[c].lock
                        /\ buf'[c].data = buf[c].data
                        /\ buf'[c].ref = IF c = b THEN buf[c].ref - 1 ELSE buf[c].ref
    BY <1>3, <1>4 DEF Buffer
  <1>6. \A q \in Procs : q # p => at'[q] = at[q]
    BY <1>3, <1>4
  <1>7. at'[p].pc = "user" /\ at'[p].b = 0
    BY <1>3, <1>4
  <1>8. CountExact' /\ buf[b].ref > 0
    <2>1. Users(b)' = Users(b) \ {p} /\ p \in Users(b)
      BY <1>1, <1>6, <1>7, ConstFacts DEF Users
    <2>2. \A c \in Bufs : c # b => Users(c)' = Users(c)
      BY <1>1, <1>6, <1>7, ConstFacts DEF Users
    <2>3. Cardinality(Users(b)') = Cardinality(Users(b)) - 1
      BY <2>1, UsersFinite, FS_RemoveElement
    <2>4. Cardinality(Users(b)) # 0 /\ Cardinality(Users(b)) \in Nat
      BY <2>1, UsersFinite, FS_EmptySet, FS_CardinalityType
    <2> QED BY <1>5, <2>2, <2>3, <2>4 DEF Inv, CountExact
  <1>9. TypeOK'
    <2>1. buf[b].ref - 1 \in Nat
      BY <1>4, <1>8 DEF Buffer
    <2>2. buf' \in [Bufs -> Buffer]
      BY <1>3, <1>4, <2>1 DEF Buffer
    <2>3. at' \in [Procs -> [pc : Points, b : Bufs \cup {0}]]
      BY <1>3, <1>4 DEF Points
    <2> QED BY <1>2, <1>3, <2>2, <2>3 DEF Inv, TypeOK
  <1>10. OneBuffer' /\ DirtyValid' /\ CleanSame' /\ QueueOnce'
    BY <1>3, <1>5 DEF Inv, OneBuffer, DirtyValid, CleanSame, QueueOnce
  <1>11. UserHasBuffer'
    BY <1>3, <1>5, <1>6, <1>7 DEF Inv, UserHasBuffer
  <1>12. LockExact'
    BY <1>3, <1>5, <1>6, <1>7, ConstFacts DEF Inv, LockExact, Holding
  <1>13. HaveValid'
    BY <1>5, <1>6, <1>7 DEF Inv, HaveValid, UserHasBuffer
  <1>14. QueueAsleep'
    BY <1>3, <1>6 DEF Inv, QueueAsleep
  <1>15. DriveHead'
    BY <1>3, <1>5, DriveKept DEF Inv, TypeOK
  <1> QED BY <1>2, <1>8, <1>9, <1>10, <1>11, <1>12, <1>13, <1>14, <1>15 DEF Inv

\* iderw appends a locked buffer to idequeue.
LEMMA IderwStep ==
  ASSUME Inv, NEW p \in Procs, Iderw(p)
  PROVE  Inv'
  <1>1. PICK b \in Bufs : b = at[p].b /\ buf[b].blk \in Blocks
    BY UserFacts DEF Iderw, Is
  <1>2. /\ queue' = Append(queue, b)
        /\ drive' = IF queue = <<>> THEN Idestart(b) ELSE drive
        /\ at' = [at EXCEPT ![p].pc = "asleep"]
        /\ at[p].pc = "rw"
        /\ UNCHANGED <<buf, mru, disk>>
    BY <1>1 DEF Iderw, Is, Go
  <1>3. buf \in [Bufs -> Buffer] /\ at \in [Procs -> [pc : Points, b : Bufs \cup {0}]] /\ queue \in Seq(Bufs)
    BY DEF Inv, TypeOK
  <1>4. \A q \in Procs : at'[q].b = at[q].b /\ (q # p => at'[q] = at[q])
    BY <1>2, <1>3
  <1>5. at'[p].pc = "asleep"
    BY <1>2, <1>3
  <1>6. /\ queue' \in Seq(Bufs) /\ Len(queue') = Len(queue) + 1 /\ Len(queue) \in Nat
        /\ queue'[Len(queue) + 1] = b /\ \A k \in 1..Len(queue) : queue'[k] = queue[k]
    BY <1>2, <1>3, AppendProperties
  <1>7. \A k \in 1..Len(queue) : queue[k] # b
    <2>1. \A q \in Procs : ~ (at[q].b = b /\ at[q].pc = "asleep")
      BY <1>1, <1>2, OneHolder DEF Holding
    <2> QED BY <2>1, NotQueued
  <1>8. TypeOK'
    <2>1. at' \in [Procs -> [pc : Points, b : Bufs \cup {0}]]
      BY <1>2, <1>3 DEF Points, Holding
    <2>2. Idestart(b) \in [wr : BOOLEAN, blk : Blocks \cup {0}, data : Values]
      BY <1>3 DEF Idestart, Buffer
    <2> QED BY <1>2, <1>6, <2>1, <2>2 DEF Inv, TypeOK
  <1>9. MruAll' /\ OneBuffer' /\ DirtyValid' /\ CleanSame'
    BY <1>2 DEF Inv, MruAll, OneBuffer, DirtyValid, CleanSame
  <1>10. QueueOnce'
    <2> SUFFICES ASSUME NEW j \in 1..(Len(queue) + 1), NEW k \in 1..(Len(queue) + 1), queue'[j] = queue'[k]
                 PROVE  j = k
      BY <1>6 DEF QueueOnce
    <2>1. CASE j \in 1..Len(queue) /\ k \in 1..Len(queue)
      BY <1>6, <2>1 DEF Inv, QueueOnce
    <2>2. CASE j = Len(queue) + 1 \/ k = Len(queue) + 1
      BY <1>6, <1>7, <2>2
    <2> QED BY <1>6, <2>1, <2>2
  <1>11. UserHasBuffer'
    BY <1>2, <1>4, <1>5 DEF Inv, UserHasBuffer
  <1>12. LockExact'
    BY <1>2, <1>4, <1>5 DEF Inv, LockExact, Holding
  <1>13. HaveValid'
    BY <1>2, <1>4, <1>5 DEF Inv, HaveValid
  <1>14. QueueAsleep'
    <2> SUFFICES ASSUME NEW k \in 1..(Len(queue) + 1)
                 PROVE  \E q \in Procs : at'[q].pc = "asleep" /\ at'[q].b = queue'[k]
      BY <1>6 DEF QueueAsleep
    <2>1. CASE k = Len(queue) + 1
      BY <1>1, <1>4, <1>5, <1>6, <2>1
    <2>2. CASE k \in 1..Len(queue)
      <3>1. PICK q \in Procs : at[q].pc = "asleep" /\ at[q].b = queue[k]
        BY <2>2 DEF Inv, QueueAsleep
      <3> QED BY <1>2, <1>4, <1>6, <2>2, <3>1
    <2> QED BY <1>6, <2>1, <2>2
  <1>15. DriveHead'
    <2>1. queue' # <<>> /\ Head(queue') = IF queue = <<>> THEN b ELSE Head(queue)
      BY <1>2, <1>3, HeadTailAppend, AppendProperties
    <2>2. drive' = IF queue = <<>> THEN Idestart(b) ELSE Idestart(Head(queue))
      BY <1>2 DEF Inv, DriveHead
    <2>3. drive' = Idestart(Head(queue))'
      BY <1>2, <2>1, <2>2 DEF Idestart
    <2> QED BY <2>1, <2>3 DEF DriveHead
  <1>16. CountExact'
    BY <1>2, <1>4, CountKept
  <1> QED BY <1>8, <1>9, <1>10, <1>11, <1>12, <1>13, <1>14, <1>15, <1>16 DEF Inv

\* The drive has work only if a request is queued, and then it is the first one's.
LEMMA DriveFacts ==
  ASSUME Inv, drive.blk # 0
  PROVE  /\ queue # <<>> /\ Head(queue) \in Bufs /\ drive = Idestart(Head(queue))
         /\ drive.blk = buf[Head(queue)].blk /\ drive.wr = buf[Head(queue)].dirty
         /\ drive.data = buf[Head(queue)].data /\ drive.blk \in Blocks
  <1>1. queue # <<>> /\ drive = Idestart(Head(queue))
    BY DEF Inv, DriveHead
  <1>2. Head(queue) \in Bufs
    BY <1>1 DEF Inv, TypeOK
  <1>3. drive.blk \in Blocks
    BY DEF Inv, TypeOK
  <1> QED BY <1>1, <1>2, <1>3 DEF Idestart

\* ideintr completes the buffer at the head of idequeue.
LEMMA IdeintrStep ==
  ASSUME Inv, Ideintr
  PROVE  Inv'
  <1>1. PICK b \in Bufs : b = Head(queue) /\ queue # <<>> /\ drive.blk = buf[b].blk /\ drive.blk \in Blocks
                          /\ drive.wr = buf[b].dirty /\ drive.data = buf[b].data
    BY DriveFacts DEF Ideintr
  <1>2. PICK v \in Values : v = IF buf[b].dirty THEN buf[b].data ELSE disk[buf[b].blk]
    BY <1>1 DEF Inv, TypeOK, Buffer
  <1>3. /\ queue' = Tail(queue)
        /\ disk' = IF buf[b].dirty THEN [disk EXCEPT ![buf[b].blk] = buf[b].data] ELSE disk
        /\ buf' = [buf EXCEPT ![b] = [@ EXCEPT !.valid = TRUE, !.dirty = FALSE, !.data = v]]
        /\ at' = [p \in Procs |-> IF at[p].pc = "asleep" /\ at[p].b = b THEN [at[p] EXCEPT !.pc = "awake"] ELSE at[p]]
        /\ drive' = IF Tail(queue) # <<>> THEN Idestart(queue[2]) ELSE Idling
        /\ mru' = mru
    BY <1>1, <1>2 DEF Ideintr, Synced
  <1>4. /\ buf \in [Bufs -> Buffer] /\ at \in [Procs -> [pc : Points, b : Bufs \cup {0}]]
        /\ queue \in Seq(Bufs) /\ disk \in [Blocks -> Values]
    BY DEF Inv, TypeOK
  <1>5. /\ queue' \in Seq(Bufs) /\ Len(queue') = Len(queue) - 1 /\ Len(queue) \in Nat /\ Len(queue) >= 1
        /\ queue[1] = b /\ \A k \in 1..(Len(queue) - 1) : queue'[k] = queue[k + 1]
    BY <1>1, <1>3, <1>4, HeadTailProperties
  <1>6. \A c \in Bufs : IF c = b THEN /\ buf'[c].blk = buf[c].blk /\ buf'[c].valid = TRUE
                                      /\ buf'[c].dirty = FALSE /\ buf'[c].data = v
                                      /\ buf'[c].lock = buf[c].lock /\ buf'[c].ref = buf[c].ref
                                 ELSE buf'[c] = buf[c]
    BY <1>3, <1>4 DEF Buffer
  <1>7. \A q \in Procs : /\ at'[q].b = at[q].b
                         /\ at'[q].pc = IF at[q].pc = "asleep" /\ at[q].b = b THEN "awake" ELSE at[q].pc
    BY <1>3, <1>4
  <1>8. \A n \in Blocks : disk'[n] = IF n = buf[b].blk THEN v ELSE disk[n]
    BY <1>1, <1>2, <1>3, <1>4
  <1>9. \A k \in 1..(Len(queue) - 1) : queue'[k] \in Bufs /\ queue'[k] # b
    <2> SUFFICES ASSUME NEW k \in 1..(Len(queue) - 1) PROVE queue'[k] \in Bufs /\ queue'[k] # b
      OBVIOUS
    <2>1. 1 \in 1..Len(queue) /\ k + 1 \in 1..Len(queue) /\ k + 1 # 1
      BY <1>5
    <2> QED BY <1>4, <1>5, <2>1 DEF Inv, QueueOnce
  <1>10. TypeOK'
    <2>1. buf' \in [Bufs -> Buffer]
      <3>1. PICK x \in Buffer : x = buf[b]
        BY <1>4
      <3>2. [x EXCEPT !.valid = TRUE, !.dirty = FALSE, !.data = v] \in Buffer
        BY DEF Buffer
      <3> QED BY <1>3, <1>4, <3>1, <3>2
    <2>2. at' \in [Procs -> [pc : Points, b : Bufs \cup {0}]]
      BY <1>3, <1>4 DEF Points, Holding
    <2>3. disk' \in [Blocks -> Values]
      BY <1>1, <1>3, <1>4 DEF Buffer
    <2>4. drive' \in [wr : BOOLEAN, blk : Blocks \cup {0}, data : Values]
      <3>1. Idling \in [wr : BOOLEAN, blk : Blocks \cup {0}, data : Values]
        BY ConstFacts DEF Idling
      <3>2. ASSUME Tail(queue) # <<>>
            PROVE  Idestart(queue[2]) \in [wr : BOOLEAN, blk : Blocks \cup {0}, data : Values]
        <4>1. queue[2] \in Bufs
          BY <1>3, <1>4, <1>5, <3>2
        <4> QED BY <1>4, <4>1 DEF Idestart, Buffer
      <3> QED BY <1>3, <3>1, <3>2
    <2> QED BY <1>3, <1>5, <2>1, <2>2, <2>3, <2>4 DEF Inv, TypeOK
  <1>11. MruAll' /\ OneBuffer'
    BY <1>3, <1>6 DEF Inv, MruAll, OneBuffer
  <1>12. DirtyValid'
    BY <1>6 DEF Inv, DirtyValid
  <1>13. CleanSame'
    <2> SUFFICES ASSUME NEW c \in Bufs, buf'[c].blk # 0, buf'[c].valid, ~buf'[c].dirty
                 PROVE  buf'[c].data = disk'[buf'[c].blk]
      BY DEF CleanSame
    <2>1. CASE c = b
      BY <1>1, <1>6, <1>8, <2>1
    <2>2. CASE c # b
      <3>1. buf'[c] = buf[c] /\ buf[c].data = disk[buf[c].blk] /\ buf[c].blk \in Blocks
        BY <1>4, <1>6, <2>2 DEF Inv, CleanSame, Buffer
      <3>2. buf[c].blk # buf[b].blk
        BY <2>2, <3>1, ConstFacts DEF Inv, OneBuffer
      <3> QED BY <1>8, <3>1, <3>2
    <2> QED BY <2>1, <2>2
  <1>14. UserHasBuffer'
    BY <1>6, <1>7 DEF Inv, UserHasBuffer
  <1>15. LockExact'
    <2>1. \A c \in Bufs : buf'[c].lock = buf[c].lock
      BY <1>6
    <2>2. \A q \in Procs : at'[q].pc \in Holding <=> at[q].pc \in Holding
      BY <1>7 DEF Holding
    <2> QED BY <1>7, <2>1, <2>2 DEF Inv, LockExact
  <1>16. HaveValid'
    <2> SUFFICES ASSUME NEW q \in Procs, at'[q].pc \in {"have", "logged"} PROVE buf'[at'[q].b].valid
      BY DEF HaveValid
    <2>1. at[q].pc \in {"have", "logged"} /\ at'[q].b = at[q].b /\ at[q].b \in Bufs
      BY <1>7 DEF Inv, UserHasBuffer
    <2> QED BY <1>6, <2>1 DEF Inv, HaveValid
  <1>17. QueueAsleep'
    <2> SUFFICES ASSUME NEW k \in 1..(Len(queue) - 1)
                 PROVE  \E q \in Procs : at'[q].pc = "asleep" /\ at'[q].b = queue'[k]
      BY <1>5 DEF QueueAsleep
    <2>1. k + 1 \in 1..Len(queue)
      BY <1>5
    <2>2. PICK q \in Procs : at[q].pc = "asleep" /\ at[q].b = queue[k + 1]
      BY <2>1 DEF Inv, QueueAsleep
    <2> QED BY <1>5, <1>7, <1>9, <2>2
  <1>18. QueueOnce'
    <2> SUFFICES ASSUME NEW j \in 1..(Len(queue) - 1), NEW k \in 1..(Len(queue) - 1), queue'[j] = queue'[k]
                 PROVE  j = k
      BY <1>5 DEF QueueOnce
    <2>1. j + 1 \in 1..Len(queue) /\ k + 1 \in 1..Len(queue) /\ queue[j + 1] = queue[k + 1]
      BY <1>5
    <2>2. j + 1 = k + 1
      BY <2>1 DEF Inv, QueueOnce
    <2> QED BY <1>5, <2>2
  <1>19. DriveHead'
    <2>1. CASE Tail(queue) = <<>>
      BY <1>3, <2>1 DEF DriveHead, Idling
    <2>2. CASE Tail(queue) # <<>>
      <3>1. Len(queue) - 1 >= 1 /\ Head(queue') = queue'[1] /\ queue'[1] = queue[2]
        BY <1>3, <1>4, <1>5, <2>2
      <3>2. queue[2] \in Bufs /\ queue[2] # b
        BY <1>5, <1>9, <3>1
      <3>3. drive' = Idestart(queue[2])
        BY <1>3, <2>2
      <3>4. buf'[queue[2]] = buf[queue[2]]
        BY <1>6, <3>2
      <3>5. drive' = Idestart(Head(queue))'
        BY <3>1, <3>3, <3>4 DEF Idestart
      <3> QED BY <1>3, <2>2, <3>5 DEF DriveHead
    <2> QED BY <2>1, <2>2
  <1>20. CountExact'
    BY <1>6, <1>7, CountKept
  <1> QED BY <1>10, <1>11, <1>12, <1>13, <1>14, <1>15, <1>16, <1>17, <1>18, <1>19, <1>20 DEF Inv

\* iderw returns when its buffer has been completed.
LEMMA IderwDoneStep ==
  ASSUME Inv, NEW p \in Procs, IderwDone(p)
  PROVE  Inv'
  <1>1. /\ at' = [at EXCEPT ![p].pc = "have"]
        /\ at[p].pc = "awake" /\ buf[at[p].b].valid
        /\ UNCHANGED <<buf, mru, queue, drive, disk>>
    BY DEF IderwDone, Is, Go, devices
  <1>2. at \in [Procs -> [pc : Points, b : Bufs \cup {0}]]
    BY DEF Inv, TypeOK
  <1>3. \A q \in Procs : at'[q].b = at[q].b /\ (q # p => at'[q] = at[q])
    BY <1>1, <1>2
  <1>4. at'[p].pc = "have"
    BY <1>1, <1>2
  <1>5. TypeOK'
    BY <1>1, <1>2 DEF Inv, TypeOK, Points, Holding
  <1>6. MruAll' /\ OneBuffer' /\ DirtyValid' /\ CleanSame' /\ QueueOnce'
    BY <1>1 DEF Inv, MruAll, OneBuffer, DirtyValid, CleanSame, QueueOnce
  <1>7. UserHasBuffer' /\ HaveValid'
    BY <1>1, <1>3, <1>4 DEF Inv, UserHasBuffer, HaveValid
  <1>8. LockExact'
    BY <1>1, <1>3, <1>4 DEF Inv, LockExact, Holding
  <1>9. QueueAsleep'
    BY <1>1, <1>3 DEF Inv, QueueAsleep
  <1>10. DriveHead'
    BY <1>1, DriveKept
  <1>11. CountExact'
    BY <1>1, <1>3, CountKept
  <1> QED BY <1>5, <1>6, <1>7, <1>8, <1>9, <1>10, <1>11 DEF Inv

\* memide.c's iderw does the transfer at once.
LEMMA IderwMemStep ==
  ASSUME Inv, NEW p \in Procs, IderwMem(p)
  PROVE  Inv'
  <1>1. PICK b \in Bufs : b = at[p].b /\ buf[b].blk \in Blocks
    BY UserFacts DEF IderwMem, Is
  <1>2. PICK v \in Values : v = IF buf[b].dirty THEN buf[b].data ELSE disk[buf[b].blk]
    BY <1>1 DEF Inv, TypeOK, Buffer
  <1>3. /\ disk' = IF buf[b].dirty THEN [disk EXCEPT ![buf[b].blk] = buf[b].data] ELSE disk
        /\ buf' = [buf EXCEPT ![b] = [@ EXCEPT !.valid = TRUE, !.dirty = FALSE, !.data = v]]
        /\ at' = [at EXCEPT ![p].pc = "have"]
        /\ at[p].pc = "rw"
        /\ UNCHANGED <<mru, queue, drive>>
    BY <1>1, <1>2 DEF IderwMem, Synced, Is, Go
  <1>4. /\ buf \in [Bufs -> Buffer] /\ at \in [Procs -> [pc : Points, b : Bufs \cup {0}]]
        /\ disk \in [Blocks -> Values]
    BY DEF Inv, TypeOK
  <1>6. \A c \in Bufs : IF c = b THEN /\ buf'[c].blk = buf[c].blk /\ buf'[c].valid = TRUE
                                      /\ buf'[c].dirty = FALSE /\ buf'[c].data = v
                                      /\ buf'[c].lock = buf[c].lock /\ buf'[c].ref = buf[c].ref
                                 ELSE buf'[c] = buf[c]
    BY <1>3, <1>4 DEF Buffer
  <1>7. \A q \in Procs : at'[q].b = at[q].b /\ (q # p => at'[q] = at[q])
    BY <1>3, <1>4
  <1>8. at'[p].pc = "have"
    BY <1>3, <1>4
  <1>9. \A n \in Blocks : disk'[n] = IF n = buf[b].blk THEN v ELSE disk[n]
    BY <1>1, <1>2, <1>3, <1>4
  <1>10. TypeOK'
    <2>1. buf' \in [Bufs -> Buffer]
      <3>1. PICK x \in Buffer : x = buf[b]
        BY <1>4
      <3>2. [x EXCEPT !.valid = TRUE, !.dirty = FALSE, !.data = v] \in Buffer
        BY DEF Buffer
      <3> QED BY <1>3, <1>4, <3>1, <3>2
    <2>2. at' \in [Procs -> [pc : Points, b : Bufs \cup {0}]]
      BY <1>3, <1>4 DEF Points, Holding
    <2>3. disk' \in [Blocks -> Values]
      BY <1>1, <1>3, <1>4 DEF Buffer
    <2> QED BY <1>3, <2>1, <2>2, <2>3 DEF Inv, TypeOK
  <1>11. MruAll' /\ OneBuffer' /\ QueueOnce'
    BY <1>3, <1>6 DEF Inv, MruAll, OneBuffer, QueueOnce
  <1>12. DirtyValid'
    BY <1>6 DEF Inv, DirtyValid
  <1>13. CleanSame'
    <2> SUFFICES ASSUME NEW c \in Bufs, buf'[c].blk # 0, buf'[c].valid, ~buf'[c].dirty
                 PROVE  buf'[c].data = disk'[buf'[c].blk]
      BY DEF CleanSame
    <2>1. CASE c = b
      BY <1>1, <1>6, <1>9, <2>1
    <2>2. CASE c # b
      <3>1. buf'[c] = buf[c] /\ buf[c].data = disk[buf[c].blk] /\ buf[c].blk \in Blocks
        BY <1>4, <1>6, <2>2 DEF Inv, CleanSame, Buffer
      <3>2. buf[c].blk # buf[b].blk
        BY <2>2, <3>1, ConstFacts DEF Inv, OneBuffer
      <3> QED BY <1>9, <3>1, <3>2
    <2> QED BY <2>1, <2>2
  <1>14. UserHasBuffer'
    BY <1>3, <1>6, <1>7, <1>8 DEF Inv, UserHasBuffer
  <1>15. LockExact'
    <2>1. \A c \in Bufs : buf'[c].lock = buf[c].lock
      BY <1>6
    <2> QED BY <1>3, <1>7, <1>8, <2>1 DEF Inv, LockExact, Holding
  <1>16. HaveValid'
    <2> SUFFICES ASSUME NEW q \in Procs, at'[q].pc \in {"have", "logged"} PROVE buf'[at'[q].b].valid
      BY DEF HaveValid
    <2>1. CASE q = p
      BY <1>1, <1>6, <1>7, <2>1
    <2>2. CASE q # p
      BY <1>6, <1>7, <2>2 DEF Inv, HaveValid, UserHasBuffer
    <2> QED BY <2>1, <2>2
  <1>17. QueueAsleep'
    BY <1>3, <1>7 DEF Inv, QueueAsleep
  <1>18. DriveHead'
    <2>1. \A q \in Procs : ~ (at[q].b = b /\ at[q].pc = "asleep")
      BY <1>1, <1>3, OneHolder DEF Holding
    <2>2. \A k \in 1..Len(queue) : queue[k] \in Bufs /\ queue[k] # b
      BY <2>1, NotQueued DEF Inv, TypeOK
    <2> QED BY <1>3, <1>6, <2>2, DriveKept
  <1>19. CountExact'
    BY <1>6, <1>7, CountKept
  <1> QED BY <1>10, <1>11, <1>12, <1>13, <1>14, <1>15, <1>16, <1>17, <1>18, <1>19 DEF Inv

\* A step that leaves the cache, the queue and the processes alone.
LEMMA QuietStep ==
  ASSUME Inv, UNCHANGED <<buf, mru, queue, drive, disk, at>>
  PROVE  Inv'
  <1>1. TypeOK' /\ MruAll' /\ OneBuffer' /\ UserHasBuffer' /\ LockExact'
    BY DEF Inv, TypeOK, MruAll, OneBuffer, UserHasBuffer, LockExact
  <1>2. HaveValid' /\ DirtyValid' /\ CleanSame' /\ QueueAsleep' /\ QueueOnce'
    BY DEF Inv, HaveValid, DirtyValid, CleanSame, QueueAsleep, QueueOnce
  <1>3. DriveHead' /\ CountExact'
    BY DriveKept, CountKept
  <1> QED BY <1>1, <1>2, <1>3 DEF Inv

\* Every step preserves the invariant.
LEMMA NextInv == Inv /\ [Next]_vars => Inv'
  <1> SUFFICES ASSUME Inv, [Next]_vars PROVE Inv'
    OBVIOUS
  <1>1. CASE Ideintr
    BY <1>1, IdeintrStep
  <1>2. ASSUME NEW p \in Procs, Works(p) PROVE Inv'
    BY <1>2, LockStep, BrelseStep, BrelseCountStep, IderwStep, IderwDoneStep, IderwMemStep DEF Works
  <1>3. ASSUME NEW p \in Procs, Chooses(p) PROVE Inv'
    <2>1. ASSUME NEW n \in Blocks, BgetHit(p, n) \/ BgetRecycle(p, n) \/ BgetPanics(p, n) PROVE Inv'
      BY <2>1, BgetHitStep, BgetRecycleStep, QuietStep DEF BgetPanics, devices
    <2>2. ASSUME NEW v \in Values, Bwrite(p, v) \/ LogWrite(p, v) PROVE Inv'
      BY <2>2, ChangeStep
    <2> QED BY <1>3, <2>1, <2>2 DEF Chooses
  <1>4. CASE UNCHANGED vars
    BY <1>4, QuietStep DEF vars
  <1> QED BY <1>1, <1>2, <1>3, <1>4 DEF Next

\* bget and brelse count the users of a buffer exactly, in whatever order lock and count are
\* taken and given, so a buffer is recycled only when nobody has it or waits for it (bio.c).
THEOREM UsersCounted == Spec => []CountExact
  <1>1. Inv => CountExact
    BY DEF Inv
  <1> QED BY <1>1, InitInv, NextInv, PTL DEF Spec

-----------------------------------------------------------------------------
(* The refinement *)

\* What the users of the cache see of a block, in this state and in the next.
LEMMA SeenCached ==
  ASSUME Inv, NEW b \in Bufs, buf[b].blk \in Blocks
  PROVE  /\ Current[buf[b].blk] = IF buf[b].valid THEN buf[b].data ELSE disk[buf[b].blk]
         /\ Holder[buf[b].blk] = buf[b].lock
  <1>1. Cached(buf[b].blk) = {b}
    BY ConstFacts DEF Inv, OneBuffer, Cached
  <1> QED BY <1>1 DEF Current, Holder

\* A block in no buffer has its content on disk and no holder.
LEMMA SeenUncached ==
  ASSUME NEW n \in Blocks, \A b \in Bufs : buf[b].blk # n
  PROVE  Current[n] = disk[n] /\ Holder[n] = 0
  <1>1. Cached(n) = {}
    BY DEF Cached
  <1> QED BY <1>1 DEF Current, Holder

\* What a buffer shows of its block after a step.
LEMMA SeenCachedNext ==
  ASSUME Inv', NEW b \in Bufs, buf'[b].blk \in Blocks
  PROVE  /\ Current'[buf'[b].blk] = IF buf'[b].valid THEN buf'[b].data ELSE disk'[buf'[b].blk]
         /\ Holder'[buf'[b].blk] = buf'[b].lock
  <1>1. Cached(buf[b].blk)' = {b}
    BY ConstFacts DEF Inv, OneBuffer, Cached
  <1> QED BY <1>1 DEF Current, Holder

\* A block in no buffer after a step.
LEMMA SeenUncachedNext ==
  ASSUME NEW n \in Blocks, \A b \in Bufs : buf'[b].blk # n
  PROVE  Current'[n] = disk'[n] /\ Holder'[n] = 0
  <1>1. Cached(n)' = {}
    BY DEF Cached
  <1> QED BY <1>1 DEF Current, Holder

\* A step that changes no buffer's block, flag B_VALID, data or lock shows nothing.
LEMMA ViewKept ==
  ASSUME Inv, Inv', disk' = disk,
         \A c \in Bufs : /\ buf'[c].blk = buf[c].blk /\ buf'[c].valid = buf[c].valid
                         /\ buf'[c].data = buf[c].data /\ buf'[c].lock = buf[c].lock
  PROVE  UNCHANGED <<Current, Holder>>
  <1>1. ASSUME NEW n \in Blocks PROVE Current'[n] = Current[n] /\ Holder'[n] = Holder[n]
    <2>1. CASE \A b \in Bufs : buf[b].blk # n
      BY <2>1, SeenUncached, SeenUncachedNext
    <2>2. ASSUME NEW b \in Bufs, buf[b].blk = n
          PROVE  Current'[n] = Current[n] /\ Holder'[n] = Holder[n]
      BY <2>2, SeenCached, SeenCachedNext
    <2> QED BY <2>1, <2>2
  <1> QED BY <1>1 DEF Current, Holder

\* ideintr and memide's iderw: the buffer and the disk become the same, which is what the
\* block's content was already.
LEMMA SyncSeen ==
  ASSUME Inv, Inv', NEW b \in Bufs, buf[b].blk \in Blocks, NEW v,
         v = (IF buf[b].dirty THEN buf[b].data ELSE disk[buf[b].blk]),
         buf' = [buf EXCEPT ![b] = [@ EXCEPT !.valid = TRUE, !.dirty = FALSE, !.data = v]],
         \A n \in Blocks : disk'[n] = IF n = buf[b].blk THEN v ELSE disk[n]
  PROVE  UNCHANGED <<Current, Holder>>
  <1>0. buf \in [Bufs -> Buffer]
    BY DEF Inv, TypeOK
  <1>1. \A c \in Bufs : IF c = b THEN /\ buf'[c].blk = buf[c].blk /\ buf'[c].valid = TRUE
                                      /\ buf'[c].data = v /\ buf'[c].lock = buf[c].lock
                                 ELSE buf'[c] = buf[c]
    BY <1>0 DEF Buffer
  <1>2. v = IF buf[b].valid THEN buf[b].data ELSE disk[buf[b].blk]
    BY ConstFacts DEF Inv, DirtyValid, CleanSame
  <1>3. ASSUME NEW n \in Blocks PROVE Current'[n] = Current[n] /\ Holder'[n] = Holder[n]
    <2>1. CASE n = buf[b].blk
      BY <1>1, <1>2, <2>1, SeenCached, SeenCachedNext
    <2>2. CASE \A c \in Bufs : buf[c].blk # n
      <3>1. \A c \in Bufs : buf'[c].blk # n
        BY <1>1, <2>2
      <3>2. disk'[n] = disk[n]
        BY <2>2
      <3> QED BY <2>2, <3>1, <3>2, SeenUncached, SeenUncachedNext
    <2>3. ASSUME NEW c \in Bufs, c # b, buf[c].blk = n, n # buf[b].blk
          PROVE  Current'[n] = Current[n] /\ Holder'[n] = Holder[n]
      BY <1>1, <2>3, SeenCached, SeenCachedNext
    <2> QED BY <2>1, <2>2, <2>3
  <1> QED BY <1>3 DEF Current, Holder

\* bget recycles a clean buffer that nobody has: the old block's content is on disk, and so is
\* the new one's, which had no buffer.
LEMMA RecycleSeen ==
  ASSUME Inv, Inv', NEW p \in Procs, NEW m \in Blocks, BgetRecycle(p, m)
  PROVE  UNCHANGED <<Current, Holder>>
  <1> DEFINE free == {k \in DOMAIN mru : Unused(mru[k])}
  <1>0. free \subseteq 1..Len(mru) /\ Len(mru) \in Nat /\ free # {}
    BY DEF Inv, TypeOK, BgetRecycle
  <1>1. PICK b \in Bufs : b = mru[Max(free)] /\ buf[b].ref = 0 /\ ~buf[b].dirty
    <2>1. Max(free) \in free
      <3> HIDE DEF free
      <3> QED BY <1>0, MaxIn
    <2>2. mru[Max(free)] \in Bufs
      BY <1>0, <2>1 DEF Inv, TypeOK
    <2> QED BY <2>1, <2>2 DEF Unused
  <1>2. /\ buf' = [buf EXCEPT ![b] = [@ EXCEPT !.blk = m, !.valid = FALSE, !.dirty = FALSE, !.ref = 1]]
        /\ \A c \in Bufs : buf[c].blk # m
        /\ disk' = disk
    BY <1>1 DEF BgetRecycle, devices, Cached
  <1>3. buf \in [Bufs -> Buffer]
    BY DEF Inv, TypeOK
  <1>4. \A q \in Procs : at[q].b # b
    BY <1>1, UncountedFree
  <1>5. buf[b].lock = 0
    BY <1>3, <1>4 DEF Inv, LockExact, Buffer
  <1>6. ~buf[b].dirty
    BY <1>1
  <1> HIDE <1>1 DEF free
  <1>7. \A c \in Bufs : IF c = b THEN /\ buf'[c].blk = m /\ buf'[c].valid = FALSE
                                      /\ buf'[c].lock = buf[c].lock
                                 ELSE buf'[c] = buf[c]
    BY <1>2, <1>3 DEF Buffer
  <1>8. ASSUME NEW n \in Blocks PROVE Current'[n] = Current[n] /\ Holder'[n] = Holder[n]
    <2>1. CASE n = m
      <3>1. Current[n] = disk[n] /\ Holder[n] = 0
        BY <1>2, <2>1, SeenUncached
      <3>2. Current'[n] = disk[n] /\ Holder'[n] = 0
        BY <1>2, <1>5, <1>7, <2>1, SeenCachedNext
      <3> QED BY <3>1, <3>2
    <2>2. CASE n = buf[b].blk
      <3>1. Current[n] = disk[n] /\ Holder[n] = 0
        <4>1. buf[b].valid => buf[b].data = disk[n]
          BY <1>6, <2>2, ConstFacts DEF Inv, CleanSame
        <4> QED BY <1>5, <2>2, <4>1, SeenCached
      <3>2. \A c \in Bufs : buf'[c].blk # n
        BY <1>2, <1>7, <2>2, ConstFacts DEF Inv, OneBuffer
      <3>3. Current'[n] = disk[n] /\ Holder'[n] = 0
        BY <1>2, <3>2, SeenUncachedNext
      <3> QED BY <3>1, <3>3
    <2>3. CASE n # m /\ \A c \in Bufs : buf[c].blk # n
      <3>1. \A c \in Bufs : buf'[c].blk # n
        BY <1>7, <2>3
      <3> QED BY <1>2, <2>3, <3>1, SeenUncached, SeenUncachedNext
    <2>4. ASSUME NEW c \in Bufs, c # b, buf[c].blk = n
          PROVE  Current'[n] = Current[n] /\ Holder'[n] = Holder[n]
      BY <1>2, <1>7, <2>4, SeenCached, SeenCachedNext
    <2> QED BY <2>1, <2>2, <2>3, <2>4
  <1> QED BY <1>8 DEF Current, Holder

\* A step on one buffer that keeps its block shows only what it does to that block.
LEMMA BlockSeen ==
  ASSUME Inv, Inv', NEW b \in Bufs, buf[b].blk \in Blocks, disk' = disk,
         buf'[b].blk = buf[b].blk, buf'[b].valid = buf[b].valid,
         \A c \in Bufs : c # b => /\ buf'[c].blk = buf[c].blk /\ buf'[c].valid = buf[c].valid
                                  /\ buf'[c].data = buf[c].data /\ buf'[c].lock = buf[c].lock
  PROVE  /\ Current' = [Current EXCEPT ![buf[b].blk] = IF buf[b].valid THEN buf'[b].data ELSE @]
         /\ Holder' = [Holder EXCEPT ![buf[b].blk] = buf'[b].lock]
  <1>1. ASSUME NEW n \in Blocks
        PROVE  /\ Current'[n] = IF n = buf[b].blk /\ buf[b].valid THEN buf'[b].data ELSE Current[n]
               /\ Holder'[n] = IF n = buf[b].blk THEN buf'[b].lock ELSE Holder[n]
    <2>1. CASE n = buf[b].blk
      BY <2>1, SeenCached, SeenCachedNext
    <2>2. CASE \A c \in Bufs : buf[c].blk # n
      <3>1. \A c \in Bufs : buf'[c].blk # n
        BY <2>2
      <3> QED BY <2>2, <3>1, SeenUncached, SeenUncachedNext
    <2>3. ASSUME NEW c \in Bufs, c # b, buf[c].blk = n, n # buf[b].blk
          PROVE  Current'[n] = Current[n] /\ Holder'[n] = Holder[n]
      BY <2>3, SeenCached, SeenCachedNext
    <2> QED BY <2>1, <2>2, <2>3
  <1>2. DOMAIN Current = Blocks /\ DOMAIN Current' = Blocks /\ DOMAIN Holder = Blocks /\ DOMAIN Holder' = Blocks
    BY DEF Current, Holder
  <1>3. /\ Current = [n \in Blocks |-> Current[n]] /\ Current' = [n \in Blocks |-> Current'[n]]
        /\ Holder = [n \in Blocks |-> Holder[n]] /\ Holder' = [n \in Blocks |-> Holder'[n]]
    BY DEF Current, Holder
  <1>4. Holder' = [Holder EXCEPT ![buf[b].blk] = buf'[b].lock]
    BY <1>1, <1>2, <1>3
  <1>5. Current' = [Current EXCEPT ![buf[b].blk] = IF buf[b].valid THEN buf'[b].data ELSE @]
    BY <1>1, <1>2, <1>3
  <1> QED BY <1>4, <1>5

\* acquiresleep takes the block.
LEMMA LockSeen ==
  ASSUME Inv, Inv', NEW p \in Procs, Lock(p)
  PROVE  \E n \in Blocks : Store!Get(p, n)
  <1>1. PICK b \in Bufs : b = at[p].b /\ buf[b].blk \in Blocks /\ buf[b].lock = 0
    BY UserFacts DEF Lock, Is
  <1>2. buf' = [buf EXCEPT ![b].lock = p] /\ disk' = disk
    BY <1>1 DEF Lock, devices
  <1>3. buf \in [Bufs -> Buffer]
    BY DEF Inv, TypeOK
  <1>4. \A c \in Bufs : /\ buf'[c].blk = buf[c].blk /\ buf'[c].valid = buf[c].valid
                        /\ buf'[c].data = buf[c].data
                        /\ buf'[c].lock = IF c = b THEN p ELSE buf[c].lock
    BY <1>2, <1>3 DEF Buffer
  <1>5. PICK n \in Blocks : n = buf[b].blk
    BY <1>1
  <1>6. Holder[n] = 0
    BY <1>1, <1>5, SeenCached
  <1>7. /\ Current' = [Current EXCEPT ![n] = IF buf[b].valid THEN buf'[b].data ELSE @]
        /\ Holder' = [Holder EXCEPT ![n] = p]
    BY <1>1, <1>2, <1>4, <1>5, BlockSeen
  <1>8. buf[b].valid => Current[n] = buf'[b].data
    BY <1>1, <1>4, <1>5, SeenCached
  <1>9. Current' = Current
    BY <1>7, <1>8 DEF Current
  <1> QED BY <1>6, <1>7, <1>9 DEF Store!Get

\* bwrite and log_write change the block of their caller, who has it.
LEMMA ChangeSeen ==
  ASSUME Inv, Inv', NEW p \in Procs, NEW v \in Values, Bwrite(p, v) \/ LogWrite(p, v)
  PROVE  \E n \in Blocks : Store!Change(p, n)
  <1>1. PICK b \in Bufs : b = at[p].b /\ buf[b].blk \in Blocks /\ buf[b].valid
    BY UserFacts DEF Bwrite, LogWrite, Is, Inv, HaveValid
  <1>2. buf' = [buf EXCEPT ![b] = [@ EXCEPT !.data = v, !.dirty = TRUE]] /\ disk' = disk
    BY <1>1 DEF Bwrite, LogWrite, devices
  <1>3. buf \in [Bufs -> Buffer]
    BY DEF Inv, TypeOK
  <1>4. \A c \in Bufs : /\ buf'[c].blk = buf[c].blk /\ buf'[c].valid = buf[c].valid
                        /\ buf'[c].data = (IF c = b THEN v ELSE buf[c].data)
                        /\ buf'[c].lock = buf[c].lock
    BY <1>2, <1>3 DEF Buffer
  <1>5. PICK n \in Blocks : n = buf[b].blk
    BY <1>1
  <1>6. buf[b].lock = p
    BY <1>1 DEF Inv, LockExact, Bwrite, LogWrite, Is, Holding
  <1>7. Holder[n] = p
    BY <1>1, <1>5, <1>6, SeenCached
  <1>8. /\ Current' = [Current EXCEPT ![n] = v]
        /\ Holder' = [Holder EXCEPT ![n] = p]
    BY <1>1, <1>2, <1>4, <1>5, <1>6, BlockSeen
  <1>9. Holder' = Holder
    BY <1>7, <1>8 DEF Holder
  <1> QED BY <1>7, <1>8, <1>9 DEF Store!Change

\* releasesleep gives the block back as it is.
LEMMA BrelseSeen ==
  ASSUME Inv, Inv', NEW p \in Procs, Brelse(p)
  PROVE  \E n \in Blocks : Store!Give(p, n)
  <1>1. PICK b \in Bufs : b = at[p].b /\ buf[b].blk \in Blocks
    BY UserFacts DEF Brelse, Is
  <1>2. buf' = [buf EXCEPT ![b].lock = 0] /\ disk' = disk
    BY <1>1 DEF Brelse, devices
  <1>3. buf \in [Bufs -> Buffer]
    BY DEF Inv, TypeOK
  <1>4. \A c \in Bufs : /\ buf'[c].blk = buf[c].blk /\ buf'[c].valid = buf[c].valid
                        /\ buf'[c].data = buf[c].data
                        /\ buf'[c].lock = IF c = b THEN 0 ELSE buf[c].lock
    BY <1>2, <1>3 DEF Buffer
  <1>5. PICK n \in Blocks : n = buf[b].blk
    BY <1>1
  <1>6. buf[b].lock = p
    BY <1>1 DEF Inv, LockExact, Brelse, Is, Holding
  <1>7. Holder[n] = p
    BY <1>1, <1>5, <1>6, SeenCached
  <1>8. /\ Current' = [Current EXCEPT ![n] = IF buf[b].valid THEN buf'[b].data ELSE @]
        /\ Holder' = [Holder EXCEPT ![n] = 0]
    BY <1>1, <1>2, <1>4, <1>5, BlockSeen
  <1>9. buf[b].valid => Current[n] = buf'[b].data
    BY <1>1, <1>4, <1>5, SeenCached
  <1>10. Current' = Current
    BY <1>8, <1>9 DEF Current
  <1> QED BY <1>7, <1>8, <1>10 DEF Store!Give

\* The drivers move data between buffer and disk unseen.
LEMMA DriverSeen ==
  ASSUME Inv, Inv', Ideintr \/ \E p \in Procs : IderwMem(p)
  PROVE  UNCHANGED <<Current, Holder>>
  <1>1. PICK b \in Bufs :
          /\ buf[b].blk \in Blocks
          /\ disk' = IF buf[b].dirty THEN [disk EXCEPT ![buf[b].blk] = buf[b].data] ELSE disk
          /\ buf' = Synced(b, IF buf[b].dirty THEN buf[b].data ELSE disk[buf[b].blk])
    <2>1. CASE Ideintr
      BY <2>1, DriveFacts DEF Ideintr
    <2>2. ASSUME NEW p \in Procs, IderwMem(p)
          PROVE  \E b \in Bufs :
                   /\ buf[b].blk \in Blocks
                   /\ disk' = IF buf[b].dirty THEN [disk EXCEPT ![buf[b].blk] = buf[b].data] ELSE disk
                   /\ buf' = Synced(b, IF buf[b].dirty THEN buf[b].data ELSE disk[buf[b].blk])
      BY <2>2, UserFacts DEF IderwMem, Is
    <2> QED BY <2>1, <2>2
  <1>2. disk \in [Blocks -> Values]
    BY DEF Inv, TypeOK
  <1>3. PICK v : v = IF buf[b].dirty THEN buf[b].data ELSE disk[buf[b].blk]
    OBVIOUS
  <1>4. \A n \in Blocks : disk'[n] = IF n = buf[b].blk THEN v ELSE disk[n]
    BY <1>1, <1>2, <1>3
  <1>5. buf' = [buf EXCEPT ![b] = [@ EXCEPT !.valid = TRUE, !.dirty = FALSE, !.data = v]]
    BY <1>1, <1>3 DEF Synced
  <1>6. buf[b].blk \in Blocks
    BY <1>1
  <1> HIDE <1>1
  <1> QED BY <1>3, <1>4, <1>5, <1>6, SyncSeen

\* bget's hit, the second half of brelse and the other steps show nothing.
LEMMA CountSeen ==
  ASSUME Inv, Inv', NEW p \in Procs,
         (\E n \in Blocks : BgetHit(p, n)) \/ BrelseCount(p)
  PROVE  UNCHANGED <<Current, Holder>>
  <1>1. PICK b \in Bufs, i \in Int : buf' = [buf EXCEPT ![b].ref = i] /\ disk' = disk
    <2>1. buf \in [Bufs -> Buffer]
      BY DEF Inv, TypeOK
    <2>2. ASSUME NEW n \in Blocks, BgetHit(p, n)
          PROVE  \E b \in Bufs, i \in Int : buf' = [buf EXCEPT ![b].ref = i] /\ disk' = disk
      <3>1. PICK b \in Bufs : b = CHOOSE c \in Cached(n) : TRUE
        BY <2>2 DEF BgetHit, Cached
      <3>2. buf' = [buf EXCEPT ![b].ref = buf[b].ref + 1] /\ disk' = disk
        BY <2>2, <3>1 DEF BgetHit, devices
      <3>3. buf[b].ref + 1 \in Int
        BY <2>1 DEF Buffer
      <3> QED BY <3>2, <3>3
    <2>3. CASE BrelseCount(p)
      <3>1. PICK b \in Bufs : b = at[p].b
        BY <2>3, UserFacts DEF BrelseCount, Is
      <3>2. buf' = [buf EXCEPT ![b].ref = buf[b].ref - 1] /\ disk' = disk
        BY <2>3, <3>1 DEF BrelseCount, devices
      <3>3. buf[b].ref - 1 \in Int
        BY <2>1 DEF Buffer
      <3> QED BY <3>2, <3>3
    <2> QED BY <2>2, <2>3
  <1>2. buf \in [Bufs -> Buffer]
    BY DEF Inv, TypeOK
  <1>3. \A c \in Bufs : /\ buf'[c].blk = buf[c].blk /\ buf'[c].valid = buf[c].valid
                        /\ buf'[c].data = buf[c].data /\ buf'[c].lock = buf[c].lock
    BY <1>1, <1>2 DEF Buffer
  <1> QED BY <1>1, <1>3, ViewKept

\* Every step is a step of BlockStore, or shows nothing.
LEMMA StepSeen ==
  ASSUME Inv, Inv', [Next]_vars
  PROVE  Store!Next \/ UNCHANGED <<Current, Holder>>
  <1>1. ASSUME UNCHANGED <<buf, disk>> PROVE UNCHANGED <<Current, Holder>>
    BY <1>1, ViewKept
  <1>2. CASE Ideintr
    BY <1>2, DriverSeen
  <1>3. ASSUME NEW p \in Procs, Works(p) PROVE Store!Next \/ UNCHANGED <<Current, Holder>>
    <2>1. CASE Lock(p)
      BY <2>1, LockSeen DEF Store!Next
    <2>2. CASE Brelse(p)
      BY <2>2, BrelseSeen DEF Store!Next
    <2>3. CASE BrelseCount(p)
      BY <2>3, CountSeen
    <2>4. CASE Iderw(p) \/ IderwDone(p)
      BY <1>1, <2>4 DEF Iderw, IderwDone, devices
    <2>5. CASE IderwMem(p)
      BY <2>5, DriverSeen
    <2> QED BY <1>3, <2>1, <2>2, <2>3, <2>4, <2>5 DEF Works
  <1>4. ASSUME NEW p \in Procs, Chooses(p) PROVE Store!Next \/ UNCHANGED <<Current, Holder>>
    <2>1. ASSUME NEW n \in Blocks, BgetHit(p, n) \/ BgetRecycle(p, n) PROVE UNCHANGED <<Current, Holder>>
      BY <2>1, CountSeen, RecycleSeen
    <2>2. ASSUME NEW n \in Blocks, BgetPanics(p, n) PROVE UNCHANGED <<Current, Holder>>
      BY <1>1, <2>2 DEF BgetPanics, devices
    <2>3. ASSUME NEW v \in Values, Bwrite(p, v) \/ LogWrite(p, v) PROVE Store!Next
      BY <2>3, ChangeSeen DEF Store!Next
    <2> QED BY <1>4, <2>1, <2>2, <2>3 DEF Chooses
  <1>5. CASE UNCHANGED vars
    BY <1>1, <1>5 DEF vars
  <1> QED BY <1>2, <1>3, <1>4, <1>5 DEF Next

\* The empty cache over the first disk is an initial BlockStore.
LEMMA InitSeen == Init => Store!Init
  <1> SUFFICES ASSUME Init PROVE Store!Init
    OBVIOUS
  <1>1. \A b \in Bufs : buf[b].blk = 0
    BY DEF Init, NoBuf
  <1>2. \A n \in Blocks : Current[n] = disk[n] /\ Holder[n] = 0
    BY <1>1, ConstFacts, SeenUncached
  <1>3. \A n \in Blocks : disk[n] \in Values
    BY ConstFacts DEF Init
  <1> HIDE DEF Init
  <1>4. Current \in [Blocks -> Values]
    BY <1>2, <1>3 DEF Current
  <1>5. Holder = [n \in Blocks |-> 0]
    BY <1>2 DEF Holder
  <1> QED BY <1>4, <1>5 DEF Store!Init

\* Whatever bget recycles, log_write pins and the drive has queued, the users of the buffer
\* cache see a BlockStore (bio.c over ide.c or memide.c): one content and at most one holder
\* per block, changed by its holder only, for any number of processes, buffers and blocks.
THEOREM CacheImplementsStore == Spec => ImplementsStore
  <1>1. Inv /\ Inv' /\ [Next]_vars => [Store!Next]_<<Current, Holder>>
    BY StepSeen
  <1> QED BY <1>1, InitInv, NextInv, InitSeen, PTL DEF Spec, ImplementsStore, Store!Spec

=============================================================================
