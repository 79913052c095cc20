------------------------------ MODULE FsProofs ------------------------------
(***************************************************************************)
(* Theorems about FileSys: the reference counts of inodes and files are    *)
(* exact, whatever calls the processes make and however their steps        *)
(* interleave.                                                             *)
(*                                                                         *)
(* RefsExact is about the moments when no call is under way, and InUse and *)
(* FileRefs leave the calls under way out: none of them is inductive.  The *)
(* invariant RInv says who holds every reference at every moment.  The     *)
(* stack pc of a process determines which of its locals x, ip, dp and old  *)
(* are references to be given up later, and whether its current directory  *)
(* still is one; RefsCounted says that these and the open files are all    *)
(* the references that an inode's count counts.  The other parts say which *)
(* stacks there are, that the locals a stack relies on name inodes, and    *)
(* that the descriptors of a file are as many as its count, also between   *)
(* filealloc and the filling in of the file in sys_open.                   *)
(*                                                                         *)
(* A kernel that has panicked stops in the middle of a call: Good says     *)
(* that some call is under way then.  No lock is needed for the counts:    *)
(* RInv says nothing about who has locked an inode.                        *)
(***************************************************************************)
EXTENDS FileSys, FiniteSetTheorems, SequenceTheorems, WellFoundedInduction, TLAPS
-----------------------------------------------------------------------------
(* What the operators of Inode keep *)

\* A set of natural numbers that is not empty has a least one.
LEMMA Least ==
  ASSUME NEW S, S \subseteq Nat, S # {}
  PROVE  \E x \in S : \A y \in S : x <= y
  <1>1. PICK x \in S : \A y \in S : ~ (<<y, x>> \in OpToRel(<, Nat))
    BY NatLessThanWellFounded, WFMin
  <1>2. \A y \in S : ~ (y < x)
    BY <1>1 DEF OpToRel
  <1> QED BY <1>2

\* The least element of a set is in it.
LEMMA MinIn ==
  ASSUME NEW S, S \subseteq Nat, S # {}
  PROVE  Min(S) \in S
  BY Least DEF Min

One(b) == IF b THEN 1 ELSE 0

\* From s to t the references stay; or i gets one more.
SameRefs(s, t)   == \A j \in Inums : t.mem[j].ref = s.mem[j].ref
OneMore(s, t, i) == \A j \in Inums : t.mem[j].ref = s.mem[j].ref + One(j = i)
Kept(s, t, N)    == Sound(t, N) /\ (t.panic = "" => s.panic = "" /\ SameRefs(s, t))
Got(s, t, i, N)  == Sound(t, N) /\ (t.panic = "" => s.panic = "" /\ OneMore(s, t, i))
\* The names and types that the kernel itself uses.
Named(N) == {"", "none", "file", "dir", "dev", ".", ".."} \subseteq N

\* Two steps that keep the references keep them together.
LEMMA KeptKept ==
  ASSUME NEW s, NEW t, NEW u, NEW N, Kept(s, t, N), Kept(t, u, N)
  PROVE  Kept(s, u, N)
  BY DEF Kept, SameRefs

\* A step that keeps the references before one that takes a reference.
LEMMA KeptGot ==
  ASSUME NEW s, NEW t, NEW u, NEW i, NEW N, Kept(s, t, N), Got(t, u, i, N)
  PROVE  Got(s, u, i, N)
  BY DEF Kept, Got, SameRefs, OneMore

\* A step that keeps the references ends in a sound state.
LEMMA KeptSound ==
  ASSUME NEW s, NEW t, NEW N, Kept(s, t, N)
  PROVE  Sound(t, N)
  BY DEF Kept

\* Doing nothing keeps the references.
LEMMA KeptSelf ==
  ASSUME NEW s, NEW N, Sound(s, N)
  PROVE  Kept(s, s, N)
  BY DEF Kept, SameRefs

\* A panic leaves a sound state, in which it is recorded.
LEMMA PanicKeeps ==
  ASSUME NEW s, NEW N, Sound(s, N), NEW why \in Panics, why # ""
  PROVE  Kept(s, Panic(s, why), N) /\ Panic(s, why).panic = why
  BY DEF Kept, Sound, Panic, FsStates

\* What iupdate writes, without Let.
LEMMA IupdateIs ==
  ASSUME NEW s, NEW i
  PROVE  Iupdate(s, i) = [s EXCEPT !.disk[i] = s.mem[i].d]
  BY DEF Iupdate, Let

\* iupdate (fs.c) changes no reference.
LEMMA IupdateKeeps ==
  ASSUME NEW s, NEW N, Sound(s, N), NEW i \in Inums
  PROVE  Kept(s, Iupdate(s, i), N)
  BY IupdateIs DEF Kept, Sound, FsStates, Cached, SameRefs

\* Reading an inode from disk, as ilock does, changes no reference, also when it panics.
LEMMA LoadKeeps ==
  ASSUME NEW s, NEW N, Sound(s, N), NEW i \in Inums
  PROVE  Kept(s, Load(s, i), N)
  <1>1. CASE s.mem[i].valid
    <2>1. Load(s, i) = s
      BY <1>1 DEF Load
    <2> QED BY <2>1, KeptSelf
  <1>2. CASE ~s.mem[i].valid /\ s.disk[i].type = "none"
    <2>1. Load(s, i) = Panic(s, "ilock: no type")
      BY <1>2 DEF Load
    <2> QED BY <2>1, PanicKeeps DEF Panics
  <1>3. CASE ~s.mem[i].valid /\ s.disk[i].type # "none"
    BY <1>3 DEF Load, Kept, Sound, FsStates, Cached, SameRefs
  <1> QED BY <1>1, <1>2, <1>3

\* A free inode has the form of one.
LEMMA FreeInodeOK ==
  ASSUME NEW N, Named(N)
  PROVE  FreeInode \in Dinodes(N) /\ Whole(FreeInode)
  <1>1. PICK n \in N : n = "none"
    BY DEF Named
  <1> HIDE DEF Named
  <1>2. FreeInode = [type |-> n, nlink |-> 0, size |-> 0, ind |-> 0, addrs |-> [k \in Slots |-> 0]]
    BY <1>1 DEF FreeInode
  <1> QED BY <1>2, InodeAssumption DEF Dinodes, Whole

\* iget takes one reference to its inode and none to another, or panics.
LEMMA IgetGets ==
  ASSUME NEW s, NEW N, Sound(s, N), Named(N), NEW i \in Inums
  PROVE  Got(s, Iget(s, i), i, N)
  <1> DEFINE full == Cardinality({j \in Inums : s.mem[j].ref > 0}) >= NINODE
  <1>1. CASE s.mem[i].ref > 0
    <2> DEFINE t == [s EXCEPT !.mem[i].ref = @ + 1]
    <2>1. Iget(s, i) = t
      BY <1>1 DEF Iget
    <2>a. t = [s EXCEPT !.mem = [s.mem EXCEPT ![i].ref = @ + 1]]
      BY DEF Sound, FsStates
    <2>b. [s.mem EXCEPT ![i].ref = @ + 1] \in [Inums -> Cached(N)]
      BY DEF Sound, FsStates, Cached
    <2>c. \A j \in Inums : t.mem[j].d = s.mem[j].d /\ t.disk[j] = s.disk[j]
      BY DEF Sound, FsStates, Cached
    <2>2. Sound(t, N)
      BY <2>a, <2>b, <2>c DEF Sound, FsStates
    <2>3. OneMore(s, t, i)
      BY DEF Sound, FsStates, Cached, OneMore, One
    <2>4. t.panic = s.panic
      BY DEF Sound, FsStates
    <2> QED BY <2>1, <2>2, <2>3, <2>4 DEF Got
  <1>2. CASE ~(s.mem[i].ref > 0) /\ full
    <2>1. Iget(s, i) = Panic(s, "iget: no inodes")
      BY <1>2 DEF Iget
    <2>2. Kept(s, Panic(s, "iget: no inodes"), N) /\ Panic(s, "iget: no inodes").panic = "iget: no inodes"
      BY PanicKeeps DEF Panics
    <2> QED BY <2>1, <2>2 DEF Got, Kept
  <1>3. CASE ~(s.mem[i].ref > 0) /\ ~full
    <2>1. Iget(s, i) = [s EXCEPT !.mem[i] = [ref |-> 1, valid |-> FALSE, d |-> FreeInode]]
      BY <1>3 DEF Iget
    <2>2. PICK d \in Dinodes(N) : Whole(d) /\ d = FreeInode
      BY FreeInodeOK
    <2> DEFINE t == [s EXCEPT !.mem[i] = [ref |-> 1, valid |-> FALSE, d |-> d]]
    <2>3. s.mem[i].ref = 0
      BY <1>3 DEF Sound, FsStates, Cached
    <2>4. Sound(t, N)
      BY <2>2 DEF Sound, FsStates, Cached
    <2>5. OneMore(s, t, i)
      BY <2>3 DEF Sound, FsStates, Cached, OneMore, One
    <2>6. t.panic = s.panic
      BY DEF Sound, FsStates
    <2> QED BY <2>1, <2>2, <2>4, <2>5, <2>6 DEF Got
  <1> QED BY <1>1, <1>2, <1>3
\* The cached inode becomes c, with as many references; the inode in the cache becomes d.
WithMem(s, i, c) == [s EXCEPT !.mem[i] = c]
WithD(s, i, d)   == [s EXCEPT !.mem[i].d = d]

\* Changing a cached inode without its count changes no reference.
LEMMA MemKeeps ==
  ASSUME NEW s, NEW N, Sound(s, N), NEW i \in Inums, NEW c \in Cached(N), Whole(c.d), c.ref = s.mem[i].ref,
         NEW t, t = WithMem(s, i, c)
  PROVE  Kept(s, t, N) /\ t.mem[i] = c /\ t.panic = s.panic
  BY DEF Kept, Sound, FsStates, Cached, SameRefs, WithMem

\* A cache entry with other contents.
LEMMA CachedWith ==
  ASSUME NEW N, NEW m \in Cached(N), NEW d \in Dinodes(N), NEW c, c = [m EXCEPT !.d = d]
  PROVE  c \in Cached(N) /\ c.d = d /\ c.ref = m.ref
  BY DEF Cached

\* Changing the contents of a cached inode changes no reference.
LEMMA DinodeKeeps ==
  ASSUME NEW s, NEW N, Sound(s, N), NEW i \in Inums, NEW d \in Dinodes(N), Whole(d),
         NEW t, t = WithD(s, i, d)
  PROVE  Kept(s, t, N) /\ t.mem[i].d = d /\ t.panic = s.panic /\ t.blk = s.blk /\ t.used = s.used /\ t.disk = s.disk
  <1>1. PICK m \in Cached(N) : m = s.mem[i]
    BY DEF Sound, FsStates
  <1>2. PICK c : c = [m EXCEPT !.d = d]
    OBVIOUS
  <1>3. c \in Cached(N) /\ c.d = d /\ c.ref = m.ref
    BY <1>2, CachedWith
  <1>4. t = WithMem(s, i, c)
    BY <1>1, <1>2 DEF Sound, FsStates, WithMem, WithD
  <1>5. Whole(c.d)
    BY <1>3
  <1>6. Kept(s, t, N) /\ t.mem[i] = c /\ t.panic = s.panic
    <2>1. c.ref = s.mem[i].ref /\ c \in Cached(N)
      BY <1>1, <1>3
    <2> QED BY <2>1, <1>4, <1>5, MemKeeps
  <1>7. t.blk = s.blk /\ t.used = s.used /\ t.disk = s.disk
    BY <1>4 DEF Sound, FsStates, WithMem
  <1> QED BY <1>3, <1>6, <1>7

\* Counting links changes no reference.
LEMMA AddLinksKeeps ==
  ASSUME NEW s, NEW N, Sound(s, N), NEW i \in Inums, NEW n \in Int
  PROVE  Kept(s, AddLinks(s, i, n), N)
  <1>1. PICK d \in Dinodes(N) : d = s.mem[i].d /\ Whole(d)
    BY DEF Sound, FsStates, Cached
  <1>2. PICK e : e = [d EXCEPT !.nlink = @ + n]
    OBVIOUS
  <1>3. e \in Dinodes(N) /\ e.size = d.size /\ e.addrs = d.addrs
    BY <1>2 DEF Dinodes
  <1>4. Whole(e)
    BY <1>1, <1>3 DEF Whole
  <1>5. PICK t : t = [s EXCEPT !.mem[i].d.nlink = @ + n]
    OBVIOUS
  <1>6. t = WithD(s, i, e)
    BY <1>1, <1>2, <1>5 DEF Sound, FsStates, Cached, WithD
  <1>7. Kept(s, t, N)
    BY <1>3, <1>4, <1>6, DinodeKeeps
  <1>8. Kept(t, Iupdate(t, i), N)
    BY <1>7, IupdateKeeps DEF Kept
  <1> QED BY <1>5, <1>7, <1>8, KeptKept DEF AddLinks

\* Marking a cached inode as not valid changes no reference.
LEMMA InvalidKeeps ==
  ASSUME NEW s, NEW N, Sound(s, N), NEW i \in Inums
  PROVE  Kept(s, [s EXCEPT !.mem[i].valid = FALSE], N)
  <1>1. PICK m \in Cached(N) : m = s.mem[i] /\ Whole(m.d)
    BY DEF Sound, FsStates
  <1>2. PICK c : c = [m EXCEPT !.valid = FALSE]
    OBVIOUS
  <1>3. c \in Cached(N) /\ c.d = m.d /\ c.ref = m.ref
    BY <1>2 DEF Cached
  <1>4. [s EXCEPT !.mem[i].valid = FALSE] = WithMem(s, i, c)
    BY <1>1, <1>2 DEF Sound, FsStates, WithMem
  <1>5. Whole(c.d)
    BY <1>1, <1>3
  <1> QED BY <1>1, <1>3, <1>4, <1>5, MemKeeps

\* What itrunc leaves has the form of an inode.
LEMMA Empties ==
  ASSUME NEW d, NEW N, d \in Dinodes(N),
         NEW e, e = [d EXCEPT !.size = 0, !.ind = 0, !.addrs = [k \in Slots |-> 0]]
  PROVE  e \in Dinodes(N) /\ Whole(e)
  <1>1. e = [type |-> d.type, nlink |-> d.nlink, size |-> 0, ind |-> 0, addrs |-> [k \in Slots |-> 0]]
    BY DEF Dinodes
  <1> QED BY <1>1, InodeAssumption DEF Dinodes, Whole

\* Changing the bitmap changes no reference.
LEMMA UsedKeeps ==
  ASSUME NEW s, NEW N, Sound(s, N), NEW u \in SUBSET Blocks, NEW r, r = [s EXCEPT !.used = u]
  PROVE  Kept(s, r, N) /\ r.mem = s.mem /\ r.panic = s.panic
  <1>1. r.mem = s.mem /\ r.disk = s.disk /\ r.panic = s.panic /\ r \in FsStates(N)
    BY DEF Sound, FsStates
  <1> QED BY <1>1 DEF Kept, Sound, SameRefs

\* itrunc changes no reference.
LEMMA ItruncKeeps ==
  ASSUME NEW s, NEW N, Sound(s, N), NEW i \in Inums
  PROVE  Kept(s, Itrunc(s, i), N)
  <1>1. PICK d \in Dinodes(N) : d = s.mem[i].d
    BY DEF Sound, FsStates, Cached
  <1>2. PICK e : e = [d EXCEPT !.size = 0, !.ind = 0, !.addrs = [k \in Slots |-> 0]]
    OBVIOUS
  <1>3. e \in Dinodes(N) /\ Whole(e)
    BY <1>2, Empties
  <1>4. PICK u \in SUBSET Blocks : u = s.used \ OwnBlocks(s.mem[i].d)
    BY DEF Sound, FsStates
  <1>5. PICK r : r = [s EXCEPT !.used = u]
    OBVIOUS
  <1>6. Kept(s, r, N) /\ r.mem = s.mem
    BY <1>5, UsedKeeps
  <1>7. PICK t : t = [s EXCEPT !.used = @ \ OwnBlocks(s.mem[i].d),
                            !.mem[i].d = [@ EXCEPT !.size = 0, !.ind = 0, !.addrs = [k \in Slots |-> 0]]]
    OBVIOUS
  <1>8. t = WithD(r, i, e)
    BY <1>1, <1>2, <1>4, <1>5, <1>7 DEF Sound, FsStates, Cached, WithD
  <1>9. Kept(r, t, N)
    <2>1. Sound(r, N)
      BY <1>6 DEF Kept
    <2> QED BY ONLY <2>1, i \in Inums, <1>3, <1>8, DinodeKeeps
  <1>10. Kept(t, Iupdate(t, i), N)
    BY <1>9, IupdateKeeps DEF Kept
  <1>11. Kept(s, t, N)
    BY <1>6, <1>9, KeptKept
  <1> QED BY <1>7, <1>10, <1>11, KeptKept DEF Itrunc

\* iput's freeing of an inode changes no reference: the count goes down afterwards.
LEMMA FreedKeeps ==
  ASSUME NEW s, NEW N, Sound(s, N), Named(N), NEW i \in Inums
  PROVE  Kept(s, Freed(s, i), N)
  <1>1. PICK t : t = Itrunc(s, i)
    OBVIOUS
  <1>2. Kept(s, t, N) /\ Sound(t, N)
    BY <1>1, ItruncKeeps DEF Kept
  <1>3. PICK d \in Dinodes(N) : d = t.mem[i].d /\ Whole(d)
    BY <1>2 DEF Sound, FsStates, Cached
  <1>4. PICK e : e = [d EXCEPT !.type = "none"]
    OBVIOUS
  <1>5. e \in Dinodes(N) /\ e.size = d.size /\ e.addrs = d.addrs
    BY <1>4 DEF Dinodes, Named
  <1>6. Whole(e)
    BY <1>3, <1>5 DEF Whole
  <1>7. PICK u : u = [t EXCEPT !.mem[i].d.type = "none"]
    OBVIOUS
  <1>8. u = WithD(t, i, e)
    BY <1>2, <1>3, <1>4, <1>7 DEF Sound, FsStates, Cached, WithD
  <1>9. Kept(t, u, N)
    BY <1>2, <1>5, <1>6, <1>8, DinodeKeeps
  <1>10. Kept(u, Iupdate(u, i), N)
    BY <1>9, IupdateKeeps DEF Kept
  <1>11. Kept(t, Iupdate(u, i), N)
    BY <1>9, <1>10, KeptKept
  <1>12. Freed(s, i) = Iupdate(u, i)
    BY <1>1, <1>7 DEF Freed, Let
  <1> QED BY <1>2, <1>11, <1>12, KeptKept

\* A unit of zeros is a unit.
LEMMA ZeroUnit ==
  ASSUME NEW N, Named(N)
  PROVE  Zero \in Units(N)
  <1>1. PICK n \in N : n = ""
    BY DEF Named
  <1>2. Zero = [n |-> n, i |-> 0]
    BY <1>1 DEF Zero, Unit
  <1>3. 0 \in 0..NINODES
    BY InodeAssumption
  <1> QED BY <1>2, <1>3 DEF Units

\* balloc's block is a block, and taking it changes no reference.
LEMMA TakeKeeps ==
  ASSUME NEW s, NEW N, Sound(s, N), Named(N), ~Full(s)
  PROVE  /\ Kept(s, Take(s), N) /\ Take(s).mem = s.mem /\ Take(s).panic = s.panic
         /\ Balloc(s) \in Blocks
  <1>1. Balloc(s) \in Blocks
    <2>1. Blocks \ s.used # {} /\ Blocks \ s.used \subseteq Nat
      BY DEF Full, Blocks
    <2> QED BY <2>1, MinIn DEF Balloc
  <1>2. PICK z : z = [k \in 0..(BSIZE - 1) |-> Zero]
    OBVIOUS
  <1>3. z \in [0..(BSIZE - 1) -> Units(N)]
    BY <1>2, ZeroUnit
  <1>4. PICK b \in Blocks : b = Balloc(s)
    BY <1>1
  <1>5. PICK t : t = [s EXCEPT !.used = @ \cup {b}, !.blk[b] = z]
    OBVIOUS
  <1>6. t.mem = s.mem /\ t.disk = s.disk /\ t.panic = s.panic
    BY <1>5 DEF Sound, FsStates
  <1>7. t \in FsStates(N)
    <2>1. PICK u \in SUBSET Blocks : u = s.used \cup {b}
      BY DEF Sound, FsStates
    <2>2. PICK f \in [Blocks -> [0..(BSIZE - 1) -> Units(N)]] : f = [s.blk EXCEPT ![b] = z]
      BY <1>3 DEF Sound, FsStates
    <2>3. t = [disk |-> s.disk, mem |-> s.mem, blk |-> f, used |-> u, panic |-> s.panic]
      BY <1>5, <2>1, <2>2 DEF Sound, FsStates
    <2> QED BY <2>3 DEF Sound, FsStates
  <1>8. Take(s) = t
    BY <1>2, <1>4, <1>5 DEF Take
  <1>9. Kept(s, t, N)
    BY <1>6, <1>7 DEF Kept, Sound, SameRefs
  <1> QED BY <1>1, <1>6, <1>8, <1>9

\* The size of an inode stays, and so do its blocks.
Grows(s, t, i) ==
  /\ t.mem[i].d.size = s.mem[i].d.size
  /\ \A k \in Slots : s.mem[i].d.addrs[k] # 0 => t.mem[i].d.addrs[k] # 0

\* Two steps that keep size and blocks keep them together.
LEMMA GrowsGrows ==
  ASSUME NEW s, NEW t, NEW u, NEW i, Grows(s, t, i), Grows(t, u, i)
  PROVE  Grows(s, u, i)
  BY DEF Grows

\* A panic leaves the cache.
LEMMA PanicMem ==
  ASSUME NEW s, NEW N, Sound(s, N), NEW why
  PROVE  Panic(s, why).mem = s.mem
  BY DEF Panic, Sound, FsStates

\* Allocating the indirect block changes no reference and loses no block.
LEMMA TakeIndKeeps ==
  ASSUME NEW s, NEW N, Sound(s, N), Named(N), NEW i \in Inums
  PROVE  Kept(s, TakeInd(s, i), N) /\ Grows(s, TakeInd(s, i), i)
  <1>1. CASE s.mem[i].d.ind # 0
    BY <1>1, KeptSelf DEF TakeInd, Grows
  <1>2. CASE s.mem[i].d.ind = 0 /\ Full(s)
    <2>1. TakeInd(s, i) = Panic(s, "balloc: out of blocks")
      BY <1>2 DEF TakeInd
    <2>2. Kept(s, Panic(s, "balloc: out of blocks"), N)
      BY PanicKeeps DEF Panics
    <2> QED BY <2>1, <2>2, PanicMem DEF Grows
  <1>3. CASE s.mem[i].d.ind = 0 /\ ~Full(s)
    <2>1. PICK t : t = Take(s)
      OBVIOUS
    <2>2. Kept(s, t, N) /\ t.mem = s.mem /\ t.panic = s.panic
      BY <1>3, <2>1, TakeKeeps
    <2>3. PICK b \in Blocks : b = Balloc(s)
      BY <1>3, TakeKeeps
    <2>4. PICK d \in Dinodes(N) : d = t.mem[i].d /\ Whole(d)
      BY <2>2 DEF Sound, FsStates, Cached
    <2>5. PICK e : e = [d EXCEPT !.ind = b]
      OBVIOUS
    <2>6. e \in Dinodes(N) /\ e.size = d.size /\ e.addrs = d.addrs
      BY <2>5, InodeAssumption DEF Dinodes, Blocks
    <2>7. Whole(e)
      BY <2>4, <2>6 DEF Whole
    <2>8. PICK u : u = [t EXCEPT !.mem[i].d.ind = b]
      OBVIOUS
    <2>9. Sound(t, N)
      BY <2>2 DEF Kept
    <2>10. u = WithD(t, i, e)
      BY <2>9, <2>4, <2>5, <2>8 DEF Sound, FsStates, Cached, WithD
    <2>11. Kept(t, u, N) /\ u.mem[i].d = e
      BY <2>6, <2>7, <2>9, <2>10, DinodeKeeps
    <2>12. TakeInd(s, i) = u
      BY <1>3, <2>1, <2>3, <2>8 DEF TakeInd
    <2>13. Grows(s, u, i)
      BY <2>2, <2>4, <2>6, <2>11 DEF Grows
    <2> QED BY <2>2, <2>11, <2>12, <2>13, KeptKept
  <1> QED BY <1>1, <1>2, <1>3

\* Allocating a data block does neither, and then the slot has a block.
LEMMA TakeAddrKeeps ==
  ASSUME NEW s, NEW N, Sound(s, N), Named(N), NEW i \in Inums, NEW k \in Slots
  PROVE  /\ Kept(s, TakeAddr(s, i, k), N) /\ Grows(s, TakeAddr(s, i, k), i)
         /\ TakeAddr(s, i, k).panic = "" => TakeAddr(s, i, k).mem[i].d.addrs[k] # 0
  <1>1. CASE s.mem[i].d.addrs[k] # 0
    BY <1>1, KeptSelf DEF TakeAddr, Grows
  <1>2. CASE s.mem[i].d.addrs[k] = 0 /\ Full(s)
    <2>1. TakeAddr(s, i, k) = Panic(s, "balloc: out of blocks")
      BY <1>2 DEF TakeAddr
    <2>2. Kept(s, Panic(s, "balloc: out of blocks"), N) /\ Panic(s, "balloc: out of blocks").panic # ""
      BY PanicKeeps DEF Panics
    <2> QED BY <2>1, <2>2, PanicMem DEF Grows
  <1>3. CASE s.mem[i].d.addrs[k] = 0 /\ ~Full(s)
    <2>1. PICK t : t = Take(s)
      OBVIOUS
    <2>2. Kept(s, t, N) /\ t.mem = s.mem /\ t.panic = s.panic
      BY <1>3, <2>1, TakeKeeps
    <2>3. PICK b \in Blocks : b = Balloc(s)
      BY <1>3, TakeKeeps
    <2>4. PICK d \in Dinodes(N) : d = t.mem[i].d /\ Whole(d)
      BY <2>2 DEF Sound, FsStates, Cached
    <2>a. PICK a : a = [d.addrs EXCEPT ![k] = b]
      OBVIOUS
    <2>c. a \in [Slots -> 0..NBLOCKS]
      BY <2>a, InodeAssumption DEF Dinodes, Blocks
    <2>b. b # 0 /\ a[k] = b /\ \A x \in Slots : x # k => a[x] = d.addrs[x]
      BY <2>a, InodeAssumption DEF Dinodes, Blocks
    <2>5. PICK e : e = [d EXCEPT !.addrs = a]
      OBVIOUS
    <2>6. e \in Dinodes(N) /\ e.size = d.size /\ e.addrs = a
      BY <2>5, <2>c DEF Dinodes
    <2>7. Whole(e)
      BY <2>4, <2>6, <2>b DEF Whole
    <2>8. PICK u : u = [t EXCEPT !.mem[i].d.addrs[k] = b]
      OBVIOUS
    <2>9. Sound(t, N)
      BY <2>2 DEF Kept
    <2>10. u = WithD(t, i, e)
      BY <2>9, <2>4, <2>a, <2>5, <2>8 DEF Sound, FsStates, Cached, WithD, Dinodes
    <2>11. Kept(t, u, N) /\ u.mem[i].d = e
      BY <2>6, <2>7, <2>9, <2>10, DinodeKeeps
    <2>12. TakeAddr(s, i, k) = u
      BY <1>3, <2>1, <2>3, <2>8 DEF TakeAddr
    <2>13. Grows(s, u, i) /\ u.mem[i].d.addrs[k] # 0
      BY <2>2, <2>4, <2>6, <2>11, <2>b DEF Grows
    <2> QED BY <2>2, <2>11, <2>12, <2>13, KeptKept
  <1> QED BY <1>1, <1>2, <1>3

\* bmap changes no reference, and unless it panics there is a block.
LEMMA BmapKeeps ==
  ASSUME NEW s, NEW N, Sound(s, N), Named(N), NEW i \in Inums, NEW k \in Nat
  PROVE  /\ Kept(s, Bmap(s, i, k), N) /\ Grows(s, Bmap(s, i, k), i)
         /\ Bmap(s, i, k).panic = "" => k \in Slots /\ Bmap(s, i, k).mem[i].d.addrs[k] # 0
  <1>1. CASE k < NDIRECT
    <2>1. k \in Slots /\ ~(k \in NDIRECT..(NDIRECT + NINDIRECT - 1))
      BY <1>1, InodeAssumption DEF Slots
    <2>2. Bmap(s, i, k) = TakeAddr(s, i, k)
      BY <1>1, <2>1 DEF Bmap
    <2> QED BY <2>1, <2>2, TakeAddrKeeps
  <1>2. CASE k \in NDIRECT..(NDIRECT + NINDIRECT - 1)
    <2>1. k \in Slots /\ ~(k < NDIRECT)
      BY <1>2, InodeAssumption DEF Slots
    <2>2. PICK t : t = TakeInd(s, i)
      OBVIOUS
    <2>3. Bmap(s, i, k) = TakeAddr(t, i, k)
      BY <1>2, <2>1, <2>2 DEF Bmap, Let
    <2>4. Kept(s, t, N) /\ Grows(s, t, i) /\ Sound(t, N)
      BY <2>2, TakeIndKeeps DEF Kept
    <2>5. PICK u : u = TakeAddr(t, i, k)
      OBVIOUS
    <2>6. Kept(t, u, N) /\ Grows(t, u, i) /\ (u.panic = "" => u.mem[i].d.addrs[k] # 0)
      BY <2>1, <2>4, <2>5, TakeAddrKeeps
    <2>7. Kept(s, u, N) /\ Grows(s, u, i)
      BY <2>4, <2>6, KeptKept, GrowsGrows
    <2> QED BY <2>1, <2>3, <2>5, <2>6, <2>7
  <1>3. CASE ~(k < NDIRECT) /\ ~(k \in NDIRECT..(NDIRECT + NINDIRECT - 1))
    <2>1. Bmap(s, i, k) = Panic(s, "bmap: out of range")
      BY <1>3 DEF Bmap
    <2>2. Kept(s, Panic(s, "bmap: out of range"), N) /\ Panic(s, "bmap: out of range").panic # ""
      BY PanicKeeps DEF Panics
    <2> QED BY <2>1, <2>2, PanicMem DEF Grows
  <1> QED BY <1>1, <1>2, <1>3

\* The block and the place in it of a unit.
LEMMA DivMod ==
  ASSUME NEW k \in Nat
  PROVE  k \div BSIZE \in Nat /\ k % BSIZE \in 0..(BSIZE - 1)
  BY InodeAssumption

\* Unit k of the file has a block.
HasUnit(s, i, k) == k \div BSIZE \in Slots /\ s.mem[i].d.addrs[k \div BSIZE] # 0

StoreUnit(t, i, k, u) == IF t.panic # "" THEN t ELSE [t EXCEPT !.blk[t.mem[i].d.addrs[k \div BSIZE]][k % BSIZE] = u]

\* Writing one unit changes no reference, and then the unit has a block.
LEMMA PutUnitKeeps ==
  ASSUME NEW s, NEW N, Sound(s, N), Named(N), NEW i \in Inums, NEW k \in Nat, NEW u \in Units(N)
  PROVE  /\ Kept(s, PutUnit(s, i, k, u), N) /\ Grows(s, PutUnit(s, i, k, u), i)
         /\ PutUnit(s, i, k, u).panic = "" => HasUnit(PutUnit(s, i, k, u), i, k)
  <1>1. CASE s.panic # ""
    <2>1. PutUnit(s, i, k, u) = s
      BY <1>1 DEF PutUnit
    <2> QED BY <1>1, <2>1, KeptSelf DEF Grows
  <1>2. CASE s.panic = ""
    <2>1. PICK b \in Nat : b = k \div BSIZE
      BY DivMod
    <2>2. PICK m \in 0..(BSIZE - 1) : m = k % BSIZE
      BY DivMod
    <2>3. PICK t : t = Bmap(s, i, b)
      OBVIOUS
    <2>4. Kept(s, t, N) /\ Grows(s, t, i) /\ (t.panic = "" => b \in Slots /\ t.mem[i].d.addrs[b] # 0)
      BY <2>3, BmapKeeps
    <2>5. PutUnit(s, i, k, u) = IF t.panic # "" THEN t ELSE [t EXCEPT !.blk[t.mem[i].d.addrs[b]][m] = u]
      <3>1. PutUnit(s, i, k, u) = StoreUnit(Bmap(s, i, k \div BSIZE), i, k, u)
        <4>1. PICK v : v = Bmap(s, i, k \div BSIZE)
          OBVIOUS
        <4>2. PICK w : w = StoreUnit(v, i, k, u)
          OBVIOUS
        <4>3. {StoreUnit(x, i, k, u) : x \in {v}} = {w}
          BY <4>2
        <4>4. PutUnit(s, i, k, u) = CHOOSE r \in {StoreUnit(x, i, k, u) : x \in {v}} : TRUE
          BY <1>2, <4>1 DEF PutUnit, Let, StoreUnit
        <4> QED BY <4>1, <4>2, <4>3, <4>4
      <3>2. PutUnit(s, i, k, u) = StoreUnit(t, i, k, u)
        BY <2>1, <2>3, <3>1
      <3> QED BY <2>1, <2>2, <3>2 DEF StoreUnit
    <2>6. CASE t.panic # ""
      BY <2>4, <2>5, <2>6
    <2>7. CASE t.panic = ""
      <3>1. Sound(t, N)
        BY <2>4 DEF Kept
      <3>2. t.mem[i].d.addrs[b] \in Blocks
        <4>1. PICK d \in Dinodes(N) : d = t.mem[i].d
          BY <3>1 DEF Sound, FsStates, Cached
        <4>2. d.addrs[b] \in 0..NBLOCKS
          BY <2>4, <2>7 DEF Dinodes
        <4>3. d.addrs[b] # 0
          BY <2>4, <2>7, <4>1
        <4> QED BY <4>1, <4>2, <4>3, InodeAssumption DEF Blocks
      <3>3. PICK a \in Blocks : a = t.mem[i].d.addrs[b]
        BY <3>2
      <3>4. PICK f : f = [t.blk EXCEPT ![a][m] = u]
        OBVIOUS
      <3>5. f \in [Blocks -> [0..(BSIZE - 1) -> Units(N)]]
        BY <3>1, <3>4 DEF Sound, FsStates
      <3>6. PICK r : r = [t EXCEPT !.blk = f]
        OBVIOUS
      <3>7. r \in FsStates(N) /\ r.mem = t.mem /\ r.disk = t.disk /\ r.panic = t.panic
        BY <3>1, <3>5, <3>6 DEF Sound, FsStates
      <3>8. PutUnit(s, i, k, u) = r
        BY <2>5, <2>7, <3>1, <3>3, <3>4, <3>6 DEF Sound, FsStates
      <3>9. Kept(t, r, N) /\ Grows(t, r, i)
        BY <3>1, <3>7 DEF Kept, Sound, SameRefs, Grows
      <3>10. Kept(s, r, N) /\ Grows(s, r, i)
        BY <2>4, <3>9, KeptKept, GrowsGrows
      <3>11. HasUnit(r, i, k)
        BY <2>1, <2>4, <2>7, <3>7 DEF HasUnit
      <3> QED BY <3>8, <3>10, <3>11
    <2> QED BY <2>6, <2>7
  <1> QED BY <1>1, <1>2

\* What the loop of writei computes, unrolled.
PutNext(f, s, i, off, units, k) == IF k = 0 THEN s ELSE Let(f[k - 1], LAMBDA t : PutUnit(t, i, off + k - 1, units[k]))
PutsTo(s, i, off, units, n) == CHOOSE f : f = [k \in 0..n |-> PutNext(f, s, i, off, units, k)]

\* The loop of writei has states: there is no least n for which the recursion fails.
LEMMA PutsExist ==
  ASSUME NEW s, NEW i, NEW off, NEW units, NEW n \in Nat
  PROVE  \E f : f = [k \in 0..n |-> PutNext(f, s, i, off, units, k)]
  <1> DEFINE Has(x) == \E f : f = [k \in 0..x |-> PutNext(f, s, i, off, units, k)]
             Bad == {x \in Nat : ~Has(x)}
  <1>1. SUFFICES ASSUME Bad # {} PROVE FALSE
    OBVIOUS
  <1>2. PICK x \in Bad : \A y \in Bad : x <= y
    BY <1>1, Least, Zenon
  <1>3. x \in Nat /\ ~Has(x)
    BY <1>2
  <1>4. x # 0
    <2>1. [k \in 0..0 |-> s] = [k \in 0..0 |-> PutNext([l \in 0..0 |-> s], s, i, off, units, k)]
      BY DEF PutNext
    <2> QED BY <1>3, <2>1
  <1>5. PICK f : f = [k \in 0..(x - 1) |-> PutNext(f, s, i, off, units, k)]
    <2>1. x - 1 \in Nat /\ ~(x <= x - 1)
      BY <1>3, <1>4
    <2> QED BY <1>2, <2>1
  <1>6. PICK g : g = [k \in 0..x |-> IF k = x THEN PutNext(f, s, i, off, units, x) ELSE f[k]]
    OBVIOUS
  <1>7. \A k \in 0..x : g[k] = PutNext(g, s, i, off, units, k)
    <2>1. TAKE k \in 0..x
    <2>2. CASE k = 0
      BY <1>3, <1>4, <1>5, <1>6, <2>2 DEF PutNext
    <2>3. CASE k # 0 /\ k # x
      <3>1. g[k] = PutNext(f, s, i, off, units, k)
        BY <1>3, <1>5, <1>6, <2>3
      <3>2. g[k - 1] = f[k - 1]
        BY <1>3, <1>6, <2>3
      <3> QED BY <3>1, <3>2 DEF PutNext
    <2>4. CASE k # 0 /\ k = x
      <3>1. g[k] = PutNext(f, s, i, off, units, k)
        BY <1>3, <1>6, <2>4
      <3>2. g[k - 1] = f[k - 1]
        BY <1>3, <1>6, <2>4
      <3> QED BY <3>1, <3>2 DEF PutNext
    <2> QED BY <2>2, <2>3, <2>4
  <1>8. g = [k \in 0..x |-> PutNext(g, s, i, off, units, k)]
    BY <1>6, <1>7
  <1> QED BY <1>3, <1>8

\* The states of the loop of writei, turn by turn.
LEMMA PutsAre ==
  ASSUME NEW s, NEW i, NEW off, NEW units, Len(units) \in Nat, NEW f, f = Puts(s, i, off, units)
  PROVE  /\ f[0] = s
         /\ \A k \in 1..Len(units) : f[k] = PutUnit(f[k - 1], i, off + k - 1, units[k])
  <1>1. f = PutsTo(s, i, off, units, Len(units))
    BY Zenon DEF Puts, PutsTo, PutNext
  <1>2. f = [k \in 0..Len(units) |-> PutNext(f, s, i, off, units, k)]
    <2>1. PICK n \in Nat : n = Len(units)
      OBVIOUS
    <2>2. f = CHOOSE g : g = [k \in 0..n |-> PutNext(g, s, i, off, units, k)]
      BY <1>1, <2>1 DEF PutsTo
    <2>3. \E g : g = [k \in 0..n |-> PutNext(g, s, i, off, units, k)]
      BY PutsExist
    <2>4. f = [k \in 0..n |-> PutNext(f, s, i, off, units, k)]
      BY <2>2, <2>3, Zenon
    <2> QED BY <2>1, <2>4
  <1>3. f[0] = s
    BY <1>2 DEF PutNext
  <1>4. ASSUME NEW k \in 1..Len(units) PROVE f[k] = PutUnit(f[k - 1], i, off + k - 1, units[k])
    <2>1. f[k] = PutNext(f, s, i, off, units, k) /\ k # 0
      BY <1>2
    <2> QED BY <2>1 DEF PutNext, Let
  <1> QED BY <1>3, <1>4

\* After k turns of the loop.
PutSoFar(s, t, N, i, off, k) ==
  /\ Kept(s, t, N) /\ Grows(s, t, i)
  /\ t.panic = "" => \A x \in off..(off + k - 1) : HasUnit(t, i, x)

\* The loop of writei changes no reference: no turn is the first that does.
LEMMA PutsKeep ==
  ASSUME NEW s, NEW N, Sound(s, N), Named(N), NEW i \in Inums, NEW off \in Nat, NEW units, Len(units) \in Nat,
         \A k \in 1..Len(units) : units[k] \in Units(N),
         NEW f, f = Puts(s, i, off, units)
  PROVE  PutSoFar(s, f[Len(units)], N, i, off, Len(units))
  <1> DEFINE Bad == {k \in 0..Len(units) : ~PutSoFar(s, f[k], N, i, off, k)}
  <1>1. SUFFICES ASSUME Bad # {} PROVE FALSE
    OBVIOUS
  <1>2. PICK k \in Bad : \A y \in Bad : k <= y
    <2>1. Bad \subseteq Nat
      OBVIOUS
    <2> HIDE DEF Bad
    <2> QED BY <1>1, <2>1, Least
  <1>3. k \in 0..Len(units) /\ ~PutSoFar(s, f[k], N, i, off, k)
    BY <1>2
  <1>4. f[0] = s /\ \A j \in 1..Len(units) : f[j] = PutUnit(f[j - 1], i, off + j - 1, units[j])
    BY PutsAre
  <1>5. k # 0
    <2>1. SUFFICES ASSUME k = 0 PROVE FALSE
      OBVIOUS
    <2>2. f[k] = s
      BY <1>4, <2>1
    <2>3. Kept(s, s, N) /\ Grows(s, s, i)
      BY KeptSelf DEF Grows
    <2>4. off..(off + k - 1) = {}
      BY <2>1
    <2> QED BY <1>3, <2>2, <2>3, <2>4 DEF PutSoFar
  <1>6. k - 1 \in 0..Len(units) /\ k \in 1..Len(units) /\ ~(k <= k - 1)
    BY <1>3, <1>5
  <1>7. PutSoFar(s, f[k - 1], N, i, off, k - 1)
    BY <1>2, <1>6
  <1>8. PICK t : t = f[k - 1]
    OBVIOUS
  <1>9. Kept(s, t, N) /\ Grows(s, t, i) /\ Sound(t, N) /\ (t.panic = "" => \A x \in off..(off + (k - 1) - 1) : HasUnit(t, i, x))
    BY <1>7, <1>8 DEF PutSoFar, Kept
  <1>10. PICK u : u = f[k]
    OBVIOUS
  <1>11. off + k - 1 \in Nat /\ units[k] \in Units(N)
    BY <1>6
  <1>12. /\ Kept(t, u, N) /\ Grows(t, u, i)
         /\ u.panic = "" => HasUnit(u, i, off + k - 1)
    BY <1>4, <1>6, <1>8, <1>9, <1>10, <1>11, PutUnitKeeps
  <1>13. Kept(s, u, N) /\ Grows(s, u, i)
    BY <1>9, <1>12, KeptKept, GrowsGrows
  <1>14. ASSUME u.panic = "", NEW x \in off..(off + k - 1) PROVE HasUnit(u, i, x)
    <2>1. CASE x = off + k - 1
      BY <1>12, <1>14, <2>1
    <2>2. CASE x # off + k - 1
      <3>1. x \in off..(off + (k - 1) - 1)
        BY <1>6, <2>2
      <3>2. t.panic = ""
        BY <1>12, <1>14 DEF Kept
      <3>3. HasUnit(t, i, x)
        BY <1>9, <3>1, <3>2
      <3> QED BY <1>12, <3>3 DEF HasUnit, Grows
    <2> QED BY <2>1, <2>2
  <1> QED BY <1>3, <1>10, <1>13, <1>14 DEF PutSoFar

\* The end of writei: the new size.
GrowTo(t, i, units, end) ==
  IF t.panic = "" /\ units # <<>> /\ end > t.mem[i].d.size THEN Iupdate([t EXCEPT !.mem[i].d.size = end], i) ELSE t

\* writei is its loop and then the new size.
LEMMA WriteiIs ==
  ASSUME NEW s, NEW i, NEW off, NEW units
  PROVE  Writei(s, i, off, units) = GrowTo(Puts(s, i, off, units)[Len(units)], i, units, off + Len(units))
  <1>1. PICK v : v = Puts(s, i, off, units)[Len(units)]
    OBVIOUS
  <1>2. PICK w : w = GrowTo(v, i, units, off + Len(units))
    OBVIOUS
  <1>3. {GrowTo(x, i, units, off + Len(units)) : x \in {v}} = {w}
    BY <1>2
  <1>4. Writei(s, i, off, units) = CHOOSE r \in {GrowTo(x, i, units, off + Len(units)) : x \in {v}} : TRUE
    BY <1>1 DEF Writei, Let, GrowTo
  <1> QED BY <1>1, <1>2, <1>3, <1>4

\* writei changes no reference, and a file that has grown has all its blocks.
LEMMA WriteiKeeps ==
  ASSUME NEW s, NEW N, Sound(s, N), Named(N), NEW i \in Inums, NEW off \in Nat, NEW units, Len(units) \in Nat,
         \A k \in 1..Len(units) : units[k] \in Units(N), off <= s.mem[i].d.size
  PROVE  Kept(s, Writei(s, i, off, units), N)
  <1>1. PICK f : f = Puts(s, i, off, units)
    OBVIOUS
  <1>2. PICK end \in Nat : end = off + Len(units)
    OBVIOUS
  <1>3. PICK t : t = f[Len(units)]
    OBVIOUS
  <1>4. Writei(s, i, off, units) = GrowTo(t, i, units, end)
    BY <1>1, <1>2, <1>3, WriteiIs
  <1>5. PutSoFar(s, t, N, i, off, Len(units))
    BY <1>1, <1>3, PutsKeep
  <1>6. Kept(s, t, N) /\ Grows(s, t, i) /\ Sound(t, N)
    BY <1>5 DEF PutSoFar, Kept
  <1>7. CASE ~(t.panic = "" /\ units # <<>> /\ end > t.mem[i].d.size)
    BY <1>4, <1>6, <1>7 DEF GrowTo
  <1>8. CASE t.panic = "" /\ units # <<>> /\ end > t.mem[i].d.size
    <2>1. \A x \in off..(off + Len(units) - 1) : HasUnit(t, i, x)
      BY <1>5, <1>8 DEF PutSoFar
    <2>2. PICK d \in Dinodes(N) : d = t.mem[i].d /\ Whole(d)
      BY <1>6 DEF Sound, FsStates, Cached
    <2>3. PICK e : e = [d EXCEPT !.size = end]
      OBVIOUS
    <2>4. e \in Dinodes(N) /\ e.size = end /\ e.addrs = d.addrs
      BY <2>3 DEF Dinodes
    <2>5. d.size \in Nat /\ off <= d.size
      BY <1>6, <2>2 DEF Grows, Dinodes
    <2>6. ASSUME NEW k \in 0..(e.size - 1) PROVE k \div BSIZE \in Slots /\ e.addrs[k \div BSIZE] # 0
      <3>1. CASE k < d.size
        <4>1. k \in 0..(d.size - 1)
          BY <2>4, <2>5, <3>1
        <4> QED BY <2>2, <2>4, <4>1 DEF Whole
      <3>2. CASE ~(k < d.size)
        <4>1. k \in off..(off + Len(units) - 1)
          BY <1>2, <2>4, <2>5, <3>2
        <4> QED BY <2>1, <2>2, <2>4, <4>1 DEF HasUnit
      <3> QED BY <3>1, <3>2
    <2>7. Whole(e)
      BY <2>6 DEF Whole
    <2>8. PICK u : u = [t EXCEPT !.mem[i].d.size = end]
      OBVIOUS
    <2>9. u = WithD(t, i, e)
      BY <1>6, <2>2, <2>3, <2>8 DEF Sound, FsStates, Cached, WithD
    <2>10. Kept(t, u, N)
      BY <1>6, <2>4, <2>7, <2>9, DinodeKeeps
    <2>11. Kept(u, Iupdate(u, i), N)
      BY <2>10, IupdateKeeps DEF Kept
    <2>12. Writei(s, i, off, units) = Iupdate(u, i)
      BY <1>4, <1>8, <2>8 DEF GrowTo
    <2>13. Kept(s, u, N)
      BY <1>6, <2>10, KeptKept
    <2> QED BY <2>11, <2>12, <2>13, KeptKept
  <1> QED BY <1>7, <1>8

-----------------------------------------------------------------------------
(* Directories *)

\* The content of a file is as long as its size and made of units.
LEMMA ContentOK ==
  ASSUME NEW s, NEW N, Sound(s, N), NEW i \in Inums, NEW c, c = Content(s, s.mem[i].d)
  PROVE  /\ s.mem[i].d.size \in Nat /\ c \in Seq(Units(N)) /\ Len(c) = s.mem[i].d.size
         /\ DOMAIN c = 1..Len(c)
         /\ \A k \in 1..Len(c) : c[k] \in Units(N)
  <1>1. PICK d \in Dinodes(N) : d = s.mem[i].d /\ Whole(d)
    BY DEF Sound, FsStates, Cached
  <1>2. PICK n \in Nat : n = d.size
    BY DEF Dinodes
  <1>3. ASSUME NEW k \in 1..n PROVE UnitAt(s, d, k - 1) \in Units(N)
    <2>1. k - 1 \in Nat /\ k - 1 \in 0..(d.size - 1)
      BY <1>2
    <2>2. (k - 1) \div BSIZE \in Slots /\ d.addrs[(k - 1) \div BSIZE] # 0
      BY <1>1, <2>1 DEF Whole
    <2>3. PICK b \in Slots : b = (k - 1) \div BSIZE
      BY <2>2
    <2>4. PICK m \in 0..(BSIZE - 1) : m = (k - 1) % BSIZE
      BY <2>1, DivMod
    <2>5. d.addrs[b] \in 0..NBLOCKS
      BY DEF Dinodes
    <2>6. d.addrs[b] \in Blocks
      BY <2>2, <2>3, <2>5, InodeAssumption DEF Blocks
    <2>7. s.blk[d.addrs[b]][m] \in Units(N)
      BY <2>6 DEF Sound, FsStates
    <2> QED BY <2>3, <2>4, <2>7 DEF UnitAt
  <1>4. c = [k \in 1..n |-> UnitAt(s, d, k - 1)]
    BY <1>1, <1>2 DEF Content
  <1>5. c \in [1..n -> Units(N)]
    BY <1>3, <1>4
  <1>6. c \in Seq(Units(N)) /\ Len(c) = n /\ DOMAIN c = 1..n
    BY <1>5
  <1> QED BY <1>1, <1>2, <1>5, <1>6

FirstIn(c, name) == IF EntriesOf(c, name) = {} THEN 0 ELSE c[Min(EntriesOf(c, name))].i

\* dirlookup gives the first entry with a name.
LEMMA LookupIs ==
  ASSUME NEW s, NEW dp, NEW name
  PROVE  Lookup(s, dp, name) = FirstIn(Content(s, s.mem[dp].d), name)
  <1>1. PICK v : v = Content(s, s.mem[dp].d)
    OBVIOUS
  <1>2. PICK w : w = FirstIn(v, name)
    OBVIOUS
  <1>3. {FirstIn(x, name) : x \in {v}} = {w}
    BY <1>2
  <1>4. Lookup(s, dp, name) = CHOOSE r \in {FirstIn(x, name) : x \in {v}} : TRUE
    BY <1>1 DEF Lookup, Let, FirstIn
  <1> QED BY <1>1, <1>2, <1>3, <1>4

\* What dirlookup finds is an inode number, and its offset is one.
LEMMA LookupOK ==
  ASSUME NEW s, NEW N, Sound(s, N), NEW dp \in Inums, NEW name
  PROVE  /\ Lookup(s, dp, name) \in 0..NINODES
         /\ Lookup(s, dp, name) # 0 => Lookup(s, dp, name) \in Inums /\ Offset(s, dp, name) \in Nat
  <1>1. PICK c : c = Content(s, s.mem[dp].d)
    OBVIOUS
  <1>2. DOMAIN c = 1..Len(c) /\ Len(c) \in Nat /\ \A k \in 1..Len(c) : c[k] \in Units(N)
    BY <1>1, ContentOK
  <1>3. Lookup(s, dp, name) = FirstIn(c, name) /\ Offset(s, dp, name) = Min(EntriesOf(c, name)) - 1
    BY <1>1, LookupIs DEF Offset
  <1>4. CASE EntriesOf(c, name) = {}
    BY <1>3, <1>4, InodeAssumption DEF FirstIn
  <1>5. CASE EntriesOf(c, name) # {}
    <2>1. EntriesOf(c, name) \subseteq 1..Len(c) /\ EntriesOf(c, name) \subseteq Nat
      BY <1>2 DEF EntriesOf
    <2>2. PICK k \in 1..Len(c) : k = Min(EntriesOf(c, name)) /\ k \in EntriesOf(c, name)
      BY <1>5, <2>1, MinIn
    <2>3. c[k].i \in 0..NINODES
      BY <1>2 DEF Units
    <2>4. c[k].i # 0
      BY <2>2 DEF EntriesOf
    <2>5. Lookup(s, dp, name) = c[k].i
      BY <1>3, <1>5, <2>2 DEF FirstIn
    <2>6. Offset(s, dp, name) \in Nat
      BY <1>3, <2>2
    <2> QED BY <2>3, <2>4, <2>5, <2>6, InodeAssumption DEF Inums
  <1> QED BY <1>4, <1>5

\* dirlink's loop ends at an offset.
LEMMA EmptyOffOK ==
  ASSUME NEW c, Len(c) \in Nat, DOMAIN c = 1..Len(c)
  PROVE  EmptyOff(c) \in Nat
  <1>1. PICK e : e = {k \in DOMAIN c : c[k].i = 0}
    OBVIOUS
  <1>2. EmptyOff(c) = IF e = {} THEN Len(c) ELSE Min(e) - 1
    BY <1>1 DEF EmptyOff
  <1>3. e \subseteq 1..Len(c) /\ e \subseteq Nat
    BY <1>1
  <1>4. CASE e = {}
    BY <1>2, <1>4
  <1>5. CASE e # {}
    <2>1. Min(e) \in e
      BY <1>3, <1>5, MinIn
    <2>2. Min(e) \in 1..Len(c)
      BY <1>3, <2>1
    <2> QED BY <1>2, <1>5, <2>2
  <1> QED BY <1>4, <1>5

EnterAt(t, dp, name, inum, off) ==
  IF WriteFits(t, dp, off, 1) THEN Writei(t, dp, off, <<Unit(name, inum)>>) ELSE Panic(t, "dirlink")

\* dirlink is a write at the first free entry.
LEMMA DirlinkIs ==
  ASSUME NEW s, NEW dp, NEW name, NEW inum
  PROVE  Dirlink(s, dp, name, inum) = EnterAt(s, dp, name, inum, EmptyOff(Content(s, s.mem[dp].d)))
  BY DEF Dirlink, Let, EnterAt

\* dirlink changes no reference.
LEMMA DirlinkKeeps ==
  ASSUME NEW s, NEW N, Sound(s, N), Named(N), NEW dp \in Inums, NEW name \in N, NEW inum \in 0..NINODES
  PROVE  Kept(s, Dirlink(s, dp, name, inum), N)
  <1>1. PICK c : c = Content(s, s.mem[dp].d)
    OBVIOUS
  <1>2. DOMAIN c = 1..Len(c) /\ Len(c) \in Nat
    BY <1>1, ContentOK
  <1>3. PICK off \in Nat : off = EmptyOff(c)
    BY <1>2, EmptyOffOK
  <1>4. Dirlink(s, dp, name, inum) = EnterAt(s, dp, name, inum, off)
    BY <1>1, <1>3, DirlinkIs
  <1>5. CASE WriteFits(s, dp, off, 1)
    <2>1. PICK units : units = <<Unit(name, inum)>>
      OBVIOUS
    <2>2. Len(units) = 1 /\ units[1] = Unit(name, inum) /\ Unit(name, inum) \in Units(N)
      BY <2>1 DEF Unit, Units
    <2>3. Len(units) \in Nat /\ \A k \in 1..Len(units) : units[k] \in Units(N)
      BY <2>2
    <2>4. off <= s.mem[dp].d.size
      BY <1>5 DEF WriteFits
    <2>5. Kept(s, Writei(s, dp, off, units), N)
      BY <2>3, <2>4, WriteiKeeps
    <2> QED BY <1>4, <1>5, <2>1, <2>5 DEF EnterAt
  <1>6. CASE ~WriteFits(s, dp, off, 1)
    <2>1. Kept(s, Panic(s, "dirlink"), N)
      BY PanicKeeps DEF Panics
    <2> QED BY <1>4, <1>6, <2>1 DEF EnterAt
  <1> QED BY <1>5, <1>6

\* ialloc gives an inode with one more reference.
LEMMA AllocatedGets ==
  ASSUME NEW s, NEW N, Sound(s, N), Named(N), NEW type \in N, ~NoInodes(s)
  PROVE  Ialloc(s) \in Inums /\ Got(s, Allocated(s, type), Ialloc(s), N)
  <1>1. Ialloc(s) \in Inums
    <2>1. PICK S : S = {i \in Inums : s.disk[i].type = "none"}
      OBVIOUS
    <2>2. S # {} /\ S \subseteq Nat /\ S \subseteq Inums
      BY <2>1 DEF NoInodes, Inums
    <2> QED BY <2>1, <2>2, MinIn DEF Ialloc
  <1>2. PICK i \in Inums : i = Ialloc(s)
    BY <1>1
  <1>3. PICK d : d = [FreeInode EXCEPT !.type = type]
    OBVIOUS
  <1>4. d \in Dinodes(N) /\ d.size = 0
    <2>1. FreeInode \in Dinodes(N) /\ FreeInode.size = 0
      BY FreeInodeOK DEF FreeInode
    <2> QED BY <1>3, <2>1 DEF Dinodes
  <1>5. Whole(d)
    BY <1>4 DEF Whole
  <1>6. PICK t : t = [s EXCEPT !.disk[i] = d]
    OBVIOUS
  <1>7. t \in FsStates(N) /\ t.mem = s.mem /\ t.panic = s.panic /\ t.disk = [s.disk EXCEPT ![i] = d]
    BY <1>4, <1>6 DEF Sound, FsStates
  <1>8. Kept(s, t, N) /\ Sound(t, N)
    BY <1>5, <1>7 DEF Kept, Sound, SameRefs, FsStates
  <1>9. Got(t, Iget(t, i), i, N)
    BY <1>8, IgetGets
  <1>10. Allocated(s, type) = Iget(t, i)
    BY <1>2, <1>3, <1>6 DEF Allocated
  <1> QED BY <1>1, <1>2, <1>8, <1>9, <1>10, KeptGot

\* readi returns a number of units.
LEMMA ReadiOK ==
  ASSUME NEW s, NEW N, Sound(s, N), NEW i \in Inums, NEW off \in Nat, NEW n \in Nat
  PROVE  Len(Readi(s, i, off, n)) \in Nat
  <1>1. PICK c : c = Content(s, s.mem[i].d)
    OBVIOUS
  <1>2. PICK m \in Nat : m = s.mem[i].d.size
    BY <1>1, ContentOK
  <1>3. c \in Seq(Units(N)) /\ Len(c) = m
    BY <1>1, <1>2, ContentOK
  <1>4. PICK e \in Nat : e = IF off + n > m THEN m ELSE off + n
    OBVIOUS
  <1>5. Readi(s, i, off, n) = SubSeq(c, off + 1, e)
    BY <1>1, <1>2, <1>4 DEF Readi
  <1>6. e <= m
    BY <1>4
  <1>7. SubSeq(c, off + 1, e) \in Seq(Units(N))
    BY <1>3, <1>6
  <1> QED BY <1>5, <1>7
-----------------------------------------------------------------------------
Inos == 0..NINODES

(* The stacks of kernel code that a process can have *)

PutLabels == {"iput", "ifree", "ifreed", "idrop"}
Conts ==
  {<<"link1", "ret">>, <<"link2", "ret">>, <<"unlink1", "ret">>, <<"create", "openfd", "ret">>,
   <<"create", "made", "ret">>, <<"openlock", "ret">>, <<"chdir1", "ret">>}
Starts ==
  {<<"namex", "link1", "ret">>, <<"namex", "link2", "ret">>, <<"namex", "unlink1", "ret">>,
   <<"namex", "create", "openfd", "ret">>, <<"namex", "create", "made", "ret">>, <<"namex", "openlock", "ret">>,
   <<"namex", "chdir1", "ret">>}
Walks ==
  {<<"elem", "link1", "ret">>, <<"elem", "link2", "ret">>, <<"elem", "unlink1", "ret">>,
   <<"elem", "create", "openfd", "ret">>, <<"elem", "create", "made", "ret">>, <<"elem", "openlock", "ret">>,
   <<"elem", "chdir1", "ret">>}
Halves ==
  {<<"linkfail", "ret">>, <<"linkbad", "ret">>, <<"link3", "ret">>, <<"unlink2", "ret">>, <<"unlinkbad", "ret">>,
   <<"unlink3", "ret">>, <<"openset", "ret">>, <<"write", "ret">>, <<"chdir2", "ret">>, <<"openfd", "ret">>}
Ends ==
  {<<"made", "ret">>, <<"create2", "openfd", "ret">>, <<"create2", "made", "ret">>, <<"create3", "openfd", "ret">>,
   <<"create3", "made", "ret">>, <<"ret">>, <<"zombie">>, <<>>}
Bodies == Conts \cup Starts \cup Walks \cup Halves \cup Ends
\* What can come after iput.
PutBodies == Bodies \ {<<"openset", "ret">>, <<"write", "ret">>}
Stacks == Bodies \cup {<<"iput">> \o b : b \in PutBodies} \cup {<<"ifree">> \o b : b \in PutBodies}
                 \cup {<<"ifreed">> \o b : b \in PutBodies} \cup {<<"idrop">> \o b : b \in PutBodies}

\* The call that goes on when iput is done, and where it goes on.
InPut(s) == s # <<>> /\ Head(s) \in PutLabels
Body(s)  == IF InPut(s) THEN Tail(s) ELSE s
Lab(b)   == IF b = <<>> THEN "user" ELSE Head(b)

Labels == PutLabels \cup
  {"namex", "elem", "link1", "link2", "linkfail", "linkbad", "link3", "unlink1", "unlink2", "unlinkbad", "unlink3", "create",
   "create2", "create3", "openlock", "openfd", "openset", "made", "chdir1", "chdir2", "write", "zombie", "ret"}

LabelSeq(b) == b \in Seq(Labels)

\* A body is a sequence of labels.
LEMMA BodySeq ==
  ASSUME NEW b \in Bodies
  PROVE  LabelSeq(b)
  <1>1. CASE b \in Conts
    <2>1. /\ LabelSeq(<<"link1", "ret">>)
          /\ LabelSeq(<<"link2", "ret">>)
          /\ LabelSeq(<<"unlink1", "ret">>)
          /\ LabelSeq(<<"create", "openfd", "ret">>)
          /\ LabelSeq(<<"create", "made", "ret">>)
          /\ LabelSeq(<<"openlock", "ret">>)
          /\ LabelSeq(<<"chdir1", "ret">>)
      BY DEF LabelSeq, Labels
    <2> QED BY <1>1, <2>1 DEF Conts
  <1>2. CASE b \in Starts
    <2>1. /\ LabelSeq(<<"namex", "link1", "ret">>)
          /\ LabelSeq(<<"namex", "link2", "ret">>)
          /\ LabelSeq(<<"namex", "unlink1", "ret">>)
          /\ LabelSeq(<<"namex", "create", "openfd", "ret">>)
          /\ LabelSeq(<<"namex", "create", "made", "ret">>)
          /\ LabelSeq(<<"namex", "openlock", "ret">>)
          /\ LabelSeq(<<"namex", "chdir1", "ret">>)
      BY DEF LabelSeq, Labels
    <2> QED BY <1>2, <2>1 DEF Starts
  <1>3. CASE b \in Walks
    <2>1. /\ LabelSeq(<<"elem", "link1", "ret">>)
          /\ LabelSeq(<<"elem", "link2", "ret">>)
          /\ LabelSeq(<<"elem", "unlink1", "ret">>)
          /\ LabelSeq(<<"elem", "create", "openfd", "ret">>)
          /\ LabelSeq(<<"elem", "create", "made", "ret">>)
          /\ LabelSeq(<<"elem", "openlock", "ret">>)
          /\ LabelSeq(<<"elem", "chdir1", "ret">>)
      BY DEF LabelSeq, Labels
    <2> QED BY <1>3, <2>1 DEF Walks
  <1>4. CASE b \in Halves
    <2>1. /\ LabelSeq(<<"linkfail", "ret">>)
          /\ LabelSeq(<<"linkbad", "ret">>)
          /\ LabelSeq(<<"link3", "ret">>)
          /\ LabelSeq(<<"unlink2", "ret">>)
          /\ LabelSeq(<<"unlinkbad", "ret">>)
          /\ LabelSeq(<<"unlink3", "ret">>)
          /\ LabelSeq(<<"openset", "ret">>)
          /\ LabelSeq(<<"write", "ret">>)
          /\ LabelSeq(<<"chdir2", "ret">>)
          /\ LabelSeq(<<"openfd", "ret">>)
      BY DEF LabelSeq, Labels
    <2> QED BY <1>4, <2>1 DEF Halves
  <1>5. CASE b \in Ends
    <2>1. /\ LabelSeq(<<"made", "ret">>)
          /\ LabelSeq(<<"create2", "openfd", "ret">>)
          /\ LabelSeq(<<"create2", "made", "ret">>)
          /\ LabelSeq(<<"create3", "openfd", "ret">>)
          /\ LabelSeq(<<"create3", "made", "ret">>)
          /\ LabelSeq(<<"ret">>)
          /\ LabelSeq(<<"zombie">>)
          /\ LabelSeq(<<>>)
      BY DEF LabelSeq, Labels
    <2> QED BY <1>5, <2>1 DEF Ends
  <1> QED BY <1>1, <1>2, <1>3, <1>4, <1>5 DEF Bodies

\* A body does not begin inside iput.
LEMMA BodyHead ==
  ASSUME NEW b \in Bodies, b # <<>>
  PROVE  Head(b) \notin PutLabels
  BY DEF Bodies, Conts, Starts, Walks, Halves, Ends, PutLabels

\* A body is a stack by itself.
LEMMA BodyStack ==
  ASSUME NEW b \in Bodies
  PROVE  b \in Stacks /\ ~InPut(b) /\ Body(b) = b
  BY BodyHead DEF Stacks, InPut, Body

\* A stack inside iput, taken apart.
LEMMA PutStack ==
  ASSUME NEW b \in PutBodies, NEW w \in PutLabels, NEW s, s = <<w>> \o b
  PROVE  s \in Stacks /\ InPut(s) /\ Body(s) = b /\ s # <<>> /\ Head(s) = w /\ Tail(s) = b
  <1>1. b \in Seq(Labels) /\ w \in Labels
    BY BodySeq DEF Labels, LabelSeq, PutBodies
  <1>2. s # <<>> /\ Head(s) = w /\ Tail(s) = b
    BY ONLY <1>1, s = <<w>> \o b
  <1> QED BY <1>2 DEF Stacks, InPut, Body, PutLabels

\* A stack whose first label is iput's has a body under it.
LEMMA StackPut ==
  ASSUME NEW s \in Stacks, s # <<>>, Head(s) \in PutLabels
  PROVE  \E b \in PutBodies : s = <<Head(s)>> \o b
  <1>1. s \notin Bodies
    BY BodyHead
  <1>2. PICK w \in PutLabels, b \in PutBodies : s = <<w>> \o b
    BY <1>1 DEF Stacks, PutLabels
  <1>3. Head(s) = w
    BY <1>2, PutStack
  <1> QED BY <1>2, <1>3

\* Every other stack is a body.
LEMMA StackBody ==
  ASSUME NEW s \in Stacks, s # <<>>, Head(s) \notin PutLabels
  PROVE  s \in Bodies
  <1>1. SUFFICES ASSUME s \notin Bodies PROVE FALSE
    OBVIOUS
  <1>2. PICK w \in PutLabels, b \in PutBodies : s = <<w>> \o b
    BY <1>1 DEF Stacks, PutLabels
  <1> QED BY <1>2, PutStack

\* The first label of a body tells most of it.
LEMMA BodyAt ==
  ASSUME NEW b \in Bodies, b # <<>>
  PROVE  /\ Head(b) = "link1" => b = <<"link1", "ret">>
         /\ Head(b) = "link2" => b = <<"link2", "ret">>
         /\ Head(b) = "linkfail" => b = <<"linkfail", "ret">>
         /\ Head(b) = "linkbad" => b = <<"linkbad", "ret">>
         /\ Head(b) = "link3" => b = <<"link3", "ret">>
         /\ Head(b) = "unlink1" => b = <<"unlink1", "ret">>
         /\ Head(b) = "unlink2" => b = <<"unlink2", "ret">>
         /\ Head(b) = "unlinkbad" => b = <<"unlinkbad", "ret">>
         /\ Head(b) = "unlink3" => b = <<"unlink3", "ret">>
         /\ Head(b) = "openset" => b = <<"openset", "ret">>
         /\ Head(b) = "openlock" => b = <<"openlock", "ret">>
         /\ Head(b) = "openfd" => b = <<"openfd", "ret">>
         /\ Head(b) = "made" => b = <<"made", "ret">>
         /\ Head(b) = "write" => b = <<"write", "ret">>
         /\ Head(b) = "chdir1" => b = <<"chdir1", "ret">>
         /\ Head(b) = "chdir2" => b = <<"chdir2", "ret">>
         /\ Head(b) = "ret" => b = <<"ret">>
         /\ Head(b) = "zombie" => b = <<"zombie">>
  BY DEF Bodies, Conts, Starts, Walks, Halves, Ends

\* Concatenations of short sequences, which the provers do not compute by themselves.
LEMMA Cat1 ==
  ASSUME NEW a, NEW b
  PROVE  <<a>> \o <<b>> = <<a, b>>
  <1> DEFINE s == <<a>>
             t == <<b>>
             u == <<a, b>>
             S == {a, b}
  <1>1. s \in Seq(S) /\ t \in Seq(S) /\ u \in Seq(S) /\ Len(s) = 1 /\ Len(t) = 1 /\ Len(u) = 2
    OBVIOUS
  <1>2. Len(s \o t) = 2 /\ s \o t \in Seq(S)
    BY <1>1
  <1>3. \A i \in 1..2 : (s \o t)[i] = u[i]
    BY <1>1
  <1> QED BY <1>1, <1>2, <1>3, SeqEqual

\* The same for three labels.
LEMMA Cat2 ==
  ASSUME NEW a, NEW b, NEW c
  PROVE  <<a>> \o <<b, c>> = <<a, b, c>> /\ <<a, b>> \o <<c>> = <<a, b, c>>
  <1> DEFINE s == <<a>>
             t == <<b, c>>
             v == <<a, b>>
             w == <<c>>
             u == <<a, b, c>>
             S == {a, b, c}
  <1>1. s \in Seq(S) /\ t \in Seq(S) /\ u \in Seq(S) /\ Len(s) = 1 /\ Len(t) = 2 /\ Len(u) = 3
    OBVIOUS
  <1>a. v \in Seq(S) /\ w \in Seq(S) /\ Len(v) = 2 /\ Len(w) = 1
    OBVIOUS
  <1>2. Len(s \o t) = 3 /\ s \o t \in Seq(S)
    BY <1>1
  <1>3. \A i \in 1..3 : (s \o t)[i] = u[i]
    BY <1>1
  <1>4. Len(v \o w) = 3 /\ v \o w \in Seq(S)
    BY <1>a
  <1>5. \A i \in 1..3 : (v \o w)[i] = u[i]
    BY <1>a
  <1>6. s \o t = u
    BY <1>1, <1>2, <1>3, SeqEqual
  <1>7. v \o w = u
    BY <1>1, <1>4, <1>5, SeqEqual
  <1> QED BY <1>6, <1>7

\* The same for four labels.
LEMMA Cat3 ==
  ASSUME NEW a, NEW b, NEW c, NEW d
  PROVE  <<a>> \o <<b, c, d>> = <<a, b, c, d>> /\ <<a, b, c>> \o <<d>> = <<a, b, c, d>>
  <1> DEFINE s == <<a>>
             t == <<b, c, d>>
             v == <<a, b, c>>
             w == <<d>>
             u == <<a, b, c, d>>
             S == {a, b, c, d}
  <1>1. s \in Seq(S) /\ t \in Seq(S) /\ u \in Seq(S) /\ Len(s) = 1 /\ Len(t) = 3 /\ Len(u) = 4
    OBVIOUS
  <1>a. v \in Seq(S) /\ w \in Seq(S) /\ Len(v) = 3 /\ Len(w) = 1
    OBVIOUS
  <1>2. Len(s \o t) = 4 /\ s \o t \in Seq(S)
    BY <1>1
  <1>3. \A i \in 1..4 : (s \o t)[i] = u[i]
    BY <1>1
  <1>4. Len(v \o w) = 4 /\ v \o w \in Seq(S)
    BY <1>a
  <1>5. \A i \in 1..4 : (v \o w)[i] = u[i]
    BY <1>a
  <1>6. s \o t = u
    BY <1>1, <1>2, <1>3, SeqEqual
  <1>7. v \o w = u
    BY <1>1, <1>4, <1>5, SeqEqual
  <1> QED BY <1>6, <1>7

-----------------------------------------------------------------------------
(* Who holds which reference *)

\* Where ip, if it is one, and dp and old are references.
IpLabels == {"elem", "link1", "link2", "linkfail", "unlink1", "unlink2", "unlink3", "create", "create2", "create3",
             "openfd", "made", "openlock", "openset", "chdir1", "chdir2"}
IpSure   == {"elem", "linkfail", "unlink2", "unlink3", "create2", "create3", "openset", "chdir2"}
DpLabels == {"unlink2", "unlinkbad", "create3"}
Linking  == {<<"link2", "ret">>, <<"namex", "link2", "ret">>, <<"elem", "link2", "ret">>,
             <<"linkfail", "ret">>, <<"linkbad", "ret">>, <<"link3", "ret">>}
\* Where the current directory has been let go.
LeftLabels == {"chdir2", "zombie"}

\* What a process with stack s, locals l and current directory c holds of inode j.
HoldsX(s, l, j)   == InPut(s) /\ l.x = j
HoldsIp(s, l, j)  == Lab(Body(s)) \in IpLabels /\ l.ip = j
HoldsDp(s, l, j)  == Lab(Body(s)) \in DpLabels /\ l.dp = j
HoldsOld(s, l, j) == Body(s) \in Linking /\ l.old = j
HoldsCwd(s, c, j) == Lab(Body(s)) \notin LeftLabels /\ c = j
Has(s, l, c, j) ==
  One(HoldsX(s, l, j)) + (One(HoldsIp(s, l, j)) + (One(HoldsDp(s, l, j)) + (One(HoldsOld(s, l, j)) + One(HoldsCwd(s, c, j)))))

XHolders(j)   == {q \in Procs : HoldsX(pc[q], loc[q], j)}
IpHolders(j)  == {q \in Procs : HoldsIp(pc[q], loc[q], j)}
DpHolders(j)  == {q \in Procs : HoldsDp(pc[q], loc[q], j)}
OldHolders(j) == {q \in Procs : HoldsOld(pc[q], loc[q], j)}
CwdHolders(j) == {q \in Procs : HoldsCwd(pc[q], proc[q].cwd, j)}
Held(j) ==
  Cardinality(XHolders(j)) + (Cardinality(IpHolders(j)) + (Cardinality(DpHolders(j))
  + (Cardinality(OldHolders(j)) + Cardinality(CwdHolders(j)))))
FilesOf(j)  == {f \in 1..NFILE : ftab[f].ip = j}

\* A reference count is the number of the references that there are.
RefsCounted == \A j \in Inums : fs.mem[j].ref = Held(j) + Cardinality(FilesOf(j))

\* All the descriptors of a file.
Desc(f) == {d \in Procs \X Fds : proc[d[1]].ofile[d[2]] = f}
FileOK(f) ==
  /\ ftab[f].ref = Cardinality(Desc(f))
  /\ (ftab[f].ip = 0) <=> (ftab[f].type = "none")
  /\ (ftab[f].ref = 0) => (ftab[f].ip = 0)
  /\ (ftab[f].ip = 0) => ~ftab[f].wr

Locs  == [ip: Inos, x: Inos, dp: Inos, old: Inos, off: Nat, f: 0..NFILE, done: Nat]
States == {"unused", "run", "zombie"}
ProcRec == [st: States, parent: Procs \cup {0}, cwd: Inos, ofile: [Fds -> 0..NFILE]]
FileRec(A) == [ref: Nat, type: {"none", "inode"}, ip: Inos, off: Nat, rd: A, wr: A]

TypeInv ==
  /\ \E N : Sound(fs, N)
  /\ loc \in [Procs -> Locs]
  /\ proc \in [Procs -> ProcRec]
  /\ \E A : ftab \in [1..NFILE -> FileRec(A)]
  /\ \E T : todo \in [Procs -> T]
  /\ pc \in [Procs -> Stacks]

\* The locals that a stack relies on.
Kernel(s, l) ==
  /\ InPut(s) => l.x # 0
  /\ Lab(Body(s)) \in IpSure => l.ip # 0
  /\ Lab(Body(s)) \in DpLabels => l.dp # 0
  /\ Body(s) \in Linking => l.old # 0
Writing(p) ==
  Lab(Body(pc[p])) = "write" => Op(p).n \in Nat /\ loc[p].done \in 0..Op(p).n /\ Op(p).fd \in Fds /\ File(p) # 0
CallOK(p) ==
  /\ Kernel(pc[p], loc[p])
  /\ pc[p] # <<>> => proc[p].st = "run"
  /\ (proc[p].st = "run") <=> (proc[p].cwd # 0)
Opening(p) ==
  Lab(Body(pc[p])) = "openset" =>
    loc[p].f # 0 /\ ftab[loc[p].f].ip = 0 /\ \E fd \in Fds : Desc(loc[p].f) = {<<p, fd>>}
DescOK(p) ==
  \A fd \in Fds : proc[p].ofile[fd] # 0 =>
    /\ proc[p].st = "run" /\ Lab(Body(pc[p])) # "zombie"
    /\ ftab[proc[p].ofile[fd]].ip # 0 \/ (Lab(Body(pc[p])) = "openset" /\ loc[p].f = proc[p].ofile[fd])

RInv ==
  /\ TypeInv /\ RefsCounted
  /\ \A f \in 1..NFILE : FileOK(f)
  /\ \A p \in Procs : CallOK(p) /\ Writing(p) /\ Opening(p) /\ DescOK(p)
Good  == IF Up(fs) THEN RInv ELSE ~Quiet
-----------------------------------------------------------------------------
(* Counting *)

\* When one element may come or go the cardinality changes by one at most.
LEMMA OneChanges ==
  ASSUME NEW P, IsFiniteSet(P), NEW S \in SUBSET P, NEW T \in SUBSET P, NEW p \in P, \A q \in P \ {p} : q \in S <=> q \in T
  PROVE  /\ Cardinality(S) \in Nat /\ Cardinality(T) \in Nat
         /\ Cardinality(T) + One(p \in S) = Cardinality(S) + One(p \in T)
  <1>1. IsFiniteSet(S) /\ IsFiniteSet(T) /\ Cardinality(S) \in Nat /\ Cardinality(T) \in Nat
    BY FS_Subset, FS_CardinalityType
  <1>2. CASE p \in S /\ p \in T
    BY <1>1, <1>2, S = T DEF One
  <1>3. CASE p \notin S /\ p \notin T
    BY <1>1, <1>3, S = T DEF One
  <1>4. CASE p \in S /\ p \notin T
    <2>1. T = S \ {p}
      BY <1>4
    <2>2. Cardinality(T) = Cardinality(S) - 1
      BY <1>1, <1>4, <2>1, FS_RemoveElement
    <2> QED BY <1>1, <1>4, <2>2 DEF One
  <1>5. CASE p \notin S /\ p \in T
    <2>1. S = T \ {p}
      BY <1>5
    <2>2. Cardinality(S) = Cardinality(T) - 1
      BY <1>1, <1>5, <2>1, FS_RemoveElement
    <2> QED BY <1>1, <1>5, <2>2 DEF One
  <1> QED BY <1>2, <1>3, <1>4, <1>5

\* Process q holds what it held.
SameHolds(q, j) ==
  /\ HoldsX(pc'[q], loc'[q], j) <=> HoldsX(pc[q], loc[q], j)
  /\ HoldsIp(pc'[q], loc'[q], j) <=> HoldsIp(pc[q], loc[q], j)
  /\ HoldsDp(pc'[q], loc'[q], j) <=> HoldsDp(pc[q], loc[q], j)
  /\ HoldsOld(pc'[q], loc'[q], j) <=> HoldsOld(pc[q], loc[q], j)
  /\ HoldsCwd(pc'[q], proc'[q].cwd, j) <=> HoldsCwd(pc[q], proc[q].cwd, j)

\* What is held of an inode changes by what the process that steps holds.
LEMMA HeldStep ==
  ASSUME NEW p \in Procs, NEW j, \A q \in Procs \ {p} : SameHolds(q, j)
  PROVE  /\ Held(j) \in Nat /\ Held(j)' \in Nat
         /\ Held(j)' + Has(pc[p], loc[p], proc[p].cwd, j) = Held(j) + Has(pc'[p], loc'[p], proc'[p].cwd, j)
  <1>0. IsFiniteSet(Procs)
    BY FileSysAssumption
  <1>1. /\ Cardinality(XHolders(j)) \in Nat /\ Cardinality(XHolders(j)') \in Nat
        /\ Cardinality(XHolders(j)') + One(HoldsX(pc[p], loc[p], j)) = Cardinality(XHolders(j)) + One(HoldsX(pc'[p], loc'[p], j))
    <2> DEFINE S == XHolders(j)
               T == XHolders(j)'
    <2>1. S \in SUBSET Procs /\ T \in SUBSET Procs /\ \A q \in Procs \ {p} : q \in S <=> q \in T
      BY DEF XHolders, SameHolds
    <2>2. (p \in S <=> HoldsX(pc[p], loc[p], j)) /\ (p \in T <=> HoldsX(pc'[p], loc'[p], j))
      BY DEF XHolders
    <2> HIDE DEF S, T
    <2>3. Cardinality(S) \in Nat /\ Cardinality(T) \in Nat /\ Cardinality(T) + One(p \in S) = Cardinality(S) + One(p \in T)
      BY <1>0, <2>1, OneChanges
    <2>4. Cardinality(T) + One(HoldsX(pc[p], loc[p], j)) = Cardinality(S) + One(HoldsX(pc'[p], loc'[p], j))
      BY <2>2, <2>3 DEF One
    <2> QED BY <2>3, <2>4 DEF S, T
  <1>2. /\ Cardinality(IpHolders(j)) \in Nat /\ Cardinality(IpHolders(j)') \in Nat
        /\ Cardinality(IpHolders(j)') + One(HoldsIp(pc[p], loc[p], j)) = Cardinality(IpHolders(j)) + One(HoldsIp(pc'[p], loc'[p], j))
    <2> DEFINE S == IpHolders(j)
               T == IpHolders(j)'
    <2>1. S \in SUBSET Procs /\ T \in SUBSET Procs /\ \A q \in Procs \ {p} : q \in S <=> q \in T
      BY DEF IpHolders, SameHolds
    <2>2. (p \in S <=> HoldsIp(pc[p], loc[p], j)) /\ (p \in T <=> HoldsIp(pc'[p], loc'[p], j))
      BY DEF IpHolders
    <2> HIDE DEF S, T
    <2>3. Cardinality(S) \in Nat /\ Cardinality(T) \in Nat /\ Cardinality(T) + One(p \in S) = Cardinality(S) + One(p \in T)
      BY <1>0, <2>1, OneChanges
    <2>4. Cardinality(T) + One(HoldsIp(pc[p], loc[p], j)) = Cardinality(S) + One(HoldsIp(pc'[p], loc'[p], j))
      BY <2>2, <2>3 DEF One
    <2> QED BY <2>3, <2>4 DEF S, T
  <1>3. /\ Cardinality(DpHolders(j)) \in Nat /\ Cardinality(DpHolders(j)') \in Nat
        /\ Cardinality(DpHolders(j)') + One(HoldsDp(pc[p], loc[p], j)) = Cardinality(DpHolders(j)) + One(HoldsDp(pc'[p], loc'[p], j))
    <2> DEFINE S == DpHolders(j)
               T == DpHolders(j)'
    <2>1. S \in SUBSET Procs /\ T \in SUBSET Procs /\ \A q \in Procs \ {p} : q \in S <=> q \in T
      BY DEF DpHolders, SameHolds
    <2>2. (p \in S <=> HoldsDp(pc[p], loc[p], j)) /\ (p \in T <=> HoldsDp(pc'[p], loc'[p], j))
      BY DEF DpHolders
    <2> HIDE DEF S, T
    <2>3. Cardinality(S) \in Nat /\ Cardinality(T) \in Nat /\ Cardinality(T) + One(p \in S) = Cardinality(S) + One(p \in T)
      BY <1>0, <2>1, OneChanges
    <2>4. Cardinality(T) + One(HoldsDp(pc[p], loc[p], j)) = Cardinality(S) + One(HoldsDp(pc'[p], loc'[p], j))
      BY <2>2, <2>3 DEF One
    <2> QED BY <2>3, <2>4 DEF S, T
  <1>4. /\ Cardinality(OldHolders(j)) \in Nat /\ Cardinality(OldHolders(j)') \in Nat
        /\ Cardinality(OldHolders(j)') + One(HoldsOld(pc[p], loc[p], j)) = Cardinality(OldHolders(j)) + One(HoldsOld(pc'[p], loc'[p], j))
    <2> DEFINE S == OldHolders(j)
               T == OldHolders(j)'
    <2>1. S \in SUBSET Procs /\ T \in SUBSET Procs /\ \A q \in Procs \ {p} : q \in S <=> q \in T
      BY DEF OldHolders, SameHolds
    <2>2. (p \in S <=> HoldsOld(pc[p], loc[p], j)) /\ (p \in T <=> HoldsOld(pc'[p], loc'[p], j))
      BY DEF OldHolders
    <2> HIDE DEF S, T
    <2>3. Cardinality(S) \in Nat /\ Cardinality(T) \in Nat /\ Cardinality(T) + One(p \in S) = Cardinality(S) + One(p \in T)
      BY <1>0, <2>1, OneChanges
    <2>4. Cardinality(T) + One(HoldsOld(pc[p], loc[p], j)) = Cardinality(S) + One(HoldsOld(pc'[p], loc'[p], j))
      BY <2>2, <2>3 DEF One
    <2> QED BY <2>3, <2>4 DEF S, T
  <1>5. /\ Cardinality(CwdHolders(j)) \in Nat /\ Cardinality(CwdHolders(j)') \in Nat
        /\ Cardinality(CwdHolders(j)') + One(HoldsCwd(pc[p], proc[p].cwd, j)) = Cardinality(CwdHolders(j)) + One(HoldsCwd(pc'[p], proc'[p].cwd, j))
    <2> DEFINE S == CwdHolders(j)
               T == CwdHolders(j)'
    <2>1. S \in SUBSET Procs /\ T \in SUBSET Procs /\ \A q \in Procs \ {p} : q \in S <=> q \in T
      BY DEF CwdHolders, SameHolds
    <2>2. (p \in S <=> HoldsCwd(pc[p], proc[p].cwd, j)) /\ (p \in T <=> HoldsCwd(pc'[p], proc'[p].cwd, j))
      BY DEF CwdHolders
    <2> HIDE DEF S, T
    <2>3. Cardinality(S) \in Nat /\ Cardinality(T) \in Nat /\ Cardinality(T) + One(p \in S) = Cardinality(S) + One(p \in T)
      BY <1>0, <2>1, OneChanges
    <2>4. Cardinality(T) + One(HoldsCwd(pc[p], proc[p].cwd, j)) = Cardinality(S) + One(HoldsCwd(pc'[p], proc'[p].cwd, j))
      BY <2>2, <2>3 DEF One
    <2> QED BY <2>3, <2>4 DEF S, T
  <1>6. \A b : One(b) \in Nat
    BY DEF One
  <1> QED BY <1>1, <1>2, <1>3, <1>4, <1>5, <1>6 DEF Held, Has

\* What a process holds is a number.
LEMMA HasNat ==
  ASSUME NEW s, NEW l, NEW c, NEW j
  PROVE  Has(s, l, c, j) \in Nat
  BY DEF Has, One

\* The files of an inode are finitely many.
LEMMA FilesNat ==
  ASSUME NEW j
  PROVE  IsFiniteSet(1..NFILE) /\ Cardinality(FilesOf(j)) \in Nat
  <1>1. 1 \in Int /\ NFILE \in Int
    BY FileSysAssumption
  <1>2. IsFiniteSet(1..NFILE)
    BY <1>1, FS_Interval
  <1> QED BY <1>2, FS_Subset, FS_CardinalityType DEF FilesOf
-----------------------------------------------------------------------------
(* Steps of a process that leave its files and its directory alone *)

\* A process whose state does not change holds what it held.
LEMMA SameHeld ==
  ASSUME NEW q, NEW j, pc'[q] = pc[q], loc'[q] = loc[q], proc'[q].cwd = proc[q].cwd
  PROVE  SameHolds(q, j)
  BY DEF SameHolds

\* After a panic the process that caused it is still in its call.
LEMMA PanicStep ==
  ASSUME NEW p \in Procs, ~Up(fs'), pc'[p] # <<>>
  PROVE  Good'
  BY DEF Good, Up, Quiet

Calm(b) == Lab(b) # "openset" /\ Lab(b) # "write"

\* The step of p to the stack s and the locals l.
Goes(p, s, l) ==
  /\ pc' = [pc EXCEPT ![p] = s] /\ loc' = [loc EXCEPT ![p] = l]
  /\ s \in Stacks /\ l \in Locs /\ Kernel(s, l)

\* The references to inodes move with what p holds.
Moves(p, s, l) ==
  \A j \in Inums : fs'.mem[j].ref + Has(pc[p], loc[p], proc[p].cwd, j) = fs.mem[j].ref + Has(s, l, proc[p].cwd, j)

\* A descriptor that is used names a file.
LEMMA FdFile ==
  ASSUME RInv, NEW p \in Procs, NEW fd \in Fds
  PROVE  proc[p].ofile[fd] \in 0..NFILE /\ (proc[p].ofile[fd] # 0 => proc[p].ofile[fd] \in 1..NFILE)
  <1>1. proc[p].ofile[fd] \in 0..NFILE
    BY DEF RInv, TypeInv, ProcRec
  <1> QED BY <1>1, FileSysAssumption

\* Only p goes on in its script, and of the files only offsets change.
TodoStep(p) == (\E T : todo' \in [Procs -> T]) /\ \A q \in Procs \ {p} : todo'[q] = todo[q]
FileSame(f) ==
  ftab'[f].ref = ftab[f].ref /\ ftab'[f].ip = ftab[f].ip /\ ftab'[f].type = ftab[f].type /\ ftab'[f].wr = ftab[f].wr
\* A process that is about to become a zombie has closed its files.
Clears(p, s) == Lab(Body(s)) # "zombie" \/ Lab(Body(pc[p])) = "zombie" \/ Open(p) = {}
FtabSame    == (\E A : ftab' \in [1..NFILE -> FileRec(A)]) /\ \A f \in 1..NFILE : FileSame(f)

\* A step of p that moves references between itself and the counts keeps the invariant.
LEMMA OwnStep ==
  ASSUME RInv, NEW p \in Procs, NEW s, NEW l, Goes(p, s, l), proc[p].st = "run",
         FtabSame, TodoStep(p), UNCHANGED proc, \E N : Sound(fs', N),
         Lab(Body(pc[p])) # "openset", Lab(Body(s)) # "openset", Clears(p, s), Writing(p)',
         Up(fs') => Moves(p, s, l), s # <<>> \/ Up(fs')
  PROVE  Good'
  <1>0. pc \in [Procs -> Stacks] /\ loc \in [Procs -> Locs] /\ s \in Stacks /\ l \in Locs
    BY DEF RInv, TypeInv, Goes
  <1>1. pc'[p] = s /\ loc'[p] = l /\ \A q \in Procs \ {p} : pc'[q] = pc[q] /\ loc'[q] = loc[q]
    BY <1>0 DEF Goes
  <1>2. CASE ~Up(fs')
    BY <1>1, <1>2, PanicStep
  <1>3. CASE Up(fs')
    <2>1. TypeInv'
      BY <1>0 DEF RInv, TypeInv, Goes, FtabSame, TodoStep
    <2>2. RefsCounted'
      <3>1. SUFFICES ASSUME NEW j \in Inums PROVE (fs'.mem[j].ref = Held(j)' + Cardinality(FilesOf(j)'))
        BY DEF RefsCounted
      <3>2. \A q \in Procs \ {p} : SameHolds(q, j)
        BY <1>1, SameHeld
      <3>3. /\ Held(j) \in Nat /\ Held(j)' \in Nat
            /\ Held(j)' + Has(pc[p], loc[p], proc[p].cwd, j) = Held(j) + Has(pc'[p], loc'[p], proc'[p].cwd, j)
        BY <3>2, HeldStep
      <3>4. fs.mem[j].ref = Held(j) + Cardinality(FilesOf(j)) /\ FilesOf(j)' = FilesOf(j)
        BY DEF RInv, RefsCounted, FilesOf, FtabSame, FileSame
      <3>5. fs'.mem[j].ref + Has(pc[p], loc[p], proc[p].cwd, j) = fs.mem[j].ref + Has(s, l, proc[p].cwd, j)
        BY <1>3 DEF Moves
      <3>6. Has(pc[p], loc[p], proc[p].cwd, j) \in Nat /\ Has(s, l, proc[p].cwd, j) \in Nat
        BY HasNat
      <3>7. Cardinality(FilesOf(j)) \in Nat
        BY FilesNat
      <3>8. fs'.mem[j].ref \in Nat
        BY <2>1 DEF TypeInv, Sound, FsStates, Cached
      <3>9. Has(pc'[p], loc'[p], proc'[p].cwd, j) = Has(s, l, proc[p].cwd, j)
        BY <1>1
      <3> QED BY <3>3, <3>4, <3>5, <3>6, <3>7, <3>8, <3>9
    <2>3. ASSUME NEW f \in 1..NFILE PROVE FileOK(f)'
      BY DEF RInv, FileOK, Desc, FtabSame, FileSame
    <2>4. ASSUME NEW q \in Procs PROVE CallOK(q)' /\ Writing(q)' /\ Opening(q)' /\ DescOK(q)'
      <3>1. CallOK(q) /\ Writing(q) /\ Opening(q) /\ DescOK(q)
        BY DEF RInv
      <3>2. CASE q = p
        <4>1. CallOK(p)'
          BY <1>1, <3>1, <3>2 DEF CallOK, Goes
        <4>2. Opening(p)'
          BY <1>1 DEF Opening
        <4>3. DescOK(p)'
          BY <1>1, <3>1, <3>2, FdFile DEF DescOK, FtabSame, FileSame, Clears, Open
        <4> QED BY <3>2, <4>1, <4>2, <4>3
      <3>3. CASE q # p
        <4>1. pc'[q] = pc[q] /\ loc'[q] = loc[q]
          BY <1>1, <3>3
        <4>2. CallOK(q)'
          BY <3>1, <4>1 DEF CallOK
        <4>3. Writing(q)'
          BY <3>1, <3>3, <4>1 DEF Writing, Op, File, TodoStep
        <4>4. Opening(q)'
          <5>1. loc[q].f \in 0..NFILE
            BY DEF RInv, TypeInv, Locs
          <5> QED BY <3>1, <4>1, <5>1, FileSysAssumption DEF Opening, Desc, FtabSame, FileSame
        <4>5. DescOK(q)'
          BY <3>1, <4>1, FdFile DEF DescOK, FtabSame, FileSame
        <4> QED BY <4>2, <4>3, <4>4, <4>5
      <3> QED BY <3>2, <3>3
    <2>5. RInv'
      BY <2>1, <2>2, <2>3, <2>4 DEF RInv
    <2> QED BY <1>3, <2>5 DEF Good, Up
  <1> QED BY <1>2, <1>3

\* Files that do not change.
LEMMA FilesStay ==
  ASSUME RInv, UNCHANGED ftab
  PROVE  FtabSame
  BY DEF RInv, TypeInv, FtabSame, FileSame

\* Scripts that do not change.
LEMMA TodoStays ==
  ASSUME RInv, NEW p, UNCHANGED todo
  PROVE  TodoStep(p)
  BY DEF RInv, TypeInv, TodoStep

\* The same for a step that leaves files and scripts.
LEMMA LocalStep ==
  ASSUME RInv, NEW p \in Procs, NEW s, NEW l, Goes(p, s, l), proc[p].st = "run",
         UNCHANGED <<ftab, proc, todo>>, \E N : Sound(fs', N),
         Calm(Body(pc[p])), Calm(Body(s)), Clears(p, s),
         Up(fs') => Moves(p, s, l), s # <<>> \/ Up(fs')
  PROVE  Good'
  <1>1. pc'[p] = s
    BY DEF RInv, TypeInv, Goes
  <1>2. Writing(p)'
    BY <1>1 DEF Writing, Calm
  <1>3. Lab(Body(pc[p])) # "openset" /\ Lab(Body(s)) # "openset"
    BY DEF Calm
  <1> QED BY <1>2, <1>3, FilesStay, TodoStays, OwnStep
-----------------------------------------------------------------------------
(* What a stack holds *)

\* Whether at body b ip may be a reference, is one, and whether dp, old and the current
\* directory are.
Form(b, ip, sure, dp, old, here) ==
  /\ b \in PutBodies /\ Calm(b) /\ Lab(b) # "zombie"
  /\ (Lab(b) \in IpLabels) <=> ip
  /\ (Lab(b) \in IpSure) <=> sure
  /\ (Lab(b) \in DpLabels) <=> dp
  /\ (b \in Linking) <=> old
  /\ (Lab(b) \notin LeftLabels) <=> here

\* What is held at every body, by inspection.
LEMMA Forms ==
  /\ Form(<<"link1", "ret">>, TRUE, FALSE, FALSE, FALSE, TRUE)
  /\ Form(<<"link2", "ret">>, TRUE, FALSE, FALSE, TRUE, TRUE)
  /\ Form(<<"linkfail", "ret">>, TRUE, TRUE, FALSE, TRUE, TRUE)
  /\ Form(<<"linkbad", "ret">>, FALSE, FALSE, FALSE, TRUE, TRUE)
  /\ Form(<<"link3", "ret">>, FALSE, FALSE, FALSE, TRUE, TRUE)
  /\ Form(<<"unlink1", "ret">>, TRUE, FALSE, FALSE, FALSE, TRUE)
  /\ Form(<<"unlink2", "ret">>, TRUE, TRUE, TRUE, FALSE, TRUE)
  /\ Form(<<"unlinkbad", "ret">>, FALSE, FALSE, TRUE, FALSE, TRUE)
  /\ Form(<<"unlink3", "ret">>, TRUE, TRUE, FALSE, FALSE, TRUE)
  /\ Form(<<"openlock", "ret">>, TRUE, FALSE, FALSE, FALSE, TRUE)
  /\ Form(<<"openfd", "ret">>, TRUE, FALSE, FALSE, FALSE, TRUE)
  /\ Form(<<"made", "ret">>, TRUE, FALSE, FALSE, FALSE, TRUE)
  /\ Form(<<"chdir1", "ret">>, TRUE, FALSE, FALSE, FALSE, TRUE)
  /\ Form(<<"chdir2", "ret">>, TRUE, TRUE, FALSE, FALSE, FALSE)
  /\ Form(<<"create", "openfd", "ret">>, TRUE, FALSE, FALSE, FALSE, TRUE)
  /\ Form(<<"create", "made", "ret">>, TRUE, FALSE, FALSE, FALSE, TRUE)
  /\ Form(<<"create2", "openfd", "ret">>, TRUE, TRUE, FALSE, FALSE, TRUE)
  /\ Form(<<"create2", "made", "ret">>, TRUE, TRUE, FALSE, FALSE, TRUE)
  /\ Form(<<"create3", "openfd", "ret">>, TRUE, TRUE, TRUE, FALSE, TRUE)
  /\ Form(<<"create3", "made", "ret">>, TRUE, TRUE, TRUE, FALSE, TRUE)
  /\ Form(<<"ret">>, FALSE, FALSE, FALSE, FALSE, TRUE)
  /\ Form(<<>>, FALSE, FALSE, FALSE, FALSE, TRUE)
  <1>1. Form(<<"link1", "ret">>, TRUE, FALSE, FALSE, FALSE, TRUE)
    BY DEF Form, Calm, Lab, PutBodies, Bodies, Conts, Starts, Walks, Halves, Ends, IpLabels, IpSure, DpLabels, Linking, LeftLabels
  <1>2. Form(<<"link2", "ret">>, TRUE, FALSE, FALSE, TRUE, TRUE)
    BY DEF Form, Calm, Lab, PutBodies, Bodies, Conts, Starts, Walks, Halves, Ends, IpLabels, IpSure, DpLabels, Linking, LeftLabels
  <1>3. Form(<<"linkfail", "ret">>, TRUE, TRUE, FALSE, TRUE, TRUE)
    BY DEF Form, Calm, Lab, PutBodies, Bodies, Conts, Starts, Walks, Halves, Ends, IpLabels, IpSure, DpLabels, Linking, LeftLabels
  <1>4. Form(<<"linkbad", "ret">>, FALSE, FALSE, FALSE, TRUE, TRUE)
    BY DEF Form, Calm, Lab, PutBodies, Bodies, Conts, Starts, Walks, Halves, Ends, IpLabels, IpSure, DpLabels, Linking, LeftLabels
  <1>5. Form(<<"link3", "ret">>, FALSE, FALSE, FALSE, TRUE, TRUE)
    BY DEF Form, Calm, Lab, PutBodies, Bodies, Conts, Starts, Walks, Halves, Ends, IpLabels, IpSure, DpLabels, Linking, LeftLabels
  <1>6. Form(<<"unlink1", "ret">>, TRUE, FALSE, FALSE, FALSE, TRUE)
    BY DEF Form, Calm, Lab, PutBodies, Bodies, Conts, Starts, Walks, Halves, Ends, IpLabels, IpSure, DpLabels, Linking, LeftLabels
  <1>7. Form(<<"unlink2", "ret">>, TRUE, TRUE, TRUE, FALSE, TRUE)
    BY DEF Form, Calm, Lab, PutBodies, Bodies, Conts, Starts, Walks, Halves, Ends, IpLabels, IpSure, DpLabels, Linking, LeftLabels
  <1>8. Form(<<"unlinkbad", "ret">>, FALSE, FALSE, TRUE, FALSE, TRUE)
    BY DEF Form, Calm, Lab, PutBodies, Bodies, Conts, Starts, Walks, Halves, Ends, IpLabels, IpSure, DpLabels, Linking, LeftLabels
  <1>9. Form(<<"unlink3", "ret">>, TRUE, TRUE, FALSE, FALSE, TRUE)
    BY DEF Form, Calm, Lab, PutBodies, Bodies, Conts, Starts, Walks, Halves, Ends, IpLabels, IpSure, DpLabels, Linking, LeftLabels
  <1>10. Form(<<"openlock", "ret">>, TRUE, FALSE, FALSE, FALSE, TRUE)
    BY DEF Form, Calm, Lab, PutBodies, Bodies, Conts, Starts, Walks, Halves, Ends, IpLabels, IpSure, DpLabels, Linking, LeftLabels
  <1>11. Form(<<"openfd", "ret">>, TRUE, FALSE, FALSE, FALSE, TRUE)
    BY DEF Form, Calm, Lab, PutBodies, Bodies, Conts, Starts, Walks, Halves, Ends, IpLabels, IpSure, DpLabels, Linking, LeftLabels
  <1>12. Form(<<"made", "ret">>, TRUE, FALSE, FALSE, FALSE, TRUE)
    BY DEF Form, Calm, Lab, PutBodies, Bodies, Conts, Starts, Walks, Halves, Ends, IpLabels, IpSure, DpLabels, Linking, LeftLabels
  <1>13. Form(<<"chdir1", "ret">>, TRUE, FALSE, FALSE, FALSE, TRUE)
    BY DEF Form, Calm, Lab, PutBodies, Bodies, Conts, Starts, Walks, Halves, Ends, IpLabels, IpSure, DpLabels, Linking, LeftLabels
  <1>14. Form(<<"chdir2", "ret">>, TRUE, TRUE, FALSE, FALSE, FALSE)
    BY DEF Form, Calm, Lab, PutBodies, Bodies, Conts, Starts, Walks, Halves, Ends, IpLabels, IpSure, DpLabels, Linking, LeftLabels
  <1>15. Form(<<"create", "openfd", "ret">>, TRUE, FALSE, FALSE, FALSE, TRUE)
    BY DEF Form, Calm, Lab, PutBodies, Bodies, Conts, Starts, Walks, Halves, Ends, IpLabels, IpSure, DpLabels, Linking, LeftLabels
  <1>16. Form(<<"create", "made", "ret">>, TRUE, FALSE, FALSE, FALSE, TRUE)
    BY DEF Form, Calm, Lab, PutBodies, Bodies, Conts, Starts, Walks, Halves, Ends, IpLabels, IpSure, DpLabels, Linking, LeftLabels
  <1>17. Form(<<"create2", "openfd", "ret">>, TRUE, TRUE, FALSE, FALSE, TRUE)
    BY DEF Form, Calm, Lab, PutBodies, Bodies, Conts, Starts, Walks, Halves, Ends, IpLabels, IpSure, DpLabels, Linking, LeftLabels
  <1>18. Form(<<"create2", "made", "ret">>, TRUE, TRUE, FALSE, FALSE, TRUE)
    BY DEF Form, Calm, Lab, PutBodies, Bodies, Conts, Starts, Walks, Halves, Ends, IpLabels, IpSure, DpLabels, Linking, LeftLabels
  <1>19. Form(<<"create3", "openfd", "ret">>, TRUE, TRUE, TRUE, FALSE, TRUE)
    BY DEF Form, Calm, Lab, PutBodies, Bodies, Conts, Starts, Walks, Halves, Ends, IpLabels, IpSure, DpLabels, Linking, LeftLabels
  <1>20. Form(<<"create3", "made", "ret">>, TRUE, TRUE, TRUE, FALSE, TRUE)
    BY DEF Form, Calm, Lab, PutBodies, Bodies, Conts, Starts, Walks, Halves, Ends, IpLabels, IpSure, DpLabels, Linking, LeftLabels
  <1>21. Form(<<"ret">>, FALSE, FALSE, FALSE, FALSE, TRUE)
    BY DEF Form, Calm, Lab, PutBodies, Bodies, Conts, Starts, Walks, Halves, Ends, IpLabels, IpSure, DpLabels, Linking, LeftLabels
  <1>23. Form(<<>>, FALSE, FALSE, FALSE, FALSE, TRUE)
    BY DEF Form, Calm, Lab, PutBodies, Bodies, Conts, Starts, Walks, Halves, Ends, IpLabels, IpSure, DpLabels, Linking, LeftLabels
  <1> QED BY <1>1, <1>2, <1>3, <1>4, <1>5, <1>6, <1>7, <1>8, <1>9, <1>10, <1>11, <1>12, <1>13, <1>14, <1>15, <1>16, <1>17, <1>18, <1>19, <1>20, <1>21, <1>23

\* A path is looked up for the call c.
LEMMA Looking ==
  ASSUME NEW c \in Conts, NEW old \in BOOLEAN, old <=> (c \in Linking)
  PROVE  /\ <<"namex">> \o c \in Starts /\ <<"elem">> \o c \in Walks
         /\ Form(<<"namex">> \o c, FALSE, FALSE, FALSE, old, TRUE)
         /\ Form(<<"elem">> \o c, TRUE, TRUE, FALSE, old, TRUE)
         /\ Form(c, TRUE, FALSE, FALSE, old, TRUE)
  <1>1. CASE c = <<"link1", "ret">>
    <2>1. <<"namex">> \o c = <<"namex", "link1", "ret">> /\ <<"elem">> \o c = <<"elem", "link1", "ret">>
      BY <1>1, Cat2
    <2>2. old <=> FALSE
      BY <1>1 DEF Linking
    <2>3. Form(<<"namex", "link1", "ret">>, FALSE, FALSE, FALSE, old, TRUE) /\ <<"namex", "link1", "ret">> \in Starts
      BY <2>2 DEF Form, Calm, Lab, PutBodies, Bodies, Conts, Starts, Walks, Halves, Ends, IpLabels, IpSure, DpLabels, Linking, LeftLabels
    <2>4. Form(<<"elem", "link1", "ret">>, TRUE, TRUE, FALSE, old, TRUE) /\ <<"elem", "link1", "ret">> \in Walks
      BY <2>2 DEF Form, Calm, Lab, PutBodies, Bodies, Conts, Starts, Walks, Halves, Ends, IpLabels, IpSure, DpLabels, Linking, LeftLabels
    <2>5. Form(<<"link1", "ret">>, TRUE, FALSE, FALSE, old, TRUE)
      BY <2>2 DEF Form, Calm, Lab, PutBodies, Bodies, Conts, Starts, Walks, Halves, Ends, IpLabels, IpSure, DpLabels, Linking, LeftLabels
    <2> QED BY <1>1, <2>1, <2>3, <2>4, <2>5
  <1>2. CASE c = <<"link2", "ret">>
    <2>1. <<"namex">> \o c = <<"namex", "link2", "ret">> /\ <<"elem">> \o c = <<"elem", "link2", "ret">>
      BY <1>2, Cat2
    <2>2. old <=> TRUE
      BY <1>2 DEF Linking
    <2>3. Form(<<"namex", "link2", "ret">>, FALSE, FALSE, FALSE, old, TRUE) /\ <<"namex", "link2", "ret">> \in Starts
      BY <2>2 DEF Form, Calm, Lab, PutBodies, Bodies, Conts, Starts, Walks, Halves, Ends, IpLabels, IpSure, DpLabels, Linking, LeftLabels
    <2>4. Form(<<"elem", "link2", "ret">>, TRUE, TRUE, FALSE, old, TRUE) /\ <<"elem", "link2", "ret">> \in Walks
      BY <2>2 DEF Form, Calm, Lab, PutBodies, Bodies, Conts, Starts, Walks, Halves, Ends, IpLabels, IpSure, DpLabels, Linking, LeftLabels
    <2>5. Form(<<"link2", "ret">>, TRUE, FALSE, FALSE, old, TRUE)
      BY <2>2 DEF Form, Calm, Lab, PutBodies, Bodies, Conts, Starts, Walks, Halves, Ends, IpLabels, IpSure, DpLabels, Linking, LeftLabels
    <2> QED BY <1>2, <2>1, <2>3, <2>4, <2>5
  <1>3. CASE c = <<"unlink1", "ret">>
    <2>1. <<"namex">> \o c = <<"namex", "unlink1", "ret">> /\ <<"elem">> \o c = <<"elem", "unlink1", "ret">>
      BY <1>3, Cat2
    <2>2. old <=> FALSE
      BY <1>3 DEF Linking
    <2>3. Form(<<"namex", "unlink1", "ret">>, FALSE, FALSE, FALSE, old, TRUE) /\ <<"namex", "unlink1", "ret">> \in Starts
      BY <2>2 DEF Form, Calm, Lab, PutBodies, Bodies, Conts, Starts, Walks, Halves, Ends, IpLabels, IpSure, DpLabels, Linking, LeftLabels
    <2>4. Form(<<"elem", "unlink1", "ret">>, TRUE, TRUE, FALSE, old, TRUE) /\ <<"elem", "unlink1", "ret">> \in Walks
      BY <2>2 DEF Form, Calm, Lab, PutBodies, Bodies, Conts, Starts, Walks, Halves, Ends, IpLabels, IpSure, DpLabels, Linking, LeftLabels
    <2>5. Form(<<"unlink1", "ret">>, TRUE, FALSE, FALSE, old, TRUE)
      BY <2>2 DEF Form, Calm, Lab, PutBodies, Bodies, Conts, Starts, Walks, Halves, Ends, IpLabels, IpSure, DpLabels, Linking, LeftLabels
    <2> QED BY <1>3, <2>1, <2>3, <2>4, <2>5
  <1>4. CASE c = <<"create", "openfd", "ret">>
    <2>1. <<"namex">> \o c = <<"namex", "create", "openfd", "ret">> /\ <<"elem">> \o c = <<"elem", "create", "openfd", "ret">>
      BY <1>4, Cat3
    <2>2. old <=> FALSE
      BY <1>4 DEF Linking
    <2>3. Form(<<"namex", "create", "openfd", "ret">>, FALSE, FALSE, FALSE, old, TRUE) /\ <<"namex", "create", "openfd", "ret">> \in Starts
      BY <2>2 DEF Form, Calm, Lab, PutBodies, Bodies, Conts, Starts, Walks, Halves, Ends, IpLabels, IpSure, DpLabels, Linking, LeftLabels
    <2>4. Form(<<"elem", "create", "openfd", "ret">>, TRUE, TRUE, FALSE, old, TRUE) /\ <<"elem", "create", "openfd", "ret">> \in Walks
      BY <2>2 DEF Form, Calm, Lab, PutBodies, Bodies, Conts, Starts, Walks, Halves, Ends, IpLabels, IpSure, DpLabels, Linking, LeftLabels
    <2>5. Form(<<"create", "openfd", "ret">>, TRUE, FALSE, FALSE, old, TRUE)
      BY <2>2 DEF Form, Calm, Lab, PutBodies, Bodies, Conts, Starts, Walks, Halves, Ends, IpLabels, IpSure, DpLabels, Linking, LeftLabels
    <2> QED BY <1>4, <2>1, <2>3, <2>4, <2>5
  <1>5. CASE c = <<"create", "made", "ret">>
    <2>1. <<"namex">> \o c = <<"namex", "create", "made", "ret">> /\ <<"elem">> \o c = <<"elem", "create", "made", "ret">>
      BY <1>5, Cat3
    <2>2. old <=> FALSE
      BY <1>5 DEF Linking
    <2>3. Form(<<"namex", "create", "made", "ret">>, FALSE, FALSE, FALSE, old, TRUE) /\ <<"namex", "create", "made", "ret">> \in Starts
      BY <2>2 DEF Form, Calm, Lab, PutBodies, Bodies, Conts, Starts, Walks, Halves, Ends, IpLabels, IpSure, DpLabels, Linking, LeftLabels
    <2>4. Form(<<"elem", "create", "made", "ret">>, TRUE, TRUE, FALSE, old, TRUE) /\ <<"elem", "create", "made", "ret">> \in Walks
      BY <2>2 DEF Form, Calm, Lab, PutBodies, Bodies, Conts, Starts, Walks, Halves, Ends, IpLabels, IpSure, DpLabels, Linking, LeftLabels
    <2>5. Form(<<"create", "made", "ret">>, TRUE, FALSE, FALSE, old, TRUE)
      BY <2>2 DEF Form, Calm, Lab, PutBodies, Bodies, Conts, Starts, Walks, Halves, Ends, IpLabels, IpSure, DpLabels, Linking, LeftLabels
    <2> QED BY <1>5, <2>1, <2>3, <2>4, <2>5
  <1>6. CASE c = <<"openlock", "ret">>
    <2>1. <<"namex">> \o c = <<"namex", "openlock", "ret">> /\ <<"elem">> \o c = <<"elem", "openlock", "ret">>
      BY <1>6, Cat2
    <2>2. old <=> FALSE
      BY <1>6 DEF Linking
    <2>3. Form(<<"namex", "openlock", "ret">>, FALSE, FALSE, FALSE, old, TRUE) /\ <<"namex", "openlock", "ret">> \in Starts
      BY <2>2 DEF Form, Calm, Lab, PutBodies, Bodies, Conts, Starts, Walks, Halves, Ends, IpLabels, IpSure, DpLabels, Linking, LeftLabels
    <2>4. Form(<<"elem", "openlock", "ret">>, TRUE, TRUE, FALSE, old, TRUE) /\ <<"elem", "openlock", "ret">> \in Walks
      BY <2>2 DEF Form, Calm, Lab, PutBodies, Bodies, Conts, Starts, Walks, Halves, Ends, IpLabels, IpSure, DpLabels, Linking, LeftLabels
    <2>5. Form(<<"openlock", "ret">>, TRUE, FALSE, FALSE, old, TRUE)
      BY <2>2 DEF Form, Calm, Lab, PutBodies, Bodies, Conts, Starts, Walks, Halves, Ends, IpLabels, IpSure, DpLabels, Linking, LeftLabels
    <2> QED BY <1>6, <2>1, <2>3, <2>4, <2>5
  <1>7. CASE c = <<"chdir1", "ret">>
    <2>1. <<"namex">> \o c = <<"namex", "chdir1", "ret">> /\ <<"elem">> \o c = <<"elem", "chdir1", "ret">>
      BY <1>7, Cat2
    <2>2. old <=> FALSE
      BY <1>7 DEF Linking
    <2>3. Form(<<"namex", "chdir1", "ret">>, FALSE, FALSE, FALSE, old, TRUE) /\ <<"namex", "chdir1", "ret">> \in Starts
      BY <2>2 DEF Form, Calm, Lab, PutBodies, Bodies, Conts, Starts, Walks, Halves, Ends, IpLabels, IpSure, DpLabels, Linking, LeftLabels
    <2>4. Form(<<"elem", "chdir1", "ret">>, TRUE, TRUE, FALSE, old, TRUE) /\ <<"elem", "chdir1", "ret">> \in Walks
      BY <2>2 DEF Form, Calm, Lab, PutBodies, Bodies, Conts, Starts, Walks, Halves, Ends, IpLabels, IpSure, DpLabels, Linking, LeftLabels
    <2>5. Form(<<"chdir1", "ret">>, TRUE, FALSE, FALSE, old, TRUE)
      BY <2>2 DEF Form, Calm, Lab, PutBodies, Bodies, Conts, Starts, Walks, Halves, Ends, IpLabels, IpSure, DpLabels, Linking, LeftLabels
    <2> QED BY <1>7, <2>1, <2>3, <2>4, <2>5
  <1> QED BY <1>1, <1>2, <1>3, <1>4, <1>5, <1>6, <1>7 DEF Conts

ContAfter(b) == Tail(b) \in Conts

\* What comes after the look-up of a path.
LEMMA LookingAt ==
  ASSUME NEW b \in Bodies, b # <<>>
  PROVE  /\ Head(b) = "namex" => Tail(b) \in Conts /\ b = <<"namex">> \o Tail(b)
         /\ Head(b) = "elem" => Tail(b) \in Conts /\ b = <<"elem">> \o Tail(b)
  <1>1. ASSUME Head(b) = "namex" PROVE ContAfter(b)
    <2>1. b \in Starts
      BY <1>1 DEF Bodies, Conts, Starts, Walks, Halves, Ends
    <2>2. /\ ContAfter(<<"namex", "link1", "ret">>)
          /\ ContAfter(<<"namex", "link2", "ret">>)
          /\ ContAfter(<<"namex", "unlink1", "ret">>)
          /\ ContAfter(<<"namex", "create", "openfd", "ret">>)
          /\ ContAfter(<<"namex", "create", "made", "ret">>)
          /\ ContAfter(<<"namex", "openlock", "ret">>)
          /\ ContAfter(<<"namex", "chdir1", "ret">>)
      BY DEF ContAfter, Conts
    <2> QED BY <2>1, <2>2 DEF Starts
  <1>2. ASSUME Head(b) = "elem" PROVE ContAfter(b)
    <2>1. b \in Walks
      BY <1>2 DEF Bodies, Conts, Starts, Walks, Halves, Ends
    <2>2. /\ ContAfter(<<"elem", "link1", "ret">>)
          /\ ContAfter(<<"elem", "link2", "ret">>)
          /\ ContAfter(<<"elem", "unlink1", "ret">>)
          /\ ContAfter(<<"elem", "create", "openfd", "ret">>)
          /\ ContAfter(<<"elem", "create", "made", "ret">>)
          /\ ContAfter(<<"elem", "openlock", "ret">>)
          /\ ContAfter(<<"elem", "chdir1", "ret">>)
      BY DEF ContAfter, Conts
    <2> QED BY <2>1, <2>2 DEF Walks
  <1>3. b = <<Head(b)>> \o Tail(b)
    <2>1. b \in Seq(Labels)
      BY BodySeq DEF LabelSeq
    <2> QED BY ONLY <2>1, b # <<>>
  <1> QED BY <1>1, <1>2, <1>3 DEF ContAfter

\* iput is never called between the allocation of a file and its filling.
LEMMA PutCalm ==
  ASSUME NEW b \in PutBodies
  PROVE  Calm(b)
  <1>1. b \in Bodies /\ b # <<"openset", "ret">> /\ b # <<"write", "ret">>
    BY DEF PutBodies
  <1>2. CASE b = <<>>
    BY <1>2 DEF Calm, Lab
  <1>3. CASE b # <<>>
    BY <1>1, <1>3, BodyAt DEF Calm, Lab
  <1> QED BY <1>2, <1>3

\* Sound states of a larger set of names.
LEMMA SoundMore ==
  ASSUME NEW s, NEW N, Sound(s, N), NEW M, N \subseteq M
  PROVE  Sound(s, M)
  <1>1. \A d \in Dinodes(N) : d \in Dinodes(M)
    BY DEF Dinodes
  <1>2. \A c \in Cached(N) : c \in Cached(M)
    BY <1>1 DEF Cached
  <1>3. \A u \in Units(N) : u \in Units(M)
    BY DEF Units
  <1> QED BY <1>1, <1>2, <1>3 DEF Sound, FsStates

\* The state is sound for a set of names as large as is needed.
LEMMA FsNames ==
  ASSUME RInv, NEW E
  PROVE  \E N : Sound(fs, N) /\ Named(N) /\ E \subseteq N
  <1>1. PICK N : Sound(fs, N)
    BY DEF RInv, TypeInv
  <1>2. PICK M : M = N \cup E \cup {"", "none", "file", "dir", "dev", ".", ".."}
    OBVIOUS
  <1>3. Named(M) /\ N \subseteq M /\ E \subseteq M
    BY <1>2 DEF Named
  <1> QED BY <1>1, <1>3, SoundMore

\* What is known of a process at a label.
LEMMA Here ==
  ASSUME RInv, NEW p \in Procs, NEW label, At(p, label)
  PROVE  /\ Up(fs) /\ pc \in [Procs -> Stacks] /\ loc \in [Procs -> Locs] /\ pc[p] \in Stacks /\ loc[p] \in Locs
         /\ pc[p] # <<>> /\ Head(pc[p]) = label /\ proc[p].st = "run" /\ Kernel(pc[p], loc[p])
         /\ proc[p].cwd \in Inums
  <1>1. Up(fs) /\ pc[p] # <<>> /\ Head(pc[p]) = label
    BY DEF At, Up
  <1>2. pc \in [Procs -> Stacks] /\ loc \in [Procs -> Locs] /\ pc[p] \in Stacks /\ loc[p] \in Locs
    BY DEF RInv, TypeInv
  <1>3. proc[p].st = "run" /\ Kernel(pc[p], loc[p]) /\ proc[p].cwd # 0
    BY <1>1 DEF RInv, CallOK
  <1>4. proc[p].cwd \in Inos
    BY DEF RInv, TypeInv, ProcRec
  <1> QED BY <1>1, <1>2, <1>3, <1>4, InodeAssumption DEF Inos, Inums

\* What is known of a process outside iput.
LEMMA HereBody ==
  ASSUME RInv, NEW p \in Procs, NEW label, At(p, label), label \notin PutLabels
  PROVE  pc[p] \in Bodies /\ ~InPut(pc[p]) /\ Body(pc[p]) = pc[p]
  BY Here, StackBody, BodyStack

\* What is known of a process inside iput.
LEMMA HerePut ==
  ASSUME RInv, NEW p \in Procs, NEW label \in PutLabels, At(p, label)
  PROVE  /\ \E b \in PutBodies : pc[p] = <<label>> \o b
         /\ InPut(pc[p]) /\ Body(pc[p]) = Tail(pc[p]) /\ Tail(pc[p]) \in PutBodies
         /\ loc[p].x \in Inums
  <1>1. PICK b \in PutBodies : pc[p] = <<label>> \o b
    BY Here, StackPut
  <1>2. InPut(pc[p]) /\ Body(pc[p]) = b /\ Tail(pc[p]) = b
    BY <1>1, PutStack
  <1>3. loc[p].x \in Inos /\ loc[p].x # 0
    BY <1>2, Here DEF Kernel, Locs
  <1>4. loc[p].x \in Inums
    BY <1>3, InodeAssumption DEF Inos, Inums
  <1> QED BY <1>1, <1>2, <1>4

-----------------------------------------------------------------------------
(* iput *)

\* The steps of iput before the last keep the count and the reference.
LEMMA PutInside ==
  ASSUME RInv, NEW p \in Procs, NEW v \in PutLabels, NEW w \in PutLabels, At(p, v), Goto(p, <<w>>),
         UNCHANGED <<loc, ftab, proc, todo>>, \E N : Kept(fs, fs', N)
  PROVE  Good'
  <1>1. /\ Up(fs) /\ pc \in [Procs -> Stacks] /\ loc \in [Procs -> Locs] /\ loc[p] \in Locs
        /\ proc[p].st = "run" /\ Kernel(pc[p], loc[p])
    BY Here
  <1>2. InPut(pc[p]) /\ Body(pc[p]) = Tail(pc[p]) /\ Tail(pc[p]) \in PutBodies
    BY HerePut
  <1>3. PICK s : s = <<w>> \o Tail(pc[p])
    OBVIOUS
  <1>4. s \in Stacks /\ InPut(s) /\ Body(s) = Body(pc[p]) /\ s # <<>>
    BY <1>2, <1>3, PutStack
  <1>5. Kernel(s, loc[p])
    BY <1>1, <1>2, <1>4 DEF Kernel
  <1>6. Goes(p, s, loc[p])
    BY <1>1, <1>3, <1>4, <1>5 DEF Goes, Goto
  <1>7. \A j : Has(s, loc[p], proc[p].cwd, j) = Has(pc[p], loc[p], proc[p].cwd, j)
    BY <1>2, <1>4 DEF Has, HoldsX, HoldsIp, HoldsDp, HoldsOld, HoldsCwd
  <1>8. Up(fs') => Moves(p, s, loc[p])
    BY <1>7 DEF Moves, Kept, SameRefs, Up
  <1>9. Calm(Body(pc[p])) /\ Calm(Body(s))
    BY <1>2, <1>4, PutCalm
  <1>10. \E N : Sound(fs', N)
    BY DEF Kept
  <1>11. Clears(p, s)
    BY <1>4 DEF Clears
  <1> QED BY <1>1, <1>4, <1>6, <1>8, <1>9, <1>10, <1>11, LocalStep

\* A step that leaves the file system keeps the references.
LEMMA FsKept ==
  ASSUME RInv, fs' = fs
  PROVE  \E N : Kept(fs, fs', N)
  BY KeptSelf DEF RInv, TypeInv

\* iput's first test keeps the invariant: the reference stays with the process.
LEMMA IputStep ==
  ASSUME RInv, NEW p \in Procs, Iput(p)
  PROVE  Good'
  <1>1. At(p, "iput") /\ UNCHANGED <<loc, ftab, proc, todo>> /\ fs' = fs
    BY DEF Iput, world
  <1>2. Goto(p, <<"ifree">>) \/ Goto(p, <<"idrop">>)
    BY DEF Iput
  <1>3. \E N : Kept(fs, fs', N)
    BY <1>1, FsKept
  <1> QED BY <1>1, <1>2, <1>3, PutInside DEF PutLabels

\* iput's truncating and freeing of an inode without links keeps the invariant.
LEMMA IputFreeStep ==
  ASSUME RInv, NEW p \in Procs, IputFree(p)
  PROVE  Good'
  <1>1. At(p, "ifree") /\ UNCHANGED <<loc, ftab, proc, todo>> /\ fs' = Freed(fs, loc[p].x) /\ Goto(p, <<"ifreed">>)
    BY DEF IputFree, world
  <1>2. PICK N : Sound(fs, N) /\ Named(N)
    BY FsNames
  <1>3. loc[p].x \in Inums
    BY <1>1, HerePut DEF PutLabels
  <1>4. Kept(fs, fs', N)
    BY <1>1, <1>2, <1>3, FreedKeeps
  <1> QED BY <1>1, <1>4, PutInside DEF PutLabels

\* iput's marking of the freed inode as not valid keeps the invariant.
LEMMA IputFreedStep ==
  ASSUME RInv, NEW p \in Procs, IputFreed(p)
  PROVE  Good'
  <1>1. /\ At(p, "ifreed") /\ UNCHANGED <<loc, ftab, proc, todo>> /\ Goto(p, <<"idrop">>)
        /\ fs' = [fs EXCEPT !.mem[loc[p].x].valid = FALSE]
    BY DEF IputFreed, world
  <1>2. PICK N : Sound(fs, N) /\ Named(N)
    BY FsNames
  <1>3. loc[p].x \in Inums
    BY <1>1, HerePut DEF PutLabels
  <1>4. Kept(fs, fs', N)
    BY <1>1, <1>2, <1>3, InvalidKeeps
  <1> QED BY <1>1, <1>4, PutInside DEF PutLabels

\* The reference that is given up is one of those counted.
LEMMA HeldHas ==
  ASSUME RInv, NEW p \in Procs, HoldsX(pc[p], loc[p], loc[p].x), loc[p].x \in Inums
  PROVE  fs.mem[loc[p].x].ref \in Nat \ {0}
  <1>1. PICK j \in Inums : j = loc[p].x
    OBVIOUS
  <1>2. p \in XHolders(j) /\ IsFiniteSet(XHolders(j))
    BY <1>1, FileSysAssumption, FS_Subset DEF XHolders
  <1>3. Cardinality(XHolders(j)) \in Nat \ {0}
    BY <1>2, FS_CardinalityType, FS_EmptySet
  <1>4. fs.mem[j].ref = Held(j) + Cardinality(FilesOf(j)) /\ fs.mem[j].ref \in Nat
    BY DEF RInv, RefsCounted, TypeInv, Sound, FsStates, Cached
  <1>5. /\ Cardinality(IpHolders(j)) \in Nat /\ Cardinality(DpHolders(j)) \in Nat
        /\ Cardinality(OldHolders(j)) \in Nat /\ Cardinality(CwdHolders(j)) \in Nat
    BY FileSysAssumption, FS_Subset, FS_CardinalityType DEF IpHolders, DpHolders, OldHolders, CwdHolders
  <1>6. Cardinality(FilesOf(j)) \in Nat
    BY FilesNat
  <1> QED BY <1>1, <1>3, <1>4, <1>5, <1>6 DEF Held

\* iput's last step takes one from the count, and the process holds one less.
LEMMA IputDropStep ==
  ASSUME RInv, NEW p \in Procs, IputDrop(p)
  PROVE  Good'
  <1>1. /\ At(p, "idrop") /\ UNCHANGED <<loc, ftab, proc, todo>> /\ Goto(p, <<>>)
        /\ fs' = [fs EXCEPT !.mem[loc[p].x].ref = @ - 1]
    BY DEF IputDrop, world
  <1>2. PICK N : Sound(fs, N) /\ Named(N)
    BY FsNames
  <1>3. InPut(pc[p]) /\ Body(pc[p]) = Tail(pc[p]) /\ Tail(pc[p]) \in PutBodies /\ loc[p].x \in Inums
    BY <1>1, HerePut DEF PutLabels
  <1>4. /\ Up(fs) /\ pc \in [Procs -> Stacks] /\ loc \in [Procs -> Locs] /\ loc[p] \in Locs
        /\ proc[p].st = "run" /\ Kernel(pc[p], loc[p])
    BY <1>1, Here
  <1>5. PICK s : s = Tail(pc[p])
    OBVIOUS
  <1>6. s \in Bodies /\ <<>> \o s = s /\ s \in Stacks /\ ~InPut(s) /\ Body(s) = s
    <2>1. s \in Bodies
      BY <1>3, <1>5 DEF PutBodies
    <2>2. s \in Seq(Labels)
      BY <2>1, BodySeq DEF LabelSeq
    <2> QED BY <2>1, <2>2, BodyStack
  <1>7. PICK i \in Inums : i = loc[p].x
    BY <1>3
  <1>8. fs.mem[i].ref \in Nat \ {0}
    BY <1>3, <1>7, HeldHas DEF HoldsX
  <1>9. PICK m : m = [fs.mem EXCEPT ![i].ref = @ - 1]
    OBVIOUS
  <1>10. m \in [Inums -> Cached(N)] /\ \A j \in Inums : m[j].d = fs.mem[j].d /\ m[j].ref + One(j = i) = fs.mem[j].ref
    BY <1>2, <1>8, <1>9 DEF Sound, FsStates, Cached, One
  <1>11. fs' = [fs EXCEPT !.mem = m]
    BY <1>1, <1>2, <1>7, <1>9 DEF Sound, FsStates
  <1>12. fs'.mem = m /\ fs'.disk = fs.disk /\ fs'.panic = fs.panic /\ fs' \in FsStates(N)
    BY <1>2, <1>10, <1>11 DEF Sound, FsStates
  <1>13. Sound(fs', N)
    BY <1>2, <1>10, <1>12 DEF Sound
  <1>14. Kernel(s, loc[p])
    BY <1>3, <1>4, <1>5, <1>6 DEF Kernel
  <1>15. Goes(p, s, loc[p])
    BY <1>1, <1>4, <1>5, <1>6, <1>14 DEF Goes, Goto
  <1>16. Moves(p, s, loc[p])
    <2>1. SUFFICES ASSUME NEW j \in Inums
                   PROVE  fs'.mem[j].ref + Has(pc[p], loc[p], proc[p].cwd, j) = fs.mem[j].ref + Has(s, loc[p], proc[p].cwd, j)
      BY DEF Moves
    <2>2. Has(pc[p], loc[p], proc[p].cwd, j) = One(j = i) + Has(s, loc[p], proc[p].cwd, j)
      BY <1>3, <1>5, <1>6, <1>7 DEF Has, HoldsX, HoldsIp, HoldsDp, HoldsOld, HoldsCwd, One
    <2>3. fs'.mem[j].ref + One(j = i) = fs.mem[j].ref
      BY <1>10, <1>12
    <2>4. fs'.mem[j].ref \in Nat /\ Has(s, loc[p], proc[p].cwd, j) \in Nat /\ One(j = i) \in Nat
      BY <1>13, HasNat DEF Sound, FsStates, Cached, One
    <2> QED BY <2>2, <2>3, <2>4
  <1>17. Calm(Body(pc[p])) /\ Calm(Body(s))
    BY <1>3, <1>5, <1>6, PutCalm
  <1>18. Up(fs')
    BY <1>4, <1>12 DEF Up
  <1>19. Clears(p, s)
    BY <1>3, <1>5, <1>6 DEF Clears
  <1> QED BY <1>1, <1>4, <1>13, <1>15, <1>16, <1>17, <1>18, <1>19, LocalStep

-----------------------------------------------------------------------------
(* Where a step leads *)

To(p, s, l) == pc' = [pc EXCEPT ![p] = s] /\ loc' = [loc EXCEPT ![p] = l] /\ s \in Stacks /\ l \in Locs

\* Concatenation of stacks is associative.
LEMMA LabelAssoc ==
  ASSUME NEW a, NEW b, NEW c, LabelSeq(a), LabelSeq(b), LabelSeq(c)
  PROVE  (a \o b) \o c = a \o (b \o c)
  BY DEF LabelSeq

\* Two of the locals change.
XIp(p, x, ip) == loc' = [loc EXCEPT ![p].x = x, ![p].ip = ip]

\* The locals after x and ip have changed.
LEMMA TwoLocs ==
  ASSUME RInv, NEW p \in Procs, NEW x \in Inos, NEW ip \in Inos, XIp(p, x, ip)
  PROVE  \E l : /\ l \in Locs /\ l.x = x /\ l.ip = ip /\ l.dp = loc[p].dp /\ l.old = loc[p].old
                /\ loc' = [loc EXCEPT ![p] = l]
  <1>1. loc \in [Procs -> Locs]
    BY DEF RInv, TypeInv
  <1>a. PICK r : r = [loc[p] EXCEPT !.x = x]
    OBVIOUS
  <1>b. PICK l : l = [r EXCEPT !.ip = ip]
    OBVIOUS
  <1>2. r \in Locs /\ r.x = x /\ r.dp = loc[p].dp /\ r.old = loc[p].old
    BY <1>1, <1>a DEF Locs
  <1>3. l \in Locs /\ l.x = x /\ l.ip = ip /\ l.dp = loc[p].dp /\ l.old = loc[p].old
    BY <1>2, <1>b DEF Locs
  <1>4. PICK m : m = [loc EXCEPT ![p] = r]
    OBVIOUS
  <1>5. m = [loc EXCEPT ![p].x = x] /\ m[p] = r
    BY <1>1, <1>4, <1>a
  <1>6. loc' = [m EXCEPT ![p].ip = ip]
    BY <1>5 DEF XIp
  <1>7. loc' = [m EXCEPT ![p] = l]
    BY <1>5, <1>6, <1>b
  <1>8. loc' = [loc EXCEPT ![p] = l]
    BY <1>1, <1>4, <1>7
  <1> QED BY <1>3, <1>8

\* The code more, and after it what comes next, is the body b.
Leads(p, more, b) == LabelSeq(more) /\ LabelSeq(Tail(pc[p])) /\ more \o Tail(pc[p]) = b

\* The step of p to iput(x) and then b, with ip as the inode of the call.
ToPut(p, b, x, ip) ==
  \E s, l : /\ To(p, s, l) /\ InPut(s) /\ Body(s) = b /\ s # <<>> /\ Head(s) = "iput"
            /\ l.x = x /\ l.ip = ip /\ l.dp = loc[p].dp /\ l.old = loc[p].old

\* The stack of a call that goes to iput.
LEMMA PutGoto ==
  ASSUME NEW p, NEW more, NEW b \in PutBodies, Leads(p, more, b), NEW s, s = <<"iput">> \o b
  PROVE  (<<"iput">> \o more) \o Tail(pc[p]) = s /\ s \in Stacks /\ InPut(s) /\ Body(s) = b /\ s # <<>> /\ Head(s) = "iput"
  <1>1. LabelSeq(<<"iput">>)
    BY DEF Labels, PutLabels, LabelSeq
  <1>2. PICK w, t : w = <<"iput">> /\ t = Tail(pc[p])
    OBVIOUS
  <1>3. LabelSeq(w) /\ LabelSeq(more) /\ LabelSeq(t)
    BY <1>1, <1>2 DEF Leads
  <1>4. (w \o more) \o t = w \o (more \o t)
    BY <1>3, LabelAssoc
  <1>5. (<<"iput">> \o more) \o Tail(pc[p]) = s
    BY <1>2, <1>4 DEF Leads
  <1>6. s \in Stacks /\ InPut(s) /\ Body(s) = b /\ s # <<>> /\ Head(s) = "iput"
    BY PutStack DEF PutLabels
  <1> QED BY <1>5, <1>6

\* Put leads to iput with the call's inode as it was.
LEMMA PutGoes ==
  ASSUME RInv, NEW p \in Procs, NEW i \in Inums, NEW more, NEW b \in PutBodies, Leads(p, more, b), Put(p, i, more)
  PROVE  ToPut(p, b, i, loc[p].ip)
  <1>1. PICK l : l = [loc[p] EXCEPT !.x = i]
    OBVIOUS
  <1>2. loc \in [Procs -> Locs] /\ i \in Inos
    BY InodeAssumption DEF RInv, TypeInv, Inos, Inums
  <1>3. l \in Locs /\ l.x = i /\ l.ip = loc[p].ip /\ l.dp = loc[p].dp /\ l.old = loc[p].old
    BY <1>1, <1>2 DEF Locs
  <1>4. loc' = [loc EXCEPT ![p] = l]
    BY <1>1, <1>2 DEF Put
  <1>5. PICK s : s = <<"iput">> \o b
    OBVIOUS
  <1>6. (<<"iput">> \o more) \o Tail(pc[p]) = s /\ s \in Stacks /\ InPut(s) /\ Body(s) = b /\ s # <<>> /\ Head(s) = "iput"
    BY <1>5, PutGoto
  <1>7. pc' = [pc EXCEPT ![p] = s]
    BY <1>6 DEF Put, Goto
  <1> QED BY <1>3, <1>4, <1>6, <1>7 DEF To, ToPut

\* PutIp leads to iput of the call's inode, which becomes another.
LEMMA PutIpGoes ==
  ASSUME RInv, NEW p \in Procs, NEW next \in Inos, NEW more, NEW b \in PutBodies, Leads(p, more, b), PutIp(p, next, more)
  PROVE  ToPut(p, b, loc[p].ip, next)
  <1>3. PICK x \in Inos : x = loc[p].ip
    BY DEF RInv, TypeInv, Locs
  <1>4. PICK l : /\ l \in Locs /\ l.x = x /\ l.ip = next /\ l.dp = loc[p].dp /\ l.old = loc[p].old
                 /\ loc' = [loc EXCEPT ![p] = l]
    <2>1. XIp(p, x, next)
      BY <1>3 DEF PutIp, XIp
    <2> QED BY <2>1, TwoLocs
  <1>5. PICK s : s = <<"iput">> \o b
    OBVIOUS
  <1>6. (<<"iput">> \o more) \o Tail(pc[p]) = s /\ s \in Stacks /\ InPut(s) /\ Body(s) = b /\ s # <<>> /\ Head(s) = "iput"
    BY <1>5, PutGoto
  <1>7. pc' = [pc EXCEPT ![p] = s]
    BY <1>6 DEF PutIp, Goto
  <1> QED BY <1>3, <1>4, <1>6, <1>7 DEF To, ToPut

\* Goto leads to a body.
LEMMA BodyGoes ==
  ASSUME RInv, NEW p \in Procs, NEW more, NEW b \in Bodies, NEW l \in Locs, Leads(p, more, b), Goto(p, more),
         loc' = [loc EXCEPT ![p] = l]
  PROVE  To(p, b, l)
  BY BodyStack DEF To, Goto, Leads

\* Locals that do not change.
LEMMA LocStays ==
  ASSUME RInv, NEW p \in Procs, UNCHANGED loc
  PROVE  loc' = [loc EXCEPT ![p] = loc[p]] /\ loc[p] \in Locs
  BY DEF RInv, TypeInv

\* An inode number that is not 0 names an inode.
LEMMA InosNot0 ==
  ASSUME NEW i \in Inos, i # 0
  PROVE  i \in Inums
  BY InodeAssumption DEF Inos, Inums

\* The name of an inode is not 0.
LEMMA InumsInos ==
  ASSUME NEW i \in Inums
  PROVE  i \in Inos /\ i # 0
  BY InodeAssumption DEF Inos, Inums

\* A reference count is a natural number.
LEMMA RefNat ==
  ASSUME NEW s, NEW N, Sound(s, N), NEW j \in Inums
  PROVE  s.mem[j].ref \in Nat
  BY DEF Sound, FsStates, Cached

\* Process p is inside a call, at body b.
From(p, b, ip, sure, dp, old, here) ==
  /\ pc[p] = b /\ b # <<>> /\ Form(b, ip, sure, dp, old, here) /\ Body(pc[p]) = pc[p] /\ ~InPut(pc[p])
  /\ proc[p].st = "run" /\ Kernel(pc[p], loc[p])

\* What a process at b with ip = i and the locals l relies on and holds, without x.
Relies(b, i, l) ==
  /\ Lab(b) # "zombie"
  /\ Lab(b) \in IpSure => i # 0
  /\ Lab(b) \in DpLabels => l.dp # 0
  /\ b \in Linking => l.old # 0
Holds(b, i, l, c, j) ==
  One(Lab(b) \in IpLabels /\ i = j) + (One(Lab(b) \in DpLabels /\ l.dp = j)
  + (One(b \in Linking /\ l.old = j) + One(Lab(b) \notin LeftLabels /\ c = j)))

\* The references of p move, and those of the inodes with them.
PutMoves(p, b, x, i) ==
  \A j \in Inums : fs'.mem[j].ref + Holds(pc[p], loc[p].ip, loc[p], proc[p].cwd, j)
                   = fs.mem[j].ref + (One(x = j) + Holds(b, i, loc[p], proc[p].cwd, j))
BodyMoves(p, b, l) ==
  \A j \in Inums : fs'.mem[j].ref + Holds(pc[p], loc[p].ip, loc[p], proc[p].cwd, j)
                   = fs.mem[j].ref + Holds(b, l.ip, l, proc[p].cwd, j)
InCall(p) ==
  /\ Body(pc[p]) = pc[p] /\ ~InPut(pc[p]) /\ pc[p] \in PutBodies
  /\ proc[p].st = "run" /\ Kernel(pc[p], loc[p])

\* What a process holds is x, when it is in iput, and what its body holds.
LEMMA HasHolds ==
  ASSUME NEW s, NEW b, Body(s) = b, NEW l, NEW c, NEW j
  PROVE  /\ InPut(s) => Has(s, l, c, j) = One(l.x = j) + Holds(b, l.ip, l, c, j)
         /\ ~InPut(s) => Has(s, l, c, j) = Holds(b, l.ip, l, c, j)
         /\ Holds(b, l.ip, l, c, j) \in Nat
  BY DEF Has, Holds, HoldsX, HoldsIp, HoldsDp, HoldsOld, HoldsCwd, One

\* A step to iput keeps the invariant when the references move along.
LEMMA PutCase ==
  ASSUME RInv, NEW p \in Procs, InCall(p), NEW b \in PutBodies, NEW x, NEW i, ToPut(p, b, x, i), x # 0,
         Relies(b, i, loc[p]), UNCHANGED <<ftab, proc, todo>>, \E N : Sound(fs', N), Up(fs') => PutMoves(p, b, x, i)
  PROVE  Good'
  <1>1. PICK s, l : /\ To(p, s, l) /\ InPut(s) /\ Body(s) = b /\ s # <<>>
                    /\ l.x = x /\ l.ip = i /\ l.dp = loc[p].dp /\ l.old = loc[p].old
    BY DEF ToPut
  <1>2. /\ Body(pc[p]) = pc[p] /\ ~InPut(pc[p]) /\ pc[p] \in PutBodies /\ proc[p].st = "run"
    BY DEF InCall
  <1>3. Kernel(s, l)
    BY <1>1 DEF Kernel, Relies
  <1>4. Goes(p, s, l)
    BY <1>1, <1>3 DEF Goes, To
  <1>5. Calm(Body(pc[p])) /\ Calm(Body(s))
    BY <1>1, <1>2, PutCalm
  <1>6. ASSUME Up(fs') PROVE Moves(p, s, l)
    <2>1. SUFFICES ASSUME NEW j \in Inums
                   PROVE  fs'.mem[j].ref + Has(pc[p], loc[p], proc[p].cwd, j) = fs.mem[j].ref + Has(s, l, proc[p].cwd, j)
      BY DEF Moves
    <2>2. Has(pc[p], loc[p], proc[p].cwd, j) = Holds(pc[p], loc[p].ip, loc[p], proc[p].cwd, j)
      BY <1>2, HasHolds
    <2>3. Has(s, l, proc[p].cwd, j) = One(x = j) + Holds(b, i, l, proc[p].cwd, j)
      BY <1>1, HasHolds
    <2>4. Holds(b, i, l, proc[p].cwd, j) = Holds(b, i, loc[p], proc[p].cwd, j)
      BY <1>1 DEF Holds
    <2> QED BY <1>6, <2>2, <2>3, <2>4 DEF PutMoves
  <1>7. Clears(p, s)
    BY <1>1 DEF Clears, Relies
  <1> QED BY <1>1, <1>2, <1>4, <1>5, <1>6, <1>7, LocalStep

\* So does a step to another place of the call.
LEMMA BodyCase ==
  ASSUME RInv, NEW p \in Procs, InCall(p), NEW b \in PutBodies, b # <<>>, NEW l, To(p, b, l),
         Relies(b, l.ip, l), UNCHANGED <<ftab, proc, todo>>, \E N : Sound(fs', N), Up(fs') => BodyMoves(p, b, l)
  PROVE  Good'
  <1>1. ~InPut(b) /\ Body(b) = b
    BY BodyStack DEF PutBodies
  <1>2. /\ Body(pc[p]) = pc[p] /\ ~InPut(pc[p]) /\ pc[p] \in PutBodies /\ proc[p].st = "run"
    BY DEF InCall
  <1>3. Kernel(b, l)
    BY <1>1 DEF Kernel, Relies
  <1>4. Goes(p, b, l)
    BY <1>3 DEF Goes, To
  <1>5. Calm(Body(pc[p])) /\ Calm(Body(b))
    BY <1>1, <1>2, PutCalm
  <1>6. ASSUME Up(fs') PROVE Moves(p, b, l)
    <2>1. SUFFICES ASSUME NEW j \in Inums
                   PROVE  fs'.mem[j].ref + Has(pc[p], loc[p], proc[p].cwd, j) = fs.mem[j].ref + Has(b, l, proc[p].cwd, j)
      BY DEF Moves
    <2>2. Has(pc[p], loc[p], proc[p].cwd, j) = Holds(pc[p], loc[p].ip, loc[p], proc[p].cwd, j)
      BY <1>2, HasHolds
    <2>3. Has(b, l, proc[p].cwd, j) = Holds(b, l.ip, l, proc[p].cwd, j)
      BY <1>1, HasHolds
    <2> QED BY <1>6, <2>2, <2>3 DEF BodyMoves
  <1>7. Clears(p, b)
    BY <1>1 DEF Clears, Relies
  <1> QED BY <1>2, <1>4, <1>5, <1>6, <1>7, LocalStep

\* What From says, in the terms of the two cases.
LEMMA FromIn ==
  ASSUME NEW p, NEW b, NEW ip, NEW sure, NEW dp, NEW old, NEW here, From(p, b, ip, sure, dp, old, here)
  PROVE  InCall(p) /\ pc[p] = b /\ Form(b, ip, sure, dp, old, here) /\ b \in PutBodies
         /\ (sure => loc[p].ip # 0) /\ (dp => loc[p].dp # 0) /\ (old => loc[p].old # 0)
  BY DEF From, Form, InCall, Kernel

\* A process at a label with this form is there.
LEMMA FromForm ==
  ASSUME RInv, NEW p \in Procs, NEW label, At(p, label), label \notin PutLabels, NEW b, pc[p] = b, NEW ip, NEW sure, NEW dp,
         NEW old, NEW here, Form(b, ip, sure, dp, old, here)
  PROVE  From(p, b, ip, sure, dp, old, here)
  BY Here, HereBody DEF From

\* Where a process is when it runs the code with a label.
LEMMA Froms ==
  ASSUME RInv, NEW p \in Procs
  PROVE  /\ At(p, "link1") => From(p, <<"link1", "ret">>, TRUE, FALSE, FALSE, FALSE, TRUE)
         /\ At(p, "link2") => From(p, <<"link2", "ret">>, TRUE, FALSE, FALSE, TRUE, TRUE)
         /\ At(p, "linkfail") => From(p, <<"linkfail", "ret">>, TRUE, TRUE, FALSE, TRUE, TRUE)
         /\ At(p, "linkbad") => From(p, <<"linkbad", "ret">>, FALSE, FALSE, FALSE, TRUE, TRUE)
         /\ At(p, "link3") => From(p, <<"link3", "ret">>, FALSE, FALSE, FALSE, TRUE, TRUE)
         /\ At(p, "unlink1") => From(p, <<"unlink1", "ret">>, TRUE, FALSE, FALSE, FALSE, TRUE)
         /\ At(p, "unlink2") => From(p, <<"unlink2", "ret">>, TRUE, TRUE, TRUE, FALSE, TRUE)
         /\ At(p, "unlinkbad") => From(p, <<"unlinkbad", "ret">>, FALSE, FALSE, TRUE, FALSE, TRUE)
         /\ At(p, "unlink3") => From(p, <<"unlink3", "ret">>, TRUE, TRUE, FALSE, FALSE, TRUE)
         /\ At(p, "openlock") => From(p, <<"openlock", "ret">>, TRUE, FALSE, FALSE, FALSE, TRUE)
         /\ At(p, "openfd") => From(p, <<"openfd", "ret">>, TRUE, FALSE, FALSE, FALSE, TRUE)
         /\ At(p, "made") => From(p, <<"made", "ret">>, TRUE, FALSE, FALSE, FALSE, TRUE)
         /\ At(p, "chdir1") => From(p, <<"chdir1", "ret">>, TRUE, FALSE, FALSE, FALSE, TRUE)
         /\ At(p, "chdir2") => From(p, <<"chdir2", "ret">>, TRUE, TRUE, FALSE, FALSE, FALSE)
  <1>1. ASSUME At(p, "link1") PROVE From(p, <<"link1", "ret">>, TRUE, FALSE, FALSE, FALSE, TRUE)
    <2>1. pc[p] = <<"link1", "ret">>
      BY <1>1, Here, HereBody, BodyAt DEF PutLabels
    <2> QED BY <1>1, <2>1, Forms, FromForm DEF PutLabels
  <1>2. ASSUME At(p, "link2") PROVE From(p, <<"link2", "ret">>, TRUE, FALSE, FALSE, TRUE, TRUE)
    <2>1. pc[p] = <<"link2", "ret">>
      BY <1>2, Here, HereBody, BodyAt DEF PutLabels
    <2> QED BY <1>2, <2>1, Forms, FromForm DEF PutLabels
  <1>3. ASSUME At(p, "linkfail") PROVE From(p, <<"linkfail", "ret">>, TRUE, TRUE, FALSE, TRUE, TRUE)
    <2>1. pc[p] = <<"linkfail", "ret">>
      BY <1>3, Here, HereBody, BodyAt DEF PutLabels
    <2> QED BY <1>3, <2>1, Forms, FromForm DEF PutLabels
  <1>4. ASSUME At(p, "linkbad") PROVE From(p, <<"linkbad", "ret">>, FALSE, FALSE, FALSE, TRUE, TRUE)
    <2>1. pc[p] = <<"linkbad", "ret">>
      BY <1>4, Here, HereBody, BodyAt DEF PutLabels
    <2> QED BY <1>4, <2>1, Forms, FromForm DEF PutLabels
  <1>5. ASSUME At(p, "link3") PROVE From(p, <<"link3", "ret">>, FALSE, FALSE, FALSE, TRUE, TRUE)
    <2>1. pc[p] = <<"link3", "ret">>
      BY <1>5, Here, HereBody, BodyAt DEF PutLabels
    <2> QED BY <1>5, <2>1, Forms, FromForm DEF PutLabels
  <1>6. ASSUME At(p, "unlink1") PROVE From(p, <<"unlink1", "ret">>, TRUE, FALSE, FALSE, FALSE, TRUE)
    <2>1. pc[p] = <<"unlink1", "ret">>
      BY <1>6, Here, HereBody, BodyAt DEF PutLabels
    <2> QED BY <1>6, <2>1, Forms, FromForm DEF PutLabels
  <1>7. ASSUME At(p, "unlink2") PROVE From(p, <<"unlink2", "ret">>, TRUE, TRUE, TRUE, FALSE, TRUE)
    <2>1. pc[p] = <<"unlink2", "ret">>
      BY <1>7, Here, HereBody, BodyAt DEF PutLabels
    <2> QED BY <1>7, <2>1, Forms, FromForm DEF PutLabels
  <1>8. ASSUME At(p, "unlinkbad") PROVE From(p, <<"unlinkbad", "ret">>, FALSE, FALSE, TRUE, FALSE, TRUE)
    <2>1. pc[p] = <<"unlinkbad", "ret">>
      BY <1>8, Here, HereBody, BodyAt DEF PutLabels
    <2> QED BY <1>8, <2>1, Forms, FromForm DEF PutLabels
  <1>9. ASSUME At(p, "unlink3") PROVE From(p, <<"unlink3", "ret">>, TRUE, TRUE, FALSE, FALSE, TRUE)
    <2>1. pc[p] = <<"unlink3", "ret">>
      BY <1>9, Here, HereBody, BodyAt DEF PutLabels
    <2> QED BY <1>9, <2>1, Forms, FromForm DEF PutLabels
  <1>10. ASSUME At(p, "openlock") PROVE From(p, <<"openlock", "ret">>, TRUE, FALSE, FALSE, FALSE, TRUE)
    <2>1. pc[p] = <<"openlock", "ret">>
      BY <1>10, Here, HereBody, BodyAt DEF PutLabels
    <2> QED BY <1>10, <2>1, Forms, FromForm DEF PutLabels
  <1>11. ASSUME At(p, "openfd") PROVE From(p, <<"openfd", "ret">>, TRUE, FALSE, FALSE, FALSE, TRUE)
    <2>1. pc[p] = <<"openfd", "ret">>
      BY <1>11, Here, HereBody, BodyAt DEF PutLabels
    <2> QED BY <1>11, <2>1, Forms, FromForm DEF PutLabels
  <1>12. ASSUME At(p, "made") PROVE From(p, <<"made", "ret">>, TRUE, FALSE, FALSE, FALSE, TRUE)
    <2>1. pc[p] = <<"made", "ret">>
      BY <1>12, Here, HereBody, BodyAt DEF PutLabels
    <2> QED BY <1>12, <2>1, Forms, FromForm DEF PutLabels
  <1>13. ASSUME At(p, "chdir1") PROVE From(p, <<"chdir1", "ret">>, TRUE, FALSE, FALSE, FALSE, TRUE)
    <2>1. pc[p] = <<"chdir1", "ret">>
      BY <1>13, Here, HereBody, BodyAt DEF PutLabels
    <2> QED BY <1>13, <2>1, Forms, FromForm DEF PutLabels
  <1>14. ASSUME At(p, "chdir2") PROVE From(p, <<"chdir2", "ret">>, TRUE, TRUE, FALSE, FALSE, FALSE)
    <2>1. pc[p] = <<"chdir2", "ret">>
      BY <1>14, Here, HereBody, BodyAt DEF PutLabels
    <2> QED BY <1>14, <2>1, Forms, FromForm DEF PutLabels
  <1> QED BY <1>1, <1>2, <1>3, <1>4, <1>5, <1>6, <1>7, <1>8, <1>9, <1>10, <1>11, <1>12, <1>13, <1>14

\* Where a call with one label before its end can go.
LEMMA LeadsRet ==
  ASSUME NEW p, NEW a \in Labels, pc[p] = <<a, "ret">>
  PROVE  /\ Leads(p, <<>>, <<"ret">>)
         /\ \A w \in Labels : Leads(p, <<w>>, <<w, "ret">>)
         /\ Leads(p, <<"namex", "link2">>, <<"namex", "link2", "ret">>)
  <1>1. Tail(pc[p]) = <<"ret">>
    OBVIOUS
  <1>2. LabelSeq(<<"ret">>) /\ LabelSeq(<<>>) /\ LabelSeq(<<"namex", "link2">>)
    BY DEF LabelSeq, Labels
  <1>3. <<>> \o <<"ret">> = <<"ret">>
    OBVIOUS
  <1>4. ASSUME NEW w \in Labels PROVE LabelSeq(<<w>>) /\ <<w>> \o <<"ret">> = <<w, "ret">>
    BY Cat1 DEF LabelSeq
  <1>5. <<"namex", "link2">> \o <<"ret">> = <<"namex", "link2", "ret">>
    BY Cat2
  <1> QED BY <1>1, <1>2, <1>3, <1>4, <1>5 DEF Leads

\* Where a call with two labels before its end can go.
LEMMA LeadsTwo ==
  ASSUME NEW p, NEW a \in Labels, NEW b \in Labels, pc[p] = <<a, b, "ret">>
  PROVE  /\ Leads(p, <<>>, <<b, "ret">>)
         /\ \A w \in Labels : Leads(p, <<w>>, <<w, b, "ret">>)
  <1>1. Tail(pc[p]) = <<b, "ret">>
    OBVIOUS
  <1>2. LabelSeq(<<b, "ret">>) /\ LabelSeq(<<>>)
    BY DEF LabelSeq, Labels
  <1>3. <<>> \o <<b, "ret">> = <<b, "ret">>
    OBVIOUS
  <1>4. ASSUME NEW w \in Labels PROVE LabelSeq(<<w>>) /\ <<w>> \o <<b, "ret">> = <<w, b, "ret">>
    <2>1. <<w>> \o <<b, "ret">> = <<w, b, "ret">>
      BY Cat2
    <2>2. LabelSeq(<<w>>)
      BY DEF LabelSeq
    <2> QED BY <2>1, <2>2
  <1> QED BY <1>1, <1>2, <1>3, <1>4 DEF Leads

\* create is called by open, and by mkdir and mknod.
Callers == {"openfd", "made"}

\* The forms of create and of those who call it.
LEMMA CallerForms ==
  ASSUME NEW w \in Callers
  PROVE  /\ Form(<<w, "ret">>, TRUE, FALSE, FALSE, FALSE, TRUE)
         /\ Form(<<"create", w, "ret">>, TRUE, FALSE, FALSE, FALSE, TRUE)
         /\ Form(<<"create2", w, "ret">>, TRUE, TRUE, FALSE, FALSE, TRUE)
         /\ Form(<<"create3", w, "ret">>, TRUE, TRUE, TRUE, FALSE, TRUE)
  <1>1. CASE w = "openfd"
    BY <1>1, Forms
  <1>2. CASE w = "made"
    BY <1>2, Forms
  <1> QED BY <1>1, <1>2 DEF Callers

\* Where a process is that runs create.
LEMMA Creating ==
  ASSUME RInv, NEW p \in Procs
  PROVE  /\ At(p, "create") => \E w \in Callers : From(p, <<"create", w, "ret">>, TRUE, FALSE, FALSE, FALSE, TRUE)
         /\ At(p, "create2") => \E w \in Callers : From(p, <<"create2", w, "ret">>, TRUE, TRUE, FALSE, FALSE, TRUE)
         /\ At(p, "create3") => \E w \in Callers : From(p, <<"create3", w, "ret">>, TRUE, TRUE, TRUE, FALSE, TRUE)
  <1>1. ASSUME At(p, "create") PROVE \E w \in Callers : From(p, <<"create", w, "ret">>, TRUE, FALSE, FALSE, FALSE, TRUE)
    <2>1. pc[p] \in Bodies /\ pc[p] # <<>> /\ Head(pc[p]) = "create"
      BY <1>1, Here, HereBody DEF PutLabels
    <2>2. pc[p] = <<"create", "openfd", "ret">> \/ pc[p] = <<"create", "made", "ret">>
      BY <2>1 DEF Bodies, Conts, Starts, Walks, Halves, Ends
    <2>3. PICK w \in Callers : pc[p] = <<"create", w, "ret">>
      BY <2>2 DEF Callers
    <2>4. From(p, <<"create", w, "ret">>, TRUE, FALSE, FALSE, FALSE, TRUE)
      BY <1>1, <2>3, CallerForms, FromForm DEF PutLabels
    <2> QED BY <2>4
  <1>2. ASSUME At(p, "create2") PROVE \E w \in Callers : From(p, <<"create2", w, "ret">>, TRUE, TRUE, FALSE, FALSE, TRUE)
    <2>1. pc[p] \in Bodies /\ pc[p] # <<>> /\ Head(pc[p]) = "create2"
      BY <1>2, Here, HereBody DEF PutLabels
    <2>2. pc[p] = <<"create2", "openfd", "ret">> \/ pc[p] = <<"create2", "made", "ret">>
      BY <2>1 DEF Bodies, Conts, Starts, Walks, Halves, Ends
    <2>3. PICK w \in Callers : pc[p] = <<"create2", w, "ret">>
      BY <2>2 DEF Callers
    <2>4. From(p, <<"create2", w, "ret">>, TRUE, TRUE, FALSE, FALSE, TRUE)
      BY <1>2, <2>3, CallerForms, FromForm DEF PutLabels
    <2> QED BY <2>4
  <1>3. ASSUME At(p, "create3") PROVE \E w \in Callers : From(p, <<"create3", w, "ret">>, TRUE, TRUE, TRUE, FALSE, TRUE)
    <2>1. pc[p] \in Bodies /\ pc[p] # <<>> /\ Head(pc[p]) = "create3"
      BY <1>3, Here, HereBody DEF PutLabels
    <2>2. pc[p] = <<"create3", "openfd", "ret">> \/ pc[p] = <<"create3", "made", "ret">>
      BY <2>1 DEF Bodies, Conts, Starts, Walks, Halves, Ends
    <2>3. PICK w \in Callers : pc[p] = <<"create3", w, "ret">>
      BY <2>2 DEF Callers
    <2>4. From(p, <<"create3", w, "ret">>, TRUE, TRUE, TRUE, FALSE, TRUE)
      BY <1>3, <2>3, CallerForms, FromForm DEF PutLabels
    <2> QED BY <2>4
  <1> QED BY <1>1, <1>2, <1>3

\* A path is looked up, and then the call goes on with c.
Path(p, first, c, old) ==
  /\ c \in Conts /\ old \in BOOLEAN /\ c # <<>>
  /\ From(p, <<first>> \o c, first = "elem", first = "elem", FALSE, old, TRUE)
  /\ Form(<<"elem">> \o c, TRUE, TRUE, FALSE, old, TRUE) /\ Form(c, TRUE, FALSE, FALSE, old, TRUE)
  /\ Leads(p, <<>>, c) /\ Leads(p, <<"elem">>, <<"elem">> \o c)

\* Where a process is that looks up a path.
LEMMA Paths1 ==
  ASSUME RInv, NEW p \in Procs, NEW first \in {"namex", "elem"}, At(p, first)
  PROVE  \E c, old : Path(p, first, c, old)
  <1>1. pc[p] \in Bodies /\ pc[p] # <<>> /\ Head(pc[p]) = first
    BY Here, HereBody DEF PutLabels
  <1>2. PICK c \in Conts : c = Tail(pc[p]) /\ pc[p] = <<first>> \o c
    BY <1>1, LookingAt
  <1>3. PICK old \in BOOLEAN : old <=> (c \in Linking)
    OBVIOUS
  <1>4. /\ Form(<<"namex">> \o c, FALSE, FALSE, FALSE, old, TRUE)
        /\ Form(<<"elem">> \o c, TRUE, TRUE, FALSE, old, TRUE)
        /\ Form(c, TRUE, FALSE, FALSE, old, TRUE)
    BY <1>3, Looking
  <1>5. From(p, <<first>> \o c, first = "elem", first = "elem", FALSE, old, TRUE)
    <2>1. CASE first = "namex"
      <3>1. From(p, <<"namex">> \o c, FALSE, FALSE, FALSE, old, TRUE)
        BY <1>2, <1>4, <2>1, FromForm DEF PutLabels
      <3> QED BY <2>1, <3>1 DEF From, Form
    <2>2. CASE first = "elem"
      <3>1. From(p, <<"elem">> \o c, TRUE, TRUE, FALSE, old, TRUE)
        BY <1>2, <1>4, <2>2, FromForm DEF PutLabels
      <3> QED BY <2>2, <3>1 DEF From, Form
    <2> QED BY <2>1, <2>2
  <1>6. LabelSeq(c) /\ LabelSeq(<<>>) /\ LabelSeq(<<"elem">>) /\ c # <<>>
    <2>1. c \in Bodies
      BY DEF Bodies
    <2>2. LabelSeq(c)
      BY <2>1, BodySeq
    <2>3. LabelSeq(<<>>) /\ LabelSeq(<<"elem">>)
      BY DEF LabelSeq, Labels
    <2>4. c # <<>>
      BY DEF Conts
    <2> QED BY <2>2, <2>3, <2>4
  <1>7. <<>> \o c = c
    BY ONLY <1>6 DEF LabelSeq
  <1> QED BY <1>2, <1>4, <1>5, <1>6, <1>7 DEF Path, Leads

-----------------------------------------------------------------------------
(* namex *)

\* No inode is a value of a local.
LEMMA ZeroInos ==
  0 \in Inos
  BY InodeAssumption DEF Inos

\* A process that walks a path holds the inode it has come to.
LEMMA ElemFrom ==
  ASSUME NEW p, NEW c, NEW old, Path(p, "elem", c, old)
  PROVE  From(p, <<"elem">> \o c, TRUE, TRUE, FALSE, old, TRUE)
  BY DEF Path, From, Form

\* The counts after a step that keeps the references.
LEMMA KeptRefs ==
  ASSUME NEW s, NEW t, NEW N, Sound(s, N), Kept(s, t, N), Up(t), NEW j \in Inums
  PROVE  t.mem[j].ref = s.mem[j].ref /\ s.mem[j].ref \in Nat
  BY RefNat DEF Kept, SameRefs, Up

\* The counts after a step that takes one.
LEMMA GotRefs ==
  ASSUME NEW s, NEW t, NEW i, NEW N, Sound(s, N), Got(s, t, i, N), Up(t), NEW j \in Inums
  PROVE  t.mem[j].ref = s.mem[j].ref + One(i = j) /\ s.mem[j].ref \in Nat
  BY RefNat DEF Got, OneMore, Up, One

\* A path that leads nowhere: the last inode is put.
LEMMA PathFails ==
  ASSUME RInv, NEW p \in Procs, NEW c, NEW old, Path(p, "elem", c, old), PutIp(p, 0, <<>>), UNCHANGED <<ftab, proc, todo>>,
         NEW N, Kept(fs, fs', N), Sound(fs, N)
  PROVE  Good'
  <1>1. /\ From(p, <<"elem">> \o c, TRUE, TRUE, FALSE, old, TRUE) /\ old \in BOOLEAN
        /\ Form(c, TRUE, FALSE, FALSE, old, TRUE) /\ Leads(p, <<>>, c) /\ c \in PutBodies
    BY ElemFrom DEF Path, Form
  <1>2. /\ InCall(p) /\ Form(pc[p], TRUE, TRUE, FALSE, old, TRUE)
        /\ loc[p].ip # 0 /\ (old => loc[p].old # 0)
    BY <1>1, FromIn
  <1>3. ToPut(p, c, loc[p].ip, 0)
    BY <1>1, ZeroInos, PutIpGoes
  <1>4. Relies(c, 0, loc[p])
    BY <1>1, <1>2 DEF Relies, Form
  <1>5. Sound(fs', N)
    BY DEF Kept
  <1>6. ASSUME Up(fs') PROVE PutMoves(p, c, loc[p].ip, 0)
    <2>1. SUFFICES ASSUME NEW j \in Inums
                   PROVE  fs'.mem[j].ref + Holds(pc[p], loc[p].ip, loc[p], proc[p].cwd, j)
                          = fs.mem[j].ref + (One(loc[p].ip = j) + Holds(c, 0, loc[p], proc[p].cwd, j))
      BY DEF PutMoves
    <2>2. fs'.mem[j].ref = fs.mem[j].ref /\ fs.mem[j].ref \in Nat /\ j # 0
      BY <1>6, KeptRefs, InumsInos
    <2> QED BY <1>1, <1>2, <2>2 DEF Holds, Form, One
  <1> QED BY <1>1, <1>2, <1>3, <1>4, <1>5, <1>6, PutCase

\* A call gives up: it has no inode, or it puts the one it has.
LEMMA FailCase ==
  ASSUME RInv, NEW p \in Procs, NEW a \in Labels, From(p, <<a, "ret">>, TRUE, FALSE, FALSE, FALSE, TRUE), loc[p].ip = 0,
         Fails(p), UNCHANGED <<fs, ftab, proc, todo>>
  PROVE  Good'
  <1>1. InCall(p) /\ pc[p] = <<a, "ret">> /\ Form(pc[p], TRUE, FALSE, FALSE, FALSE, TRUE)
    BY FromIn
  <1>2. /\ Form(<<"ret">>, FALSE, FALSE, FALSE, FALSE, TRUE) /\ Leads(p, <<>>, <<"ret">>) /\ <<"ret">> # <<>>
    BY <1>1, Forms, LeadsRet
  <1>3. <<"ret">> \in PutBodies /\ <<"ret">> \in Bodies
    BY <1>2 DEF Form, PutBodies
  <1>4. To(p, <<"ret">>, loc[p])
    BY <1>2, <1>3, LocStays, BodyGoes DEF Fails
  <1>5. Relies(<<"ret">>, loc[p].ip, loc[p])
    BY <1>2 DEF Relies, Form
  <1>6. BodyMoves(p, <<"ret">>, loc[p])
    BY <1>1, <1>2, InumsInos DEF BodyMoves, Form, Holds, One
  <1>7. \E N : Sound(fs', N)
    BY DEF RInv, TypeInv
  <1> QED BY <1>1, <1>2, <1>3, <1>4, <1>5, <1>6, <1>7, BodyCase

\* A call that puts its only inode and returns keeps the invariant.
LEMMA PutOut ==
  ASSUME RInv, NEW p \in Procs, NEW a \in Labels, NEW sure, From(p, <<a, "ret">>, TRUE, sure, FALSE, FALSE, TRUE), loc[p].ip # 0,
         Put(p, loc[p].ip, <<>>), UNCHANGED <<ftab, proc, todo>>, NEW N, Sound(fs, N), Kept(fs, fs', N)
  PROVE  Good'
  <1>1. InCall(p) /\ pc[p] = <<a, "ret">> /\ Form(pc[p], TRUE, sure, FALSE, FALSE, TRUE)
    BY FromIn
  <1>2. /\ Form(<<"ret">>, FALSE, FALSE, FALSE, FALSE, TRUE) /\ Leads(p, <<>>, <<"ret">>)
    BY <1>1, Forms, LeadsRet
  <1>3. <<"ret">> \in PutBodies
    BY <1>2 DEF Form
  <1>4. ToPut(p, <<"ret">>, loc[p].ip, loc[p].ip)
    <2>1. PICK i \in Inums : i = loc[p].ip
      BY InosNot0 DEF RInv, TypeInv, Locs
    <2> QED BY <1>2, <1>3, <2>1, PutGoes
  <1>5. Relies(<<"ret">>, loc[p].ip, loc[p])
    BY <1>2 DEF Relies, Form
  <1>6. ASSUME Up(fs') PROVE PutMoves(p, <<"ret">>, loc[p].ip, loc[p].ip)
    <2>1. SUFFICES ASSUME NEW j \in Inums
                   PROVE  fs'.mem[j].ref + Holds(pc[p], loc[p].ip, loc[p], proc[p].cwd, j)
                          = fs.mem[j].ref + (One(loc[p].ip = j) + Holds(<<"ret">>, loc[p].ip, loc[p], proc[p].cwd, j))
      BY DEF PutMoves
    <2>2. fs'.mem[j].ref = fs.mem[j].ref /\ fs.mem[j].ref \in Nat
      BY <1>6, KeptRefs
    <2> QED BY <1>1, <1>2, <2>2 DEF Holds, Form, One
  <1>7. \E M : Sound(fs', M)
    BY DEF Kept
  <1> QED BY <1>1, <1>3, <1>4, <1>5, <1>6, <1>7, PutCase

\* One local changes.
SetIp(p, i)  == loc' = [loc EXCEPT ![p].ip = i]
SetOld(p, i) == loc' = [loc EXCEPT ![p].old = i]

\* The locals after ip has changed.
LEMMA IpLocs ==
  ASSUME RInv, NEW p \in Procs, NEW i \in Inos, SetIp(p, i)
  PROVE  \E l : l \in Locs /\ l.ip = i /\ l.dp = loc[p].dp /\ l.old = loc[p].old /\ loc' = [loc EXCEPT ![p] = l]
  <1>1. PICK l : l = [loc[p] EXCEPT !.ip = i]
    OBVIOUS
  <1>2. loc \in [Procs -> Locs]
    BY DEF RInv, TypeInv
  <1>3. l \in Locs /\ l.ip = i /\ l.dp = loc[p].dp /\ l.old = loc[p].old
    BY <1>1, <1>2 DEF Locs
  <1>4. loc' = [loc EXCEPT ![p] = l]
    BY <1>1, <1>2 DEF SetIp
  <1> QED BY <1>3, <1>4

\* The locals after old has changed.
LEMMA OldLocs ==
  ASSUME RInv, NEW p \in Procs, NEW i \in Inos, SetOld(p, i)
  PROVE  \E l : l \in Locs /\ l.ip = loc[p].ip /\ l.dp = loc[p].dp /\ l.old = i /\ loc' = [loc EXCEPT ![p] = l]
  <1>1. PICK l : l = [loc[p] EXCEPT !.old = i]
    OBVIOUS
  <1>2. loc \in [Procs -> Locs]
    BY DEF RInv, TypeInv
  <1>3. l \in Locs /\ l.ip = loc[p].ip /\ l.dp = loc[p].dp /\ l.old = i
    BY <1>1, <1>2 DEF Locs
  <1>4. loc' = [loc EXCEPT ![p] = l]
    BY <1>1, <1>2 DEF SetOld
  <1> QED BY <1>3, <1>4

\* A process that begins a path holds nothing for it yet.
LEMMA NamexFrom ==
  ASSUME NEW p, NEW c, NEW old, Path(p, "namex", c, old)
  PROVE  From(p, <<"namex">> \o c, FALSE, FALSE, FALSE, old, TRUE)
  BY DEF Path, From, Form

\* namex starts at the root or the current directory, with a reference of its own.
LEMMA NamexStep ==
  ASSUME RInv, NEW p \in Procs, Namex(p)
  PROVE  Good'
  <1>1. /\ At(p, "namex") /\ UNCHANGED <<ftab, proc, todo>> /\ Goto(p, <<"elem">>)
        /\ \E i \in {ROOTINO, proc[p].cwd} : fs' = Iget(fs, i) /\ SetIp(p, i)
    BY DEF Namex, world, SetIp
  <1>2. PICK c, old : Path(p, "namex", c, old)
    BY <1>1, Paths1
  <1>3. PICK b : b = <<"elem">> \o c
    OBVIOUS
  <1>4. /\ From(p, <<"namex">> \o c, FALSE, FALSE, FALSE, old, TRUE) /\ old \in BOOLEAN
        /\ Form(b, TRUE, TRUE, FALSE, old, TRUE) /\ Leads(p, <<"elem">>, b) /\ b \in PutBodies /\ b \in Bodies
    BY <1>2, <1>3, NamexFrom DEF Path, Form, PutBodies
  <1>5. /\ InCall(p) /\ Form(pc[p], FALSE, FALSE, FALSE, old, TRUE) /\ (old => loc[p].old # 0)
    BY <1>4, FromIn
  <1>6. PICK i \in Inums : fs' = Iget(fs, i) /\ SetIp(p, i)
    BY <1>1, Here, InodeAssumption DEF ROOTINO, Inums
  <1>7. PICK N : Sound(fs, N) /\ Named(N)
    BY FsNames
  <1>8. Got(fs, fs', i, N)
    BY <1>6, <1>7, IgetGets
  <1>9. i \in Inos /\ i # 0
    BY InumsInos
  <1>10. PICK l : l \in Locs /\ l.ip = i /\ l.dp = loc[p].dp /\ l.old = loc[p].old /\ loc' = [loc EXCEPT ![p] = l]
    BY <1>6, <1>9, IpLocs
  <1>11. To(p, b, l)
    BY <1>1, <1>4, <1>10, BodyGoes
  <1>12. Relies(b, l.ip, l)
    BY <1>4, <1>5, <1>9, <1>10 DEF Relies, Form
  <1>13. ASSUME Up(fs') PROVE BodyMoves(p, b, l)
    <2>1. SUFFICES ASSUME NEW j \in Inums
                   PROVE  fs'.mem[j].ref + Holds(pc[p], loc[p].ip, loc[p], proc[p].cwd, j)
                          = fs.mem[j].ref + Holds(b, l.ip, l, proc[p].cwd, j)
      BY DEF BodyMoves
    <2>2. fs'.mem[j].ref = fs.mem[j].ref + One(i = j) /\ fs.mem[j].ref \in Nat
      BY <1>7, <1>8, <1>13, GotRefs
    <2> QED BY <1>4, <1>5, <1>10, <2>2 DEF Holds, Form, One
  <1>14. \E M : Sound(fs', M)
    BY <1>8 DEF Got
  <1>15. b # <<>>
    BY <1>4, Forms DEF Form, Lab, IpLabels
  <1> QED BY <1>1, <1>4, <1>5, <1>11, <1>12, <1>13, <1>14, <1>15, BodyCase

\* The path has been walked.
LEMMA PathEnds ==
  ASSUME RInv, NEW p \in Procs, NEW c, NEW old, Path(p, "elem", c, old), Goto(p, <<>>), UNCHANGED <<loc, ftab, proc, todo>>,
         NEW N, Kept(fs, fs', N), Sound(fs, N)
  PROVE  Good'
  <1>1. /\ From(p, <<"elem">> \o c, TRUE, TRUE, FALSE, old, TRUE) /\ old \in BOOLEAN /\ c # <<>>
        /\ Form(c, TRUE, FALSE, FALSE, old, TRUE) /\ Leads(p, <<>>, c) /\ c \in PutBodies /\ c \in Bodies
    BY ElemFrom DEF Path, Form, PutBodies
  <1>2. /\ InCall(p) /\ Form(pc[p], TRUE, TRUE, FALSE, old, TRUE)
        /\ loc[p].ip # 0 /\ (old => loc[p].old # 0)
    BY <1>1, FromIn
  <1>3. To(p, c, loc[p])
    BY <1>1, LocStays, BodyGoes
  <1>4. Relies(c, loc[p].ip, loc[p])
    BY <1>1, <1>2 DEF Relies, Form
  <1>5. ASSUME Up(fs') PROVE BodyMoves(p, c, loc[p])
    <2>1. SUFFICES ASSUME NEW j \in Inums
                   PROVE  fs'.mem[j].ref + Holds(pc[p], loc[p].ip, loc[p], proc[p].cwd, j)
                          = fs.mem[j].ref + Holds(c, loc[p].ip, loc[p], proc[p].cwd, j)
      BY DEF BodyMoves
    <2>2. fs'.mem[j].ref = fs.mem[j].ref /\ fs.mem[j].ref \in Nat
      BY <1>5, KeptRefs
    <2> QED BY <1>1, <1>2, <2>2 DEF Form, Holds, One
  <1>6. \E M : Sound(fs', M)
    BY DEF Kept
  <1> QED BY <1>1, <1>2, <1>3, <1>4, <1>5, <1>6, BodyCase

\* namex returns its inode, or puts it when a parent was asked for.
LEMMA NamexEndStep ==
  ASSUME RInv, NEW p \in Procs, NamexEnd(p)
  PROVE  Good'
  <1>1. /\ At(p, "elem") /\ UNCHANGED <<ftab, proc, todo>> /\ fs' = fs
        /\ PutIp(p, 0, <<>>) \/ (Goto(p, <<>>) /\ UNCHANGED loc)
    BY DEF NamexEnd, world
  <1>2. PICK c, old : Path(p, "elem", c, old)
    BY <1>1, Paths1
  <1>3. PICK N : Sound(fs, N)
    BY DEF RInv, TypeInv
  <1>4. Kept(fs, fs', N)
    BY <1>1, <1>3, KeptSelf
  <1> QED BY <1>1, <1>2, <1>3, <1>4, PathFails, PathEnds

\* The next element of the path has been found.
LEMMA PathNext ==
  ASSUME RInv, NEW p \in Procs, NEW c, NEW old, Path(p, "elem", c, old), NEW next \in Inums, PutIp(p, next, <<"elem">>),
         UNCHANGED <<ftab, proc, todo>>, NEW N, Got(fs, fs', next, N), Sound(fs, N)
  PROVE  Good'
  <1>1. PICK b : b = <<"elem">> \o c
    OBVIOUS
  <1>2. /\ From(p, b, TRUE, TRUE, FALSE, old, TRUE) /\ old \in BOOLEAN
        /\ Form(b, TRUE, TRUE, FALSE, old, TRUE) /\ Leads(p, <<"elem">>, b) /\ b \in PutBodies
    BY <1>1, ElemFrom DEF Path, Form
  <1>3. /\ InCall(p) /\ Form(pc[p], TRUE, TRUE, FALSE, old, TRUE)
        /\ loc[p].ip # 0 /\ (old => loc[p].old # 0)
    BY <1>2, FromIn
  <1>4. next \in Inos /\ next # 0
    BY InumsInos
  <1>5. ToPut(p, b, loc[p].ip, next)
    BY <1>2, <1>4, PutIpGoes
  <1>6. Relies(b, next, loc[p])
    BY <1>2, <1>3, <1>4 DEF Relies, Form
  <1>7. ASSUME Up(fs') PROVE PutMoves(p, b, loc[p].ip, next)
    <2>1. SUFFICES ASSUME NEW j \in Inums
                   PROVE  fs'.mem[j].ref + Holds(pc[p], loc[p].ip, loc[p], proc[p].cwd, j)
                          = fs.mem[j].ref + (One(loc[p].ip = j) + Holds(b, next, loc[p], proc[p].cwd, j))
      BY DEF PutMoves
    <2>2. fs'.mem[j].ref = fs.mem[j].ref + One(next = j) /\ fs.mem[j].ref \in Nat
      BY <1>7, GotRefs
    <2> QED BY <1>2, <1>3, <2>2 DEF Holds, Form, One
  <1>8. \E M : Sound(fs', M)
    BY DEF Got
  <1> QED BY <1>2, <1>3, <1>5, <1>6, <1>7, <1>8, PutCase

\* The inode of a call, when there is one.
LEMMA IpIn ==
  ASSUME RInv, NEW p \in Procs, loc[p].ip # 0
  PROVE  loc[p].ip \in Inums
  BY InosNot0 DEF RInv, TypeInv, Locs

\* An element of a path: the next inode is got before the last one is put.
LEMMA NamexElemStep ==
  ASSUME RInv, NEW p \in Procs, NamexElem(p)
  PROVE  Good'
  <1>1. PICK s : s = Load(fs, loc[p].ip)
    OBVIOUS
  <1>2. PICK name, next : name = SkipElem(Head(arg[p].rest)) /\ next = Lookup(s, loc[p].ip, name)
    OBVIOUS
  <1>3. /\ At(p, "elem") /\ UNCHANGED <<ftab, proc, todo>>
        /\ \/ ~Up(s) /\ fs' = s /\ UNCHANGED pc
           \/ fs' = s /\ PutIp(p, 0, <<>>)
           \/ fs' = s /\ Goto(p, <<>>) /\ UNCHANGED loc
           \/ next # 0 /\ fs' = Iget(s, next) /\ PutIp(p, next, <<"elem">>)
    <2>1. /\ At(p, "elem") /\ UNCHANGED <<ftab, proc, todo>>
      BY DEF NamexElem, world
    <2>2. CASE ~Up(s)
      BY <1>1, <2>1, <2>2 DEF NamexElem
    <2>3. CASE Up(s)
      BY <1>1, <1>2, <2>1, <2>3 DEF NamexElem
    <2> QED BY <2>1, <2>2, <2>3
  <1>4. PICK c, old : Path(p, "elem", c, old)
    BY <1>3, Paths1
  <1>5. From(p, <<"elem">> \o c, TRUE, TRUE, FALSE, old, TRUE)
    BY <1>4, ElemFrom
  <1>6. loc[p].ip \in Inums
    BY <1>5, FromIn, IpIn
  <1>7. PICK N : Sound(fs, N) /\ Named(N)
    BY FsNames
  <1>8. Kept(fs, s, N) /\ Sound(s, N)
    BY <1>1, <1>6, <1>7, LoadKeeps DEF Kept
  <1>9. CASE ~Up(s) /\ fs' = s /\ UNCHANGED pc
    BY <1>3, <1>9, Here, PanicStep
  <1>10. CASE fs' = s /\ PutIp(p, 0, <<>>)
    BY <1>3, <1>4, <1>7, <1>8, <1>10, PathFails
  <1>11. CASE fs' = s /\ Goto(p, <<>>) /\ UNCHANGED loc
    BY <1>3, <1>4, <1>7, <1>8, <1>11, PathEnds
  <1>12. CASE next # 0 /\ fs' = Iget(s, next) /\ PutIp(p, next, <<"elem">>)
    <2>1. next \in Inums
      BY <1>2, <1>6, <1>8, <1>12, LookupOK
    <2>2. Got(fs, fs', next, N)
      BY <1>7, <1>8, <1>12, <2>1, IgetGets, KeptGot
    <2> QED BY <1>3, <1>4, <1>7, <1>12, <2>1, <2>2, PathNext
  <1> QED BY <1>3, <1>9, <1>10, <1>11, <1>12

-----------------------------------------------------------------------------
(* link and unlink *)

\* The inode to be linked, when there is one.
LEMMA OldIn ==
  ASSUME RInv, NEW p \in Procs, loc[p].old # 0
  PROVE  loc[p].old \in Inums
  BY InosNot0 DEF RInv, TypeInv, Locs

\* The directory of a call, when there is one.
LEMMA DpIn ==
  ASSUME RInv, NEW p \in Procs, loc[p].dp # 0
  PROVE  loc[p].dp \in Inums
  BY InosNot0 DEF RInv, TypeInv, Locs

\* sys_link's count of the new link keeps the invariant; a directory is put.
LEMMA LinkCountStep ==
  ASSUME RInv, NEW p \in Procs, LinkCount(p)
  PROVE  Good'
  <1>1. PICK s : s = Load(fs, loc[p].ip)
    OBVIOUS
  <1>2. /\ At(p, "link1") /\ UNCHANGED <<ftab, proc, todo>>
        /\ \/ loc[p].ip = 0 /\ Fails(p) /\ fs' = fs
           \/ loc[p].ip # 0 /\ fs' = s /\ Put(p, loc[p].ip, <<>>)
           \/ loc[p].ip # 0 /\ fs' = AddLinks(s, loc[p].ip, 1) /\ SetOld(p, loc[p].ip) /\ Goto(p, <<"namex", "link2">>)
    BY <1>1 DEF LinkCount, world, SetOld
  <1>3. From(p, <<"link1", "ret">>, TRUE, FALSE, FALSE, FALSE, TRUE)
    BY <1>2, Froms
  <1>4. InCall(p) /\ pc[p] = <<"link1", "ret">> /\ Form(pc[p], TRUE, FALSE, FALSE, FALSE, TRUE) /\ "link1" \in Labels
    BY <1>3, FromIn DEF Labels
  <1>5. CASE loc[p].ip = 0 /\ Fails(p) /\ fs' = fs
    BY <1>2, <1>3, <1>4, <1>5, FailCase
  <1>6. PICK N : Sound(fs, N) /\ Named(N)
    BY FsNames
  <1>7. ASSUME loc[p].ip # 0 PROVE loc[p].ip \in Inums /\ Kept(fs, s, N) /\ Sound(s, N)
    BY <1>1, <1>6, <1>7, IpIn, LoadKeeps DEF Kept
  <1>8. CASE loc[p].ip # 0 /\ fs' = s /\ Put(p, loc[p].ip, <<>>)
    BY <1>2, <1>3, <1>4, <1>6, <1>7, <1>8, PutOut
  <1>9. CASE loc[p].ip # 0 /\ fs' = AddLinks(s, loc[p].ip, 1) /\ SetOld(p, loc[p].ip) /\ Goto(p, <<"namex", "link2">>)
    <2>a. Kept(fs, fs', N)
      BY <1>6, <1>7, <1>9, AddLinksKeeps, KeptKept
    <2>b. PICK i \in Inos : i = loc[p].ip
      BY <1>7, <1>9, InumsInos
    <2>c. PICK l : l \in Locs /\ l.ip = loc[p].ip /\ l.dp = loc[p].dp /\ l.old = i /\ loc' = [loc EXCEPT ![p] = l]
      BY <1>9, <2>b, OldLocs
    <2>d. Form(<<"namex", "link2", "ret">>, FALSE, FALSE, FALSE, TRUE, TRUE)
      BY DEF Form, Calm, Lab, PutBodies, Bodies, Conts, Starts, Walks, Halves, Ends, IpLabels, IpSure, DpLabels, Linking, LeftLabels
    <2>1. Form(<<"namex", "link2", "ret">>, FALSE, FALSE, FALSE, TRUE, TRUE) /\ Leads(p, <<"namex", "link2">>, <<"namex", "link2", "ret">>) /\ <<"namex", "link2", "ret">> # <<>>
      BY <1>4, Forms, <2>d, LeadsRet DEF Labels, PutLabels
    <2>2. <<"namex", "link2", "ret">> \in PutBodies /\ <<"namex", "link2", "ret">> \in Bodies
      BY <2>1 DEF Form, PutBodies
    <2>3. To(p, <<"namex", "link2", "ret">>, l)
      BY <1>9, <2>1, <2>2, <2>c, BodyGoes
    <2>4. Relies(<<"namex", "link2", "ret">>, l.ip, l)
      BY <1>4, <2>c, <1>9, <2>b, <2>1, InumsInos DEF Relies, Form
    <2>5. ASSUME Up(fs') PROVE BodyMoves(p, <<"namex", "link2", "ret">>, l)
      <3>1. SUFFICES ASSUME NEW j \in Inums
                     PROVE  fs'.mem[j].ref + Holds(pc[p], loc[p].ip, loc[p], proc[p].cwd, j)
                            = fs.mem[j].ref + Holds(<<"namex", "link2", "ret">>, l.ip, l, proc[p].cwd, j)
        BY DEF BodyMoves
      <3>2. fs'.mem[j].ref = fs.mem[j].ref /\ fs.mem[j].ref \in Nat /\ j # 0
        BY <1>6, <2>a, <2>5, KeptRefs, InumsInos
      <3> QED BY <1>4, <2>1, <3>2, <2>c, <1>9, <2>b DEF Holds, Form, One
    <2>6. \E M : Sound(fs', M)
      BY <1>6, <2>a DEF Kept
    <2> QED BY <1>2, <1>4, <2>1, <2>2, <2>3, <2>4, <2>5, <2>6, BodyCase
  <1> QED BY <1>2, <1>5, <1>8, <1>9

\* sys_link's new entry keeps the invariant; without one the link is given up.
LEMMA LinkEntryStep ==
  ASSUME RInv, NEW p \in Procs, LinkEntry(p)
  PROVE  Good'
  <1>1. PICK s, found : s = Load(fs, loc[p].ip) /\ found = Lookup(s, loc[p].ip, arg[p].name)
    OBVIOUS
  <1>2. /\ At(p, "link2") /\ UNCHANGED <<ftab, proc, todo>>
        /\ \/ loc[p].ip = 0 /\ Goto(p, <<"linkbad">>) /\ UNCHANGED <<fs, loc>>
           \/ loc[p].ip # 0 /\ found # 0 /\ fs' = Iget(s, found) /\ Put(p, found, <<"linkfail">>)
           \/ loc[p].ip # 0 /\ fs' = Dirlink(s, loc[p].ip, arg[p].name, loc[p].old) /\ Put(p, loc[p].ip, <<"link3">>)
    BY <1>1 DEF LinkEntry, world
  <1>3. From(p, <<"link2", "ret">>, TRUE, FALSE, FALSE, TRUE, TRUE)
    BY <1>2, Froms
  <1>4. InCall(p) /\ pc[p] = <<"link2", "ret">> /\ Form(pc[p], TRUE, FALSE, FALSE, TRUE, TRUE) /\ loc[p].old # 0
    BY <1>3, FromIn
  <1>5. PICK N : Sound(fs, N) /\ Named(N) /\ {arg[p].name} \subseteq N
    BY FsNames
  <1>6. ASSUME loc[p].ip # 0 PROVE loc[p].ip \in Inums /\ Kept(fs, s, N) /\ Sound(s, N)
    BY <1>1, <1>5, <1>6, IpIn, LoadKeeps DEF Kept
  <1>7. CASE loc[p].ip = 0 /\ Goto(p, <<"linkbad">>) /\ UNCHANGED <<fs, loc>>
    <2>a. Kept(fs, fs', N)
      BY <1>5, <1>7, KeptSelf
    <2>1. Form(<<"linkbad", "ret">>, FALSE, FALSE, FALSE, TRUE, TRUE) /\ Leads(p, <<"linkbad">>, <<"linkbad", "ret">>) /\ <<"linkbad", "ret">> # <<>>
      BY <1>4, Forms, LeadsRet DEF Labels, PutLabels
    <2>2. <<"linkbad", "ret">> \in PutBodies /\ <<"linkbad", "ret">> \in Bodies
      BY <2>1 DEF Form, PutBodies
    <2>3. To(p, <<"linkbad", "ret">>, loc[p])
      BY <1>7, <2>1, <2>2, LocStays, BodyGoes
    <2>4. Relies(<<"linkbad", "ret">>, loc[p].ip, loc[p])
      BY <1>4, <1>7, <2>1, InumsInos DEF Relies, Form
    <2>5. ASSUME Up(fs') PROVE BodyMoves(p, <<"linkbad", "ret">>, loc[p])
      <3>1. SUFFICES ASSUME NEW j \in Inums
                     PROVE  fs'.mem[j].ref + Holds(pc[p], loc[p].ip, loc[p], proc[p].cwd, j)
                            = fs.mem[j].ref + Holds(<<"linkbad", "ret">>, loc[p].ip, loc[p], proc[p].cwd, j)
        BY DEF BodyMoves
      <3>2. fs'.mem[j].ref = fs.mem[j].ref /\ fs.mem[j].ref \in Nat /\ j # 0
        BY <1>5, <2>a, <2>5, KeptRefs, InumsInos
      <3> QED BY <1>4, <2>1, <3>2, <1>7 DEF Holds, Form, One
    <2>6. \E M : Sound(fs', M)
      BY <1>5, <2>a DEF Kept
    <2> QED BY <1>2, <1>4, <2>1, <2>2, <2>3, <2>4, <2>5, <2>6, BodyCase
  <1>8. CASE loc[p].ip # 0 /\ found # 0 /\ fs' = Iget(s, found) /\ Put(p, found, <<"linkfail">>)
    <2>a. found \in Inums
      BY <1>1, <1>6, <1>8, LookupOK
    <2>b. Got(fs, fs', found, N)
      BY <1>5, <1>6, <1>8, <2>a, IgetGets, KeptGot
    <2>1. Form(<<"linkfail", "ret">>, TRUE, TRUE, FALSE, TRUE, TRUE) /\ Leads(p, <<"linkfail">>, <<"linkfail", "ret">>)
      BY <1>4, Forms, LeadsRet DEF Labels, PutLabels
    <2>2. <<"linkfail", "ret">> \in PutBodies
      BY <2>1 DEF Form
    <2>3. ToPut(p, <<"linkfail", "ret">>, found, loc[p].ip)
      BY <1>8, <2>1, <2>2, <1>8, <2>a, PutGoes
    <2>4. Relies(<<"linkfail", "ret">>, loc[p].ip, loc[p]) /\ found # 0
      BY <1>4, <1>8, <2>a, <2>1, InumsInos DEF Relies, Form
    <2>5. ASSUME Up(fs') PROVE PutMoves(p, <<"linkfail", "ret">>, found, loc[p].ip)
      <3>1. SUFFICES ASSUME NEW j \in Inums
                     PROVE  fs'.mem[j].ref + Holds(pc[p], loc[p].ip, loc[p], proc[p].cwd, j)
                            = fs.mem[j].ref + (One(found = j) + Holds(<<"linkfail", "ret">>, loc[p].ip, loc[p], proc[p].cwd, j))
        BY DEF PutMoves
      <3>2. fs'.mem[j].ref = fs.mem[j].ref + One(found = j) /\ fs.mem[j].ref \in Nat /\ j # 0
        BY <1>5, <2>b, <2>5, GotRefs, InumsInos
      <3> QED BY <1>4, <2>1, <3>2 DEF Holds, Form, One
    <2>6. \E M : Sound(fs', M)
      BY <1>5, <2>b DEF Got
    <2> QED BY <1>2, <1>4, <2>2, <2>3, <2>4, <2>5, <2>6, PutCase
  <1>9. CASE loc[p].ip # 0 /\ fs' = Dirlink(s, loc[p].ip, arg[p].name, loc[p].old) /\ Put(p, loc[p].ip, <<"link3">>)
    <2>a. loc[p].old \in 0..NINODES
      BY DEF RInv, TypeInv, Locs, Inos
    <2>b. Kept(s, fs', N)
      BY <1>5, <1>6, <1>9, <2>a, DirlinkKeeps
    <2>c. Kept(fs, fs', N)
      BY <1>6, <1>9, <2>b, KeptKept
    <2>d. loc[p].ip \in Inums
      BY <1>6, <1>9
    <2>1. Form(<<"link3", "ret">>, FALSE, FALSE, FALSE, TRUE, TRUE) /\ Leads(p, <<"link3">>, <<"link3", "ret">>)
      BY <1>4, Forms, LeadsRet DEF Labels, PutLabels
    <2>2. <<"link3", "ret">> \in PutBodies
      BY <2>1 DEF Form
    <2>3. ToPut(p, <<"link3", "ret">>, loc[p].ip, loc[p].ip)
      BY <1>9, <2>1, <2>2, <2>d, PutGoes
    <2>4. Relies(<<"link3", "ret">>, loc[p].ip, loc[p]) /\ loc[p].ip # 0
      BY <1>4, <2>d, <2>1, InumsInos DEF Relies, Form
    <2>5. ASSUME Up(fs') PROVE PutMoves(p, <<"link3", "ret">>, loc[p].ip, loc[p].ip)
      <3>1. SUFFICES ASSUME NEW j \in Inums
                     PROVE  fs'.mem[j].ref + Holds(pc[p], loc[p].ip, loc[p], proc[p].cwd, j)
                            = fs.mem[j].ref + (One(loc[p].ip = j) + Holds(<<"link3", "ret">>, loc[p].ip, loc[p], proc[p].cwd, j))
        BY DEF PutMoves
      <3>2. fs'.mem[j].ref = fs.mem[j].ref /\ fs.mem[j].ref \in Nat /\ j # 0
        BY <1>5, <2>c, <2>5, KeptRefs, InumsInos
      <3> QED BY <1>4, <2>1, <3>2 DEF Holds, Form, One
    <2>6. \E M : Sound(fs', M)
      BY <1>5, <2>c DEF Kept
    <2> QED BY <1>2, <1>4, <2>2, <2>3, <2>4, <2>5, <2>6, PutCase
  <1> QED BY <1>2, <1>7, <1>8, <1>9

\* sys_link's failed entry: the directory is put, and then the link is undone.
LEMMA LinkFailStep ==
  ASSUME RInv, NEW p \in Procs, LinkFail(p)
  PROVE  Good'
  <1>1. /\ At(p, "linkfail") /\ UNCHANGED <<ftab, proc, todo>>
        /\ Put(p, loc[p].ip, <<"linkbad">>) /\ fs' = fs
    BY DEF LinkFail, world
  <1>2. From(p, <<"linkfail", "ret">>, TRUE, TRUE, FALSE, TRUE, TRUE)
    BY <1>1, Froms
  <1>3. /\ InCall(p) /\ pc[p] = <<"linkfail", "ret">> /\ Form(pc[p], TRUE, TRUE, FALSE, TRUE, TRUE)
        /\ loc[p].ip # 0 /\ loc[p].old # 0
    BY <1>2, FromIn
  <1>4. PICK N : Sound(fs, N) /\ Kept(fs, fs', N)
    BY <1>1, FsNames, KeptSelf
  <1>5. loc[p].ip \in Inums
    BY <1>3, IpIn
  <1>6. Good'
    <2>1. Form(<<"linkbad", "ret">>, FALSE, FALSE, FALSE, TRUE, TRUE) /\ Leads(p, <<"linkbad">>, <<"linkbad", "ret">>)
      BY <1>3, Forms, LeadsRet DEF Labels, PutLabels
    <2>2. <<"linkbad", "ret">> \in PutBodies
      BY <2>1 DEF Form
    <2>3. ToPut(p, <<"linkbad", "ret">>, loc[p].ip, loc[p].ip)
      BY <1>1, <2>1, <2>2, <1>5, PutGoes
    <2>4. Relies(<<"linkbad", "ret">>, loc[p].ip, loc[p]) /\ loc[p].ip # 0
      BY <1>3, <1>5, <2>1, InumsInos DEF Relies, Form
    <2>5. ASSUME Up(fs') PROVE PutMoves(p, <<"linkbad", "ret">>, loc[p].ip, loc[p].ip)
      <3>1. SUFFICES ASSUME NEW j \in Inums
                     PROVE  fs'.mem[j].ref + Holds(pc[p], loc[p].ip, loc[p], proc[p].cwd, j)
                            = fs.mem[j].ref + (One(loc[p].ip = j) + Holds(<<"linkbad", "ret">>, loc[p].ip, loc[p], proc[p].cwd, j))
        BY DEF PutMoves
      <3>2. fs'.mem[j].ref = fs.mem[j].ref /\ fs.mem[j].ref \in Nat /\ j # 0
        BY <1>4, <2>5, KeptRefs, InumsInos
      <3> QED BY <1>3, <2>1, <3>2 DEF Holds, Form, One
    <2>6. \E M : Sound(fs', M)
      BY <1>4 DEF Kept
    <2> QED BY <1>1, <1>3, <2>2, <2>3, <2>4, <2>5, <2>6, PutCase
  <1> QED BY <1>6

\* sys_link's undoing of the link puts the inode.
LEMMA LinkUndoStep ==
  ASSUME RInv, NEW p \in Procs, LinkUndo(p)
  PROVE  Good'
  <1>1. /\ At(p, "linkbad") /\ UNCHANGED <<ftab, proc, todo>>
        /\ Put(p, loc[p].old, <<>>) /\ fs' = AddLinks(Load(fs, loc[p].old), loc[p].old, -1)
    BY DEF LinkUndo, world
  <1>2. From(p, <<"linkbad", "ret">>, FALSE, FALSE, FALSE, TRUE, TRUE)
    BY <1>1, Froms
  <1>3. /\ InCall(p) /\ pc[p] = <<"linkbad", "ret">> /\ Form(pc[p], FALSE, FALSE, FALSE, TRUE, TRUE)
        /\ loc[p].old # 0
    BY <1>2, FromIn
  <1>4. PICK N : Sound(fs, N) /\ Named(N)
    BY FsNames
  <1>5. loc[p].old \in Inums
    BY <1>3, OldIn
  <1>6. PICK s : s = Load(fs, loc[p].old)
    OBVIOUS
  <1>7. Kept(fs, s, N) /\ Sound(s, N)
    BY <1>4, <1>5, <1>6, LoadKeeps DEF Kept
  <1>8. Kept(fs, fs', N)
    BY <1>1, <1>5, <1>6, <1>7, -1 \in Int, AddLinksKeeps, KeptKept
  <1>9. Good'
    <2>1. Form(<<"ret">>, FALSE, FALSE, FALSE, FALSE, TRUE) /\ Leads(p, <<>>, <<"ret">>)
      BY <1>3, Forms, LeadsRet DEF Labels, PutLabels
    <2>2. <<"ret">> \in PutBodies
      BY <2>1 DEF Form
    <2>3. ToPut(p, <<"ret">>, loc[p].old, loc[p].ip)
      BY <1>1, <2>1, <2>2, <1>5, PutGoes
    <2>4. Relies(<<"ret">>, loc[p].ip, loc[p]) /\ loc[p].old # 0
      BY <1>3, <1>5, <2>1, InumsInos DEF Relies, Form
    <2>5. ASSUME Up(fs') PROVE PutMoves(p, <<"ret">>, loc[p].old, loc[p].ip)
      <3>1. SUFFICES ASSUME NEW j \in Inums
                     PROVE  fs'.mem[j].ref + Holds(pc[p], loc[p].ip, loc[p], proc[p].cwd, j)
                            = fs.mem[j].ref + (One(loc[p].old = j) + Holds(<<"ret">>, loc[p].ip, loc[p], proc[p].cwd, j))
        BY DEF PutMoves
      <3>2. fs'.mem[j].ref = fs.mem[j].ref /\ fs.mem[j].ref \in Nat /\ j # 0
        BY <1>4, <1>8, <2>5, KeptRefs, InumsInos
      <3> QED BY <1>3, <2>1, <3>2 DEF Holds, Form, One
    <2>6. \E M : Sound(fs', M)
      BY <1>4, <1>8 DEF Kept
    <2> QED BY <1>1, <1>3, <2>2, <2>3, <2>4, <2>5, <2>6, PutCase
  <1> QED BY <1>9

\* sys_link's end puts the inode.
LEMMA LinkDoneStep ==
  ASSUME RInv, NEW p \in Procs, LinkDone(p)
  PROVE  Good'
  <1>1. /\ At(p, "link3") /\ UNCHANGED <<ftab, proc, todo>>
        /\ Put(p, loc[p].old, <<>>) /\ fs' = fs
    BY DEF LinkDone, world
  <1>2. From(p, <<"link3", "ret">>, FALSE, FALSE, FALSE, TRUE, TRUE)
    BY <1>1, Froms
  <1>3. /\ InCall(p) /\ pc[p] = <<"link3", "ret">> /\ Form(pc[p], FALSE, FALSE, FALSE, TRUE, TRUE)
        /\ loc[p].old # 0
    BY <1>2, FromIn
  <1>4. PICK N : Sound(fs, N) /\ Kept(fs, fs', N)
    BY <1>1, FsNames, KeptSelf
  <1>5. loc[p].old \in Inums
    BY <1>3, OldIn
  <1>6. Good'
    <2>1. Form(<<"ret">>, FALSE, FALSE, FALSE, FALSE, TRUE) /\ Leads(p, <<>>, <<"ret">>)
      BY <1>3, Forms, LeadsRet DEF Labels, PutLabels
    <2>2. <<"ret">> \in PutBodies
      BY <2>1 DEF Form
    <2>3. ToPut(p, <<"ret">>, loc[p].old, loc[p].ip)
      BY <1>1, <2>1, <2>2, <1>5, PutGoes
    <2>4. Relies(<<"ret">>, loc[p].ip, loc[p]) /\ loc[p].old # 0
      BY <1>3, <1>5, <2>1, InumsInos DEF Relies, Form
    <2>5. ASSUME Up(fs') PROVE PutMoves(p, <<"ret">>, loc[p].old, loc[p].ip)
      <3>1. SUFFICES ASSUME NEW j \in Inums
                     PROVE  fs'.mem[j].ref + Holds(pc[p], loc[p].ip, loc[p], proc[p].cwd, j)
                            = fs.mem[j].ref + (One(loc[p].old = j) + Holds(<<"ret">>, loc[p].ip, loc[p], proc[p].cwd, j))
        BY DEF PutMoves
      <3>2. fs'.mem[j].ref = fs.mem[j].ref /\ fs.mem[j].ref \in Nat /\ j # 0
        BY <1>4, <2>5, KeptRefs, InumsInos
      <3> QED BY <1>3, <2>1, <3>2 DEF Holds, Form, One
    <2>6. \E M : Sound(fs', M)
      BY <1>4 DEF Kept
    <2> QED BY <1>1, <1>3, <2>2, <2>3, <2>4, <2>5, <2>6, PutCase
  <1> QED BY <1>6

\* The directory and the inode become locals of their own.
SetUnlink(p, d, i, k) == loc' = [loc EXCEPT ![p].dp = d, ![p].ip = i, ![p].off = k]
SetCreate(p, d, i)    == loc' = [loc EXCEPT ![p].dp = d, ![p].ip = i]

\* The locals after create has found its directory.
LEMMA CreateLocs ==
  ASSUME RInv, NEW p \in Procs, NEW d \in Inos, NEW i \in Inos, SetCreate(p, d, i)
  PROVE  \E l : l \in Locs /\ l.ip = i /\ l.dp = d /\ l.old = loc[p].old /\ loc' = [loc EXCEPT ![p] = l]
  <1>1. loc \in [Procs -> Locs]
    BY DEF RInv, TypeInv
  <1>2. PICK r : r = [loc[p] EXCEPT !.dp = d]
    OBVIOUS
  <1>3. PICK l : l = [r EXCEPT !.ip = i]
    OBVIOUS
  <1>4. r \in Locs /\ r.dp = d /\ r.old = loc[p].old
    BY <1>1, <1>2 DEF Locs
  <1>5. l \in Locs /\ l.ip = i /\ l.dp = d /\ l.old = loc[p].old
    BY <1>3, <1>4 DEF Locs
  <1>6. PICK m : m = [loc EXCEPT ![p] = r]
    OBVIOUS
  <1>7. m = [loc EXCEPT ![p].dp = d] /\ m[p] = r
    BY <1>1, <1>2, <1>6
  <1>8. loc' = [m EXCEPT ![p].ip = i]
    BY <1>7 DEF SetCreate
  <1>9. loc' = [m EXCEPT ![p] = l]
    BY <1>3, <1>7, <1>8
  <1>10. loc' = [loc EXCEPT ![p] = l]
    BY <1>1, <1>6, <1>9
  <1> QED BY <1>5, <1>10

\* The locals after unlink has found its entry.
LEMMA UnlinkLocs ==
  ASSUME RInv, NEW p \in Procs, NEW d \in Inos, NEW i \in Inos, NEW k \in Nat, SetUnlink(p, d, i, k)
  PROVE  \E l : l \in Locs /\ l.ip = i /\ l.dp = d /\ l.old = loc[p].old /\ loc' = [loc EXCEPT ![p] = l]
  <1>1. loc \in [Procs -> Locs]
    BY DEF RInv, TypeInv
  <1>2. PICK r : r = [loc[p] EXCEPT !.dp = d]
    OBVIOUS
  <1>3. PICK v : v = [r EXCEPT !.ip = i]
    OBVIOUS
  <1>4. PICK l : l = [v EXCEPT !.off = k]
    OBVIOUS
  <1>5. r \in Locs /\ r.dp = d /\ r.old = loc[p].old
    BY <1>1, <1>2 DEF Locs
  <1>6. v \in Locs /\ v.ip = i /\ v.dp = d /\ v.old = loc[p].old
    BY <1>3, <1>5 DEF Locs
  <1>7. l \in Locs /\ l.ip = i /\ l.dp = d /\ l.old = loc[p].old
    BY <1>4, <1>6 DEF Locs
  <1>8. PICK m : m = [loc EXCEPT ![p] = r]
    OBVIOUS
  <1>9. PICK n : n = [m EXCEPT ![p] = v]
    OBVIOUS
  <1>10. m = [loc EXCEPT ![p].dp = d] /\ m[p] = r
    BY <1>1, <1>2, <1>8
  <1>11. n = [m EXCEPT ![p].ip = i] /\ n[p] = v
    BY <1>1, <1>3, <1>8, <1>9, <1>10
  <1>12. loc' = [n EXCEPT ![p].off = k]
    BY <1>10, <1>11 DEF SetUnlink
  <1>13. loc' = [n EXCEPT ![p] = l]
    BY <1>4, <1>11, <1>12
  <1>14. loc' = [loc EXCEPT ![p] = l]
    BY <1>1, <1>8, <1>9, <1>13
  <1> QED BY <1>7, <1>14

\* sys_unlink's look-up takes a reference to the inode, or puts the directory.
LEMMA UnlinkFindStep ==
  ASSUME RInv, NEW p \in Procs, UnlinkFind(p)
  PROVE  Good'
  <1>1. PICK s, ip, off : /\ s = Load(fs, loc[p].ip) /\ ip = Lookup(s, loc[p].ip, arg[p].name)
                          /\ off = Offset(s, loc[p].ip, arg[p].name)
    OBVIOUS
  <1>2. /\ At(p, "unlink1") /\ UNCHANGED <<ftab, proc, todo>>
        /\ \/ loc[p].ip = 0 /\ Fails(p) /\ fs' = fs
           \/ loc[p].ip # 0 /\ fs' = s /\ Put(p, loc[p].ip, <<>>)
           \/ loc[p].ip # 0 /\ ip # 0 /\ fs' = Iget(s, ip) /\ SetUnlink(p, loc[p].ip, ip, off) /\ Goto(p, <<"unlink2">>)
    BY <1>1 DEF UnlinkFind, world, SetUnlink
  <1>3. From(p, <<"unlink1", "ret">>, TRUE, FALSE, FALSE, FALSE, TRUE)
    BY <1>2, Froms
  <1>4. InCall(p) /\ pc[p] = <<"unlink1", "ret">> /\ Form(pc[p], TRUE, FALSE, FALSE, FALSE, TRUE) /\ "unlink1" \in Labels
    BY <1>3, FromIn DEF Labels
  <1>5. CASE loc[p].ip = 0 /\ Fails(p) /\ fs' = fs
    BY <1>2, <1>3, <1>4, <1>5, FailCase
  <1>6. PICK N : Sound(fs, N) /\ Named(N)
    BY FsNames
  <1>7. ASSUME loc[p].ip # 0 PROVE loc[p].ip \in Inums /\ Kept(fs, s, N) /\ Sound(s, N)
    BY <1>1, <1>6, <1>7, IpIn, LoadKeeps DEF Kept
  <1>8. CASE loc[p].ip # 0 /\ fs' = s /\ Put(p, loc[p].ip, <<>>)
    BY <1>2, <1>3, <1>4, <1>6, <1>7, <1>8, PutOut
  <1>9. CASE loc[p].ip # 0 /\ ip # 0 /\ fs' = Iget(s, ip) /\ SetUnlink(p, loc[p].ip, ip, off) /\ Goto(p, <<"unlink2">>)
    <2>a. ip \in Inums /\ off \in Nat
      BY <1>1, <1>7, <1>9, LookupOK
    <2>b. Got(fs, fs', ip, N)
      BY <1>6, <1>7, <1>9, <2>a, IgetGets, KeptGot
    <2>c. PICK d \in Inos : d = loc[p].ip
      BY <1>7, <1>9, InumsInos
    <2>d. ip \in Inos /\ ip # 0
      BY <2>a, InumsInos
    <2>e. PICK l : l \in Locs /\ l.ip = ip /\ l.dp = d /\ l.old = loc[p].old /\ loc' = [loc EXCEPT ![p] = l]
      BY <1>9, <2>a, <2>c, <2>d, UnlinkLocs
    <2>1. Form(<<"unlink2", "ret">>, TRUE, TRUE, TRUE, FALSE, TRUE) /\ Leads(p, <<"unlink2">>, <<"unlink2", "ret">>) /\ <<"unlink2", "ret">> # <<>>
      BY <1>4, Forms, LeadsRet DEF Labels, PutLabels
    <2>2. <<"unlink2", "ret">> \in PutBodies /\ <<"unlink2", "ret">> \in Bodies
      BY <2>1 DEF Form, PutBodies
    <2>3. To(p, <<"unlink2", "ret">>, l)
      BY <1>9, <2>1, <2>2, <2>e, BodyGoes
    <2>4. Relies(<<"unlink2", "ret">>, l.ip, l)
      BY <1>4, <2>e, <1>9, <2>c, <2>d, <2>1, InumsInos DEF Relies, Form
    <2>5. ASSUME Up(fs') PROVE BodyMoves(p, <<"unlink2", "ret">>, l)
      <3>1. SUFFICES ASSUME NEW j \in Inums
                     PROVE  fs'.mem[j].ref + Holds(pc[p], loc[p].ip, loc[p], proc[p].cwd, j)
                            = fs.mem[j].ref + Holds(<<"unlink2", "ret">>, l.ip, l, proc[p].cwd, j)
        BY DEF BodyMoves
      <3>2. fs'.mem[j].ref = fs.mem[j].ref + One(ip = j) /\ fs.mem[j].ref \in Nat /\ j # 0
        BY <1>6, <2>b, <2>5, GotRefs, InumsInos
      <3> QED BY <1>4, <2>1, <3>2, <2>e, <1>9, <2>c, <2>d DEF Holds, Form, One
    <2>6. \E M : Sound(fs', M)
      BY <1>6, <2>b DEF Got
    <2> QED BY <1>2, <1>4, <2>1, <2>2, <2>3, <2>4, <2>5, <2>6, BodyCase
  <1> QED BY <1>2, <1>5, <1>8, <1>9

Cleared(s, dp, off) == IF WriteFits(s, dp, off, 1) THEN Writei(s, dp, off, <<Zero>>) ELSE Panic(s, "unlink: writei")

\* Clearing a directory entry changes no reference.
LEMMA ClearedKeeps ==
  ASSUME NEW s, NEW N, Sound(s, N), Named(N), NEW dp \in Inums, NEW off \in Nat
  PROVE  Kept(s, Cleared(s, dp, off), N)
  <1>1. CASE WriteFits(s, dp, off, 1)
    <2>1. PICK u : u = <<Zero>>
      OBVIOUS
    <2>2. Len(u) = 1 /\ u[1] = Zero
      BY <2>1
    <2>3. Zero \in Units(N)
      BY ZeroUnit
    <2>4. Len(u) \in Nat /\ \A k \in 1..Len(u) : u[k] \in Units(N)
      BY <2>2, <2>3
    <2>5. off <= s.mem[dp].d.size
      BY <1>1 DEF WriteFits
    <2>6. Kept(s, Writei(s, dp, off, u), N)
      BY <2>4, <2>5, WriteiKeeps
    <2> QED BY <1>1, <2>1, <2>6 DEF Cleared
  <1>2. CASE ~WriteFits(s, dp, off, 1)
    <2>1. "unlink: writei" \in Panics /\ "unlink: writei" # ""
      BY DEF Panics
    <2> QED BY <1>2, <2>1, PanicKeeps DEF Cleared
  <1> QED BY <1>1, <1>2

\* sys_unlink's clearing of the entry puts the directory; a full directory is put instead.
LEMMA UnlinkClearStep ==
  ASSUME RInv, NEW p \in Procs, UnlinkClear(p)
  PROVE  Good'
  <1>1. PICK s : s = Load(fs, loc[p].ip)
    OBVIOUS
  <1>2. PICK t : t = Cleared(s, loc[p].dp, loc[p].off)
    OBVIOUS
  <1>3. /\ At(p, "unlink2") /\ UNCHANGED <<ftab, proc, todo>>
        /\ \/ fs' = Panic(s, "unlink: nlink < 1") /\ UNCHANGED pc
           \/ fs' = s /\ Put(p, loc[p].ip, <<"unlinkbad">>)
           \/ fs' \in {t, AddLinks(t, loc[p].dp, -1)} /\ Put(p, loc[p].dp, <<"unlink3">>)
    BY <1>1, <1>2 DEF UnlinkClear, world, Cleared
  <1>4. From(p, <<"unlink2", "ret">>, TRUE, TRUE, TRUE, FALSE, TRUE)
    BY <1>3, Froms
  <1>5. /\ InCall(p) /\ pc[p] = <<"unlink2", "ret">> /\ Form(pc[p], TRUE, TRUE, TRUE, FALSE, TRUE)
        /\ loc[p].ip # 0 /\ loc[p].dp # 0 /\ pc[p] # <<>>
    BY <1>3, <1>4, FromIn, Here
  <1>6. PICK N : Sound(fs, N) /\ Named(N)
    BY FsNames
  <1>7. loc[p].ip \in Inums /\ loc[p].dp \in Inums /\ loc[p].off \in Nat
    BY <1>5, IpIn, DpIn DEF RInv, TypeInv, Locs
  <1>8. Kept(fs, s, N) /\ Sound(s, N)
    BY <1>1, <1>6, <1>7, LoadKeeps DEF Kept
  <1>9. CASE fs' = Panic(s, "unlink: nlink < 1") /\ UNCHANGED pc
    <2>1. "unlink: nlink < 1" \in Panics /\ "unlink: nlink < 1" # ""
      BY DEF Panics
    <2>2. ~Up(fs')
      BY <1>8, <1>9, <2>1, PanicKeeps DEF Up
    <2> QED BY <1>5, <1>9, <2>2, PanicStep
  <1>10. CASE fs' = s /\ Put(p, loc[p].ip, <<"unlinkbad">>)
    <2>a. Kept(fs, fs', N)
      BY <1>8, <1>10
    <2>1. Form(<<"unlinkbad", "ret">>, FALSE, FALSE, TRUE, FALSE, TRUE) /\ Leads(p, <<"unlinkbad">>, <<"unlinkbad", "ret">>)
      BY <1>5, Forms, LeadsRet DEF Labels, PutLabels
    <2>2. <<"unlinkbad", "ret">> \in PutBodies
      BY <2>1 DEF Form
    <2>3. ToPut(p, <<"unlinkbad", "ret">>, loc[p].ip, loc[p].ip)
      BY <1>10, <2>1, <2>2, <1>7, PutGoes
    <2>4. Relies(<<"unlinkbad", "ret">>, loc[p].ip, loc[p]) /\ loc[p].ip # 0
      BY <1>5, <1>7, <2>1, InumsInos DEF Relies, Form
    <2>5. ASSUME Up(fs') PROVE PutMoves(p, <<"unlinkbad", "ret">>, loc[p].ip, loc[p].ip)
      <3>1. SUFFICES ASSUME NEW j \in Inums
                     PROVE  fs'.mem[j].ref + Holds(pc[p], loc[p].ip, loc[p], proc[p].cwd, j)
                            = fs.mem[j].ref + (One(loc[p].ip = j) + Holds(<<"unlinkbad", "ret">>, loc[p].ip, loc[p], proc[p].cwd, j))
        BY DEF PutMoves
      <3>2. fs'.mem[j].ref = fs.mem[j].ref /\ fs.mem[j].ref \in Nat /\ j # 0
        BY <1>6, <2>a, <2>5, KeptRefs, InumsInos
      <3> QED BY <1>5, <2>1, <3>2 DEF Holds, Form, One
    <2>6. \E M : Sound(fs', M)
      BY <1>6, <2>a DEF Kept
    <2> QED BY <1>3, <1>5, <2>2, <2>3, <2>4, <2>5, <2>6, PutCase
  <1>11. CASE fs' \in {t, AddLinks(t, loc[p].dp, -1)} /\ Put(p, loc[p].dp, <<"unlink3">>)
    <2>a. Kept(s, t, N) /\ Sound(t, N)
      BY <1>2, <1>6, <1>7, <1>8, ClearedKeeps DEF Kept
    <2>b. Kept(t, AddLinks(t, loc[p].dp, -1), N) /\ Kept(t, t, N)
      BY <1>7, <2>a, -1 \in Int, AddLinksKeeps, KeptSelf
    <2>c. Kept(fs, fs', N)
      BY <1>8, <1>11, <2>a, <2>b, KeptKept
    <2>1. Form(<<"unlink3", "ret">>, TRUE, TRUE, FALSE, FALSE, TRUE) /\ Leads(p, <<"unlink3">>, <<"unlink3", "ret">>)
      BY <1>5, Forms, LeadsRet DEF Labels, PutLabels
    <2>2. <<"unlink3", "ret">> \in PutBodies
      BY <2>1 DEF Form
    <2>3. ToPut(p, <<"unlink3", "ret">>, loc[p].dp, loc[p].ip)
      BY <1>11, <2>1, <2>2, <1>7, PutGoes
    <2>4. Relies(<<"unlink3", "ret">>, loc[p].ip, loc[p]) /\ loc[p].dp # 0
      BY <1>5, <1>7, <2>1, InumsInos DEF Relies, Form
    <2>5. ASSUME Up(fs') PROVE PutMoves(p, <<"unlink3", "ret">>, loc[p].dp, loc[p].ip)
      <3>1. SUFFICES ASSUME NEW j \in Inums
                     PROVE  fs'.mem[j].ref + Holds(pc[p], loc[p].ip, loc[p], proc[p].cwd, j)
                            = fs.mem[j].ref + (One(loc[p].dp = j) + Holds(<<"unlink3", "ret">>, loc[p].ip, loc[p], proc[p].cwd, j))
        BY DEF PutMoves
      <3>2. fs'.mem[j].ref = fs.mem[j].ref /\ fs.mem[j].ref \in Nat /\ j # 0
        BY <1>6, <2>c, <2>5, KeptRefs, InumsInos
      <3> QED BY <1>5, <2>1, <3>2 DEF Holds, Form, One
    <2>6. \E M : Sound(fs', M)
      BY <1>6, <2>c DEF Kept
    <2> QED BY <1>3, <1>5, <2>2, <2>3, <2>4, <2>5, <2>6, PutCase
  <1> QED BY <1>3, <1>9, <1>10, <1>11

\* sys_unlink's refusal puts the directory after the inode.
LEMMA UnlinkBadStep ==
  ASSUME RInv, NEW p \in Procs, UnlinkBad(p)
  PROVE  Good'
  <1>1. /\ At(p, "unlinkbad") /\ UNCHANGED <<ftab, proc, todo>>
        /\ Put(p, loc[p].dp, <<>>) /\ fs' = fs
    BY DEF UnlinkBad, world
  <1>2. From(p, <<"unlinkbad", "ret">>, FALSE, FALSE, TRUE, FALSE, TRUE)
    BY <1>1, Froms
  <1>3. /\ InCall(p) /\ pc[p] = <<"unlinkbad", "ret">> /\ Form(pc[p], FALSE, FALSE, TRUE, FALSE, TRUE)
        /\ loc[p].dp # 0
    BY <1>2, FromIn
  <1>4. PICK N : Sound(fs, N) /\ Kept(fs, fs', N)
    BY <1>1, FsNames, KeptSelf
  <1>5. loc[p].dp \in Inums
    BY <1>3, DpIn
  <1>6. Good'
    <2>1. Form(<<"ret">>, FALSE, FALSE, FALSE, FALSE, TRUE) /\ Leads(p, <<>>, <<"ret">>)
      BY <1>3, Forms, LeadsRet DEF Labels, PutLabels
    <2>2. <<"ret">> \in PutBodies
      BY <2>1 DEF Form
    <2>3. ToPut(p, <<"ret">>, loc[p].dp, loc[p].ip)
      BY <1>1, <2>1, <2>2, <1>5, PutGoes
    <2>4. Relies(<<"ret">>, loc[p].ip, loc[p]) /\ loc[p].dp # 0
      BY <1>3, <1>5, <2>1, InumsInos DEF Relies, Form
    <2>5. ASSUME Up(fs') PROVE PutMoves(p, <<"ret">>, loc[p].dp, loc[p].ip)
      <3>1. SUFFICES ASSUME NEW j \in Inums
                     PROVE  fs'.mem[j].ref + Holds(pc[p], loc[p].ip, loc[p], proc[p].cwd, j)
                            = fs.mem[j].ref + (One(loc[p].dp = j) + Holds(<<"ret">>, loc[p].ip, loc[p], proc[p].cwd, j))
        BY DEF PutMoves
      <3>2. fs'.mem[j].ref = fs.mem[j].ref /\ fs.mem[j].ref \in Nat /\ j # 0
        BY <1>4, <2>5, KeptRefs, InumsInos
      <3> QED BY <1>3, <2>1, <3>2 DEF Holds, Form, One
    <2>6. \E M : Sound(fs', M)
      BY <1>4 DEF Kept
    <2> QED BY <1>1, <1>3, <2>2, <2>3, <2>4, <2>5, <2>6, PutCase
  <1> QED BY <1>6

\* sys_unlink's end puts the inode, which frees it when it was the last one.
LEMMA UnlinkCountStep ==
  ASSUME RInv, NEW p \in Procs, UnlinkCount(p)
  PROVE  Good'
  <1>1. /\ At(p, "unlink3") /\ UNCHANGED <<ftab, proc, todo>>
        /\ Put(p, loc[p].ip, <<>>) /\ fs' = AddLinks(fs, loc[p].ip, -1)
    BY DEF UnlinkCount, world
  <1>2. From(p, <<"unlink3", "ret">>, TRUE, TRUE, FALSE, FALSE, TRUE)
    BY <1>1, Froms
  <1>3. /\ InCall(p) /\ pc[p] = <<"unlink3", "ret">> /\ Form(pc[p], TRUE, TRUE, FALSE, FALSE, TRUE)
        /\ loc[p].ip # 0
    BY <1>2, FromIn
  <1>4. PICK N : Sound(fs, N)
    BY FsNames
  <1>5. loc[p].ip \in Inums /\ "unlink3" \in Labels
    BY <1>3, IpIn DEF Labels
  <1>6. Kept(fs, fs', N)
    BY <1>1, <1>4, <1>5, -1 \in Int, AddLinksKeeps
  <1> QED BY <1>1, <1>2, <1>3, <1>4, <1>5, <1>6, PutOut

-----------------------------------------------------------------------------
(* create, open, mkdir, mknod, chdir *)

\* create's look-up of the name keeps the invariant, found or not.
LEMMA CreateFindStep ==
  ASSUME RInv, NEW p \in Procs, CreateFind(p)
  PROVE  Good'
  <1>1. PICK s, found : s = Load(fs, loc[p].ip) /\ found = Lookup(s, loc[p].ip, arg[p].name)
    OBVIOUS
  <1>2. /\ At(p, "create") /\ UNCHANGED <<ftab, proc, todo>>
        /\ \/ loc[p].ip = 0 /\ Goto(p, <<>>) /\ UNCHANGED <<fs, loc>>
           \/ loc[p].ip # 0 /\ found # 0 /\ fs' = Iget(s, found) /\ PutIp(p, found, <<"create2">>)
           \/ loc[p].ip # 0 /\ fs' = Panic(s, "ialloc: no inodes") /\ UNCHANGED pc
           \/ /\ loc[p].ip # 0 /\ ~NoInodes(s) /\ fs' = Allocated(s, arg[p].type)
              /\ SetCreate(p, loc[p].ip, Ialloc(s)) /\ Goto(p, <<"create3">>)
    BY <1>1 DEF CreateFind, world, SetCreate
  <1>3. PICK w \in Callers : From(p, <<"create", w, "ret">>, TRUE, FALSE, FALSE, FALSE, TRUE)
    BY <1>2, Creating
  <1>4. /\ InCall(p) /\ pc[p] = <<"create", w, "ret">> /\ Form(pc[p], TRUE, FALSE, FALSE, FALSE, TRUE)
        /\ pc[p] # <<>> /\ w \in Labels
    BY <1>2, <1>3, FromIn, Here DEF Callers, Labels
  <1>5. PICK N : Sound(fs, N) /\ Named(N) /\ {arg[p].type} \subseteq N
    BY FsNames
  <1>6. ASSUME loc[p].ip # 0 PROVE loc[p].ip \in Inums /\ Kept(fs, s, N) /\ Sound(s, N)
    BY <1>1, <1>5, <1>6, IpIn, LoadKeeps DEF Kept
  <1>7. CASE loc[p].ip = 0 /\ Goto(p, <<>>) /\ UNCHANGED <<fs, loc>>
    <2>a. Kept(fs, fs', N)
      BY <1>5, <1>7, KeptSelf
    <2>1. Form(<<w, "ret">>, TRUE, FALSE, FALSE, FALSE, TRUE) /\ Leads(p, <<>>, <<w, "ret">>) /\ <<w, "ret">> # <<>>
      BY <1>4, Forms, CallerForms, LeadsTwo DEF Labels, PutLabels
    <2>2. <<w, "ret">> \in PutBodies /\ <<w, "ret">> \in Bodies
      BY <2>1 DEF Form, PutBodies
    <2>3. To(p, <<w, "ret">>, loc[p])
      BY <1>7, <2>1, <2>2, LocStays, BodyGoes
    <2>4. Relies(<<w, "ret">>, loc[p].ip, loc[p])
      BY <1>4, <1>7, <2>1, InumsInos DEF Relies, Form
    <2>5. ASSUME Up(fs') PROVE BodyMoves(p, <<w, "ret">>, loc[p])
      <3>1. SUFFICES ASSUME NEW j \in Inums
                     PROVE  fs'.mem[j].ref + Holds(pc[p], loc[p].ip, loc[p], proc[p].cwd, j)
                            = fs.mem[j].ref + Holds(<<w, "ret">>, loc[p].ip, loc[p], proc[p].cwd, j)
        BY DEF BodyMoves
      <3>2. fs'.mem[j].ref = fs.mem[j].ref /\ fs.mem[j].ref \in Nat /\ j # 0
        BY <1>5, <2>a, <2>5, KeptRefs, InumsInos
      <3> QED BY <1>4, <2>1, <3>2, <1>7 DEF Holds, Form, One
    <2>6. \E M : Sound(fs', M)
      BY <1>5, <2>a DEF Kept
    <2> QED BY <1>2, <1>4, <2>1, <2>2, <2>3, <2>4, <2>5, <2>6, BodyCase
  <1>8. CASE loc[p].ip # 0 /\ found # 0 /\ fs' = Iget(s, found) /\ PutIp(p, found, <<"create2">>)
    <2>a. found \in Inums
      BY <1>1, <1>6, <1>8, LookupOK
    <2>b. Got(fs, fs', found, N)
      BY <1>5, <1>6, <1>8, <2>a, IgetGets, KeptGot
    <2>c. found \in Inos
      BY <2>a, InumsInos
    <2>1. Form(<<"create2", w, "ret">>, TRUE, TRUE, FALSE, FALSE, TRUE) /\ Leads(p, <<"create2">>, <<"create2", w, "ret">>)
      BY <1>4, Forms, CallerForms, LeadsTwo DEF Labels, PutLabels
    <2>2. <<"create2", w, "ret">> \in PutBodies
      BY <2>1 DEF Form
    <2>3. ToPut(p, <<"create2", w, "ret">>, loc[p].ip, found)
      BY <1>8, <2>1, <2>2, <1>8, <2>c, PutIpGoes
    <2>4. Relies(<<"create2", w, "ret">>, found, loc[p]) /\ loc[p].ip # 0
      BY <1>4, <1>8, <2>c, <2>1, InumsInos DEF Relies, Form
    <2>5. ASSUME Up(fs') PROVE PutMoves(p, <<"create2", w, "ret">>, loc[p].ip, found)
      <3>1. SUFFICES ASSUME NEW j \in Inums
                     PROVE  fs'.mem[j].ref + Holds(pc[p], loc[p].ip, loc[p], proc[p].cwd, j)
                            = fs.mem[j].ref + (One(loc[p].ip = j) + Holds(<<"create2", w, "ret">>, found, loc[p], proc[p].cwd, j))
        BY DEF PutMoves
      <3>2. fs'.mem[j].ref = fs.mem[j].ref + One(found = j) /\ fs.mem[j].ref \in Nat /\ j # 0
        BY <1>5, <2>b, <2>5, GotRefs, InumsInos
      <3> QED BY <1>4, <2>1, <3>2 DEF Holds, Form, One
    <2>6. \E M : Sound(fs', M)
      BY <1>5, <2>b DEF Got
    <2> QED BY <1>2, <1>4, <2>2, <2>3, <2>4, <2>5, <2>6, PutCase
  <1>9. CASE loc[p].ip # 0 /\ fs' = Panic(s, "ialloc: no inodes") /\ UNCHANGED pc
    <2>1. "ialloc: no inodes" \in Panics /\ "ialloc: no inodes" # ""
      BY DEF Panics
    <2>2. ~Up(fs')
      BY <1>6, <1>9, <2>1, PanicKeeps DEF Up
    <2> QED BY <1>4, <1>9, <2>2, PanicStep
  <1>10. CASE /\ loc[p].ip # 0 /\ ~NoInodes(s) /\ fs' = Allocated(s, arg[p].type)
              /\ SetCreate(p, loc[p].ip, Ialloc(s)) /\ Goto(p, <<"create3">>)
    <2>a. PICK i \in Inums : i = Ialloc(s)
      BY <1>5, <1>6, <1>10, AllocatedGets
    <2>b. Got(s, fs', i, N)
      BY <1>5, <1>6, <1>10, <2>a, AllocatedGets
    <2>c. Got(fs, fs', i, N)
      BY <1>6, <1>10, <2>b, KeptGot
    <2>d. PICK d \in Inos : d = loc[p].ip
      BY <1>6, <1>10, InumsInos
    <2>e. i \in Inos /\ i # 0
      BY InumsInos
    <2>f. PICK l : l \in Locs /\ l.ip = i /\ l.dp = d /\ l.old = loc[p].old /\ loc' = [loc EXCEPT ![p] = l]
      BY <1>10, <2>a, <2>d, <2>e, CreateLocs
    <2>1. Form(<<"create3", w, "ret">>, TRUE, TRUE, TRUE, FALSE, TRUE) /\ Leads(p, <<"create3">>, <<"create3", w, "ret">>) /\ <<"create3", w, "ret">> # <<>>
      BY <1>4, Forms, CallerForms, LeadsTwo DEF Labels, PutLabels
    <2>2. <<"create3", w, "ret">> \in PutBodies /\ <<"create3", w, "ret">> \in Bodies
      BY <2>1 DEF Form, PutBodies
    <2>3. To(p, <<"create3", w, "ret">>, l)
      BY <1>10, <2>1, <2>2, <2>f, BodyGoes
    <2>4. Relies(<<"create3", w, "ret">>, l.ip, l)
      BY <1>4, <2>f, <1>10, <2>d, <2>e, <2>1, InumsInos DEF Relies, Form
    <2>5. ASSUME Up(fs') PROVE BodyMoves(p, <<"create3", w, "ret">>, l)
      <3>1. SUFFICES ASSUME NEW j \in Inums
                     PROVE  fs'.mem[j].ref + Holds(pc[p], loc[p].ip, loc[p], proc[p].cwd, j)
                            = fs.mem[j].ref + Holds(<<"create3", w, "ret">>, l.ip, l, proc[p].cwd, j)
        BY DEF BodyMoves
      <3>2. fs'.mem[j].ref = fs.mem[j].ref + One(i = j) /\ fs.mem[j].ref \in Nat /\ j # 0
        BY <1>5, <2>c, <2>5, GotRefs, InumsInos
      <3> QED BY <1>4, <2>1, <3>2, <2>f, <1>10, <2>d, <2>e DEF Holds, Form, One
    <2>6. \E M : Sound(fs', M)
      BY <1>5, <2>c DEF Got
    <2> QED BY <1>2, <1>4, <2>1, <2>2, <2>3, <2>4, <2>5, <2>6, BodyCase
  <1> QED BY <1>2, <1>7, <1>8, <1>9, <1>10

\* create of a name that is there returns the inode or puts it.
LEMMA CreateOldStep ==
  ASSUME RInv, NEW p \in Procs, CreateOld(p)
  PROVE  Good'
  <1>1. /\ At(p, "create2") /\ UNCHANGED <<ftab, proc, todo>> /\ fs' = Load(fs, loc[p].ip)
        /\ (Goto(p, <<>>) /\ UNCHANGED loc) \/ PutIp(p, 0, <<>>)
    BY DEF CreateOld, world
  <1>2. PICK w \in Callers : From(p, <<"create2", w, "ret">>, TRUE, TRUE, FALSE, FALSE, TRUE)
    BY <1>1, Creating
  <1>3. /\ InCall(p) /\ pc[p] = <<"create2", w, "ret">> /\ Form(pc[p], TRUE, TRUE, FALSE, FALSE, TRUE)
        /\ loc[p].ip # 0 /\ w \in Labels
    BY <1>2, FromIn DEF Callers, Labels
  <1>4. PICK N : Sound(fs, N)
    BY FsNames
  <1>5. Kept(fs, fs', N)
    BY <1>1, <1>3, <1>4, IpIn, LoadKeeps
  <1>6. CASE Goto(p, <<>>) /\ UNCHANGED loc
    <2>1. Form(<<w, "ret">>, TRUE, FALSE, FALSE, FALSE, TRUE) /\ Leads(p, <<>>, <<w, "ret">>) /\ <<w, "ret">> # <<>>
      BY <1>3, Forms, CallerForms, LeadsTwo DEF Labels, PutLabels
    <2>2. <<w, "ret">> \in PutBodies /\ <<w, "ret">> \in Bodies
      BY <2>1 DEF Form, PutBodies
    <2>3. To(p, <<w, "ret">>, loc[p])
      BY <1>6, <2>1, <2>2, LocStays, BodyGoes
    <2>4. Relies(<<w, "ret">>, loc[p].ip, loc[p])
      BY <1>3, <2>1, InumsInos DEF Relies, Form
    <2>5. ASSUME Up(fs') PROVE BodyMoves(p, <<w, "ret">>, loc[p])
      <3>1. SUFFICES ASSUME NEW j \in Inums
                     PROVE  fs'.mem[j].ref + Holds(pc[p], loc[p].ip, loc[p], proc[p].cwd, j)
                            = fs.mem[j].ref + Holds(<<w, "ret">>, loc[p].ip, loc[p], proc[p].cwd, j)
        BY DEF BodyMoves
      <3>2. fs'.mem[j].ref = fs.mem[j].ref /\ fs.mem[j].ref \in Nat /\ j # 0
        BY <1>4, <1>5, <2>5, KeptRefs, InumsInos
      <3> QED BY <1>3, <2>1, <3>2 DEF Holds, Form, One
    <2>6. \E M : Sound(fs', M)
      BY <1>4, <1>5 DEF Kept
    <2> QED BY <1>1, <1>3, <2>1, <2>2, <2>3, <2>4, <2>5, <2>6, BodyCase
  <1>7. CASE PutIp(p, 0, <<>>)
    <2>1. Form(<<w, "ret">>, TRUE, FALSE, FALSE, FALSE, TRUE) /\ Leads(p, <<>>, <<w, "ret">>)
      BY <1>3, Forms, CallerForms, LeadsTwo DEF Labels, PutLabels
    <2>2. <<w, "ret">> \in PutBodies
      BY <2>1 DEF Form
    <2>3. ToPut(p, <<w, "ret">>, loc[p].ip, 0)
      BY <1>7, <2>1, <2>2, ZeroInos, PutIpGoes
    <2>4. Relies(<<w, "ret">>, 0, loc[p]) /\ loc[p].ip # 0
      BY <1>3, ZeroInos, <2>1, InumsInos DEF Relies, Form
    <2>5. ASSUME Up(fs') PROVE PutMoves(p, <<w, "ret">>, loc[p].ip, 0)
      <3>1. SUFFICES ASSUME NEW j \in Inums
                     PROVE  fs'.mem[j].ref + Holds(pc[p], loc[p].ip, loc[p], proc[p].cwd, j)
                            = fs.mem[j].ref + (One(loc[p].ip = j) + Holds(<<w, "ret">>, 0, loc[p], proc[p].cwd, j))
        BY DEF PutMoves
      <3>2. fs'.mem[j].ref = fs.mem[j].ref /\ fs.mem[j].ref \in Nat /\ j # 0
        BY <1>4, <1>5, <2>5, KeptRefs, InumsInos
      <3> QED BY <1>3, <2>1, <3>2 DEF Holds, Form, One
    <2>6. \E M : Sound(fs', M)
      BY <1>4, <1>5 DEF Kept
    <2> QED BY <1>1, <1>3, <2>2, <2>3, <2>4, <2>5, <2>6, PutCase
  <1> QED BY <1>1, <1>6, <1>7

\* The states of the file system while create fills a new inode and its directory.
WithLink(s, i)      == Iupdate([s EXCEPT !.mem[i].d.nlink = 1], i)
WithDots(s, i, d)   == Dirlink(Dirlink(AddLinks(s, d, 1), i, ".", i), i, "..", d)

\* The first link of a new inode changes no reference.
LEMMA WithLinkKeeps ==
  ASSUME NEW s, NEW N, Sound(s, N), NEW i \in Inums
  PROVE  Kept(s, WithLink(s, i), N)
  <1>1. s.mem[i].d \in Dinodes(N) /\ Whole(s.mem[i].d)
    BY DEF Sound, FsStates, Cached
  <1>2. PICK d : d = [s.mem[i].d EXCEPT !.nlink = 1]
    OBVIOUS
  <1>3. d \in Dinodes(N) /\ d.size = s.mem[i].d.size /\ d.addrs = s.mem[i].d.addrs
    BY <1>1, <1>2 DEF Dinodes
  <1>4. Whole(d)
    BY <1>1, <1>3 DEF Whole
  <1>5. PICK t : t = WithD(s, i, d)
    OBVIOUS
  <1>6. t = [s EXCEPT !.mem[i].d.nlink = 1]
    BY <1>2, <1>5 DEF WithD, Sound, FsStates, Cached
  <1>7. Kept(s, t, N) /\ Sound(t, N)
    BY <1>3, <1>4, <1>5, DinodeKeeps, KeptSound
  <1>8. Kept(t, Iupdate(t, i), N)
    BY <1>7, IupdateKeeps
  <1> QED BY <1>6, <1>7, <1>8, KeptKept DEF WithLink

\* The entries . and .. change no reference.
LEMMA WithDotsKeeps ==
  ASSUME NEW s, NEW N, Sound(s, N), Named(N), NEW i \in Inums, NEW d \in Inums
  PROVE  Kept(s, WithDots(s, i, d), N)
  <1>1. i \in 0..NINODES /\ d \in 0..NINODES
    BY InodeAssumption DEF Inums
  <1>2. "." \in N /\ ".." \in N
    BY DEF Named
  <1>3. PICK a, b, c : a = AddLinks(s, d, 1) /\ b = Dirlink(a, i, ".", i) /\ c = Dirlink(b, i, "..", d)
    OBVIOUS
  <1>4. Kept(s, a, N) /\ Sound(a, N)
    BY <1>3, AddLinksKeeps, KeptSound
  <1>5. Kept(a, b, N) /\ Sound(b, N)
    BY <1>1, <1>2, <1>3, <1>4, DirlinkKeeps DEF Kept
  <1>6. Kept(b, c, N)
    BY <1>1, <1>2, <1>3, <1>5, DirlinkKeeps
  <1>7. c = WithDots(s, i, d)
    BY <1>3 DEF WithDots
  <1> QED BY <1>4, <1>5, <1>6, <1>7, KeptKept

\* create of a new inode puts the directory and keeps the inode.
LEMMA CreateNewStep ==
  ASSUME RInv, NEW p \in Procs, CreateNew(p)
  PROVE  Good'
  <1>1. PICK s, t : s = Load(fs, loc[p].ip) /\ t = WithLink(s, loc[p].ip)
    OBVIOUS
  <1>2. /\ At(p, "create3") /\ UNCHANGED <<ftab, proc, todo>> /\ Put(p, loc[p].dp, <<>>)
        /\ \/ fs' = s
           \/ \E u \in {t, WithDots(t, loc[p].ip, loc[p].dp)} : fs' = Dirlink(u, loc[p].dp, arg[p].name, loc[p].ip)
    BY <1>1 DEF CreateNew, world, WithLink, WithDots
  <1>3. PICK w \in Callers : From(p, <<"create3", w, "ret">>, TRUE, TRUE, TRUE, FALSE, TRUE)
    BY <1>2, Creating
  <1>4. /\ InCall(p) /\ pc[p] = <<"create3", w, "ret">> /\ Form(pc[p], TRUE, TRUE, TRUE, FALSE, TRUE)
        /\ loc[p].ip # 0 /\ loc[p].dp # 0 /\ w \in Labels
    BY <1>3, FromIn DEF Callers, Labels
  <1>5. PICK N : Sound(fs, N) /\ Named(N) /\ {arg[p].name} \subseteq N
    BY FsNames
  <1>6. loc[p].ip \in Inums /\ loc[p].dp \in Inums
    BY <1>4, IpIn, DpIn
  <1>7. Kept(fs, s, N) /\ Sound(s, N)
    BY <1>1, <1>5, <1>6, LoadKeeps DEF Kept
  <1>8. Kept(fs, fs', N)
    <2>1. CASE fs' = s
      BY <1>7, <2>1
    <2>2. ASSUME NEW u \in {t, WithDots(t, loc[p].ip, loc[p].dp)}, fs' = Dirlink(u, loc[p].dp, arg[p].name, loc[p].ip)
          PROVE  Kept(fs, fs', N)
      <3>1. Kept(s, t, N) /\ Sound(t, N)
        BY <1>1, <1>6, <1>7, WithLinkKeeps DEF Kept
      <3>2. Kept(t, u, N) /\ Sound(u, N)
        BY <1>5, <1>6, <2>2, <3>1, WithDotsKeeps, KeptSelf DEF Kept
      <3>3. arg[p].name \in N /\ loc[p].ip \in 0..NINODES
        BY <1>5, <1>6, InumsInos DEF Inos
      <3>4. Kept(u, fs', N)
        BY <1>5, <1>6, <2>2, <3>2, <3>3, DirlinkKeeps
      <3> QED BY <1>7, <3>1, <3>2, <3>4, KeptKept
    <2> QED BY <1>2, <2>1, <2>2
  <1>9. Good'
    <2>1. Form(<<w, "ret">>, TRUE, FALSE, FALSE, FALSE, TRUE) /\ Leads(p, <<>>, <<w, "ret">>)
      BY <1>4, Forms, CallerForms, LeadsTwo DEF Labels, PutLabels
    <2>2. <<w, "ret">> \in PutBodies
      BY <2>1 DEF Form
    <2>3. ToPut(p, <<w, "ret">>, loc[p].dp, loc[p].ip)
      BY <1>2, <2>1, <2>2, <1>6, PutGoes
    <2>4. Relies(<<w, "ret">>, loc[p].ip, loc[p]) /\ loc[p].dp # 0
      BY <1>4, <1>6, <2>1, InumsInos DEF Relies, Form
    <2>5. ASSUME Up(fs') PROVE PutMoves(p, <<w, "ret">>, loc[p].dp, loc[p].ip)
      <3>1. SUFFICES ASSUME NEW j \in Inums
                     PROVE  fs'.mem[j].ref + Holds(pc[p], loc[p].ip, loc[p], proc[p].cwd, j)
                            = fs.mem[j].ref + (One(loc[p].dp = j) + Holds(<<w, "ret">>, loc[p].ip, loc[p], proc[p].cwd, j))
        BY DEF PutMoves
      <3>2. fs'.mem[j].ref = fs.mem[j].ref /\ fs.mem[j].ref \in Nat /\ j # 0
        BY <1>5, <1>8, <2>5, KeptRefs, InumsInos
      <3> QED BY <1>4, <2>1, <3>2 DEF Holds, Form, One
    <2>6. \E M : Sound(fs', M)
      BY <1>5, <1>8 DEF Kept
    <2> QED BY <1>2, <1>4, <2>2, <2>3, <2>4, <2>5, <2>6, PutCase
  <1> QED BY <1>9

\* sys_open's check of the inode keeps the invariant; a directory to be written is put.
LEMMA OpenLockStep ==
  ASSUME RInv, NEW p \in Procs, OpenLock(p)
  PROVE  Good'
  <1>1. /\ At(p, "openlock") /\ UNCHANGED <<ftab, proc, todo>>
        /\ \/ loc[p].ip = 0 /\ Fails(p) /\ fs' = fs
           \/ loc[p].ip # 0 /\ fs' = Load(fs, loc[p].ip) /\ Put(p, loc[p].ip, <<>>)
           \/ loc[p].ip # 0 /\ fs' = Load(fs, loc[p].ip) /\ Goto(p, <<"openfd">>) /\ UNCHANGED loc
    BY DEF OpenLock, world
  <1>2. From(p, <<"openlock", "ret">>, TRUE, FALSE, FALSE, FALSE, TRUE)
    BY <1>1, Froms
  <1>3. /\ InCall(p) /\ pc[p] = <<"openlock", "ret">> /\ Form(pc[p], TRUE, FALSE, FALSE, FALSE, TRUE)
    BY <1>2, FromIn
  <1>4. PICK N : Sound(fs, N)
    BY FsNames
  <1>5. ASSUME loc[p].ip # 0, fs' = Load(fs, loc[p].ip) PROVE Kept(fs, fs', N)
    BY <1>4, <1>5, IpIn, LoadKeeps
  <1>6. CASE loc[p].ip = 0 /\ Fails(p) /\ fs' = fs
    BY <1>1, <1>2, <1>6, FailCase DEF Labels
  <1>7. CASE loc[p].ip # 0 /\ fs' = Load(fs, loc[p].ip) /\ Put(p, loc[p].ip, <<>>)
    BY <1>1, <1>2, <1>4, <1>5, <1>7, PutOut DEF Labels
  <1>8. CASE loc[p].ip # 0 /\ fs' = Load(fs, loc[p].ip) /\ Goto(p, <<"openfd">>) /\ UNCHANGED loc
    <2>a. Kept(fs, fs', N)
      BY <1>5, <1>8
    <2>1. Form(<<"openfd", "ret">>, TRUE, FALSE, FALSE, FALSE, TRUE) /\ Leads(p, <<"openfd">>, <<"openfd", "ret">>) /\ <<"openfd", "ret">> # <<>>
      BY <1>3, Forms, LeadsRet DEF Labels, PutLabels
    <2>2. <<"openfd", "ret">> \in PutBodies /\ <<"openfd", "ret">> \in Bodies
      BY <2>1 DEF Form, PutBodies
    <2>3. To(p, <<"openfd", "ret">>, loc[p])
      BY <1>8, <2>1, <2>2, LocStays, BodyGoes
    <2>4. Relies(<<"openfd", "ret">>, loc[p].ip, loc[p])
      BY <1>3, <1>8, <2>1, InumsInos DEF Relies, Form
    <2>5. ASSUME Up(fs') PROVE BodyMoves(p, <<"openfd", "ret">>, loc[p])
      <3>1. SUFFICES ASSUME NEW j \in Inums
                     PROVE  fs'.mem[j].ref + Holds(pc[p], loc[p].ip, loc[p], proc[p].cwd, j)
                            = fs.mem[j].ref + Holds(<<"openfd", "ret">>, loc[p].ip, loc[p], proc[p].cwd, j)
        BY DEF BodyMoves
      <3>2. fs'.mem[j].ref = fs.mem[j].ref /\ fs.mem[j].ref \in Nat /\ j # 0
        BY <1>4, <2>a, <2>5, KeptRefs, InumsInos
      <3> QED BY <1>3, <2>1, <3>2, <1>8 DEF Holds, Form, One
    <2>6. \E M : Sound(fs', M)
      BY <1>4, <2>a DEF Kept
    <2> QED BY <1>1, <1>3, <2>1, <2>2, <2>3, <2>4, <2>5, <2>6, BodyCase
  <1> QED BY <1>1, <1>6, <1>7, <1>8

\* sys_mkdir and sys_mknod put the new inode.
LEMMA MadeStep ==
  ASSUME RInv, NEW p \in Procs, Made(p)
  PROVE  Good'
  <1>1. /\ At(p, "made") /\ UNCHANGED <<ftab, proc, todo>>
        /\ fs' = fs
        /\ \/ loc[p].ip = 0 /\ Fails(p)
           \/ loc[p].ip # 0 /\ Put(p, loc[p].ip, <<>>)
    BY DEF Made, world
  <1>2. From(p, <<"made", "ret">>, TRUE, FALSE, FALSE, FALSE, TRUE)
    BY <1>1, Froms
  <1>3. /\ InCall(p) /\ pc[p] = <<"made", "ret">> /\ Form(pc[p], TRUE, FALSE, FALSE, FALSE, TRUE)
    BY <1>2, FromIn
  <1>4. PICK N : Sound(fs, N)
    BY FsNames
  <1>5. Kept(fs, fs', N)
    BY <1>1, <1>4, KeptSelf
  <1>6. CASE loc[p].ip = 0 /\ Fails(p)
    BY <1>1, <1>2, <1>6, FailCase DEF Labels
  <1>7. CASE loc[p].ip # 0 /\ Put(p, loc[p].ip, <<>>)
    BY <1>1, <1>2, <1>4, <1>5, <1>7, PutOut DEF Labels
  <1> QED BY <1>1, <1>6, <1>7

\* sys_chdir puts what is no directory, and otherwise the old directory.
LEMMA ChdirCheckStep ==
  ASSUME RInv, NEW p \in Procs, ChdirCheck(p)
  PROVE  Good'
  <1>1. /\ At(p, "chdir1") /\ UNCHANGED <<ftab, proc, todo>>
        /\ \/ loc[p].ip = 0 /\ Fails(p) /\ fs' = fs
           \/ loc[p].ip # 0 /\ fs' = Load(fs, loc[p].ip) /\ Put(p, loc[p].ip, <<>>)
           \/ loc[p].ip # 0 /\ fs' = Load(fs, loc[p].ip) /\ Put(p, proc[p].cwd, <<"chdir2">>)
    BY DEF ChdirCheck, world
  <1>2. From(p, <<"chdir1", "ret">>, TRUE, FALSE, FALSE, FALSE, TRUE)
    BY <1>1, Froms
  <1>3. /\ InCall(p) /\ pc[p] = <<"chdir1", "ret">> /\ Form(pc[p], TRUE, FALSE, FALSE, FALSE, TRUE)
    BY <1>2, FromIn
  <1>4. PICK N : Sound(fs, N)
    BY FsNames
  <1>5. ASSUME loc[p].ip # 0, fs' = Load(fs, loc[p].ip) PROVE Kept(fs, fs', N)
    BY <1>4, <1>5, IpIn, LoadKeeps
  <1>6. CASE loc[p].ip = 0 /\ Fails(p) /\ fs' = fs
    BY <1>1, <1>2, <1>6, FailCase DEF Labels
  <1>7. CASE loc[p].ip # 0 /\ fs' = Load(fs, loc[p].ip) /\ Put(p, loc[p].ip, <<>>)
    BY <1>1, <1>2, <1>4, <1>5, <1>7, PutOut DEF Labels
  <1>8. CASE loc[p].ip # 0 /\ fs' = Load(fs, loc[p].ip) /\ Put(p, proc[p].cwd, <<"chdir2">>)
    <2>a. Kept(fs, fs', N)
      BY <1>5, <1>8
    <2>b. proc[p].cwd \in Inums
      BY <1>1, Here
    <2>1. Form(<<"chdir2", "ret">>, TRUE, TRUE, FALSE, FALSE, FALSE) /\ Leads(p, <<"chdir2">>, <<"chdir2", "ret">>)
      BY <1>3, Forms, LeadsRet DEF Labels, PutLabels
    <2>2. <<"chdir2", "ret">> \in PutBodies
      BY <2>1 DEF Form
    <2>3. ToPut(p, <<"chdir2", "ret">>, proc[p].cwd, loc[p].ip)
      BY <1>8, <2>1, <2>2, <1>8, <2>b, PutGoes
    <2>4. Relies(<<"chdir2", "ret">>, loc[p].ip, loc[p]) /\ proc[p].cwd # 0
      BY <1>3, <1>8, <2>b, <2>1, InumsInos DEF Relies, Form
    <2>5. ASSUME Up(fs') PROVE PutMoves(p, <<"chdir2", "ret">>, proc[p].cwd, loc[p].ip)
      <3>1. SUFFICES ASSUME NEW j \in Inums
                     PROVE  fs'.mem[j].ref + Holds(pc[p], loc[p].ip, loc[p], proc[p].cwd, j)
                            = fs.mem[j].ref + (One(proc[p].cwd = j) + Holds(<<"chdir2", "ret">>, loc[p].ip, loc[p], proc[p].cwd, j))
        BY DEF PutMoves
      <3>2. fs'.mem[j].ref = fs.mem[j].ref /\ fs.mem[j].ref \in Nat /\ j # 0
        BY <1>4, <2>a, <2>5, KeptRefs, InumsInos
      <3> QED BY <1>3, <2>1, <3>2, <1>8 DEF Holds, Form, One
    <2>6. \E M : Sound(fs', M)
      BY <1>4, <2>a DEF Kept
    <2> QED BY <1>1, <1>3, <2>2, <2>3, <2>4, <2>5, <2>6, PutCase
  <1> QED BY <1>1, <1>6, <1>7, <1>8

-----------------------------------------------------------------------------
(* The beginning and the end of a call *)

Begins(p, b) == pc' = [pc EXCEPT ![p] = b]

\* Process p is between two calls.
AtUser(p) == Up(fs) /\ proc[p].st = "run" /\ pc[p] = <<>>

\* A call begins between two calls.
LEMMA CallsFrom ==
  ASSUME NEW p, NEW call, Calls(p, call)
  PROVE  AtUser(p) /\ todo[p] # <<>>
  BY DEF Calls, AtUser

\* What is known of a process between two calls.
LEMMA UserHas ==
  ASSUME RInv, NEW p \in Procs, AtUser(p)
  PROVE  /\ Form(pc[p], FALSE, FALSE, FALSE, FALSE, TRUE) /\ Body(pc[p]) = pc[p] /\ ~InPut(pc[p]) /\ pc[p] \in PutBodies
         /\ Kernel(pc[p], loc[p]) /\ proc[p].st = "run" /\ proc[p].cwd \in Inums
         /\ pc \in [Procs -> Stacks] /\ loc \in [Procs -> Locs] /\ loc[p] \in Locs
  <1>1. Form(pc[p], FALSE, FALSE, FALSE, FALSE, TRUE)
    BY Forms DEF AtUser
  <1>2. pc[p] \in PutBodies /\ pc[p] \in Bodies
    BY <1>1 DEF Form, PutBodies
  <1>3. Body(pc[p]) = pc[p] /\ ~InPut(pc[p])
    BY <1>2, BodyStack
  <1>4. Kernel(pc[p], loc[p]) /\ proc[p].st = "run" /\ proc[p].cwd # 0
    BY DEF RInv, CallOK, AtUser
  <1>5. pc \in [Procs -> Stacks] /\ loc \in [Procs -> Locs] /\ proc[p].cwd \in Inos
    BY DEF RInv, TypeInv, ProcRec
  <1> QED BY <1>1, <1>2, <1>3, <1>4, <1>5, InosNot0

\* Entering a call keeps the invariant.
LEMMA EntersStep ==
  ASSUME RInv, NEW p \in Procs, AtUser(p), NEW b, b # <<>>, Form(b, FALSE, FALSE, FALSE, FALSE, TRUE), Begins(p, b),
         UNCHANGED <<proc, todo, loc>>, FtabSame, NEW N, Sound(fs, N), Kept(fs, fs', N)
  PROVE  Good'
  <1>0. Body(pc[p]) = pc[p] /\ ~InPut(pc[p])
    BY UserHas
  <1>1. b \in PutBodies /\ b \in Bodies /\ Calm(b)
    BY DEF Form, PutBodies
  <1>2. b \in Stacks /\ ~InPut(b) /\ Body(b) = b
    BY <1>1, BodyStack
  <1>3. Kernel(b, loc[p])
    BY <1>2 DEF Form, Kernel
  <1>4. Goes(p, b, loc[p])
    BY <1>2, <1>3, UserHas DEF Goes, Begins
  <1>5. Lab(Body(pc[p])) # "openset" /\ Lab(Body(b)) # "openset"
    BY <1>1, <1>2, UserHas, PutCalm DEF Calm
  <1>6. Writing(p)'
    BY <1>1, <1>2, UserHas DEF Writing, Begins, Calm
  <1>7. ASSUME Up(fs') PROVE Moves(p, b, loc[p])
    <2>1. SUFFICES ASSUME NEW j \in Inums
                   PROVE  fs'.mem[j].ref + Has(pc[p], loc[p], proc[p].cwd, j) = fs.mem[j].ref + Has(b, loc[p], proc[p].cwd, j)
      BY DEF Moves
    <2>2. fs'.mem[j].ref = fs.mem[j].ref
      BY <1>7, KeptRefs
    <2>3. Has(pc[p], loc[p], proc[p].cwd, j) = Holds(pc[p], loc[p].ip, loc[p], proc[p].cwd, j)
      BY <1>0, HasHolds
    <2>4. Has(b, loc[p], proc[p].cwd, j) = Holds(b, loc[p].ip, loc[p], proc[p].cwd, j)
      BY <1>2, HasHolds
    <2>5. Holds(b, loc[p].ip, loc[p], proc[p].cwd, j) = Holds(pc[p], loc[p].ip, loc[p], proc[p].cwd, j)
      BY UserHas DEF Holds, Form, One
    <2> QED BY <2>2, <2>3, <2>4, <2>5
  <1>8. Sound(fs', N)
    BY KeptSound
  <1>9. Clears(p, b)
    BY <1>2 DEF Clears, Form
  <1> QED BY <1>4, <1>5, <1>6, <1>7, <1>8, <1>9, TodoStays, OwnStep DEF AtUser

\* A call begins with the look-up of a path.
LEMMA LookStep ==
  ASSUME RInv, NEW p \in Procs, AtUser(p), NEW c \in Conts, c # <<"link2", "ret">>, NEW b, b = <<"namex">> \o c, Begins(p, b),
         UNCHANGED <<fs, ftab, proc, todo, loc>>
  PROVE  Good'
  <1>1. c \notin Linking
    BY DEF Conts, Linking
  <1>2. PICK old \in BOOLEAN : old = FALSE
    OBVIOUS
  <1>3. Form(b, FALSE, FALSE, FALSE, old, TRUE)
    BY <1>1, <1>2, Looking
  <1>4. Form(b, FALSE, FALSE, FALSE, FALSE, TRUE)
    BY <1>2, <1>3
  <1>5. b # <<>>
    <2>1. b \in Starts
      BY <1>1, <1>2, Looking
    <2> QED BY <2>1 DEF Starts
  <1>6. PICK N : Sound(fs, N)
    BY FsNames
  <1>7. Kept(fs, fs', N)
    BY <1>6, KeptSelf
  <1> QED BY <1>4, <1>5, <1>6, <1>7, FilesStay, EntersStep

\* Two pieces of code and what makes the call return.
LEMMA EntersTwo ==
  ASSUME NEW p, NEW a, NEW r, Enters(p, <<"namex", a>>, r)
  PROVE  Begins(p, <<"namex">> \o <<a, "ret">>)
  BY Cat2 DEF Enters, Begins

\* The stack of a call with two steps after its path.
LEMMA EntersThree ==
  ASSUME NEW p, NEW a, NEW b, NEW r, Enters(p, <<"namex", a, b>>, r)
  PROVE  Begins(p, <<"namex">> \o <<a, b, "ret">>)
  BY Cat3 DEF Enters, Begins

\* sys_link's entry keeps the invariant.
LEMMA SysLinkStep ==
  ASSUME RInv, NEW p \in Procs, SysLink(p)
  PROVE  Good'
  <1>1. AtUser(p) /\ Enters(p, <<"namex", "link1">>, [path |-> Text(p, Op(p).path)]) /\ UNCHANGED <<fs, ftab, proc, todo, loc>>
    BY CallsFrom DEF SysLink, world
  <1>2. <<"link1", "ret">> \in Conts /\ <<"link1", "ret">> # <<"link2", "ret">>
    BY DEF Conts
  <1> QED BY <1>1, <1>2, EntersTwo, LookStep

\* sys_unlink's entry keeps the invariant.
LEMMA SysUnlinkStep ==
  ASSUME RInv, NEW p \in Procs, SysUnlink(p)
  PROVE  Good'
  <1>1. /\ AtUser(p) /\ Enters(p, <<"namex", "unlink1">>, [path |-> Text(p, Op(p).path), par |-> TRUE])
        /\ UNCHANGED <<fs, ftab, proc, todo, loc>>
    BY CallsFrom DEF SysUnlink, world
  <1>2. <<"unlink1", "ret">> \in Conts /\ <<"unlink1", "ret">> # <<"link2", "ret">>
    BY DEF Conts
  <1> QED BY <1>1, <1>2, EntersTwo, LookStep

\* sys_open's entry keeps the invariant.
LEMMA SysOpenStep ==
  ASSUME RInv, NEW p \in Procs, SysOpen(p)
  PROVE  Good'
  <1>1. AtUser(p) /\ UNCHANGED <<fs, ftab, proc, todo, loc>>
    BY CallsFrom DEF SysOpen, world
  <1>2. CASE Enters(p, <<"namex", "create", "openfd">>, [path |-> Text(p, Op(p).path), par |-> TRUE])
    <2>1. <<"create", "openfd", "ret">> \in Conts /\ <<"create", "openfd", "ret">> # <<"link2", "ret">>
      BY DEF Conts
    <2> QED BY <1>1, <1>2, <2>1, EntersThree, LookStep
  <1>3. CASE Enters(p, <<"namex", "openlock">>, [path |-> Text(p, Op(p).path)])
    <2>1. <<"openlock", "ret">> \in Conts /\ <<"openlock", "ret">> # <<"link2", "ret">>
      BY DEF Conts
    <2> QED BY <1>1, <1>3, <2>1, EntersTwo, LookStep
  <1> QED BY <1>2, <1>3 DEF SysOpen

\* The entry of sys_mkdir and sys_mknod keeps the invariant.
LEMMA SysMakeStep ==
  ASSUME RInv, NEW p \in Procs, SysMake(p)
  PROVE  Good'
  <1>1. AtUser(p) /\ UNCHANGED <<fs, ftab, proc, todo, loc>>
    BY CallsFrom DEF SysMake, world
  <1>2. \E r : Enters(p, <<"namex", "create", "made">>, r)
    BY DEF SysMake
  <1>3. <<"create", "made", "ret">> \in Conts /\ <<"create", "made", "ret">> # <<"link2", "ret">>
    BY DEF Conts
  <1> QED BY <1>1, <1>2, <1>3, EntersThree, LookStep

\* sys_chdir's entry keeps the invariant.
LEMMA SysChdirStep ==
  ASSUME RInv, NEW p \in Procs, SysChdir(p)
  PROVE  Good'
  <1>1. AtUser(p) /\ UNCHANGED <<fs, ftab, proc, todo, loc>> /\ \E r : Enters(p, <<"namex", "chdir1">>, r)
    BY CallsFrom DEF SysChdir
  <1>2. <<"chdir1", "ret">> \in Conts /\ <<"chdir1", "ret">> # <<"link2", "ret">>
    BY DEF Conts
  <1> QED BY <1>1, <1>2, EntersTwo, LookStep

\* A call that returns at once.
LEMMA AnswersStep ==
  ASSUME RInv, NEW p \in Procs, AtUser(p), NEW r, Answers(p, r), UNCHANGED <<proc, todo>>, FtabSame,
         NEW N, Sound(fs, N), Kept(fs, fs', N)
  PROVE  Good'
  <1>1. <<>> \o <<"ret">> = <<"ret">> /\ <<"ret">> # <<>>
    OBVIOUS
  <1>2. Begins(p, <<"ret">>) /\ UNCHANGED loc
    BY <1>1 DEF Answers, Enters, Begins
  <1> QED BY <1>1, <1>2, Forms, EntersStep

\* The inode of an open file of a process between two calls.
LEMMA OpenIp ==
  ASSUME RInv, NEW p \in Procs, AtUser(p), NEW fd \in Fds, proc[p].ofile[fd] # 0
  PROVE  proc[p].ofile[fd] \in 1..NFILE /\ ftab[proc[p].ofile[fd]].ip \in Inums /\ ftab[proc[p].ofile[fd]].off \in Nat
  <1>1. proc[p].ofile[fd] \in 1..NFILE
    BY FdFile
  <1>2. Lab(Body(pc[p])) # "openset"
    BY UserHas, PutCalm DEF Calm
  <1>3. ftab[proc[p].ofile[fd]].ip # 0
    BY <1>2 DEF RInv, DescOK
  <1>4. ftab[proc[p].ofile[fd]].ip \in Inos /\ ftab[proc[p].ofile[fd]].off \in Nat
    BY <1>1 DEF RInv, TypeInv, FileRec
  <1> QED BY <1>1, <1>3, <1>4, InosNot0

\* sys_fstat keeps the invariant.
LEMMA SysFstatStep ==
  ASSUME RInv, NEW p \in Procs, SysFstat(p)
  PROVE  Good'
  <1>1. /\ AtUser(p) /\ UNCHANGED <<ftab, proc, todo>> /\ \E r : Answers(p, r)
        /\ \/ fs' = fs
           \/ ~BadFd(p) /\ fs' = Load(fs, ftab[File(p)].ip)
    BY CallsFrom DEF SysFstat, world
  <1>2. PICK N : Sound(fs, N)
    BY FsNames
  <1>3. ASSUME ~BadFd(p) PROVE ftab[File(p)].ip \in Inums
    BY <1>1, <1>3, OpenIp DEF BadFd, File
  <1>4. Kept(fs, fs', N)
    BY <1>1, <1>2, <1>3, LoadKeeps, KeptSelf
  <1> QED BY <1>1, <1>2, <1>4, FilesStay, AnswersStep

\* The offset of a file moves on.
Forward(f, n) == ftab' = [ftab EXCEPT ![f].off = @ + n]

\* Moving an offset changes no count.
LEMMA ForwardSame ==
  ASSUME RInv, NEW f \in 1..NFILE, NEW n \in Nat, Forward(f, n)
  PROVE  FtabSame
  <1>1. PICK A : ftab \in [1..NFILE -> FileRec(A)]
    BY DEF RInv, TypeInv
  <1>2. PICK r : r = [ftab[f] EXCEPT !.off = @ + n]
    OBVIOUS
  <1>3. ftab[f] \in FileRec(A)
    BY <1>1
  <1>4. r \in FileRec(A) /\ r.ref = ftab[f].ref /\ r.ip = ftab[f].ip /\ r.type = ftab[f].type /\ r.wr = ftab[f].wr
    BY <1>2, <1>3 DEF FileRec
  <1>5. ftab' = [ftab EXCEPT ![f] = r]
    BY <1>1, <1>2 DEF Forward
  <1> QED BY <1>1, <1>4, <1>5 DEF FtabSame, FileSame

\* sys_read moves an offset and keeps the invariant.
LEMMA SysReadStep ==
  ASSUME RInv, NEW p \in Procs, SysRead(p)
  PROVE  Good'
  <1>1. PICK f, s : f = File(p) /\ s = Load(fs, ftab[f].ip)
    OBVIOUS
  <1>2. PICK n : n = Len(Readi(s, ftab[f].ip, ftab[f].off, Op(p).n))
    OBVIOUS
  <1>3. /\ AtUser(p) /\ UNCHANGED <<proc, todo>> /\ \E r : Answers(p, r)
        /\ \/ UNCHANGED <<fs, ftab>>
           \/ /\ ~BadFd(p) /\ ~BadSize(p) /\ fs' = s
              /\ UNCHANGED ftab \/ \E k \in {n} \cup 0..Op(p).n : Forward(f, k)
    BY <1>1, <1>2, CallsFrom DEF SysRead, Forward
  <1>4. PICK N : Sound(fs, N)
    BY FsNames
  <1>5. CASE UNCHANGED <<fs, ftab>>
    BY <1>3, <1>4, <1>5, KeptSelf, FilesStay, AnswersStep
  <1>6. CASE /\ ~BadFd(p) /\ ~BadSize(p) /\ fs' = s
             /\ UNCHANGED ftab \/ \E k \in {n} \cup 0..Op(p).n : Forward(f, k)
    <2>1. f \in 1..NFILE /\ ftab[f].ip \in Inums /\ ftab[f].off \in Nat
      BY <1>1, <1>3, <1>6, OpenIp DEF BadFd, File
    <2>2. Kept(fs, fs', N)
      BY <1>1, <1>4, <1>6, <2>1, LoadKeeps
    <2>3. Sound(s, N) /\ Op(p).n \in Nat
      BY <1>6, <2>2, KeptSound DEF BadSize
    <2>4. n \in Nat
      BY <1>2, <2>1, <2>3, ReadiOK
    <2>5. \A k \in {n} \cup 0..Op(p).n : k \in Nat
      BY <2>3, <2>4
    <2>6. FtabSame
      BY <1>6, <2>1, <2>5, ForwardSame, FilesStay
    <2> QED BY <1>3, <1>4, <2>2, <2>6, AnswersStep
  <1> QED BY <1>3, <1>5, <1>6

\* The return from a call keeps the invariant: nothing is held for it any more.
LEMMA ReturnStep ==
  ASSUME RInv, NEW p \in Procs, Return(p)
  PROVE  Good'
  <1>1. /\ At(p, "ret") /\ UNCHANGED <<fs, ftab, proc>> /\ todo' = [todo EXCEPT ![p] = Tail(@)]
        /\ pc' = [pc EXCEPT ![p] = <<>>] /\ loc' = [loc EXCEPT ![p] = NoLocs]
    BY DEF Return
  <1>2. /\ pc[p] = <<"ret">> /\ Up(fs) /\ proc[p].st = "run" /\ Body(pc[p]) = pc[p] /\ ~InPut(pc[p])
        /\ pc \in [Procs -> Stacks]
    BY <1>1, Here, HereBody, BodyAt DEF PutLabels
  <1>3. Form(pc[p], FALSE, FALSE, FALSE, FALSE, TRUE) /\ Form(<<>>, FALSE, FALSE, FALSE, FALSE, TRUE)
    BY <1>2, Forms
  <1>4. PICK s : s = <<>>
    OBVIOUS
  <1>5. s \in PutBodies /\ s \in Bodies /\ pc[p] \in PutBodies /\ Form(s, FALSE, FALSE, FALSE, FALSE, TRUE)
    BY <1>3, <1>4 DEF Form, PutBodies
  <1>6. s \in Stacks /\ ~InPut(s) /\ Body(s) = s
    BY <1>5, BodyStack
  <1>7. NoLocs \in Locs
    BY ZeroInos, FileSysAssumption DEF NoLocs, Locs
  <1>8. Kernel(s, NoLocs)
    BY <1>5, <1>6 DEF Kernel, Form
  <1>9. Goes(p, s, NoLocs)
    BY <1>1, <1>4, <1>6, <1>7, <1>8 DEF Goes
  <1>10. Lab(Body(pc[p])) # "openset" /\ Lab(Body(s)) # "openset" /\ Lab(Body(s)) # "write"
    BY <1>2, <1>5, <1>6, PutCalm DEF Calm
  <1>11. Writing(p)'
    BY <1>1, <1>2, <1>4, <1>10 DEF Writing
  <1>12. TodoStep(p)
    <2>1. PICK T : todo \in [Procs -> T]
      BY DEF RInv, TypeInv
    <2>2. PICK U : U = T \cup {Tail(todo[p])}
      OBVIOUS
    <2>3. todo' \in [Procs -> U]
      BY <1>1, <2>1, <2>2
    <2> QED BY <1>1, <2>1, <2>3 DEF TodoStep
  <1>13. Moves(p, s, NoLocs)
    <2>1. SUFFICES ASSUME NEW j \in Inums
                   PROVE  fs'.mem[j].ref + Has(pc[p], loc[p], proc[p].cwd, j) = fs.mem[j].ref + Has(s, NoLocs, proc[p].cwd, j)
      BY DEF Moves
    <2>2. Has(pc[p], loc[p], proc[p].cwd, j) = Holds(pc[p], loc[p].ip, loc[p], proc[p].cwd, j)
      BY <1>2, HasHolds
    <2>3. Has(s, NoLocs, proc[p].cwd, j) = Holds(s, NoLocs.ip, NoLocs, proc[p].cwd, j)
      BY <1>6, HasHolds
    <2>4. Holds(s, NoLocs.ip, NoLocs, proc[p].cwd, j) = Holds(pc[p], loc[p].ip, loc[p], proc[p].cwd, j)
      BY <1>3, <1>5 DEF Holds, Form, One
    <2> QED BY <1>1, <2>2, <2>3, <2>4
  <1>14. Up(fs') /\ \E N : Sound(fs', N)
    BY <1>1, <1>2 DEF RInv, TypeInv
  <1>15. Clears(p, s)
    BY <1>5, <1>6 DEF Clears, Form
  <1> QED BY <1>1, <1>2, <1>9, <1>10, <1>11, <1>12, <1>13, <1>14, <1>15, FilesStay, OwnStep

-----------------------------------------------------------------------------
(* write *)

SetDone(p, n) == loc' = [loc EXCEPT ![p].done = n]

\* The locals after a chunk has been written.
LEMMA DoneLocs ==
  ASSUME RInv, NEW p \in Procs, NEW n \in Nat, SetDone(p, n)
  PROVE  \E l : l \in Locs /\ l.done = n /\ loc' = [loc EXCEPT ![p] = l]
  <1>1. PICK l : l = [loc[p] EXCEPT !.done = n]
    OBVIOUS
  <1>2. loc \in [Procs -> Locs]
    BY DEF RInv, TypeInv
  <1>3. l \in Locs /\ l.done = n
    BY <1>1, <1>2 DEF Locs
  <1>4. loc' = [loc EXCEPT ![p] = l]
    BY <1>1, <1>2 DEF SetDone
  <1> QED BY <1>3, <1>4

\* A process that writes holds its directory only, as between two calls.
OnlyCwd(s) ==
  /\ s \in Bodies /\ Lab(s) # "openset" /\ Lab(s) \notin IpLabels /\ Lab(s) \notin IpSure /\ Lab(s) \notin DpLabels
  /\ s \notin Linking /\ Lab(s) \notin LeftLabels

\* A process that writes or returns holds its directory only.
LEMMA CwdForms ==
  OnlyCwd(<<"write", "ret">>) /\ OnlyCwd(<<"ret">>) /\ OnlyCwd(<<>>) /\ Lab(<<"write", "ret">>) = "write"
  BY DEF OnlyCwd, Lab, Bodies, Conts, Starts, Walks, Halves, Ends, IpLabels, IpSure, DpLabels, Linking, LeftLabels

HasCwd(s, l) == Body(s) = s /\ Kernel(s, l) /\ \A c, j : Has(s, l, c, j) = One(c = j)

\* What such a process holds.
LEMMA OnlyCwdHas ==
  ASSUME NEW s, OnlyCwd(s), NEW l
  PROVE  /\ s \in Stacks /\ ~InPut(s) /\ Body(s) = s /\ Kernel(s, l)
         /\ HasCwd(s, l)
  <1>1. s \in Stacks /\ ~InPut(s) /\ Body(s) = s
    BY BodyStack DEF OnlyCwd
  <1>2. Kernel(s, l)
    BY <1>1 DEF Kernel, OnlyCwd
  <1>3. ASSUME NEW c, NEW j PROVE Has(s, l, c, j) = One(c = j)
    BY <1>1 DEF Has, HoldsX, HoldsIp, HoldsDp, HoldsOld, HoldsCwd, OnlyCwd, One
  <1> QED BY <1>1, <1>2, <1>3 DEF HasCwd

\* A step between two such places keeps the invariant.
LEMMA CwdStep ==
  ASSUME RInv, NEW p \in Procs, proc[p].st = "run", OnlyCwd(pc[p]), NEW b, OnlyCwd(b), b # <<>>, Begins(p, b),
         NEW l \in Locs, loc' = [loc EXCEPT ![p] = l], UNCHANGED <<proc, todo>>, FtabSame, Writing(p)',
         NEW N, Sound(fs, N), Kept(fs, fs', N)
  PROVE  Good'
  <1>1. b \in Stacks /\ HasCwd(b, l) /\ HasCwd(pc[p], loc[p])
    BY OnlyCwdHas
  <1>2. Body(b) = b /\ Kernel(b, l) /\ Body(pc[p]) = pc[p]
    BY <1>1 DEF HasCwd
  <1>3. Goes(p, b, l)
    BY <1>1, <1>2 DEF Goes, Begins
  <1>4. Lab(Body(pc[p])) # "openset" /\ Lab(Body(b)) # "openset"
    BY <1>2 DEF OnlyCwd
  <1>5. ASSUME Up(fs') PROVE Moves(p, b, l)
    BY <1>1, <1>5, KeptRefs DEF Moves, HasCwd
  <1>6. Sound(fs', N)
    BY KeptSound
  <1>7. Clears(p, b)
    BY <1>2 DEF Clears, OnlyCwd, LeftLabels
  <1> QED BY <1>3, <1>4, <1>5, <1>6, <1>7, TodoStays, OwnStep

\* sys_write's entry keeps the invariant.
LEMMA SysWriteStep ==
  ASSUME RInv, NEW p \in Procs, SysWrite(p)
  PROVE  Good'
  <1>1. /\ AtUser(p) /\ UNCHANGED <<fs, ftab, proc, todo>>
        /\ \/ \E r : Answers(p, r)
           \/ ~BadFd(p) /\ ~BadSize(p) /\ SetDone(p, 0) /\ \E r : Enters(p, <<"write">>, r)
    BY CallsFrom DEF SysWrite, world, SetDone
  <1>2. PICK N : Sound(fs, N)
    BY FsNames
  <1>3. Kept(fs, fs', N) /\ FtabSame
    BY <1>1, <1>2, KeptSelf, FilesStay
  <1>4. ASSUME NEW r, Answers(p, r) PROVE Good'
    BY <1>1, <1>2, <1>3, <1>4, AnswersStep
  <1>5. CASE ~BadFd(p) /\ ~BadSize(p) /\ SetDone(p, 0) /\ \E r : Enters(p, <<"write">>, r)
    <2>1. PICK l : l \in Locs /\ l.done = 0 /\ loc' = [loc EXCEPT ![p] = l]
      BY <1>5, DoneLocs
    <2>2. Begins(p, <<"write", "ret">>)
      BY <1>5, Cat1 DEF Enters, Begins
    <2>3. OnlyCwd(pc[p]) /\ OnlyCwd(<<"write", "ret">>) /\ <<"write", "ret">> # <<>> /\ proc[p].st = "run"
      BY <1>1, CwdForms DEF AtUser
    <2>4. Op(p).n \in Nat /\ Op(p).fd \in Fds /\ File(p) # 0
      BY <1>5 DEF BadFd, BadSize
    <2>5. loc'[p].done = 0
      BY <2>1 DEF RInv, TypeInv
    <2>6. Writing(p)'
      BY <1>1, <2>4, <2>5 DEF Writing, Op, File
    <2> QED BY <1>1, <1>2, <1>3, <2>1, <2>2, <2>3, <2>6, CwdStep
  <1> QED BY <1>1, <1>4, <1>5

\* The chunk that one turn of the loop writes.
ChunkLen(p) == IF loc[p].done + MAXWRITE < Op(p).n THEN MAXWRITE ELSE Op(p).n - loc[p].done
Chunk(p)    == [k \in 1..ChunkLen(p) |-> Byte(Op(p).data[loc[p].done + k])]

\* What is known of a process that writes: its file is open and has an inode.
LEMMA ChunkOK ==
  ASSUME RInv, NEW p \in Procs, At(p, "write")
  PROVE  /\ pc[p] = <<"write", "ret">> /\ proc[p].st = "run" /\ Op(p).n \in Nat /\ ChunkLen(p) \in Nat
         /\ loc[p].done + ChunkLen(p) \in 0..Op(p).n /\ Op(p).fd \in Fds /\ File(p) # 0
         /\ File(p) \in 1..NFILE /\ ftab[File(p)].ip \in Inums /\ ftab[File(p)].off \in Nat
  <1>1. pc[p] = <<"write", "ret">> /\ proc[p].st = "run" /\ Body(pc[p]) = pc[p] /\ loc[p].done \in Nat
    BY Here, HereBody, BodyAt DEF PutLabels, Locs
  <1>2. Lab(Body(pc[p])) = "write"
    BY <1>1, CwdForms
  <1>3. Op(p).n \in Nat /\ loc[p].done \in 0..Op(p).n /\ Op(p).fd \in Fds /\ File(p) # 0
    BY <1>2 DEF RInv, Writing
  <1>4. ChunkLen(p) \in Nat /\ loc[p].done + ChunkLen(p) \in 0..Op(p).n
    BY <1>1, <1>3, FileSysAssumption DEF ChunkLen
  <1>5. File(p) \in 1..NFILE
    BY <1>3, FdFile DEF File
  <1>6. ftab[File(p)].ip # 0
    BY <1>2, <1>3 DEF RInv, DescOK, File
  <1>7. ftab[File(p)].ip \in Inos /\ ftab[File(p)].off \in Nat
    BY <1>5 DEF RInv, TypeInv, FileRec
  <1> QED BY <1>1, <1>3, <1>4, <1>5, <1>6, <1>7, InosNot0

\* Writing a chunk changes no reference.
LEMMA ChunkKeeps ==
  ASSUME RInv, NEW p \in Procs, At(p, "write"), NEW N, Sound(fs, N), Named(N), NEW s, s = Load(fs, ftab[File(p)].ip),
         {Op(p).data[loc[p].done + k] : k \in 1..ChunkLen(p)} \subseteq N,
         WriteFits(s, ftab[File(p)].ip, ftab[File(p)].off, ChunkLen(p))
  PROVE  Kept(fs, Writei(s, ftab[File(p)].ip, ftab[File(p)].off, Chunk(p)), N)
  <1>1. ftab[File(p)].ip \in Inums /\ ftab[File(p)].off \in Nat /\ ChunkLen(p) \in Nat
    BY ChunkOK
  <1>2. Kept(fs, s, N) /\ Sound(s, N)
    BY <1>1, LoadKeeps, KeptSound
  <1>3. PICK c : c = Chunk(p)
    OBVIOUS
  <1>4. Len(c) = ChunkLen(p)
    BY <1>1, <1>3 DEF Chunk
  <1>5. ASSUME NEW k \in 1..Len(c) PROVE c[k] \in Units(N)
    <2>1. c[k] = Byte(Op(p).data[loc[p].done + k]) /\ Op(p).data[loc[p].done + k] \in N
      BY <1>3, <1>4 DEF Chunk
    <2>2. 0 \in 0..NINODES
      BY InodeAssumption
    <2> QED BY <2>1, <2>2 DEF Byte, Unit, Units
  <1>6. ftab[File(p)].off <= s.mem[ftab[File(p)].ip].d.size
    BY DEF WriteFits
  <1>7. Kept(s, Writei(s, ftab[File(p)].ip, ftab[File(p)].off, c), N)
    BY <1>1, <1>2, <1>4, <1>5, <1>6, WriteiKeeps
  <1> QED BY <1>2, <1>3, <1>7, KeptKept

\* One turn of filewrite's loop keeps the invariant.
LEMMA WriteChunkStep ==
  ASSUME RInv, NEW p \in Procs, WriteChunk(p)
  PROVE  Good'
  <1>1. PICK s : s = Load(fs, ftab[File(p)].ip)
    OBVIOUS
  <1>2. /\ At(p, "write") /\ UNCHANGED <<proc, todo>>
        /\ \/ UNCHANGED <<fs, ftab, loc>> /\ Goto(p, <<>>)
           \/ fs' = s /\ UNCHANGED <<ftab, loc>> /\ Goto(p, <<>>)
           \/ /\ WriteFits(s, ftab[File(p)].ip, ftab[File(p)].off, ChunkLen(p))
              /\ fs' = Writei(s, ftab[File(p)].ip, ftab[File(p)].off, Chunk(p))
              /\ Forward(File(p), ChunkLen(p)) /\ SetDone(p, loc[p].done + ChunkLen(p)) /\ UNCHANGED pc
           \/ /\ fs' = s
              /\ Forward(File(p), ChunkLen(p)) /\ SetDone(p, loc[p].done + ChunkLen(p)) /\ UNCHANGED pc
    BY <1>1 DEF WriteChunk, Fails, Chunk, ChunkLen, Forward, SetDone
  <1>3. /\ pc[p] = <<"write", "ret">> /\ proc[p].st = "run" /\ Op(p).n \in Nat /\ ChunkLen(p) \in Nat
        /\ loc[p].done + ChunkLen(p) \in 0..Op(p).n /\ Op(p).fd \in Fds /\ File(p) # 0
        /\ File(p) \in 1..NFILE /\ ftab[File(p)].ip \in Inums
    BY <1>2, ChunkOK
  <1>4. PICK N : Sound(fs, N) /\ Named(N) /\ {Op(p).data[loc[p].done + k] : k \in 1..ChunkLen(p)} \subseteq N
    BY FsNames
  <1>5. OnlyCwd(pc[p]) /\ OnlyCwd(<<"ret">>) /\ <<"ret">> # <<>> /\ pc[p] # <<>>
    BY <1>3, CwdForms
  <1>6. pc \in [Procs -> Stacks] /\ loc \in [Procs -> Locs] /\ loc[p] \in Locs
    BY <1>2, Here
  <1>7. CASE (fs' = fs \/ fs' = s) /\ UNCHANGED <<ftab, loc>> /\ Goto(p, <<>>)
    <2>1. Kept(fs, fs', N)
      BY <1>1, <1>3, <1>4, <1>7, LoadKeeps, KeptSelf
    <2>2. Leads(p, <<>>, <<"ret">>)
      BY <1>3, LeadsRet DEF Labels
    <2>3. Begins(p, <<"ret">>)
      BY <1>7, <2>2 DEF Goto, Leads, Begins
    <2>4. <<"ret">> \in PutBodies
      BY Forms DEF Form
    <2>5. Lab(Body(pc'[p])) # "write"
      <3>1. pc'[p] = <<"ret">> /\ Body(<<"ret">>) = <<"ret">>
        BY <1>5, <1>6, <2>3, OnlyCwdHas DEF Begins
      <3> QED BY <3>1, <2>4, PutCalm DEF Calm
    <2>6. Writing(p)'
      BY <2>5 DEF Writing
    <2>7. loc' = [loc EXCEPT ![p] = loc[p]]
      BY <1>6, <1>7
    <2> QED BY <1>2, <1>3, <1>4, <1>5, <1>6, <1>7, <2>1, <2>3, <2>6, <2>7, FilesStay, CwdStep
  <1>8. CASE /\ \/ fs' = s
                \/ /\ WriteFits(s, ftab[File(p)].ip, ftab[File(p)].off, ChunkLen(p))
                   /\ fs' = Writei(s, ftab[File(p)].ip, ftab[File(p)].off, Chunk(p))
             /\ Forward(File(p), ChunkLen(p)) /\ SetDone(p, loc[p].done + ChunkLen(p)) /\ UNCHANGED pc
    <2>1. Kept(fs, fs', N)
      BY <1>1, <1>2, <1>3, <1>4, <1>8, ChunkKeeps, LoadKeeps
    <2>2. FtabSame
      BY <1>3, <1>8, ForwardSame
    <2>3. loc[p].done + ChunkLen(p) \in Nat
      BY <1>3
    <2>4. PICK l : l \in Locs /\ l.done = loc[p].done + ChunkLen(p) /\ loc' = [loc EXCEPT ![p] = l]
      BY <1>8, <2>3, DoneLocs
    <2>5. loc'[p].done = loc[p].done + ChunkLen(p)
      BY <1>6, <2>4
    <2>6. Writing(p)'
      BY <1>2, <1>3, <2>5 DEF Writing, Op, File
    <2>7. Begins(p, pc[p])
      BY <1>6, <1>8 DEF Begins
    <2> QED BY <1>2, <1>3, <1>4, <1>5, <2>1, <2>2, <2>4, <2>6, <2>7, CwdStep
  <1> QED BY <1>2, <1>7, <1>8

-----------------------------------------------------------------------------
(* Steps that change files or processes *)

Same(q) == pc'[q] = pc[q] /\ loc'[q] = loc[q] /\ proc'[q] = proc[q] /\ todo'[q] = todo[q]

\* What process q relies on about files is as it was.
FilesServe(q) ==
  /\ \A fd \in Fds : proc[q].ofile[fd] # 0 /\ ftab[proc[q].ofile[fd]].ip # 0 => ftab'[proc[q].ofile[fd]].ip # 0
  /\ Lab(Body(pc[q])) = "openset" => Desc(loc[q].f)' = Desc(loc[q].f) /\ ftab'[loc[q].f].ip = ftab[loc[q].f].ip

ProcOK(q) == CallOK(q) /\ Writing(q) /\ Opening(q) /\ DescOK(q)

\* A process that does not step relies on what it relied on.
LEMMA OtherOK ==
  ASSUME RInv, NEW q \in Procs, Same(q), FilesServe(q)
  PROVE  ProcOK(q)'
  <1>1. CallOK(q) /\ Writing(q) /\ Opening(q) /\ DescOK(q)
    BY DEF RInv
  <1>2. CallOK(q)'
    BY <1>1 DEF CallOK, Same
  <1>3. Writing(q)'
    BY <1>1 DEF Writing, Op, File, Same
  <1>4. Opening(q)'
    BY <1>1 DEF Opening, Same, FilesServe
  <1>5. DescOK(q)'
    BY <1>1 DEF DescOK, Same, FilesServe
  <1> QED BY <1>2, <1>3, <1>4, <1>5 DEF ProcOK

\* The references to inode j, when p holds something else and a file changes.
LEMMA RefMoves ==
  ASSUME RInv, NEW p \in Procs, NEW j \in Inums, \A q \in Procs \ {p} : SameHolds(q, j), NEW a \in Nat, NEW b \in Nat,
         Cardinality(FilesOf(j)') + a = Cardinality(FilesOf(j)) + b, fs'.mem[j].ref \in Nat,
         fs'.mem[j].ref + (Has(pc[p], loc[p], proc[p].cwd, j) + a) = fs.mem[j].ref + (Has(pc'[p], loc'[p], proc'[p].cwd, j) + b)
  PROVE  fs'.mem[j].ref = Held(j)' + Cardinality(FilesOf(j)')
  <1>1. /\ Held(j) \in Nat /\ Held(j)' \in Nat
        /\ Held(j)' + Has(pc[p], loc[p], proc[p].cwd, j) = Held(j) + Has(pc'[p], loc'[p], proc'[p].cwd, j)
    BY HeldStep
  <1>2. fs.mem[j].ref = Held(j) + Cardinality(FilesOf(j))
    BY DEF RInv, RefsCounted
  <1>3. Has(pc[p], loc[p], proc[p].cwd, j) \in Nat /\ Has(pc'[p], loc'[p], proc'[p].cwd, j) \in Nat
    BY HasNat
  <1>4. Cardinality(FilesOf(j)) \in Nat /\ Cardinality(FilesOf(j)') \in Nat
    <2>1. Cardinality(FilesOf(j)) \in Nat
      BY FilesNat
    <2>2. IsFiniteSet(1..NFILE) /\ FilesOf(j)' \in SUBSET (1..NFILE)
      BY FilesNat DEF FilesOf
    <2> QED BY <2>1, <2>2, FS_Subset, FS_CardinalityType
  <1> QED BY <1>1, <1>2, <1>3, <1>4

RInvParts ==
  /\ RefsCounted
  /\ \A f \in 1..NFILE : FileOK(f)
  /\ \A q \in Procs : ProcOK(q)

\* The parts of the invariant.
LEMMA Together ==
  ASSUME Up(fs'), TypeInv', RInvParts'
  PROVE  Good'
  <1>1. RInv'
    BY DEF RInv, RInvParts, ProcOK
  <1> QED BY <1>1 DEF Good, Up

\* Process p gets another directory or another state, and its files stay.
LEMMA SeatStep ==
  ASSUME RInv, Up(fs), NEW p \in Procs, \A q \in Procs \ {p} : Same(q), UNCHANGED <<ftab, fs>>,
         \A fd \in Fds : proc'[p].ofile[fd] = proc[p].ofile[fd], TypeInv', ProcOK(p)',
         \A j \in Inums : Has(pc'[p], loc'[p], proc'[p].cwd, j) = Has(pc[p], loc[p], proc[p].cwd, j)
  PROVE  Good'
  <1>1. \A f : Desc(f)' = Desc(f)
    BY DEF Desc, Same
  <1>2. RefsCounted'
    <2>1. SUFFICES ASSUME NEW j \in Inums PROVE (fs'.mem[j].ref = Held(j)' + Cardinality(FilesOf(j)'))
      BY DEF RefsCounted
    <2>2. \A q \in Procs \ {p} : SameHolds(q, j)
      BY SameHeld DEF Same
    <2>3. FilesOf(j)' = FilesOf(j) /\ fs' = fs
      BY DEF FilesOf
    <2>4. fs.mem[j].ref \in Nat
      BY RefNat DEF RInv, TypeInv
    <2>5. Has(pc'[p], loc'[p], proc'[p].cwd, j) = Has(pc[p], loc[p], proc[p].cwd, j)
      OBVIOUS
    <2>6. 0 \in Nat
      OBVIOUS
    <2> QED BY <2>2, <2>3, <2>4, <2>5, <2>6, RefMoves
  <1>3. ASSUME NEW f \in 1..NFILE PROVE FileOK(f)'
    BY <1>1 DEF RInv, FileOK
  <1>4. ASSUME NEW q \in Procs \ {p} PROVE ProcOK(q)'
    <2>1. FilesServe(q)
      BY <1>1 DEF FilesServe, Same
    <2> QED BY <2>1, OtherOK
  <1> QED BY <1>2, <1>3, <1>4, Together DEF RInvParts

SetCwd(p, i) == proc' = [proc EXCEPT ![p].cwd = i]

\* sys_chdir's end: the call's inode becomes the current directory.
LEMMA ChdirDoneStep ==
  ASSUME RInv, NEW p \in Procs, ChdirDone(p)
  PROVE  Good'
  <1>1. At(p, "chdir2") /\ SetCwd(p, loc[p].ip) /\ Goto(p, <<>>) /\ UNCHANGED <<fs, ftab, todo, loc>>
    BY DEF ChdirDone, SetCwd
  <1>2. From(p, <<"chdir2", "ret">>, TRUE, TRUE, FALSE, FALSE, FALSE)
    BY <1>1, Froms
  <1>3. /\ InCall(p) /\ pc[p] = <<"chdir2", "ret">> /\ Form(pc[p], TRUE, TRUE, FALSE, FALSE, FALSE) /\ loc[p].ip # 0
    BY <1>2, FromIn
  <1>4. /\ Up(fs) /\ pc \in [Procs -> Stacks] /\ loc \in [Procs -> Locs] /\ loc[p] \in Locs /\ proc[p].st = "run"
    BY <1>1, Here
  <1>5. PICK s : s = <<"ret">>
    OBVIOUS
  <1>6. Leads(p, <<>>, s) /\ OnlyCwd(s) /\ s \in PutBodies
    BY <1>3, <1>5, LeadsRet, CwdForms, Forms DEF Labels, Form
  <1>7. pc' = [pc EXCEPT ![p] = s]
    BY <1>1, <1>6 DEF Goto, Leads
  <1>8. s \in Stacks /\ HasCwd(s, loc[p]) /\ Body(s) = s
    BY <1>6, OnlyCwdHas
  <1>9. pc'[p] = s /\ loc'[p] = loc[p] /\ \A q \in Procs \ {p} : pc'[q] = pc[q]
    BY <1>1, <1>4, <1>7
  <1>10. PICK i \in Inos : i = loc[p].ip
    BY <1>4 DEF Locs
  <1>11. proc \in [Procs -> ProcRec]
    BY DEF RInv, TypeInv
  <1>12. PICK r : r = [proc[p] EXCEPT !.cwd = i]
    OBVIOUS
  <1>13. r \in ProcRec /\ r.cwd = i /\ r.st = proc[p].st /\ r.ofile = proc[p].ofile
    BY <1>11, <1>12 DEF ProcRec
  <1>14. proc' = [proc EXCEPT ![p] = r]
    BY <1>1, <1>10, <1>11, <1>12 DEF SetCwd
  <1>15. proc'[p] = r /\ \A q \in Procs \ {p} : proc'[q] = proc[q]
    BY <1>11, <1>14
  <1>16. \A q \in Procs \ {p} : Same(q)
    BY <1>1, <1>9, <1>15 DEF Same
  <1>17. TypeInv'
    BY <1>1, <1>7, <1>8, <1>11, <1>13, <1>14 DEF RInv, TypeInv
  <1>18. ASSUME NEW j \in Inums PROVE Has(pc'[p], loc'[p], proc'[p].cwd, j) = Has(pc[p], loc[p], proc[p].cwd, j)
    <2>1. Has(s, loc[p], i, j) = One(i = j)
      BY <1>8 DEF HasCwd
    <2>2. Has(pc[p], loc[p], proc[p].cwd, j) = Holds(pc[p], loc[p].ip, loc[p], proc[p].cwd, j)
      BY <1>3, HasHolds DEF InCall
    <2>3. Holds(pc[p], loc[p].ip, loc[p], proc[p].cwd, j) = One(i = j)
      BY <1>3, <1>10 DEF Holds, Form, One
    <2> QED BY <1>9, <1>13, <1>15, <2>1, <2>2, <2>3
  <1>19. Lab(Body(pc'[p])) # "openset" /\ Lab(Body(pc'[p])) # "write" /\ Lab(Body(pc'[p])) # "zombie"
    BY <1>6, <1>8, <1>9, PutCalm DEF Calm, OnlyCwd, LeftLabels
  <1>20. ProcOK(p)'
    <2>1. CallOK(p)'
      BY <1>3, <1>4, <1>8, <1>9, <1>10, <1>13, <1>15 DEF CallOK, HasCwd
    <2>2. Lab(Body(pc[p])) # "openset"
      BY <1>3, PutCalm DEF Calm, InCall
    <2>3. DescOK(p)
      BY DEF RInv
    <2>4. DescOK(p)'
      BY <1>1, <1>4, <1>13, <1>15, <1>19, <2>2, <2>3 DEF DescOK
    <2>5. Writing(p)' /\ Opening(p)'
      BY <1>19 DEF Writing, Opening
    <2> QED BY <2>1, <2>4, <2>5 DEF ProcOK
  <1>21. \A fd \in Fds : proc'[p].ofile[fd] = proc[p].ofile[fd]
    BY <1>13, <1>15
  <1> QED BY <1>1, <1>4, <1>16, <1>17, <1>18, <1>20, <1>21, SeatStep


\* exit's end: a zombie holds nothing.
LEMMA ExitDoneStep ==
  ASSUME RInv, NEW p \in Procs, ExitDone(p)
  PROVE  Good'
  <1>1. /\ At(p, "zombie") /\ Goto(p, <<>>) /\ UNCHANGED <<fs, ftab, todo>> /\ loc' = [loc EXCEPT ![p] = NoLocs]
        /\ proc' = [proc EXCEPT ![p].st = "zombie", ![p].cwd = 0]
    BY DEF ExitDone
  <1>2. /\ Up(fs) /\ pc \in [Procs -> Stacks] /\ loc \in [Procs -> Locs] /\ proc[p].st = "run"
    BY <1>1, Here
  <1>3. pc[p] = <<"zombie">> /\ Body(pc[p]) = pc[p] /\ ~InPut(pc[p])
    BY <1>1, Here, HereBody, BodyAt DEF PutLabels
  <1>4. Lab(Body(pc[p])) = "zombie"
    BY <1>3 DEF Lab
  <1>5. PICK s : s = <<>>
    OBVIOUS
  <1>6. s \in PutBodies /\ OnlyCwd(s)
    BY <1>5, CwdForms, Forms DEF Form
  <1>7. pc' = [pc EXCEPT ![p] = s]
    <2>1. Tail(pc[p]) = <<>> /\ <<>> \o <<>> = <<>>
      BY <1>3
    <2> QED BY <1>1, <1>5, <2>1 DEF Goto
  <1>8. s \in Stacks /\ HasCwd(s, NoLocs) /\ Body(s) = s
    BY <1>6, OnlyCwdHas
  <1>9. NoLocs \in Locs
    BY ZeroInos, FileSysAssumption DEF NoLocs, Locs
  <1>10. pc'[p] = s /\ loc'[p] = NoLocs /\ \A q \in Procs \ {p} : pc'[q] = pc[q] /\ loc'[q] = loc[q]
    BY <1>1, <1>2, <1>7
  <1>11. proc \in [Procs -> ProcRec]
    BY DEF RInv, TypeInv
  <1>12. PICK r : r = [proc[p] EXCEPT !.st = "zombie"]
    OBVIOUS
  <1>13. PICK t : t = [r EXCEPT !.cwd = 0]
    OBVIOUS
  <1>14. t \in ProcRec /\ t.cwd = 0 /\ t.st = "zombie" /\ t.ofile = proc[p].ofile
    <2>1. r \in ProcRec /\ r.st = "zombie" /\ r.ofile = proc[p].ofile
      BY <1>11, <1>12 DEF ProcRec, States
    <2> QED BY <1>13, <2>1, ZeroInos DEF ProcRec
  <1>15. proc' = [proc EXCEPT ![p] = t]
    <2>1. PICK m : m = [proc EXCEPT ![p] = r]
      OBVIOUS
    <2>2. m = [proc EXCEPT ![p].st = "zombie"] /\ m[p] = r
      BY <1>11, <1>12, <2>1
    <2>3. proc' = [m EXCEPT ![p].cwd = 0]
      BY <1>1, <2>2
    <2>4. proc' = [m EXCEPT ![p] = t]
      BY <1>13, <2>2, <2>3
    <2> QED BY <1>11, <2>1, <2>4
  <1>16. proc'[p] = t /\ \A q \in Procs \ {p} : proc'[q] = proc[q]
    BY <1>11, <1>15
  <1>17. \A q \in Procs \ {p} : Same(q)
    BY <1>1, <1>10, <1>16 DEF Same
  <1>18. TypeInv'
    BY <1>1, <1>7, <1>8, <1>9, <1>11, <1>14, <1>15 DEF RInv, TypeInv
  <1>19. ASSUME NEW j \in Inums PROVE Has(pc'[p], loc'[p], proc'[p].cwd, j) = Has(pc[p], loc[p], proc[p].cwd, j)
    <2>1. Has(s, NoLocs, 0, j) = One(0 = j) /\ j # 0
      BY <1>8, InumsInos DEF HasCwd
    <2>2. Has(pc[p], loc[p], proc[p].cwd, j) = 0
      <3>1. /\ Lab(Body(pc[p])) \notin IpLabels /\ Lab(Body(pc[p])) \notin DpLabels /\ Lab(Body(pc[p])) \in LeftLabels
        BY <1>4 DEF IpLabels, DpLabels, LeftLabels
      <3>2. pc[p] \notin Linking
        BY <1>3 DEF Linking
      <3> QED BY <1>3, <3>1, <3>2 DEF Has, HoldsX, HoldsIp, HoldsDp, HoldsOld, HoldsCwd, One
    <2> QED BY <1>10, <1>14, <1>16, <2>1, <2>2 DEF One
  <1>20. Lab(Body(pc'[p])) # "openset" /\ Lab(Body(pc'[p])) # "write"
    BY <1>6, <1>8, <1>10, PutCalm DEF Calm
  <1>21. ProcOK(p)'
    <2>1. CallOK(p)'
      BY <1>5, <1>8, <1>10, <1>14, <1>16 DEF CallOK, HasCwd
    <2>2. DescOK(p)
      BY DEF RInv
    <2>3. DescOK(p)'
      BY <1>4, <1>14, <1>16, <2>2 DEF DescOK
    <2>4. Writing(p)' /\ Opening(p)'
      BY <1>20 DEF Writing, Opening
    <2> QED BY <2>1, <2>3, <2>4 DEF ProcOK
  <1>22. \A fd \in Fds : proc'[p].ofile[fd] = proc[p].ofile[fd]
    BY <1>14, <1>16
  <1> QED BY <1>1, <1>2, <1>17, <1>18, <1>19, <1>21, <1>22, SeatStep

\* wait takes away a process that holds nothing any more.
LEMMA ReapStep ==
  ASSUME RInv, NEW p \in Procs, AtUser(p), NEW c \in Procs, proc[c].st = "zombie", proc' = [proc EXCEPT ![c] = NoProc],
         NEW r, Answers(p, r), UNCHANGED <<fs, ftab, todo>>
  PROVE  Good'
  <1>1. p # c /\ Up(fs) /\ OnlyCwd(pc[p]) /\ proc[p].st = "run" /\ pc[c] = <<>> /\ proc[c].cwd = 0
    BY CwdForms DEF AtUser, RInv, CallOK
  <1>2. /\ proc \in [Procs -> ProcRec] /\ pc \in [Procs -> Stacks] /\ loc \in [Procs -> Locs]
    BY DEF RInv, TypeInv
  <1>3. PICK s : s = <<"ret">>
    OBVIOUS
  <1>4. OnlyCwd(s) /\ s \in PutBodies
    BY <1>3, CwdForms, Forms DEF Form
  <1>5. pc' = [pc EXCEPT ![p] = s] /\ loc' = loc
    <2>1. <<>> \o <<"ret">> = <<"ret">>
      OBVIOUS
    <2> QED BY <1>3, <2>1 DEF Answers, Enters
  <1>6. s \in Stacks /\ HasCwd(s, loc[p]) /\ HasCwd(pc[p], loc[p]) /\ Body(s) = s
    BY <1>1, <1>4, OnlyCwdHas
  <1>7. /\ pc'[p] = s /\ \A q \in Procs \ {p} : pc'[q] = pc[q]
        /\ proc'[c] = NoProc /\ \A q \in Procs \ {c} : proc'[q] = proc[q]
    BY <1>2, <1>5
  <1>8. NoProc \in ProcRec /\ NoProc.cwd = 0 /\ NoProc.st = "unused" /\ \A fd \in Fds : NoProc.ofile[fd] = 0
    BY ZeroInos, FileSysAssumption DEF NoProc, ProcRec, States
  <1>9. \A fd \in Fds : proc[c].ofile[fd] = 0
    BY DEF RInv, DescOK
  <1>10. \A f : Desc(f)' = Desc(f)
    BY <1>7, <1>8, <1>9 DEF Desc
  <1>11. TypeInv'
    BY <1>2, <1>5, <1>6, <1>8 DEF RInv, TypeInv
  <1>12. RefsCounted'
    <2>1. SUFFICES ASSUME NEW j \in Inums PROVE (fs'.mem[j].ref = Held(j)' + Cardinality(FilesOf(j)'))
      BY DEF RefsCounted
    <2>2. ASSUME NEW q \in Procs \ {p} PROVE SameHolds(q, j)
      <3>1. proc'[q].cwd = proc[q].cwd
        BY <1>1, <1>7, <1>8
      <3> QED BY <1>5, <1>7, <3>1, SameHeld
    <2>3. FilesOf(j)' = FilesOf(j) /\ fs' = fs
      BY DEF FilesOf
    <2>4. fs.mem[j].ref \in Nat
      BY RefNat DEF RInv, TypeInv
    <2>5. Has(pc'[p], loc'[p], proc'[p].cwd, j) = Has(pc[p], loc[p], proc[p].cwd, j)
      <3>1. proc'[p].cwd = proc[p].cwd /\ loc'[p] = loc[p]
        BY <1>1, <1>5, <1>7
      <3> QED BY <1>6, <1>7, <3>1 DEF HasCwd
    <2>6. 0 \in Nat
      OBVIOUS
    <2> QED BY <2>2, <2>3, <2>4, <2>5, <2>6, RefMoves
  <1>13. ASSUME NEW f \in 1..NFILE PROVE FileOK(f)'
    BY <1>10 DEF RInv, FileOK
  <1>14. ASSUME NEW q \in Procs \ {p, c} PROVE ProcOK(q)'
    <2>1. Same(q)
      BY <1>5, <1>7 DEF Same
    <2>2. FilesServe(q)
      BY <1>10, <2>1 DEF FilesServe, Same
    <2> QED BY <2>1, <2>2, OtherOK
  <1>15. ProcOK(p)'
    <2>1. CallOK(p)'
      BY <1>1, <1>5, <1>6, <1>7 DEF RInv, CallOK, HasCwd
    <2>2. Lab(Body(pc[p])) # "openset" /\ Lab(Body(s)) # "openset" /\ Lab(Body(s)) # "write" /\ Lab(Body(s)) # "zombie"
      BY <1>1, <1>4, <1>6, PutCalm DEF OnlyCwd, HasCwd, Calm, LeftLabels
    <2>3. DescOK(p)
      BY DEF RInv
    <2>4. DescOK(p)'
      BY <1>1, <1>7, <2>2, <2>3 DEF DescOK
    <2>5. Writing(p)' /\ Opening(p)'
      BY <1>7, <2>2 DEF Writing, Opening
    <2> QED BY <2>1, <2>4, <2>5 DEF ProcOK
  <1>16. ProcOK(c)'
    <2>1. pc'[c] = <<>> /\ OnlyCwd(pc'[c]) /\ HasCwd(pc'[c], loc'[c]) /\ pc'[c] \in PutBodies
      BY <1>1, <1>7, CwdForms, Forms, OnlyCwdHas DEF Form
    <2>2. CallOK(c)'
      BY <1>7, <1>8, <2>1 DEF CallOK, HasCwd
    <2>3. DescOK(c)'
      BY <1>7, <1>8 DEF DescOK
    <2>4. Writing(c)' /\ Opening(c)'
      BY <2>1, PutCalm DEF Writing, Opening, HasCwd, Calm
    <2> QED BY <2>2, <2>3, <2>4 DEF ProcOK
  <1> QED BY <1>1, <1>11, <1>12, <1>13, <1>14, <1>15, <1>16, Together DEF RInvParts

\* wait frees a process that holds nothing, and keeps the invariant.
LEMMA SysWaitStep ==
  ASSUME RInv, NEW p \in Procs, SysWait(p)
  PROVE  Good'
  <1>1. AtUser(p) /\ UNCHANGED <<fs, ftab, todo>>
    BY CallsFrom DEF SysWait
  <1>2. \/ UNCHANGED proc /\ \E r : Answers(p, r)
        \/ \E c \in Procs : proc[c].st = "zombie" /\ proc' = [proc EXCEPT ![c] = NoProc] /\ \E r : Answers(p, r)
    BY DEF SysWait
  <1>3. PICK N : Sound(fs, N)
    BY FsNames
  <1>4. CASE UNCHANGED proc /\ \E r : Answers(p, r)
    BY <1>1, <1>3, <1>4, KeptSelf, FilesStay, AnswersStep
  <1> QED BY <1>1, <1>2, <1>4, ReapStep

-----------------------------------------------------------------------------
(* Descriptors *)

\* There are finitely many descriptors.
LEMMA PairsFinite ==
  IsFiniteSet(Procs \X Fds) /\ IsFiniteSet(Fds)
  <1>1. 0 \in Int /\ NOFILE - 1 \in Int
    BY FileSysAssumption
  <1>2. IsFiniteSet(Fds)
    BY <1>1, FS_Interval DEF Fds
  <1> QED BY <1>2, FileSysAssumption, FS_Product

\* One descriptor of p is another file now.
SetFd(p, fd, g) == proc' = [proc EXCEPT ![p].ofile[fd] = g]

\* The process after one descriptor has changed.
LEMMA FdProc ==
  ASSUME RInv, NEW p \in Procs, NEW fd \in Fds, NEW g \in 0..NFILE, SetFd(p, fd, g)
  PROVE  /\ proc' \in [Procs -> ProcRec] /\ proc'[p].st = proc[p].st /\ proc'[p].cwd = proc[p].cwd
         /\ proc'[p].ofile[fd] = g /\ \A e \in Fds \ {fd} : proc'[p].ofile[e] = proc[p].ofile[e]
         /\ \A q \in Procs \ {p} : proc'[q] = proc[q]
  <1>1. proc \in [Procs -> ProcRec] /\ proc[p] \in ProcRec
    BY DEF RInv, TypeInv
  <1>2. PICK o : o = [proc[p].ofile EXCEPT ![fd] = g]
    OBVIOUS
  <1>3. PICK r : r = [proc[p] EXCEPT !.ofile = o]
    OBVIOUS
  <1>4. o \in [Fds -> 0..NFILE] /\ o[fd] = g /\ \A e \in Fds \ {fd} : o[e] = proc[p].ofile[e]
    BY <1>1, <1>2 DEF ProcRec
  <1>5. r \in ProcRec /\ r.st = proc[p].st /\ r.cwd = proc[p].cwd /\ r.ofile = o
    BY <1>1, <1>3, <1>4 DEF ProcRec
  <1>6. proc' = [proc EXCEPT ![p] = r]
    BY <1>1, <1>2, <1>3 DEF SetFd
  <1> QED BY <1>1, <1>4, <1>5, <1>6

\* The descriptors of a file change by the one that is set.
LEMMA DescStep ==
  ASSUME RInv, NEW p \in Procs, NEW fd \in Fds, NEW g \in 0..NFILE, SetFd(p, fd, g), NEW f
  PROVE  /\ Cardinality(Desc(f)) \in Nat /\ Cardinality(Desc(f)') \in Nat
         /\ Cardinality(Desc(f)') + One(proc[p].ofile[fd] = f) = Cardinality(Desc(f)) + One(g = f)
         /\ f # g /\ f # proc[p].ofile[fd] => Desc(f)' = Desc(f)
  <1>1. /\ proc'[p].ofile[fd] = g /\ \A e \in Fds \ {fd} : proc'[p].ofile[e] = proc[p].ofile[e]
        /\ \A q \in Procs \ {p} : proc'[q] = proc[q]
    BY FdProc
  <1>2. PICK P, d : P = Procs \X Fds /\ d = <<p, fd>>
    OBVIOUS
  <1>3. PICK S, T : S = Desc(f) /\ T = Desc(f)'
    OBVIOUS
  <1>4. IsFiniteSet(P) /\ S \in SUBSET P /\ T \in SUBSET P /\ d \in P
    BY <1>2, <1>3, PairsFinite DEF Desc
  <1>5. ASSUME NEW e \in P \ {d} PROVE e \in S <=> e \in T
    <2>1. PICK q \in Procs, h \in Fds : e = <<q, h>>
      BY <1>2
    <2>2. q # p \/ h # fd
      BY <1>2, <1>5, <2>1
    <2>3. proc'[q].ofile[h] = proc[q].ofile[h]
      BY <1>1, <2>2
    <2> QED BY <1>3, <2>1, <2>3 DEF Desc
  <1>6. (d \in S <=> proc[p].ofile[fd] = f) /\ (d \in T <=> g = f)
    BY <1>1, <1>2, <1>3 DEF Desc
  <1>7. Cardinality(S) \in Nat /\ Cardinality(T) \in Nat /\ Cardinality(T) + One(d \in S) = Cardinality(S) + One(d \in T)
    BY <1>4, <1>5, OneChanges
  <1>8. Cardinality(T) + One(proc[p].ofile[fd] = f) = Cardinality(S) + One(g = f)
    BY <1>6, <1>7 DEF One
  <1>9. ASSUME f # g, f # proc[p].ofile[fd] PROVE T = S
    BY <1>4, <1>5, <1>6, <1>9
  <1> QED BY <1>3, <1>7, <1>8, <1>9

\* A file without references has no descriptors and no inode.
LEMMA DescNone ==
  ASSUME RInv, NEW f \in 1..NFILE
  PROVE  /\ Cardinality(Desc(f)) = 0 <=> Desc(f) = {}
         /\ ftab[f].ref = Cardinality(Desc(f)) /\ ftab[f].ref \in Nat
         /\ (ftab[f].ip = 0) <=> (ftab[f].type = "none")
         /\ (ftab[f].ref = 0) => (ftab[f].ip = 0)
         /\ (ftab[f].ip = 0) => ~ftab[f].wr
  <1>1. IsFiniteSet(Desc(f))
    BY PairsFinite, FS_Subset DEF Desc
  <1>2. Cardinality(Desc(f)) = 0 <=> Desc(f) = {}
    BY <1>1, FS_EmptySet
  <1>3. FileOK(f)
    BY DEF RInv
  <1> QED BY <1>1, <1>2, <1>3, FS_CardinalityType DEF FileOK


SetRef(f, n)  == ftab' = [ftab EXCEPT ![f].ref = n]
SetFile(p, f) == loc' = [loc EXCEPT ![p].f = f]

\* The table of files after one count has changed.
LEMMA RefFile ==
  ASSUME RInv, NEW f \in 1..NFILE, NEW n \in Nat, SetRef(f, n)
  PROVE  /\ \E A : ftab' \in [1..NFILE -> FileRec(A)]
         /\ ftab'[f].ref = n /\ ftab'[f].ip = ftab[f].ip /\ ftab'[f].type = ftab[f].type /\ ftab'[f].wr = ftab[f].wr
         /\ \A g \in 1..NFILE \ {f} : ftab'[g] = ftab[g]
         /\ \A g \in 1..NFILE : ftab'[g].ip = ftab[g].ip
  <1>1. PICK A : ftab \in [1..NFILE -> FileRec(A)]
    BY DEF RInv, TypeInv
  <1>2. PICK r : r = [ftab[f] EXCEPT !.ref = n]
    OBVIOUS
  <1>3. ftab[f] \in FileRec(A)
    BY <1>1
  <1>4. r \in FileRec(A) /\ r.ref = n /\ r.ip = ftab[f].ip /\ r.type = ftab[f].type /\ r.wr = ftab[f].wr
    BY <1>2, <1>3 DEF FileRec
  <1>5. ftab' = [ftab EXCEPT ![f] = r]
    BY <1>1, <1>2 DEF SetRef
  <1>6. ftab' \in [1..NFILE -> FileRec(A)] /\ ftab'[f] = r /\ \A g \in 1..NFILE \ {f} : ftab'[g] = ftab[g]
    BY <1>1, <1>4, <1>5
  <1> QED BY <1>4, <1>6

\* The locals after a file has been allocated.
LEMMA FileLocs ==
  ASSUME RInv, NEW p \in Procs, NEW f \in 1..NFILE, SetFile(p, f)
  PROVE  \E l : l \in Locs /\ l.f = f /\ l.ip = loc[p].ip /\ l.dp = loc[p].dp /\ l.old = loc[p].old /\ loc' = [loc EXCEPT ![p] = l]
  <1>0. f \in 0..NFILE
    BY FileSysAssumption
  <1>1. PICK l : l = [loc[p] EXCEPT !.f = f]
    OBVIOUS
  <1>2. loc \in [Procs -> Locs]
    BY DEF RInv, TypeInv
  <1>3. l \in Locs /\ l.f = f /\ l.ip = loc[p].ip /\ l.dp = loc[p].dp /\ l.old = loc[p].old
    BY <1>0, <1>1, <1>2 DEF Locs
  <1>4. loc' = [loc EXCEPT ![p] = l]
    BY <1>1, <1>2 DEF SetFile
  <1> QED BY <1>3, <1>4

\* A process that fills in a file holds its inode and its directory.
LEMMA OpensetForm ==
  ASSUME NEW b, b = <<"openset", "ret">>
  PROVE  /\ b \in Stacks /\ ~InPut(b) /\ Body(b) = b /\ Lab(b) = "openset" /\ b # <<>>
         /\ \A l : Kernel(b, l) <=> l.ip # 0
         /\ \A l, c, j : Has(b, l, c, j) = One(l.ip = j) + One(c = j)
  <1>1. b \in Bodies
    BY DEF Bodies, Halves
  <1>2. b \in Stacks /\ ~InPut(b) /\ Body(b) = b
    BY <1>1, BodyStack
  <1>3. Lab(b) = "openset"
    BY DEF Lab
  <1>4. Lab(b) \in IpLabels /\ Lab(b) \in IpSure /\ Lab(b) \notin DpLabels /\ Lab(b) \notin LeftLabels
    BY <1>3 DEF IpLabels, IpSure, DpLabels, LeftLabels
  <1>5. b \notin Linking
    BY DEF Linking
  <1>6. ASSUME NEW l PROVE Kernel(b, l) <=> l.ip # 0
    BY <1>2, <1>4, <1>5 DEF Kernel
  <1>7. ASSUME NEW l, NEW c, NEW j PROVE Has(b, l, c, j) = One(l.ip = j) + One(c = j)
    BY <1>2, <1>4, <1>5 DEF Has, HoldsX, HoldsIp, HoldsDp, HoldsOld, HoldsCwd, One
  <1> QED BY <1>2, <1>3, <1>6, <1>7

\* sys_open's file and descriptor, allocated but not filled in, keep the invariant.
LEMMA OpenedStep ==
  ASSUME RInv, NEW p \in Procs, At(p, "openfd"), loc[p].ip # 0, NEW f \in 1..NFILE, ftab[f].ref = 0, NEW fd \in Fds,
         proc[p].ofile[fd] = 0, SetRef(f, 1), SetFd(p, fd, f), SetFile(p, f), Goto(p, <<"openset">>), UNCHANGED <<fs, todo>>
  PROVE  Good'
  <1>1. From(p, <<"openfd", "ret">>, TRUE, FALSE, FALSE, FALSE, TRUE)
    BY Froms
  <1>2. InCall(p) /\ pc[p] = <<"openfd", "ret">> /\ Form(pc[p], TRUE, FALSE, FALSE, FALSE, TRUE)
    BY ONLY <1>1, FromIn
  <1>3. Up(fs) /\ pc \in [Procs -> Stacks] /\ loc \in [Procs -> Locs] /\ proc[p].st = "run" /\ f # 0 /\ f \in 0..NFILE
    BY Here, FileSysAssumption
  <1>4. PICK s : s = <<"openset", "ret">>
    OBVIOUS
  <1>5. /\ s \in Stacks /\ ~InPut(s) /\ Body(s) = s /\ Lab(s) = "openset" /\ s # <<>>
        /\ \A l : Kernel(s, l) <=> l.ip # 0
        /\ \A l, c, j : Has(s, l, c, j) = One(l.ip = j) + One(c = j)
    BY <1>4, OpensetForm
  <1>6. Leads(p, <<"openset">>, s)
    BY <1>2, <1>4, LeadsRet DEF Labels
  <1>7. pc' = [pc EXCEPT ![p] = s]
    BY <1>6 DEF Goto, Leads
  <1>8. PICK l : l \in Locs /\ l.f = f /\ l.ip = loc[p].ip /\ loc' = [loc EXCEPT ![p] = l]
    BY FileLocs
  <1>9. pc'[p] = s /\ loc'[p] = l /\ \A q \in Procs \ {p} : pc'[q] = pc[q] /\ loc'[q] = loc[q]
    BY <1>3, <1>7, <1>8
  <1>10. /\ \E A : ftab' \in [1..NFILE -> FileRec(A)]
         /\ ftab'[f].ref = 1 /\ ftab'[f].ip = ftab[f].ip /\ ftab'[f].type = ftab[f].type /\ ftab'[f].wr = ftab[f].wr
         /\ \A g \in 1..NFILE \ {f} : ftab'[g] = ftab[g]
         /\ \A g \in 1..NFILE : ftab'[g].ip = ftab[g].ip
    BY RefFile
  <1>11. /\ proc' \in [Procs -> ProcRec] /\ proc'[p].st = proc[p].st /\ proc'[p].cwd = proc[p].cwd
         /\ proc'[p].ofile[fd] = f /\ \A e \in Fds \ {fd} : proc'[p].ofile[e] = proc[p].ofile[e]
         /\ \A q \in Procs \ {p} : proc'[q] = proc[q]
    BY <1>3, FdProc
  <1>12. Desc(f) = {} /\ ftab[f].ip = 0
    BY DescNone
  <1>13. Desc(f)' = {<<p, fd>>}
    <2>1. ASSUME NEW q \in Procs, NEW e \in Fds PROVE proc[q].ofile[e] # f
      <3>1. PICK d : d = <<q, e>>
        OBVIOUS
      <3>2. d \in Procs \X Fds /\ d[1] = q /\ d[2] = e
        BY <3>1
      <3>3. d \notin Desc(f)
        BY <1>12
      <3> QED BY <3>2, <3>3 DEF Desc
    <2>2. \A q \in Procs, e \in Fds : proc'[q].ofile[e] = f <=> q = p /\ e = fd
      BY <1>11, <2>1
    <2> QED BY <2>2 DEF Desc
  <1>14. TypeInv'
    BY <1>3, <1>5, <1>7, <1>8, <1>10, <1>11 DEF RInv, TypeInv
  <1>15. \A q \in Procs \ {p} : Same(q)
    BY <1>9, <1>11 DEF Same
  <1>16. RefsCounted'
    <2>1. SUFFICES ASSUME NEW j \in Inums PROVE (fs'.mem[j].ref = Held(j)' + Cardinality(FilesOf(j)'))
      BY DEF RefsCounted
    <2>2. \A q \in Procs \ {p} : SameHolds(q, j)
      BY <1>15, SameHeld DEF Same
    <2>3. FilesOf(j)' = FilesOf(j) /\ fs' = fs
      BY <1>10 DEF FilesOf
    <2>4. fs.mem[j].ref \in Nat
      BY RefNat DEF RInv, TypeInv
    <2>5. Has(pc'[p], loc'[p], proc'[p].cwd, j) = One(loc[p].ip = j) + One(proc[p].cwd = j)
      BY <1>5, <1>8, <1>9, <1>11
    <2>6. Has(pc[p], loc[p], proc[p].cwd, j) = Holds(pc[p], loc[p].ip, loc[p], proc[p].cwd, j)
      BY <1>2, HasHolds DEF InCall
    <2>7. Holds(pc[p], loc[p].ip, loc[p], proc[p].cwd, j) = One(loc[p].ip = j) + One(proc[p].cwd = j)
      BY <1>2 DEF Holds, Form, One
    <2>8. 0 \in Nat
      OBVIOUS
    <2> QED BY <2>2, <2>3, <2>4, <2>5, <2>6, <2>7, <2>8, RefMoves
  <1>17. ASSUME NEW g \in 1..NFILE PROVE FileOK(g)'
    <2>1. CASE g = f
      <3>1. Cardinality(Desc(f)') = 1
        BY <1>13, FS_Singleton
      <3>2. FileOK(f)
        BY DEF RInv
      <3> QED BY <1>10, <1>12, <2>1, <3>1, <3>2 DEF FileOK
    <2>2. CASE g # f
      <3>1. g # 0
        BY FileSysAssumption
      <3>2. Desc(g)' = Desc(g)
        BY <1>3, <2>2, <3>1, DescStep
      <3>3. FileOK(g)
        BY DEF RInv
      <3> QED BY <1>10, <2>2, <3>2, <3>3 DEF FileOK
    <2> QED BY <2>1, <2>2
  <1>18. ASSUME NEW q \in Procs \ {p} PROVE ProcOK(q)'
    <2>1. ASSUME Lab(Body(pc[q])) = "openset"
          PROVE  Desc(loc[q].f)' = Desc(loc[q].f) /\ ftab'[loc[q].f].ip = ftab[loc[q].f].ip
      <3>1. loc[q].f # 0 /\ \E e \in Fds : Desc(loc[q].f) = {<<q, e>>}
        BY <2>1 DEF RInv, Opening
      <3>2. loc[q].f \in 0..NFILE
        BY <1>3 DEF Locs
      <3>3. PICK g \in 1..NFILE : g = loc[q].f
        BY <3>1, <3>2, FileSysAssumption
      <3>4. g # f /\ g # 0
        BY <1>12, <3>1, <3>3
      <3>5. Desc(g)' = Desc(g) /\ ftab'[g].ip = ftab[g].ip
        BY <1>3, <1>10, <3>4, DescStep
      <3>6. loc'[q].f = g
        BY <1>9, <3>3
      <3> QED BY <3>3, <3>5, <3>6
    <2>2. FilesServe(q)
      BY <1>10, <2>1, FdFile DEF FilesServe
    <2> QED BY <1>15, <2>2, OtherOK
  <1>19. ProcOK(p)'
    <2>1. CallOK(p)'
      BY <1>3, <1>5, <1>8, <1>9, <1>11 DEF RInv, CallOK
    <2>2. Lab(Body(pc'[p])) = "openset" /\ Lab(Body(pc[p])) # "openset"
      BY <1>2, <1>5, <1>9, PutCalm DEF InCall, Calm
    <2>3. Opening(p)'
      BY <1>3, <1>8, <1>9, <1>10, <1>12, <1>13 DEF Opening
    <2>4. DescOK(p)
      BY DEF RInv
    <2>5. DescOK(p)'
      <3>1. SUFFICES ASSUME NEW e \in Fds, proc'[p].ofile[e] # 0
                     PROVE  ftab'[proc'[p].ofile[e]].ip # 0 \/ loc'[p].f = proc'[p].ofile[e]
        BY <1>3, <1>11, <2>2 DEF DescOK
      <3>2. CASE e = fd
        BY <1>8, <1>9, <1>11, <3>2
      <3>3. CASE e # fd
        <4>1. proc'[p].ofile[e] = proc[p].ofile[e] /\ proc[p].ofile[e] \in 1..NFILE
          BY <1>11, <3>1, <3>3, FdFile
        <4> QED BY <1>10, <2>2, <2>4, <4>1 DEF DescOK
      <3> QED BY <3>2, <3>3
    <2>6. Writing(p)'
      BY <2>2 DEF Writing
    <2> QED BY <2>1, <2>3, <2>5, <2>6 DEF ProcOK
  <1> QED BY <1>3, <1>14, <1>16, <1>17, <1>18, <1>19, Together DEF RInvParts

\* So does sys_open when there is no file or descriptor: the inode is put.
LEMMA OpenFdStep ==
  ASSUME RInv, NEW p \in Procs, OpenFd(p)
  PROVE  Good'
  <1>1. PICK f, fd : f = Min(FreeFiles) /\ fd = Min(FreeFds(p))
    OBVIOUS
  <1>2. /\ At(p, "openfd") /\ UNCHANGED <<fs, todo>>
        /\ \/ loc[p].ip = 0 /\ Fails(p) /\ UNCHANGED <<ftab, proc>>
           \/ loc[p].ip # 0 /\ Put(p, loc[p].ip, <<>>) /\ UNCHANGED <<ftab, proc>>
           \/ /\ loc[p].ip # 0 /\ FreeFiles # {} /\ FreeFds(p) # {}
              /\ SetRef(f, 1) /\ SetFd(p, fd, f) /\ SetFile(p, f) /\ Goto(p, <<"openset">>)
    BY <1>1 DEF OpenFd, SetRef, SetFd, SetFile
  <1>3. From(p, <<"openfd", "ret">>, TRUE, FALSE, FALSE, FALSE, TRUE)
    BY <1>2, Froms
  <1>4. PICK N : Sound(fs, N)
    BY FsNames
  <1>5. Kept(fs, fs', N)
    BY <1>2, <1>4, KeptSelf
  <1>6. CASE loc[p].ip = 0 /\ Fails(p) /\ UNCHANGED <<ftab, proc>>
    BY <1>2, <1>3, <1>6, FailCase DEF Labels
  <1>7. CASE loc[p].ip # 0 /\ Put(p, loc[p].ip, <<>>) /\ UNCHANGED <<ftab, proc>>
    BY <1>2, <1>3, <1>4, <1>5, <1>7, PutOut DEF Labels
  <1>8. CASE /\ loc[p].ip # 0 /\ FreeFiles # {} /\ FreeFds(p) # {}
             /\ SetRef(f, 1) /\ SetFd(p, fd, f) /\ SetFile(p, f) /\ Goto(p, <<"openset">>)
    <2>1. FreeFiles \subseteq Nat /\ FreeFds(p) \subseteq Nat
      BY FileSysAssumption DEF FreeFiles, FreeFds, Fds
    <2>2. f \in FreeFiles /\ fd \in FreeFds(p)
      BY <1>1, <1>8, <2>1, MinIn
    <2>3. f \in 1..NFILE /\ ftab[f].ref = 0 /\ fd \in Fds /\ proc[p].ofile[fd] = 0
      BY <2>2 DEF FreeFiles, FreeFds
    <2> QED BY <1>2, <1>8, <2>3, OpenedStep
  <1> QED BY <1>2, <1>6, <1>7, <1>8


\* One file is another inode's now.
LEMMA FilesStep ==
  ASSUME NEW f \in 1..NFILE, \A g \in 1..NFILE \ {f} : ftab'[g].ip = ftab[g].ip, NEW j
  PROVE  Cardinality(FilesOf(j)') + One(ftab[f].ip = j) = Cardinality(FilesOf(j)) + One(ftab'[f].ip = j)
  <1>1. PICK P, S, T : P = 1..NFILE /\ S = FilesOf(j) /\ T = FilesOf(j)'
    OBVIOUS
  <1>2. IsFiniteSet(P) /\ S \in SUBSET P /\ T \in SUBSET P /\ f \in P
    BY <1>1, FilesNat DEF FilesOf
  <1>3. \A g \in P \ {f} : g \in S <=> g \in T
    BY <1>1 DEF FilesOf
  <1>4. (f \in S <=> ftab[f].ip = j) /\ (f \in T <=> ftab'[f].ip = j)
    BY <1>1 DEF FilesOf
  <1>5. Cardinality(T) + One(f \in S) = Cardinality(S) + One(f \in T)
    BY <1>2, <1>3, OneChanges
  <1> QED BY <1>1, <1>4, <1>5 DEF One

FillFile(f, i, rd, wr) ==
  ftab' = [ftab EXCEPT ![f] = [ref |-> @.ref, type |-> "inode", ip |-> i, off |-> 0, rd |-> rd, wr |-> wr]]

\* The table of files after one has been filled in.
LEMMA FilledFile ==
  ASSUME RInv, NEW f \in 1..NFILE, NEW i \in Inos, NEW rd, NEW wr, FillFile(f, i, rd, wr)
  PROVE  /\ \E A : ftab' \in [1..NFILE -> FileRec(A)]
         /\ ftab'[f].ref = ftab[f].ref /\ ftab'[f].ip = i /\ ftab'[f].type = "inode"
         /\ \A g \in 1..NFILE \ {f} : ftab'[g] = ftab[g]
  <1>1. PICK A : ftab \in [1..NFILE -> FileRec(A)]
    BY DEF RInv, TypeInv
  <1>2. PICK B : B = A \cup {rd, wr}
    OBVIOUS
  <1>3. ftab \in [1..NFILE -> FileRec(B)]
    <2>1. \A r \in FileRec(A) : r \in FileRec(B)
      BY <1>2 DEF FileRec
    <2> QED BY <1>1, <2>1
  <1>4. PICK r : r = [ref |-> ftab[f].ref, type |-> "inode", ip |-> i, off |-> 0, rd |-> rd, wr |-> wr]
    OBVIOUS
  <1>5. r \in FileRec(B) /\ r.ref = ftab[f].ref /\ r.ip = i /\ r.type = "inode"
    <2>1. ftab[f].ref \in Nat
      BY <1>1 DEF FileRec
    <2> QED BY <1>2, <1>4, <2>1 DEF FileRec
  <1>6. ftab' = [ftab EXCEPT ![f] = r]
    BY <1>3, <1>4 DEF FillFile
  <1>7. ftab' \in [1..NFILE -> FileRec(B)] /\ ftab'[f] = r /\ \A g \in 1..NFILE \ {f} : ftab'[g] = ftab[g]
    BY <1>3, <1>5, <1>6
  <1> QED BY <1>5, <1>7

\* sys_open's last step hands the call's reference to the file.
LEMMA OpenSetStep ==
  ASSUME RInv, NEW p \in Procs, OpenSet(p)
  PROVE  Good'
  <1>1. PICK f, i : f = loc[p].f /\ i = loc[p].ip
    OBVIOUS
  <1>2. At(p, "openset") /\ FillFile(f, i, Op(p).rd, Op(p).wr) /\ Goto(p, <<>>) /\ UNCHANGED <<fs, proc, todo, loc>>
    BY <1>1 DEF OpenSet, FillFile
  <1>3. /\ Up(fs) /\ pc \in [Procs -> Stacks] /\ loc \in [Procs -> Locs] /\ loc[p] \in Locs /\ proc[p].st = "run"
        /\ Kernel(pc[p], loc[p])
    BY <1>2, Here
  <1>4. pc[p] = <<"openset", "ret">>
    BY <1>2, Here, HereBody, BodyAt DEF PutLabels
  <1>5. /\ Body(pc[p]) = pc[p] /\ Lab(pc[p]) = "openset" /\ loc[p].ip # 0
        /\ \A c, j : Has(pc[p], loc[p], c, j) = One(loc[p].ip = j) + One(c = j)
    BY <1>3, <1>4, OpensetForm
  <1>6. PICK s : s = <<"ret">>
    OBVIOUS
  <1>7. OnlyCwd(s) /\ s \in PutBodies /\ Leads(p, <<>>, s)
    BY <1>4, <1>6, CwdForms, Forms, LeadsRet DEF Form, Labels
  <1>8. pc' = [pc EXCEPT ![p] = s]
    BY <1>2, <1>7 DEF Goto, Leads
  <1>9. s \in Stacks /\ HasCwd(s, loc[p]) /\ Body(s) = s
    BY <1>7, OnlyCwdHas
  <1>10. pc'[p] = s /\ loc'[p] = loc[p] /\ \A q \in Procs \ {p} : pc'[q] = pc[q]
    BY <1>2, <1>3, <1>8
  <1>11. PICK fd \in Fds : f # 0 /\ ftab[f].ip = 0 /\ Desc(f) = {<<p, fd>>}
    BY <1>1, <1>5 DEF RInv, Opening
  <1>12. f \in 1..NFILE /\ i \in Inos /\ i # 0
    <2>1. f \in 0..NFILE /\ i \in Inos
      BY <1>1, <1>3 DEF Locs
    <2> QED BY <1>1, <1>5, <1>11, <2>1, FileSysAssumption
  <1>13. /\ \E A : ftab' \in [1..NFILE -> FileRec(A)]
         /\ ftab'[f].ref = ftab[f].ref /\ ftab'[f].ip = i /\ ftab'[f].type = "inode"
         /\ \A g \in 1..NFILE \ {f} : ftab'[g] = ftab[g]
    BY <1>2, <1>12, FilledFile
  <1>14. TypeInv'
    BY <1>2, <1>3, <1>8, <1>9, <1>13 DEF RInv, TypeInv
  <1>15. \A q \in Procs \ {p} : Same(q)
    BY <1>2, <1>10 DEF Same
  <1>16. \A g : Desc(g)' = Desc(g)
    BY <1>2 DEF Desc
  <1>17. RefsCounted'
    <2>1. SUFFICES ASSUME NEW j \in Inums PROVE (fs'.mem[j].ref = Held(j)' + Cardinality(FilesOf(j)'))
      BY DEF RefsCounted
    <2>2. \A q \in Procs \ {p} : SameHolds(q, j)
      BY <1>15, SameHeld DEF Same
    <2>3. Cardinality(FilesOf(j)') + One(ftab[f].ip = j) = Cardinality(FilesOf(j)) + One(ftab'[f].ip = j)
      BY <1>12, <1>13, FilesStep
    <2>4. One(ftab[f].ip = j) = 0 /\ One(ftab'[f].ip = j) = One(i = j) /\ One(i = j) \in Nat /\ 0 \in Nat
      BY <1>11, <1>13, InumsInos DEF One
    <2>5. fs'.mem[j].ref = fs.mem[j].ref /\ fs.mem[j].ref \in Nat
      BY <1>2, RefNat DEF RInv, TypeInv
    <2>6. Has(pc[p], loc[p], proc[p].cwd, j) = One(i = j) + One(proc[p].cwd = j)
      BY <1>1, <1>5
    <2>7. Has(pc'[p], loc'[p], proc'[p].cwd, j) = One(proc[p].cwd = j)
      BY <1>2, <1>9, <1>10 DEF HasCwd
    <2>8. fs'.mem[j].ref + (Has(pc[p], loc[p], proc[p].cwd, j) + 0)
          = fs.mem[j].ref + (Has(pc'[p], loc'[p], proc'[p].cwd, j) + One(i = j))
      BY <2>4, <2>5, <2>6, <2>7 DEF One
    <2> QED BY <2>2, <2>3, <2>4, <2>5, <2>8, RefMoves
  <1>18. ASSUME NEW g \in 1..NFILE PROVE FileOK(g)'
    <2>1. FileOK(g)
      BY DEF RInv
    <2>2. CASE g = f
      <3>1. Cardinality(Desc(f)) = 1
        BY <1>11, FS_Singleton
      <3> QED BY <1>12, <1>13, <1>16, <2>1, <2>2, <3>1 DEF FileOK
    <2>3. CASE g # f
      BY <1>13, <1>16, <2>1, <2>3 DEF FileOK
    <2> QED BY <2>2, <2>3
  <1>19. ASSUME NEW q \in Procs, NEW fe \in Fds, proc[q].ofile[fe] # 0, ftab[proc[q].ofile[fe]].ip # 0
         PROVE  ftab'[proc[q].ofile[fe]].ip # 0
    <2>1. PICK g \in 1..NFILE : g = proc[q].ofile[fe]
      BY <1>19, FdFile
    <2> QED BY <1>12, <1>13, <1>19, <2>1
  <1>20. ASSUME NEW q \in Procs \ {p} PROVE ProcOK(q)'
    <2>1. ASSUME Lab(Body(pc[q])) = "openset"
          PROVE  Desc(loc[q].f)' = Desc(loc[q].f) /\ ftab'[loc[q].f].ip = ftab[loc[q].f].ip
      <3>1. PICK e \in Fds : loc[q].f # 0 /\ Desc(loc[q].f) = {<<q, e>>}
        BY <2>1 DEF RInv, Opening
      <3>2. loc[q].f \in 0..NFILE
        BY <1>3 DEF Locs
      <3>3. PICK g \in 1..NFILE : g = loc[q].f
        BY <3>1, <3>2, FileSysAssumption
      <3>4. g # f
        <4>1. <<q, e>> # <<p, fd>>
          BY <1>20
        <4> QED BY <1>11, <3>1, <3>3, <4>1
      <3>5. ftab'[g].ip = ftab[g].ip
        BY <1>13, <3>4
      <3> QED BY <1>2, <1>16, <3>3, <3>5
    <2>2. FilesServe(q)
      BY <1>19, <2>1 DEF FilesServe
    <2> QED BY <1>15, <2>2, OtherOK
  <1>21. ProcOK(p)'
    <2>1. CallOK(p)'
      BY <1>2, <1>3, <1>9, <1>10 DEF RInv, CallOK, HasCwd
    <2>2. Lab(Body(pc'[p])) # "openset" /\ Lab(Body(pc'[p])) # "write" /\ Lab(Body(pc'[p])) # "zombie"
      BY <1>7, <1>9, <1>10, PutCalm DEF OnlyCwd, Calm, LeftLabels
    <2>3. DescOK(p)
      BY DEF RInv
    <2>4. DescOK(p)'
      <3>1. SUFFICES ASSUME NEW e \in Fds, proc[p].ofile[e] # 0 PROVE ftab'[proc[p].ofile[e]].ip # 0
        BY <1>2, <1>3, <2>2 DEF DescOK
      <3>2. CASE ftab[proc[p].ofile[e]].ip # 0
        BY <1>19, <3>1, <3>2
      <3>3. CASE ftab[proc[p].ofile[e]].ip = 0
        <4>1. proc[p].ofile[e] = f
          BY <1>1, <2>3, <3>1, <3>3 DEF DescOK
        <4> QED BY <1>12, <1>13, <4>1
      <3> QED BY <3>2, <3>3
    <2>5. Writing(p)' /\ Opening(p)'
      BY <2>2 DEF Writing, Opening
    <2> QED BY <2>1, <2>4, <2>5 DEF ProcOK
  <1>22. Up(fs')
    BY <1>2, <1>3
  <1> QED BY <1>14, <1>17, <1>18, <1>20, <1>21, <1>22, Together DEF RInvParts


\* sys_dup counts one descriptor more.
LEMMA SysDupStep ==
  ASSUME RInv, NEW p \in Procs, SysDup(p)
  PROVE  Good'
  <1>1. PICK f, fd : f = File(p) /\ fd = Min(FreeFds(p))
    OBVIOUS
  <1>2. /\ AtUser(p) /\ UNCHANGED <<fs, todo>> /\ \E r : Answers(p, r)
        /\ \/ UNCHANGED <<ftab, proc>>
           \/ ~BadFd(p) /\ FreeFds(p) # {} /\ SetFd(p, fd, f) /\ SetRef(f, ftab[f].ref + 1)
    <2>1. ASSUME ftab' = [ftab EXCEPT ![f].ref = @ + 1] PROVE SetRef(f, ftab[f].ref + 1)
      BY <2>1 DEF SetRef
    <2> QED BY <1>1, <2>1, CallsFrom DEF SysDup, SetFd
  <1>3. PICK N : Sound(fs, N)
    BY FsNames
  <1>4. CASE UNCHANGED <<ftab, proc>>
    BY <1>2, <1>3, <1>4, KeptSelf, FilesStay, AnswersStep
  <1>5. CASE ~BadFd(p) /\ FreeFds(p) # {} /\ SetFd(p, fd, f) /\ SetRef(f, ftab[f].ref + 1)
    <2>1. f \in 1..NFILE /\ ftab[f].ip \in Inums /\ f # 0 /\ f \in 0..NFILE
      <3>1. Op(p).fd \in Fds /\ proc[p].ofile[Op(p).fd] # 0 /\ f = proc[p].ofile[Op(p).fd]
        BY <1>1, <1>5 DEF BadFd, File
      <3> QED BY <1>2, <3>1, OpenIp, FdFile
    <2>2. fd \in Fds /\ proc[p].ofile[fd] = 0
      <3>1. FreeFds(p) \subseteq Nat
        BY FileSysAssumption DEF FreeFds, Fds
      <3>2. fd \in FreeFds(p)
        BY <1>1, <1>5, <3>1, MinIn
      <3> QED BY <3>2 DEF FreeFds
    <2>3. ftab[f].ref \in Nat /\ ftab[f].ref + 1 \in Nat
      BY <2>1, DescNone
    <2>4. /\ \E A : ftab' \in [1..NFILE -> FileRec(A)]
          /\ ftab'[f].ref = ftab[f].ref + 1 /\ ftab'[f].ip = ftab[f].ip /\ ftab'[f].type = ftab[f].type /\ ftab'[f].wr = ftab[f].wr
          /\ \A g \in 1..NFILE \ {f} : ftab'[g] = ftab[g]
          /\ \A g \in 1..NFILE : ftab'[g].ip = ftab[g].ip
      BY <1>5, <2>1, <2>3, RefFile
    <2>5. /\ proc' \in [Procs -> ProcRec] /\ proc'[p].st = proc[p].st /\ proc'[p].cwd = proc[p].cwd
          /\ proc'[p].ofile[fd] = f /\ \A e \in Fds \ {fd} : proc'[p].ofile[e] = proc[p].ofile[e]
          /\ \A q \in Procs \ {p} : proc'[q] = proc[q]
      BY <1>5, <2>1, <2>2, FdProc
    <2>6. Up(fs) /\ OnlyCwd(pc[p]) /\ proc[p].st = "run" /\ pc \in [Procs -> Stacks] /\ loc \in [Procs -> Locs]
      BY <1>2, CwdForms DEF AtUser, RInv, TypeInv
    <2>7. PICK s : s = <<"ret">>
      OBVIOUS
    <2>8. OnlyCwd(s) /\ s \in PutBodies
      BY <2>7, CwdForms, Forms DEF Form
    <2>9. pc' = [pc EXCEPT ![p] = s] /\ loc' = loc
      <3>1. <<>> \o <<"ret">> = <<"ret">>
        OBVIOUS
      <3> QED BY <1>2, <2>7, <3>1 DEF Answers, Enters
    <2>10. s \in Stacks /\ HasCwd(s, loc[p]) /\ HasCwd(pc[p], loc[p]) /\ Body(s) = s
      BY <2>6, <2>8, OnlyCwdHas
    <2>11. pc'[p] = s /\ loc'[p] = loc[p] /\ \A q \in Procs \ {p} : pc'[q] = pc[q]
      BY <2>6, <2>9
    <2>12. TypeInv'
      BY <1>2, <2>4, <2>5, <2>9, <2>10 DEF RInv, TypeInv
    <2>13. \A q \in Procs \ {p} : Same(q)
      BY <1>2, <2>5, <2>9, <2>11 DEF Same
    <2>14. RefsCounted'
      <3>1. SUFFICES ASSUME NEW j \in Inums PROVE (fs'.mem[j].ref = Held(j)' + Cardinality(FilesOf(j)'))
        BY DEF RefsCounted
      <3>2. \A q \in Procs \ {p} : SameHolds(q, j)
        BY <2>13, SameHeld DEF Same
      <3>3. FilesOf(j)' = FilesOf(j) /\ fs' = fs /\ 0 \in Nat
        BY <1>2, <2>4 DEF FilesOf
      <3>4. fs.mem[j].ref \in Nat
        BY RefNat DEF RInv, TypeInv
      <3>5. Has(pc'[p], loc'[p], proc'[p].cwd, j) = Has(pc[p], loc[p], proc[p].cwd, j)
        BY <2>5, <2>10, <2>11 DEF HasCwd
      <3> QED BY <3>2, <3>3, <3>4, <3>5, RefMoves
    <2>15. ASSUME NEW g \in 1..NFILE PROVE FileOK(g)'
      <3>1. FileOK(g) /\ g # 0
        BY FileSysAssumption DEF RInv
      <3>2. /\ Cardinality(Desc(g)) \in Nat /\ Cardinality(Desc(g)') \in Nat
            /\ Cardinality(Desc(g)') + One(proc[p].ofile[fd] = g) = Cardinality(Desc(g)) + One(f = g)
        BY <1>5, <2>1, <2>2, DescStep
      <3>3. One(proc[p].ofile[fd] = g) = 0
        BY <2>2, <3>1 DEF One
      <3>4. CASE g = f
        <4>1. Cardinality(Desc(g)') = Cardinality(Desc(g)) + 1
          BY <3>2, <3>3, <3>4 DEF One
        <4> QED BY <2>3, <2>4, <3>1, <3>2, <3>4, <4>1 DEF FileOK
      <3>5. CASE g # f
        <4>1. Cardinality(Desc(g)') = Cardinality(Desc(g))
          BY <3>2, <3>3, <3>5 DEF One
        <4> QED BY <2>4, <3>1, <3>5, <4>1 DEF FileOK
      <3> QED BY <3>4, <3>5
    <2>16. ASSUME NEW q \in Procs \ {p} PROVE ProcOK(q)'
      <3>1. ASSUME Lab(Body(pc[q])) = "openset"
            PROVE  Desc(loc[q].f)' = Desc(loc[q].f) /\ ftab'[loc[q].f].ip = ftab[loc[q].f].ip
        <4>1. loc[q].f # 0 /\ ftab[loc[q].f].ip = 0
          BY <3>1 DEF RInv, Opening
        <4>2. loc[q].f \in 0..NFILE
          BY <2>6 DEF Locs
        <4>3. PICK g \in 1..NFILE : g = loc[q].f
          BY <4>1, <4>2, FileSysAssumption
        <4>4. g # f /\ g # 0
          BY <2>1, <4>1, <4>3, InumsInos
        <4>5. Desc(g)' = Desc(g) /\ ftab'[g].ip = ftab[g].ip
          BY <1>5, <2>1, <2>2, <2>4, <4>4, DescStep
        <4> QED BY <2>9, <4>3, <4>5
      <3>2. FilesServe(q)
        BY <2>4, <3>1, FdFile DEF FilesServe
      <3> QED BY <2>13, <3>2, OtherOK
    <2>17. ProcOK(p)'
      <3>1. CallOK(p)'
        BY <2>5, <2>6, <2>10, <2>11 DEF RInv, CallOK, HasCwd
      <3>2. /\ Lab(Body(pc'[p])) # "openset" /\ Lab(Body(pc'[p])) # "write" /\ Lab(Body(pc'[p])) # "zombie"
            /\ Lab(Body(pc[p])) # "openset"
        BY <2>6, <2>8, <2>10, <2>11, PutCalm DEF OnlyCwd, HasCwd, Calm, LeftLabels
      <3>3. DescOK(p)
        BY DEF RInv
      <3>4. DescOK(p)'
        <4>1. SUFFICES ASSUME NEW e \in Fds, proc'[p].ofile[e] # 0 PROVE ftab'[proc'[p].ofile[e]].ip # 0
          BY <2>5, <2>6, <3>2 DEF DescOK
        <4>2. CASE e = fd
          BY <2>1, <2>4, <2>5, <4>2, InumsInos
        <4>3. CASE e # fd
          <5>1. proc'[p].ofile[e] = proc[p].ofile[e] /\ proc[p].ofile[e] \in 1..NFILE
            BY <2>5, <4>1, <4>3, FdFile
          <5> QED BY <2>4, <3>2, <3>3, <4>1, <5>1 DEF DescOK
        <4> QED BY <4>2, <4>3
      <3>5. Writing(p)' /\ Opening(p)'
        BY <3>2 DEF Writing, Opening
      <3> QED BY <3>1, <3>4, <3>5 DEF ProcOK
    <2>18. Up(fs')
      BY <1>2, <2>6
    <2> QED BY <2>12, <2>14, <2>15, <2>16, <2>17, <2>18, Together DEF RInvParts
  <1> QED BY <1>2, <1>4, <1>5


CloseFile(f) == ftab' = [ftab EXCEPT ![f] = Closed(f)]

\* The table of files after fileclose.
LEMMA ClosedFile ==
  ASSUME RInv, NEW f \in 1..NFILE, ftab[f].ref \in Nat \ {0}, CloseFile(f)
  PROVE  /\ \E A : ftab' \in [1..NFILE -> FileRec(A)]
         /\ ftab'[f].ref + 1 = ftab[f].ref /\ ftab'[f].ref \in Nat
         /\ ftab[f].ref = 1 => ftab'[f].ip = 0 /\ ftab'[f].type = "none" /\ ftab'[f].wr = FALSE
         /\ ftab[f].ref # 1 => ftab'[f].ip = ftab[f].ip /\ ftab'[f].type = ftab[f].type /\ ftab'[f].wr = ftab[f].wr
         /\ \A g \in 1..NFILE \ {f} : ftab'[g] = ftab[g]
  <1>1. PICK A : ftab \in [1..NFILE -> FileRec(A)]
    BY DEF RInv, TypeInv
  <1>2. PICK B : B = A \cup {FALSE}
    OBVIOUS
  <1>3. ftab \in [1..NFILE -> FileRec(B)]
    <2>1. \A r \in FileRec(A) : r \in FileRec(B)
      BY <1>2 DEF FileRec
    <2> QED BY <1>1, <2>1
  <1>4. PICK r : r = Closed(f)
    OBVIOUS
  <1>5. ftab' \in [1..NFILE -> FileRec(B)] /\ ftab'[f] = r /\ \A g \in 1..NFILE \ {f} : ftab'[g] = ftab[g]
        /\ r \in FileRec(B)
    <2>1. r \in FileRec(B)
      <3>1. CASE ftab[f].ref = 1
        <4>1. NoFile \in FileRec(B)
          BY <1>2, ZeroInos DEF NoFile, FileRec
        <4> QED BY <1>4, <3>1, <4>1 DEF Closed
      <3>2. CASE ftab[f].ref # 1
        <4>1. r = [ftab[f] EXCEPT !.ref = @ - 1] /\ ftab[f].ref - 1 \in Nat
          BY <1>4, <3>2 DEF Closed
        <4>2. ftab[f] \in FileRec(B)
          BY <1>3
        <4> QED BY <4>1, <4>2 DEF FileRec
      <3> QED BY <3>1, <3>2
    <2> QED BY <1>3, <1>4, <2>1 DEF CloseFile
  <1>6. CASE ftab[f].ref = 1
    <2>1. r = NoFile
      BY <1>4, <1>6 DEF Closed
    <2>2. r.ref = 0 /\ r.ip = 0 /\ r.type = "none" /\ r.wr = FALSE
      BY <2>1 DEF NoFile
    <2> QED BY <1>5, <1>6, <2>2
  <1>7. CASE ftab[f].ref # 1
    <2>1. r = [ftab[f] EXCEPT !.ref = @ - 1]
      BY <1>4, <1>7 DEF Closed
    <2>2. ftab[f] \in FileRec(B)
      BY <1>3
    <2>3. r.ref = ftab[f].ref - 1 /\ r.ip = ftab[f].ip /\ r.type = ftab[f].type /\ r.wr = ftab[f].wr
      BY <2>1, <2>2 DEF FileRec
    <2> QED BY <1>5, <1>7, <2>3
  <1> QED BY <1>6, <1>7

\* The step of p, from between two calls, to the stack s, which may start with iput.
LEMMA PutHas ==
  ASSUME NEW s, OnlyCwd(Body(s)), NEW l
  PROVE  \A c, j : Has(s, l, c, j) = One(InPut(s) /\ l.x = j) + One(c = j)
  BY DEF OnlyCwd, Has, HoldsX, HoldsIp, HoldsDp, HoldsOld, HoldsCwd, One

\* fileclose's last close hands the file's reference to iput; others count one less.
LEMMA CloseStep ==
  ASSUME RInv, NEW p \in Procs, AtUser(p), NEW fd \in Fds, NEW f, f = proc[p].ofile[fd], f # 0, CloseFile(f), SetFd(p, fd, 0),
         NEW s, NEW l, Goes(p, s, l), OnlyCwd(Body(s)), Calm(Body(s)), InPut(s) <=> LastClose(f), InPut(s) => l.x = ftab[f].ip,
         UNCHANGED <<fs, todo>>
  PROVE  Good'
  <1>1. f \in 1..NFILE /\ ftab[f].ip \in Inums /\ ftab[f].ip # 0
    <2>1. f \in 1..NFILE /\ ftab[f].ip \in Inums
      BY OpenIp
    <2> QED BY <2>1, InumsInos
  <1>2. /\ ftab[f].ref = Cardinality(Desc(f)) /\ ftab[f].ref \in Nat \ {0} /\ ftab[f].type = "inode"
    <2>1. ftab[f].ref \in Nat /\ ftab[f].ref = Cardinality(Desc(f)) /\ ftab[f].ref # 0 /\ ftab[f].type # "none"
      BY <1>1, DescNone
    <2>2. ftab[f].type \in {"none", "inode"}
      BY <1>1 DEF RInv, TypeInv, FileRec
    <2> QED BY <2>1, <2>2
  <1>3. InPut(s) <=> ftab[f].ref = 1
    BY <1>2 DEF LastClose
  <1>4. /\ \E A : ftab' \in [1..NFILE -> FileRec(A)]
        /\ ftab'[f].ref + 1 = ftab[f].ref /\ ftab'[f].ref \in Nat
        /\ ftab[f].ref = 1 => ftab'[f].ip = 0 /\ ftab'[f].type = "none" /\ ftab'[f].wr = FALSE
        /\ ftab[f].ref # 1 => ftab'[f].ip = ftab[f].ip /\ ftab'[f].type = ftab[f].type /\ ftab'[f].wr = ftab[f].wr
        /\ \A g \in 1..NFILE \ {f} : ftab'[g] = ftab[g]
    BY <1>1, <1>2, ClosedFile
  <1>5. 0 \in 0..NFILE
    BY FileSysAssumption
  <1>6. /\ proc' \in [Procs -> ProcRec] /\ proc'[p].st = proc[p].st /\ proc'[p].cwd = proc[p].cwd
        /\ proc'[p].ofile[fd] = 0 /\ \A e \in Fds \ {fd} : proc'[p].ofile[e] = proc[p].ofile[e]
        /\ \A q \in Procs \ {p} : proc'[q] = proc[q]
    BY <1>5, FdProc
  <1>7. Up(fs) /\ OnlyCwd(pc[p]) /\ proc[p].st = "run" /\ pc \in [Procs -> Stacks] /\ loc \in [Procs -> Locs]
    BY CwdForms DEF AtUser, RInv, TypeInv
  <1>8. pc'[p] = s /\ loc'[p] = l /\ \A q \in Procs \ {p} : pc'[q] = pc[q] /\ loc'[q] = loc[q]
    BY <1>7 DEF Goes
  <1>9. TypeInv'
    BY <1>4, <1>6, <1>7 DEF RInv, TypeInv, Goes
  <1>10. \A q \in Procs \ {p} : Same(q)
    BY <1>6, <1>8 DEF Same
  <1>11. HasCwd(pc[p], loc[p])
    BY <1>7, OnlyCwdHas
  <1>12. RefsCounted'
    <2>1. SUFFICES ASSUME NEW j \in Inums PROVE (fs'.mem[j].ref = Held(j)' + Cardinality(FilesOf(j)'))
      BY DEF RefsCounted
    <2>2. \A q \in Procs \ {p} : SameHolds(q, j)
      BY <1>10, SameHeld DEF Same
    <2>3. Cardinality(FilesOf(j)') + One(ftab[f].ip = j) = Cardinality(FilesOf(j)) + One(ftab'[f].ip = j)
      BY <1>1, <1>4, FilesStep
    <2>4. One(ftab[f].ip = j) \in Nat /\ One(ftab'[f].ip = j) \in Nat /\ j # 0
      BY InumsInos DEF One
    <2>5. fs'.mem[j].ref = fs.mem[j].ref /\ fs.mem[j].ref \in Nat
      BY RefNat DEF RInv, TypeInv
    <2>6. Has(pc[p], loc[p], proc[p].cwd, j) = One(proc[p].cwd = j)
      BY <1>11 DEF HasCwd
    <2>7. Has(pc'[p], loc'[p], proc'[p].cwd, j) = One(InPut(s) /\ l.x = j) + One(proc[p].cwd = j)
      BY <1>6, <1>8, PutHas
    <2>8. One(ftab[f].ip = j) = One(InPut(s) /\ l.x = j) + One(ftab'[f].ip = j)
      BY <1>1, <1>3, <1>4, <2>4 DEF One
    <2>9. fs'.mem[j].ref + (Has(pc[p], loc[p], proc[p].cwd, j) + One(ftab[f].ip = j))
          = fs.mem[j].ref + (Has(pc'[p], loc'[p], proc'[p].cwd, j) + One(ftab'[f].ip = j))
      BY <2>5, <2>6, <2>7, <2>8 DEF One
    <2> QED BY <2>2, <2>3, <2>4, <2>5, <2>9, RefMoves
  <1>13. ASSUME NEW g \in 1..NFILE
         PROVE  /\ Cardinality(Desc(g)') \in Nat /\ Cardinality(Desc(g)) \in Nat
                /\ g = f => Cardinality(Desc(g)') + 1 = Cardinality(Desc(g))
                /\ g # f => Desc(g)' = Desc(g)
    <2>1. g # 0
      BY FileSysAssumption
    <2>2. /\ Cardinality(Desc(g)) \in Nat /\ Cardinality(Desc(g)') \in Nat
          /\ Cardinality(Desc(g)') + One(proc[p].ofile[fd] = g) = Cardinality(Desc(g)) + One(0 = g)
          /\ g # 0 /\ g # proc[p].ofile[fd] => Desc(g)' = Desc(g)
      BY <1>5, DescStep
    <2> QED BY <2>1, <2>2 DEF One
  <1>14. ASSUME NEW g \in 1..NFILE PROVE FileOK(g)'
    <2>1. FileOK(g)
      BY DEF RInv
    <2>2. CASE g = f
      <3>1. ftab'[g].ref = Cardinality(Desc(g)')
        BY <1>2, <1>4, <1>13, <2>2
      <3>2. CASE ftab[f].ref = 1
        BY <1>4, <2>2, <3>1, <3>2 DEF FileOK
      <3>3. CASE ftab[f].ref # 1
        <4>1. ftab'[f].ref # 0
          BY <1>4, <3>3
        <4> QED BY <1>4, <2>1, <2>2, <3>1, <3>3, <4>1 DEF FileOK
      <3> QED BY <3>2, <3>3
    <2>3. CASE g # f
      BY <1>4, <1>13, <2>1, <2>3 DEF FileOK
    <2> QED BY <2>2, <2>3
  <1>15. ASSUME NEW q \in Procs, NEW e \in Fds, proc'[q].ofile[e] # 0, proc'[q].ofile[e] = proc[q].ofile[e],
                ftab[proc[q].ofile[e]].ip # 0
         PROVE  ftab'[proc[q].ofile[e]].ip # 0
    <2>1. PICK g \in 1..NFILE : g = proc[q].ofile[e]
      BY <1>15, FdFile
    <2>2. CASE g # f
      BY <1>4, <1>15, <2>1, <2>2
    <2>3. CASE g = f
      <3>1. PICK d : d = <<q, e>>
        OBVIOUS
      <3>2. d \in Procs \X Fds /\ d[1] = q /\ d[2] = e
        BY <3>1
      <3>3. d \in Desc(f)'
        BY <1>15, <2>1, <2>3, <3>2 DEF Desc
      <3>4. IsFiniteSet(Desc(f)')
        BY PairsFinite, FS_Subset DEF Desc
      <3>5. Cardinality(Desc(f)') # 0
        BY <3>3, <3>4, FS_EmptySet
      <3>6. ftab[f].ref # 1
        BY <1>2, <1>13, <2>3, <3>5
      <3> QED BY <1>1, <1>4, <2>1, <2>3, <3>6
    <2> QED BY <2>2, <2>3
  <1>16. ASSUME NEW q \in Procs \ {p} PROVE ProcOK(q)'
    <2>1. ASSUME Lab(Body(pc[q])) = "openset"
          PROVE  Desc(loc[q].f)' = Desc(loc[q].f) /\ ftab'[loc[q].f].ip = ftab[loc[q].f].ip
      <3>1. loc[q].f # 0 /\ ftab[loc[q].f].ip = 0
        BY <2>1 DEF RInv, Opening
      <3>2. loc[q].f \in 0..NFILE
        BY <1>7 DEF Locs
      <3>3. PICK g \in 1..NFILE : g = loc[q].f
        BY <3>1, <3>2, FileSysAssumption
      <3>4. g # f
        BY <1>1, <3>1, <3>3
      <3>5. Desc(g)' = Desc(g) /\ ftab'[g].ip = ftab[g].ip
        BY <1>4, <1>13, <3>4
      <3>6. loc'[q].f = g
        BY <1>8, <3>3
      <3> QED BY <3>3, <3>5, <3>6
    <2>2. FilesServe(q)
      BY <1>6, <1>15, <2>1 DEF FilesServe
    <2> QED BY <1>10, <2>2, OtherOK
  <1>17. ProcOK(p)'
    <2>1. CallOK(p)'
      BY <1>6, <1>7, <1>8 DEF RInv, CallOK, Goes
    <2>2. Lab(Body(pc'[p])) # "openset" /\ Lab(Body(pc'[p])) # "write" /\ Lab(Body(pc'[p])) # "zombie"
      BY <1>8 DEF OnlyCwd, Calm, LeftLabels
    <2>3. Lab(Body(pc[p])) # "openset"
      BY <1>7, <1>11 DEF OnlyCwd, HasCwd
    <2>4. DescOK(p)
      BY DEF RInv
    <2>5. DescOK(p)'
      <3>1. SUFFICES ASSUME NEW e \in Fds, proc'[p].ofile[e] # 0 PROVE ftab'[proc'[p].ofile[e]].ip # 0
        BY <1>6, <1>7, <2>2 DEF DescOK
      <3>2. proc'[p].ofile[e] = proc[p].ofile[e]
        BY <1>6, <3>1
      <3>3. ftab[proc[p].ofile[e]].ip # 0
        BY <2>3, <2>4, <3>1, <3>2 DEF DescOK
      <3> QED BY <1>15, <3>1, <3>2, <3>3
    <2>6. Writing(p)' /\ Opening(p)'
      BY <2>2 DEF Writing, Opening
    <2> QED BY <2>1, <2>5, <2>6 DEF ProcOK
  <1>18. Up(fs')
    BY <1>7
  <1> QED BY <1>9, <1>12, <1>14, <1>16, <1>17, <1>18, Together DEF RInvParts


SetX(p, i) == loc' = [loc EXCEPT ![p].x = i]
\* What a process at body b needs no locals for.
Plain(b) == b \in PutBodies /\ Lab(b) \notin IpLabels /\ Lab(b) \notin IpSure /\ Lab(b) \notin DpLabels /\ b \notin Linking

PutThen(s, b) == s = <<"iput">> \o b
\* The stack and the locals with which p now runs iput(i), and then b.
Putting(p, s, b, i) == \E l : Goes(p, s, l) /\ InPut(s) /\ Body(s) = b /\ l.x = i /\ s # <<>>

\* Where a process can go after fileclose.
LEMMA Plains ==
  Plain(<<"ret">>) /\ Plain(<<>>) /\ Plain(<<"zombie">>) /\ Lab(<<"zombie">>) = "zombie"
  BY DEF Plain, Lab, PutBodies, Bodies, Ends, IpLabels, IpSure, DpLabels, Linking

\* The stack of a call that puts an inode and goes on.
LEMMA PutsNow ==
  ASSUME RInv, NEW p \in Procs, NEW b, Plain(b), NEW i \in Inums, NEW s, PutThen(s, b), Begins(p, s), SetX(p, i)
  PROVE  Putting(p, s, b, i)
  <1>1. s \in Stacks /\ InPut(s) /\ Body(s) = b /\ s # <<>>
    BY PutStack DEF PutThen, PutLabels, Plain
  <1>2. i \in Inos /\ i # 0
    BY InumsInos
  <1>3. PICK l : l = [loc[p] EXCEPT !.x = i]
    OBVIOUS
  <1>4. loc \in [Procs -> Locs]
    BY DEF RInv, TypeInv
  <1>5. l \in Locs /\ l.x = i
    BY <1>2, <1>3, <1>4 DEF Locs
  <1>6. loc' = [loc EXCEPT ![p] = l]
    BY <1>3, <1>4 DEF SetX
  <1>7. Kernel(s, l)
    BY <1>1, <1>2, <1>5 DEF Kernel, Plain
  <1> QED BY <1>1, <1>5, <1>6, <1>7 DEF Putting, Goes, Begins

\* sys_close keeps the invariant.
LEMMA SysCloseStep ==
  ASSUME RInv, NEW p \in Procs, SysClose(p)
  PROVE  Good'
  <1>1. PICK f : f = File(p)
    OBVIOUS
  <1>2. /\ AtUser(p) /\ UNCHANGED <<fs, todo>>
        /\ \/ UNCHANGED <<ftab, proc>> /\ \E r : Answers(p, r)
           \/ /\ ~BadFd(p) /\ CloseFile(f) /\ SetFd(p, Op(p).fd, 0)
              /\ \/ LastClose(f) /\ SetX(p, ftab[f].ip) /\ \E r : Enters(p, <<"iput">>, r)
                 \/ ~LastClose(f) /\ \E r : Answers(p, r)
    BY <1>1, CallsFrom DEF SysClose, CloseFile, SetFd, SetX
  <1>3. PICK N : Sound(fs, N)
    BY FsNames
  <1>4. CASE UNCHANGED <<ftab, proc>> /\ \E r : Answers(p, r)
    BY <1>2, <1>3, <1>4, KeptSelf, FilesStay, AnswersStep
  <1>5. CASE ~BadFd(p) /\ CloseFile(f) /\ SetFd(p, Op(p).fd, 0)
    <2>1. PICK fd \in Fds : fd = Op(p).fd /\ f = proc[p].ofile[fd] /\ f # 0
      BY <1>1, <1>5 DEF BadFd, File
    <2>2. OnlyCwd(<<"ret">>) /\ Calm(<<"ret">>) /\ Plain(<<"ret">>) /\ <<"ret">> \in Bodies
      BY CwdForms, Forms, Plains DEF Form, PutBodies
    <2>3. CASE LastClose(f) /\ SetX(p, ftab[f].ip) /\ \E r : Enters(p, <<"iput">>, r)
      <3>1. ftab[f].ip \in Inums
        BY <1>2, <2>1, OpenIp
      <3>2. PICK s : s = <<"iput">> \o <<"ret">>
        OBVIOUS
      <3>3. Begins(p, s)
        BY <2>3, <3>2 DEF Enters, Begins
      <3>a. PICK b : b = <<"ret">>
        OBVIOUS
      <3>4. PICK i \in Inums : i = ftab[f].ip
        BY <3>1
      <3>5. SetX(p, i) /\ PutThen(s, b) /\ Plain(b)
        BY <2>2, <2>3, <3>a, <3>2, <3>4 DEF PutThen
      <3>6. Putting(p, s, b, i)
        BY ONLY RInv, p \in Procs, i \in Inums, <3>3, <3>5, PutsNow
      <3>7. PICK l : Goes(p, s, l) /\ InPut(s) /\ Body(s) = <<"ret">> /\ l.x = ftab[f].ip
        BY <3>a, <3>4, <3>6 DEF Putting
      <3> QED BY <1>2, <1>5, <2>1, <2>2, <2>3, <3>7, CloseStep
    <2>4. CASE ~LastClose(f) /\ \E r : Answers(p, r)
      <3>1. PICK s : s = <<"ret">>
        OBVIOUS
      <3>2. s \in Stacks /\ ~InPut(s) /\ Body(s) = s /\ OnlyCwd(s) /\ Calm(s)
        BY <2>2, <3>1, BodyStack
      <3>3. pc' = [pc EXCEPT ![p] = s] /\ UNCHANGED loc
        <4>1. <<>> \o <<"ret">> = <<"ret">>
          OBVIOUS
        <4> QED BY <2>4, <3>1, <4>1 DEF Answers, Enters
      <3>4. loc' = [loc EXCEPT ![p] = loc[p]] /\ loc[p] \in Locs
        BY <3>3, LocStays
      <3>5. Kernel(s, loc[p])
        BY <3>2, OnlyCwdHas
      <3>6. Goes(p, s, loc[p])
        BY <3>2, <3>3, <3>4, <3>5 DEF Goes
      <3> QED BY <1>2, <1>5, <2>1, <2>4, <3>2, <3>6, CloseStep
    <2> QED BY <1>1, <1>2, <1>5, <2>1, <2>3, <2>4 DEF BadFd, SysClose, CloseFile, SetFd, SetX
  <1> QED BY <1>2, <1>4, <1>5

\* Every step of exit, a file closed or the directory put, keeps the invariant.
LEMMA ExitStep ==
  ASSUME RInv, NEW p \in Procs, Exit(p)
  PROVE  Good'
  <1>1. PICK fd, f : fd = Min(Open(p)) /\ f = proc[p].ofile[fd]
    OBVIOUS
  <1>2. /\ AtUser(p) /\ UNCHANGED <<fs, todo>>
        /\ \/ /\ Open(p) # {} /\ CloseFile(f) /\ SetFd(p, fd, 0)
              /\ \/ LastClose(f) /\ SetX(p, ftab[f].ip) /\ Begins(p, <<"iput">>)
                 \/ ~LastClose(f) /\ UNCHANGED <<loc, pc>>
           \/ Open(p) = {} /\ SetX(p, proc[p].cwd) /\ Begins(p, <<"iput", "zombie">>) /\ UNCHANGED <<ftab, proc>>
    BY <1>1 DEF Exit, AtUser, CloseFile, SetFd, SetX, Begins
  <1>3. /\ Form(pc[p], FALSE, FALSE, FALSE, FALSE, TRUE) /\ Body(pc[p]) = pc[p] /\ ~InPut(pc[p]) /\ pc[p] \in PutBodies
        /\ Kernel(pc[p], loc[p]) /\ proc[p].st = "run" /\ proc[p].cwd \in Inums
        /\ pc \in [Procs -> Stacks] /\ loc \in [Procs -> Locs] /\ loc[p] \in Locs
    BY <1>2, UserHas
  <1>4. CASE Open(p) # {} /\ CloseFile(f) /\ SetFd(p, fd, 0)
    <2>1. fd \in Fds /\ f # 0
      <3>1. Open(p) \subseteq Nat
        BY FileSysAssumption DEF Open, Fds
      <3>2. fd \in Open(p)
        BY <1>1, <1>4, <3>1, MinIn
      <3> QED BY <1>1, <3>2 DEF Open
    <2>2. OnlyCwd(<<>>) /\ Calm(<<>>) /\ Plain(<<>>)
      BY CwdForms, Forms, Plains DEF Form
    <2>3. CASE LastClose(f) /\ SetX(p, ftab[f].ip) /\ Begins(p, <<"iput">>)
      <3>1. ftab[f].ip \in Inums
        BY <1>1, <1>2, <2>1, OpenIp
      <3>2. PICK s : s = <<"iput">> \o <<>>
        OBVIOUS
      <3>3. <<"iput">> \o <<>> = <<"iput">>
        OBVIOUS
      <3>4. Begins(p, s)
        BY <2>3, <3>2, <3>3
      <3>a. PICK b : b = <<>>
        OBVIOUS
      <3>5. PICK i \in Inums : i = ftab[f].ip
        BY <3>1
      <3>6. SetX(p, i) /\ PutThen(s, b) /\ Plain(b)
        BY <2>2, <2>3, <3>a, <3>2, <3>5 DEF PutThen
      <3>7. Putting(p, s, b, i)
        BY ONLY RInv, p \in Procs, i \in Inums, <3>4, <3>6, PutsNow
      <3>8. PICK l : Goes(p, s, l) /\ InPut(s) /\ Body(s) = <<>> /\ l.x = ftab[f].ip
        BY <3>a, <3>5, <3>7 DEF Putting
      <3> QED BY <1>1, <1>2, <1>4, <2>1, <2>2, <2>3, <3>8, CloseStep
    <2>4. CASE ~LastClose(f) /\ UNCHANGED <<loc, pc>>
      <3>1. OnlyCwd(Body(pc[p])) /\ Calm(Body(pc[p]))
        BY <1>2, <1>3, <2>2 DEF AtUser
      <3>2. Goes(p, pc[p], loc[p])
        BY <1>3, <2>4 DEF Goes
      <3> QED BY <1>1, <1>2, <1>3, <1>4, <2>1, <2>4, <3>1, <3>2, CloseStep
    <2> QED BY <1>2, <1>4, <2>3, <2>4
  <1>5. CASE Open(p) = {} /\ SetX(p, proc[p].cwd) /\ Begins(p, <<"iput", "zombie">>) /\ UNCHANGED <<ftab, proc>>
    <2>1. PICK b, s : b = <<"zombie">> /\ s = <<"iput">> \o b
      OBVIOUS
    <2>2. Begins(p, s) /\ Plain(b) /\ Lab(b) = "zombie"
      BY <1>5, <2>1, Cat1, Plains
    <2>3. PICK l : Goes(p, s, l) /\ InPut(s) /\ Body(s) = b /\ l.x = proc[p].cwd /\ s # <<>>
      <3>1. PICK i \in Inums : i = proc[p].cwd
        BY <1>3
      <3>2. SetX(p, i) /\ PutThen(s, b)
        BY <1>5, <2>1, <3>1 DEF PutThen
      <3>3. Putting(p, s, b, i)
        BY ONLY RInv, p \in Procs, i \in Inums, <2>2, <3>2, PutsNow
      <3> QED BY <3>1, <3>3 DEF Putting
    <2>4. Calm(Body(pc[p])) /\ Calm(Body(s))
      BY <1>3, <2>2, <2>3, PutCalm DEF Plain
    <2>5. Clears(p, s)
      BY <1>5 DEF Clears
    <2>6. Moves(p, s, l)
      <3>1. SUFFICES ASSUME NEW j \in Inums
                     PROVE  fs'.mem[j].ref + Has(pc[p], loc[p], proc[p].cwd, j) = fs.mem[j].ref + Has(s, l, proc[p].cwd, j)
        BY DEF Moves
      <3>2. Has(pc[p], loc[p], proc[p].cwd, j) = Holds(pc[p], loc[p].ip, loc[p], proc[p].cwd, j)
        BY <1>3, HasHolds
      <3>3. Holds(pc[p], loc[p].ip, loc[p], proc[p].cwd, j) = One(proc[p].cwd = j)
        BY <1>3 DEF Holds, Form, One
      <3>4. Has(s, l, proc[p].cwd, j) = One(proc[p].cwd = j)
        BY <2>2, <2>3 DEF Plain, Has, HoldsX, HoldsIp, HoldsDp, HoldsOld, HoldsCwd, One, LeftLabels
      <3> QED BY <1>2, <3>2, <3>3, <3>4
    <2>7. \E N : Sound(fs', N)
      BY <1>2 DEF RInv, TypeInv
    <2> QED BY <1>2, <1>3, <1>5, <2>3, <2>4, <2>5, <2>6, <2>7, LocalStep
  <1> QED BY <1>2, <1>4, <1>5

-----------------------------------------------------------------------------
(* fork *)

\* The descriptors of p that are file g.
FdsOf(p, g) == {fd \in Open(p) : proc[p].ofile[fd] = g}
\* Process c becomes a child of p.
Child(p, c) ==
  proc' = [proc EXCEPT ![c] = [st |-> "run", parent |-> p, cwd |-> proc[p].cwd, ofile |-> proc[p].ofile]]
SharesFiles(p) == ftab' = [f \in 1..NFILE |-> [ftab[f] EXCEPT !.ref = @ + Cardinality(FdsOf(p, f))]]

\* The processes after fork.
LEMMA ChildProc ==
  ASSUME RInv, NEW p \in Procs, NEW c \in Procs, Child(p, c)
  PROVE  /\ proc' \in [Procs -> ProcRec] /\ proc'[c].st = "run" /\ proc'[c].cwd = proc[p].cwd
         /\ proc'[c].ofile = proc[p].ofile /\ \A q \in Procs \ {c} : proc'[q] = proc[q]
  <1>1. proc \in [Procs -> ProcRec] /\ proc[p] \in ProcRec
    BY DEF RInv, TypeInv
  <1>2. PICK r : r = [st |-> "run", parent |-> p, cwd |-> proc[p].cwd, ofile |-> proc[p].ofile]
    OBVIOUS
  <1>3. r \in ProcRec /\ r.st = "run" /\ r.cwd = proc[p].cwd /\ r.ofile = proc[p].ofile
    BY <1>1, <1>2 DEF ProcRec, States
  <1>4. proc' = [proc EXCEPT ![c] = r]
    BY <1>2 DEF Child
  <1> QED BY <1>1, <1>3, <1>4

\* The descriptors in A, as those of process c.
PairsWith(c, A) == {<<c, a>> : a \in A}

\* A bijection of the descriptors of p onto those that c gets.
LEMMA PairsCard ==
  ASSUME NEW A, IsFiniteSet(A), NEW c, NEW B, B = PairsWith(c, A)
  PROVE  IsFiniteSet(B) /\ Cardinality(B) = Cardinality(A)
  <1>1. PICK h : h = [a \in A |-> <<c, a>>]
    OBVIOUS
  <1>2. h \in [A -> B] /\ (\A a, b \in A : h[a] = h[b] => a = b) /\ \A t \in B : \E a \in A : h[a] = t
    BY <1>1 DEF PairsWith
  <1>3. h \in Bijection(A, B)
    BY <1>2 DEF Bijection, Injection, Surjection, IsInjective
  <1> QED BY <1>3, FS_Bijection DEF ExistsBijection

\* The child has as many descriptors of a file as its parent, and they are new.
LEMMA DescFork ==
  ASSUME RInv, NEW p \in Procs, NEW c \in Procs, p # c, \A fd \in Fds : proc[c].ofile[fd] = 0, Child(p, c), NEW g \in 1..NFILE
  PROVE  /\ Cardinality(Desc(g)) \in Nat /\ Cardinality(FdsOf(p, g)) \in Nat
         /\ Cardinality(Desc(g)') = Cardinality(Desc(g)) + Cardinality(FdsOf(p, g))
         /\ FdsOf(p, g) = {} => Desc(g)' = Desc(g)
  <1>1. proc'[c].ofile = proc[p].ofile /\ \A q \in Procs \ {c} : proc'[q] = proc[q]
    BY ChildProc
  <1>2. PICK A, B, S, T : A = FdsOf(p, g) /\ B = PairsWith(c, A) /\ S = Desc(g) /\ T = Desc(g)'
    OBVIOUS
  <1>3. IsFiniteSet(A) /\ IsFiniteSet(S) /\ S \in SUBSET (Procs \X Fds) /\ T \in SUBSET (Procs \X Fds) /\ A \subseteq Fds
    BY <1>2, PairsFinite, FS_Subset DEF FdsOf, Open, Desc
  <1>4. IsFiniteSet(B) /\ Cardinality(B) = Cardinality(A)
    BY <1>2, <1>3, PairsCard
  <1>5. g # 0
    BY FileSysAssumption
  <1>6. ASSUME NEW q \in Procs, NEW e \in Fds, NEW d, d = <<q, e>> PROVE d \in T <=> d \in S \/ d \in B
    <2>0. d \in Procs \X Fds /\ d[1] = q /\ d[2] = e
      BY <1>6
    <2>1. (d \in T <=> proc'[q].ofile[e] = g) /\ (d \in S <=> proc[q].ofile[e] = g)
      BY <1>2, <2>0 DEF Desc
    <2>2. CASE q = c
      <3>1. d \in B <=> e \in A
        BY <1>2, <1>6, <2>2 DEF PairsWith
      <3>2. e \in A <=> proc[p].ofile[e] = g
        BY <1>2, <1>5 DEF FdsOf, Open
      <3> QED BY <1>1, <1>5, <2>1, <2>2, <3>1, <3>2
    <2>3. CASE q # c
      BY <1>1, <1>2, <1>6, <2>1, <2>3 DEF PairsWith
    <2> QED BY <2>2, <2>3
  <1>7. B \in SUBSET (Procs \X Fds)
    BY <1>2, <1>3 DEF PairsWith
  <1>8. T = S \cup B
    BY <1>3, <1>6, <1>7
  <1>9. S \cap B = {}
    <2>1. SUFFICES ASSUME NEW a \in A, NEW d, d = <<c, a>>, d \in S PROVE FALSE
      BY <1>2 DEF PairsWith
    <2>2. d[1] = c /\ d[2] = a /\ a \in Fds
      BY <1>3, <2>1
    <2> QED BY <1>2, <1>5, <2>1, <2>2 DEF Desc
  <1>10. Cardinality(T) = Cardinality(S) + Cardinality(B)
    <2>1. Cardinality(S) \in Nat /\ Cardinality(B) \in Nat
      BY <1>3, <1>4, FS_CardinalityType
    <2>2. Cardinality(T) = Cardinality(S) + Cardinality(B) - Cardinality(S \cap B)
      BY <1>3, <1>4, <1>8, FS_Union
    <2>3. Cardinality(S \cap B) = 0
      BY <1>9, FS_EmptySet
    <2> QED BY <2>1, <2>2, <2>3
  <1>11. ASSUME A = {} PROVE T = S
    BY <1>2, <1>8, <1>11 DEF PairsWith
  <1> QED BY <1>2, <1>3, <1>4, <1>10, <1>11, FS_CardinalityType

\* The table of files after fork's calls of filedup.
LEMMA SharedFile ==
  ASSUME RInv, NEW p \in Procs, SharesFiles(p), \A g \in 1..NFILE : Cardinality(FdsOf(p, g)) \in Nat
  PROVE  /\ \E A : ftab' \in [1..NFILE -> FileRec(A)]
         /\ \A g \in 1..NFILE : /\ ftab'[g].ref = ftab[g].ref + Cardinality(FdsOf(p, g)) /\ ftab'[g].ip = ftab[g].ip
                                /\ ftab'[g].type = ftab[g].type /\ ftab'[g].wr = ftab[g].wr
  <1>1. PICK A : ftab \in [1..NFILE -> FileRec(A)]
    BY DEF RInv, TypeInv
  <1>2. ASSUME NEW g \in 1..NFILE
        PROVE  /\ ftab'[g] \in FileRec(A)
               /\ ftab'[g].ref = ftab[g].ref + Cardinality(FdsOf(p, g)) /\ ftab'[g].ip = ftab[g].ip
               /\ ftab'[g].type = ftab[g].type /\ ftab'[g].wr = ftab[g].wr
    <2>1. PICK r, n : n = Cardinality(FdsOf(p, g)) /\ r = [ftab[g] EXCEPT !.ref = @ + n]
      OBVIOUS
    <2>2. ftab'[g] = r
      BY <2>1 DEF SharesFiles
    <2>3. ftab[g] \in FileRec(A) /\ n \in Nat
      BY <1>1, <2>1
    <2>4. r \in FileRec(A) /\ r.ref = ftab[g].ref + n /\ r.ip = ftab[g].ip /\ r.type = ftab[g].type /\ r.wr = ftab[g].wr
      BY <2>1, <2>3 DEF FileRec
    <2> QED BY <2>1, <2>2, <2>4
  <1>3. ftab' = [g \in 1..NFILE |-> ftab'[g]]
    BY DEF SharesFiles
  <1>4. ftab' \in [1..NFILE -> FileRec(A)]
    BY <1>2, <1>3
  <1> QED BY <1>2, <1>4


\* The script that the child begins with.
GivesTodo(c, t) == todo' = [todo EXCEPT ![c] = t]

\* fork's calls of filedup and idup keep the invariant.
LEMMA ForkStep ==
  ASSUME RInv, NEW p \in Procs, AtUser(p), NEW c \in Procs, proc[c].st = "unused", Child(p, c), SharesFiles(p),
         NEW t, GivesTodo(c, t), NEW r, Answers(p, r), NEW N, Sound(fs, N), Got(fs, fs', proc[p].cwd, N)
  PROVE  Good'
  <1>1. p # c /\ Up(fs) /\ OnlyCwd(pc[p]) /\ proc[p].st = "run" /\ pc[c] = <<>> /\ proc[c].cwd = 0 /\ proc[p].cwd \in Inums
    <2>1. proc[p].cwd \in Inums
      BY UserHas
    <2> QED BY <2>1, CwdForms DEF AtUser, RInv, CallOK
  <1>2. pc \in [Procs -> Stacks] /\ loc \in [Procs -> Locs]
    BY DEF RInv, TypeInv
  <1>3. PICK s : s = <<"ret">>
    OBVIOUS
  <1>4. OnlyCwd(s) /\ s \in PutBodies /\ s # <<>>
    BY <1>3, CwdForms, Forms DEF Form
  <1>5. pc' = [pc EXCEPT ![p] = s] /\ loc' = loc
    <2>1. <<>> \o <<"ret">> = <<"ret">>
      OBVIOUS
    <2> QED BY <1>3, <2>1 DEF Answers, Enters
  <1>6. s \in Stacks /\ HasCwd(s, loc[p]) /\ HasCwd(pc[p], loc[p]) /\ Body(s) = s
    BY <1>1, <1>4, OnlyCwdHas
  <1>7. /\ pc'[p] = s /\ \A q \in Procs \ {p} : pc'[q] = pc[q]
    BY <1>2, <1>5
  <1>8. /\ proc' \in [Procs -> ProcRec] /\ proc'[c].st = "run" /\ proc'[c].cwd = proc[p].cwd
        /\ proc'[c].ofile = proc[p].ofile /\ \A q \in Procs \ {c} : proc'[q] = proc[q]
    BY ChildProc
  <1>9. \A fd \in Fds : proc[c].ofile[fd] = 0
    BY DEF RInv, DescOK
  <1>10. ASSUME NEW g \in 1..NFILE
         PROVE  /\ Cardinality(Desc(g)) \in Nat /\ Cardinality(FdsOf(p, g)) \in Nat
                /\ Cardinality(Desc(g)') = Cardinality(Desc(g)) + Cardinality(FdsOf(p, g))
                /\ FdsOf(p, g) = {} => Desc(g)' = Desc(g)
    BY <1>1, <1>9, DescFork
  <1>11. /\ \E A : ftab' \in [1..NFILE -> FileRec(A)]
         /\ \A g \in 1..NFILE : /\ ftab'[g].ref = ftab[g].ref + Cardinality(FdsOf(p, g)) /\ ftab'[g].ip = ftab[g].ip
                                /\ ftab'[g].type = ftab[g].type /\ ftab'[g].wr = ftab[g].wr
    BY <1>10, SharedFile
  <1>12. CASE ~Up(fs')
    BY <1>4, <1>7, <1>12, PanicStep
  <1>13. CASE Up(fs')
    <2>1. Sound(fs', N)
      BY DEF Got
    <2>2. (\E T : todo' \in [Procs -> T]) /\ \A q \in Procs \ {c} : todo'[q] = todo[q]
      <3>1. PICK T : todo \in [Procs -> T]
        BY DEF RInv, TypeInv
      <3>2. todo' \in [Procs -> T \cup {t}]
        BY <3>1 DEF GivesTodo
      <3> QED BY <3>1, <3>2 DEF GivesTodo
    <2>3. TypeInv'
      BY <1>2, <1>5, <1>6, <1>8, <1>11, <2>1, <2>2 DEF TypeInv
    <2>4. pc'[c] = <<>> /\ OnlyCwd(pc'[c]) /\ HasCwd(pc'[c], loc'[c]) /\ HasCwd(pc[c], loc[c]) /\ pc'[c] \in PutBodies
      BY <1>1, <1>7, CwdForms, Forms, OnlyCwdHas DEF Form
    <2>5. RefsCounted'
      <3>1. SUFFICES ASSUME NEW j \in Inums PROVE (fs'.mem[j].ref = Held(j)' + Cardinality(FilesOf(j)'))
        BY DEF RefsCounted
      <3>2. ASSUME NEW q \in Procs \ {c} PROVE SameHolds(q, j)
        <4>1. CASE q # p
          BY <1>5, <1>7, <1>8, <4>1, SameHeld
        <4>2. CASE q = p
          <5>1. ~InPut(s) /\ ~InPut(pc[p]) /\ Body(pc[p]) = pc[p]
            BY <1>1, <1>4, OnlyCwdHas
          <5>2. proc'[p].cwd = proc[p].cwd
            BY <1>1, <1>8
          <5> QED BY <1>1, <1>4, <1>6, <1>7, <4>2, <5>1, <5>2
                  DEF SameHolds, HoldsX, HoldsIp, HoldsDp, HoldsOld, HoldsCwd, OnlyCwd
        <4> QED BY <4>1, <4>2
      <3>3. FilesOf(j)' = FilesOf(j) /\ 0 \in Nat
        BY <1>11 DEF FilesOf
      <3>4. fs'.mem[j].ref = fs.mem[j].ref + One(proc[p].cwd = j) /\ fs.mem[j].ref \in Nat
        BY <1>1, <1>13, GotRefs
      <3>5. Has(pc[c], loc[c], proc[c].cwd, j) = 0
        <4>1. Has(pc[c], loc[c], proc[c].cwd, j) = One(proc[c].cwd = j)
          BY <2>4 DEF HasCwd
        <4>2. j # 0
          BY InumsInos
        <4> QED BY <1>1, <4>1, <4>2 DEF One
      <3>6. Has(pc'[c], loc'[c], proc'[c].cwd, j) = One(proc[p].cwd = j)
        BY <1>8, <2>4 DEF HasCwd
      <3>7. One(proc[p].cwd = j) \in Nat
        BY DEF One
      <3>8. fs'.mem[j].ref \in Nat
        BY <3>4, <3>7
      <3>9. fs'.mem[j].ref + (Has(pc[c], loc[c], proc[c].cwd, j) + 0) = fs.mem[j].ref + (Has(pc'[c], loc'[c], proc'[c].cwd, j) + 0)
        BY <3>4, <3>5, <3>6, <3>7
      <3> QED BY <3>2, <3>3, <3>8, <3>9, RefMoves
    <2>6. ASSUME NEW g \in 1..NFILE PROVE FileOK(g)'
      <3>1. FileOK(g)
        BY DEF RInv
      <3>2. g # 0
        BY FileSysAssumption
      <3>3. ASSUME ftab[g].ip = 0 PROVE FdsOf(p, g) = {}
        BY <1>1, <3>3, <3>2, OpenIp, InumsInos DEF FdsOf, Open
      <3>4. ftab'[g].ref = Cardinality(Desc(g)')
        BY <1>10, <1>11, <3>1 DEF FileOK
      <3>5. ftab'[g].ref = 0 => ftab[g].ref = 0
        BY <1>10, <1>11, <3>1 DEF FileOK
      <3> QED BY <1>11, <3>1, <3>4, <3>5 DEF FileOK
    <2>7. ASSUME NEW q \in Procs \ {p, c} PROVE ProcOK(q)'
      <3>1. Same(q)
        BY <1>5, <1>7, <1>8, <2>2 DEF Same
      <3>2. ASSUME Lab(Body(pc[q])) = "openset"
            PROVE  Desc(loc[q].f)' = Desc(loc[q].f) /\ ftab'[loc[q].f].ip = ftab[loc[q].f].ip
        <4>1. loc[q].f # 0 /\ ftab[loc[q].f].ip = 0
          BY <3>2 DEF RInv, Opening
        <4>2. loc[q].f \in 0..NFILE
          BY <1>2 DEF Locs
        <4>3. PICK g \in 1..NFILE : g = loc[q].f
          BY <4>1, <4>2, FileSysAssumption
        <4>4. FdsOf(p, g) = {}
          BY <4>1, <4>3, OpenIp, InumsInos DEF FdsOf, Open
        <4>5. Desc(g)' = Desc(g) /\ ftab'[g].ip = ftab[g].ip
          BY <1>10, <1>11, <4>4
        <4> QED BY <1>5, <4>3, <4>5
      <3>3. FilesServe(q)
        BY <1>11, <3>2, FdFile DEF FilesServe
      <3> QED BY <3>1, <3>3, OtherOK
    <2>8. /\ Lab(Body(pc[p])) # "openset" /\ Lab(Body(s)) # "openset" /\ Lab(Body(s)) # "write" /\ Lab(Body(s)) # "zombie"
      BY <1>1, <1>4, <1>6, PutCalm DEF OnlyCwd, HasCwd, Calm, LeftLabels
    <2>9. ASSUME NEW e \in Fds, proc[p].ofile[e] # 0 PROVE ftab'[proc[p].ofile[e]].ip # 0
      BY <1>11, <2>9, OpenIp, InumsInos
    <2>10. ProcOK(p)'
      <3>1. proc'[p] = proc[p]
        BY <1>1, <1>8
      <3>2. CallOK(p)'
        BY <1>1, <1>5, <1>6, <1>7, <3>1 DEF RInv, CallOK, HasCwd
      <3>3. DescOK(p)'
        BY <1>1, <1>7, <2>8, <2>9, <3>1 DEF DescOK
      <3>4. Writing(p)' /\ Opening(p)'
        BY <1>7, <2>8 DEF Writing, Opening
      <3> QED BY <3>2, <3>3, <3>4 DEF ProcOK
    <2>11. ProcOK(c)'
      <3>1. CallOK(c)'
        BY <1>1, <1>8, <2>4, InumsInos DEF CallOK, HasCwd
      <3>2. Lab(Body(pc'[c])) # "openset" /\ Lab(Body(pc'[c])) # "write" /\ Lab(Body(pc'[c])) # "zombie"
        BY <2>4, PutCalm DEF OnlyCwd, HasCwd, Calm, LeftLabels
      <3>3. DescOK(c)'
        BY <1>8, <2>9, <3>2 DEF DescOK
      <3>4. Writing(c)' /\ Opening(c)'
        BY <3>2 DEF Writing, Opening
      <3> QED BY <3>1, <3>3, <3>4 DEF ProcOK
    <2> QED BY <1>13, <2>3, <2>5, <2>6, <2>7, <2>10, <2>11, Together DEF RInvParts
  <1> QED BY <1>12, <1>13

\* fork keeps the invariant, also when there is no process left.
LEMMA SysForkStep ==
  ASSUME RInv, NEW p \in Procs, SysFork(p)
  PROVE  Good'
  <1>1. PICK unused, c : unused = {q \in Procs : proc[q].st = "unused"} /\ c = Min(unused)
    OBVIOUS
  <1>2. /\ AtUser(p)
        /\ \/ UNCHANGED <<fs, ftab, proc, todo>> /\ \E r : Answers(p, r)
           \/ /\ unused # {} /\ Child(p, c) /\ GivesTodo(c, Op(p).kid) /\ SharesFiles(p)
              /\ fs' = Iget(fs, proc[p].cwd) /\ \E r : Answers(p, r)
    BY <1>1, CallsFrom DEF SysFork, Child, GivesTodo, SharesFiles, FdsOf
  <1>3. PICK N : Sound(fs, N) /\ Named(N)
    BY FsNames
  <1>4. CASE UNCHANGED <<fs, ftab, proc, todo>> /\ \E r : Answers(p, r)
    BY <1>2, <1>3, <1>4, KeptSelf, FilesStay, AnswersStep
  <1>5. CASE /\ unused # {} /\ Child(p, c) /\ GivesTodo(c, Op(p).kid) /\ SharesFiles(p)
             /\ fs' = Iget(fs, proc[p].cwd) /\ \E r : Answers(p, r)
    <2>1. c \in Procs /\ proc[c].st = "unused"
      <3>1. unused \subseteq Nat
        BY <1>1, FileSysAssumption
      <3>2. c \in unused
        BY <1>1, <1>5, <3>1, MinIn
      <3> QED BY <1>1, <3>2
    <2>2. Got(fs, fs', proc[p].cwd, N)
      <3>1. proc[p].cwd \in Inums
        BY <1>2, UserHas
      <3> QED BY <1>3, <1>5, <3>1, IgetGets
    <2> QED BY <1>2, <1>3, <1>5, <2>1, <2>2, ForkStep
  <1> QED BY <1>2, <1>4, <1>5

-----------------------------------------------------------------------------
(* The initial states *)

\* A record with the cache and the panic of a fresh image.
FreshMem == [i \in Inums |-> [ref |-> 0, valid |-> FALSE, d |-> FreeInode]]
Fresh(s)  == s.mem = FreshMem /\ Up(s)

\* The image that mkfs makes is sound, with an empty cache.
LEMMA ImageFresh ==
  Fresh(Mkfs(Files)) /\ \E N : Sound(Mkfs(Files), N) /\ Named(N)
  <1>1. Fresh(Mkfs(Files))
    BY DEF Mkfs, Fresh, FreshMem, Up
  <1>2. PICK N : N = ImageNames \cup {"", "none", "file", "dir", "dev", ".", ".."}
    OBVIOUS
  <1>3. Named(N) /\ ImageNames \subseteq N
    BY <1>2 DEF Named
  <1> QED BY <1>1, <1>3, ImageAssumption, SoundMore

\* The cache has room for the root directory.
LEMMA RootGot ==
  ASSUME NEW s, NEW N, Sound(s, N), Named(N), Fresh(s), NEW t, t = Iget(s, ROOTINO)
  PROVE  ROOTINO \in Inums /\ Up(t) /\ Sound(t, N) /\ \A j \in Inums : t.mem[j].ref = One(ROOTINO = j)
  <1>1. ROOTINO \in Inums
    BY InodeAssumption DEF ROOTINO, Inums
  <1>2. Got(s, t, ROOTINO, N)
    BY <1>1, IgetGets
  <1>3. \A j \in Inums : s.mem[j].ref = 0
    BY DEF Fresh, FreshMem
  <1>4. Up(t)
    <2>1. {j \in Inums : s.mem[j].ref > 0} = {}
      BY <1>3
    <2>2. ~(Cardinality({j \in Inums : s.mem[j].ref > 0}) >= NINODE)
      <3>1. PICK n : n = Cardinality({j \in Inums : s.mem[j].ref > 0})
        OBVIOUS
      <3>2. n = 0
        BY <2>1, <3>1, FS_EmptySet
      <3>3. ~(n >= NINODE)
        BY ONLY <3>2, InodeAssumption
      <3> QED BY <3>1, <3>3
    <2>3. ~(s.mem[ROOTINO].ref > 0)
      BY <1>1, <1>3
    <2>4. t = [s EXCEPT !.mem[ROOTINO] = [ref |-> 1, valid |-> FALSE, d |-> FreeInode]]
      BY <2>2, <2>3 DEF Iget
    <2>5. t.panic = s.panic
      BY <2>4 DEF Sound, FsStates
    <2> QED BY <2>5 DEF Fresh, Up
  <1>5. ASSUME NEW j \in Inums PROVE t.mem[j].ref = One(ROOTINO = j)
    <2>1. t.mem[j].ref = s.mem[j].ref + One(ROOTINO = j)
      BY <1>1, <1>2, <1>4, GotRefs
    <2> QED BY <1>3, <2>1 DEF One
  <1>6. Sound(t, N)
    BY <1>2 DEF Got
  <1> QED BY <1>1, <1>4, <1>5, <1>6

\* The initial states satisfy the invariant.
LEMMA InitGood ==
  ASSUME Init
  PROVE  Good
  <1>1. PICK N : Sound(Mkfs(Files), N) /\ Named(N) /\ Fresh(Mkfs(Files))
    BY ImageFresh
  <1>2. ROOTINO \in Inums /\ Up(fs) /\ Sound(fs, N) /\ \A j \in Inums : fs.mem[j].ref = One(ROOTINO = j)
    <2>1. fs = Iget(Mkfs(Files), ROOTINO)
      BY DEF Init
    <2> QED BY <1>1, <2>1, RootGot
  <1>3. /\ pc = [q \in Procs |-> <<>>] /\ loc = [q \in Procs |-> NoLocs] /\ ftab = [f \in 1..NFILE |-> NoFile]
        /\ proc = [p \in Procs |-> IF p = First THEN [NoProc EXCEPT !.st = "run", !.cwd = ROOTINO] ELSE NoProc]
        /\ \E t : todo = [p \in Procs |-> IF p = First THEN t ELSE <<>>]
    BY DEF Init
  <1>4. PICK r : r = [NoProc EXCEPT !.st = "run", !.cwd = ROOTINO]
    OBVIOUS
  <1>5. ROOTINO \in Inos /\ ROOTINO # 0 /\ 0 \in Inos /\ 0 \in 0..NFILE /\ First \in Procs
    BY <1>2, InumsInos, ZeroInos, FileSysAssumption
  <1>6. NoProc \in ProcRec /\ NoProc.cwd = 0 /\ NoProc.st = "unused" /\ \A fd \in Fds : NoProc.ofile[fd] = 0
    BY <1>5 DEF NoProc, ProcRec, States
  <1>7. r \in ProcRec /\ r.cwd = ROOTINO /\ r.st = "run" /\ \A fd \in Fds : r.ofile[fd] = 0
    BY <1>4, <1>5, <1>6 DEF ProcRec, States
  <1>8. /\ proc \in [Procs -> ProcRec] /\ proc[First] = r /\ (\A q \in Procs \ {First} : proc[q] = NoProc)
        /\ \A q \in Procs, fd \in Fds : proc[q].ofile[fd] = 0
    BY <1>3, <1>4, <1>5, <1>6, <1>7
  <1>9. NoLocs \in Locs
    BY <1>5 DEF NoLocs, Locs
  <1>10. OnlyCwd(<<>>) /\ <<>> \in Stacks /\ <<>> \in PutBodies
    BY CwdForms, Forms, OnlyCwdHas DEF Form
  <1>11. NoFile \in FileRec({FALSE}) /\ NoFile.ref = 0 /\ NoFile.ip = 0 /\ NoFile.type = "none" /\ ~NoFile.wr
    BY <1>5 DEF NoFile, FileRec
  <1>12. /\ \A q \in Procs : pc[q] = <<>> /\ OnlyCwd(pc[q]) /\ HasCwd(pc[q], loc[q])
         /\ \A f \in 1..NFILE : ftab[f] = NoFile
    BY <1>3, <1>10, OnlyCwdHas
  <1>13. TypeInv
    <2>1. PICK t : todo = [p \in Procs |-> IF p = First THEN t ELSE <<>>]
      BY <1>3
    <2>2. todo \in [Procs -> {t, <<>>}]
      BY <2>1
    <2>3. ftab \in [1..NFILE -> FileRec({FALSE})]
      BY <1>3, <1>11
    <2>4. pc \in [Procs -> Stacks] /\ loc \in [Procs -> Locs]
      BY <1>3, <1>9, <1>10
    <2> QED BY <1>2, <1>8, <2>2, <2>3, <2>4 DEF TypeInv
  <1>14. RefsCounted
    <2>1. SUFFICES ASSUME NEW j \in Inums PROVE fs.mem[j].ref = Held(j) + Cardinality(FilesOf(j))
      BY DEF RefsCounted
    <2>2. j # 0
      BY InumsInos
    <2>3. FilesOf(j) = {}
      BY <1>11, <1>12, <2>2 DEF FilesOf
    <2>4. ASSUME NEW q \in Procs
          PROVE  /\ ~InPut(pc[q]) /\ Body(pc[q]) = pc[q] /\ Lab(pc[q]) \notin IpLabels /\ Lab(pc[q]) \notin DpLabels
                 /\ pc[q] \notin Linking /\ Lab(pc[q]) \notin LeftLabels
      <3>1. OnlyCwd(pc[q])
        BY <1>12
      <3>2. ~InPut(pc[q]) /\ Body(pc[q]) = pc[q]
        BY <3>1, OnlyCwdHas
      <3> QED BY <3>1, <3>2 DEF OnlyCwd
    <2>5. XHolders(j) = {} /\ IpHolders(j) = {} /\ DpHolders(j) = {} /\ OldHolders(j) = {}
      BY <2>4 DEF XHolders, IpHolders, DpHolders, OldHolders, HoldsX, HoldsIp, HoldsDp, HoldsOld
    <2>6. CwdHolders(j) = {q \in Procs : proc[q].cwd = j}
      BY <2>4 DEF CwdHolders, HoldsCwd
    <2>7. Cardinality(CwdHolders(j)) = One(ROOTINO = j)
      <3>1. CASE ROOTINO = j
        <4>1. CwdHolders(j) = {First}
          BY <1>5, <1>6, <1>7, <1>8, <2>2, <2>6, <3>1
        <4> QED BY <3>1, <4>1, FS_Singleton DEF One
      <3>2. CASE ROOTINO # j
        <4>1. CwdHolders(j) = {}
          BY <1>5, <1>6, <1>7, <1>8, <2>2, <2>6, <3>2
        <4> QED BY <3>2, <4>1, FS_EmptySet DEF One
      <3> QED BY <3>1, <3>2
    <2>8. One(ROOTINO = j) \in Nat /\ Cardinality({}) = 0
      BY FS_EmptySet DEF One
    <2>9. Held(j) = 0 + (0 + (0 + (0 + One(ROOTINO = j))))
      BY <2>5, <2>7, <2>8 DEF Held
    <2> QED BY <1>2, <2>3, <2>8, <2>9
  <1>15. ASSUME NEW f \in 1..NFILE PROVE FileOK(f)
    <2>1. f # 0
      BY FileSysAssumption
    <2>2. Desc(f) = {}
      BY <1>8, <2>1 DEF Desc
    <2> QED BY <1>11, <1>12, <2>2, FS_EmptySet DEF FileOK
  <1>16. ASSUME NEW q \in Procs PROVE CallOK(q) /\ Writing(q) /\ Opening(q) /\ DescOK(q)
    <2>1. pc[q] = <<>> /\ HasCwd(pc[q], loc[q]) /\ OnlyCwd(pc[q])
      BY <1>12
    <2>2. CallOK(q)
      BY <1>5, <1>6, <1>7, <1>8, <2>1 DEF CallOK, HasCwd
    <2>3. Lab(Body(pc[q])) # "openset" /\ Lab(Body(pc[q])) # "write"
      BY <1>10, <2>1, PutCalm DEF HasCwd, Calm
    <2>4. Writing(q) /\ Opening(q)
      BY <2>3 DEF Writing, Opening
    <2>5. DescOK(q)
      BY <1>8 DEF DescOK
    <2> QED BY <2>2, <2>4, <2>5
  <1>17. RInv
    BY <1>13, <1>14, <1>15, <1>16 DEF RInv
  <1> QED BY <1>2, <1>17 DEF Good
-----------------------------------------------------------------------------
(* Every step, and the theorem *)

\* The steps of iput and namex and the return keep the invariant.
LEMMA PutSteps ==
  ASSUME RInv, NEW p \in Procs,
         \/ Iput(p) \/ IputFree(p) \/ IputFreed(p) \/ IputDrop(p)
         \/ Namex(p) \/ NamexEnd(p) \/ NamexElem(p) \/ Return(p)
  PROVE  Good'
  BY IputStep, IputFreeStep, IputFreedStep, IputDropStep, NamexStep, NamexEndStep, NamexElemStep, ReturnStep

\* The steps of link and unlink keep the invariant.
LEMMA LinkSteps ==
  ASSUME RInv, NEW p \in Procs,
         \/ SysLink(p) \/ LinkCount(p) \/ LinkEntry(p) \/ LinkFail(p) \/ LinkUndo(p) \/ LinkDone(p)
         \/ SysUnlink(p) \/ UnlinkFind(p) \/ UnlinkClear(p) \/ UnlinkBad(p) \/ UnlinkCount(p)
  PROVE  Good'
  BY SysLinkStep, LinkCountStep, LinkEntryStep, LinkFailStep, LinkUndoStep, LinkDoneStep,
     SysUnlinkStep, UnlinkFindStep, UnlinkClearStep, UnlinkBadStep, UnlinkCountStep

\* The steps of create, open, mkdir, mknod and chdir keep the invariant.
LEMMA CreateSteps ==
  ASSUME RInv, NEW p \in Procs,
         \/ CreateFind(p) \/ CreateOld(p) \/ CreateNew(p)
         \/ SysOpen(p) \/ OpenLock(p) \/ OpenFd(p) \/ OpenSet(p)
         \/ SysMake(p) \/ Made(p) \/ SysChdir(p) \/ ChdirCheck(p) \/ ChdirDone(p)
  PROVE  Good'
  BY CreateFindStep, CreateOldStep, CreateNewStep, SysOpenStep, OpenLockStep, OpenFdStep, OpenSetStep,
     SysMakeStep, MadeStep, SysChdirStep, ChdirCheckStep, ChdirDoneStep

\* The steps of the calls on files and processes keep the invariant.
LEMMA FileSteps ==
  ASSUME RInv, NEW p \in Procs,
         \/ SysRead(p) \/ SysWrite(p) \/ WriteChunk(p) \/ SysClose(p) \/ SysDup(p) \/ SysFstat(p)
         \/ SysFork(p) \/ Exit(p) \/ ExitDone(p) \/ SysWait(p)
  PROVE  Good'
  BY SysReadStep, SysWriteStep, WriteChunkStep, SysCloseStep, SysDupStep, SysFstatStep,
     SysForkStep, ExitStep, ExitDoneStep, SysWaitStep

\* A kernel that has panicked does nothing.
LEMMA StepsUp ==
  ASSUME NEW p, Steps(p)
  PROVE  Up(fs)
  BY DEF Steps, At, Calls, Iput, IputFree, IputFreed, IputDrop, Namex, NamexEnd, NamexElem, Return, SysLink, LinkCount,
         LinkEntry, LinkFail, LinkUndo, LinkDone, SysUnlink, UnlinkFind, UnlinkClear, UnlinkBad, UnlinkCount, CreateFind,
         CreateOld, CreateNew, SysOpen, OpenLock, OpenFd, OpenSet, SysMake, Made, SysChdir, ChdirCheck, ChdirDone, SysRead,
         SysWrite, WriteChunk, SysClose, SysDup, SysFstat, SysFork, Exit, ExitDone, SysWait

\* Every step keeps the invariant, and a kernel that has panicked stops.
LEMMA NextGood ==
  ASSUME Good, [Next]_vars
  PROVE  Good'
  <1>1. CASE UNCHANGED vars
    <2>1. UNCHANGED <<fs, ftab, proc, todo, pc, loc>>
      BY <1>1 DEF vars
    <2>2. CASE ~Up(fs)
      BY <2>1, <2>2 DEF Good, Up, Quiet
    <2>3. CASE Up(fs)
      <3>1. RInv
        BY <2>3 DEF Good
      <3>2. TypeInv'
        BY <2>1, <3>1 DEF RInv, TypeInv
      <3>3. RefsCounted'
        BY <2>1, <3>1 DEF RInv, RefsCounted, Held, XHolders, IpHolders, DpHolders, OldHolders, CwdHolders, FilesOf
      <3>4. \A f : Desc(f)' = Desc(f)
        BY <2>1 DEF Desc
      <3>5. ASSUME NEW f \in 1..NFILE PROVE FileOK(f)'
        BY <2>1, <3>1, <3>4 DEF RInv, FileOK
      <3>6. ASSUME NEW q \in Procs PROVE ProcOK(q)'
        BY <2>1, <3>1, <3>4, OtherOK DEF Same, FilesServe
      <3>7. Up(fs')
        BY <2>1, <2>3
      <3> QED BY <3>2, <3>3, <3>5, <3>6, <3>7, Together DEF RInvParts
    <2> QED BY <2>2, <2>3
  <1>2. ASSUME NEW p \in Procs, Steps(p) PROVE Good'
    <2>1. RInv
      BY <1>2, StepsUp DEF Good
    <2> QED BY <1>2, <2>1, PutSteps, LinkSteps, CreateSteps, FileSteps DEF Steps
  <1> QED BY <1>1, <1>2 DEF Next, Idle

\* With no call under way only files and current directories hold references.
LEMMA GoodRefs ==
  ASSUME Good
  PROVE  RefsExact
  <1>1. SUFFICES ASSUME Quiet, NEW j \in Inums PROVE fs.mem[j].ref = Holders(j)
    BY DEF RefsExact
  <1>2. RInv
    BY <1>1 DEF Good
  <1>3. ASSUME NEW q \in Procs
        PROVE  /\ pc[q] = <<>> /\ ~InPut(pc[q]) /\ Body(pc[q]) = pc[q] /\ Lab(pc[q]) \notin IpLabels /\ Lab(pc[q]) \notin DpLabels
               /\ pc[q] \notin Linking /\ Lab(pc[q]) \notin LeftLabels
    <2>1. pc[q] = <<>> /\ OnlyCwd(pc[q])
      BY <1>1, CwdForms DEF Quiet
    <2>2. ~InPut(pc[q]) /\ Body(pc[q]) = pc[q]
      BY <2>1, OnlyCwdHas
    <2> QED BY <2>1, <2>2 DEF OnlyCwd
  <1>4. XHolders(j) = {} /\ IpHolders(j) = {} /\ DpHolders(j) = {} /\ OldHolders(j) = {}
    BY <1>3 DEF XHolders, IpHolders, DpHolders, OldHolders, HoldsX, HoldsIp, HoldsDp, HoldsOld
  <1>5. CwdHolders(j) = {q \in Procs : proc[q].cwd = j /\ ~Leaving(q)}
    BY <1>3 DEF CwdHolders, HoldsCwd, Leaving
  <1>6. Cardinality(CwdHolders(j)) \in Nat /\ Cardinality({}) = 0
    BY FS_EmptySet, FileSysAssumption, FS_Subset, FS_CardinalityType DEF CwdHolders
  <1>7. Held(j) = 0 + (0 + (0 + (0 + Cardinality(CwdHolders(j)))))
    BY <1>4, <1>6 DEF Held
  <1>8. Holders(j) = Cardinality(CwdHolders(j)) + Cardinality(FilesOf(j))
    BY <1>5 DEF Holders, FilesOf
  <1>9. fs.mem[j].ref = Held(j) + Cardinality(FilesOf(j))
    BY <1>2 DEF RInv, RefsCounted
  <1> QED BY <1>6, <1>7, <1>8, <1>9

\* When no call is under way an inode has exactly the references of open files and current
\* directories (fs.c: iget, idup and iput; sysfile.c: link, unlink, create, open, chdir;
\* proc.c: fork and exit), for any number of processes, any script and any image.
THEOREM SpecRefsExact == Spec => []RefsExact
  <1>1. Init => Good
    BY InitGood
  <1>2. Good /\ [Next]_vars => Good'
    BY NextGood
  <1>3. Good => RefsExact
    BY GoodRefs
  <1> QED BY <1>1, <1>2, <1>3, PTL DEF Spec


\* A process that has let go of its directory is on its way to another one or to the
\* end (chdir2, zombie), as Leaving says.
LEMMA LeftLeaving ==
  ASSUME NEW q \in Procs, pc[q] \in Stacks, Lab(Body(pc[q])) \in LeftLabels
  PROVE  Leaving(q)
  <1>1. Body(pc[q]) # <<>> /\ Head(Body(pc[q])) \in {"chdir2", "zombie"}
    BY DEF Lab, LeftLabels
  <1>2. CASE ~InPut(pc[q])
    <2>1. Body(pc[q]) = pc[q] /\ pc[q] # <<>> /\ pc[q] \in Bodies
      BY <1>1, <1>2, StackBody DEF Body, InPut
    <2>2. pc[q] \in Seq(Labels)
      BY <2>1, BodySeq DEF LabelSeq
    <2>3. 1 \in DOMAIN pc[q] /\ pc[q][1] = Head(pc[q])
      BY <2>1, <2>2
    <2> QED BY <1>1, <2>1, <2>3 DEF Leaving
  <1>3. CASE InPut(pc[q])
    <2>1. PICK w \in PutLabels, b \in PutBodies : pc[q] = <<w>> \o b
      BY <1>3, StackPut DEF InPut
    <2>2. Body(pc[q]) = b
      BY <2>1, PutStack
    <2>3. b \in Seq(Labels) /\ b # <<>> /\ w \in Labels
      BY <1>1, <2>2, BodySeq DEF LabelSeq, PutBodies, Labels
    <2>4. 2 \in DOMAIN (<<w>> \o b) /\ (<<w>> \o b)[2] = Head(b)
      BY <2>3
    <2> QED BY <1>1, <2>1, <2>2, <2>4 DEF Leaving
  <1> QED BY <1>2, <1>3

\* An inode that is open or somebody's directory has a reference for each of them.
InUse   == Up(fs) => \A i \in Inums : fs.mem[i].ref >= Holders(i)
\* The reference count of a struct file is the number of its descriptors.
FileRefs == Up(fs) => \A f \in 1..NFILE : ftab[f].ref = Cardinality({d \in Procs \X Fds : proc[d[1]].ofile[d[2]] = f})

\* The invariant counts every open file and directory among the holders.
LEMMA GoodUse ==
  ASSUME Good
  PROVE  InUse /\ FileRefs
  <1>1. SUFFICES ASSUME RInv PROVE InUse /\ FileRefs
    BY DEF Good, InUse, FileRefs
  <1>2. FileRefs
    BY <1>1 DEF FileRefs, RInv, FileOK, Desc
  <1>3. ASSUME NEW j \in Inums PROVE fs.mem[j].ref >= Holders(j)
    <2>1. PICK S : S = {p \in Procs : proc[p].cwd = j /\ ~Leaving(p)}
      OBVIOUS
    <2>2. S \subseteq CwdHolders(j)
      BY <1>1, <2>1, LeftLeaving DEF CwdHolders, HoldsCwd, RInv, TypeInv
    <2>3. \A T : T \subseteq Procs => IsFiniteSet(T) /\ Cardinality(T) \in Nat
      BY FileSysAssumption, FS_Subset, FS_CardinalityType
    <2>4. /\ Cardinality(XHolders(j)) \in Nat /\ Cardinality(IpHolders(j)) \in Nat /\ Cardinality(DpHolders(j)) \in Nat
          /\ Cardinality(OldHolders(j)) \in Nat /\ Cardinality(CwdHolders(j)) \in Nat /\ IsFiniteSet(CwdHolders(j))
      BY <2>3 DEF XHolders, IpHolders, DpHolders, OldHolders, CwdHolders
    <2>5. Cardinality(S) \in Nat /\ Cardinality(S) <= Cardinality(CwdHolders(j))
      BY <2>2, <2>4, FS_Subset, FS_CardinalityType
    <2>6. fs.mem[j].ref = Held(j) + Cardinality(FilesOf(j)) /\ Cardinality(FilesOf(j)) \in Nat
      BY <1>1, FilesNat DEF RInv, RefsCounted
    <2>7. Holders(j) = Cardinality(S) + Cardinality(FilesOf(j))
      BY <2>1 DEF Holders, FilesOf
    <2> QED BY <2>4, <2>5, <2>6, <2>7 DEF Held
  <1> QED BY <1>2, <1>3 DEF InUse

\* At any time, also in the middle of calls, the cache entry of an inode that is open or
\* somebody's directory has references, so iget never recycles it.
THEOREM SpecInUse == Spec => []InUse
  <1>1. Init => Good
    BY InitGood
  <1>2. Good /\ [Next]_vars => Good'
    BY NextGood
  <1>3. Good => InUse
    BY GoodUse
  <1> QED BY <1>1, <1>2, <1>3, PTL DEF Spec

\* At any time a struct file counts exactly its descriptors: open, dup, fork, close and
\* exit, also when open has allocated it and not filled it in yet.
THEOREM SpecFileRefs == Spec => []FileRefs
  <1>1. Init => Good
    BY InitGood
  <1>2. Good /\ [Next]_vars => Good'
    BY NextGood
  <1>3. Good => FileRefs
    BY GoodUse
  <1> QED BY <1>1, <1>2, <1>3, PTL DEF Spec

=============================================================================
