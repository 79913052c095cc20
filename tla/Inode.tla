------------------------------- MODULE Inode -------------------------------
(***************************************************************************)
(* The lower half of fs.c: blocks, inodes, the inode cache and             *)
(* directories, as operators that map one state of the file system to the  *)
(* next.                                                                   *)
(*                                                                         *)
(* A block holds BSIZE units; a unit is a directory entry or one byte of   *)
(* data.  The numbers in an indirect block are kept with the inode that    *)
(* owns it, and ind is the indirect block itself.                          *)
(***************************************************************************)
EXTENDS Integers, Sequences, FiniteSets, SequencesExt, FiniteSetsExt

CONSTANTS NINODES,            \* inodes on the disk
          NINODE,             \* entries of the inode cache
          NBLOCKS, BSIZE, NDIRECT, NINDIRECT

ASSUME InodeAssumption ==
  /\ NINODES \in Nat \ {0} /\ NINODE \in Nat \ {0} /\ NBLOCKS \in Nat \ {0}
  /\ BSIZE \in Nat \ {0} /\ NDIRECT \in Nat /\ NINDIRECT \in Nat

ROOTINO == 1
MAXFILE == (NDIRECT + NINDIRECT) * 2
Inums   == 1..NINODES
Blocks  == 1..NBLOCKS
Slots   == 0..(NDIRECT + NINDIRECT - 1)

Unit(name, inum) == [n |-> name, i |-> inum]
Zero     == Unit("", 0)
Byte(b)  == Unit(b, 0)

FreeInode == [type |-> "none", nlink |-> 0, size |-> 0, ind |-> 0, addrs |-> [k \in Slots |-> 0]]

\* F of the value of v, which is computed once.
Let(v, F(_)) == CHOOSE r \in {F(x) : x \in {v}} : TRUE

\* A state of the file system: the inodes on disk, their cached copies, the
\* contents of the blocks, the bitmap, and the panic that stopped the kernel.
Panic(s, why) == [s EXCEPT !.panic = why]

Balloc(s) == Min(Blocks \ s.used)
Full(s)   == Blocks \subseteq s.used
Take(s)   == [s EXCEPT !.used = @ \cup {Balloc(s)}, !.blk[Balloc(s)] = [k \in 0..(BSIZE - 1) |-> Zero]]

\* bmap: the block of an inode, allocated if it has none; past the direct blocks the
\* indirect block comes first.
TakeInd(s, i)     == IF s.mem[i].d.ind # 0 THEN s
                     ELSE IF Full(s) THEN Panic(s, "balloc: out of blocks")
                     ELSE [Take(s) EXCEPT !.mem[i].d.ind = Balloc(s)]
TakeAddr(s, i, k) == IF s.mem[i].d.addrs[k] # 0 THEN s
                     ELSE IF Full(s) THEN Panic(s, "balloc: out of blocks")
                     ELSE [Take(s) EXCEPT !.mem[i].d.addrs[k] = Balloc(s)]
Bmap(s, i, bn) ==
  CASE bn < NDIRECT -> TakeAddr(s, i, bn)
    [] bn \in NDIRECT..(NDIRECT + NINDIRECT - 1) -> Let(TakeInd(s, i), LAMBDA t : TakeAddr(t, i, bn))
    [] OTHER -> Panic(s, "bmap: out of range")

\* iupdate: the cached copy is written through.
Iupdate(s, i) == Let(s, LAMBDA t : [t EXCEPT !.disk[i] = t.mem[i].d])

OwnBlocks(d) == ({d.addrs[k] : k \in Slots} \cup {d.ind}) \ {0}

ItruncKeepsInd(s, i) ==
  Iupdate([s EXCEPT !.used = @ \ (OwnBlocks(s.mem[i].d) \ {s.mem[i].d.ind}),
                    !.mem[i].d = [@ EXCEPT !.size = 0, !.ind = 0, !.addrs = [k \in Slots |-> 0]]], i)

\* itrunc: every block goes back, and the inode is empty.
Itrunc(s, i) ==
  Iupdate([s EXCEPT !.used = @ \ OwnBlocks(s.mem[i].d),
                    !.mem[i].d = [@ EXCEPT !.size = 0, !.ind = 0, !.addrs = [k \in Slots |-> 0]]], i)

\* iget: another reference to a cached inode, or the first one to a recycled entry.
Iget(s, i) ==
  IF s.mem[i].ref > 0 THEN [s EXCEPT !.mem[i].ref = @ + 1]
  ELSE IF Cardinality({j \in Inums : s.mem[j].ref > 0}) >= NINODE THEN Panic(s, "iget: no inodes")
  ELSE [s EXCEPT !.mem[i] = [ref |-> 1, valid |-> FALSE, d |-> FreeInode]]

\* What ilock does once it has the lock: the inode is read from the disk.
Load(s, i) ==
  IF s.mem[i].valid THEN s
  ELSE IF s.disk[i].type = "none" THEN Panic(s, "ilock: no type")
  ELSE [s EXCEPT !.mem[i].valid = TRUE, !.mem[i].d = s.disk[i]]

Ialloc(s)        == Min({i \in Inums : s.disk[i].type = "none"})
NoInodes(s)      == \A i \in Inums : s.disk[i].type # "none"
Allocated(s, type) ==
  Iget([s EXCEPT !.disk[Ialloc(s)] = [FreeInode EXCEPT !.type = type]], Ialloc(s))

\* What iput does to an inode without links and without other references.
Freed(s, i) == Let(Itrunc(s, i), LAMBDA t : Iupdate([t EXCEPT !.mem[i].d.type = "none"], i))

\* readi of the n units from off: the units it copies.
UnitAt(s, d, k) == s.blk[d.addrs[k \div BSIZE]][k % BSIZE]
Content(s, d)   == [k \in 1..d.size |-> UnitAt(s, d, k - 1)]
Readi(s, i, off, n) ==
  LET d == s.mem[i].d IN SubSeq(Content(s, d), off + 1, IF off + n > d.size THEN d.size ELSE off + n)

\* writei: the test it starts with, and its loop with the new size.
WriteFits(s, i, off, n) == off <= s.mem[i].d.size /\ off + n <= MAXFILE * BSIZE

PutUnit(s, i, k, u) ==
  LET Store(t) == IF t.panic # "" THEN t ELSE [t EXCEPT !.blk[t.mem[i].d.addrs[k \div BSIZE]][k % BSIZE] = u]
  IN IF s.panic # "" THEN s ELSE Let(Bmap(s, i, k \div BSIZE), Store)

\* The states of the file system after each turn of the loop.
Puts(s, i, off, units) ==
  LET put[k \in 0..Len(units)] ==
        IF k = 0 THEN s ELSE Let(put[k - 1], LAMBDA t : PutUnit(t, i, off + k - 1, units[k]))
  IN put

Writei(s, i, off, units) ==
  LET end == off + Len(units)
      Grow(t) == IF t.panic = "" /\ units # <<>> /\ end > t.mem[i].d.size THEN Iupdate([t EXCEPT !.mem[i].d.size = end], i) ELSE t
  IN Let(Puts(s, i, off, units)[Len(units)], Grow)

\* dirlookup: the offset of the entry, or -1.
EntriesOf(c, name) == {k \in DOMAIN c : c[k].i # 0 /\ c[k].n = name}
Lookup(s, dp, name) ==
  LET FirstEntry(c) == IF EntriesOf(c, name) = {} THEN 0 ELSE c[Min(EntriesOf(c, name))].i
  IN Let(Content(s, s.mem[dp].d), FirstEntry)
Offset(s, dp, name) == Min(EntriesOf(Content(s, s.mem[dp].d), name)) - 1

\* dirlink, once the name is known to be new: the first empty entry, or one at the end.
EmptyOff(c) == LET empty == {k \in DOMAIN c : c[k].i = 0} IN IF empty = {} THEN Len(c) ELSE Min(empty) - 1
Dirlink(s, dp, name, inum) ==
  LET Enter(t, off) == IF WriteFits(t, dp, off, 1) THEN Writei(t, dp, off, <<Unit(name, inum)>>)
                       ELSE Panic(t, "dirlink")
  IN Let(s, LAMBDA t : Let(EmptyOff(Content(t, t.mem[dp].d)), LAMBDA off : Enter(t, off)))

IsDirEmpty(s, i) == \A k \in 3..s.mem[i].d.size : UnitAt(s, s.mem[i].d, k - 1).i = 0

\* A link count changes and is written through.
AddLinks(s, i, n) == Iupdate([s EXCEPT !.mem[i].d.nlink = @ + n], i)
-----------------------------------------------------------------------------
\* The states of a file system with names and types N; a unit below an inode's size has
\* a block.
Panics ==
  {"", "balloc: out of blocks", "bmap: out of range", "iget: no inodes", "ilock: no type", "dirlink",
   "ialloc: no inodes", "unlink: nlink < 1", "unlink: writei"}
Dinodes(N)  == [type: N, nlink: Int, size: Nat, ind: 0..NBLOCKS, addrs: [Slots -> 0..NBLOCKS]]
Cached(N)   == [ref: Nat, valid: BOOLEAN, d: Dinodes(N)]
Units(N)    == [n: N, i: 0..NINODES]
FsStates(N) ==
  [disk: [Inums -> Dinodes(N)], mem: [Inums -> Cached(N)], blk: [Blocks -> [0..(BSIZE - 1) -> Units(N)]],
   used: SUBSET Blocks, panic: Panics]
Whole(d)    == \A k \in 0..(d.size - 1) : k \div BSIZE \in Slots /\ d.addrs[k \div BSIZE] # 0
Sound(s, N) ==
  /\ s \in FsStates(N)
  /\ \A i \in Inums : Whole(s.disk[i]) /\ Whole(s.mem[i].d)

\* The bitmap marks exactly the blocks of the inodes on the disk; a block belongs to one
\* inode at most and to no free one, and an inode has the indirect block that it needs.
Accounted(s) ==
  /\ s.used = UNION {OwnBlocks(s.disk[i]) : i \in Inums}
  /\ \A i, j \in Inums : i # j => OwnBlocks(s.disk[i]) \cap OwnBlocks(s.disk[j]) = {}
  /\ \A i \in Inums : s.disk[i].type = "none" => OwnBlocks(s.disk[i]) = {}
  /\ \A i \in Inums, k \in Slots : k >= NDIRECT /\ s.disk[i].addrs[k] # 0 => s.disk[i].ind # 0
=============================================================================
