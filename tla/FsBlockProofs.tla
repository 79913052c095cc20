---------------------------- MODULE FsBlockProofs ----------------------------
(***************************************************************************)
(* Theorem about FileSys: the bitmap, the blocks and the inodes agree, and *)
(* no inode in use is freed, whatever calls the processes make and however *)
(* their steps interleave.                                                 *)
(*                                                                         *)
(* It builds on the invariant RInv of FsProofs, which says who holds which *)
(* reference.  For the blocks it matters also who has locked what.  BInv   *)
(* says, of a kernel that has not panicked, that the disk is accounted     *)
(* for; that a valid cached inode has the disk's type and blocks, except   *)
(* between iput's iupdate and its assignment to valid (Tended, Stale);     *)
(* that a process has locked, and has read, the inodes that its stack      *)
(* relies on (ClaimsOK); that an inode which is open or a directory, or    *)
(* about to be, is allocated (PinsOK); and that iput frees none of them    *)
(* and nothing that its own call has locked (FreeOK).                      *)
(***************************************************************************)
EXTENDS FsProofs
-----------------------------------------------------------------------------
(* Blocks and their owners *)

Owns(d, b) == b # 0 /\ (d.ind = b \/ \E k \in Slots : d.addrs[k] = b)
\* An inode needs no indirect block that it has not got.
Rooted(d)  == \A k \in Slots : k >= NDIRECT /\ d.addrs[k] # 0 => d.ind # 0
\* What Accounted says, of any inodes D and bitmap u.
Books(D, u) ==
  /\ \A b : b \in u <=> \E j \in Inums : Owns(D[j], b)
  /\ \A i, j \in Inums : \A b : Owns(D[i], b) /\ Owns(D[j], b) => i = j
  /\ \A j \in Inums : D[j].type = "none" => \A b : ~Owns(D[j], b)
  /\ \A j \in Inums : Rooted(D[j])

\* The blocks of an inode are those that it owns.
LEMMA OwnsIs ==
  ASSUME NEW d, NEW b
  PROVE  b \in OwnBlocks(d) <=> Owns(d, b)
  BY DEF OwnBlocks, Owns

\* Accounted, in terms of Owns.
LEMMA AccountedBooks ==
  ASSUME NEW s
  PROVE  Accounted(s) <=> Books(s.disk, s.used)
  <1>1. \A j \in Inums : \A b : b \in OwnBlocks(s.disk[j]) <=> Owns(s.disk[j], b)
    BY OwnsIs
  <1>2. (s.used = UNION {OwnBlocks(s.disk[i]) : i \in Inums})
        <=> \A b : b \in s.used <=> \E j \in Inums : Owns(s.disk[j], b)
    <2>1. \A b : b \in UNION {OwnBlocks(s.disk[i]) : i \in Inums} <=> \E j \in Inums : Owns(s.disk[j], b)
      BY <1>1
    <2> QED BY <2>1
  <1>3. (\A i, j \in Inums : i # j => OwnBlocks(s.disk[i]) \cap OwnBlocks(s.disk[j]) = {})
        <=> \A i, j \in Inums : \A b : Owns(s.disk[i], b) /\ Owns(s.disk[j], b) => i = j
    BY <1>1
  <1>4. (\A i \in Inums : s.disk[i].type = "none" => OwnBlocks(s.disk[i]) = {})
        <=> \A j \in Inums : s.disk[j].type = "none" => \A b : ~Owns(s.disk[j], b)
    BY <1>1
  <1>5. (\A i \in Inums, k \in Slots : k >= NDIRECT /\ s.disk[i].addrs[k] # 0 => s.disk[i].ind # 0)
        <=> \A j \in Inums : Rooted(s.disk[j])
    BY DEF Rooted
  <1> QED BY <1>2, <1>3, <1>4, <1>5 DEF Accounted, Books

\* An inode gets a block that was free.
LEMMA BooksTake ==
  ASSUME NEW D, NEW u, Books(D, u), NEW i \in Inums, NEW b, b \notin u, b # 0, NEW E,
         \A j \in Inums \ {i} : E[j] = D[j], E[i].type # "none", Rooted(E[i]),
         \A c : Owns(E[i], c) <=> Owns(D[i], c) \/ c = b
  PROVE  Books(E, u \cup {b})
  <1>1. \A j \in Inums : \A c : Owns(E[j], c) <=> Owns(D[j], c) \/ (j = i /\ c = b)
    OBVIOUS
  <1>2. \A j \in Inums : ~Owns(D[j], b)
    BY DEF Books
  <1>3. \A c : c \in u \cup {b} <=> \E j \in Inums : Owns(E[j], c)
    BY <1>1 DEF Books
  <1>4. \A k, j \in Inums : \A c : Owns(E[k], c) /\ Owns(E[j], c) => k = j
    BY <1>1, <1>2 DEF Books
  <1>5. \A j \in Inums : E[j].type = "none" => \A c : ~Owns(E[j], c)
    BY DEF Books
  <1>6. \A j \in Inums : Rooted(E[j])
    BY DEF Books
  <1> QED BY <1>3, <1>4, <1>5, <1>6 DEF Books

\* An inode changes and keeps its blocks.
LEMMA BooksSame ==
  ASSUME NEW D, NEW u, Books(D, u), NEW i \in Inums, NEW E,
         \A j \in Inums \ {i} : E[j] = D[j], E[i].type = "none" => D[i].type = "none", Rooted(E[i]),
         \A c : Owns(E[i], c) <=> Owns(D[i], c)
  PROVE  Books(E, u)
  <1>1. \A j \in Inums : \A c : Owns(E[j], c) <=> Owns(D[j], c)
    OBVIOUS
  <1>2. \A c : c \in u <=> \E j \in Inums : Owns(E[j], c)
    BY <1>1 DEF Books
  <1>3. \A k, j \in Inums : \A c : Owns(E[k], c) /\ Owns(E[j], c) => k = j
    BY <1>1 DEF Books
  <1>4. \A j \in Inums : E[j].type = "none" => \A c : ~Owns(E[j], c)
    BY <1>1 DEF Books
  <1>5. \A j \in Inums : Rooted(E[j])
    BY DEF Books
  <1> QED BY <1>2, <1>3, <1>4, <1>5 DEF Books

\* An inode gives up its blocks.
LEMMA BooksDrop ==
  ASSUME NEW D, NEW u, Books(D, u), NEW i \in Inums, NEW E,
         \A j \in Inums \ {i} : E[j] = D[j], Rooted(E[i]), \A c : ~Owns(E[i], c)
  PROVE  Books(E, u \ OwnBlocks(D[i]))
  <1>1. \A j \in Inums : \A c : Owns(E[j], c) <=> Owns(D[j], c) /\ j # i
    OBVIOUS
  <1>2. \A c : c \in u \ OwnBlocks(D[i]) <=> c \in u /\ ~Owns(D[i], c)
    BY OwnsIs
  <1>3. \A c : c \in u \ OwnBlocks(D[i]) <=> \E j \in Inums : Owns(E[j], c)
    BY <1>1, <1>2 DEF Books
  <1>4. \A k, j \in Inums : \A c : Owns(E[k], c) /\ Owns(E[j], c) => k = j
    BY <1>1 DEF Books
  <1>5. \A j \in Inums : E[j].type = "none" => \A c : ~Owns(E[j], c)
    BY DEF Books
  <1>6. \A j \in Inums : Rooted(E[j])
    BY DEF Books
  <1> QED BY <1>3, <1>4, <1>5, <1>6 DEF Books

(* Between balloc and iupdate the inode that is written is ahead of the disk. *)
Drafted(s, i) == [j \in Inums |-> IF j = i THEN s.mem[i].d ELSE s.disk[j]]
Draft(s, i)   == Books(Drafted(s, i), s.used) /\ s.mem[i].d.type # "none"
\* From s to t only the cached copy of i and the bitmap change.
Draws(s, t, i) ==
  /\ Draft(t, i) /\ t.disk = s.disk /\ t.mem[i].valid = s.mem[i].valid
  /\ \A j \in Inums \ {i} : t.mem[j] = s.mem[j]

\* Doing nothing, or nothing to inodes and bitmap.
LEMMA DrawsSame ==
  ASSUME NEW s, NEW t, NEW i, Draft(s, i), t.mem = s.mem, t.disk = s.disk, t.used = s.used
  PROVE  Draws(s, t, i)
  BY DEF Draws, Draft, Drafted

\* Two such steps are one.
LEMMA DrawsDraws ==
  ASSUME NEW s, NEW t, NEW u, NEW i, Draws(s, t, i), Draws(t, u, i)
  PROVE  Draws(s, u, i)
  BY DEF Draws

\* A panic changes neither inodes nor bitmap.
LEMMA PanicParts ==
  ASSUME NEW s, NEW N, Sound(s, N), NEW why
  PROVE  Panic(s, why).mem = s.mem /\ Panic(s, why).disk = s.disk /\ Panic(s, why).used = s.used
  BY DEF Panic, Sound, FsStates

\* The block that balloc gives was free, and only the bitmap and that block change.
LEMMA TakeParts ==
  ASSUME NEW s, NEW N, Sound(s, N), ~Full(s), NEW b, b = Balloc(s), NEW t, t = Take(s)
  PROVE  /\ b \in Blocks /\ b \notin s.used /\ b # 0
         /\ t.mem = s.mem /\ t.disk = s.disk /\ t.used = s.used \cup {b}
  <1>1. b \in Blocks \ s.used
    <2>1. Blocks \ s.used # {} /\ Blocks \ s.used \subseteq Nat
      BY DEF Full, Blocks
    <2> QED BY <2>1, MinIn DEF Balloc
  <1>2. b # 0
    BY <1>1 DEF Blocks
  <1>3. t.mem = s.mem /\ t.disk = s.disk /\ t.used = s.used \cup {b}
    BY DEF Take, Sound, FsStates
  <1> QED BY <1>1, <1>2, <1>3

\* The inode gets block b.
LEMMA DrawsNew ==
  ASSUME NEW s, NEW N, Sound(s, N), NEW i \in Inums, Draft(s, i), NEW b, b # 0, b \notin s.used,
         NEW e, e.type = s.mem[i].d.type, Rooted(e), \A c : Owns(e, c) <=> Owns(s.mem[i].d, c) \/ c = b,
         NEW t, t.used = s.used \cup {b}, t.disk = s.disk, t.mem = [s.mem EXCEPT ![i].d = e]
  PROVE  Draws(s, t, i)
  <1>1. s.mem \in [Inums -> Cached(N)]
    BY DEF Sound, FsStates
  <1>2. t.mem[i].d = e /\ t.mem[i].valid = s.mem[i].valid /\ \A j \in Inums \ {i} : t.mem[j] = s.mem[j]
    BY <1>1 DEF Cached
  <1>3. PICK D : D = Drafted(s, i)
    OBVIOUS
  <1>4. PICK E : E = Drafted(t, i)
    OBVIOUS
  <1>5. D[i] = s.mem[i].d /\ E[i] = e /\ \A j \in Inums \ {i} : E[j] = D[j]
    BY <1>2, <1>3, <1>4 DEF Drafted
  <1>6. Books(D, s.used) /\ e.type # "none"
    BY <1>3 DEF Draft
  <1>7. Books(E, s.used \cup {b})
    BY <1>5, <1>6, BooksTake
  <1> QED BY <1>2, <1>4, <1>6, <1>7 DEF Draws, Draft

\* The indirect block, and the need for it.
LEMMA TakeIndDraws ==
  ASSUME NEW s, NEW N, Sound(s, N), Named(N), NEW i \in Inums, Draft(s, i), NEW t, t = TakeInd(s, i)
  PROVE  Draws(s, t, i) /\ (t.mem[i].d.ind # 0 \/ Full(t))
  <1>1. CASE s.mem[i].d.ind # 0
    BY <1>1, DrawsSame DEF TakeInd
  <1>2. CASE s.mem[i].d.ind = 0 /\ Full(s)
    <2>1. t = Panic(s, "balloc: out of blocks")
      BY <1>2 DEF TakeInd
    <2>2. t.mem = s.mem /\ t.disk = s.disk /\ t.used = s.used
      BY <2>1, PanicParts
    <2>3. Draws(s, t, i)
      BY <2>2, DrawsSame
    <2> QED BY <1>2, <2>2, <2>3 DEF Full
  <1>3. CASE s.mem[i].d.ind = 0 /\ ~Full(s)
    <2>1. PICK r : r = Take(s)
      OBVIOUS
    <2>2. PICK b : b = Balloc(s)
      OBVIOUS
    <2>3. b \in Blocks /\ b \notin s.used /\ b # 0 /\ r.mem = s.mem /\ r.disk = s.disk /\ r.used = s.used \cup {b}
      BY <1>3, <2>1, <2>2, TakeParts
    <2>4. Sound(r, N)
      BY <1>3, <2>1, TakeKeeps, KeptSound
    <2>5. t = [r EXCEPT !.mem[i].d.ind = b]
      BY <1>3, <2>1, <2>2 DEF TakeInd
    <2>6. PICK d \in Dinodes(N) : d = s.mem[i].d
      BY DEF Sound, FsStates, Cached
    <2>7. PICK e : e = [d EXCEPT !.ind = b]
      OBVIOUS
    <2>8. e.ind = b /\ e.addrs = d.addrs /\ e.type = d.type
      BY <2>7 DEF Dinodes
    <2>9. \A c : Owns(e, c) <=> Owns(d, c) \/ c = b
      BY <1>3, <2>3, <2>6, <2>8 DEF Owns
    <2>10. Rooted(e)
      BY <2>3, <2>8 DEF Rooted
    <2>11. t.used = r.used /\ t.disk = r.disk /\ t.mem = [s.mem EXCEPT ![i].d = e]
      BY <2>3, <2>4, <2>5, <2>6, <2>7 DEF Sound, FsStates, Cached
    <2>a. t.used = s.used \cup {b} /\ t.disk = s.disk /\ e.type = s.mem[i].d.type
      BY <2>3, <2>6, <2>8, <2>11
    <2>b. \A c : Owns(e, c) <=> Owns(s.mem[i].d, c) \/ c = b
      BY <2>6, <2>9
    <2>c. b # 0 /\ b \notin s.used /\ t.mem = [s.mem EXCEPT ![i].d = e]
      BY <2>3, <2>11
    <2>12. Draws(s, t, i)
      BY <2>10, <2>a, <2>b, <2>c, DrawsNew
    <2>13. t.mem[i].d = e
      BY <2>c DEF Sound, FsStates, Cached
    <2> QED BY <2>3, <2>8, <2>12, <2>13
  <1> QED BY <1>1, <1>2, <1>3

\* A data block.
LEMMA TakeAddrDraws ==
  ASSUME NEW s, NEW N, Sound(s, N), Named(N), NEW i \in Inums, NEW k \in Slots, Draft(s, i),
         k >= NDIRECT => s.mem[i].d.ind # 0 \/ Full(s), NEW t, t = TakeAddr(s, i, k)
  PROVE  Draws(s, t, i)
  <1>1. CASE s.mem[i].d.addrs[k] # 0
    BY <1>1, DrawsSame DEF TakeAddr
  <1>2. CASE s.mem[i].d.addrs[k] = 0 /\ Full(s)
    <2>1. t = Panic(s, "balloc: out of blocks")
      BY <1>2 DEF TakeAddr
    <2>2. t.mem = s.mem /\ t.disk = s.disk /\ t.used = s.used
      BY <2>1, PanicParts
    <2> QED BY <2>2, DrawsSame
  <1>3. CASE s.mem[i].d.addrs[k] = 0 /\ ~Full(s)
    <2>1. PICK r : r = Take(s)
      OBVIOUS
    <2>2. PICK b : b = Balloc(s)
      OBVIOUS
    <2>3. b \in Blocks /\ b \notin s.used /\ b # 0 /\ r.mem = s.mem /\ r.disk = s.disk /\ r.used = s.used \cup {b}
      BY <1>3, <2>1, <2>2, TakeParts
    <2>4. Sound(r, N)
      BY <1>3, <2>1, TakeKeeps, KeptSound
    <2>5. t = [r EXCEPT !.mem[i].d.addrs[k] = b]
      BY <1>3, <2>1, <2>2 DEF TakeAddr
    <2>6. PICK d \in Dinodes(N) : d = s.mem[i].d
      BY DEF Sound, FsStates, Cached
    <2>7. PICK a : a = [d.addrs EXCEPT ![k] = b]
      OBVIOUS
    <2>8. PICK e : e = [d EXCEPT !.addrs = a]
      OBVIOUS
    <2>9. e.ind = d.ind /\ e.addrs = a /\ e.type = d.type
      BY <2>8 DEF Dinodes
    <2>10. d.addrs \in [Slots -> 0..NBLOCKS]
      BY DEF Dinodes
    <2>11. d.addrs[k] = 0 /\ a[k] = b /\ \A x \in Slots : x # k => a[x] = d.addrs[x]
      BY <1>3, <2>6, <2>7, <2>10
    <2>12. \A c : Owns(e, c) <=> Owns(d, c) \/ c = b
      BY <2>3, <2>9, <2>11 DEF Owns
    <2>13. Rooted(d)
      <3>1. Rooted(Drafted(s, i)[i])
        BY DEF Draft, Books
      <3> QED BY <2>6, <3>1 DEF Drafted
    <2>14. Rooted(e)
      BY <1>3, <2>6, <2>9, <2>11, <2>13 DEF Rooted
    <2>15. t.used = r.used /\ t.disk = r.disk
      BY <2>4, <2>5 DEF Sound, FsStates
    <2>16. t.mem = [s.mem EXCEPT ![i].d = e]
      BY <2>3, <2>4, <2>5, <2>6, <2>7, <2>8 DEF Sound, FsStates, Cached, Dinodes
    <2> QED BY <2>3, <2>6, <2>9, <2>12, <2>14, <2>15, <2>16, DrawsNew
  <1> QED BY <1>1, <1>2, <1>3

\* bmap; and it changes nothing where there is a block.
LEMMA BmapDraws ==
  ASSUME NEW s, NEW N, Sound(s, N), Named(N), NEW i \in Inums, NEW k \in Nat, Draft(s, i), NEW t, t = Bmap(s, i, k)
  PROVE  Draws(s, t, i) /\ (k \in Slots /\ s.mem[i].d.addrs[k] # 0 => t = s)
  <1>0. ASSUME k \in Slots, k >= NDIRECT, s.mem[i].d.addrs[k] # 0 PROVE s.mem[i].d.ind # 0
    <2>1. Rooted(Drafted(s, i)[i])
      BY DEF Draft, Books
    <2>2. Rooted(s.mem[i].d)
      BY <2>1 DEF Drafted
    <2> QED BY <1>0, <2>2 DEF Rooted
  <1>1. CASE k < NDIRECT
    <2>1. k \in Slots /\ ~(k >= NDIRECT) /\ ~(k \in NDIRECT..(NDIRECT + NINDIRECT - 1))
      BY <1>1, InodeAssumption DEF Slots
    <2>2. t = TakeAddr(s, i, k)
      BY <1>1, <2>1 DEF Bmap
    <2>3. Draws(s, t, i)
      BY <2>1, <2>2, TakeAddrDraws
    <2> QED BY <2>2, <2>3 DEF TakeAddr
  <1>2. CASE k \in NDIRECT..(NDIRECT + NINDIRECT - 1)
    <2>1. k \in Slots /\ ~(k < NDIRECT)
      BY <1>2, InodeAssumption DEF Slots
    <2>2. PICK u : u = TakeInd(s, i)
      OBVIOUS
    <2>3. t = TakeAddr(u, i, k)
      BY <1>2, <2>1, <2>2 DEF Bmap, Let
    <2>4. Sound(u, N)
      BY <2>2, TakeIndKeeps, KeptSound
    <2>5. Draws(s, u, i) /\ (u.mem[i].d.ind # 0 \/ Full(u))
      BY <2>2, TakeIndDraws
    <2>6. Draws(u, t, i)
      BY <2>1, <2>3, <2>4, <2>5, TakeAddrDraws DEF Draws
    <2>7. ASSUME s.mem[i].d.addrs[k] # 0 PROVE t = s
      <3>0. k >= NDIRECT
        BY <1>2, InodeAssumption
      <3>1. u = s
        BY <1>0, <2>1, <2>2, <2>7, <3>0 DEF TakeInd
      <3> QED BY <2>3, <2>7, <3>1 DEF TakeAddr
    <2> QED BY <2>5, <2>6, <2>7, DrawsDraws
  <1>3. CASE ~(k < NDIRECT) /\ ~(k \in NDIRECT..(NDIRECT + NINDIRECT - 1))
    <2>1. t = Panic(s, "bmap: out of range")
      BY <1>3 DEF Bmap
    <2>2. k \notin Slots
      BY <1>3, InodeAssumption DEF Slots
    <2> QED BY <2>1, <2>2, PanicParts, DrawsSame
  <1> QED BY <1>1, <1>2, <1>3

\* Writing one unit is bmap and a change of its block.
LEMMA PutUnitIs ==
  ASSUME NEW s, NEW i, NEW k, NEW u, s.panic = ""
  PROVE  PutUnit(s, i, k, u) = StoreUnit(Bmap(s, i, k \div BSIZE), i, k, u)
  <1>1. PICK v : v = Bmap(s, i, k \div BSIZE)
    OBVIOUS
  <1>2. PICK w : w = StoreUnit(v, i, k, u)
    OBVIOUS
  <1>3. {StoreUnit(x, i, k, u) : x \in {v}} = {w}
    BY <1>2
  <1>4. PutUnit(s, i, k, u) = CHOOSE r \in {StoreUnit(x, i, k, u) : x \in {v}} : TRUE
    BY <1>1 DEF PutUnit, Let, StoreUnit
  <1> QED BY <1>1, <1>2, <1>3, <1>4

\* Writing one unit; the inode stays as it is where it has a block.
LEMMA PutUnitDraws ==
  ASSUME NEW s, NEW N, Sound(s, N), Named(N), NEW i \in Inums, NEW k \in Nat, NEW u, Draft(s, i),
         NEW t, t = PutUnit(s, i, k, u)
  PROVE  Draws(s, t, i) /\ (HasUnit(s, i, k) => t.mem = s.mem /\ t.used = s.used)
  <1>1. CASE s.panic # ""
    BY <1>1, DrawsSame DEF PutUnit
  <1>2. CASE s.panic = ""
    <2>1. PICK b \in Nat : b = k \div BSIZE
      BY DivMod
    <2>2. PICK v : v = Bmap(s, i, b)
      OBVIOUS
    <2>3. Draws(s, v, i) /\ (b \in Slots /\ s.mem[i].d.addrs[b] # 0 => v = s)
      BY <2>2, BmapDraws
    <2>4. Sound(v, N)
      BY <2>2, BmapKeeps, KeptSound
    <2>5. t = StoreUnit(v, i, k, u)
      BY <1>2, <2>1, <2>2, PutUnitIs
    <2>6. t.mem = v.mem /\ t.disk = v.disk /\ t.used = v.used
      BY <2>4, <2>5 DEF StoreUnit, Sound, FsStates
    <2>7. Draws(v, t, i)
      BY <2>3, <2>6, DrawsSame DEF Draws
    <2> QED BY <2>1, <2>3, <2>6, <2>7, DrawsDraws DEF HasUnit
  <1> QED BY <1>1, <1>2

\* After k turns of the loop of writei.
DrawnSoFar(s, t, i, off, k) ==
  Draws(s, t, i) /\ (off + k <= s.mem[i].d.size => t.mem = s.mem /\ t.used = s.used)

\* The loop of writei: no turn is the first that does anything else.
LEMMA PutsDraw ==
  ASSUME NEW s, NEW N, Sound(s, N), Named(N), NEW i \in Inums, NEW off \in Nat, NEW units, Len(units) \in Nat,
         \A k \in 1..Len(units) : units[k] \in Units(N), Draft(s, i), NEW f, f = Puts(s, i, off, units)
  PROVE  DrawnSoFar(s, f[Len(units)], i, off, Len(units)) /\ Sound(f[Len(units)], N)
  <1> DEFINE OK(k) == DrawnSoFar(s, f[k], i, off, k) /\ Sound(f[k], N)
             Bad == {k \in 0..Len(units) : ~OK(k)}
  <1>1. SUFFICES ASSUME Bad # {} PROVE FALSE
    OBVIOUS
  <1>2. PICK k \in Bad : \A y \in Bad : k <= y
    <2>1. Bad \subseteq Nat
      OBVIOUS
    <2> HIDE DEF Bad
    <2> QED BY <1>1, <2>1, Least
  <1>3. k \in 0..Len(units) /\ ~OK(k)
    BY <1>2
  <1>4. f[0] = s /\ \A j \in 1..Len(units) : f[j] = PutUnit(f[j - 1], i, off + j - 1, units[j])
    BY PutsAre
  <1>5. k # 0
    <2>1. SUFFICES ASSUME k = 0 PROVE FALSE
      OBVIOUS
    <2>2. f[k] = s
      BY <1>4, <2>1
    <2> QED BY <1>3, <2>2, DrawsSame DEF DrawnSoFar
  <1>6. k - 1 \in 0..Len(units) /\ k \in 1..Len(units) /\ ~(k <= k - 1)
    BY <1>3, <1>5
  <1>7. OK(k - 1)
    BY <1>2, <1>6
  <1>8. PICK t : t = f[k - 1]
    OBVIOUS
  <1>9. PICK u : u = f[k]
    OBVIOUS
  <1>10. off + k - 1 \in Nat /\ units[k] \in Units(N)
    BY <1>6
  <1>11. Sound(t, N) /\ Draws(s, t, i) /\ (off + (k - 1) <= s.mem[i].d.size => t.mem = s.mem /\ t.used = s.used)
    BY <1>7, <1>8 DEF DrawnSoFar
  <1>12. u = PutUnit(t, i, off + k - 1, units[k])
    BY <1>4, <1>6, <1>8, <1>9
  <1>13. Draws(t, u, i) /\ (HasUnit(t, i, off + k - 1) => u.mem = t.mem /\ u.used = t.used)
    BY <1>10, <1>11, <1>12, PutUnitDraws DEF Draws
  <1>14. Sound(u, N)
    BY <1>10, <1>11, <1>12, PutUnitKeeps, KeptSound
  <1>15. Draws(s, u, i)
    BY <1>11, <1>13, DrawsDraws
  <1>16. ASSUME off + k <= s.mem[i].d.size PROVE u.mem = s.mem /\ u.used = s.used
    <2>1. s.mem[i].d.size \in Nat /\ Whole(s.mem[i].d)
      BY DEF Sound, FsStates, Cached, Dinodes
    <2>2. off + (k - 1) <= s.mem[i].d.size /\ off + k - 1 \in 0..(s.mem[i].d.size - 1)
      BY <1>6, <1>10, <1>16, <2>1
    <2>3. t.mem = s.mem /\ t.used = s.used
      BY <1>11, <2>2
    <2>4. HasUnit(t, i, off + k - 1)
      BY <2>1, <2>2, <2>3 DEF HasUnit, Whole
    <2> QED BY <1>13, <2>3, <2>4
  <1> QED BY <1>3, <1>9, <1>14, <1>15, <1>16 DEF DrawnSoFar

(* What works on one inode under its lock *)

\* The cached copy of i is what is on the disk.
Tended(s, i) == s.mem[i].valid /\ s.mem[i].d = s.disk[i] /\ s.disk[i].type # "none"
\* From s to t only inode i and the bitmap change.
Works(s, t, i) ==
  /\ Accounted(t) /\ Tended(t, i)
  /\ \A j \in Inums \ {i} : t.mem[j] = s.mem[j] /\ t.disk[j] = s.disk[j]

\* Two works on one inode.
LEMMA WorksWorks ==
  ASSUME NEW s, NEW t, NEW u, NEW i, Works(s, t, i), Works(t, u, i)
  PROVE  Works(s, u, i)
  BY DEF Works

\* A draft that is written.
LEMMA UpdateWorks ==
  ASSUME NEW s, NEW t, NEW N, Sound(t, N), NEW i \in Inums, Draws(s, t, i), s.mem[i].valid,
         NEW d, d.type = t.mem[i].d.type, d.addrs = t.mem[i].d.addrs, d.ind = t.mem[i].d.ind,
         NEW u, u.mem = [t.mem EXCEPT ![i].d = d], u.disk = [t.disk EXCEPT ![i] = d], u.used = t.used
  PROVE  Works(s, u, i)
  <1>1. t.mem \in [Inums -> Cached(N)] /\ t.disk \in [Inums -> Dinodes(N)]
    BY DEF Sound, FsStates
  <1>2. u.mem[i].d = d /\ u.mem[i].valid = t.mem[i].valid /\ \A j \in Inums \ {i} : u.mem[j] = t.mem[j]
    BY <1>1 DEF Cached
  <1>3. u.disk[i] = d /\ \A j \in Inums \ {i} : u.disk[j] = t.disk[j]
    BY <1>1
  <1>4. PICK D : D = Drafted(t, i)
    OBVIOUS
  <1>5. PICK E : E = u.disk
    OBVIOUS
  <1>6. D[i] = t.mem[i].d /\ E[i] = d /\ \A j \in Inums \ {i} : E[j] = D[j]
    BY <1>3, <1>4, <1>5 DEF Drafted
  <1>7. Books(D, t.used) /\ d.type # "none"
    BY <1>4 DEF Draws, Draft
  <1>8. \A c : Owns(E[i], c) <=> Owns(D[i], c)
    BY <1>6 DEF Owns
  <1>9. Rooted(E[i])
    BY <1>6, <1>7 DEF Books, Rooted
  <1>10. Books(E, t.used)
    BY <1>6, <1>7, <1>8, <1>9, BooksSame
  <1>11. Accounted(u)
    BY <1>5, <1>10, AccountedBooks
  <1> QED BY <1>2, <1>3, <1>7, <1>11 DEF Works, Tended, Draws

\* An inode whose copy is what is on the disk is a draft.
LEMMA TendedDraft ==
  ASSUME NEW s, NEW i \in Inums, Accounted(s), Tended(s, i), NEW N, Sound(s, N)
  PROVE  Draft(s, i)
  <1>1. Drafted(s, i) = s.disk
    BY DEF Drafted, Tended, Sound, FsStates
  <1> QED BY <1>1, AccountedBooks DEF Draft, Tended

\* Nothing done to a tended inode.
LEMMA WorksSame ==
  ASSUME NEW s, NEW t, NEW i, Accounted(s), Tended(s, i), t.mem = s.mem, t.disk = s.disk, t.used = s.used
  PROVE  Works(s, t, i)
  BY DEF Works, Tended, Accounted

\* The write-through of a copy that has other fields but the same blocks.
LEMMA StoreWorks ==
  ASSUME NEW s, NEW t, NEW N, Sound(t, N), NEW i \in Inums, Draws(s, t, i), s.mem[i].valid,
         NEW d, d.type = t.mem[i].d.type, d.addrs = t.mem[i].d.addrs, d.ind = t.mem[i].d.ind,
         NEW v, v = WithD(t, i, d), NEW u, u = Iupdate(v, i)
  PROVE  Works(s, u, i)
  <1>1. v.mem = [t.mem EXCEPT ![i].d = d] /\ v.disk = t.disk /\ v.used = t.used
    BY DEF WithD, Sound, FsStates
  <1>2. u = [v EXCEPT !.disk[i] = v.mem[i].d]
    BY IupdateIs
  <1>3. v.mem[i].d = d
    BY <1>1 DEF Sound, FsStates, Cached
  <1>4. u.mem = v.mem /\ u.used = v.used /\ u.disk = [v.disk EXCEPT ![i] = d]
    BY <1>2, <1>3 DEF WithD, Sound, FsStates
  <1>5. u.mem = [t.mem EXCEPT ![i].d = d] /\ u.used = t.used /\ u.disk = [t.disk EXCEPT ![i] = d]
    BY <1>1, <1>4
  <1> QED BY <1>5, UpdateWorks

\* writei.
LEMMA WriteiWorks ==
  ASSUME NEW s, NEW N, Sound(s, N), Named(N), NEW i \in Inums, NEW off \in Nat, NEW units, Len(units) \in Nat,
         \A k \in 1..Len(units) : units[k] \in Units(N), off <= s.mem[i].d.size,
         Accounted(s), Tended(s, i), NEW r, r = Writei(s, i, off, units), Up(r)
  PROVE  Works(s, r, i)
  <1>1. PICK f : f = Puts(s, i, off, units)
    OBVIOUS
  <1>2. PICK end \in Nat : end = off + Len(units)
    OBVIOUS
  <1>3. PICK t : t = f[Len(units)]
    OBVIOUS
  <1>4. r = GrowTo(t, i, units, end)
    BY <1>1, <1>2, <1>3, WriteiIs
  <1>5. Draft(s, i)
    BY TendedDraft
  <1>6. DrawnSoFar(s, t, i, off, Len(units)) /\ Sound(t, N)
    BY <1>1, <1>3, <1>5, PutsDraw
  <1>7. PutSoFar(s, t, N, i, off, Len(units))
    BY <1>1, <1>3, PutsKeep
  <1>8. t.mem[i].d.size = s.mem[i].d.size /\ s.mem[i].d.size \in Nat
    BY <1>7 DEF PutSoFar, Grows, Sound, FsStates, Cached, Dinodes
  <1>9. CASE ~(t.panic = "" /\ units # <<>> /\ end > t.mem[i].d.size)
    <2>1. r = t /\ t.panic = ""
      BY <1>4, <1>9 DEF GrowTo, Up
    <2>2. units = <<>> => Len(units) = 0
      OBVIOUS
    <2>3. off + Len(units) <= s.mem[i].d.size
      <3>1. CASE units = <<>>
        BY <1>8, <2>2, <3>1
      <3>2. CASE units # <<>>
        <4>1. ~(end > t.mem[i].d.size)
          BY <1>9, <2>1, <3>2
        <4> QED BY <1>2, <1>8, <4>1
      <3> QED BY <3>1, <3>2
    <2>4. t.mem = s.mem /\ t.used = s.used /\ t.disk = s.disk
      BY <1>6, <2>3 DEF DrawnSoFar, Draws
    <2> QED BY <2>1, <2>4, WorksSame
  <1>10. CASE t.panic = "" /\ units # <<>> /\ end > t.mem[i].d.size
    <2>1. PICK d \in Dinodes(N) : d = t.mem[i].d
      BY <1>6 DEF Sound, FsStates, Cached
    <2>2. PICK e : e = [d EXCEPT !.size = end]
      OBVIOUS
    <2>3. e.type = d.type /\ e.addrs = d.addrs /\ e.ind = d.ind
      BY <2>2 DEF Dinodes
    <2>4. PICK v : v = [t EXCEPT !.mem[i].d.size = end]
      OBVIOUS
    <2>5. v = WithD(t, i, e)
      BY <1>6, <2>1, <2>2, <2>4 DEF Sound, FsStates, Cached, WithD
    <2>6. r = Iupdate(v, i)
      BY <1>4, <1>10, <2>4 DEF GrowTo
    <2>7. Draws(s, t, i) /\ s.mem[i].valid
      BY <1>6 DEF DrawnSoFar, Tended
    <2> QED BY <1>6, <2>1, <2>3, <2>5, <2>6, <2>7, StoreWorks
  <1> QED BY <1>9, <1>10

\* A link count.
LEMMA AddLinksWorks ==
  ASSUME NEW s, NEW N, Sound(s, N), NEW i \in Inums, NEW n \in Int, Accounted(s), Tended(s, i),
         NEW u, u = AddLinks(s, i, n)
  PROVE  Works(s, u, i)
  <1>1. PICK d \in Dinodes(N) : d = s.mem[i].d
    BY DEF Sound, FsStates, Cached
  <1>2. PICK e : e = [d EXCEPT !.nlink = @ + n]
    OBVIOUS
  <1>3. e.type = d.type /\ e.addrs = d.addrs /\ e.ind = d.ind
    BY <1>2 DEF Dinodes
  <1>4. PICK t : t = [s EXCEPT !.mem[i].d.nlink = @ + n]
    OBVIOUS
  <1>5. t = WithD(s, i, e)
    BY <1>1, <1>2, <1>4 DEF Sound, FsStates, Cached, WithD
  <1>6. Draws(s, s, i) /\ s.mem[i].valid
    BY TendedDraft, DrawsSame DEF Tended
  <1>7. u = Iupdate(t, i)
    BY <1>4 DEF AddLinks
  <1> QED BY <1>1, <1>3, <1>5, <1>6, <1>7, StoreWorks

\* The first link.
LEMMA WithLinkWorks ==
  ASSUME NEW s, NEW N, Sound(s, N), NEW i \in Inums, Accounted(s), Tended(s, i), NEW u, u = WithLink(s, i)
  PROVE  Works(s, u, i)
  <1>1. PICK d \in Dinodes(N) : d = s.mem[i].d
    BY DEF Sound, FsStates, Cached
  <1>2. PICK e : e = [d EXCEPT !.nlink = 1]
    OBVIOUS
  <1>3. e.type = d.type /\ e.addrs = d.addrs /\ e.ind = d.ind
    BY <1>2 DEF Dinodes
  <1>4. PICK t : t = [s EXCEPT !.mem[i].d.nlink = 1]
    OBVIOUS
  <1>5. t = WithD(s, i, e)
    BY <1>1, <1>2, <1>4 DEF Sound, FsStates, Cached, WithD
  <1>6. Draws(s, s, i) /\ s.mem[i].valid
    BY TendedDraft, DrawsSame DEF Tended
  <1>7. u = Iupdate(t, i)
    BY <1>4 DEF WithLink
  <1> QED BY <1>1, <1>3, <1>5, <1>6, <1>7, StoreWorks

\* Writing one entry of a directory.
LEMMA EntryWorks ==
  ASSUME NEW s, NEW N, Sound(s, N), Named(N), NEW dp \in Inums, NEW off \in Nat, NEW u \in Units(N),
         WriteFits(s, dp, off, 1), Accounted(s), Tended(s, dp), NEW r, r = Writei(s, dp, off, <<u>>), Up(r)
  PROVE  Works(s, r, dp)
  <1>1. PICK units : units = <<u>>
    OBVIOUS
  <1>2. Len(units) = 1 /\ units[1] = u
    BY <1>1
  <1>3. Len(units) \in Nat /\ \A k \in 1..Len(units) : units[k] \in Units(N)
    BY <1>2
  <1>4. off <= s.mem[dp].d.size
    BY DEF WriteFits
  <1> QED BY <1>1, <1>3, <1>4, WriteiWorks

\* dirlink.
LEMMA DirlinkWorks ==
  ASSUME NEW s, NEW N, Sound(s, N), Named(N), NEW dp \in Inums, NEW name \in N, NEW inum \in 0..NINODES,
         Accounted(s), Tended(s, dp), NEW r, r = Dirlink(s, dp, name, inum), Up(r)
  PROVE  Works(s, r, dp)
  <1>1. PICK c : c = Content(s, s.mem[dp].d)
    OBVIOUS
  <1>2. DOMAIN c = 1..Len(c) /\ Len(c) \in Nat
    BY <1>1, ContentOK
  <1>3. PICK off \in Nat : off = EmptyOff(c)
    BY <1>2, EmptyOffOK
  <1>4. r = EnterAt(s, dp, name, inum, off)
    BY <1>1, <1>3, DirlinkIs
  <1>5. WriteFits(s, dp, off, 1)
    <2>1. SUFFICES ASSUME ~WriteFits(s, dp, off, 1) PROVE FALSE
      OBVIOUS
    <2>2. r = Panic(s, "dirlink")
      BY <1>4, <2>1 DEF EnterAt
    <2> QED BY <2>2, PanicKeeps DEF Up, Panics
  <1>6. PICK u \in Units(N) : u = Unit(name, inum)
    BY DEF Unit, Units
  <1>7. r = Writei(s, dp, off, <<u>>)
    BY <1>4, <1>5, <1>6 DEF EnterAt
  <1> QED BY <1>5, <1>7, EntryWorks

\* The clearing of an entry.
LEMMA ClearedWorks ==
  ASSUME NEW s, NEW N, Sound(s, N), Named(N), NEW dp \in Inums, NEW off \in Nat, Accounted(s), Tended(s, dp),
         NEW r, r = Cleared(s, dp, off), Up(r)
  PROVE  Works(s, r, dp)
  <1>1. WriteFits(s, dp, off, 1)
    <2>1. SUFFICES ASSUME ~WriteFits(s, dp, off, 1) PROVE FALSE
      OBVIOUS
    <2>2. r = Panic(s, "unlink: writei")
      BY <2>1 DEF Cleared
    <2> QED BY <2>2, PanicKeeps DEF Up, Panics
  <1>2. r = Writei(s, dp, off, <<Zero>>)
    BY <1>1 DEF Cleared
  <1>3. Zero \in Units(N)
    BY ZeroUnit
  <1> QED BY <1>1, <1>2, <1>3, EntryWorks

-----------------------------------------------------------------------------
(* What a step does to each inode *)

Untouched(s, t, j) == t.mem[j].valid = s.mem[j].valid /\ t.mem[j].d = s.mem[j].d /\ t.disk[j] = s.disk[j]
\* Only the inodes in I are read or written, and those are tended afterwards.
Effect(s, t, I) ==
  Accounted(t) /\ \A j \in Inums : Untouched(s, t, j) \/ (j \in I /\ Tended(t, j))
\* Besides, an inode that nobody refers to may get a new cache entry, and one that is free on
\* the disk may be allocated.
Taken(s, t, j) ==
  \/ ~t.mem[j].valid /\ s.mem[j].ref = 0 /\ (t.disk[j] = s.disk[j] \/ s.disk[j].type = "none")
  \/ t.mem[j].valid = s.mem[j].valid /\ s.disk[j].type = "none"
After(s, t, I) ==
  Accounted(t) /\ \A j \in Inums : Untouched(s, t, j) \/ (j \in I /\ Tended(t, j)) \/ Taken(s, t, j)
\* The cached copy of an inode is no stale one.
Coherent(s, i) == s.mem[i].valid => Tended(s, i)

\* Doing nothing.
LEMMA EffectSame ==
  ASSUME NEW s, Accounted(s), NEW I
  PROVE  Effect(s, s, I)
  BY DEF Effect, Untouched

\* Two steps.
LEMMA EffectEffect ==
  ASSUME NEW s, NEW t, NEW u, NEW I, Effect(s, t, I), Effect(t, u, I)
  PROVE  Effect(s, u, I)
  BY DEF Effect, Untouched, Tended

\* A step that takes no inode.
LEMMA EffectAfter ==
  ASSUME NEW s, NEW t, NEW I, Effect(s, t, I)
  PROVE  After(s, t, I)
  BY DEF Effect, After

\* Work on one inode.
LEMMA WorksEffect ==
  ASSUME NEW s, NEW t, NEW i, Works(s, t, i), NEW I, i \in I
  PROVE  Effect(s, t, I)
  BY DEF Works, Effect, Untouched

\* A tended inode stays tended.
LEMMA EffectTended ==
  ASSUME NEW s, NEW t, NEW I, Effect(s, t, I), NEW i \in Inums, Tended(s, i)
  PROVE  Tended(t, i)
  BY DEF Effect, Untouched, Tended

\* What ilock reads.
LEMMA LoadEffect ==
  ASSUME NEW s, NEW N, Sound(s, N), NEW i \in Inums, Accounted(s), Coherent(s, i), NEW t, t = Load(s, i), Up(t),
         NEW I, i \in I
  PROVE  Effect(s, t, I) /\ Tended(t, i)
  <1>1. CASE s.mem[i].valid
    BY <1>1, EffectSame DEF Load, Coherent
  <1>2. CASE ~s.mem[i].valid /\ s.disk[i].type = "none"
    <2>1. t = Panic(s, "ilock: no type")
      BY <1>2 DEF Load
    <2> QED BY <2>1, PanicKeeps DEF Up, Panics
  <1>3. CASE ~s.mem[i].valid /\ s.disk[i].type # "none"
    <2>1. t = [s EXCEPT !.mem[i].valid = TRUE, !.mem[i].d = s.disk[i]]
      BY <1>3 DEF Load
    <2>2. t.disk = s.disk /\ t.used = s.used
      BY <2>1 DEF Sound, FsStates
    <2>3. t.mem[i].valid /\ t.mem[i].d = s.disk[i] /\ \A j \in Inums \ {i} : t.mem[j] = s.mem[j]
      BY <2>1 DEF Sound, FsStates, Cached
    <2>4. Accounted(t)
      BY <2>2 DEF Accounted
    <2> QED BY <1>3, <2>2, <2>3, <2>4 DEF Effect, Untouched, Tended
  <1> QED BY <1>1, <1>2, <1>3

\* What iget does to the cache; the rest stays.
LEMMA IgetParts ==
  ASSUME NEW s, NEW N, Sound(s, N), NEW k \in Inums, NEW t, t = Iget(s, k), Up(t)
  PROVE  /\ t.disk = s.disk /\ t.used = s.used /\ \A j \in Inums \ {k} : t.mem[j] = s.mem[j]
         /\ \/ s.mem[k].ref > 0 /\ t.mem[k].valid = s.mem[k].valid /\ t.mem[k].d = s.mem[k].d
            \/ s.mem[k].ref = 0 /\ ~t.mem[k].valid
  <1>0. s.mem[k].ref \in Nat
    BY DEF Sound, FsStates, Cached
  <1>1. CASE s.mem[k].ref > 0
    <2>1. t = [s EXCEPT !.mem[k].ref = @ + 1]
      BY <1>1 DEF Iget
    <2> QED BY <1>1, <2>1 DEF Sound, FsStates, Cached
  <1>2. CASE ~(s.mem[k].ref > 0) /\ Cardinality({j \in Inums : s.mem[j].ref > 0}) >= NINODE
    <2>1. t = Panic(s, "iget: no inodes")
      BY <1>2 DEF Iget
    <2> QED BY <2>1, PanicKeeps DEF Up, Panics
  <1>3. CASE ~(s.mem[k].ref > 0) /\ ~(Cardinality({j \in Inums : s.mem[j].ref > 0}) >= NINODE)
    <2>1. t = [s EXCEPT !.mem[k] = [ref |-> 1, valid |-> FALSE, d |-> FreeInode]]
      BY <1>3 DEF Iget
    <2>2. t.disk = s.disk /\ t.used = s.used /\ t.mem = [s.mem EXCEPT ![k] = [ref |-> 1, valid |-> FALSE, d |-> FreeInode]]
      BY <2>1 DEF Sound, FsStates
    <2>3. s.mem[k].ref = 0
      BY <1>0, <1>3
    <2> QED BY <2>2, <2>3 DEF Sound, FsStates
  <1> QED BY <1>1, <1>2, <1>3

\* iget after other work.
LEMMA IgetAfter ==
  ASSUME NEW s, NEW t, NEW N, Sound(t, N), NEW I, Effect(s, t, I), SameRefs(s, t), \A i \in I : t.mem[i].ref # 0,
         NEW k \in Inums, NEW u, u = Iget(t, k), Up(u)
  PROVE  After(s, u, I)
  <1>1. /\ u.disk = t.disk /\ u.used = t.used /\ \A j \in Inums \ {k} : u.mem[j] = t.mem[j]
        /\ \/ t.mem[k].ref > 0 /\ u.mem[k].valid = t.mem[k].valid /\ u.mem[k].d = t.mem[k].d
           \/ t.mem[k].ref = 0 /\ ~u.mem[k].valid
    BY IgetParts
  <1>2. Accounted(u)
    BY <1>1 DEF Effect, Accounted
  <1>3. ASSUME NEW j \in Inums PROVE Untouched(s, u, j) \/ (j \in I /\ Tended(u, j)) \/ Taken(s, u, j)
    <2>1. Untouched(s, t, j) \/ (j \in I /\ Tended(t, j))
      BY DEF Effect
    <2>2. CASE Untouched(t, u, j)
      BY <2>1, <2>2 DEF Untouched, Tended
    <2>3. CASE ~Untouched(t, u, j)
      <3>1. j = k /\ t.mem[k].ref = 0 /\ ~u.mem[k].valid
        BY <1>1, <2>3 DEF Untouched
      <3>2. Untouched(s, t, j) /\ s.mem[j].ref = 0
        BY <2>1, <3>1 DEF SameRefs
      <3> QED BY <1>1, <3>1, <3>2 DEF Taken, Untouched
    <2> QED BY <2>2, <2>3
  <1> QED BY <1>2, <1>3 DEF After

\* A new inode has no blocks.
LEMMA NewInode ==
  ASSUME NEW type, NEW d, d = [FreeInode EXCEPT !.type = type]
  PROVE  Rooted(d) /\ (\A c : ~Owns(d, c)) /\ d.type = type
  <1>1. d.ind = 0 /\ d.addrs = [k \in Slots |-> 0] /\ d.type = type
    BY DEF FreeInode
  <1> QED BY <1>1 DEF Rooted, Owns

\* ialloc after other work.
LEMMA AllocAfter ==
  ASSUME NEW s, NEW t, NEW N, Sound(t, N), Named(N), NEW I, Effect(s, t, I), SameRefs(s, t), NEW type \in N,
         ~NoInodes(t), NEW u, u = Allocated(t, type), Up(u)
  PROVE  After(s, u, I) /\ \A j \in Inums : t.mem[j].ref # 0 /\ t.mem[j].valid => u.mem[j].valid
  <1>1. PICK k \in Inums : k = Ialloc(t) /\ t.disk[k].type = "none"
    <2>1. PICK S : S = {i \in Inums : t.disk[i].type = "none"}
      OBVIOUS
    <2>2. S # {} /\ S \subseteq Nat
      BY <2>1 DEF NoInodes, Inums
    <2> QED BY <2>1, <2>2, MinIn DEF Ialloc
  <1>2. PICK d : d = [FreeInode EXCEPT !.type = type]
    OBVIOUS
  <1>3. Rooted(d) /\ (\A c : ~Owns(d, c)) /\ d.type = type
    BY <1>2, NewInode
  <1>4. PICK r : r = [t EXCEPT !.disk[k] = d]
    OBVIOUS
  <1>5. r.mem = t.mem /\ r.used = t.used /\ r.disk = [t.disk EXCEPT ![k] = d]
    BY <1>4 DEF Sound, FsStates
  <1>6. r.disk[k] = d /\ \A j \in Inums \ {k} : r.disk[j] = t.disk[j]
    BY <1>5 DEF Sound, FsStates
  <1>7. u = Iget(r, k)
    BY <1>1, <1>2, <1>4 DEF Allocated
  <1>8. Sound(r, N)
    <2>1. FreeInode \in Dinodes(N) /\ FreeInode.size = 0
      BY FreeInodeOK DEF FreeInode
    <2>2. d \in Dinodes(N) /\ d.size = 0
      BY <1>2, <2>1 DEF Dinodes
    <2>3. Whole(d)
      BY <2>2 DEF Whole
    <2>4. r \in FsStates(N)
      BY <1>4, <2>2 DEF Sound, FsStates
    <2> QED BY <1>5, <1>6, <2>3, <2>4 DEF Sound
  <1>9. Accounted(r)
    <2>1. Books(t.disk, t.used)
      BY AccountedBooks DEF Effect
    <2>2. \A c : ~Owns(t.disk[k], c)
      BY <1>1, <2>1 DEF Books
    <2>3. PICK D : D = t.disk
      OBVIOUS
    <2>4. PICK E : E = r.disk
      OBVIOUS
    <2>5. Books(E, t.used)
      BY <1>1, <1>3, <1>6, <2>1, <2>2, <2>3, <2>4, BooksSame
    <2> QED BY <1>5, <2>4, <2>5, AccountedBooks
  <1>10. /\ u.disk = r.disk /\ u.used = r.used /\ \A j \in Inums \ {k} : u.mem[j] = r.mem[j]
         /\ \/ r.mem[k].ref > 0 /\ u.mem[k].valid = r.mem[k].valid /\ u.mem[k].d = r.mem[k].d
            \/ r.mem[k].ref = 0 /\ ~u.mem[k].valid
    BY <1>7, <1>8, IgetParts
  <1>11. Accounted(u)
    BY <1>9, <1>10 DEF Accounted
  <1>12. ASSUME NEW j \in Inums, j # k PROVE Untouched(s, u, j) \/ (j \in I /\ Tended(u, j))
    <2>1. u.mem[j] = t.mem[j] /\ u.disk[j] = t.disk[j]
      BY <1>5, <1>6, <1>10, <1>12
    <2> QED BY <2>1 DEF Effect, Untouched, Tended
  <1>13. Taken(s, u, k)
    <2>1. Untouched(s, t, k)
      BY <1>1 DEF Effect, Tended
    <2>2. s.disk[k].type = "none" /\ t.mem[k].valid = s.mem[k].valid
      BY <1>1, <2>1 DEF Untouched
    <2>3. s.mem[k].ref = t.mem[k].ref
      BY DEF SameRefs
    <2> QED BY <1>5, <1>10, <2>2, <2>3 DEF Taken
  <1>14. \A j \in Inums : t.mem[j].ref # 0 /\ t.mem[j].valid => u.mem[j].valid
    BY <1>5, <1>10
  <1> QED BY <1>11, <1>12, <1>13, <1>14 DEF After

\* What iput leaves of an inode that it frees.
LEMMA FreedParts ==
  ASSUME NEW s, NEW N, Sound(s, N), NEW i \in Inums, Accounted(s), Tended(s, i), NEW t, t = Freed(s, i)
  PROVE  /\ Accounted(t) /\ t.disk[i].type = "none" /\ t.mem[i].valid
         /\ \A j \in Inums \ {i} : Untouched(s, t, j)
  <1>1. PICK d \in Dinodes(N) : d = s.mem[i].d
    BY DEF Sound, FsStates, Cached
  <1>2. PICK e : e = [d EXCEPT !.size = 0, !.ind = 0, !.addrs = [k \in Slots |-> 0]]
    OBVIOUS
  <1>3. e \in Dinodes(N) /\ e.ind = 0 /\ e.addrs = [k \in Slots |-> 0]
    BY <1>2, Empties DEF Dinodes
  <1>4. PICK u : u = s.used \ OwnBlocks(s.mem[i].d)
    OBVIOUS
  <1>5. PICK r : r = [s EXCEPT !.used = @ \ OwnBlocks(s.mem[i].d),
                            !.mem[i].d = [@ EXCEPT !.size = 0, !.ind = 0, !.addrs = [k \in Slots |-> 0]]]
    OBVIOUS
  <1>6. r.used = u /\ r.disk = s.disk /\ r.mem = [s.mem EXCEPT ![i].d = e] /\ r = [s EXCEPT !.used = u, !.mem[i].d = e]
    BY <1>1, <1>2, <1>4, <1>5 DEF Sound, FsStates, Cached
  <1>7. r.mem[i].d = e
    BY <1>6 DEF Sound, FsStates, Cached
  <1>8. PICK v : v = Itrunc(s, i)
    OBVIOUS
  <1>9. v = [r EXCEPT !.disk[i] = e]
    BY <1>5, <1>7, <1>8, IupdateIs DEF Itrunc
  <1>10. v.used = u /\ v.mem = r.mem /\ v.disk = [s.disk EXCEPT ![i] = e]
    BY <1>6, <1>9 DEF Sound, FsStates
  <1>11. PICK g : g = [e EXCEPT !.type = "none"]
    OBVIOUS
  <1>12. g.type = "none" /\ g.ind = 0 /\ g.addrs = [k \in Slots |-> 0]
    BY <1>3, <1>11 DEF Dinodes
  <1>13. PICK w : w = [v EXCEPT !.mem[i].d.type = "none"]
    OBVIOUS
  <1>14. Sound(v, N)
    BY <1>8, ItruncKeeps, KeptSound
  <1>15. w.used = u /\ w.disk = v.disk /\ w.mem = [v.mem EXCEPT ![i].d = g]
    BY <1>7, <1>10, <1>11, <1>13, <1>14 DEF Sound, FsStates, Cached
  <1>16. w.mem[i].d = g
    BY <1>14, <1>15 DEF Sound, FsStates, Cached
  <1>17. t = [w EXCEPT !.disk[i] = g]
    <2>1. t = Iupdate(w, i)
      BY <1>8, <1>13 DEF Freed, Let
    <2> QED BY <1>16, <2>1, IupdateIs
  <1>18. t.used = u /\ t.mem = w.mem /\ t.disk = [v.disk EXCEPT ![i] = g]
    BY <1>13, <1>14, <1>15, <1>17 DEF Sound, FsStates
  <1>19. t.disk[i] = g /\ \A j \in Inums \ {i} : t.disk[j] = s.disk[j]
    BY <1>10, <1>18 DEF Sound, FsStates
  <1>20. t.mem[i].valid /\ \A j \in Inums \ {i} : t.mem[j] = s.mem[j]
    BY <1>6, <1>10, <1>15, <1>18 DEF Sound, FsStates, Cached, Tended
  <1>21. Accounted(t)
    <2>1. PICK D : D = s.disk
      OBVIOUS
    <2>2. PICK E : E = t.disk
      OBVIOUS
    <2>3. Books(D, s.used) /\ u = s.used \ OwnBlocks(D[i])
      BY <1>4, <2>1, AccountedBooks DEF Tended
    <2>4. Rooted(E[i]) /\ \A c : ~Owns(E[i], c)
      BY <1>12, <1>19, <2>2 DEF Rooted, Owns
    <2>5. Books(E, u)
      BY <1>19, <2>1, <2>2, <2>3, <2>4, BooksDrop
    <2> QED BY <1>18, <2>2, <2>5, AccountedBooks
  <1> QED BY <1>12, <1>19, <1>20, <1>21 DEF Untouched

-----------------------------------------------------------------------------
(* Who has locked which inode, and who keeps an inode from being freed *)

\* Where a process has locked ip; it has locked dp where dp is a reference.
IpLocks == {"linkfail", "unlink3", "openfd", "made"}
BodyClaims(b, l, i) == (Lab(b) \in IpLocks /\ l.ip = i) \/ (Lab(b) \in DpLabels /\ l.dp = i)
Freeing(s)      == s # <<>> /\ Head(s) \in {"ifree", "ifreed"}
Claims(s, l, i) == (Freeing(s) /\ l.x = i) \/ BodyClaims(Body(s), l, i)
\* The cached copy of a freed inode is valid for a moment.
Stale(i) == \E p \in Procs : pc[p] # <<>> /\ Head(pc[p]) = "ifreed" /\ loc[p].x = i
\* The inodes that are open or somebody's directory, or about to be.
Pins(s, l, c, i) == HoldsCwd(s, c, i) \/ (Lab(Body(s)) \in {"openset", "chdir2"} /\ l.ip = i)
Pinned(i) == (\E q \in Procs : Pins(pc[q], loc[q], proc[q].cwd, i)) \/ \E f \in 1..NFILE : ftab[f].ip = i

LockType    == lock \in [Inums -> Procs \cup {0}]
CacheOK     == \A i \in Inums : fs.mem[i].valid => Stale(i) \/ Tended(fs, i)
ClaimsOK(p) == \A i \in Inums : Claims(pc[p], loc[p], i) => lock[i] = p /\ fs.mem[i].valid
FreeOK(p)   ==
  /\ Freeing(pc[p]) => ~BodyClaims(Body(pc[p]), loc[p], loc[p].x)
  /\ pc[p] # <<>> /\ Head(pc[p]) = "ifree" => ~Pinned(loc[p].x)
PinsOK      == \A i \in Inums : Pinned(i) => fs.disk[i].type # "none"
BInv == LockType /\ Accounted(fs) /\ CacheOK /\ PinsOK /\ \A p \in Procs : ClaimsOK(p) /\ FreeOK(p)

\* A reference that somebody holds is counted.
LEMMA HeldRef ==
  ASSUME RInv, NEW q \in Procs, NEW j \in Inums,
         HoldsX(pc[q], loc[q], j) \/ HoldsIp(pc[q], loc[q], j) \/ HoldsDp(pc[q], loc[q], j)
           \/ HoldsOld(pc[q], loc[q], j) \/ HoldsCwd(pc[q], proc[q].cwd, j)
  PROVE  fs.mem[j].ref # 0
  <1>1. \A T : T \subseteq Procs => IsFiniteSet(T) /\ Cardinality(T) \in Nat /\ (q \in T => Cardinality(T) # 0)
    BY FileSysAssumption, FS_Subset, FS_CardinalityType, FS_EmptySet
  <1>2. /\ Cardinality(XHolders(j)) \in Nat /\ Cardinality(IpHolders(j)) \in Nat /\ Cardinality(DpHolders(j)) \in Nat
        /\ Cardinality(OldHolders(j)) \in Nat /\ Cardinality(CwdHolders(j)) \in Nat
    BY <1>1 DEF XHolders, IpHolders, DpHolders, OldHolders, CwdHolders
  <1>3. \/ Cardinality(XHolders(j)) # 0 \/ Cardinality(IpHolders(j)) # 0 \/ Cardinality(DpHolders(j)) # 0
        \/ Cardinality(OldHolders(j)) # 0 \/ Cardinality(CwdHolders(j)) # 0
    BY <1>1 DEF XHolders, IpHolders, DpHolders, OldHolders, CwdHolders
  <1>4. fs.mem[j].ref = Held(j) + Cardinality(FilesOf(j)) /\ Cardinality(FilesOf(j)) \in Nat
    BY FilesNat DEF RInv, RefsCounted
  <1> QED BY <1>2, <1>3, <1>4 DEF Held

\* A process that has locked an inode in the middle of a call has a reference to it.
LEMMA ClaimsRef ==
  ASSUME RInv, NEW q \in Procs, NEW j \in Inums, Claims(pc[q], loc[q], j)
  PROVE  fs.mem[j].ref # 0
  <1>1. \/ HoldsX(pc[q], loc[q], j) \/ HoldsIp(pc[q], loc[q], j) \/ HoldsDp(pc[q], loc[q], j)
    BY DEF Claims, Freeing, BodyClaims, HoldsX, HoldsIp, HoldsDp, InPut, PutLabels, IpLocks, IpLabels
  <1> QED BY <1>1, HeldRef

\* What a step of p that frees nothing may do.
Elsewhere(p)  == \A q \in Procs \ {p} : pc'[q] = pc[q] /\ loc'[q] = loc[q]
LockStep(p)   == LockType' /\ \A i \in Inums : lock'[i] = lock[i] \/ lock[i] \in {0, p}
FsStep(p)     == \E I : After(fs, fs', I) /\ \A j \in I : lock[j] \in {0, p}
FreeToPin(p, i) == fs'.disk[i].type # "none" /\ lock[i] \in {0, p}
PinStep(p)    == \A i \in Inums : Pinned(i)' => Pinned(i) \/ FreeToPin(p, i)
OwnClaims(p)  == ~Freeing(pc'[p]) /\ \A i \in Inums : BodyClaims(Body(pc'[p]), loc'[p], i) => lock'[i] = p /\ fs'.mem[i].valid

\* Such a step keeps the invariant.
LEMMA BlockStep ==
  ASSUME RInv, BInv, NEW p \in Procs, ~Freeing(pc[p]), Elsewhere(p), LockStep(p), FsStep(p), PinStep(p), OwnClaims(p)
  PROVE  BInv'
  <1>1. PICK I : After(fs, fs', I) /\ \A j \in I : lock[j] \in {0, p}
    BY DEF FsStep
  <1>2. \A q \in Procs : q # 0
    BY FileSysAssumption
  <1>3. Accounted(fs')
    BY <1>1 DEF After
  <1>4. \A i \in Inums : Stale(i) => Stale(i)'
    BY DEF Stale, Elsewhere, Freeing
  <1>5. CacheOK'
    <2>1. SUFFICES ASSUME NEW i \in Inums, fs'.mem[i].valid PROVE Stale(i)' \/ Tended(fs', i)
      BY DEF CacheOK
    <2>2. fs.mem[i].valid => Stale(i) \/ Tended(fs, i)
      BY DEF BInv, CacheOK
    <2>3. Untouched(fs, fs', i) \/ Tended(fs', i) \/ Taken(fs, fs', i)
      BY <1>1 DEF After
    <2> QED BY <1>4, <2>1, <2>2, <2>3 DEF Untouched, Tended, Taken
  <1>6. PinsOK'
    <2>1. SUFFICES ASSUME NEW i \in Inums, Pinned(i)' PROVE fs'.disk[i].type # "none"
      BY DEF PinsOK
    <2>2. Pinned(i) => fs.disk[i].type # "none"
      BY DEF BInv, PinsOK
    <2>3. Untouched(fs, fs', i) \/ Tended(fs', i) \/ Taken(fs, fs', i)
      BY <1>1 DEF After
    <2>4. Pinned(i) \/ fs'.disk[i].type # "none"
      BY <2>1 DEF PinStep, FreeToPin
    <2> QED BY <2>2, <2>3, <2>4 DEF Untouched, Tended, Taken
  <1>7. ASSUME NEW q \in Procs, q # p PROVE ClaimsOK(q)' /\ FreeOK(q)'
    <2>1. pc'[q] = pc[q] /\ loc'[q] = loc[q]
      BY <1>7 DEF Elsewhere
    <2>2. ASSUME NEW i \in Inums, Claims(pc[q], loc[q], i) PROVE lock[i] = q /\ lock'[i] = q /\ fs'.mem[i].valid
      <3>1. lock[i] = q /\ fs.mem[i].valid
        BY <2>2 DEF BInv, ClaimsOK
      <3>2. lock'[i] = q
        BY <1>2, <1>7, <3>1 DEF LockStep
      <3>3. fs.mem[i].ref # 0
        BY <2>2, ClaimsRef
      <3>4. Untouched(fs, fs', i) \/ Tended(fs', i) \/ Taken(fs, fs', i)
        BY <1>1 DEF After
      <3> QED BY <3>1, <3>2, <3>3, <3>4 DEF Untouched, Tended, Taken
    <2>3. ClaimsOK(q)'
      BY <2>1, <2>2 DEF ClaimsOK
    <2>4. Freeing(pc[q]) => ~BodyClaims(Body(pc[q]), loc[q], loc[q].x)
      BY DEF BInv, FreeOK
    <2>5. ASSUME pc[q] # <<>>, Head(pc[q]) = "ifree" PROVE ~Pinned(loc[q].x)'
      <3>1. ~Pinned(loc[q].x)
        BY <2>5 DEF BInv, FreeOK
      <3>2. loc[q].x \in Inums
        <4>1. InPut(pc[q])
          BY <2>5 DEF InPut, PutLabels
        <4>2. loc[q].x # 0 /\ loc[q].x \in Inos
          BY <4>1 DEF RInv, CallOK, Kernel, TypeInv, Locs
        <4> QED BY <4>2, InosNot0
      <3>3. Claims(pc[q], loc[q], loc[q].x)
        BY <2>5 DEF Claims, Freeing
      <3>4. lock[loc[q].x] = q
        BY <2>2, <3>2, <3>3
      <3>5. ~FreeToPin(p, loc[q].x)
        BY <1>2, <1>7, <3>4 DEF FreeToPin
      <3>6. \A i \in Inums : Pinned(i)' => Pinned(i) \/ FreeToPin(p, i)
        BY DEF PinStep
      <3>7. PICK i \in Inums : i = loc[q].x
        BY <3>2
      <3>8. ~Pinned(i)'
        BY <3>1, <3>5, <3>6, <3>7
      <3> QED BY <2>1, <3>7, <3>8
    <2>6. FreeOK(q)'
      BY <2>1, <2>4, <2>5 DEF FreeOK
    <2> QED BY <2>3, <2>6
  <1>8. ClaimsOK(p)' /\ FreeOK(p)'
    BY DEF ClaimsOK, FreeOK, OwnClaims, Claims, Freeing
  <1>9. \A q \in Procs : ClaimsOK(q)' /\ FreeOK(q)'
    BY <1>7, <1>8
  <1> QED BY <1>3, <1>5, <1>6, <1>9 DEF BInv, LockStep

-----------------------------------------------------------------------------
(* iput *)

\* A step inside iput leaves the call that goes on afterwards.
LEMMA PutGoesOn ==
  ASSUME RInv, NEW p \in Procs, NEW v \in PutLabels, NEW w \in PutLabels, At(p, v), Goto(p, <<w>>), UNCHANGED loc
  PROVE  /\ Elsewhere(p) /\ pc'[p] # <<>> /\ Head(pc'[p]) = w /\ Body(pc'[p]) = Body(pc[p])
         /\ pc[p] # <<>> /\ Head(pc[p]) = v /\ HoldsX(pc[p], loc[p], loc[p].x) /\ loc[p].x \in Inums
  <1>1. pc \in [Procs -> Stacks] /\ pc[p] # <<>> /\ Head(pc[p]) = v
    BY Here
  <1>2. InPut(pc[p]) /\ Body(pc[p]) = Tail(pc[p]) /\ Tail(pc[p]) \in PutBodies /\ loc[p].x \in Inums
    BY HerePut
  <1>3. PICK s : s = <<w>> \o Tail(pc[p])
    OBVIOUS
  <1>4. Body(s) = Body(pc[p]) /\ s # <<>> /\ Head(s) = w
    BY <1>2, <1>3, PutStack
  <1>5. pc' = [pc EXCEPT ![p] = s]
    BY <1>3 DEF Goto
  <1> QED BY <1>1, <1>2, <1>4, <1>5 DEF Elsewhere, HoldsX

\* What pins an inode then is what pinned it.
LEMMA PinsStay ==
  ASSUME NEW p \in Procs, Elsewhere(p), Body(pc'[p]) = Body(pc[p]), UNCHANGED <<loc, proc, ftab>>, NEW i
  PROVE  Pinned(i)' <=> Pinned(i)
  <1>1. \A q \in Procs : Pins(pc'[q], loc'[q], proc'[q].cwd, i) <=> Pins(pc[q], loc[q], proc[q].cwd, i)
    BY DEF Elsewhere, Pins, HoldsCwd
  <1> QED BY <1>1 DEF Pinned

\* One of these numbers is all of their sum.
LEMMA LastOne ==
  ASSUME NEW x \in Nat, NEW a \in Nat, NEW d \in Nat, NEW o \in Nat, NEW c \in Nat, NEW f \in Nat,
         x # 0, 1 = (x + (a + (d + (o + c)))) + f
  PROVE  a = 0 /\ c = 0 /\ f = 0
  OBVIOUS

\* The only reference to an inode is that of the process that gives it up: nothing pins it.
LEMMA LastRef ==
  ASSUME RInv, NEW p \in Procs, NEW i \in Inums, HoldsX(pc[p], loc[p], i), fs.mem[i].ref = 1
  PROVE  ~Pinned(i)
  <1>1. \A T : T \subseteq Procs => IsFiniteSet(T) /\ Cardinality(T) \in Nat /\ (T # {} => Cardinality(T) # 0)
    BY FileSysAssumption, FS_Subset, FS_CardinalityType, FS_EmptySet
  <1>2. /\ Cardinality(XHolders(i)) \in Nat /\ Cardinality(IpHolders(i)) \in Nat /\ Cardinality(DpHolders(i)) \in Nat
        /\ Cardinality(OldHolders(i)) \in Nat /\ Cardinality(CwdHolders(i)) \in Nat /\ Cardinality(XHolders(i)) # 0
    BY <1>1 DEF XHolders, IpHolders, DpHolders, OldHolders, CwdHolders
  <1>3. fs.mem[i].ref = Held(i) + Cardinality(FilesOf(i)) /\ Cardinality(FilesOf(i)) \in Nat
    BY FilesNat DEF RInv, RefsCounted
  <1>4. Cardinality(IpHolders(i)) = 0 /\ Cardinality(CwdHolders(i)) = 0 /\ Cardinality(FilesOf(i)) = 0
    <2>1. PICK x \in Nat, a \in Nat, d \in Nat :
            x = Cardinality(XHolders(i)) /\ a = Cardinality(IpHolders(i)) /\ d = Cardinality(DpHolders(i))
      BY <1>2
    <2>2. PICK o \in Nat, c \in Nat, f \in Nat :
            o = Cardinality(OldHolders(i)) /\ c = Cardinality(CwdHolders(i)) /\ f = Cardinality(FilesOf(i))
      BY <1>2, <1>3
    <2>3. x # 0 /\ 1 = (x + (a + (d + (o + c)))) + f
      BY <1>2, <1>3, <2>1, <2>2 DEF Held
    <2>4. a = 0 /\ c = 0 /\ f = 0
      BY <2>3, LastOne
    <2> QED BY <2>1, <2>2, <2>4
  <1>5. IpHolders(i) = {} /\ CwdHolders(i) = {}
    BY <1>1, <1>4 DEF IpHolders, CwdHolders
  <1>6. FilesOf(i) = {}
    BY <1>4, FilesNat, FS_Subset, FS_EmptySet DEF FilesOf
  <1>7. ASSUME NEW q \in Procs PROVE ~Pins(pc[q], loc[q], proc[q].cwd, i)
    BY <1>5 DEF IpHolders, CwdHolders, Pins, HoldsIp, IpLabels
  <1> QED BY <1>6, <1>7 DEF Pinned, FilesOf

\* Nothing happens to the inodes and the bitmap.
LEMMA FsStepSame ==
  ASSUME BInv, NEW p, fs'.disk = fs.disk, fs'.used = fs.used,
         \A j \in Inums : fs'.mem[j].valid = fs.mem[j].valid /\ fs'.mem[j].d = fs.mem[j].d
  PROVE  FsStep(p)
  <1>1. Accounted(fs')
    BY DEF BInv, Accounted
  <1>2. After(fs, fs', {})
    BY <1>1 DEF After, Untouched
  <1> QED BY <1>2 DEF FsStep

\* No lock changes hands.
LEMMA LockStays ==
  ASSUME BInv, NEW p, UNCHANGED lock
  PROVE  LockStep(p)
  BY DEF BInv, LockStep, LockType

\* A step of iput that frees nothing and keeps the call.
LEMMA PutBlocks ==
  ASSUME RInv, BInv, NEW p \in Procs, ~Freeing(pc[p]), ~Freeing(pc'[p]), Elsewhere(p), Body(pc'[p]) = Body(pc[p]),
         UNCHANGED <<loc, proc, ftab, lock>>, fs'.disk = fs.disk, fs'.used = fs.used,
         \A j \in Inums : fs'.mem[j].valid = fs.mem[j].valid /\ fs'.mem[j].d = fs.mem[j].d
  PROVE  BInv'
  <1>1. FsStep(p) /\ LockStep(p)
    BY FsStepSame, LockStays
  <1>2. PinStep(p)
    BY PinsStay DEF PinStep
  <1>3. OwnClaims(p)
    BY DEF OwnClaims, BInv, ClaimsOK, Claims
  <1> QED BY <1>1, <1>2, <1>3, BlockStep

\* iput locks the inode that it is going to free: it is the last one to know it.
LEMMA IputBlocks ==
  ASSUME RInv, BInv, NEW p \in Procs, Iput(p)
  PROVE  BInv'
  <1>1. At(p, "iput") /\ UNCHANGED <<fs, loc, ftab, proc>> /\ lock[loc[p].x] = 0
    BY DEF Iput, world, Unlocked
  <1>2. PICK i : i = loc[p].x
    OBVIOUS
  <1>3. CASE ~(fs.mem[i].valid /\ fs.mem[i].d.nlink = 0 /\ fs.mem[i].ref = 1)
    <2>1. UNCHANGED lock /\ Goto(p, <<"idrop">>)
      BY <1>2, <1>3 DEF Iput
    <2>2. Elsewhere(p) /\ pc'[p] # <<>> /\ Head(pc'[p]) = "idrop" /\ Body(pc'[p]) = Body(pc[p]) /\ Head(pc[p]) = "iput"
      BY <1>1, <2>1, PutGoesOn DEF PutLabels
    <2>3. ~Freeing(pc[p]) /\ ~Freeing(pc'[p])
      BY <2>2 DEF Freeing
    <2> QED BY <1>1, <2>1, <2>2, <2>3, PutBlocks
  <1>4. CASE fs.mem[i].valid /\ fs.mem[i].d.nlink = 0 /\ fs.mem[i].ref = 1
    <2>1. Locks(p, i) /\ Goto(p, <<"ifree">>)
      BY <1>2, <1>4 DEF Iput
    <2>2. /\ Elsewhere(p) /\ pc'[p] # <<>> /\ Head(pc'[p]) = "ifree" /\ Body(pc'[p]) = Body(pc[p])
          /\ pc[p] # <<>> /\ Head(pc[p]) = "iput" /\ HoldsX(pc[p], loc[p], i) /\ i \in Inums
      BY <1>1, <1>2, <2>1, PutGoesOn DEF PutLabels
    <2>3. lock \in [Inums -> Procs \cup {0}] /\ lock[i] = 0
      BY <1>1, <1>2 DEF BInv, LockType
    <2>4. LockType' /\ lock'[i] = p /\ \A j \in Inums \ {i} : lock'[j] = lock[j]
      BY <2>1, <2>2, <2>3 DEF Locks, LockType
    <2>5. ~Pinned(i)
      BY <1>4, <2>2, LastRef
    <2>6. \A j : Pinned(j)' <=> Pinned(j)
      BY <1>1, <2>2, PinsStay
    <2>7. \A j \in Inums : Stale(j) => Stale(j)'
      BY <1>1, <2>2 DEF Stale, Elsewhere
    <2>8. CacheOK'
      BY <1>1, <2>7 DEF BInv, CacheOK, Tended
    <2>9. PinsOK'
      BY <1>1, <2>6 DEF BInv, PinsOK
    <2>10. p # 0 /\ \A q \in Procs : q # 0
      BY FileSysAssumption
    <2>11. ASSUME NEW q \in Procs, q # p PROVE ClaimsOK(q)' /\ FreeOK(q)'
      <3>1. pc'[q] = pc[q] /\ loc'[q] = loc[q] /\ fs' = fs
        BY <1>1, <2>2, <2>11 DEF Elsewhere
      <3>2. ClaimsOK(q) /\ FreeOK(q)
        BY DEF BInv
      <3>3. ClaimsOK(q)'
        BY <2>3, <2>4, <2>10, <3>1, <3>2 DEF ClaimsOK
      <3>4. FreeOK(q)'
        BY <2>6, <3>1, <3>2 DEF FreeOK
      <3> QED BY <3>3, <3>4
    <2>12. ClaimsOK(p) /\ loc'[p] = loc[p] /\ fs' = fs
      BY <1>1 DEF BInv
    <2>13. ~BodyClaims(Body(pc[p]), loc[p], i)
      BY <2>2, <2>3, <2>10, <2>12 DEF ClaimsOK, Claims
    <2>14. ClaimsOK(p)'
      <3>1. SUFFICES ASSUME NEW j \in Inums, Claims(pc'[p], loc'[p], j) PROVE lock'[j] = p /\ fs'.mem[j].valid
        BY DEF ClaimsOK
      <3>2. CASE j = i
        BY <1>4, <2>4, <2>12, <3>2
      <3>3. CASE j # i
        <4>1. BodyClaims(Body(pc[p]), loc[p], j)
          BY <1>2, <2>2, <2>12, <3>1, <3>3 DEF Claims
        <4>2. lock[j] = p /\ fs.mem[j].valid
          BY <2>12, <4>1 DEF ClaimsOK, Claims
        <4> QED BY <2>4, <2>12, <3>3, <4>2
      <3> QED BY <3>2, <3>3
    <2>15. FreeOK(p)'
      BY <1>2, <2>2, <2>5, <2>6, <2>12, <2>13 DEF FreeOK
    <2>16. \A q \in Procs : ClaimsOK(q)' /\ FreeOK(q)'
      BY <2>11, <2>14, <2>15
    <2>17. Accounted(fs)'
      BY <1>1 DEF BInv
    <2> QED BY <2>4, <2>8, <2>9, <2>16, <2>17 DEF BInv
  <1> QED BY <1>3, <1>4

\* iput frees the blocks of the inode, and the inode.
LEMMA IputFreeBlocks ==
  ASSUME RInv, BInv, NEW p \in Procs, IputFree(p)
  PROVE  BInv'
  <1>1. At(p, "ifree") /\ UNCHANGED <<loc, ftab, proc, lock>> /\ fs' = Freed(fs, loc[p].x) /\ Goto(p, <<"ifreed">>)
    BY DEF IputFree, world
  <1>2. PICK i : i = loc[p].x
    OBVIOUS
  <1>3. /\ Elsewhere(p) /\ pc'[p] # <<>> /\ Head(pc'[p]) = "ifreed" /\ Body(pc'[p]) = Body(pc[p])
        /\ pc[p] # <<>> /\ Head(pc[p]) = "ifree" /\ i \in Inums
    BY <1>1, <1>2, PutGoesOn DEF PutLabels
  <1>4. PICK N : Sound(fs, N)
    BY FsNames
  <1>5. Claims(pc[p], loc[p], i)
    BY <1>2, <1>3 DEF Claims, Freeing
  <1>6. lock[i] = p /\ fs.mem[i].valid
    BY <1>3, <1>5 DEF BInv, ClaimsOK
  <1>7. ~Stale(i)
    <2>1. SUFFICES ASSUME NEW q \in Procs, pc[q] # <<>>, Head(pc[q]) = "ifreed", loc[q].x = i PROVE FALSE
      BY DEF Stale
    <2>2. Claims(pc[q], loc[q], i)
      BY <2>1 DEF Claims, Freeing
    <2>3. lock[i] = q
      BY <1>3, <2>2 DEF BInv, ClaimsOK
    <2> QED BY <1>3, <1>6, <2>1, <2>3
  <1>8. Tended(fs, i)
    BY <1>3, <1>6, <1>7 DEF BInv, CacheOK
  <1>9. /\ Accounted(fs') /\ fs'.disk[i].type = "none" /\ fs'.mem[i].valid
        /\ \A j \in Inums \ {i} : Untouched(fs, fs', j)
    BY <1>1, <1>2, <1>3, <1>4, <1>8, FreedParts DEF BInv
  <1>10. ~Pinned(i)
    BY <1>2, <1>3 DEF BInv, FreeOK
  <1>11. \A j : Pinned(j)' <=> Pinned(j)
    BY <1>1, <1>3, PinsStay
  <1>12. Stale(i)' /\ \A j \in Inums : Stale(j) => Stale(j)'
    BY <1>1, <1>2, <1>3 DEF Stale, Elsewhere
  <1>13. CacheOK'
    BY <1>9, <1>12 DEF BInv, CacheOK, Tended, Untouched
  <1>14. PinsOK'
    BY <1>9, <1>10, <1>11 DEF BInv, PinsOK, Untouched
  <1>15. ASSUME NEW q \in Procs PROVE ClaimsOK(q)' /\ FreeOK(q)'
    <2>1. loc'[q] = loc[q] /\ lock' = lock /\ (Freeing(pc'[q]) <=> Freeing(pc[q])) /\ Body(pc'[q]) = Body(pc[q])
      BY <1>1, <1>3 DEF Elsewhere, Freeing
    <2>2. ClaimsOK(q) /\ FreeOK(q)
      BY DEF BInv
    <2>3. \A j \in Inums : fs.mem[j].valid => fs'.mem[j].valid
      BY <1>9 DEF Untouched
    <2>4. ClaimsOK(q)'
      BY <2>1, <2>2, <2>3 DEF ClaimsOK, Claims
    <2>5. pc'[q] # <<>> /\ Head(pc'[q]) = "ifree" => pc[q] # <<>> /\ Head(pc[q]) = "ifree"
      BY <1>3 DEF Elsewhere
    <2>6. FreeOK(q)'
      BY <1>11, <2>1, <2>2, <2>5 DEF FreeOK
    <2> QED BY <2>4, <2>6
  <1>16. LockType'
    BY <1>1 DEF BInv, LockType
  <1> QED BY <1>9, <1>13, <1>14, <1>15, <1>16 DEF BInv

\* iput forgets the copy of the freed inode and unlocks it.
LEMMA IputFreedBlocks ==
  ASSUME RInv, BInv, NEW p \in Procs, IputFreed(p)
  PROVE  BInv'
  <1>1. /\ At(p, "ifreed") /\ UNCHANGED <<loc, ftab, proc>> /\ Goto(p, <<"idrop">>) /\ Unlocks(loc[p].x)
        /\ fs' = [fs EXCEPT !.mem[loc[p].x].valid = FALSE]
    BY DEF IputFreed, world
  <1>2. PICK i : i = loc[p].x
    OBVIOUS
  <1>3. /\ Elsewhere(p) /\ pc'[p] # <<>> /\ Head(pc'[p]) = "idrop" /\ Body(pc'[p]) = Body(pc[p])
        /\ pc[p] # <<>> /\ Head(pc[p]) = "ifreed" /\ i \in Inums
    BY <1>1, <1>2, PutGoesOn DEF PutLabels
  <1>4. PICK N : Sound(fs, N)
    BY FsNames
  <1>5. fs'.disk = fs.disk /\ fs'.used = fs.used /\ ~fs'.mem[i].valid /\ \A j \in Inums \ {i} : fs'.mem[j] = fs.mem[j]
    BY <1>1, <1>2, <1>3, <1>4 DEF Sound, FsStates, Cached
  <1>6. LockType' /\ \A j \in Inums \ {i} : lock'[j] = lock[j]
    BY <1>1, <1>2, <1>3 DEF BInv, LockType, Unlocks
  <1>7. lock[i] = p
    BY <1>2, <1>3 DEF BInv, ClaimsOK, Claims, Freeing
  <1>8. \A j : Pinned(j)' <=> Pinned(j)
    BY <1>1, <1>3, PinsStay
  <1>9. \A j \in Inums \ {i} : Stale(j) => Stale(j)'
    BY <1>1, <1>2, <1>3 DEF Stale, Elsewhere
  <1>10. CacheOK'
    BY <1>5, <1>9 DEF BInv, CacheOK, Tended
  <1>11. PinsOK'
    BY <1>5, <1>8 DEF BInv, PinsOK
  <1>12. ASSUME NEW q \in Procs PROVE ClaimsOK(q)' /\ FreeOK(q)'
    <2>1. loc'[q] = loc[q] /\ (Freeing(pc'[q]) => Freeing(pc[q])) /\ Body(pc'[q]) = Body(pc[q])
      BY <1>1, <1>3 DEF Elsewhere, Freeing
    <2>2. ClaimsOK(q) /\ FreeOK(q)
      BY DEF BInv
    <2>3. ~Claims(pc'[q], loc[q], i)
      <3>1. CASE q # p
        <4>1. pc'[q] = pc[q] /\ lock[i] # q
          BY <1>3, <1>7, <3>1 DEF Elsewhere
        <4> QED BY <1>3, <2>2, <4>1 DEF ClaimsOK
      <3>2. CASE q = p
        <4>1. Freeing(pc[p]) /\ ~Freeing(pc'[p])
          BY <1>3 DEF Freeing
        <4> QED BY <1>2, <1>3, <2>2, <3>2, <4>1 DEF FreeOK, Claims
      <3> QED BY <3>1, <3>2
    <2>4. ClaimsOK(q)'
      BY <1>5, <1>6, <2>1, <2>2, <2>3 DEF ClaimsOK, Claims
    <2>5. pc'[q] # <<>> /\ Head(pc'[q]) = "ifree" => pc[q] # <<>> /\ Head(pc[q]) = "ifree"
      BY <1>3 DEF Elsewhere
    <2>6. FreeOK(q)'
      BY <1>8, <2>1, <2>2, <2>5 DEF FreeOK
    <2> QED BY <2>4, <2>6
  <1>13. Accounted(fs')
    BY <1>5 DEF BInv, Accounted
  <1> QED BY <1>6, <1>10, <1>11, <1>12, <1>13 DEF BInv

\* iput gives up the reference.
LEMMA IputDropBlocks ==
  ASSUME RInv, BInv, NEW p \in Procs, IputDrop(p)
  PROVE  BInv'
  <1>1. /\ At(p, "idrop") /\ UNCHANGED <<loc, ftab, proc, lock>> /\ Goto(p, <<>>)
        /\ fs' = [fs EXCEPT !.mem[loc[p].x].ref = @ - 1]
    BY DEF IputDrop, world
  <1>2. PICK N : Sound(fs, N)
    BY FsNames
  <1>3. Body(pc[p]) = Tail(pc[p]) /\ Tail(pc[p]) \in PutBodies /\ loc[p].x \in Inums
    BY <1>1, HerePut DEF PutLabels
  <1>4. pc \in [Procs -> Stacks] /\ Head(pc[p]) = "idrop"
    BY <1>1, Here
  <1>5. PICK s : s = Tail(pc[p])
    OBVIOUS
  <1>6. <<>> \o s = s /\ Body(s) = s /\ ~InPut(s)
    <2>1. s \in Bodies
      BY <1>3, <1>5 DEF PutBodies
    <2>2. s \in Seq(Labels)
      BY <2>1, BodySeq DEF LabelSeq
    <2> QED BY <2>1, <2>2, BodyStack
  <1>7. pc' = [pc EXCEPT ![p] = s]
    BY <1>1, <1>5, <1>6 DEF Goto
  <1>8. Elsewhere(p) /\ Body(pc'[p]) = Body(pc[p])
    BY <1>1, <1>3, <1>4, <1>5, <1>6, <1>7 DEF Elsewhere
  <1>9. ~Freeing(pc[p]) /\ ~Freeing(pc'[p])
    BY <1>4, <1>6, <1>7 DEF Freeing, InPut, PutLabels
  <1>10. /\ fs'.disk = fs.disk /\ fs'.used = fs.used
         /\ \A j \in Inums : fs'.mem[j].valid = fs.mem[j].valid /\ fs'.mem[j].d = fs.mem[j].d
    BY <1>1, <1>2, <1>3 DEF Sound, FsStates, Cached
  <1> QED BY <1>1, <1>8, <1>9, <1>10, PutBlocks

-----------------------------------------------------------------------------
(* Steps of a call *)

\* The step of p to body b, with ip = i and dp = d; perhaps it runs iput before.
Sits(p, b, i, d) == \E s, l : To(p, s, l) /\ ~Freeing(s) /\ Body(s) = b /\ l.ip = i /\ l.dp = d
\* What b relies on.
Guards(p, b, i, d) ==
  /\ Lab(b) \in IpLocks /\ i \in Inums => lock'[i] = p /\ fs'.mem[i].valid
  /\ Lab(b) \in DpLabels /\ d \in Inums => lock'[d] = p /\ fs'.mem[d].valid
  /\ Lab(b) = "chdir2" /\ i \in Inums => FreeToPin(p, i)
  /\ Lab(b) # "openset"

\* A step to iput.
LEMMA PutSits ==
  ASSUME NEW p, NEW b, NEW x, NEW i, ToPut(p, b, x, i)
  PROVE  Sits(p, b, i, loc[p].dp)
  BY DEF ToPut, Sits, Freeing

\* A step to a place in the call.
LEMMA BodySits ==
  ASSUME NEW p, NEW b \in Bodies, NEW l, To(p, b, l)
  PROVE  Sits(p, b, l.ip, l.dp)
  BY BodyStack DEF Sits, Freeing, InPut, PutLabels

\* The files name the inodes that they named.
FilesKeep == \A f \in 1..NFILE : ftab'[f].ip = ftab[f].ip

\* A process in a call that still has its current directory is not freeing anything.
Calling(p) == ~InPut(pc[p]) /\ Lab(Body(pc[p])) \notin LeftLabels

\* A process inside a call.
LEMMA InCallCalling ==
  ASSUME NEW p, InCall(p), Lab(pc[p]) \notin LeftLabels
  PROVE  Calling(p)
  BY DEF InCall, Calling

\* A step of a call that gets what its new place relies on keeps the invariant.
LEMMA CallBlocks ==
  ASSUME RInv, BInv, NEW p \in Procs, Calling(p), NEW b, NEW i, NEW d, Sits(p, b, i, d), Guards(p, b, i, d),
         UNCHANGED proc, FilesKeep, LockStep(p), FsStep(p)
  PROVE  BInv'
  <1>1. PICK s, l : To(p, s, l) /\ ~Freeing(s) /\ Body(s) = b /\ l.ip = i /\ l.dp = d
    BY DEF Sits
  <1>2. pc' = [pc EXCEPT ![p] = s] /\ loc' = [loc EXCEPT ![p] = l] /\ pc \in [Procs -> Stacks] /\ loc \in [Procs -> Locs]
    BY <1>1 DEF To, RInv, TypeInv
  <1>3. Elsewhere(p) /\ pc'[p] = s /\ loc'[p] = l
    BY <1>2 DEF Elsewhere
  <1>4. ~Freeing(pc[p])
    BY DEF Calling, InPut, Freeing, PutLabels
  <1>5. OwnClaims(p)
    BY <1>1, <1>3 DEF OwnClaims, BodyClaims, Guards
  <1>6. PinStep(p)
    <2>1. SUFFICES ASSUME NEW j \in Inums, Pinned(j)' PROVE Pinned(j) \/ FreeToPin(p, j)
      BY DEF PinStep
    <2>2. CASE \E f \in 1..NFILE : ftab'[f].ip = j
      BY <2>2 DEF FilesKeep, Pinned
    <2>3. ASSUME NEW q \in Procs, Pins(pc'[q], loc'[q], proc'[q].cwd, j) PROVE Pinned(j) \/ FreeToPin(p, j)
      <3>1. CASE q # p
        BY <1>3, <2>3, <3>1 DEF Elsewhere, Pinned
      <3>2. CASE q = p
        <4>1. HoldsCwd(s, proc[p].cwd, j) \/ (Lab(b) = "chdir2" /\ i = j)
          BY <1>1, <1>3, <2>3, <3>2 DEF Pins, Guards
        <4>2. HoldsCwd(s, proc[p].cwd, j) => HoldsCwd(pc[p], proc[p].cwd, j)
          BY DEF HoldsCwd, Calling
        <4> QED BY <4>1, <4>2 DEF Pinned, Pins, Guards
      <3> QED BY <3>1, <3>2
    <2> QED BY <2>1, <2>2, <2>3 DEF Pinned
  <1> QED BY <1>3, <1>4, <1>5, <1>6, BlockStep

\* A body that needs no locks.
Free(b) == Lab(b) \notin IpLocks /\ Lab(b) \notin DpLabels /\ Lab(b) # "chdir2" /\ Lab(b) # "openset"

\* Such a body relies on nothing.
LEMMA FreeGuards ==
  ASSUME NEW p, NEW b, Free(b), NEW i, NEW d
  PROVE  Guards(p, b, i, d)
  BY DEF Free, Guards

\* The bodies that need no locks.
LEMMA FreeBodies ==
  /\ Free(<<"ret">>) /\ Free(<<"link3", "ret">>) /\ Free(<<"linkbad", "ret">>) /\ Free(<<>>) /\ Free(<<"write", "ret">>)
  /\ Free(<<"zombie">>)
  /\ \A w : Free(<<"create2", w, "ret">>)
  /\ \A c \in Conts : Free(c) /\ Free(<<"namex">> \o c) /\ Free(<<"elem">> \o c)
  <1>1. /\ Free(<<"ret">>) /\ Free(<<"link3", "ret">>) /\ Free(<<"linkbad", "ret">>) /\ Free(<<>>) /\ Free(<<"write", "ret">>)
        /\ Free(<<"zombie">>)
    BY DEF Free, Lab, IpLocks, DpLabels
  <1>2. \A w : Free(<<"create2", w, "ret">>)
    BY DEF Free, Lab, IpLocks, DpLabels
  <1>3. \A c \in Conts : Free(c)
    BY DEF Conts, Free, Lab, IpLocks, DpLabels
  <1>4. ASSUME NEW c \in Conts, NEW w \in {"namex", "elem"} PROVE Free(<<w>> \o c)
    <2>1. c \in Seq(Labels)
      BY BodySeq DEF Bodies, LabelSeq
    <2>2. <<w>> \o c # <<>> /\ Head(<<w>> \o c) = w
      BY <2>1
    <2> QED BY <2>2 DEF Free, Lab, IpLocks, DpLabels
  <1> QED BY <1>1, <1>2, <1>3, <1>4

\* What is read under the lock of i.
LEMMA LoadStep ==
  ASSUME RInv, BInv, NEW i \in Inums, lock[i] = 0, NEW s, s = Load(fs, i), Up(s), NEW N, Sound(fs, N)
  PROVE  Effect(fs, s, {i}) /\ Tended(s, i) /\ SameRefs(fs, s) /\ Sound(s, N)
  <1>1. ~Stale(i)
    <2>1. SUFFICES ASSUME NEW q \in Procs, pc[q] # <<>>, Head(pc[q]) = "ifreed", loc[q].x = i PROVE FALSE
      BY DEF Stale
    <2>2. lock[i] = q
      BY <2>1 DEF BInv, ClaimsOK, Claims, Freeing
    <2> QED BY <2>2, FileSysAssumption
  <1>2. Coherent(fs, i)
    BY <1>1 DEF BInv, CacheOK, Coherent
  <1>3. Effect(fs, s, {i}) /\ Tended(s, i)
    BY <1>2, LoadEffect DEF BInv
  <1> QED BY <1>3, LoadKeeps DEF Kept, Up

\* A step that only reads i or works on it.
LEMMA EffectStep ==
  ASSUME NEW p, NEW i, lock[i] \in {0, p}, Effect(fs, fs', {i})
  PROVE  FsStep(p)
  <1>1. After(fs, fs', {i})
    BY EffectAfter
  <1> QED BY <1>1 DEF FsStep

\* Two inodes.
LEMMA EffectsStep ==
  ASSUME NEW p, NEW i, NEW d, lock[i] \in {0, p}, lock[d] \in {0, p}, Effect(fs, fs', {i, d})
  PROVE  FsStep(p)
  <1>1. After(fs, fs', {i, d})
    BY EffectAfter
  <1> QED BY <1>1 DEF FsStep

-----------------------------------------------------------------------------
(* What the steps of a call do to the inodes *)

\* A step to iput.
LEMMA PutCall ==
  ASSUME RInv, BInv, NEW p \in Procs, InCall(p), Lab(pc[p]) \notin LeftLabels, NEW b, NEW x, NEW i, ToPut(p, b, x, i),
         Guards(p, b, i, loc[p].dp), UNCHANGED <<ftab, proc>>, LockStep(p), FsStep(p)
  PROVE  BInv'
  <1>1. Calling(p) /\ Sits(p, b, i, loc[p].dp) /\ FilesKeep
    BY InCallCalling, PutSits DEF FilesKeep
  <1> QED BY <1>1, CallBlocks

\* A step to another body.
LEMMA BodyCall ==
  ASSUME RInv, BInv, NEW p \in Procs, InCall(p), Lab(pc[p]) \notin LeftLabels, NEW b \in Bodies, NEW l, To(p, b, l),
         Guards(p, b, l.ip, l.dp), UNCHANGED <<ftab, proc>>, LockStep(p), FsStep(p)
  PROVE  BInv'
  <1>1. Calling(p) /\ Sits(p, b, l.ip, l.dp) /\ FilesKeep
    BY InCallCalling, BodySits DEF FilesKeep
  <1> QED BY <1>1, CallBlocks

\* An inode is read under its lock.
LEMMA LoadFs ==
  ASSUME RInv, BInv, NEW p, NEW i \in Inums, lock[i] = 0, fs' = Load(fs, i), Up(fs')
  PROVE  FsStep(p) /\ Tended(fs', i)
  <1>1. PICK N : Sound(fs, N)
    BY FsNames
  <1>2. Effect(fs, fs', {i}) /\ Tended(fs', i)
    BY <1>1, LoadStep
  <1> QED BY <1>2, EffectStep

\* The state after iget is up only if the one before was.
LEMMA IgetUp ==
  ASSUME NEW s, NEW N, Sound(s, N), Named(N), NEW k \in Inums, Up(Iget(s, k))
  PROVE  Up(s)
  BY IgetGets DEF Got, Up

\* iget alone.
LEMMA IgetFs ==
  ASSUME RInv, BInv, NEW p, NEW k \in Inums, fs' = Iget(fs, k), Up(fs')
  PROVE  FsStep(p)
  <1>1. PICK N : Sound(fs, N)
    BY FsNames
  <1>2. Effect(fs, fs, {}) /\ SameRefs(fs, fs)
    BY EffectSame DEF BInv, SameRefs
  <1>3. After(fs, fs', {})
    BY <1>1, <1>2, IgetAfter
  <1> QED BY <1>3 DEF FsStep

\* An inode is read, and another one got.
LEMMA LoadIgetFs ==
  ASSUME RInv, BInv, NEW p, NEW i \in Inums, lock[i] = 0, fs.mem[i].ref # 0, NEW s, s = Load(fs, i),
         NEW k \in Inums, fs' = Iget(s, k), Up(fs')
  PROVE  FsStep(p) /\ fs'.mem[i].valid
  <1>1. PICK N : Sound(fs, N) /\ Named(N)
    BY FsNames
  <1>2. Sound(s, N)
    BY <1>1, LoadKeeps, KeptSound
  <1>3. Up(s)
    BY <1>1, <1>2, IgetUp
  <1>4. Effect(fs, s, {i}) /\ Tended(s, i) /\ SameRefs(fs, s)
    BY <1>1, <1>3, LoadStep
  <1>5. s.mem[i].ref = fs.mem[i].ref /\ s.mem[i].valid
    BY <1>4 DEF SameRefs, Tended
  <1>6. After(fs, fs', {i})
    BY <1>2, <1>4, <1>5, IgetAfter
  <1>7. fs'.mem[i].valid
    BY <1>2, <1>5, IgetParts
  <1> QED BY <1>6, <1>7 DEF FsStep

\* An inode is read and written.
LEMMA LoadWorksFs ==
  ASSUME RInv, BInv, NEW p, NEW i \in Inums, lock[i] = 0, NEW s, s = Load(fs, i), Up(s), Works(s, fs', i)
  PROVE  FsStep(p)
  <1>1. PICK N : Sound(fs, N)
    BY FsNames
  <1>2. Effect(fs, s, {i})
    BY <1>1, LoadStep
  <1>3. Effect(s, fs', {i})
    BY WorksEffect
  <1>4. Effect(fs, fs', {i})
    BY <1>2, <1>3, EffectEffect
  <1> QED BY <1>4, EffectStep

-----------------------------------------------------------------------------
(* namex *)

\* Where a process is in its call.
LEMMA PathHere ==
  ASSUME NEW p, NEW first \in {"namex", "elem"}, NEW c, NEW old, Path(p, first, c, old)
  PROVE  /\ InCall(p) /\ Lab(pc[p]) \notin LeftLabels /\ c \in PutBodies /\ c \in Bodies
         /\ <<"elem">> \o c \in PutBodies /\ <<"elem">> \o c \in Bodies
         /\ Leads(p, <<>>, c) /\ Leads(p, <<"elem">>, <<"elem">> \o c) /\ Free(c) /\ Free(<<"elem">> \o c)
         /\ first = "elem" => loc[p].ip # 0 /\ Lab(pc[p]) \in IpLabels /\ Body(pc[p]) = pc[p]
  <1>1. CASE first = "namex"
    <2>1. From(p, <<"namex">> \o c, FALSE, FALSE, FALSE, old, TRUE)
      BY <1>1, NamexFrom
    <2>2. InCall(p) /\ Form(pc[p], FALSE, FALSE, FALSE, old, TRUE)
      BY <2>1, FromIn
    <2> QED BY <1>1, <2>2, FreeBodies DEF Path, Form, PutBodies
  <1>2. CASE first = "elem"
    <2>1. From(p, <<"elem">> \o c, TRUE, TRUE, FALSE, old, TRUE)
      BY <1>2, ElemFrom
    <2>2. InCall(p) /\ Form(pc[p], TRUE, TRUE, FALSE, old, TRUE) /\ loc[p].ip # 0
      BY <2>1, FromIn
    <2> QED BY <1>2, <2>2, FreeBodies DEF Path, Form, PutBodies, InCall
  <1> QED BY <1>1, <1>2

\* A path that leads nowhere.
LEMMA PathFailsBlocks ==
  ASSUME RInv, BInv, NEW p \in Procs, NEW c, NEW old, Path(p, "elem", c, old), PutIp(p, 0, <<>>),
         UNCHANGED <<ftab, proc, lock>>, FsStep(p)
  PROVE  BInv'
  <1>1. /\ InCall(p) /\ Lab(pc[p]) \notin LeftLabels /\ c \in PutBodies /\ Leads(p, <<>>, c) /\ Free(c)
    BY PathHere
  <1>2. ToPut(p, c, loc[p].ip, 0)
    BY <1>1, ZeroInos, PutIpGoes
  <1> QED BY <1>1, <1>2, FreeGuards, LockStays, PutCall

\* A path that has been walked.
LEMMA PathEndsBlocks ==
  ASSUME RInv, BInv, NEW p \in Procs, NEW c, NEW old, Path(p, "elem", c, old), Goto(p, <<>>),
         UNCHANGED <<loc, ftab, proc, lock>>, FsStep(p)
  PROVE  BInv'
  <1>1. /\ InCall(p) /\ Lab(pc[p]) \notin LeftLabels /\ c \in Bodies /\ Leads(p, <<>>, c) /\ Free(c)
    BY PathHere
  <1>2. To(p, c, loc[p])
    BY <1>1, LocStays, BodyGoes
  <1> QED BY <1>1, <1>2, FreeGuards, LockStays, BodyCall

\* Where namex starts.
LEMMA NamexBlocks ==
  ASSUME RInv, BInv, NEW p \in Procs, Namex(p), Up(fs')
  PROVE  BInv'
  <1>1. /\ At(p, "namex") /\ UNCHANGED <<ftab, proc, lock>> /\ Goto(p, <<"elem">>)
        /\ \E i \in {ROOTINO, proc[p].cwd} : fs' = Iget(fs, i) /\ SetIp(p, i)
    BY DEF Namex, world, SetIp
  <1>2. PICK c, old : Path(p, "namex", c, old)
    BY <1>1, Paths1
  <1>3. PICK b : b = <<"elem">> \o c
    OBVIOUS
  <1>4. /\ InCall(p) /\ Lab(pc[p]) \notin LeftLabels /\ b \in Bodies /\ Leads(p, <<"elem">>, b) /\ Free(b)
    BY <1>2, <1>3, PathHere
  <1>5. PICK i \in Inums : fs' = Iget(fs, i) /\ SetIp(p, i)
    BY <1>1, Here, InodeAssumption DEF ROOTINO, Inums
  <1>6. PICK l : l \in Locs /\ loc' = [loc EXCEPT ![p] = l]
    BY <1>5, InumsInos, IpLocs
  <1>7. To(p, b, l)
    BY <1>1, <1>4, <1>6, BodyGoes
  <1>8. FsStep(p)
    BY <1>5, IgetFs
  <1> QED BY <1>1, <1>4, <1>7, <1>8, FreeGuards, LockStays, BodyCall

\* The end of a path.
LEMMA NamexEndBlocks ==
  ASSUME RInv, BInv, NEW p \in Procs, NamexEnd(p)
  PROVE  BInv'
  <1>1. /\ At(p, "elem") /\ UNCHANGED <<ftab, proc, lock>> /\ fs' = fs
        /\ PutIp(p, 0, <<>>) \/ (Goto(p, <<>>) /\ UNCHANGED loc)
    BY DEF NamexEnd, world
  <1>2. PICK c, old : Path(p, "elem", c, old)
    BY <1>1, Paths1
  <1>3. FsStep(p)
    BY <1>1, FsStepSame
  <1> QED BY <1>1, <1>2, <1>3, PathFailsBlocks, PathEndsBlocks

\* An element of a path.
LEMMA NamexElemBlocks ==
  ASSUME RInv, BInv, NEW p \in Procs, NamexElem(p), Up(fs')
  PROVE  BInv'
  <1>1. PICK s : s = Load(fs, loc[p].ip)
    OBVIOUS
  <1>2. PICK name, next : name = SkipElem(Head(arg[p].rest)) /\ next = Lookup(s, loc[p].ip, name)
    OBVIOUS
  <1>3. /\ At(p, "elem") /\ UNCHANGED <<ftab, proc, lock>> /\ lock[loc[p].ip] = 0
        /\ \/ fs' = s /\ PutIp(p, 0, <<>>)
           \/ fs' = s /\ Goto(p, <<>>) /\ UNCHANGED loc
           \/ next # 0 /\ fs' = Iget(s, next) /\ PutIp(p, next, <<"elem">>)
    <2>1. /\ At(p, "elem") /\ UNCHANGED <<ftab, proc, lock>> /\ lock[loc[p].ip] = 0
      BY DEF NamexElem, world, Unlocked
    <2>2. CASE ~Up(s)
      BY <1>1, <2>1, <2>2 DEF NamexElem
    <2>3. CASE Up(s)
      BY <1>1, <1>2, <2>1, <2>3 DEF NamexElem
    <2> QED BY <2>1, <2>2, <2>3
  <1>4. PICK c, old : Path(p, "elem", c, old)
    BY <1>3, Paths1
  <1>5. PICK b : b = <<"elem">> \o c
    OBVIOUS
  <1>6. /\ InCall(p) /\ Lab(pc[p]) \notin LeftLabels /\ b \in PutBodies /\ Leads(p, <<"elem">>, b) /\ Free(b)
        /\ loc[p].ip # 0 /\ Lab(pc[p]) \in IpLabels /\ Body(pc[p]) = pc[p]
    BY <1>4, <1>5, PathHere
  <1>7. PICK i \in Inums : i = loc[p].ip
    BY <1>6, IpIn
  <1>8. fs' = s => FsStep(p)
    BY <1>1, <1>3, <1>7, LoadFs
  <1>9. CASE next # 0 /\ fs' = Iget(s, next) /\ PutIp(p, next, <<"elem">>)
    <2>1. PICK N : Sound(fs, N)
      BY FsNames
    <2>2. Sound(s, N)
      BY <1>1, <1>7, <2>1, LoadKeeps, KeptSound
    <2>3. next \in Inums
      BY <1>2, <1>7, <1>9, <2>2, LookupOK
    <2>4. fs.mem[i].ref # 0
      BY <1>6, <1>7, HeldRef DEF HoldsIp
    <2>5. FsStep(p)
      BY <1>1, <1>3, <1>7, <1>9, <2>3, <2>4, LoadIgetFs
    <2>6. ToPut(p, b, loc[p].ip, next)
      BY <1>6, <1>9, <2>3, InumsInos, PutIpGoes
    <2> QED BY <1>3, <1>6, <2>5, <2>6, FreeGuards, LockStays, PutCall
  <1> QED BY <1>3, <1>4, <1>8, <1>9, PathFailsBlocks, PathEndsBlocks

-----------------------------------------------------------------------------
(* Locks *)

\* Taking a free lock.
LEMMA LocksStep ==
  ASSUME BInv, NEW p \in Procs, NEW i \in Inums, lock[i] = 0, Locks(p, i)
  PROVE  LockStep(p) /\ lock'[i] = p
  <1>1. lock \in [Inums -> Procs \cup {0}]
    BY DEF BInv, LockType
  <1> QED BY <1>1 DEF LockStep, LockType, Locks

\* Letting one's own lock go.
LEMMA UnlocksStep ==
  ASSUME BInv, NEW p \in Procs, NEW i \in Inums, lock[i] = p, Unlocks(i)
  PROVE  LockStep(p)
  <1>1. lock \in [Inums -> Procs \cup {0}]
    BY DEF BInv, LockType
  <1> QED BY <1>1 DEF LockStep, LockType, Unlocks

\* Taking one and letting the other go.
Swaps(p, i, d) == lock' = [lock EXCEPT ![i] = p, ![d] = 0]

\* The lock of i, and no longer that of d.
LEMMA SwapsStep ==
  ASSUME BInv, NEW p \in Procs, NEW i \in Inums, NEW d \in Inums, lock[i] = 0, lock[d] = p, Swaps(p, i, d)
  PROVE  LockStep(p) /\ lock'[i] = p
  <1>1. lock \in [Inums -> Procs \cup {0}] /\ p # 0
    BY FileSysAssumption DEF BInv, LockType
  <1>2. i # d
    BY <1>1
  <1>3. lock'[i] = p /\ lock' \in [Inums -> Procs \cup {0}] /\ \A j \in Inums \ {i, d} : lock'[j] = lock[j]
    BY <1>1, <1>2 DEF Swaps
  <1> QED BY <1>1, <1>3 DEF LockStep, LockType

\* What a process has locked is no stale copy.
LEMMA Claimed ==
  ASSUME BInv, NEW p \in Procs, NEW i \in Inums, ~Freeing(pc[p]), Claims(pc[p], loc[p], i)
  PROVE  lock[i] = p /\ Tended(fs, i)
  <1>1. lock[i] = p /\ fs.mem[i].valid
    BY DEF BInv, ClaimsOK
  <1>2. ~Stale(i)
    <2>1. SUFFICES ASSUME NEW q \in Procs, pc[q] # <<>>, Head(pc[q]) = "ifreed", loc[q].x = i PROVE FALSE
      BY DEF Stale
    <2>2. lock[i] = q
      BY <2>1 DEF BInv, ClaimsOK, Claims, Freeing
    <2> QED BY <1>1, <2>1, <2>2 DEF Freeing
  <1> QED BY <1>1, <1>2 DEF BInv, CacheOK

\* Where a process is in its call, and what it has locked there.
LEMMA FromHere ==
  ASSUME RInv, BInv, NEW p \in Procs, NEW b, NEW ip, NEW sure, NEW dp, NEW old, From(p, b, ip, sure, dp, old, TRUE)
  PROVE  /\ InCall(p) /\ pc[p] = b /\ Lab(pc[p]) \notin LeftLabels /\ Body(pc[p]) = pc[p] /\ ~Freeing(pc[p])
         /\ \A i \in Inums : Lab(b) \in IpLocks /\ i = loc[p].ip => lock[i] = p /\ Tended(fs, i)
         /\ \A i \in Inums : Lab(b) \in DpLabels /\ i = loc[p].dp => lock[i] = p /\ Tended(fs, i)
  <1>1. InCall(p) /\ pc[p] = b /\ Lab(pc[p]) \notin LeftLabels /\ Body(pc[p]) = pc[p] /\ ~Freeing(pc[p])
    BY FromIn DEF Form, InCall, Freeing, InPut, PutLabels
  <1>2. \A i \in Inums : (Lab(b) \in IpLocks /\ i = loc[p].ip) \/ (Lab(b) \in DpLabels /\ i = loc[p].dp) => Claims(pc[p], loc[p], i)
    BY <1>1 DEF Claims, BodyClaims
  <1> QED BY <1>1, <1>2, Claimed

-----------------------------------------------------------------------------
(* link and unlink *)

\* A call that gives up.
LEMMA FailBlocks ==
  ASSUME RInv, BInv, NEW p \in Procs, NEW a \in Labels, NEW ip, NEW sure, NEW dp, NEW old,
         From(p, <<a, "ret">>, ip, sure, dp, old, TRUE), Fails(p), UNCHANGED <<ftab, proc, lock>>, FsStep(p)
  PROVE  BInv'
  <1>1. InCall(p) /\ pc[p] = <<a, "ret">> /\ Lab(pc[p]) \notin LeftLabels
    BY FromHere
  <1>2. Leads(p, <<>>, <<"ret">>) /\ <<"ret">> \in Bodies
    BY <1>1, LeadsRet DEF Bodies, Ends
  <1>3. To(p, <<"ret">>, loc[p])
    BY <1>2, LocStays, BodyGoes DEF Fails
  <1> QED BY <1>1, <1>2, <1>3, FreeBodies, FreeGuards, LockStays, BodyCall

\* A call that puts an inode and returns.
LEMMA PutOutBlocks ==
  ASSUME RInv, BInv, NEW p \in Procs, NEW a \in Labels, NEW ip, NEW sure, NEW dp, NEW old,
         From(p, <<a, "ret">>, ip, sure, dp, old, TRUE), NEW i \in Inums, Put(p, i, <<>>), UNCHANGED <<ftab, proc>>,
         LockStep(p), FsStep(p)
  PROVE  BInv'
  <1>1. InCall(p) /\ pc[p] = <<a, "ret">> /\ Lab(pc[p]) \notin LeftLabels
    BY FromHere
  <1>2. Leads(p, <<>>, <<"ret">>) /\ <<"ret">> \in PutBodies
    BY <1>1, LeadsRet, Forms DEF Form
  <1>3. ToPut(p, <<"ret">>, i, loc[p].ip)
    BY <1>2, PutGoes
  <1> QED BY <1>1, <1>2, <1>3, FreeBodies, FreeGuards, PutCall

\* A call that puts an inode and goes on.
LEMMA PutOnBlocks ==
  ASSUME RInv, BInv, NEW p \in Procs, NEW a \in Labels, NEW ip, NEW sure, NEW dp, NEW old,
         From(p, <<a, "ret">>, ip, sure, dp, old, TRUE), NEW i \in Inums, NEW w \in Labels, Put(p, i, <<w>>),
         <<w, "ret">> \in PutBodies, Guards(p, <<w, "ret">>, loc[p].ip, loc[p].dp), UNCHANGED <<ftab, proc>>,
         LockStep(p), FsStep(p)
  PROVE  BInv'
  <1>1. InCall(p) /\ pc[p] = <<a, "ret">> /\ Lab(pc[p]) \notin LeftLabels
    BY FromHere
  <1>2. Leads(p, <<w>>, <<w, "ret">>)
    BY <1>1, LeadsRet
  <1>3. ToPut(p, <<w, "ret">>, i, loc[p].ip)
    BY <1>2, PutGoes
  <1> QED BY <1>1, <1>3, PutCall

\* link counts before it enters.
LEMMA LinkCountBlocks ==
  ASSUME RInv, BInv, NEW p \in Procs, LinkCount(p), Up(fs')
  PROVE  BInv'
  <1>1. PICK s : s = Load(fs, loc[p].ip)
    OBVIOUS
  <1>2. /\ At(p, "link1") /\ UNCHANGED <<ftab, proc, lock>>
        /\ \/ loc[p].ip = 0 /\ Fails(p) /\ fs' = fs
           \/ loc[p].ip # 0 /\ lock[loc[p].ip] = 0 /\ fs' = s /\ Put(p, loc[p].ip, <<>>)
           \/ /\ loc[p].ip # 0 /\ lock[loc[p].ip] = 0 /\ fs' = AddLinks(s, loc[p].ip, 1) /\ SetOld(p, loc[p].ip)
              /\ Goto(p, <<"namex", "link2">>)
    BY <1>1 DEF LinkCount, world, SetOld, Unlocked
  <1>3. From(p, <<"link1", "ret">>, TRUE, FALSE, FALSE, FALSE, TRUE) /\ "link1" \in Labels
    BY <1>2, Froms DEF Labels
  <1>4. InCall(p) /\ pc[p] = <<"link1", "ret">> /\ Lab(pc[p]) \notin LeftLabels
    BY <1>3, FromHere
  <1>5. CASE loc[p].ip = 0 /\ Fails(p) /\ fs' = fs
    BY <1>2, <1>3, <1>5, FsStepSame, FailBlocks
  <1>6. ASSUME loc[p].ip # 0 PROVE loc[p].ip \in Inums
    BY <1>6, IpIn
  <1>7. CASE loc[p].ip # 0 /\ lock[loc[p].ip] = 0 /\ fs' = s /\ Put(p, loc[p].ip, <<>>)
    BY <1>1, <1>2, <1>3, <1>6, <1>7, LoadFs, LockStays, PutOutBlocks
  <1>8. CASE /\ loc[p].ip # 0 /\ lock[loc[p].ip] = 0 /\ fs' = AddLinks(s, loc[p].ip, 1) /\ SetOld(p, loc[p].ip)
             /\ Goto(p, <<"namex", "link2">>)
    <2>1. PICK i \in Inums : i = loc[p].ip
      BY <1>6, <1>8
    <2>2. PICK N : Sound(fs, N)
      BY FsNames
    <2>3. Sound(s, N)
      BY <1>1, <2>1, <2>2, LoadKeeps, KeptSound
    <2>a. Kept(s, fs', N)
      BY <1>8, <2>1, <2>3, 1 \in Int, AddLinksKeeps
    <2>4. Up(s)
      BY <2>a DEF Kept, Up
    <2>5. Effect(fs, s, {i}) /\ Tended(s, i)
      BY <1>1, <1>8, <2>1, <2>2, <2>4, LoadStep
    <2>6. Works(s, fs', i)
      BY <1>8, <2>1, <2>3, <2>5, 1 \in Int, AddLinksWorks DEF Effect
    <2>7. FsStep(p)
      BY <1>1, <1>8, <2>1, <2>4, <2>6, LoadWorksFs
    <2>8. PICK l : l \in Locs /\ loc' = [loc EXCEPT ![p] = l]
      BY <1>8, <2>1, InumsInos, OldLocs
    <2>9. Leads(p, <<"namex", "link2">>, <<"namex", "link2", "ret">>) /\ <<"namex", "link2", "ret">> \in Bodies
      BY <1>4, LeadsRet DEF Bodies, Starts, Labels, PutLabels
    <2>10. To(p, <<"namex", "link2", "ret">>, l)
      BY <1>8, <2>8, <2>9, BodyGoes
    <2>11. Free(<<"namex", "link2", "ret">>)
      BY DEF Free, Lab, IpLocks, DpLabels
    <2> QED BY <1>2, <1>4, <2>7, <2>9, <2>10, <2>11, FreeGuards, LockStays, BodyCall
  <1> QED BY <1>2, <1>5, <1>7, <1>8

\* link enters the name, or finds that it exists.
LEMMA LinkEntryBlocks ==
  ASSUME RInv, BInv, NEW p \in Procs, LinkEntry(p), Up(fs')
  PROVE  BInv'
  <1>1. PICK s, found : s = Load(fs, loc[p].ip) /\ found = Lookup(s, loc[p].ip, arg[p].name)
    OBVIOUS
  <1>2. /\ At(p, "link2") /\ UNCHANGED <<ftab, proc>>
        /\ \/ loc[p].ip = 0 /\ Goto(p, <<"linkbad">>) /\ UNCHANGED <<fs, loc, lock>>
           \/ /\ loc[p].ip # 0 /\ lock[loc[p].ip] = 0 /\ found # 0 /\ fs' = Iget(s, found) /\ Put(p, found, <<"linkfail">>)
              /\ Locks(p, loc[p].ip)
           \/ /\ loc[p].ip # 0 /\ lock[loc[p].ip] = 0 /\ fs' = Dirlink(s, loc[p].ip, arg[p].name, loc[p].old)
              /\ Put(p, loc[p].ip, <<"link3">>) /\ UNCHANGED lock
    BY <1>1 DEF LinkEntry, world, Unlocked
  <1>3. From(p, <<"link2", "ret">>, TRUE, FALSE, FALSE, TRUE, TRUE) /\ {"link2", "linkbad", "linkfail", "link3"} \subseteq Labels
    BY <1>2, Froms DEF Labels
  <1>4. InCall(p) /\ pc[p] = <<"link2", "ret">> /\ Lab(pc[p]) \notin LeftLabels /\ Body(pc[p]) = pc[p]
    BY <1>3, FromHere
  <1>5. PICK N : Sound(fs, N) /\ Named(N) /\ {arg[p].name} \subseteq N
    BY FsNames
  <1>6. ASSUME loc[p].ip # 0 PROVE loc[p].ip \in Inums /\ Sound(s, N)
    BY <1>1, <1>5, <1>6, IpIn, LoadKeeps DEF Kept
  <1>7. CASE loc[p].ip = 0 /\ Goto(p, <<"linkbad">>) /\ UNCHANGED <<fs, loc, lock>>
    <2>1. Leads(p, <<"linkbad">>, <<"linkbad", "ret">>) /\ <<"linkbad", "ret">> \in Bodies
      BY <1>3, <1>4, LeadsRet DEF Bodies, Halves
    <2>2. To(p, <<"linkbad", "ret">>, loc[p])
      BY <1>7, <2>1, LocStays, BodyGoes
    <2>3. FsStep(p)
      BY <1>7, FsStepSame
    <2> QED BY <1>2, <1>4, <1>7, <2>1, <2>2, <2>3, FreeBodies, FreeGuards, LockStays, BodyCall
  <1>8. CASE /\ loc[p].ip # 0 /\ lock[loc[p].ip] = 0 /\ found # 0 /\ fs' = Iget(s, found) /\ Put(p, found, <<"linkfail">>)
             /\ Locks(p, loc[p].ip)
    <2>1. PICK i \in Inums : i = loc[p].ip
      BY <1>6, <1>8
    <2>2. found \in Inums
      BY <1>1, <1>6, <1>8, LookupOK
    <2>3. fs.mem[i].ref # 0
      <3>1. HoldsIp(pc[p], loc[p], i)
        BY <1>4, <2>1 DEF HoldsIp, Lab, IpLabels
      <3> QED BY <3>1, HeldRef
    <2>4. FsStep(p) /\ fs'.mem[i].valid
      BY <1>1, <1>8, <2>1, <2>2, <2>3, LoadIgetFs
    <2>5. LockStep(p) /\ lock'[i] = p
      BY <1>8, <2>1, LocksStep
    <2>6. Guards(p, <<"linkfail", "ret">>, loc[p].ip, loc[p].dp)
      BY <2>1, <2>4, <2>5 DEF Guards, Lab, DpLabels
    <2>7. <<"linkfail", "ret">> \in PutBodies
      BY Forms DEF Form
    <2> QED BY <1>2, <1>3, <1>8, <2>2, <2>4, <2>5, <2>6, <2>7, PutOnBlocks
  <1>9. CASE /\ loc[p].ip # 0 /\ lock[loc[p].ip] = 0 /\ fs' = Dirlink(s, loc[p].ip, arg[p].name, loc[p].old)
             /\ Put(p, loc[p].ip, <<"link3">>) /\ UNCHANGED lock
    <2>1. PICK i \in Inums : i = loc[p].ip
      BY <1>6, <1>9
    <2>2. PICK o \in 0..NINODES : o = loc[p].old
      BY DEF RInv, TypeInv, Locs, Inos
    <2>3. PICK n \in N : n = arg[p].name
      BY <1>5
    <2>4. Sound(s, N) /\ fs' = Dirlink(s, i, n, o)
      BY <1>6, <1>9, <2>1, <2>2, <2>3
    <2>5. Up(s)
      BY <1>5, <2>4, DirlinkKeeps DEF Kept, Up
    <2>6. Effect(fs, s, {i}) /\ Tended(s, i)
      BY <1>1, <1>5, <1>9, <2>1, <2>5, LoadStep
    <2>7. Works(s, fs', i)
      BY <1>5, <2>4, <2>6, DirlinkWorks DEF Effect
    <2>8. FsStep(p)
      BY <1>1, <1>9, <2>1, <2>5, <2>7, LoadWorksFs
    <2>9. <<"link3", "ret">> \in PutBodies /\ Guards(p, <<"link3", "ret">>, loc[p].ip, loc[p].dp)
      BY Forms, FreeBodies, FreeGuards DEF Form
    <2> QED BY <1>2, <1>3, <1>6, <1>9, <2>8, <2>9, LockStays, PutOnBlocks
  <1> QED BY <1>2, <1>7, <1>8, <1>9

\* The directory is let go.
LEMMA LinkFailBlocks ==
  ASSUME RInv, BInv, NEW p \in Procs, LinkFail(p)
  PROVE  BInv'
  <1>1. /\ At(p, "linkfail") /\ UNCHANGED <<ftab, proc>> /\ Unlocks(loc[p].ip)
        /\ Put(p, loc[p].ip, <<"linkbad">>) /\ fs' = fs
    BY DEF LinkFail, world
  <1>2. From(p, <<"linkfail", "ret">>, TRUE, TRUE, FALSE, TRUE, TRUE) /\ {"linkbad", "linkfail"} \subseteq Labels
    BY <1>1, Froms DEF Labels
  <1>3. PICK i \in Inums : i = loc[p].ip
    BY <1>2, FromIn, IpIn
  <1>a. Lab(<<"linkfail", "ret">>) \in IpLocks
    BY DEF Lab, IpLocks
  <1>4. lock[i] = p
    BY <1>2, <1>3, <1>a, FromHere
  <1>5. LockStep(p) /\ FsStep(p)
    BY <1>1, <1>3, <1>4, UnlocksStep, FsStepSame
  <1>6. <<"linkbad", "ret">> \in PutBodies /\ Guards(p, <<"linkbad", "ret">>, loc[p].ip, loc[p].dp)
    BY Forms, FreeBodies, FreeGuards DEF Form
  <1> QED BY <1>1, <1>2, <1>3, <1>5, <1>6, PutOnBlocks

\* The count is undone.
LEMMA LinkUndoBlocks ==
  ASSUME RInv, BInv, NEW p \in Procs, LinkUndo(p), Up(fs')
  PROVE  BInv'
  <1>1. /\ At(p, "linkbad") /\ UNCHANGED <<ftab, proc, lock>> /\ lock[loc[p].old] = 0
        /\ Put(p, loc[p].old, <<>>) /\ fs' = AddLinks(Load(fs, loc[p].old), loc[p].old, -1)
    BY DEF LinkUndo, world, Unlocked
  <1>2. From(p, <<"linkbad", "ret">>, FALSE, FALSE, FALSE, TRUE, TRUE) /\ "linkbad" \in Labels
    BY <1>1, Froms DEF Labels
  <1>3. PICK i \in Inums : i = loc[p].old
    BY <1>2, FromIn, OldIn
  <1>4. PICK s, N : s = Load(fs, i) /\ Sound(fs, N)
    BY FsNames
  <1>5. Sound(s, N)
    BY <1>4, LoadKeeps, KeptSound
  <1>a. Kept(s, fs', N)
    BY <1>1, <1>3, <1>4, <1>5, -1 \in Int, AddLinksKeeps
  <1>6. Up(s)
    BY <1>a DEF Kept, Up
  <1>7. Effect(fs, s, {i}) /\ Tended(s, i)
    BY <1>1, <1>3, <1>4, <1>6, LoadStep
  <1>8. Works(s, fs', i)
    BY <1>1, <1>3, <1>4, <1>5, <1>7, -1 \in Int, AddLinksWorks DEF Effect
  <1>9. FsStep(p)
    BY <1>1, <1>3, <1>4, <1>6, <1>8, LoadWorksFs
  <1> QED BY <1>1, <1>2, <1>3, <1>9, LockStays, PutOutBlocks

\* The end of link.
LEMMA LinkDoneBlocks ==
  ASSUME RInv, BInv, NEW p \in Procs, LinkDone(p)
  PROVE  BInv'
  <1>1. At(p, "link3") /\ UNCHANGED <<ftab, proc, lock>> /\ Put(p, loc[p].old, <<>>) /\ fs' = fs
    BY DEF LinkDone, world
  <1>2. From(p, <<"link3", "ret">>, FALSE, FALSE, FALSE, TRUE, TRUE) /\ "link3" \in Labels
    BY <1>1, Froms DEF Labels
  <1>3. loc[p].old \in Inums
    BY <1>2, FromIn, OldIn
  <1>4. FsStep(p)
    BY <1>1, FsStepSame
  <1> QED BY <1>1, <1>2, <1>3, <1>4, LockStays, PutOutBlocks

\* What may be worked on becomes more.
LEMMA EffectMore ==
  ASSUME NEW s, NEW t, NEW I, NEW J, I \subseteq J, Effect(s, t, I)
  PROVE  Effect(s, t, J)
  BY DEF Effect

\* unlink looks the name up and gets the inode, with the directory locked.
LEMMA UnlinkFindBlocks ==
  ASSUME RInv, BInv, NEW p \in Procs, UnlinkFind(p), Up(fs')
  PROVE  BInv'
  <1>1. PICK s, ip, off : /\ s = Load(fs, loc[p].ip) /\ ip = Lookup(s, loc[p].ip, arg[p].name)
                          /\ off = Offset(s, loc[p].ip, arg[p].name)
    OBVIOUS
  <1>2. /\ At(p, "unlink1") /\ UNCHANGED <<ftab, proc>>
        /\ \/ loc[p].ip = 0 /\ Fails(p) /\ fs' = fs /\ UNCHANGED lock
           \/ loc[p].ip # 0 /\ lock[loc[p].ip] = 0 /\ fs' = s /\ Put(p, loc[p].ip, <<>>) /\ UNCHANGED lock
           \/ /\ loc[p].ip # 0 /\ lock[loc[p].ip] = 0 /\ ip # 0 /\ fs' = Iget(s, ip) /\ SetUnlink(p, loc[p].ip, ip, off)
              /\ Goto(p, <<"unlink2">>) /\ Locks(p, loc[p].ip)
    BY <1>1 DEF UnlinkFind, world, SetUnlink, Unlocked
  <1>3. From(p, <<"unlink1", "ret">>, TRUE, FALSE, FALSE, FALSE, TRUE) /\ {"unlink1", "unlink2"} \subseteq Labels
    BY <1>2, Froms DEF Labels
  <1>4. InCall(p) /\ pc[p] = <<"unlink1", "ret">> /\ Lab(pc[p]) \notin LeftLabels /\ Body(pc[p]) = pc[p]
    BY <1>3, FromHere
  <1>5. CASE loc[p].ip = 0 /\ Fails(p) /\ fs' = fs /\ UNCHANGED lock
    BY <1>2, <1>3, <1>5, FsStepSame, FailBlocks
  <1>6. ASSUME loc[p].ip # 0 PROVE loc[p].ip \in Inums
    BY <1>6, IpIn
  <1>7. CASE loc[p].ip # 0 /\ lock[loc[p].ip] = 0 /\ fs' = s /\ Put(p, loc[p].ip, <<>>) /\ UNCHANGED lock
    BY <1>1, <1>2, <1>3, <1>6, <1>7, LoadFs, LockStays, PutOutBlocks
  <1>8. CASE /\ loc[p].ip # 0 /\ lock[loc[p].ip] = 0 /\ ip # 0 /\ fs' = Iget(s, ip) /\ SetUnlink(p, loc[p].ip, ip, off)
             /\ Goto(p, <<"unlink2">>) /\ Locks(p, loc[p].ip)
    <2>1. PICK d \in Inums : d = loc[p].ip
      BY <1>6, <1>8
    <2>2. PICK N : Sound(fs, N)
      BY FsNames
    <2>3. Sound(s, N)
      BY <1>1, <2>1, <2>2, LoadKeeps, KeptSound
    <2>4. ip \in Inums /\ off \in Nat
      BY <1>1, <1>8, <2>1, <2>3, LookupOK
    <2>5. fs.mem[d].ref # 0
      <3>1. HoldsIp(pc[p], loc[p], d)
        BY <1>4, <2>1 DEF HoldsIp, Lab, IpLabels
      <3> QED BY <3>1, HeldRef
    <2>6. FsStep(p) /\ fs'.mem[d].valid
      BY <1>1, <1>8, <2>1, <2>4, <2>5, LoadIgetFs
    <2>7. LockStep(p) /\ lock'[d] = p
      BY <1>8, <2>1, LocksStep
    <2>8. d \in Inos /\ ip \in Inos
      BY <2>4, InumsInos
    <2>9. PICK l : l \in Locs /\ l.ip = ip /\ l.dp = d /\ loc' = [loc EXCEPT ![p] = l]
      BY <1>8, <2>1, <2>4, <2>8, UnlinkLocs
    <2>10. Leads(p, <<"unlink2">>, <<"unlink2", "ret">>) /\ <<"unlink2", "ret">> \in Bodies
      BY <1>3, <1>4, LeadsRet DEF Bodies, Halves
    <2>11. To(p, <<"unlink2", "ret">>, l)
      BY <1>8, <2>9, <2>10, BodyGoes
    <2>12. Guards(p, <<"unlink2", "ret">>, l.ip, l.dp)
      BY <2>6, <2>7, <2>9 DEF Guards, Lab, IpLocks
    <2> QED BY <1>2, <1>4, <2>6, <2>7, <2>10, <2>11, <2>12, BodyCall
  <1> QED BY <1>2, <1>5, <1>7, <1>8

\* What is read and what is written under another lock.
LEMMA LoadOther ==
  ASSUME RInv, BInv, NEW i \in Inums, NEW d \in Inums, lock[i] = 0, NEW s, s = Load(fs, i), Up(s), Tended(fs, d),
         NEW N, Sound(fs, N)
  PROVE  Effect(fs, s, {i, d}) /\ Tended(s, i) /\ Tended(s, d) /\ Sound(s, N) /\ Accounted(s)
  <1>1. Effect(fs, s, {i}) /\ Tended(s, i) /\ Sound(s, N)
    BY LoadStep
  <1>2. Effect(fs, s, {i, d})
    BY <1>1, EffectMore
  <1>3. Tended(s, d)
    BY <1>2, EffectTended
  <1> QED BY <1>1, <1>2, <1>3 DEF Effect

\* Work goes on.
LEMMA EffectWorks ==
  ASSUME NEW s, NEW t, NEW u, NEW I, Effect(s, t, I), NEW i \in I, Works(t, u, i), \A j \in I : j \in Inums /\ Tended(t, j)
  PROVE  Effect(s, u, I) /\ Accounted(u) /\ \A j \in I : Tended(u, j)
  <1>1. Effect(t, u, I)
    BY WorksEffect
  <1>2. Effect(s, u, I)
    BY <1>1, EffectEffect
  <1>3. \A j \in I : Tended(u, j)
    BY <1>1, EffectTended
  <1> QED BY <1>2, <1>3 DEF Effect

\* The clearing of the entry, and the count of the directory.
LEMMA ClearedFs ==
  ASSUME RInv, BInv, NEW i \in Inums, NEW d \in Inums, lock[i] = 0, Tended(fs, d), NEW s, s = Load(fs, i), NEW off \in Nat,
         NEW t, t = Cleared(s, d, off), fs' \in {t, AddLinks(t, d, -1)}, Up(fs')
  PROVE  Effect(fs, fs', {i, d}) /\ Tended(fs', i)
  <1>1. PICK N : Sound(fs, N) /\ Named(N)
    BY FsNames
  <1>2. Sound(s, N)
    BY <1>1, LoadKeeps, KeptSound
  <1>3. Kept(s, t, N) /\ Sound(t, N)
    BY <1>1, <1>2, ClearedKeeps, KeptSound
  <1>4. Kept(t, AddLinks(t, d, -1), N) /\ Kept(t, t, N)
    BY <1>3, -1 \in Int, AddLinksKeeps, KeptSelf
  <1>a. Kept(t, fs', N)
    BY <1>4
  <1>5. Up(t)
    BY <1>a DEF Kept, Up
  <1>6. Up(s)
    BY <1>3, <1>5 DEF Kept, Up
  <1>7. Effect(fs, s, {i, d}) /\ Tended(s, i) /\ Tended(s, d) /\ Accounted(s)
    BY <1>1, <1>6, LoadOther
  <1>8. Works(s, t, d)
    BY <1>1, <1>2, <1>5, <1>7, ClearedWorks
  <1>9. Effect(fs, t, {i, d}) /\ Accounted(t) /\ Tended(t, i) /\ Tended(t, d)
    BY <1>7, <1>8, EffectWorks
  <1>10. CASE fs' = t
    BY <1>9, <1>10
  <1>11. CASE fs' = AddLinks(t, d, -1)
    <2>1. Works(t, fs', d)
      BY <1>3, <1>9, <1>11, -1 \in Int, AddLinksWorks
    <2> QED BY <1>9, <2>1, EffectWorks
  <1> QED BY <1>10, <1>11

\* unlink clears the entry; then it holds the lock of the inode only.
LEMMA UnlinkClearBlocks ==
  ASSUME RInv, BInv, NEW p \in Procs, UnlinkClear(p), Up(fs')
  PROVE  BInv'
  <1>1. PICK s : s = Load(fs, loc[p].ip)
    OBVIOUS
  <1>2. PICK t : t = Cleared(s, loc[p].dp, loc[p].off)
    OBVIOUS
  <1>3. /\ At(p, "unlink2") /\ UNCHANGED <<ftab, proc>> /\ lock[loc[p].ip] = 0
        /\ \/ fs' = Panic(s, "unlink: nlink < 1")
           \/ fs' = s /\ Put(p, loc[p].ip, <<"unlinkbad">>) /\ UNCHANGED lock
           \/ /\ fs' \in {t, AddLinks(t, loc[p].dp, -1)} /\ Put(p, loc[p].dp, <<"unlink3">>)
              /\ Swaps(p, loc[p].ip, loc[p].dp)
    BY <1>1, <1>2 DEF UnlinkClear, world, Cleared, Unlocked, Swaps
  <1>4. From(p, <<"unlink2", "ret">>, TRUE, TRUE, TRUE, FALSE, TRUE) /\ {"unlink2", "unlinkbad", "unlink3"} \subseteq Labels
    BY <1>3, Froms DEF Labels
  <1>5. PICK i \in Inums, d \in Inums, off \in Nat : i = loc[p].ip /\ d = loc[p].dp /\ off = loc[p].off
    BY <1>4, FromIn, IpIn, DpIn DEF RInv, TypeInv, Locs
  <1>6. PICK N : Sound(fs, N)
    BY FsNames
  <1>7. Sound(s, N)
    BY <1>1, <1>5, <1>6, LoadKeeps, KeptSound
  <1>8. Lab(<<"unlink2", "ret">>) \in DpLabels
    BY DEF Lab, DpLabels
  <1>9. lock[d] = p /\ Tended(fs, d)
    BY <1>4, <1>5, <1>8, FromHere
  <1>10. CASE fs' = Panic(s, "unlink: nlink < 1")
    <2>1. "unlink: nlink < 1" \in Panics /\ "unlink: nlink < 1" # ""
      BY DEF Panics
    <2> QED BY <1>7, <1>10, <2>1, PanicKeeps DEF Up
  <1>11. CASE fs' = s /\ Put(p, loc[p].ip, <<"unlinkbad">>) /\ UNCHANGED lock
    <2>1. FsStep(p)
      BY <1>1, <1>3, <1>5, <1>11, LoadFs
    <2>a. Tended(fs', d)
      BY <1>1, <1>3, <1>5, <1>6, <1>9, <1>11, LoadOther
    <2>2. fs'.mem[d].valid
      BY <2>a DEF Tended
    <2>3. Guards(p, <<"unlinkbad", "ret">>, loc[p].ip, loc[p].dp)
      BY <1>5, <1>9, <1>11, <2>2 DEF Guards, Lab, IpLocks
    <2>4. <<"unlinkbad", "ret">> \in PutBodies
      BY Forms DEF Form
    <2> QED BY <1>3, <1>4, <1>5, <1>11, <2>1, <2>3, <2>4, LockStays, PutOnBlocks
  <1>12. CASE /\ fs' \in {t, AddLinks(t, loc[p].dp, -1)} /\ Put(p, loc[p].dp, <<"unlink3">>)
              /\ Swaps(p, loc[p].ip, loc[p].dp)
    <2>1. Effect(fs, fs', {i, d}) /\ Tended(fs', i)
      BY <1>1, <1>2, <1>3, <1>5, <1>9, <1>12, ClearedFs
    <2>a. lock[i] \in {0, p} /\ lock[d] \in {0, p}
      BY <1>3, <1>5, <1>9
    <2>2. FsStep(p)
      BY <2>1, <2>a, EffectsStep
    <2>3. LockStep(p) /\ lock'[i] = p
      BY <1>3, <1>5, <1>9, <1>12, SwapsStep
    <2>4. Guards(p, <<"unlink3", "ret">>, loc[p].ip, loc[p].dp)
      BY <1>5, <2>1, <2>3 DEF Guards, Lab, DpLabels, Tended
    <2>5. <<"unlink3", "ret">> \in PutBodies
      BY Forms DEF Form
    <2> QED BY <1>3, <1>4, <1>5, <1>12, <2>2, <2>3, <2>4, <2>5, PutOnBlocks
  <1> QED BY <1>3, <1>10, <1>11, <1>12

\* A directory that is not empty stays.
LEMMA UnlinkBadBlocks ==
  ASSUME RInv, BInv, NEW p \in Procs, UnlinkBad(p)
  PROVE  BInv'
  <1>1. At(p, "unlinkbad") /\ UNCHANGED <<ftab, proc>> /\ Unlocks(loc[p].dp) /\ Put(p, loc[p].dp, <<>>) /\ fs' = fs
    BY DEF UnlinkBad, world
  <1>2. From(p, <<"unlinkbad", "ret">>, FALSE, FALSE, TRUE, FALSE, TRUE) /\ "unlinkbad" \in Labels
    BY <1>1, Froms DEF Labels
  <1>3. PICK d \in Inums : d = loc[p].dp
    BY <1>2, FromIn, DpIn
  <1>4. Lab(<<"unlinkbad", "ret">>) \in DpLabels
    BY DEF Lab, DpLabels
  <1>5. lock[d] = p
    BY <1>2, <1>3, <1>4, FromHere
  <1>6. LockStep(p) /\ FsStep(p)
    BY <1>1, <1>3, <1>5, UnlocksStep, FsStepSame
  <1> QED BY <1>1, <1>2, <1>3, <1>6, PutOutBlocks

\* The count goes down, and the inode is put.
LEMMA UnlinkCountBlocks ==
  ASSUME RInv, BInv, NEW p \in Procs, UnlinkCount(p), Up(fs')
  PROVE  BInv'
  <1>1. /\ At(p, "unlink3") /\ UNCHANGED <<ftab, proc>> /\ Unlocks(loc[p].ip) /\ Put(p, loc[p].ip, <<>>)
        /\ fs' = AddLinks(fs, loc[p].ip, -1)
    BY DEF UnlinkCount, world
  <1>2. From(p, <<"unlink3", "ret">>, TRUE, TRUE, FALSE, FALSE, TRUE) /\ "unlink3" \in Labels
    BY <1>1, Froms DEF Labels
  <1>3. PICK i \in Inums : i = loc[p].ip
    BY <1>2, FromIn, IpIn
  <1>4. Lab(<<"unlink3", "ret">>) \in IpLocks
    BY DEF Lab, IpLocks
  <1>5. lock[i] = p /\ Tended(fs, i)
    BY <1>2, <1>3, <1>4, FromHere
  <1>6. PICK N : Sound(fs, N)
    BY FsNames
  <1>7. Works(fs, fs', i)
    BY <1>1, <1>3, <1>5, <1>6, -1 \in Int, AddLinksWorks DEF BInv
  <1>8. Effect(fs, fs', {i})
    BY <1>7, WorksEffect
  <1>9. LockStep(p) /\ FsStep(p)
    BY <1>1, <1>3, <1>5, <1>8, UnlocksStep, EffectStep
  <1> QED BY <1>1, <1>2, <1>3, <1>9, PutOutBlocks

-----------------------------------------------------------------------------
(* create, open, mkdir, mknod, chdir *)

\* ialloc with the directory locked.
LEMMA LoadAllocFs ==
  ASSUME RInv, BInv, NEW p, NEW d \in Inums, lock[d] = 0, fs.mem[d].ref # 0, NEW s, s = Load(fs, d), ~NoInodes(s),
         NEW type, fs' = Allocated(s, type), Up(fs'), NEW N, Sound(fs, N), Named(N), type \in N
  PROVE  FsStep(p) /\ fs'.mem[d].valid
  <1>1. Sound(s, N)
    BY LoadKeeps, KeptSound
  <1>2. Got(s, fs', Ialloc(s), N)
    BY <1>1, AllocatedGets
  <1>3. Up(s)
    BY <1>2 DEF Got, Up
  <1>4. Effect(fs, s, {d}) /\ Tended(s, d) /\ SameRefs(fs, s)
    BY <1>3, LoadStep
  <1>5. s.mem[d].ref = fs.mem[d].ref /\ s.mem[d].valid
    BY <1>4 DEF SameRefs, Tended
  <1>6. After(fs, fs', {d}) /\ \A j \in Inums : s.mem[j].ref # 0 /\ s.mem[j].valid => fs'.mem[j].valid
    BY <1>1, <1>4, AllocAfter
  <1> QED BY <1>5, <1>6 DEF FsStep

\* What comes after create.
LEMMA CallerBodies ==
  ASSUME NEW w \in Callers
  PROVE  /\ <<w, "ret">> \in PutBodies /\ <<w, "ret">> \in Bodies /\ <<"create2", w, "ret">> \in PutBodies
         /\ <<"create3", w, "ret">> \in Bodies /\ w \in Labels
         /\ Lab(<<w, "ret">>) \in IpLocks /\ Lab(<<"create3", w, "ret">>) = "create3" /\ Lab(<<w, "ret">>) \notin DpLabels
         /\ Lab(<<w, "ret">>) # "chdir2" /\ Lab(<<w, "ret">>) # "openset"
  <1>1. <<w, "ret">> \in PutBodies /\ <<"create2", w, "ret">> \in PutBodies /\ <<"create3", w, "ret">> \in PutBodies
    BY CallerForms DEF Form
  <1>2. Lab(<<w, "ret">>) = w /\ Lab(<<"create3", w, "ret">>) = "create3"
    BY DEF Lab
  <1>3. w \in {"openfd", "made"}
    BY DEF Callers
  <1> QED BY <1>1, <1>2, <1>3 DEF PutBodies, IpLocks, DpLabels, Labels

\* create finds the name, or allocates an inode for it.
LEMMA CreateFindBlocks ==
  ASSUME RInv, BInv, NEW p \in Procs, CreateFind(p), Up(fs')
  PROVE  BInv'
  <1>1. PICK s, found : s = Load(fs, loc[p].ip) /\ found = Lookup(s, loc[p].ip, arg[p].name)
    OBVIOUS
  <1>2. /\ At(p, "create") /\ UNCHANGED <<ftab, proc>>
        /\ \/ loc[p].ip = 0 /\ Goto(p, <<>>) /\ UNCHANGED <<fs, loc, lock>>
           \/ /\ loc[p].ip # 0 /\ lock[loc[p].ip] = 0 /\ found # 0 /\ fs' = Iget(s, found) /\ PutIp(p, found, <<"create2">>)
              /\ UNCHANGED lock
           \/ loc[p].ip # 0 /\ fs' = Panic(s, "ialloc: no inodes")
           \/ /\ loc[p].ip # 0 /\ lock[loc[p].ip] = 0 /\ ~NoInodes(s) /\ fs' = Allocated(s, arg[p].type)
              /\ SetCreate(p, loc[p].ip, Ialloc(s)) /\ Goto(p, <<"create3">>) /\ Locks(p, loc[p].ip)
    BY <1>1 DEF CreateFind, world, SetCreate, Unlocked
  <1>3. PICK w \in Callers : From(p, <<"create", w, "ret">>, TRUE, FALSE, FALSE, FALSE, TRUE)
    BY <1>2, Creating
  <1>4. InCall(p) /\ pc[p] = <<"create", w, "ret">> /\ Lab(pc[p]) \notin LeftLabels /\ Body(pc[p]) = pc[p]
    BY <1>3, FromHere
  <1>5. w \in Labels /\ {"create", "create2", "create3"} \subseteq Labels
    BY CallerBodies DEF Labels
  <1>6. PICK N : Sound(fs, N) /\ Named(N) /\ {arg[p].type} \subseteq N
    BY FsNames
  <1>7. ASSUME loc[p].ip # 0
        PROVE  loc[p].ip \in Inums /\ Sound(s, N) /\ fs.mem[loc[p].ip].ref # 0
    <2>1. loc[p].ip \in Inums
      BY <1>7, IpIn
    <2>2. HoldsIp(pc[p], loc[p], loc[p].ip)
      BY <1>4 DEF HoldsIp, Lab, IpLabels
    <2> QED BY <1>1, <1>6, <2>1, <2>2, LoadKeeps, KeptSound, HeldRef
  <1>8. CASE loc[p].ip = 0 /\ Goto(p, <<>>) /\ UNCHANGED <<fs, loc, lock>>
    <2>1. Leads(p, <<>>, <<w, "ret">>)
      BY <1>4, <1>5, LeadsTwo
    <2>2. To(p, <<w, "ret">>, loc[p])
      BY <1>8, <2>1, CallerBodies, LocStays, BodyGoes
    <2>3. loc[p].ip \notin Inums
      BY <1>8, InumsInos
    <2>4. Guards(p, <<w, "ret">>, loc[p].ip, loc[p].dp)
      BY <2>3, CallerBodies DEF Guards
    <2>5. FsStep(p)
      BY <1>8, FsStepSame
    <2> QED BY <1>2, <1>4, <1>8, <2>2, <2>4, <2>5, CallerBodies, LockStays, BodyCall
  <1>9. CASE /\ loc[p].ip # 0 /\ lock[loc[p].ip] = 0 /\ found # 0 /\ fs' = Iget(s, found) /\ PutIp(p, found, <<"create2">>)
             /\ UNCHANGED lock
    <2>1. found \in Inums
      BY <1>1, <1>7, <1>9, LookupOK
    <2>2. found \in Inos
      BY <2>1, InumsInos
    <2>3. FsStep(p)
      BY <1>1, <1>7, <1>9, <2>1, LoadIgetFs
    <2>4. Leads(p, <<"create2">>, <<"create2", w, "ret">>)
      BY <1>4, <1>5, LeadsTwo
    <2>5. ToPut(p, <<"create2", w, "ret">>, loc[p].ip, found)
      BY <1>9, <2>2, <2>4, CallerBodies, PutIpGoes
    <2>6. Guards(p, <<"create2", w, "ret">>, found, loc[p].dp)
      BY FreeBodies, FreeGuards
    <2> QED BY <1>2, <1>4, <1>9, <2>3, <2>5, <2>6, LockStays, PutCall
  <1>10. CASE loc[p].ip # 0 /\ fs' = Panic(s, "ialloc: no inodes")
    <2>1. "ialloc: no inodes" \in Panics /\ "ialloc: no inodes" # ""
      BY DEF Panics
    <2> QED BY <1>7, <1>10, <2>1, PanicKeeps DEF Up
  <1>11. CASE /\ loc[p].ip # 0 /\ lock[loc[p].ip] = 0 /\ ~NoInodes(s) /\ fs' = Allocated(s, arg[p].type)
              /\ SetCreate(p, loc[p].ip, Ialloc(s)) /\ Goto(p, <<"create3">>) /\ Locks(p, loc[p].ip)
    <2>1. PICK d \in Inums : d = loc[p].ip
      BY <1>7, <1>11
    <2>2. PICK i \in Inums : i = Ialloc(s)
      BY <1>6, <1>7, <1>11, AllocatedGets
    <2>3. FsStep(p) /\ fs'.mem[d].valid
      BY <1>1, <1>6, <1>7, <1>11, <2>1, LoadAllocFs
    <2>4. LockStep(p) /\ lock'[d] = p
      BY <1>11, <2>1, LocksStep
    <2>5. i \in Inos /\ d \in Inos
      BY InumsInos
    <2>6. PICK l : l \in Locs /\ l.ip = i /\ l.dp = d /\ loc' = [loc EXCEPT ![p] = l]
      BY <1>11, <2>1, <2>2, <2>5, CreateLocs
    <2>7. Leads(p, <<"create3">>, <<"create3", w, "ret">>)
      BY <1>4, <1>5, LeadsTwo
    <2>8. To(p, <<"create3", w, "ret">>, l)
      BY <1>11, <2>6, <2>7, CallerBodies, BodyGoes
    <2>9. Guards(p, <<"create3", w, "ret">>, l.ip, l.dp)
      BY <2>3, <2>4, <2>6, CallerBodies DEF Guards, IpLocks
    <2> QED BY <1>2, <1>4, <2>3, <2>4, <2>8, <2>9, CallerBodies, BodyCall
  <1> QED BY <1>2, <1>8, <1>9, <1>10, <1>11

\* A name that exists: the inode is returned locked, or put.
LEMMA CreateOldBlocks ==
  ASSUME RInv, BInv, NEW p \in Procs, CreateOld(p), Up(fs')
  PROVE  BInv'
  <1>1. /\ At(p, "create2") /\ UNCHANGED <<ftab, proc>> /\ fs' = Load(fs, loc[p].ip) /\ lock[loc[p].ip] = 0
        /\ (Goto(p, <<>>) /\ UNCHANGED loc /\ Locks(p, loc[p].ip)) \/ (PutIp(p, 0, <<>>) /\ UNCHANGED lock)
    BY DEF CreateOld, world, Unlocked
  <1>2. PICK w \in Callers : From(p, <<"create2", w, "ret">>, TRUE, TRUE, FALSE, FALSE, TRUE)
    BY <1>1, Creating
  <1>3. InCall(p) /\ pc[p] = <<"create2", w, "ret">> /\ Lab(pc[p]) \notin LeftLabels
    BY <1>2, FromHere
  <1>4. PICK i \in Inums : i = loc[p].ip
    BY <1>2, FromIn, IpIn
  <1>5. FsStep(p) /\ Tended(fs', i)
    BY <1>1, <1>4, LoadFs
  <1>6. Leads(p, <<>>, <<w, "ret">>)
    BY <1>3, CallerBodies, LeadsTwo DEF Labels
  <1>7. CASE Goto(p, <<>>) /\ UNCHANGED loc /\ Locks(p, loc[p].ip)
    <2>1. LockStep(p) /\ lock'[i] = p
      BY <1>1, <1>4, <1>7, LocksStep
    <2>2. To(p, <<w, "ret">>, loc[p])
      BY <1>6, <1>7, CallerBodies, LocStays, BodyGoes
    <2>3. Guards(p, <<w, "ret">>, loc[p].ip, loc[p].dp)
      BY <1>4, <1>5, <2>1, CallerBodies DEF Guards, Tended
    <2> QED BY <1>1, <1>3, <1>5, <2>1, <2>2, <2>3, CallerBodies, BodyCall
  <1>8. CASE PutIp(p, 0, <<>>) /\ UNCHANGED lock
    <2>1. ToPut(p, <<w, "ret">>, loc[p].ip, 0)
      BY <1>6, <1>8, ZeroInos, CallerBodies, PutIpGoes
    <2>2. 0 \notin Inums
      BY InumsInos
    <2>3. Guards(p, <<w, "ret">>, 0, loc[p].dp)
      BY <2>2, CallerBodies DEF Guards
    <2> QED BY <1>1, <1>3, <1>5, <1>8, <2>1, <2>3, LockStays, PutCall
  <1> QED BY <1>1, <1>7, <1>8

\* The dots of a new directory, and the link of its parent.
LEMMA DotsFs ==
  ASSUME NEW z, NEW s, NEW N, Sound(s, N), Named(N), NEW i \in Inums, NEW d \in Inums, Effect(z, s, {i, d}), Accounted(s),
         Tended(s, i), Tended(s, d), NEW u, u = WithDots(s, i, d), Up(u)
  PROVE  Effect(z, u, {i, d}) /\ Accounted(u) /\ Tended(u, i) /\ Tended(u, d)
  <1>1. i \in 0..NINODES /\ d \in 0..NINODES
    BY InodeAssumption DEF Inums
  <1>2. "." \in N /\ ".." \in N
    BY DEF Named
  <1>3. PICK a, b : a = AddLinks(s, d, 1) /\ b = Dirlink(a, i, ".", i)
    OBVIOUS
  <1>4. u = Dirlink(b, i, "..", d)
    BY <1>3 DEF WithDots
  <1>5. Kept(s, a, N) /\ Sound(a, N)
    BY <1>3, 1 \in Int, AddLinksKeeps, KeptSound
  <1>6. Kept(a, b, N) /\ Sound(b, N)
    BY <1>1, <1>2, <1>3, <1>5, DirlinkKeeps DEF Kept
  <1>7. Kept(b, u, N)
    BY <1>1, <1>2, <1>4, <1>6, DirlinkKeeps
  <1>8. Up(b)
    BY <1>7 DEF Kept, Up
  <1>9. Works(s, a, d)
    BY <1>3, 1 \in Int, AddLinksWorks
  <1>10. Effect(z, a, {i, d}) /\ Accounted(a) /\ Tended(a, i) /\ Tended(a, d)
    BY <1>9, EffectWorks
  <1>11. Works(a, b, i)
    BY <1>1, <1>2, <1>3, <1>5, <1>8, <1>10, DirlinkWorks
  <1>12. Effect(z, b, {i, d}) /\ Accounted(b) /\ Tended(b, i) /\ Tended(b, d)
    BY <1>10, <1>11, EffectWorks
  <1>13. Works(b, u, i)
    BY <1>1, <1>2, <1>4, <1>6, <1>12, DirlinkWorks
  <1> QED BY <1>12, <1>13, EffectWorks

\* All that create does to a new inode and its directory.
LEMMA CreatedFs ==
  ASSUME RInv, BInv, NEW i \in Inums, NEW d \in Inums, lock[i] = 0, Tended(fs, d), NEW s, s = Load(fs, i),
         NEW t, t = WithLink(s, i), NEW u \in {t, WithDots(t, i, d)}, NEW name, fs' = Dirlink(u, d, name, i), Up(fs')
  PROVE  Effect(fs, fs', {i, d}) /\ Tended(fs', i)
  <1>1. PICK N : Sound(fs, N) /\ Named(N) /\ {name} \subseteq N
    BY FsNames
  <1>2. i \in 0..NINODES /\ name \in N
    BY <1>1, InodeAssumption DEF Inums
  <1>3. Sound(s, N)
    BY <1>1, LoadKeeps, KeptSound
  <1>4. Kept(s, t, N) /\ Sound(t, N)
    BY <1>3, WithLinkKeeps, KeptSound
  <1>5. Kept(t, WithDots(t, i, d), N) /\ Kept(t, t, N)
    BY <1>1, <1>4, WithDotsKeeps, KeptSelf
  <1>6. Kept(t, u, N) /\ Sound(u, N)
    BY <1>5, KeptSound
  <1>7. Kept(u, fs', N)
    BY <1>1, <1>2, <1>6, DirlinkKeeps
  <1>8. Up(u)
    BY <1>7 DEF Kept, Up
  <1>9. Up(t)
    BY <1>6, <1>8 DEF Kept, Up
  <1>10. Up(s)
    BY <1>4, <1>9 DEF Kept, Up
  <1>11. Effect(fs, s, {i, d}) /\ Tended(s, i) /\ Tended(s, d) /\ Accounted(s)
    BY <1>1, <1>10, LoadOther
  <1>12. Works(s, t, i)
    BY <1>3, <1>11, WithLinkWorks
  <1>13. Effect(fs, t, {i, d}) /\ Accounted(t) /\ Tended(t, i) /\ Tended(t, d)
    BY <1>11, <1>12, EffectWorks
  <1>14. Effect(fs, u, {i, d}) /\ Accounted(u) /\ Tended(u, i) /\ Tended(u, d)
    <2>1. CASE u = t
      BY <1>13, <2>1
    <2>2. CASE u = WithDots(t, i, d)
      BY <1>1, <1>4, <1>8, <1>13, <2>2, DotsFs
    <2> QED BY <2>1, <2>2
  <1>15. Works(u, fs', d)
    BY <1>1, <1>2, <1>6, <1>14, DirlinkWorks
  <1> QED BY <1>14, <1>15, EffectWorks

\* The new inode is returned locked, and the directory is put.
LEMMA CreateNewBlocks ==
  ASSUME RInv, BInv, NEW p \in Procs, CreateNew(p), Up(fs')
  PROVE  BInv'
  <1>1. PICK s, t : s = Load(fs, loc[p].ip) /\ t = WithLink(s, loc[p].ip)
    OBVIOUS
  <1>2. /\ At(p, "create3") /\ UNCHANGED <<ftab, proc>> /\ Put(p, loc[p].dp, <<>>) /\ lock[loc[p].ip] = 0
        /\ Swaps(p, loc[p].ip, loc[p].dp)
        /\ \/ ~Up(s) /\ fs' = s
           \/ \E u \in {t, WithDots(t, loc[p].ip, loc[p].dp)} : fs' = Dirlink(u, loc[p].dp, arg[p].name, loc[p].ip)
    BY <1>1 DEF CreateNew, world, WithLink, WithDots, Unlocked, Swaps
  <1>3. PICK w \in Callers : From(p, <<"create3", w, "ret">>, TRUE, TRUE, TRUE, FALSE, TRUE)
    BY <1>2, Creating
  <1>4. InCall(p) /\ pc[p] = <<"create3", w, "ret">> /\ Lab(pc[p]) \notin LeftLabels
    BY <1>3, FromHere
  <1>5. PICK i \in Inums, d \in Inums : i = loc[p].ip /\ d = loc[p].dp
    BY <1>3, FromIn, IpIn, DpIn
  <1>6. Lab(<<"create3", w, "ret">>) \in DpLabels
    BY CallerBodies DEF DpLabels
  <1>7. lock[d] = p /\ Tended(fs, d) /\ lock[i] = 0
    BY <1>2, <1>3, <1>5, <1>6, FromHere
  <1>8. PICK u \in {t, WithDots(t, i, d)} : fs' = Dirlink(u, d, arg[p].name, i)
    BY <1>2, <1>5
  <1>9. Effect(fs, fs', {i, d}) /\ Tended(fs', i)
    BY <1>1, <1>5, <1>7, <1>8, CreatedFs
  <1>10. lock[i] \in {0, p} /\ lock[d] \in {0, p}
    BY <1>7
  <1>11. FsStep(p)
    BY <1>9, <1>10, EffectsStep
  <1>12. LockStep(p) /\ lock'[i] = p
    BY <1>2, <1>5, <1>7, SwapsStep
  <1>13. Leads(p, <<>>, <<w, "ret">>)
    BY <1>4, CallerBodies, LeadsTwo DEF Labels
  <1>14. ToPut(p, <<w, "ret">>, loc[p].dp, loc[p].ip)
    BY <1>2, <1>5, <1>13, CallerBodies, PutGoes
  <1>15. Guards(p, <<w, "ret">>, loc[p].ip, loc[p].dp)
    BY <1>5, <1>9, <1>12, CallerBodies DEF Guards, Tended
  <1> QED BY <1>2, <1>4, <1>11, <1>12, <1>14, <1>15, PutCall

-----------------------------------------------------------------------------
(* open, mkdir, mknod and chdir *)

\* open locks what it found.
LEMMA OpenLockBlocks ==
  ASSUME RInv, BInv, NEW p \in Procs, OpenLock(p), Up(fs')
  PROVE  BInv'
  <1>1. /\ At(p, "openlock") /\ UNCHANGED <<ftab, proc>>
        /\ \/ loc[p].ip = 0 /\ Fails(p) /\ UNCHANGED <<fs, lock>>
           \/ /\ loc[p].ip # 0 /\ lock[loc[p].ip] = 0 /\ fs' = Load(fs, loc[p].ip)
              /\ \/ UNCHANGED lock /\ Put(p, loc[p].ip, <<>>)
                 \/ Locks(p, loc[p].ip) /\ Goto(p, <<"openfd">>) /\ UNCHANGED loc
    BY DEF OpenLock, world, Unlocked
  <1>2. From(p, <<"openlock", "ret">>, TRUE, FALSE, FALSE, FALSE, TRUE)
    BY <1>1, Froms
  <1>3. InCall(p) /\ pc[p] = <<"openlock", "ret">> /\ Lab(pc[p]) \notin LeftLabels
    BY <1>2, FromHere
  <1>4. "openlock" \in Labels /\ "openfd" \in Labels
    BY DEF Labels
  <1>5. CASE loc[p].ip = 0 /\ Fails(p) /\ UNCHANGED <<fs, lock>>
    BY <1>1, <1>2, <1>4, <1>5, FsStepSame, FailBlocks
  <1>6. CASE loc[p].ip # 0 /\ lock[loc[p].ip] = 0 /\ fs' = Load(fs, loc[p].ip)
    <2>1. PICK i \in Inums : i = loc[p].ip
      BY <1>6, IpIn
    <2>2. FsStep(p) /\ Tended(fs', i)
      BY <1>6, <2>1, LoadFs
    <2>3. CASE UNCHANGED lock /\ Put(p, loc[p].ip, <<>>)
      BY <1>1, <1>2, <1>4, <2>1, <2>2, <2>3, LockStays, PutOutBlocks
    <2>4. CASE Locks(p, loc[p].ip) /\ Goto(p, <<"openfd">>) /\ UNCHANGED loc
      <3>1. LockStep(p) /\ lock'[i] = p
        BY <1>6, <2>1, <2>4, LocksStep
      <3>2. Leads(p, <<"openfd">>, <<"openfd", "ret">>)
        BY <1>3, <1>4, LeadsRet DEF PutLabels
      <3>3. <<"openfd", "ret">> \in Bodies /\ Lab(<<"openfd", "ret">>) = "openfd"
        BY Forms DEF Form, PutBodies, Lab
      <3>4. To(p, <<"openfd", "ret">>, loc[p])
        BY <2>4, <3>2, <3>3, LocStays, BodyGoes
      <3>5. Guards(p, <<"openfd", "ret">>, loc[p].ip, loc[p].dp)
        BY <2>1, <2>2, <3>1, <3>3 DEF Guards, Tended, DpLabels
      <3> QED BY <1>1, <1>3, <2>2, <3>1, <3>3, <3>4, <3>5, BodyCall
    <2> QED BY <1>1, <1>6, <2>3, <2>4
  <1> QED BY <1>1, <1>5, <1>6

\* mkdir and mknod unlock and put what create returned.
LEMMA MadeBlocks ==
  ASSUME RInv, BInv, NEW p \in Procs, Made(p)
  PROVE  BInv'
  <1>1. /\ At(p, "made") /\ UNCHANGED <<ftab, proc>> /\ fs' = fs
        /\ \/ loc[p].ip = 0 /\ Fails(p) /\ UNCHANGED lock
           \/ loc[p].ip # 0 /\ Unlocks(loc[p].ip) /\ Put(p, loc[p].ip, <<>>)
    BY DEF Made, world
  <1>2. From(p, <<"made", "ret">>, TRUE, FALSE, FALSE, FALSE, TRUE)
    BY <1>1, Froms
  <1>3. "made" \in Labels /\ FsStep(p)
    BY <1>1, FsStepSame DEF Labels
  <1>4. CASE loc[p].ip = 0 /\ Fails(p) /\ UNCHANGED lock
    BY <1>1, <1>2, <1>3, <1>4, FailBlocks
  <1>5. CASE loc[p].ip # 0 /\ Unlocks(loc[p].ip) /\ Put(p, loc[p].ip, <<>>)
    <2>1. PICK i \in Inums : i = loc[p].ip
      BY <1>5, IpIn
    <2>2. Lab(<<"made", "ret">>) \in IpLocks
      BY DEF Lab, IpLocks
    <2>3. lock[i] = p
      BY <1>2, <2>1, <2>2, FromHere
    <2>4. LockStep(p)
      BY <1>5, <2>1, <2>3, UnlocksStep
    <2> QED BY <1>1, <1>2, <1>3, <1>5, <2>1, <2>4, PutOutBlocks
  <1> QED BY <1>1, <1>4, <1>5

\* chdir puts what is no directory, and otherwise the directory that it leaves: the new one
\* is allocated, and no iput is freeing it.
LEMMA ChdirCheckBlocks ==
  ASSUME RInv, BInv, NEW p \in Procs, ChdirCheck(p), Up(fs')
  PROVE  BInv'
  <1>1. /\ At(p, "chdir1") /\ UNCHANGED <<ftab, proc, lock>>
        /\ \/ loc[p].ip = 0 /\ Fails(p) /\ UNCHANGED fs
           \/ /\ loc[p].ip # 0 /\ lock[loc[p].ip] = 0 /\ fs' = Load(fs, loc[p].ip)
              /\ Put(p, loc[p].ip, <<>>) \/ Put(p, proc[p].cwd, <<"chdir2">>)
    BY DEF ChdirCheck, world, Unlocked
  <1>2. From(p, <<"chdir1", "ret">>, TRUE, FALSE, FALSE, FALSE, TRUE)
    BY <1>1, Froms
  <1>3. "chdir1" \in Labels /\ "chdir2" \in Labels /\ LockStep(p)
    BY <1>1, LockStays DEF Labels
  <1>4. CASE loc[p].ip = 0 /\ Fails(p) /\ UNCHANGED fs
    BY <1>1, <1>2, <1>3, <1>4, FsStepSame, FailBlocks
  <1>5. CASE loc[p].ip # 0 /\ lock[loc[p].ip] = 0 /\ fs' = Load(fs, loc[p].ip)
    <2>1. PICK i \in Inums : i = loc[p].ip
      BY <1>5, IpIn
    <2>2. FsStep(p) /\ Tended(fs', i)
      BY <1>5, <2>1, LoadFs
    <2>3. CASE Put(p, loc[p].ip, <<>>)
      BY <1>1, <1>2, <1>3, <2>1, <2>2, <2>3, PutOutBlocks
    <2>4. CASE Put(p, proc[p].cwd, <<"chdir2">>)
      <3>1. PICK c \in Inums : c = proc[p].cwd
        BY <1>1, Here
      <3>2. <<"chdir2", "ret">> \in PutBodies /\ Lab(<<"chdir2", "ret">>) = "chdir2"
        BY Forms DEF Form, Lab
      <3>3. lock[i] \in {0, p}
        BY <1>5, <2>1
      <3>4. FreeToPin(p, i)
        BY <2>2, <3>3 DEF FreeToPin, Tended
      <3>5. Guards(p, <<"chdir2", "ret">>, loc[p].ip, loc[p].dp)
        BY <2>1, <3>2, <3>4 DEF Guards, DpLabels, IpLocks
      <3> QED BY <1>1, <1>2, <1>3, <2>2, <2>4, <3>1, <3>2, <3>5, PutOnBlocks
    <2> QED BY <1>1, <1>5, <2>3, <2>4
  <1> QED BY <1>1, <1>4, <1>5

-----------------------------------------------------------------------------
(* Steps at the beginning and the end of a call *)

\* Whatever is open, or somebody's directory, was pinned before.
PinsFew ==
  /\ \A f \in 1..NFILE : ftab'[f].ip \in Inums => Pinned(ftab'[f].ip)
  /\ \A q \in Procs : HoldsCwd(pc'[q], proc'[q].cwd, proc'[q].cwd) /\ proc'[q].cwd \in Inums => Pinned(proc'[q].cwd)

\* A step to where nothing is locked.
LEMMA EasyBlocks ==
  ASSUME RInv, BInv, NEW p \in Procs, ~Freeing(pc[p]), Elsewhere(p), NEW s, pc'[p] = s, Free(Body(s)), ~Freeing(s),
         LockStep(p), FsStep(p), PinsFew
  PROVE  BInv'
  <1>1. OwnClaims(p)
    BY DEF OwnClaims, Free, BodyClaims
  <1>2. PinStep(p)
    <2>1. SUFFICES ASSUME NEW i \in Inums, Pinned(i)' PROVE Pinned(i)
      BY DEF PinStep
    <2>2. CASE \E f \in 1..NFILE : ftab'[f].ip = i
      BY <2>2 DEF PinsFew
    <2>3. ASSUME NEW q \in Procs, HoldsCwd(pc'[q], proc'[q].cwd, i) PROVE Pinned(i)
      BY <2>3 DEF PinsFew, HoldsCwd
    <2>4. ASSUME NEW q \in Procs, Lab(Body(pc'[q])) \in {"openset", "chdir2"} /\ loc'[q].ip = i PROVE Pinned(i)
      <3>1. q # p
        BY <2>4 DEF Free
      <3>2. pc'[q] = pc[q] /\ loc'[q] = loc[q]
        BY <3>1 DEF Elsewhere
      <3> QED BY <2>4, <3>2 DEF Pinned, Pins
    <2> QED BY <2>1, <2>2, <2>3, <2>4 DEF Pinned, Pins
  <1> QED BY <1>1, <1>2, BlockStep

\* Files that stay the same name the same inodes.
LEMMA SameKeep ==
  ASSUME FtabSame
  PROVE  FilesKeep
  BY DEF FtabSame, FileSame, FilesKeep

\* A process between two calls.
LEMMA UserCalling ==
  ASSUME RInv, NEW p \in Procs, AtUser(p)
  PROVE  Calling(p) /\ ~Freeing(pc[p])
  <1>1. Body(pc[p]) = pc[p] /\ ~InPut(pc[p])
    BY UserHas
  <1>2. Lab(pc[p]) = "user"
    BY DEF Lab, AtUser
  <1> QED BY <1>1, <1>2 DEF Calling, LeftLabels, Freeing, AtUser

\* A step of a process that has locked nothing, to where it has locked nothing.
LEMMA FreshBlocks ==
  ASSUME RInv, BInv, NEW p \in Procs, Calling(p), NEW b \in Bodies, Free(b), Begins(p, b), NEW l \in Locs,
         loc' = [loc EXCEPT ![p] = l], UNCHANGED <<proc, lock>>, FilesKeep, FsStep(p)
  PROVE  BInv'
  <1>1. To(p, b, l)
    BY BodyStack DEF To, Begins
  <1>2. Sits(p, b, l.ip, l.dp)
    BY <1>1, BodySits
  <1>3. Guards(p, b, l.ip, l.dp)
    BY FreeGuards
  <1> QED BY <1>2, <1>3, LockStays, CallBlocks

\* A call begins with the look-up of a path.
LEMMA LookBlocks ==
  ASSUME RInv, BInv, NEW p \in Procs, AtUser(p), NEW c \in Conts, c # <<"link2", "ret">>, NEW b, b = <<"namex">> \o c,
         Begins(p, b), UNCHANGED <<fs, lock, ftab, proc, loc>>
  PROVE  BInv'
  <1>1. c \notin Linking
    BY DEF Conts, Linking
  <1>2. PICK old \in BOOLEAN : old = FALSE
    OBVIOUS
  <1>3. b \in Bodies
    BY <1>1, <1>2, Looking DEF Bodies
  <1>4. Free(b)
    BY FreeBodies
  <1>5. FsStep(p) /\ Calling(p)
    BY FsStepSame, UserCalling
  <1>6. FilesKeep
    BY DEF FilesKeep
  <1>7. loc' = [loc EXCEPT ![p] = loc[p]] /\ loc[p] \in Locs
    BY LocStays
  <1> QED BY <1>3, <1>4, <1>5, <1>6, <1>7, FreshBlocks

\* The entries of link, unlink, open, mkdir, mknod and chdir.
LEMMA LooksBlocks ==
  ASSUME RInv, BInv, NEW p \in Procs, SysLink(p) \/ SysUnlink(p) \/ SysOpen(p) \/ SysMake(p) \/ SysChdir(p)
  PROVE  BInv'
  <1>1. UNCHANGED <<fs, lock, ftab, proc, loc>> /\ AtUser(p)
    BY CallsFrom DEF SysLink, SysUnlink, SysOpen, SysMake, SysChdir, world
  <1>2. /\ <<"link1", "ret">> \in Conts /\ <<"link1", "ret">> # <<"link2", "ret">>
        /\ <<"unlink1", "ret">> \in Conts /\ <<"unlink1", "ret">> # <<"link2", "ret">>
        /\ <<"create", "openfd", "ret">> \in Conts /\ <<"create", "openfd", "ret">> # <<"link2", "ret">>
        /\ <<"openlock", "ret">> \in Conts /\ <<"openlock", "ret">> # <<"link2", "ret">>
        /\ <<"create", "made", "ret">> \in Conts /\ <<"create", "made", "ret">> # <<"link2", "ret">>
        /\ <<"chdir1", "ret">> \in Conts /\ <<"chdir1", "ret">> # <<"link2", "ret">>
    BY DEF Conts
  <1>3. CASE SysLink(p)
    <2>1. \E r : Enters(p, <<"namex", "link1">>, r)
      BY <1>3 DEF SysLink
    <2> QED BY <1>1, <1>2, <2>1, EntersTwo, LookBlocks
  <1>4. CASE SysUnlink(p)
    <2>1. \E r : Enters(p, <<"namex", "unlink1">>, r)
      BY <1>4 DEF SysUnlink
    <2> QED BY <1>1, <1>2, <2>1, EntersTwo, LookBlocks
  <1>5. CASE SysOpen(p)
    <2>1. (\E r : Enters(p, <<"namex", "create", "openfd">>, r)) \/ (\E r : Enters(p, <<"namex", "openlock">>, r))
      BY <1>5 DEF SysOpen
    <2>2. CASE \E r : Enters(p, <<"namex", "create", "openfd">>, r)
      BY <1>1, <1>2, <2>2, EntersThree, LookBlocks
    <2>3. CASE \E r : Enters(p, <<"namex", "openlock">>, r)
      BY <1>1, <1>2, <2>3, EntersTwo, LookBlocks
    <2> QED BY <2>1, <2>2, <2>3
  <1>6. CASE SysMake(p)
    <2>1. \E r : Enters(p, <<"namex", "create", "made">>, r)
      BY <1>6 DEF SysMake
    <2> QED BY <1>1, <1>2, <2>1, EntersThree, LookBlocks
  <1>7. CASE SysChdir(p)
    <2>1. \E r : Enters(p, <<"namex", "chdir1">>, r)
      BY <1>7 DEF SysChdir
    <2> QED BY <1>1, <1>2, <2>1, EntersTwo, LookBlocks
  <1> QED BY <1>3, <1>4, <1>5, <1>6, <1>7

\* The stack of a call that returns at once.
LEMMA AnswersRet ==
  ASSUME RInv, NEW p \in Procs, NEW r, Answers(p, r)
  PROVE  Begins(p, <<"ret">>) /\ loc' = [loc EXCEPT ![p] = loc[p]] /\ loc[p] \in Locs /\ <<"ret">> \in Bodies /\ Free(<<"ret">>)
  <1>1. <<>> \o <<"ret">> = <<"ret">>
    OBVIOUS
  <1>2. Begins(p, <<"ret">>) /\ UNCHANGED loc
    BY <1>1 DEF Answers, Enters, Begins
  <1> QED BY <1>2, LocStays, FreeBodies, CwdForms DEF OnlyCwd

\* A call that returns at once.
LEMMA AnswersBlocks ==
  ASSUME RInv, BInv, NEW p \in Procs, AtUser(p), NEW r, Answers(p, r), UNCHANGED <<proc, lock>>, FilesKeep, FsStep(p)
  PROVE  BInv'
  BY AnswersRet, UserCalling, FreshBlocks

\* fstat reads the inode.
LEMMA SysFstatBlocks ==
  ASSUME RInv, BInv, NEW p \in Procs, SysFstat(p), Up(fs')
  PROVE  BInv'
  <1>1. /\ AtUser(p) /\ UNCHANGED <<ftab, proc, lock>> /\ \E r : Answers(p, r)
        /\ \/ fs' = fs
           \/ ~BadFd(p) /\ lock[ftab[File(p)].ip] = 0 /\ fs' = Load(fs, ftab[File(p)].ip)
    BY CallsFrom DEF SysFstat, world, Unlocked
  <1>2. ASSUME ~BadFd(p) PROVE ftab[File(p)].ip \in Inums
    BY <1>1, <1>2, OpenIp DEF BadFd, File
  <1>3. FsStep(p)
    BY <1>1, <1>2, FsStepSame, LoadFs
  <1>4. FilesKeep
    BY <1>1 DEF FilesKeep
  <1> QED BY <1>1, <1>3, <1>4, AnswersBlocks

\* read reads the inode and moves the offset.
LEMMA SysReadBlocks ==
  ASSUME RInv, BInv, NEW p \in Procs, SysRead(p), Up(fs')
  PROVE  BInv'
  <1>1. PICK f, s : f = File(p) /\ s = Load(fs, ftab[f].ip)
    OBVIOUS
  <1>2. PICK n : n = Len(Readi(s, ftab[f].ip, ftab[f].off, Op(p).n))
    OBVIOUS
  <1>3. /\ AtUser(p) /\ UNCHANGED <<proc, lock>> /\ \E r : Answers(p, r)
        /\ \/ UNCHANGED <<fs, ftab>>
           \/ /\ ~BadFd(p) /\ ~BadSize(p) /\ lock[ftab[f].ip] = 0 /\ fs' = s
              /\ UNCHANGED ftab \/ \E k \in {n} \cup 0..Op(p).n : Forward(f, k)
    BY <1>1, <1>2, CallsFrom DEF SysRead, Forward, Unlocked
  <1>4. PICK N : Sound(fs, N)
    BY FsNames
  <1>5. CASE UNCHANGED <<fs, ftab>>
    BY <1>3, <1>5, FsStepSame, FilesStay, SameKeep, AnswersBlocks
  <1>6. CASE /\ ~BadFd(p) /\ ~BadSize(p) /\ lock[ftab[f].ip] = 0 /\ fs' = s
             /\ UNCHANGED ftab \/ \E k \in {n} \cup 0..Op(p).n : Forward(f, k)
    <2>1. f \in 1..NFILE /\ ftab[f].ip \in Inums /\ ftab[f].off \in Nat
      BY <1>1, <1>3, <1>6, OpenIp DEF BadFd, File
    <2>2. FsStep(p)
      BY <1>1, <1>6, <2>1, LoadFs
    <2>3. Sound(s, N) /\ Op(p).n \in Nat
      BY <1>1, <1>4, <1>6, <2>1, LoadKeeps, KeptSound DEF BadSize
    <2>4. n \in Nat
      BY <1>2, <2>1, <2>3, ReadiOK
    <2>5. \A k \in {n} \cup 0..Op(p).n : k \in Nat
      BY <2>3, <2>4
    <2>6. FilesKeep
      BY <1>6, <2>1, <2>5, ForwardSame, FilesStay, SameKeep
    <2> QED BY <1>3, <2>2, <2>6, AnswersBlocks
  <1> QED BY <1>3, <1>5, <1>6

\* write begins.
LEMMA SysWriteBlocks ==
  ASSUME RInv, BInv, NEW p \in Procs, SysWrite(p)
  PROVE  BInv'
  <1>1. /\ AtUser(p) /\ UNCHANGED <<fs, ftab, proc, lock>>
        /\ \/ \E r : Answers(p, r)
           \/ SetDone(p, 0) /\ \E r : Enters(p, <<"write">>, r)
    BY CallsFrom DEF SysWrite, world, SetDone
  <1>2. FsStep(p) /\ FilesKeep /\ Calling(p)
    BY <1>1, FsStepSame, FilesStay, SameKeep, UserCalling
  <1>3. ASSUME NEW r, Answers(p, r) PROVE BInv'
    BY <1>1, <1>2, <1>3, AnswersBlocks
  <1>4. CASE SetDone(p, 0) /\ \E r : Enters(p, <<"write">>, r)
    <2>1. PICK l : l \in Locs /\ l.done = 0 /\ loc' = [loc EXCEPT ![p] = l]
      BY <1>4, DoneLocs
    <2>2. Begins(p, <<"write", "ret">>)
      BY <1>4, Cat1 DEF Enters, Begins
    <2>3. <<"write", "ret">> \in Bodies /\ Free(<<"write", "ret">>)
      BY CwdForms, FreeBodies DEF OnlyCwd
    <2> QED BY <1>1, <1>2, <2>1, <2>2, <2>3, FreshBlocks
  <1> QED BY <1>1, <1>3, <1>4

\* A chunk is written under the inode's lock.
LEMMA ChunkFs ==
  ASSUME RInv, BInv, NEW p \in Procs, At(p, "write"), NEW s, s = Load(fs, ftab[File(p)].ip), lock[ftab[File(p)].ip] = 0,
         WriteFits(s, ftab[File(p)].ip, ftab[File(p)].off, ChunkLen(p)),
         fs' = Writei(s, ftab[File(p)].ip, ftab[File(p)].off, Chunk(p)), Up(fs')
  PROVE  FsStep(p)
  <1>1. ChunkLen(p) \in Nat /\ ftab[File(p)].off \in Nat
    BY ChunkOK
  <1>2. PICK i \in Inums : i = ftab[File(p)].ip
    BY ChunkOK
  <1>3. PICK off \in Nat : off = ftab[File(p)].off
    BY <1>1
  <1>4. PICK N : Sound(fs, N) /\ Named(N) /\ {Op(p).data[loc[p].done + k] : k \in 1..ChunkLen(p)} \subseteq N
    BY FsNames
  <1>5. Sound(s, N)
    BY <1>2, <1>4, LoadKeeps, KeptSound
  <1>6. PICK c : c = Chunk(p)
    OBVIOUS
  <1>7. Len(c) = ChunkLen(p)
    BY <1>1, <1>6 DEF Chunk
  <1>8. ASSUME NEW k \in 1..Len(c) PROVE c[k] \in Units(N)
    <2>1. c[k] = Byte(Op(p).data[loc[p].done + k]) /\ Op(p).data[loc[p].done + k] \in N
      BY <1>4, <1>6, <1>7 DEF Chunk
    <2>2. 0 \in 0..NINODES
      BY InodeAssumption
    <2> QED BY <2>1, <2>2 DEF Byte, Unit, Units
  <1>9. off <= s.mem[i].d.size
    BY <1>2, <1>3 DEF WriteFits
  <1>10. Kept(s, fs', N)
    BY <1>1, <1>2, <1>3, <1>4, <1>5, <1>6, <1>7, <1>8, <1>9, WriteiKeeps
  <1>11. Up(s)
    BY <1>10 DEF Kept, Up
  <1>12. Effect(fs, s, {i}) /\ Tended(s, i)
    BY <1>2, <1>4, <1>11, LoadStep
  <1>13. Accounted(s)
    BY <1>12 DEF Effect
  <1>14. Works(s, fs', i)
    BY <1>1, <1>2, <1>3, <1>4, <1>5, <1>6, <1>7, <1>8, <1>9, <1>12, <1>13, WriteiWorks
  <1> QED BY <1>2, <1>11, <1>14, LoadWorksFs

\* One turn of filewrite's loop.
LEMMA WriteChunkBlocks ==
  ASSUME RInv, BInv, NEW p \in Procs, WriteChunk(p), Up(fs')
  PROVE  BInv'
  <1>1. PICK s : s = Load(fs, ftab[File(p)].ip)
    OBVIOUS
  <1>2. /\ At(p, "write") /\ UNCHANGED <<proc, lock>>
        /\ \/ UNCHANGED <<fs, ftab, loc>> /\ Goto(p, <<>>)
           \/ lock[ftab[File(p)].ip] = 0 /\ fs' = s /\ UNCHANGED <<ftab, loc>> /\ Goto(p, <<>>)
           \/ /\ lock[ftab[File(p)].ip] = 0 /\ WriteFits(s, ftab[File(p)].ip, ftab[File(p)].off, ChunkLen(p))
              /\ fs' = Writei(s, ftab[File(p)].ip, ftab[File(p)].off, Chunk(p))
              /\ Forward(File(p), ChunkLen(p)) /\ SetDone(p, loc[p].done + ChunkLen(p)) /\ UNCHANGED pc
           \/ /\ lock[ftab[File(p)].ip] = 0 /\ fs' = s
              /\ Forward(File(p), ChunkLen(p)) /\ SetDone(p, loc[p].done + ChunkLen(p)) /\ UNCHANGED pc
    BY <1>1 DEF WriteChunk, Fails, Chunk, ChunkLen, Forward, SetDone, Unlocked
  <1>3. /\ pc[p] = <<"write", "ret">> /\ ChunkLen(p) \in Nat /\ loc[p].done + ChunkLen(p) \in Nat
        /\ File(p) \in 1..NFILE /\ ftab[File(p)].ip \in Inums
    BY <1>2, ChunkOK
  <1>4. pc \in [Procs -> Stacks] /\ loc[p] \in Locs
    BY <1>2, Here
  <1>5. /\ OnlyCwd(<<"write", "ret">>) /\ Lab(<<"write", "ret">>) = "write" /\ <<"write", "ret">> \in Bodies
        /\ Free(<<"write", "ret">>) /\ Free(<<"ret">>) /\ <<"ret">> \in Bodies
    BY CwdForms, FreeBodies DEF OnlyCwd
  <1>6. Calling(p)
    BY <1>3, <1>5, OnlyCwdHas DEF Calling, LeftLabels
  <1>7. CASE Goto(p, <<>>) /\ UNCHANGED <<ftab, loc>> /\ (fs' = fs \/ (lock[ftab[File(p)].ip] = 0 /\ fs' = s))
    <2>1. FsStep(p)
      BY <1>1, <1>3, <1>7, FsStepSame, LoadFs
    <2>2. Leads(p, <<>>, <<"ret">>)
      BY <1>3, LeadsRet DEF Labels
    <2>3. Begins(p, <<"ret">>)
      BY <1>7, <2>2 DEF Goto, Leads, Begins
    <2>4. FilesKeep
      BY <1>7 DEF FilesKeep
    <2>5. loc' = [loc EXCEPT ![p] = loc[p]]
      BY <1>7, LocStays
    <2> QED BY <1>2, <1>4, <1>5, <1>6, <2>1, <2>3, <2>4, <2>5, FreshBlocks
  <1>8. CASE /\ lock[ftab[File(p)].ip] = 0
             /\ \/ fs' = s
                \/ /\ WriteFits(s, ftab[File(p)].ip, ftab[File(p)].off, ChunkLen(p))
                   /\ fs' = Writei(s, ftab[File(p)].ip, ftab[File(p)].off, Chunk(p))
             /\ Forward(File(p), ChunkLen(p)) /\ SetDone(p, loc[p].done + ChunkLen(p)) /\ UNCHANGED pc
    <2>1. FsStep(p)
      BY <1>1, <1>2, <1>3, <1>8, ChunkFs, LoadFs
    <2>2. FilesKeep
      BY <1>3, <1>8, ForwardSame, SameKeep
    <2>3. PICK l : l \in Locs /\ loc' = [loc EXCEPT ![p] = l]
      BY <1>3, <1>8, DoneLocs
    <2>4. Begins(p, <<"write", "ret">>)
      BY <1>3, <1>4, <1>8 DEF Begins
    <2> QED BY <1>2, <1>5, <1>6, <2>1, <2>2, <2>3, <2>4, FreshBlocks
  <1> QED BY <1>2, <1>7, <1>8

\* The return from a call.
LEMMA ReturnBlocks ==
  ASSUME RInv, BInv, NEW p \in Procs, Return(p)
  PROVE  BInv'
  <1>1. /\ At(p, "ret") /\ UNCHANGED <<fs, ftab, proc, lock>> /\ pc' = [pc EXCEPT ![p] = <<>>]
        /\ loc' = [loc EXCEPT ![p] = NoLocs]
    BY DEF Return
  <1>2. pc[p] = <<"ret">> /\ Body(pc[p]) = pc[p] /\ ~InPut(pc[p])
    BY <1>1, Here, HereBody, BodyAt DEF PutLabels
  <1>3. OnlyCwd(<<"ret">>) /\ OnlyCwd(<<>>) /\ <<>> \in Bodies /\ Free(<<>>)
    BY CwdForms, FreeBodies DEF OnlyCwd
  <1>4. Calling(p)
    BY <1>2, <1>3 DEF Calling, OnlyCwd
  <1>5. NoLocs \in Locs
    BY ZeroInos, FileSysAssumption DEF NoLocs, Locs
  <1>6. FsStep(p) /\ FilesKeep
    BY <1>1, FsStepSame, FilesStay, SameKeep
  <1> QED BY <1>1, <1>3, <1>4, <1>5, <1>6, FreshBlocks DEF Begins

-----------------------------------------------------------------------------
(* Steps that change files or processes *)

\* An open file, and the directory of a process that does not leave it.
LEMMA PinnedNow ==
  /\ \A f \in 1..NFILE : Pinned(ftab[f].ip)
  /\ \A q \in Procs : Lab(Body(pc[q])) \notin LeftLabels => Pinned(proc[q].cwd)
  BY DEF Pinned, Pins, HoldsCwd

\* Other processes keep their directories.
LEMMA FewPins ==
  ASSUME NEW p \in Procs, Elsewhere(p), \A q \in Procs \ {p} : proc'[q].cwd = proc[q].cwd,
         \A f \in 1..NFILE : ftab'[f].ip \in Inums => Pinned(ftab'[f].ip),
         Lab(Body(pc'[p])) \notin LeftLabels /\ proc'[p].cwd \in Inums => Pinned(proc'[p].cwd)
  PROVE  PinsFew
  <1>1. SUFFICES ASSUME NEW q \in Procs, HoldsCwd(pc'[q], proc'[q].cwd, proc'[q].cwd), proc'[q].cwd \in Inums
                 PROVE  Pinned(proc'[q].cwd)
    BY DEF PinsFew
  <1>2. CASE q = p
    BY <1>1, <1>2 DEF HoldsCwd
  <1>3. CASE q # p
    <2>1. pc'[q] = pc[q] /\ proc'[q].cwd = proc[q].cwd
      BY <1>3 DEF Elsewhere
    <2> QED BY <1>1, <2>1, PinnedNow DEF HoldsCwd
  <1> QED BY <1>2, <1>3

\* A step of p to the stack s.
LEMMA StackStep ==
  ASSUME RInv, NEW p \in Procs, NEW s, Begins(p, s), NEW l, loc' = [loc EXCEPT ![p] = l]
  PROVE  Elsewhere(p) /\ pc'[p] = s /\ loc'[p] = l
  BY DEF RInv, TypeInv, Elsewhere, Begins

\* chdir's end: what was about to be the directory is it now.
LEMMA ChdirDoneBlocks ==
  ASSUME RInv, BInv, NEW p \in Procs, ChdirDone(p)
  PROVE  BInv'
  <1>1. At(p, "chdir2") /\ SetCwd(p, loc[p].ip) /\ Goto(p, <<>>) /\ UNCHANGED <<fs, ftab, lock, loc>>
    BY DEF ChdirDone, SetCwd
  <1>2. From(p, <<"chdir2", "ret">>, TRUE, TRUE, FALSE, FALSE, FALSE)
    BY <1>1, Froms
  <1>3. InCall(p) /\ pc[p] = <<"chdir2", "ret">> /\ Body(pc[p]) = pc[p] /\ ~InPut(pc[p])
    BY <1>2, FromIn DEF InCall
  <1>4. ~Freeing(pc[p])
    BY <1>3 DEF Freeing
  <1>5. Lab(Body(pc[p])) = "chdir2"
    BY <1>3 DEF Lab
  <1>6. PICK s : s = <<"ret">>
    OBVIOUS
  <1>7. Leads(p, <<>>, s) /\ OnlyCwd(s) /\ Free(s)
    BY <1>3, <1>6, LeadsRet, CwdForms, FreeBodies DEF Labels
  <1>8. Begins(p, s)
    BY <1>1, <1>7 DEF Goto, Leads, Begins
  <1>9. Body(s) = s /\ ~InPut(s)
    BY <1>7, OnlyCwdHas
  <1>10. ~Freeing(s) /\ Free(Body(s))
    BY <1>7, <1>9 DEF Freeing, InPut, PutLabels
  <1>11. Elsewhere(p) /\ pc'[p] = s
    BY <1>1, <1>8, LocStays, StackStep
  <1>12. proc \in [Procs -> ProcRec]
    BY DEF RInv, TypeInv
  <1>13. proc'[p].cwd = loc[p].ip /\ \A q \in Procs \ {p} : proc'[q] = proc[q]
    BY <1>1, <1>12 DEF SetCwd, ProcRec
  <1>14. Pinned(loc[p].ip)
    BY <1>5 DEF Pinned, Pins
  <1>15. PinsFew
    BY <1>1, <1>11, <1>13, <1>14, PinnedNow, FewPins
  <1> QED BY <1>1, <1>4, <1>10, <1>11, <1>15, FsStepSame, LockStays, EasyBlocks

\* exit's end: a zombie has no directory.
LEMMA ExitDoneBlocks ==
  ASSUME RInv, BInv, NEW p \in Procs, ExitDone(p)
  PROVE  BInv'
  <1>1. /\ At(p, "zombie") /\ Goto(p, <<>>) /\ UNCHANGED <<fs, ftab, lock>> /\ loc' = [loc EXCEPT ![p] = NoLocs]
        /\ proc' = [proc EXCEPT ![p].st = "zombie", ![p].cwd = 0]
    BY DEF ExitDone
  <1>2. pc[p] = <<"zombie">>
    BY <1>1, Here, HereBody, BodyAt DEF PutLabels
  <1>3. ~Freeing(pc[p])
    BY <1>2 DEF Freeing
  <1>4. PICK s : s = <<>>
    OBVIOUS
  <1>5. OnlyCwd(s) /\ Free(s) /\ ~Freeing(s)
    BY <1>4, CwdForms, FreeBodies DEF Freeing
  <1>6. Begins(p, s)
    <2>1. Tail(pc[p]) = <<>> /\ <<>> \o <<>> = <<>>
      BY <1>2
    <2> QED BY <1>1, <1>4, <2>1 DEF Goto, Begins
  <1>7. Free(Body(s))
    BY <1>5, OnlyCwdHas
  <1>8. Elsewhere(p) /\ pc'[p] = s
    BY <1>1, <1>6, StackStep
  <1>9. proc \in [Procs -> ProcRec]
    BY DEF RInv, TypeInv
  <1>10. PICK r : r = [proc[p] EXCEPT !.st = "zombie"]
    OBVIOUS
  <1>11. PICK t : t = [r EXCEPT !.cwd = 0]
    OBVIOUS
  <1>12. t.cwd = 0
    BY <1>9, <1>10, <1>11 DEF ProcRec
  <1>13. proc' = [proc EXCEPT ![p] = t]
    BY <1>1, <1>9, <1>10, <1>11 DEF ProcRec
  <1>14. proc'[p].cwd = 0 /\ \A q \in Procs \ {p} : proc'[q] = proc[q]
    BY <1>9, <1>12, <1>13
  <1>15. 0 \notin Inums
    BY InumsInos
  <1>16. PinsFew
    BY <1>1, <1>8, <1>14, <1>15, PinnedNow, FewPins
  <1> QED BY <1>1, <1>3, <1>5, <1>7, <1>8, <1>16, FsStepSame, LockStays, EasyBlocks

\* A file and a descriptor for an inode that is about to be unlocked: it is allocated, and
\* no iput is freeing it.
LEMMA OpenedBlocks ==
  ASSUME RInv, BInv, NEW p \in Procs, At(p, "openfd"), NEW i \in Inums, i = loc[p].ip, Unlocks(i), NEW f \in 1..NFILE,
         NEW fd \in Fds, SetRef(f, 1), SetFd(p, fd, f), SetFile(p, f), Goto(p, <<"openset">>), UNCHANGED fs
  PROVE  BInv'
  <1>1. From(p, <<"openfd", "ret">>, TRUE, FALSE, FALSE, FALSE, TRUE)
    BY Froms
  <1>2. pc[p] = <<"openfd", "ret">> /\ Lab(pc[p]) \notin LeftLabels /\ Body(pc[p]) = pc[p] /\ ~Freeing(pc[p])
    BY <1>1, FromHere
  <1>3. Lab(<<"openfd", "ret">>) \in IpLocks
    BY DEF Lab, IpLocks
  <1>4. lock[i] = p /\ Tended(fs, i)
    BY <1>1, <1>3, FromHere
  <1>5. LockStep(p)
    BY <1>4, UnlocksStep
  <1>6. lock[i] \in {0, p}
    BY <1>4
  <1>7. FreeToPin(p, i)
    BY <1>4, <1>6 DEF FreeToPin, Tended
  <1>8. PICK l : l \in Locs /\ l.ip = i /\ loc' = [loc EXCEPT ![p] = l]
    BY FileLocs
  <1>9. PICK s : s = <<"openset", "ret">>
    OBVIOUS
  <1>10. Body(s) = s /\ Lab(s) = "openset" /\ ~InPut(s)
    BY <1>9, OpensetForm
  <1>11. ~Freeing(s)
    BY <1>10 DEF Freeing, InPut, PutLabels
  <1>12. Leads(p, <<"openset">>, s)
    BY <1>2, <1>9, LeadsRet DEF Labels
  <1>13. Begins(p, s)
    BY <1>12 DEF Goto, Leads, Begins
  <1>14. Elsewhere(p) /\ pc'[p] = s /\ loc'[p] = l
    BY <1>8, <1>13, StackStep
  <1>15. OwnClaims(p)
    BY <1>10, <1>11, <1>14 DEF OwnClaims, BodyClaims, IpLocks, DpLabels
  <1>16. \A g \in 1..NFILE : ftab'[g].ip = ftab[g].ip
    BY 1 \in Nat, RefFile
  <1>17. f \in 0..NFILE
    BY FileSysAssumption
  <1>18. proc'[p].cwd = proc[p].cwd /\ \A q \in Procs \ {p} : proc'[q] = proc[q]
    BY <1>17, FdProc
  <1>19. PinStep(p)
    <2>1. SUFFICES ASSUME NEW j \in Inums, Pinned(j)' PROVE Pinned(j) \/ FreeToPin(p, j)
      BY DEF PinStep
    <2>2. CASE \E g \in 1..NFILE : ftab'[g].ip = j
      BY <1>16, <2>2, PinnedNow
    <2>3. CASE Pins(pc'[p], loc'[p], proc'[p].cwd, j)
      <3>1. CASE proc[p].cwd = j
        BY <1>2, <3>1, PinnedNow
      <3>2. CASE proc[p].cwd # j
        BY <1>7, <1>8, <1>14, <1>18, <2>3, <3>2 DEF Pins, HoldsCwd
      <3> QED BY <3>1, <3>2
    <2>4. ASSUME NEW q \in Procs \ {p}, Pins(pc'[q], loc'[q], proc'[q].cwd, j) PROVE Pinned(j)
      <3>1. pc'[q] = pc[q] /\ loc'[q] = loc[q] /\ proc'[q] = proc[q]
        BY <1>14, <1>18 DEF Elsewhere
      <3> QED BY <2>4, <3>1 DEF Pinned
    <2> QED BY <2>1, <2>2, <2>3, <2>4 DEF Pinned
  <1> QED BY <1>2, <1>5, <1>14, <1>15, <1>19, FsStepSame, BlockStep

\* open allocates a file and a descriptor, or puts the inode.
LEMMA OpenFdBlocks ==
  ASSUME RInv, BInv, NEW p \in Procs, OpenFd(p)
  PROVE  BInv'
  <1>1. PICK f, fd : f = Min(FreeFiles) /\ fd = Min(FreeFds(p))
    OBVIOUS
  <1>2. /\ At(p, "openfd") /\ UNCHANGED fs
        /\ \/ loc[p].ip = 0 /\ Fails(p) /\ UNCHANGED <<ftab, proc, lock>>
           \/ loc[p].ip # 0 /\ Unlocks(loc[p].ip) /\ Put(p, loc[p].ip, <<>>) /\ UNCHANGED <<ftab, proc>>
           \/ /\ loc[p].ip # 0 /\ Unlocks(loc[p].ip) /\ FreeFiles # {} /\ FreeFds(p) # {}
              /\ SetRef(f, 1) /\ SetFd(p, fd, f) /\ SetFile(p, f) /\ Goto(p, <<"openset">>)
    BY <1>1 DEF OpenFd, SetRef, SetFd, SetFile
  <1>3. From(p, <<"openfd", "ret">>, TRUE, FALSE, FALSE, FALSE, TRUE)
    BY <1>2, Froms
  <1>4. "openfd" \in Labels /\ FsStep(p)
    BY <1>2, FsStepSame DEF Labels
  <1>5. CASE loc[p].ip = 0 /\ Fails(p) /\ UNCHANGED <<ftab, proc, lock>>
    BY <1>3, <1>4, <1>5, FailBlocks
  <1>6. CASE loc[p].ip # 0 /\ Unlocks(loc[p].ip) /\ Put(p, loc[p].ip, <<>>) /\ UNCHANGED <<ftab, proc>>
    <2>1. PICK i \in Inums : i = loc[p].ip
      BY <1>6, IpIn
    <2>2. Lab(<<"openfd", "ret">>) \in IpLocks
      BY DEF Lab, IpLocks
    <2>3. lock[i] = p
      BY <1>3, <2>1, <2>2, FromHere
    <2>4. LockStep(p)
      BY <1>6, <2>1, <2>3, UnlocksStep
    <2> QED BY <1>3, <1>4, <1>6, <2>1, <2>4, PutOutBlocks
  <1>7. CASE /\ loc[p].ip # 0 /\ Unlocks(loc[p].ip) /\ FreeFiles # {} /\ FreeFds(p) # {}
             /\ SetRef(f, 1) /\ SetFd(p, fd, f) /\ SetFile(p, f) /\ Goto(p, <<"openset">>)
    <2>1. FreeFiles \subseteq Nat /\ FreeFds(p) \subseteq Nat
      BY FileSysAssumption DEF FreeFiles, FreeFds, Fds
    <2>2. f \in FreeFiles /\ fd \in FreeFds(p)
      BY <1>1, <1>7, <2>1, MinIn
    <2>3. f \in 1..NFILE /\ fd \in Fds
      BY <2>2 DEF FreeFiles, FreeFds
    <2>4. PICK i \in Inums : i = loc[p].ip
      BY <1>7, IpIn
    <2> QED BY <1>2, <1>7, <2>3, <2>4, OpenedBlocks
  <1> QED BY <1>2, <1>5, <1>6, <1>7

\* open's last step: the inode is the file's.
LEMMA OpenSetBlocks ==
  ASSUME RInv, BInv, NEW p \in Procs, OpenSet(p)
  PROVE  BInv'
  <1>1. PICK f, i : f = loc[p].f /\ i = loc[p].ip
    OBVIOUS
  <1>2. At(p, "openset") /\ FillFile(f, i, Op(p).rd, Op(p).wr) /\ Goto(p, <<>>) /\ UNCHANGED <<fs, lock, proc, loc>>
    BY <1>1 DEF OpenSet, FillFile
  <1>3. pc[p] = <<"openset", "ret">>
    BY <1>2, Here, HereBody, BodyAt DEF PutLabels
  <1>4. Body(pc[p]) = pc[p] /\ Lab(pc[p]) = "openset" /\ ~Freeing(pc[p])
    BY <1>3, OpensetForm DEF Freeing
  <1>5. PICK s : s = <<"ret">>
    OBVIOUS
  <1>6. OnlyCwd(s) /\ Leads(p, <<>>, s) /\ Free(s)
    BY <1>3, <1>5, CwdForms, FreeBodies, LeadsRet DEF Labels
  <1>7. Begins(p, s)
    BY <1>2, <1>6 DEF Goto, Leads, Begins
  <1>8. Body(s) = s /\ ~InPut(s)
    BY <1>6, OnlyCwdHas
  <1>9. ~Freeing(s) /\ Free(Body(s))
    BY <1>6, <1>8 DEF Freeing, InPut, PutLabels
  <1>10. Elsewhere(p) /\ pc'[p] = s
    BY <1>2, <1>7, LocStays, StackStep
  <1>11. PICK fd \in Fds : f # 0 /\ ftab[f].ip = 0 /\ Desc(f) = {<<p, fd>>}
    BY <1>1, <1>4 DEF RInv, Opening
  <1>12. f \in 1..NFILE /\ i \in Inos
    <2>1. f \in 0..NFILE /\ i \in Inos
      BY <1>1, <1>2, Here DEF Locs
    <2> QED BY <1>11, <2>1, FileSysAssumption
  <1>13. ftab'[f].ip = i /\ \A g \in 1..NFILE \ {f} : ftab'[g] = ftab[g]
    BY <1>2, <1>12, FilledFile
  <1>14. Pinned(i)
    BY <1>1, <1>4 DEF Pinned, Pins
  <1>15. \A g \in 1..NFILE : Pinned(ftab'[g].ip)
    BY <1>13, <1>14, PinnedNow
  <1>16. Pinned(proc[p].cwd)
    BY <1>4, PinnedNow DEF LeftLabels
  <1>17. PinsFew
    BY <1>2, <1>10, <1>15, <1>16, FewPins
  <1> QED BY <1>2, <1>4, <1>9, <1>10, <1>17, FsStepSame, LockStays, EasyBlocks

\* A step of p from between two calls to s that keeps its directory and opens nothing.
LEMMA UserBlocks ==
  ASSUME RInv, BInv, NEW p \in Procs, AtUser(p), NEW s, Free(Body(s)), ~Freeing(s), Begins(p, s), NEW l,
         loc' = [loc EXCEPT ![p] = l], UNCHANGED lock, FsStep(p), proc'[p].cwd = proc[p].cwd,
         \A q \in Procs \ {p} : proc'[q].cwd \in {proc[q].cwd, proc[p].cwd, 0}, 
         \A f \in 1..NFILE : ftab'[f].ip \in {ftab[f].ip, 0}
  PROVE  BInv'
  <1>1. Elsewhere(p) /\ pc'[p] = s
    BY StackStep
  <1>2. Calling(p) /\ ~Freeing(pc[p])
    BY UserCalling
  <1>3. 0 \notin Inums
    BY InumsInos
  <1>4. Pinned(proc[p].cwd)
    BY <1>2, PinnedNow DEF Calling
  <1>5. PinsFew
    <2>1. ASSUME NEW f \in 1..NFILE, ftab'[f].ip \in Inums PROVE Pinned(ftab'[f].ip)
      BY <1>3, <2>1, PinnedNow
    <2>2. ASSUME NEW q \in Procs, HoldsCwd(pc'[q], proc'[q].cwd, proc'[q].cwd), proc'[q].cwd \in Inums
          PROVE  Pinned(proc'[q].cwd)
      <3>1. CASE proc'[q].cwd = proc[p].cwd
        BY <1>4, <3>1
      <3>2. CASE proc'[q].cwd # proc[p].cwd
        <4>1. q # p /\ proc'[q].cwd = proc[q].cwd
          BY <1>3, <2>2, <3>2
        <4>2. pc'[q] = pc[q]
          BY <1>1, <4>1 DEF Elsewhere
        <4> QED BY <2>2, <4>1, <4>2, PinnedNow DEF HoldsCwd
      <3> QED BY <3>1, <3>2
    <2> QED BY <2>1, <2>2 DEF PinsFew
  <1> QED BY <1>1, <1>2, <1>5, LockStays, EasyBlocks

\* The stack of a call that is over.
LEMMA RetStack ==
  Free(Body(<<"ret">>)) /\ ~Freeing(<<"ret">>) /\ Free(Body(<<>>)) /\ ~Freeing(<<>>)
  <1>1. Body(<<"ret">>) = <<"ret">> /\ Body(<<>>) = <<>>
    BY CwdForms, OnlyCwdHas
  <1>2. ~Freeing(<<"ret">>) /\ ~Freeing(<<>>)
    BY DEF Freeing
  <1> QED BY <1>1, <1>2, FreeBodies

\* dup.
LEMMA SysDupBlocks ==
  ASSUME RInv, BInv, NEW p \in Procs, SysDup(p)
  PROVE  BInv'
  <1>1. PICK f, fd : f = File(p) /\ fd = Min(FreeFds(p))
    OBVIOUS
  <1>2. /\ AtUser(p) /\ UNCHANGED <<fs, lock>> /\ \E r : Answers(p, r)
        /\ \/ UNCHANGED <<ftab, proc>>
           \/ ~BadFd(p) /\ FreeFds(p) # {} /\ SetFd(p, fd, f) /\ SetRef(f, ftab[f].ref + 1)
    <2>1. ASSUME ftab' = [ftab EXCEPT ![f].ref = @ + 1] PROVE SetRef(f, ftab[f].ref + 1)
      BY <2>1 DEF SetRef
    <2> QED BY <1>1, <2>1, CallsFrom DEF SysDup, SetFd
  <1>3. FsStep(p)
    BY <1>2, FsStepSame
  <1>4. CASE UNCHANGED <<ftab, proc>>
    BY <1>2, <1>3, <1>4, FilesStay, SameKeep, AnswersBlocks
  <1>5. CASE ~BadFd(p) /\ FreeFds(p) # {} /\ SetFd(p, fd, f) /\ SetRef(f, ftab[f].ref + 1)
    <2>1. f \in 1..NFILE /\ f \in 0..NFILE
      <3>1. Op(p).fd \in Fds /\ proc[p].ofile[Op(p).fd] # 0 /\ f = proc[p].ofile[Op(p).fd]
        BY <1>1, <1>5 DEF BadFd, File
      <3> QED BY <3>1, FdFile
    <2>2. fd \in Fds
      <3>1. FreeFds(p) \subseteq Nat
        BY FileSysAssumption DEF FreeFds, Fds
      <3>2. fd \in FreeFds(p)
        BY <1>1, <1>5, <3>1, MinIn
      <3> QED BY <3>2 DEF FreeFds
    <2>3. ftab[f].ref + 1 \in Nat
      BY <2>1, DescNone
    <2>4. \A g \in 1..NFILE : ftab'[g].ip = ftab[g].ip
      BY <1>5, <2>1, <2>3, RefFile
    <2>5. proc'[p].cwd = proc[p].cwd /\ \A q \in Procs \ {p} : proc'[q] = proc[q]
      BY <1>5, <2>1, <2>2, FdProc
    <2>6. Begins(p, <<"ret">>) /\ loc' = [loc EXCEPT ![p] = loc[p]]
      BY <1>2, AnswersRet
    <2> QED BY <1>2, <1>3, <2>4, <2>5, <2>6, RetStack, UserBlocks
  <1> QED BY <1>2, <1>4, <1>5

\* A descriptor is closed; the file may have been the last one for its inode.
LEMMA CloseBlocks ==
  ASSUME RInv, BInv, NEW p \in Procs, AtUser(p), NEW fd \in Fds, NEW f, f = proc[p].ofile[fd], f # 0, CloseFile(f),
         SetFd(p, fd, 0), NEW s, Free(Body(s)), ~Freeing(s), Begins(p, s), NEW l, loc' = [loc EXCEPT ![p] = l],
         UNCHANGED <<fs, lock>>
  PROVE  BInv'
  <1>1. f \in 1..NFILE /\ ftab[f].ip \in Inums
    BY OpenIp
  <1>2. ftab[f].ref \in Nat /\ ftab[f].ref # 0
    BY <1>1, DescNone, InumsInos
  <1>3. ftab[f].ref \in Nat \ {0}
    BY <1>2
  <1>4. /\ ftab[f].ref = 1 => ftab'[f].ip = 0
        /\ ftab[f].ref # 1 => ftab'[f].ip = ftab[f].ip
        /\ \A g \in 1..NFILE \ {f} : ftab'[g] = ftab[g]
    BY <1>1, <1>3, ClosedFile
  <1>5. \A g \in 1..NFILE : ftab'[g].ip \in {ftab[g].ip, 0}
    BY <1>4
  <1>6. 0 \in 0..NFILE
    BY FileSysAssumption
  <1>7. proc'[p].cwd = proc[p].cwd /\ \A q \in Procs \ {p} : proc'[q] = proc[q]
    BY <1>6, FdProc
  <1> QED BY <1>5, <1>7, FsStepSame, UserBlocks

\* The stack and the locals of a call that puts an inode and goes on.
LEMMA PutsBlocks ==
  ASSUME RInv, NEW p \in Procs, NEW b \in PutBodies, Free(b), NEW s, PutThen(s, b), NEW i, SetX(p, i)
  PROVE  Free(Body(s)) /\ ~Freeing(s) /\ \E l : loc' = [loc EXCEPT ![p] = l]
  <1>1. Body(s) = b /\ s # <<>> /\ Head(s) = "iput"
    BY PutStack DEF PutThen, PutLabels
  <1>2. loc \in [Procs -> Locs]
    BY DEF RInv, TypeInv
  <1>3. loc' = [loc EXCEPT ![p] = [loc[p] EXCEPT !.x = i]]
    BY <1>2 DEF SetX
  <1> QED BY <1>1, <1>3 DEF Freeing

\* close.
LEMMA SysCloseBlocks ==
  ASSUME RInv, BInv, NEW p \in Procs, SysClose(p)
  PROVE  BInv'
  <1>1. PICK f : f = File(p)
    OBVIOUS
  <1>2. /\ AtUser(p) /\ UNCHANGED <<fs, lock>>
        /\ \/ UNCHANGED <<ftab, proc>> /\ \E r : Answers(p, r)
           \/ /\ ~BadFd(p) /\ CloseFile(f) /\ SetFd(p, Op(p).fd, 0)
              /\ \/ SetX(p, ftab[f].ip) /\ \E r : Enters(p, <<"iput">>, r)
                 \/ \E r : Answers(p, r)
    BY <1>1, CallsFrom DEF SysClose, CloseFile, SetFd, SetX
  <1>3. CASE UNCHANGED <<ftab, proc>> /\ \E r : Answers(p, r)
    BY <1>2, <1>3, FsStepSame, FilesStay, SameKeep, AnswersBlocks
  <1>4. CASE ~BadFd(p) /\ CloseFile(f) /\ SetFd(p, Op(p).fd, 0)
    <2>1. PICK fd \in Fds : fd = Op(p).fd /\ f = proc[p].ofile[fd] /\ f # 0
      BY <1>1, <1>4 DEF BadFd, File
    <2>2. CASE SetX(p, ftab[f].ip) /\ \E r : Enters(p, <<"iput">>, r)
      <3>1. PICK b, s : b = <<"ret">> /\ s = <<"iput">> \o b
        OBVIOUS
      <3>2. Begins(p, s)
        BY <2>2, <3>1 DEF Enters, Begins
      <3>3. PutThen(s, b) /\ b \in PutBodies /\ Free(b)
        BY <3>1, Plains, FreeBodies DEF PutThen, Plain
      <3>4. Free(Body(s)) /\ ~Freeing(s) /\ \E l : loc' = [loc EXCEPT ![p] = l]
        BY <2>2, <3>3, PutsBlocks
      <3> QED BY <1>2, <1>4, <2>1, <3>2, <3>4, CloseBlocks
    <2>3. CASE \E r : Answers(p, r)
      <3>1. Begins(p, <<"ret">>) /\ loc' = [loc EXCEPT ![p] = loc[p]]
        BY <2>3, AnswersRet
      <3> QED BY <1>2, <1>4, <2>1, <3>1, RetStack, CloseBlocks
    <2> QED BY <1>1, <1>2, <1>4, <2>1, <2>2, <2>3 DEF BadFd, SysClose, CloseFile, SetFd, SetX
  <1> QED BY <1>2, <1>3, <1>4

\* exit closes a file, or puts the directory.
LEMMA ExitBlocks ==
  ASSUME RInv, BInv, NEW p \in Procs, Exit(p)
  PROVE  BInv'
  <1>1. PICK fd, f : fd = Min(Open(p)) /\ f = proc[p].ofile[fd]
    OBVIOUS
  <1>2. /\ AtUser(p) /\ UNCHANGED <<fs, lock>>
        /\ \/ /\ Open(p) # {} /\ CloseFile(f) /\ SetFd(p, fd, 0)
              /\ \/ SetX(p, ftab[f].ip) /\ Begins(p, <<"iput">>)
                 \/ UNCHANGED <<loc, pc>>
           \/ Open(p) = {} /\ SetX(p, proc[p].cwd) /\ Begins(p, <<"iput", "zombie">>) /\ UNCHANGED <<ftab, proc>>
    BY <1>1 DEF Exit, AtUser, CloseFile, SetFd, SetX, Begins
  <1>3. CASE Open(p) # {} /\ CloseFile(f) /\ SetFd(p, fd, 0)
    <2>1. fd \in Fds /\ f # 0
      <3>1. Open(p) \subseteq Nat
        BY FileSysAssumption DEF Open, Fds
      <3>2. fd \in Open(p)
        BY <1>1, <1>3, <3>1, MinIn
      <3> QED BY <1>1, <3>2 DEF Open
    <2>2. CASE SetX(p, ftab[f].ip) /\ Begins(p, <<"iput">>)
      <3>1. PICK b, s : b = <<>> /\ s = <<"iput">> \o b
        OBVIOUS
      <3>2. <<"iput">> \o <<>> = <<"iput">>
        OBVIOUS
      <3>3. Begins(p, s)
        BY <2>2, <3>1, <3>2
      <3>4. PutThen(s, b) /\ b \in PutBodies /\ Free(b)
        BY <3>1, Plains, FreeBodies DEF PutThen, Plain
      <3>5. Free(Body(s)) /\ ~Freeing(s) /\ \E l : loc' = [loc EXCEPT ![p] = l]
        BY <2>2, <3>4, PutsBlocks
      <3> QED BY <1>1, <1>2, <1>3, <2>1, <3>3, <3>5, CloseBlocks
    <2>3. CASE UNCHANGED <<loc, pc>>
      <3>1. Begins(p, <<>>) /\ loc' = [loc EXCEPT ![p] = loc[p]]
        BY <1>2, <2>3, UserHas DEF Begins, AtUser
      <3> QED BY <1>1, <1>2, <1>3, <2>1, <3>1, RetStack, CloseBlocks
    <2> QED BY <1>2, <1>3, <2>2, <2>3 DEF Exit
  <1>4. CASE SetX(p, proc[p].cwd) /\ Begins(p, <<"iput", "zombie">>) /\ UNCHANGED <<ftab, proc>>
    <2>1. PICK b, s : b = <<"zombie">> /\ s = <<"iput">> \o b
      OBVIOUS
    <2>2. Begins(p, s)
      BY <1>4, <2>1, Cat1
    <2>3. PutThen(s, b) /\ b \in PutBodies /\ Free(b)
      BY <2>1, Plains, FreeBodies DEF PutThen, Plain
    <2>4. Free(Body(s)) /\ ~Freeing(s) /\ \E l : loc' = [loc EXCEPT ![p] = l]
      BY <1>4, <2>3, PutsBlocks
    <2> QED BY <1>2, <1>4, <2>2, <2>4, FsStepSame, UserBlocks
  <1> QED BY <1>2, <1>3, <1>4

\* fork: the child gets a directory that its parent has.
LEMMA SysForkBlocks ==
  ASSUME RInv, BInv, NEW p \in Procs, SysFork(p), Up(fs')
  PROVE  BInv'
  <1>1. PICK unused, c : unused = {q \in Procs : proc[q].st = "unused"} /\ c = Min(unused)
    OBVIOUS
  <1>2. /\ AtUser(p) /\ UNCHANGED lock /\ \E r : Answers(p, r)
        /\ \/ UNCHANGED <<fs, ftab, proc>>
           \/ unused # {} /\ Child(p, c) /\ SharesFiles(p) /\ fs' = Iget(fs, proc[p].cwd)
    BY <1>1, CallsFrom DEF SysFork, Child, SharesFiles, FdsOf
  <1>3. CASE UNCHANGED <<fs, ftab, proc>>
    BY <1>2, <1>3, FsStepSame, FilesStay, SameKeep, AnswersBlocks
  <1>4. CASE unused # {} /\ Child(p, c) /\ SharesFiles(p) /\ fs' = Iget(fs, proc[p].cwd)
    <2>1. c \in Procs /\ c # p
      <3>1. unused \subseteq Nat
        BY <1>1, FileSysAssumption
      <3>2. c \in unused
        BY <1>1, <1>4, <3>1, MinIn
      <3> QED BY <1>1, <1>2, <3>2 DEF AtUser
    <2>2. FsStep(p)
      <3>1. proc[p].cwd \in Inums
        BY <1>2, UserHas
      <3> QED BY <1>4, <3>1, IgetFs
    <2>3. proc'[c].cwd = proc[p].cwd /\ \A q \in Procs \ {c} : proc'[q] = proc[q]
      BY <1>4, <2>1, ChildProc
    <2>4. \A q \in Procs \ {p} : proc'[q].cwd \in {proc[q].cwd, proc[p].cwd, 0}
      BY <2>3
    <2>5. \A g \in 1..NFILE : ftab'[g].ip = ftab[g].ip
      <3>1. SUFFICES ASSUME NEW g \in 1..NFILE PROVE ftab'[g].ip = ftab[g].ip
        OBVIOUS
      <3>2. PICK A : ftab \in [1..NFILE -> FileRec(A)]
        BY DEF RInv, TypeInv
      <3>3. PICK n : n = Cardinality(FdsOf(p, g))
        OBVIOUS
      <3>4. ftab'[g] = [ftab[g] EXCEPT !.ref = @ + n]
        BY <1>4, <3>3 DEF SharesFiles
      <3>5. ftab[g] \in FileRec(A)
        BY <3>2
      <3> QED BY <3>4, <3>5 DEF FileRec
    <2>6. Begins(p, <<"ret">>) /\ loc' = [loc EXCEPT ![p] = loc[p]]
      BY <1>2, AnswersRet
    <2>7. \A g \in 1..NFILE : ftab'[g].ip \in {ftab[g].ip, 0}
      BY <2>5
    <2> QED BY <1>2, <2>1, <2>2, <2>3, <2>4, <2>6, <2>7, RetStack, UserBlocks
  <1> QED BY <1>2, <1>3, <1>4

\* wait takes away a process that has no directory.
LEMMA SysWaitBlocks ==
  ASSUME RInv, BInv, NEW p \in Procs, SysWait(p)
  PROVE  BInv'
  <1>1. AtUser(p) /\ UNCHANGED <<fs, ftab, lock>> /\ FsStep(p)
    BY CallsFrom, FsStepSame DEF SysWait
  <1>2. \/ UNCHANGED proc /\ \E r : Answers(p, r)
        \/ \E c \in Procs : proc[c].st = "zombie" /\ proc' = [proc EXCEPT ![c] = NoProc] /\ \E r : Answers(p, r)
    BY DEF SysWait
  <1>3. CASE UNCHANGED proc /\ \E r : Answers(p, r)
    BY <1>1, <1>3, FilesStay, SameKeep, AnswersBlocks
  <1>4. ASSUME NEW c \in Procs, proc[c].st = "zombie", proc' = [proc EXCEPT ![c] = NoProc], NEW r, Answers(p, r)
        PROVE  BInv'
    <2>1. c # p
      BY <1>1, <1>4 DEF AtUser
    <2>2. proc \in [Procs -> ProcRec]
      BY DEF RInv, TypeInv
    <2>3. proc'[c] = NoProc /\ NoProc.cwd = 0 /\ \A q \in Procs \ {c} : proc'[q] = proc[q]
      BY <1>4, <2>2 DEF NoProc
    <2>4. \A q \in Procs \ {p} : proc'[q].cwd \in {proc[q].cwd, proc[p].cwd, 0}
      BY <2>3
    <2>5. Begins(p, <<"ret">>) /\ loc' = [loc EXCEPT ![p] = loc[p]]
      BY <1>4, AnswersRet
    <2> QED BY <1>1, <2>1, <2>3, <2>4, <2>5, RetStack, UserBlocks
  <1> QED BY <1>2, <1>3, <1>4

-----------------------------------------------------------------------------
(* Every step, and the theorem *)

\* The steps of iput and namex and the return.
LEMMA PutStepsBlocks ==
  ASSUME RInv, BInv, NEW p \in Procs, Up(fs'),
         \/ Iput(p) \/ IputFree(p) \/ IputFreed(p) \/ IputDrop(p)
         \/ Namex(p) \/ NamexEnd(p) \/ NamexElem(p) \/ Return(p)
  PROVE  BInv'
  BY IputBlocks, IputFreeBlocks, IputFreedBlocks, IputDropBlocks, NamexBlocks, NamexEndBlocks, NamexElemBlocks, ReturnBlocks

\* The steps of link and unlink.
LEMMA LinkStepsBlocks ==
  ASSUME RInv, BInv, NEW p \in Procs, Up(fs'),
         \/ SysLink(p) \/ LinkCount(p) \/ LinkEntry(p) \/ LinkFail(p) \/ LinkUndo(p) \/ LinkDone(p)
         \/ SysUnlink(p) \/ UnlinkFind(p) \/ UnlinkClear(p) \/ UnlinkBad(p) \/ UnlinkCount(p)
  PROVE  BInv'
  BY LooksBlocks, LinkCountBlocks, LinkEntryBlocks, LinkFailBlocks, LinkUndoBlocks, LinkDoneBlocks,
     UnlinkFindBlocks, UnlinkClearBlocks, UnlinkBadBlocks, UnlinkCountBlocks

\* The steps of create, open, mkdir, mknod and chdir.
LEMMA CreateStepsBlocks ==
  ASSUME RInv, BInv, NEW p \in Procs, Up(fs'),
         \/ CreateFind(p) \/ CreateOld(p) \/ CreateNew(p)
         \/ SysOpen(p) \/ OpenLock(p) \/ OpenFd(p) \/ OpenSet(p)
         \/ SysMake(p) \/ Made(p) \/ SysChdir(p) \/ ChdirCheck(p) \/ ChdirDone(p)
  PROVE  BInv'
  BY CreateFindBlocks, CreateOldBlocks, CreateNewBlocks, LooksBlocks, OpenLockBlocks, OpenFdBlocks, OpenSetBlocks,
     MadeBlocks, ChdirCheckBlocks, ChdirDoneBlocks

\* The steps of the calls on files and processes.
LEMMA FileStepsBlocks ==
  ASSUME RInv, BInv, NEW p \in Procs, Up(fs'),
         \/ SysRead(p) \/ SysWrite(p) \/ WriteChunk(p) \/ SysClose(p) \/ SysDup(p) \/ SysFstat(p)
         \/ SysFork(p) \/ Exit(p) \/ ExitDone(p) \/ SysWait(p)
  PROVE  BInv'
  BY SysReadBlocks, SysWriteBlocks, WriteChunkBlocks, SysCloseBlocks, SysDupBlocks, SysFstatBlocks,
     SysForkBlocks, ExitBlocks, ExitDoneBlocks, SysWaitBlocks

\* The two invariants together; the second one speaks of a kernel that has not panicked.
Accountable == Good /\ (Up(fs) => BInv)

\* Every step keeps them.
LEMMA NextAccountable ==
  ASSUME Accountable, [Next]_vars
  PROVE  Accountable'
  <1>1. Good'
    BY NextGood DEF Accountable
  <1>2. SUFFICES ASSUME Up(fs') PROVE BInv'
    BY <1>1 DEF Accountable, Up
  <1>3. CASE UNCHANGED vars
    <2>1. UNCHANGED <<fs, lock, ftab, proc, pc, loc>>
      BY <1>3 DEF vars
    <2>2. BInv
      BY <1>2, <2>1 DEF Accountable, Up
    <2>3. LockType' /\ Accounted(fs')
      BY <2>1, <2>2 DEF BInv, LockType
    <2>4. \A i : Stale(i)' <=> Stale(i)
      BY <2>1 DEF Stale
    <2>5. \A i : Pinned(i)' <=> Pinned(i)
      BY <2>1 DEF Pinned
    <2>6. CacheOK' /\ PinsOK'
      BY <2>1, <2>2, <2>4, <2>5 DEF BInv, CacheOK, PinsOK
    <2>7. \A p \in Procs : ClaimsOK(p)' /\ FreeOK(p)'
      BY <2>1, <2>2, <2>5 DEF BInv, ClaimsOK, FreeOK
    <2> QED BY <2>3, <2>6, <2>7 DEF BInv
  <1>4. ASSUME NEW p \in Procs, Steps(p) PROVE BInv'
    <2>1. RInv /\ BInv
      BY <1>4, StepsUp DEF Accountable, Good
    <2> QED BY <1>2, <1>4, <2>1, PutStepsBlocks, LinkStepsBlocks, CreateStepsBlocks, FileStepsBlocks DEF Steps
  <1> QED BY <1>3, <1>4 DEF Next, Idle

\* The initial states: nothing is cached or locked, and the root directory is allocated.
LEMMA InitAccountable ==
  ASSUME Init
  PROVE  Accountable
  <1>1. PICK s, N : s = Mkfs(Files) /\ Sound(s, N) /\ Named(N) /\ Fresh(s)
    BY ImageFresh
  <1>2. ROOTINO \in Inums /\ Up(fs)
    BY <1>1, RootGot DEF Init
  <1>3. \A j \in Inums : s.mem[j].ref = 0 /\ ~s.mem[j].valid
    BY <1>1 DEF Fresh, FreshMem
  <1>4. fs = Iget(s, ROOTINO)
    BY <1>1 DEF Init
  <1>5. /\ fs.disk = s.disk /\ fs.used = s.used /\ \A j \in Inums \ {ROOTINO} : fs.mem[j] = s.mem[j]
        /\ \/ s.mem[ROOTINO].ref > 0
           \/ s.mem[ROOTINO].ref = 0 /\ ~fs.mem[ROOTINO].valid
    BY <1>1, <1>2, <1>4, IgetParts
  <1>6. \A j \in Inums : ~fs.mem[j].valid
    BY <1>2, <1>3, <1>5
  <1>7. Accounted(fs) /\ fs.disk[ROOTINO].type # "none"
    BY <1>1, <1>5, ImageAssumption, AccountedBooks
  <1>8. LockType
    BY DEF Init, LockType
  <1>9. 0 \notin Inums
    BY InumsInos
  <1>10. Free(<<>>) /\ Body(<<>>) = <<>> /\ ~Freeing(<<>>)
    BY FreeBodies, CwdForms, OnlyCwdHas DEF Freeing
  <1>11. \A q \in Procs : pc[q] = <<>>
    BY DEF Init
  <1>12. \A q \in Procs : proc[q].cwd \in {ROOTINO, 0}
    <2>1. NoProc.cwd = 0 /\ [NoProc EXCEPT !.st = "run", !.cwd = ROOTINO].cwd = ROOTINO
      BY DEF NoProc
    <2> QED BY <2>1 DEF Init
  <1>13. \A f \in 1..NFILE : ftab[f].ip = 0
    BY DEF Init, NoFile
  <1>14. PinsOK
    <2>1. SUFFICES ASSUME NEW i \in Inums, Pinned(i) PROVE i = ROOTINO
      BY <1>7 DEF PinsOK
    <2>2. PICK q \in Procs : Pins(pc[q], loc[q], proc[q].cwd, i)
      BY <1>9, <1>13, <2>1 DEF Pinned
    <2>3. proc[q].cwd = i
      BY <1>10, <1>11, <2>2 DEF Pins, HoldsCwd, Free
    <2> QED BY <1>9, <1>12, <2>3
  <1>15. \A q \in Procs : ClaimsOK(q) /\ FreeOK(q)
    BY <1>10, <1>11 DEF ClaimsOK, FreeOK, Claims, BodyClaims, Free
  <1>16. CacheOK
    BY <1>6 DEF CacheOK
  <1> QED BY <1>7, <1>8, <1>14, <1>15, <1>16, InitGood DEF Accountable, BInv

\* An inode with a holder is pinned.
LEMMA AccountableBlocks ==
  ASSUME Accountable
  PROVE  BlocksExact
  <1>1. SUFFICES ASSUME Up(fs), NEW i \in Inums, Holders(i) > 0 PROVE Pinned(i)
    BY DEF Accountable, BInv, PinsOK, BlocksExact
  <1>2. RInv
    BY <1>1 DEF Accountable, Good
  <1>3. PICK S, T : S = {p \in Procs : proc[p].cwd = i /\ ~Leaving(p)} /\ T = {f \in 1..NFILE : ftab[f].ip = i}
    OBVIOUS
  <1>4. S # {} \/ T # {}
    <2>1. SUFFICES ASSUME S = {}, T = {} PROVE FALSE
      OBVIOUS
    <2>2. Cardinality(S) = 0 /\ Cardinality(T) = 0
      BY <2>1, FS_EmptySet
    <2> QED BY <1>1, <1>3, <2>2 DEF Holders
  <1>5. CASE T # {}
    BY <1>3, <1>5 DEF Pinned
  <1>6. CASE S # {}
    <2>1. PICK q \in Procs : proc[q].cwd = i /\ ~Leaving(q)
      BY <1>3, <1>6
    <2>2. Lab(Body(pc[q])) \notin LeftLabels
      BY <1>2, <2>1, LeftLeaving DEF RInv, TypeInv
    <2> QED BY <2>1, <2>2, PinnedNow
  <1> QED BY <1>4, <1>5, <1>6

\* As long as the kernel has not panicked the bitmap marks exactly the blocks of allocated
\* inodes, no block belongs to two of them, and an inode that is open or somebody's directory
\* is not freed (fs.c: bmap's balloc, itrunc in iput, ilock and iupdate by concurrent
\* callers), for any number of processes, any script and any image that is accounted for.
THEOREM SpecBlocksExact == Spec => []BlocksExact
  <1>1. Init => Accountable
    BY InitAccountable
  <1>2. Accountable /\ [Next]_vars => Accountable'
    BY NextAccountable
  <1>3. Accountable => BlocksExact
    BY AccountableBlocks
  <1> QED BY <1>1, <1>2, <1>3, PTL DEF Spec

=============================================================================
