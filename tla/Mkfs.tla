------------------------------- MODULE Mkfs --------------------------------
(***************************************************************************)
(* mkfs.c: the image that the kernel starts from.  Blocks are handed out   *)
(* in order, so freeblock is the only state of the allocator until balloc  *)
(* writes the bitmap.                                                      *)
(***************************************************************************)
EXTENDS Inode

\* ialloc: the next inode, with one link.
MkIalloc(m, type) ==
  [m EXCEPT !.disk[m.freeinode] = [FreeInode EXCEPT !.type = type, !.nlink = 1], !.freeinode = @ + 1]

\* One turn of iappend's loop, for one unit.
Iappend(m, i, u) ==
  LET d   == m.disk[i]
      fbn == d.size \div BSIZE
      ind == IF fbn >= NDIRECT /\ d.ind = 0 THEN 1 ELSE 0
      new == IF d.addrs[fbn] = 0 THEN 1 ELSE 0
      b   == IF new = 1 THEN m.freeblock + ind ELSE d.addrs[fbn]
  IN [m EXCEPT !.freeblock = @ + ind + new,
               !.blk[b][d.size % BSIZE] = u,
               !.disk[i] = [@ EXCEPT !.ind = IF ind = 1 THEN m.freeblock ELSE @,
                                     !.addrs[fbn] = b, !.size = @ + 1]]

\* One file of the command line: its inode, its entry, its data.
AddFile(m, f) ==
  LET i  == m.freeinode
      m1 == Iappend(MkIalloc(m, "file"), ROOTINO, Unit(f.name, i))
      Copy(t, u) == Iappend(t, i, u)
  IN FoldLeft(Copy, m1, f.data)

\* main: the root directory, the files, the root's size rounded up, the bitmap.
Mkfs(files) ==
  LET blank == [disk |-> [i \in Inums |-> FreeInode], freeinode |-> ROOTINO, freeblock |-> 1,
                blk |-> [b \in Blocks |-> [k \in 0..(BSIZE - 1) |-> Zero]]]
      root  == MkIalloc(blank, "dir")
      dots  == Iappend(Iappend(root, ROOTINO, Unit(".", ROOTINO)), ROOTINO, Unit("..", ROOTINO))
      m     == FoldLeft(AddFile, dots, files)
  IN [disk  |-> [m.disk EXCEPT ![ROOTINO].size = (@ \div BSIZE + 1) * BSIZE],
      mem   |-> [i \in Inums |-> [ref |-> 0, valid |-> FALSE, d |-> FreeInode]],
      blk   |-> m.blk,
      used  |-> 1..(m.freeblock - 1),
      panic |-> ""]
=============================================================================
