------------------------------ MODULE FileSys ------------------------------
(***************************************************************************)
(* The file system calls of sysfile.c, with namex, iput and ilock of fs.c  *)
(* and the open files of file.c, by processes that run scripts of calls.   *)
(*                                                                         *)
(* A step ends where another process can get in between: when an inode's   *)
(* sleep-lock is let go or waited for, and between the check and the       *)
(* decrement of iput.  A lock taken and released within one step is only   *)
(* a condition that it is free.  Transactions are the subject of Log:      *)
(* begin_op and end_op exclude nobody and are left out.                    *)
(*                                                                         *)
(* Every process has a stack pc of the pieces of kernel code that it has   *)
(* still to run, and the locals loc and arg of its call.                   *)
(***************************************************************************)
EXTENDS Mkfs, Paths, TLC

CONSTANTS Procs, First,     \* processes, numbered from 1
          NFILE, NOFILE,
          MAXWRITE,         \* the units that filewrite puts into one transaction
          Files,            \* the files of the image
          Tests             \* the scripts that the first process may run

ASSUME FileSysAssumption ==
  /\ Procs \subseteq Nat \ {0} /\ First \in Procs /\ IsFiniteSet(Procs)
  /\ NFILE \in Nat /\ NOFILE \in Nat /\ MAXWRITE \in Nat \ {0}

\* The kernel starts from an image that fits on its disk.
ImageNames == {"", "none", "file", "dir", ".", ".."} \cup UNION {{f.name} \cup {u.n : u \in Range(f.data)} : f \in Range(Files)}
ASSUME ImageAssumption ==
  Sound(Mkfs(Files), ImageNames) /\ Accounted(Mkfs(Files)) /\ Mkfs(Files).disk[ROOTINO].type # "none"

VARIABLES fs,      \* disk, inode cache, blocks and bitmap
          lock,    \* the process that holds an inode's sleep-lock, or 0
          ftab,    \* ftable
          proc,    \* state, parent, cwd and ofile
          path,    \* the textual current path of a process
          text,    \* the strings of a process's program that setpath has overwritten
          todo,    \* the calls that a process has still to make
          pc,
          loc,     \* the inodes, the file and the progress of a call
          arg,     \* its path and its result
          failed   \* the calls whose result their program did not expect

vars  == <<fs, lock, ftab, proc, path, text, todo, pc, loc, arg, failed>>
world == <<ftab, proc, path, text, todo, failed>>

Fds     == 0..(NOFILE - 1)
NoFile  == [ref |-> 0, type |-> "none", ip |-> 0, off |-> 0, rd |-> FALSE, wr |-> FALSE]
NoLocs  == [ip |-> 0, x |-> 0, dp |-> 0, old |-> 0, off |-> 0, f |-> 0, done |-> 0]
NoArgs  == [path |-> Rel(<<>>), rest |-> <<>>, par |-> FALSE, name |-> "", type |-> "file", ret |-> 0, buf |-> <<>>]
NoProc  == [st |-> "unused", parent |-> 0, cwd |-> 0, ofile |-> [fd \in Fds |-> 0]]

Init ==
  /\ fs = Iget(Mkfs(Files), ROOTINO)
  /\ lock = [i \in Inums |-> 0]
  /\ ftab = [f \in 1..NFILE |-> NoFile]
  /\ proc = [p \in Procs |-> IF p = First THEN [NoProc EXCEPT !.st = "run", !.cwd = ROOTINO] ELSE NoProc]
  /\ path = [p \in Procs |-> <<>>] /\ text = [p \in Procs |-> <<>>]
  /\ \E t \in Tests : todo = [p \in Procs |-> IF p = First THEN t ELSE <<>>]
  /\ pc = [p \in Procs |-> <<>>]
  /\ loc = [p \in Procs |-> NoLocs]
  /\ arg = [p \in Procs |-> NoArgs]
  /\ failed = {}

Up(s)          == s.panic = ""
At(p, label)   == Up(fs) /\ pc[p] # <<>> /\ Head(pc[p]) = label
Goto(p, more)  == pc' = [pc EXCEPT ![p] = more \o Tail(@)]
Set(p, r)      == arg' = [arg EXCEPT ![p] = r @@ @]
Unlocked(i)    == lock[i] = 0
Locks(p, i)    == lock' = [lock EXCEPT ![i] = p]
Unlocks(i)     == lock' = [lock EXCEPT ![i] = 0]
Op(p)          == Head(todo[p])
\* What a string of p's program says by now; equal strings are one.
Text(p, str)   == IF str \in DOMAIN text[p] THEN text[p][str] ELSE str
Type(s, i)     == s.mem[i].d.type

\* iput(i) comes next, and then more.
Put(p, i, more) == loc' = [loc EXCEPT ![p].x = i] /\ Goto(p, <<"iput">> \o more)
\* iput(ip) comes next, and ip becomes another inode, or none.
PutIp(p, next, more) == loc' = [loc EXCEPT ![p].x = loc[p].ip, ![p].ip = next] /\ Goto(p, <<"iput">> \o more)
-----------------------------------------------------------------------------
(* iput and namex *)

\* iput with the lock: it frees an inode that has no links and no other reference.
Iput(p) ==
  LET i == loc[p].x
      m == fs.mem[i]
  IN /\ At(p, "iput") /\ Unlocked(i)
     /\ IF m.valid /\ m.d.nlink = 0 /\ m.ref = 1
        THEN Locks(p, i) /\ Goto(p, <<"ifree">>)
        ELSE UNCHANGED lock /\ Goto(p, <<"idrop">>)
     /\ UNCHANGED <<fs, loc, arg, world>>

\* The freed inode is on the disk while its cached copy is still valid and locked.
IputFree(p) ==
  /\ At(p, "ifree")
  /\ fs' = Freed(fs, loc[p].x)
  /\ Goto(p, <<"ifreed">>)
  /\ UNCHANGED <<lock, loc, arg, world>>

IputFreed(p) ==
  /\ At(p, "ifreed")
  /\ fs' = [fs EXCEPT !.mem[loc[p].x].valid = FALSE]
  /\ Unlocks(loc[p].x)
  /\ Goto(p, <<"idrop">>)
  /\ UNCHANGED <<loc, arg, world>>

IputDrop(p) ==
  /\ At(p, "idrop")
  /\ fs' = [fs EXCEPT !.mem[loc[p].x].ref = @ - 1]
  /\ Goto(p, <<>>)
  /\ UNCHANGED <<lock, loc, arg, world>>

\* namex starts at the root or at the current directory.
Namex(p) ==
  LET ip == IF arg[p].path.abs THEN ROOTINO ELSE proc[p].cwd
  IN /\ At(p, "namex")
     /\ fs' = Iget(fs, ip)
     /\ loc' = [loc EXCEPT ![p].ip = ip]
     /\ Set(p, [rest |-> arg[p].path.elems])
     /\ Goto(p, <<"elem">>)
     /\ UNCHANGED <<lock, world>>

\* The end of the path; a path without elements has no parent.
NamexEnd(p) ==
  /\ At(p, "elem") /\ arg[p].rest = <<>>
  /\ IF arg[p].par THEN PutIp(p, 0, <<>>) ELSE Goto(p, <<>>) /\ UNCHANGED loc
  /\ UNCHANGED <<fs, lock, arg, world>>

\* One element, under the lock of the directory that it is looked up in.
NamexElem(p) ==
  LET ip   == loc[p].ip
      rest == arg[p].rest
      name == SkipElem(Head(rest))
      s    == Load(fs, ip)
      next == Lookup(s, ip, name)
  IN /\ At(p, "elem") /\ rest # <<>> /\ Unlocked(ip)
     /\ IF ~Up(s) THEN fs' = s /\ UNCHANGED <<pc, loc, arg>>
        ELSE IF Type(s, ip) # "dir" THEN fs' = s /\ PutIp(p, 0, <<>>) /\ UNCHANGED arg
        ELSE IF arg[p].par /\ Len(rest) = 1 THEN fs' = s /\ Set(p, [name |-> name]) /\ Goto(p, <<>>) /\ UNCHANGED loc
        ELSE IF next = 0 THEN fs' = s /\ PutIp(p, 0, <<>>) /\ UNCHANGED arg
        ELSE fs' = Iget(s, next) /\ PutIp(p, next, <<"elem">>) /\ Set(p, [rest |-> Tail(rest)])
     /\ UNCHANGED <<lock, world>>

\* A call is over; its program compares the result with what it expects.
Return(p) ==
  LET op == Op(p)
      buf == arg[p].buf
      ok == /\ arg[p].ret \in op.want
            /\ op.bufs = {} \/ buf \in op.bufs
            /\ \A n \in op.once : Cardinality({k \in DOMAIN buf : buf[k].n = n /\ buf[k].i # 0}) = 1
  IN /\ At(p, "ret")
     /\ failed' = IF ok THEN failed ELSE failed \cup {<<p, op.call>>}
     /\ todo' = [todo EXCEPT ![p] = Tail(@)]
     /\ pc' = [pc EXCEPT ![p] = <<>>]
     /\ loc' = [loc EXCEPT ![p] = NoLocs]
     /\ arg' = [arg EXCEPT ![p] = NoArgs]
     /\ UNCHANGED <<fs, lock, ftab, proc, path, text>>

\* The call that the process makes next.
Calls(p, call) ==
  /\ Up(fs) /\ proc[p].st = "run" /\ pc[p] = <<>> /\ todo[p] # <<>>
  /\ Op(p).call = call
Enters(p, labels, r) ==
  /\ pc' = [pc EXCEPT ![p] = labels \o <<"ret">>]
  /\ Set(p, r)
Answers(p, r) == Enters(p, <<>>, r) /\ UNCHANGED loc
Fails(p) == Set(p, [ret |-> -1]) /\ Goto(p, <<>>) /\ UNCHANGED loc
-----------------------------------------------------------------------------
(* link and unlink *)

SysLink(p) ==
  /\ Calls(p, "link")
  /\ Enters(p, <<"namex", "link1">>, [path |-> Text(p, Op(p).path)])
  /\ UNCHANGED <<fs, lock, loc, world>>

\* The count goes up before the entry is written, and the inode is unlocked meanwhile.
LinkCount(p) ==
  LET ip == loc[p].ip
      s  == Load(fs, ip)
  IN /\ At(p, "link1")
     /\ \/ ip = 0 /\ Fails(p) /\ UNCHANGED fs
        \/ /\ ip # 0 /\ Unlocked(ip)
           /\ IF Type(s, ip) = "dir" THEN fs' = s /\ Put(p, ip, <<>>) /\ Set(p, [ret |-> -1])
              ELSE /\ fs' = AddLinks(s, ip, 1)
                   /\ loc' = [loc EXCEPT ![p].old = ip]
                   /\ Set(p, [path |-> Text(p, Op(p).path2), par |-> TRUE])
                   /\ Goto(p, <<"namex", "link2">>)
     /\ UNCHANGED <<lock, world>>

\* dirlink with the directory locked; for a name that exists it puts the inode it
\* found before it gives up.
LinkEntry(p) ==
  LET ip    == loc[p].ip
      s     == Load(fs, ip)
      found == Lookup(s, ip, arg[p].name)
  IN /\ At(p, "link2")
     /\ \/ ip = 0 /\ Goto(p, <<"linkbad">>) /\ UNCHANGED <<fs, lock, loc>>
        \/ /\ ip # 0 /\ Unlocked(ip)
           /\ IF found # 0
              THEN fs' = Iget(s, found) /\ Locks(p, ip) /\ Put(p, found, <<"linkfail">>)
              ELSE fs' = Dirlink(s, ip, arg[p].name, loc[p].old) /\ UNCHANGED lock /\ Put(p, ip, <<"link3">>)
     /\ UNCHANGED <<arg, world>>

LinkFail(p) ==
  /\ At(p, "linkfail")
  /\ Unlocks(loc[p].ip)
  /\ Put(p, loc[p].ip, <<"linkbad">>)
  /\ UNCHANGED <<fs, arg, world>>

LinkNotUndone(p) ==
  LET old == loc[p].old
  IN /\ At(p, "linkbad") /\ Unlocked(old)
     /\ UNCHANGED fs
     /\ Put(p, old, <<>>) /\ Set(p, [ret |-> -1])
     /\ UNCHANGED <<lock, world>>

LinkUndo(p) ==
  LET old == loc[p].old
  IN /\ At(p, "linkbad") /\ Unlocked(old)
     /\ fs' = AddLinks(Load(fs, old), old, -1)
     /\ Put(p, old, <<>>) /\ Set(p, [ret |-> -1])
     /\ UNCHANGED <<lock, world>>

LinkDone(p) ==
  /\ At(p, "link3")
  /\ Put(p, loc[p].old, <<>>) /\ Set(p, [ret |-> 0])
  /\ UNCHANGED <<fs, lock, world>>

SysUnlink(p) ==
  /\ Calls(p, "unlink")
  /\ Enters(p, <<"namex", "unlink1">>, [path |-> Text(p, Op(p).path), par |-> TRUE])
  /\ UNCHANGED <<fs, lock, loc, world>>

UnlinkFind(p) ==
  LET dp == loc[p].ip
      s  == Load(fs, dp)
      ip == Lookup(s, dp, arg[p].name)
  IN /\ At(p, "unlink1")
     /\ \/ dp = 0 /\ Fails(p) /\ UNCHANGED <<fs, lock>>
        \/ /\ dp # 0 /\ Unlocked(dp)
           /\ IF arg[p].name \in {".", ".."} \/ ip = 0
              THEN fs' = s /\ UNCHANGED lock /\ Put(p, dp, <<>>) /\ Set(p, [ret |-> -1])
              ELSE /\ fs' = Iget(s, ip) /\ Locks(p, dp) /\ UNCHANGED arg
                   /\ loc' = [loc EXCEPT ![p].dp = dp, ![p].ip = ip, ![p].off = Offset(s, dp, arg[p].name)]
                   /\ Goto(p, <<"unlink2">>)
     /\ UNCHANGED world

\* With both locks: the entry is cleared, and the directory's lock is let go before the
\* count of the inode goes down.
UnlinkClear(p) ==
  LET ip == loc[p].ip
      dp == loc[p].dp
      s  == Load(fs, ip)
      isDir == Type(s, ip) = "dir"
      off == loc[p].off
      cleared == IF WriteFits(s, dp, off, 1) THEN Writei(s, dp, off, <<Zero>>) ELSE Panic(s, "unlink: writei")
  IN /\ At(p, "unlink2") /\ Unlocked(ip)
     /\ IF ~Up(s) \/ s.mem[ip].d.nlink < 1
        THEN fs' = Panic(s, "unlink: nlink < 1") /\ UNCHANGED <<lock, pc, loc>>
        ELSE IF isDir /\ ~IsDirEmpty(s, ip)
        THEN fs' = s /\ UNCHANGED lock /\ Put(p, ip, <<"unlinkbad">>)
        ELSE /\ fs' = IF isDir THEN AddLinks(cleared, dp, -1) ELSE cleared
             /\ lock' = [lock EXCEPT ![ip] = p, ![dp] = 0]
             /\ Put(p, dp, <<"unlink3">>)
     /\ UNCHANGED <<arg, world>>

UnlinkBad(p) ==
  /\ At(p, "unlinkbad")
  /\ Unlocks(loc[p].dp)
  /\ Put(p, loc[p].dp, <<>>) /\ Set(p, [ret |-> -1])
  /\ UNCHANGED <<fs, world>>

UnlinkCount(p) ==
  /\ At(p, "unlink3")
  /\ fs' = AddLinks(fs, loc[p].ip, -1)
  /\ Unlocks(loc[p].ip)
  /\ Put(p, loc[p].ip, <<>>) /\ Set(p, [ret |-> 0])
  /\ UNCHANGED world
-----------------------------------------------------------------------------
(* create, open, mkdir, mknod, chdir *)

\* A name that exists is locked after the directory has been let go; for a new one an
\* inode is allocated with the directory locked.
CreateFind(p) ==
  LET dp == loc[p].ip
      s  == Load(fs, dp)
      found == Lookup(s, dp, arg[p].name)
  IN /\ At(p, "create")
     /\ \/ dp = 0 /\ Goto(p, <<>>) /\ UNCHANGED <<fs, lock, loc>>
        \/ /\ dp # 0 /\ Unlocked(dp)
           /\ CASE found # 0 -> fs' = Iget(s, found) /\ UNCHANGED lock /\ PutIp(p, found, <<"create2">>)
                [] found = 0 /\ NoInodes(s) ->
                     fs' = Panic(s, "ialloc: no inodes") /\ UNCHANGED <<lock, pc, loc>>
                [] OTHER -> /\ fs' = Allocated(s, arg[p].type) /\ Locks(p, dp)
                            /\ loc' = [loc EXCEPT ![p].dp = dp, ![p].ip = Ialloc(s)] /\ Goto(p, <<"create3">>)
     /\ UNCHANGED <<arg, world>>

\* An existing file is returned locked; anything else is refused.
CreateOld(p) ==
  LET ip == loc[p].ip
      s  == Load(fs, ip)
  IN /\ At(p, "create2") /\ Unlocked(ip)
     /\ fs' = s
     /\ IF arg[p].type = "file" /\ Type(s, ip) = "file"
        THEN Locks(p, ip) /\ Goto(p, <<>>) /\ UNCHANGED loc
        ELSE UNCHANGED lock /\ PutIp(p, 0, <<>>)
     /\ UNCHANGED <<arg, world>>

\* The new inode gets its link, a directory its dots and its parent one more link, and
\* last the name is entered.
CreateNew(p) ==
  LET ip == loc[p].ip
      dp == loc[p].dp
      s0 == Load(fs, ip)
      s1 == Iupdate([s0 EXCEPT !.mem[ip].d.nlink = 1], ip)
      s2 == IF arg[p].type = "dir"
            THEN Dirlink(Dirlink(AddLinks(s1, dp, 1), ip, ".", ip), ip, "..", dp)
            ELSE s1
  IN /\ At(p, "create3") /\ Unlocked(ip)
     /\ fs' = IF ~Up(s0) THEN s0 ELSE Dirlink(s2, dp, arg[p].name, ip)
     /\ lock' = [lock EXCEPT ![ip] = p, ![dp] = 0]
     /\ Put(p, dp, <<>>)
     /\ UNCHANGED <<arg, world>>

SysOpen(p) ==
  /\ Calls(p, "open")
  /\ IF Op(p).create
     THEN Enters(p, <<"namex", "create", "openfd">>, [path |-> Text(p, Op(p).path), par |-> TRUE])
     ELSE Enters(p, <<"namex", "openlock">>, [path |-> Text(p, Op(p).path)])
  /\ UNCHANGED <<fs, lock, loc, world>>

\* A directory can only be opened for reading.
OpenLockLeaks(p) ==
  LET ip == loc[p].ip
      s  == Load(fs, ip)
  IN /\ At(p, "openlock")
     /\ \/ ip = 0 /\ Fails(p) /\ UNCHANGED <<fs, lock>>
        \/ /\ ip # 0 /\ Unlocked(ip) /\ fs' = s
           /\ IF Up(s) /\ Type(s, ip) = "dir" /\ (Op(p).wr \/ ~Op(p).rd)
              THEN UNCHANGED lock /\ Fails(p)
              ELSE Locks(p, ip) /\ Goto(p, <<"openfd">>) /\ UNCHANGED <<loc, arg>>
     /\ UNCHANGED world

OpenLock(p) ==
  LET ip == loc[p].ip
      s  == Load(fs, ip)
  IN /\ At(p, "openlock")
     /\ \/ ip = 0 /\ Fails(p) /\ UNCHANGED <<fs, lock>>
        \/ /\ ip # 0 /\ Unlocked(ip) /\ fs' = s
           /\ IF Up(s) /\ Type(s, ip) = "dir" /\ (Op(p).wr \/ ~Op(p).rd)
              THEN UNCHANGED lock /\ Put(p, ip, <<>>) /\ Set(p, [ret |-> -1])
              ELSE Locks(p, ip) /\ Goto(p, <<"openfd">>) /\ UNCHANGED <<loc, arg>>
     /\ UNCHANGED world

FreeFiles == {f \in 1..NFILE : ftab[f].ref = 0}
FreeFds(p) == {fd \in Fds : proc[p].ofile[fd] = 0}

\* filealloc and fdalloc, with the inode locked.
OpenFd(p) ==
  LET ip == loc[p].ip
      f  == Min(FreeFiles)
      fd == Min(FreeFds(p))
  IN /\ At(p, "openfd")
     /\ \/ ip = 0 /\ Fails(p) /\ UNCHANGED <<lock, ftab, proc>>
        \/ /\ ip # 0 /\ Unlocks(ip)
           /\ IF FreeFiles = {} \/ FreeFds(p) = {}
              THEN Put(p, ip, <<>>) /\ Set(p, [ret |-> -1]) /\ UNCHANGED <<ftab, proc>>
              ELSE /\ ftab' = [ftab EXCEPT ![f].ref = 1]
                   /\ proc' = [proc EXCEPT ![p].ofile[fd] = f]
                   /\ loc' = [loc EXCEPT ![p].f = f]
                   /\ Set(p, [ret |-> fd]) /\ Goto(p, <<"openset">>)
     /\ UNCHANGED <<fs, path, text, todo, failed>>

\* The struct file is filled in after the transaction.
OpenSet(p) ==
  /\ At(p, "openset")
  /\ ftab' = [ftab EXCEPT ![loc[p].f] = [ref |-> @.ref, type |-> "inode", ip |-> loc[p].ip, off |-> 0,
                                         rd |-> Op(p).rd, wr |-> Op(p).wr]]
  /\ Goto(p, <<>>)
  /\ UNCHANGED <<fs, lock, proc, path, text, todo, loc, arg, failed>>

\* mkdir and mknod: create, and put what it returns.
SysMake(p) ==
  /\ \E call \in {"mkdir", "mknod"} :
       /\ Calls(p, call)
       /\ Enters(p, <<"namex", "create", "made">>,
                 [path |-> Text(p, Op(p).path), par |-> TRUE, type |-> IF call = "mkdir" THEN "dir" ELSE "dev"])
  /\ UNCHANGED <<fs, lock, loc, world>>

Made(p) ==
  LET ip == loc[p].ip
  IN /\ At(p, "made")
     /\ \/ ip = 0 /\ Fails(p) /\ UNCHANGED lock
        \/ ip # 0 /\ Unlocks(ip) /\ Put(p, ip, <<>>) /\ Set(p, [ret |-> 0])
     /\ UNCHANGED <<fs, world>>

\* chdir: setpath stores the new textual path, and writes it over the caller's string for
\* good, before anything is looked up.  The bytes that it reads as the root of the host
\* (container -1) are an empty string, so it never refuses.
SysChdir(p) ==
  LET str == Op(p).path
      old == Text(p, str)
      new == Rewritten(path[p], old)
  IN /\ Calls(p, "chdir")
     /\ path' = [path EXCEPT ![p] = IF Unmoved(old) THEN @ ELSE NewPath(@, old)]
     /\ text' = [text EXCEPT ![p] = (str :> new) @@ @]
     /\ Enters(p, <<"namex", "chdir1">>, [path |-> new])
     /\ UNCHANGED <<fs, lock, ftab, proc, todo, loc, failed>>

ChdirCheck(p) ==
  LET ip == loc[p].ip
      s  == Load(fs, ip)
  IN /\ At(p, "chdir1")
     /\ \/ ip = 0 /\ Fails(p) /\ UNCHANGED fs
        \/ /\ ip # 0 /\ Unlocked(ip) /\ fs' = s
           /\ IF Type(s, ip) # "dir" THEN Put(p, ip, <<>>) /\ Set(p, [ret |-> -1])
              ELSE Put(p, proc[p].cwd, <<"chdir2">>) /\ UNCHANGED arg
     /\ UNCHANGED <<lock, world>>

ChdirDone(p) ==
  /\ At(p, "chdir2")
  /\ proc' = [proc EXCEPT ![p].cwd = loc[p].ip]
  /\ Set(p, [ret |-> 0]) /\ Goto(p, <<>>)
  /\ UNCHANGED <<fs, lock, ftab, path, text, todo, loc, failed>>
-----------------------------------------------------------------------------
(* Open files *)

File(p)   == proc[p].ofile[Op(p).fd]
BadFd(p)  == Op(p).fd \notin Fds \/ File(p) = 0
\* argint and argptr refuse a negative number of bytes.
BadSize(p) == Op(p).n \notin Nat

\* read: fileread and readi under the inode's lock, which also guards the offset.  A device
\* answers what it likes when it likes, -1 if there is none; it lets go of the lock meanwhile
\* and changes nothing here (module Console).
SysRead(p) ==
  LET f == ftab[File(p)]
      s == Load(fs, f.ip)
      units == Readi(s, f.ip, f.off, Op(p).n)
      Moves(n) == ftab' = [ftab EXCEPT ![File(p)].off = @ + n]
  IN /\ Calls(p, "read")
     /\ IF BadFd(p) \/ BadSize(p) \/ ~f.rd THEN Answers(p, [ret |-> -1]) /\ UNCHANGED <<fs, ftab>>
        ELSE /\ Unlocked(f.ip)
             /\ fs' = s
             /\ IF Type(s, f.ip) # "dev" THEN Moves(Len(units)) /\ Answers(p, [ret |-> Len(units), buf |-> units])
                ELSE \/ Answers(p, [ret |-> -1]) /\ UNCHANGED ftab
                     \/ \E n \in 0..Op(p).n : Moves(n) /\ Answers(p, [ret |-> n])
     /\ UNCHANGED <<lock, proc, path, text, todo, failed>>

SysWrite(p) ==
  /\ Calls(p, "write")
  /\ IF BadFd(p) \/ BadSize(p) \/ ~ftab[File(p)].wr THEN Answers(p, [ret |-> -1])
     ELSE Enters(p, <<"write">>, <<>>) /\ loc' = [loc EXCEPT ![p].done = 0]
  /\ UNCHANGED <<fs, lock, world>>

WriteChunkNoOffset(p) ==
  LET f == ftab[File(p)]
      data == [k \in 1..Op(p).n |-> Byte(Op(p).data[k])]
      s == Load(fs, f.ip)
  IN /\ At(p, "write")
     /\ \/ /\ loc[p].done = Len(data)
           /\ ftab' = [ftab EXCEPT ![File(p)].off = f.off + Len(data)]
           /\ Set(p, [ret |-> Len(data)]) /\ Goto(p, <<>>) /\ UNCHANGED <<fs, loc>>
        \/ /\ loc[p].done < Len(data) /\ Unlocked(f.ip) /\ UNCHANGED ftab
           /\ IF WriteFits(s, f.ip, f.off, Len(data))
              THEN fs' = Writei(s, f.ip, f.off, data) /\ loc' = [loc EXCEPT ![p].done = Len(data)] /\ UNCHANGED <<pc, arg>>
              ELSE fs' = s /\ Fails(p)
     /\ UNCHANGED <<lock, proc, path, text, todo, failed>>

\* One turn of filewrite's loop: a chunk, at the offset that the lock guards.  A device takes
\* all of it, or there is none.
WriteChunk(p) ==
  LET f == ftab[File(p)]
      done == loc[p].done
      n == IF done + MAXWRITE < Op(p).n THEN MAXWRITE ELSE Op(p).n - done
      chunk == [k \in 1..n |-> Byte(Op(p).data[done + k])]
      s == Load(fs, f.ip)
      dev == Type(s, f.ip) = "dev"
  IN /\ At(p, "write")
     /\ \/ /\ done = Op(p).n
           /\ Set(p, [ret |-> done]) /\ Goto(p, <<>>) /\ UNCHANGED <<fs, ftab, loc>>
        \/ /\ done < Op(p).n /\ Unlocked(f.ip)
           /\ dev \/ ~WriteFits(s, f.ip, f.off, n)
           /\ fs' = s /\ Fails(p) /\ UNCHANGED ftab
        \/ /\ done < Op(p).n /\ Unlocked(f.ip)
           /\ dev \/ WriteFits(s, f.ip, f.off, n)
           /\ fs' = IF dev THEN s ELSE Writei(s, f.ip, f.off, chunk)
           /\ ftab' = [ftab EXCEPT ![File(p)].off = @ + n]
           /\ loc' = [loc EXCEPT ![p].done = done + n] /\ UNCHANGED <<pc, arg>>
     /\ UNCHANGED <<lock, proc, path, text, todo, failed>>

\* fileclose: the last reference to an inode's file puts the inode.
Closed(f) == IF ftab[f].ref = 1 THEN NoFile ELSE [ftab[f] EXCEPT !.ref = @ - 1]
LastClose(f) == ftab[f].ref = 1 /\ ftab[f].type = "inode"

SysClose(p) ==
  LET f == File(p)
  IN /\ Calls(p, "close")
     /\ IF BadFd(p) THEN Answers(p, [ret |-> -1]) /\ UNCHANGED <<ftab, proc>>
        ELSE /\ ftab' = [ftab EXCEPT ![f] = Closed(f)]
             /\ proc' = [proc EXCEPT ![p].ofile[Op(p).fd] = 0]
             /\ IF LastClose(f) THEN Enters(p, <<"iput">>, [ret |-> 0]) /\ loc' = [loc EXCEPT ![p].x = ftab[f].ip]
                ELSE Answers(p, [ret |-> 0])
     /\ UNCHANGED <<fs, lock, path, text, todo, failed>>

SysDup(p) ==
  LET f == File(p)
      fd == Min(FreeFds(p))
  IN /\ Calls(p, "dup")
     /\ IF BadFd(p) \/ FreeFds(p) = {} THEN Answers(p, [ret |-> -1]) /\ UNCHANGED <<ftab, proc>>
        ELSE /\ proc' = [proc EXCEPT ![p].ofile[fd] = f]
             /\ ftab' = [ftab EXCEPT ![f].ref = @ + 1]
             /\ Answers(p, [ret |-> fd])
     /\ UNCHANGED <<fs, lock, path, text, todo, failed>>

\* fstat: the type and the link count, under the inode's lock.
SysFstat(p) ==
  LET i == ftab[File(p)].ip
      s == Load(fs, i)
  IN /\ Calls(p, "fstat")
     /\ \/ BadFd(p) /\ Answers(p, [ret |-> -1]) /\ UNCHANGED fs
        \/ /\ ~BadFd(p) /\ Unlocked(i)
           /\ fs' = s
           /\ Answers(p, [ret |-> 0, buf |-> <<Unit(Type(s, i), s.mem[i].d.nlink)>>])
     /\ UNCHANGED <<lock, world>>
-----------------------------------------------------------------------------
(* What fork, exit and wait do to files *)

Open(p) == {fd \in Fds : proc[p].ofile[fd] # 0}

\* fork: the child shares the open files and the directory, and runs op.kid; it fails
\* when all processes are in use.
SysFork(p) ==
  LET unused == {q \in Procs : proc[q].st = "unused"}
      c == Min(unused)
  IN /\ Calls(p, "fork")
     /\ IF unused = {} THEN Answers(p, [ret |-> -1]) /\ UNCHANGED <<fs, ftab, proc, path, text, todo>>
        ELSE /\ proc' = [proc EXCEPT ![c] = [st |-> "run", parent |-> p, cwd |-> proc[p].cwd, ofile |-> proc[p].ofile]]
             /\ path' = [path EXCEPT ![c] = path[p]] /\ text' = [text EXCEPT ![c] = text[p]]
             /\ todo' = [todo EXCEPT ![c] = Op(p).kid]
             /\ ftab' = [f \in 1..NFILE |->
                           [ftab[f] EXCEPT !.ref = @ + Cardinality({fd \in Open(p) : proc[p].ofile[fd] = f})]]
             /\ fs' = Iget(fs, proc[p].cwd)
             /\ Answers(p, [ret |-> c])
     /\ UNCHANGED <<lock, failed>>

\* exit, when the script is over: the files one after the other, then the directory.
Exit(p) ==
  /\ Up(fs) /\ proc[p].st = "run" /\ pc[p] = <<>> /\ todo[p] = <<>>
  /\ IF Open(p) # {}
     THEN LET fd == Min(Open(p))
              f  == proc[p].ofile[fd]
          IN /\ ftab' = [ftab EXCEPT ![f] = Closed(f)]
             /\ proc' = [proc EXCEPT ![p].ofile[fd] = 0]
             /\ IF LastClose(f)
                THEN loc' = [loc EXCEPT ![p].x = ftab[f].ip] /\ pc' = [pc EXCEPT ![p] = <<"iput">>]
                ELSE UNCHANGED <<loc, pc>>
     ELSE /\ loc' = [loc EXCEPT ![p].x = proc[p].cwd]
          /\ pc' = [pc EXCEPT ![p] = <<"iput", "zombie">>]
          /\ UNCHANGED <<ftab, proc>>
  /\ UNCHANGED <<fs, lock, path, text, todo, arg, failed>>

ExitDone(p) ==
  /\ At(p, "zombie")
  /\ proc' = [proc EXCEPT ![p].st = "zombie", ![p].cwd = 0]
  /\ Goto(p, <<>>)
  /\ loc' = [loc EXCEPT ![p] = NoLocs]
  /\ UNCHANGED <<fs, lock, ftab, path, text, todo, arg, failed>>

SysWait(p) ==
  LET kids == {q \in Procs : proc[q].st # "unused" /\ proc[q].parent = p}
  IN /\ Calls(p, "wait")
     /\ \/ kids = {} /\ Answers(p, [ret |-> -1]) /\ UNCHANGED <<proc, path, text>>
        \/ \E q \in kids :
             /\ proc[q].st = "zombie"
             /\ proc' = [proc EXCEPT ![q] = NoProc]
             /\ path' = [path EXCEPT ![q] = <<>>] /\ text' = [text EXCEPT ![q] = <<>>]
             /\ Answers(p, [ret |-> q])
     /\ UNCHANGED <<fs, lock, ftab, todo, failed>>
-----------------------------------------------------------------------------
Steps(p) ==
  \/ Iput(p) \/ IputFree(p) \/ IputFreed(p) \/ IputDrop(p)
  \/ Namex(p) \/ NamexEnd(p) \/ NamexElem(p) \/ Return(p)
  \/ SysLink(p) \/ LinkCount(p) \/ LinkEntry(p) \/ LinkFail(p) \/ LinkUndo(p) \/ LinkDone(p)
  \/ SysUnlink(p) \/ UnlinkFind(p) \/ UnlinkClear(p) \/ UnlinkBad(p) \/ UnlinkCount(p)
  \/ CreateFind(p) \/ CreateOld(p) \/ CreateNew(p)
  \/ SysOpen(p) \/ OpenLock(p) \/ OpenFd(p) \/ OpenSet(p)
  \/ SysMake(p) \/ Made(p) \/ SysChdir(p) \/ ChdirCheck(p) \/ ChdirDone(p)
  \/ SysRead(p) \/ SysWrite(p) \/ WriteChunk(p) \/ SysClose(p) \/ SysDup(p) \/ SysFstat(p)
  \/ SysFork(p) \/ Exit(p) \/ ExitDone(p) \/ SysWait(p)

\* The first process has exited; nobody is left who waits for it.
Finished == proc[First].st = "zombie" /\ \A p \in Procs \ {First} : proc[p].st \in {"unused", "zombie"}
Idle     == Finished /\ UNCHANGED vars

Next == (\E p \in Procs : Steps(p)) \/ Idle

Spec == Init /\ [][Next]_vars /\ \A p \in Procs : WF_vars(Steps(p))
-----------------------------------------------------------------------------
\* Every call returns what usertests.c checks, and the kernel does not panic.
TestsPass == failed = {} /\ Up(fs)

LinkPending(p, i)   == loc[p].old = i /\ \E k \in DOMAIN pc[p] : pc[p][k] \in {"link2", "linkfail", "linkbad"}
UnlinkPending(p, i) == loc[p].ip = i /\ \E k \in DOMAIN pc[p] : pc[p][k] = "unlink3"
Doomed(d) == fs.disk[d].nlink = 0 \/ \E p \in Procs : UnlinkPending(p, d)
Entries(i) ==
  {x \in Inums \X (1..(BSIZE * (NDIRECT + NINDIRECT))) :
     LET e == fs.disk[x[1]]
         k == x[2]
     IN /\ e.type = "dir" /\ ~Doomed(x[1]) /\ k <= e.size
        /\ UnitAt(fs, e, k - 1).i = i /\ UnitAt(fs, e, k - 1).n # "."}

\* The link count on the disk is the number of names of an inode: link counts one that
\* it has not entered yet, unlink still counts the one it has cleared, and "." counts
\* for nothing (link, unlink and create; iupdate after every change).
LinksExact ==
  \A i \in Inums : fs.disk[i].type # "none" =>
    fs.disk[i].nlink = Cardinality(Entries(i))
                       + Cardinality({p \in Procs : LinkPending(p, i)})
                       + Cardinality({p \in Procs : UnlinkPending(p, i)})

\* As long as the kernel has not panicked in the middle of a transaction, the bitmap marks
\* exactly the blocks of allocated inodes, no block belongs to two of them, and an inode
\* that is open or somebody's directory is not freed (itrunc in iput, balloc in bmap, by
\* concurrent callers); chdir and exit let go of a directory first and forget it
\* afterwards.
Leaving(p) == \E k \in DOMAIN pc[p] : pc[p][k] \in {"chdir2", "zombie"}
Holders(i) ==
  Cardinality({p \in Procs : proc[p].cwd = i /\ ~Leaving(p)}) + Cardinality({f \in 1..NFILE : ftab[f].ip = i})
BlocksExact ==
  Up(fs) => Accounted(fs) /\ \A i \in Inums : Holders(i) > 0 => fs.disk[i].type # "none"

\* When no call is under way an inode has exactly the references of open files and
\* current directories: no error path of link, unlink, create, open or chdir loses or
\* leaks one.
Quiet     == \A p \in Procs : pc[p] = <<>>
RefsExact == Quiet => \A i \in Inums : fs.mem[i].ref = Holders(i)

\* An inode without names is only kept for those who have it open (iput's comment: "If
\* that was the last reference and the inode has no links to it, free the inode").
NoOrphan == Quiet => \A i \in Inums : fs.disk[i].type # "none" /\ fs.disk[i].nlink = 0 => Holders(i) > 0

\* Every test comes to its end: nobody waits for ever for an inode's lock.
TestsEnd == <>Finished
=============================================================================
