----------------------------- MODULE UserTests ------------------------------
(***************************************************************************)
(* The file system tests of usertests.c and some of the programs that come *)
(* with the kernel, as scripts of calls for FileSys.                       *)
(*                                                                         *)
(* Every call carries the results that its program accepts; a call whose   *)
(* result is ignored accepts any.  The loops of the tests are cut to a few *)
(* turns, writes are scaled from 512-byte blocks to blocks of two units,   *)
(* and descriptors are numbered from 0.  The file "cat" stands for every   *)
(* program that the image holds.                                           *)
(***************************************************************************)
EXTENDS Integers, Sequences, FiniteSets, TLC, Paths

MAXFD == 9
AnyRet == -1..MAXFD   \* the result is not looked at
Ok   == {0}
Good == 0..MAXFD
Err  == {-1}
P(name)      == Rel(<<name>>)
D(dir, name) == Rel(<<dir, name>>)

Op0(call, want) == [call |-> call, want |-> want, bufs |-> {}, once |-> {}]
Open(path, mode, want) ==
  Op0("open", want) @@ [path |-> path, create |-> mode \in {"C", "CRW", "CW"}, rd |-> mode \notin {"W", "CW"},
                        wr |-> mode \in {"W", "RW", "CRW", "CW"}]
Path1(call, path, want) == Op0(call, want) @@ [path |-> path]
Unlink(path, want)      == Path1("unlink", path, want)
Mkdir(path, want)       == Path1("mkdir", path, want)
Mknod(path, want)       == Path1("mknod", path, want)
Chdir(path, want)       == Path1("chdir", path, want)
Link(old, new, want)    == Op0("link", want) @@ [path |-> old, path2 |-> new]
Close(fd, want)         == Op0("close", want) @@ [fd |-> fd]
Dup(fd, want)           == Op0("dup", want) @@ [fd |-> fd]
Write(fd, data, want)   == Op0("write", want) @@ [fd |-> fd, n |-> Len(data), data |-> data]
Read(fd, n, want)       == Op0("read", want) @@ [fd |-> fd, n |-> n]
ReadIs(fd, n, bufs)     == [Read(fd, n, {Len(b) : b \in bufs}) EXCEPT !.bufs = bufs]
ReadDir(fd, n, once)    == [Read(fd, n, AnyRet) EXCEPT !.once = once]
Fstat(fd, is)           == [Op0("fstat", Ok) EXCEPT !.bufs = is] @@ [fd |-> fd]
Fork(kid)               == Op0("fork", Good) @@ [kid |-> kid]
Wait(want)              == Op0("wait", want)

Bytes(b, n) == [k \in 1..n |-> b]
Units(b, n) == [k \in 1..n |-> [n |-> b, i |-> 0]]
-----------------------------------------------------------------------------
iputtest ==
  <<Mkdir(P("iputdir"), Ok), Chdir(P("iputdir"), Ok), Unlink(D("..", "iputdir"), Ok), Chdir(Abs(<<>>), Ok)>>

exitiputtest ==
  <<Fork(<<Mkdir(P("iputdir"), Ok), Chdir(P("iputdir"), Ok), Unlink(D("..", "iputdir"), Ok)>>), Wait(AnyRet)>>

openiputtest ==
  <<Mkdir(P("oidir"), Ok), Fork(<<Open(P("oidir"), "RW", Err)>>), Unlink(P("oidir"), Ok), Wait(AnyRet)>>

opentest == <<Open(P("cat"), "R", Good), Close(0, AnyRet), Open(P("doesnotexist"), "R", Err)>>

writetest ==
  <<Open(P("small"), "CRW", Good), Write(0, Bytes("a", 3), {3}), Write(0, Bytes("b", 3), {3}), Close(0, AnyRet),
    Open(P("small"), "R", Good), ReadIs(0, 6, {Units("a", 3) \o Units("b", 3)}), Close(0, AnyRet),
    Unlink(P("small"), Ok)>>

writetest1(maxfile) ==
  <<Open(P("big"), "CRW", Good)>> \o [k \in 1..maxfile |-> Write(0, Bytes("x", 2), {2})]
  \o <<Close(0, AnyRet), Open(P("big"), "R", Good)>> \o [k \in 1..maxfile |-> ReadIs(0, 2, {Units("x", 2)})]
  \o <<Read(0, 2, {0}), Close(0, AnyRet), Unlink(P("big"), Ok)>>

createtest ==
  <<Open(P("a0"), "CRW", AnyRet), Close(0, AnyRet), Open(P("a1"), "CRW", AnyRet), Close(0, AnyRet),
    Open(P("a2"), "CRW", AnyRet), Close(0, AnyRet), Unlink(P("a0"), AnyRet), Unlink(P("a1"), AnyRet), Unlink(P("a2"), AnyRet)>>

dirtest == <<Mkdir(P("dir0"), Ok), Chdir(P("dir0"), Ok), Chdir(P(".."), Ok), Unlink(P("dir0"), Ok)>>

\* Two processes write through one struct file; the reader counts the bytes of each.
sharedfd ==
  LET writes(b) == [k \in 1..2 |-> Write(0, Bytes(b, 2), {2})]
      mixed == {m \in [1..8 -> {[n |-> "c", i |-> 0], [n |-> "p", i |-> 0]}] :
                  Cardinality({k \in 1..8 : m[k].n = "c"}) = 4}
  IN <<Unlink(P("sharedfd"), AnyRet), Open(P("sharedfd"), "CRW", Good), Fork(writes("c"))>> \o writes("p")
     \o <<Wait(AnyRet), Close(0, AnyRet), Open(P("sharedfd"), "R", Good), ReadIs(0, 9, mixed), Close(0, AnyRet),
          Unlink(P("sharedfd"), AnyRet)>>

\* Processes write files of their own at the same time.
fourfiles ==
  LET kid(f, b) == <<Open(P(f), "CRW", Good), Write(0, Bytes(b, 3), {3}), Write(0, Bytes(b, 2), {2})>>
      reads(f, b) == <<Open(P(f), "R", AnyRet), ReadIs(0, 9, {Units(b, 5)}), Close(0, AnyRet), Unlink(P(f), AnyRet)>>
  IN <<Unlink(P("f0"), AnyRet), Fork(kid("f0", "0")), Unlink(P("f1"), AnyRet), Fork(kid("f1", "1")), Wait(AnyRet), Wait(AnyRet)>>
     \o reads("f0", "0") \o reads("f1", "1")

\* Processes create and delete files in one directory (the files 1 and 2 of the loop).
createdelete ==
  LET make(f) == <<Open(P(f), "CRW", Good), Close(0, AnyRet)>>
      kid(f1, f2) == make(f1) \o make(f2) \o <<Unlink(P(f1), Ok)>>
      there(f) == <<Open(P(f), "R", Good), Close(0, AnyRet)>>
      gone(f)  == <<Open(P(f), "R", Err)>>
  IN <<Fork(kid("p1", "p2")), Fork(kid("q1", "q2")), Wait(AnyRet), Wait(AnyRet)>>
     \o gone("p1") \o gone("q1") \o there("p2") \o there("q2") \o <<Unlink(P("q1"), AnyRet), Unlink(P("r2"), AnyRet)>>

\* A file that is unlinked while it is open is still there.
unlinkread ==
  <<Open(P("unlinkread"), "CRW", Good), Write(0, Bytes("h", 3), AnyRet), Close(0, AnyRet),
    Open(P("unlinkread"), "RW", Good), Unlink(P("unlinkread"), Ok),
    Open(P("unlinkread"), "CRW", AnyRet), Write(1, Bytes("y", 2), AnyRet), Close(1, AnyRet),
    ReadIs(0, 9, {Units("h", 3)}), Write(0, Bytes("h", 5), {5}), Close(0, AnyRet), Unlink(P("unlinkread"), AnyRet)>>

linktest ==
  <<Unlink(P("lf1"), AnyRet), Unlink(P("lf2"), AnyRet), Open(P("lf1"), "CRW", Good), Write(0, Bytes("h", 5), {5}),
    Close(0, AnyRet), Link(P("lf1"), P("lf2"), Ok), Unlink(P("lf1"), AnyRet), Open(P("lf1"), "R", Err),
    Open(P("lf2"), "R", Good), ReadIs(0, 9, {Units("h", 5)}), Close(0, AnyRet), Link(P("lf2"), P("lf2"), Err),
    Unlink(P("lf2"), AnyRet), Link(P("lf2"), P("lf1"), Err), Link(P("."), P("lf1"), Err)>>

\* Create, link and unlink of the same file by parent and child, for the files 0, 1 and
\* 4: both create; both link; one links and the other creates.
concreate ==
  LET link(f) == <<Link(P("C0"), P(f), AnyRet)>>
      create(f) == <<Open(P(f), "CRW", Good), Close(0, AnyRet)>>
      turn(f, kid, mine) == <<Unlink(P(f), AnyRet), Fork(kid)>> \o mine \o <<Wait(AnyRet)>>
      opens(f)   == <<Open(P(f), "R", AnyRet), Close(0, AnyRet), Open(P(f), "R", AnyRet), Close(0, AnyRet)>>
      unlinks(f) == <<Unlink(P(f), AnyRet), Unlink(P(f), AnyRet)>>
  IN turn("C0", create("C0"), create("C0")) \o turn("C1", link("C1"), link("C1"))
     \o turn("C4", create("C4"), link("C4"))
     \o <<Open(P("."), "R", AnyRet), ReadDir(0, 20, {"C0", "C1", "C4"}), Close(0, AnyRet)>>
     \o <<Fork(opens("C0"))>> \o unlinks("C0") \o <<Wait(AnyRet), Fork(unlinks("C1"))>> \o opens("C1") \o <<Wait(AnyRet)>>

\* The generator's first numbers modulo 3 choose between create, link and unlink.
linkunlink ==
  LET act(k) == CASE k = 0 -> <<Open(P("x"), "CRW", AnyRet), Close(0, AnyRet)>>
                  [] k = 1 -> <<Link(P("cat"), P("x"), AnyRet)>>
                  [] OTHER -> <<Unlink(P("x"), AnyRet)>>
      parent == act(0) \o act(2) \o act(1) \o act(0) \o act(0) \o act(2)
      child  == act(0) \o act(1) \o act(1) \o act(0) \o act(1) \o act(0) \o act(2)
  IN <<Unlink(P("x"), AnyRet), Fork(child)>> \o parent \o <<Wait(AnyRet)>>

\* A directory that needs its indirect block.
bigdir ==
  LET names == <<"x0", "x1", "x2", "x3", "x4">>
  IN <<Unlink(P("bd"), AnyRet), Open(P("bd"), "C", Good), Close(0, AnyRet)>>
     \o [k \in 1..5 |-> Link(P("bd"), P(names[k]), Ok)]
     \o <<Unlink(P("bd"), AnyRet)>> \o [k \in 1..5 |-> Unlink(P(names[k]), Ok)]

\* The part before the directory is changed and the clean-up; chdir is subdirChdir.
subdir ==
  LET ff == D("dd", "ff")
      ddff == Rel(<<"dd", "dd", "ff">>)
      ffff == Rel(<<"dd", "dd", "ffff">>)
      ffff2 == Rel(<<"dd", "ff", "ff">>)
      xxff == Rel(<<"dd", "xx", "ff">>)
  IN <<Unlink(P("ff"), AnyRet), Mkdir(P("dd"), Ok), Open(ff, "CRW", Good), Write(0, Bytes("f", 2), AnyRet), Close(0, AnyRet),
       Unlink(P("dd"), Err), Mkdir(Abs(<<"dd", "dd">>), Ok), Open(ddff, "CRW", Good), Write(0, Bytes("F", 2), AnyRet),
       Close(0, AnyRet), Open(Rel(<<"dd", "dd", "..", "ff">>), "R", Good), ReadIs(0, 9, {Units("f", 2)}), Close(0, AnyRet),
       Link(ddff, ffff, Ok), Unlink(ddff, Ok), Open(ddff, "R", Err)>>
subdirChdir ==
  <<Chdir(P("dd"), Ok), Chdir(Rel(<<"dd", "..", "..", "dd">>), Ok), Chdir(Rel(<<"dd", "..", "..", "..", "dd">>), Ok),
    Chdir(Rel(<<".", "..">>), Ok), Open(Rel(<<"dd", "dd", "ffff">>), "R", Good), ReadIs(0, 9, {Units("F", 2)}),
    Close(0, AnyRet)>>
subdirErrors ==
  LET ffff == Rel(<<"dd", "dd", "ffff">>)
      ffff2 == Rel(<<"dd", "ff", "ff">>)
      xxff == Rel(<<"dd", "xx", "ff">>)
      xx == Rel(<<"dd", "dd", "xx">>)
  IN <<Open(Rel(<<"dd", "dd", "ff">>), "R", Err), Open(ffff2, "CRW", Err), Open(xxff, "CRW", Err),
       Open(P("dd"), "C", Err), Open(P("dd"), "RW", Err), Open(P("dd"), "W", Err),
       Link(ffff2, xx, Err), Link(xxff, xx, Err), Link(D("dd", "ff"), ffff, Err),
       Mkdir(ffff2, Err), Mkdir(xxff, Err), Mkdir(ffff, Err), Unlink(xxff, Err), Unlink(ffff2, Err),
       Chdir(D("dd", "ff"), Err), Chdir(D("dd", "xx"), Err), Unlink(ffff, Ok), Unlink(D("dd", "ff"), Ok),
       Unlink(P("dd"), Err), Unlink(D("dd", "dd"), Ok), Unlink(P("dd"), Ok)>>

bigwrite ==
  LET turn(n) == <<Open(P("bigwrite"), "CRW", Good), Write(0, Bytes("w", n), {n}), Write(0, Bytes("w", n), {n}),
                   Close(0, AnyRet), Unlink(P("bigwrite"), AnyRet)>>
  IN <<Unlink(P("bigwrite"), AnyRet)>> \o turn(3) \o turn(5)

bigfile ==
  LET b == <<"0", "1", "2", "3", "4">>
  IN <<Unlink(P("bigfile"), AnyRet), Open(P("bigfile"), "CRW", Good)>>
     \o [k \in 1..5 |-> Write(0, Bytes(b[k], 2), {2})]
     \o <<Close(0, AnyRet), Open(P("bigfile"), "R", Good)>>
     \o [k \in 1..10 |-> ReadIs(0, 1, {Units(b[(k + 1) \div 2], 1)})]
     \o <<Read(0, 1, {0}), Close(0, AnyRet), Unlink(P("bigfile"), AnyRet)>>

\* n15 is a name of fifteen characters, n14 its first fourteen.
fourteen ==
  <<Mkdir(P("n14"), Ok), Mkdir(D("n14", "n15"), Ok), Open(Rel(<<"n15", "n15", "n15">>), "C", Good), Close(0, AnyRet),
    Open(Rel(<<"n14", "n14", "n14">>), "R", Good), Close(0, AnyRet), Mkdir(D("n14", "n14"), Err), Mkdir(D("n15", "n14"), Err)>>

rmdot ==
  <<Mkdir(P("dots"), Ok), Chdir(P("dots"), Ok), Unlink(P("."), Err), Unlink(P(".."), Err), Chdir(Abs(<<>>), Ok),
    Unlink(D("dots", "."), Err), Unlink(D("dots", ".."), Err), Unlink(P("dots"), Ok)>>

dirfile ==
  LET xx == D("dirfile", "xx")
  IN <<Open(P("dirfile"), "C", Good), Close(0, AnyRet), Chdir(P("dirfile"), Err), Open(xx, "R", Err), Open(xx, "C", Err),
       Mkdir(xx, Err), Unlink(xx, Err), Link(P("cat"), xx, Err), Unlink(P("dirfile"), Ok),
       Open(P("."), "RW", Err), Open(P("."), "R", AnyRet), Write(0, Bytes("x", 1), Err), Close(0, AnyRet)>>

\* Its loop, for a number of turns: every one passes the same strings.
iref(turns) ==
  LET none == Rel(<<>>)
      turn == <<Mkdir(P("irefd"), Ok), Chdir(P("irefd"), Ok), Mkdir(none, AnyRet), Link(P("cat"), none, AnyRet),
                Open(none, "C", Err), Open(P("xx"), "C", AnyRet), Close(0, AnyRet), Unlink(P("xx"), AnyRet)>>
  IN FlattenSeq([k \in 1..turns |-> turn]) \o <<Chdir(Abs(<<>>), AnyRet)>>

\* init.c opens the console, which the first start has to make, and reports on it; sh.c
\* prompts and reads there.
initmain ==
  <<Open(P("console"), "RW", Err), Mknod(P("console"), AnyRet), Open(P("console"), "RW", AnyRet), Dup(0, AnyRet), Dup(0, AnyRet),
    Write(1, Bytes("i", 1), AnyRet), Fork(<<Write(2, Bytes("$", 2), AnyRet), Read(0, 1, AnyRet)>>), Wait(Good), Wait(Err)>>

\* ls of the root: fstat tells a directory, and every entry is opened and statted.
ls ==
  LET stat(n, is) == <<Open(P(n), "R", Good), Fstat(1, {<<is>>}), Close(1, AnyRet)>>
  IN <<Open(Abs(<<>>), "R", Good), Fstat(0, {<<[n |-> "dir", i |-> 1]>>}), ReadDir(0, 20, {".", "..", "cat"})>>
     \o stat(".", [n |-> "dir", i |-> 1]) \o stat("cat", [n |-> "file", i |-> 1]) \o <<Close(0, AnyRet)>>

\* cp cat to c, and rm c.
cprm ==
  <<Open(P("cat"), "R", Good), Open(P("c"), "CW", Good), ReadIs(0, 2, {Units("#", 1)}), Write(1, Bytes("#", 1), {1}),
    Read(0, 2, {0}), Close(0, AnyRet), Close(1, AnyRet), Unlink(P("c"), Ok)>>

\* More descriptors than a process has.
openmany == [k \in 1..3 |-> Open(P("cat"), "R", Good)] \o <<Open(P("cat"), "R", Err), Dup(0, Err), Close(7, Err)>>
=============================================================================
