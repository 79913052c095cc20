------------------------------- MODULE Memory -------------------------------
(***************************************************************************)
(* Physical pages, page tables, shared memory and exec: kalloc.c, vm.c,    *)
(* exec.c and what fork, exit, wait and sbrk do to them, by processes that *)
(* run scripts of calls.                                                   *)
(*                                                                         *)
(* A virtual address counts PGSIZE units to a page, PPT pages to a page    *)
(* table, and a page holds one value.  The kernel half of an address space *)
(* is one page table.  A call that only touches the caller's address space *)
(* and the locked free list is one step; the table of shared pages has no  *)
(* lock, so shm_get and shm_rem are split wherever others see it half done *)
(* (a change of ref_count, with the test of its new value, is indivisible, *)
(* as on one CPU).                                                         *)
(***************************************************************************)
EXTENDS Integers, Sequences, FiniteSets, SequencesExt, FiniteSetsExt

CONSTANTS NPAGE,            \* physical pages, of which freerange gives some to kalloc
          PGSIZE, PPT, NTAB, \* units of a page, pages of a table, user tables
          SHM_MAXNUM, Procs, First,
          IMAGE,            \* pages of a program: [file, mem]
          Tests             \* programs, each with the pages of the machine it runs on

ASSUME MemoryAssumption ==
  /\ NPAGE \in Nat \ {0} /\ PGSIZE \in Nat \ {0} /\ PPT \in Nat \ {0} /\ NTAB \in Nat \ {0}
  /\ SHM_MAXNUM \in Nat /\ Procs \subseteq Nat \ {0} /\ First \in Procs
  /\ IMAGE.file \in Nat /\ IMAGE.mem \in Nat

VARIABLES m,        \* pages, address spaces and shared memory
          proc,     \* state, parent and the calls still to make
          failed    \* the calls whose result their program did not expect

vars == <<m, proc, failed>>

Pages    == 1..NPAGE
Vpages   == 0..(NTAB * PPT - 1)
KERNBASE == NTAB * PPT * PGSIZE
Shms     == 1..SHM_MAXNUM
NoSpace  == [dir |-> 0, kern |-> 0, tabs |-> [t \in 0..(NTAB - 1) |-> 0], map |-> [v \in Vpages |-> 0], guard |-> -1]

RoundUp(a) == (a + PGSIZE - 1) \div PGSIZE
\* The pages that a loop from PGROUNDUP(lo) to hi visits.
Span(lo, hi) == [k \in 1..(IF hi > lo THEN RoundUp(hi) - RoundUp(lo) ELSE 0) |-> RoundUp(lo) + k - 1]

\* F of the value of v, which is computed once.
Let(v, F(_)) == CHOOSE r \in {F(x) : x \in {v}} : TRUE

\* What the functions of vm.c return: the pages afterwards, and ok.
Fail(s)       == [s EXCEPT !.ok = FALSE]
Panic(s, why) == [s EXCEPT !.ok = FALSE, !.panic = why]
-----------------------------------------------------------------------------
(* kalloc.c *)

NoPage(s)   == s.free = <<>>
Kalloc(s)   == Head(s.free)
TakenDirty(s) == [s EXCEPT !.free = Tail(@)]
Taken(s)    == [s EXCEPT !.free = Tail(@), !.data[Kalloc(s)] = "zero"]
Kfree(s, g) == [s EXCEPT !.free = <<g>> \o @, !.data[g] = "junk"]
-----------------------------------------------------------------------------
(* vm.c, for the address space x: a process's, or 0 for the one exec builds *)

Walkpgdir(s, x, t) ==
  CASE s.as[x].tabs[t] # 0 -> s
    [] s.as[x].tabs[t] = 0 /\ NoPage(s) -> Fail(s)
    [] OTHER -> [Taken(s) EXCEPT !.as[x].tabs[t] = Kalloc(s)]

Mappages(s, x, v, page) ==
  Let(Walkpgdir(s, x, v \div PPT),
      LAMBDA n : CASE ~n.ok -> n
                   [] n.ok /\ n.as[x].map[v] # 0 -> Panic(n, "remap")
                   [] OTHER -> [n EXCEPT !.as[x].map[v] = page])

\* What mappages enters for page_addr 0: V2P(0) is beyond the physical memory, and the
\* kernel, for which it is address 0, finds the first page of the process there.
Hole            == NPAGE + 1
Frame(page)     == IF page = 0 THEN Hole ELSE page
P2V(s, p, page) == IF page = Hole THEN s.as[p].map[0] ELSE page

IsShm(s, page) == \E j \in Shms : Frame(s.infos[j].page) = page

DeallocAny(s, x, v) ==
  LET page == s.as[x].map[v]
      n == [s EXCEPT !.as[x].map[v] = 0]
  IN IF page = 0 THEN n ELSE Kfree(n, page)

\* One turn of deallocuvm: a page that is in the table of shared pages is only unmapped.
Dealloc(s, x, v) ==
  LET page == s.as[x].map[v]
      n == [s EXCEPT !.as[x].map[v] = 0]
  IN CASE page = 0 \/ IsShm(s, page) -> n
       [] page = Hole /\ ~IsShm(s, page) -> Panic(s, "kfree")
       [] OTHER -> Kfree(n, page)

Deallocuvm(s, x, oldsz, newsz) ==
  FoldLeft(LAMBDA n, v : Dealloc(n, x, v), s, Span(newsz, oldsz))

\* One turn of allocuvm; mem is the page that mappages had no table for.
AllocPage(s, x, v) ==
  CASE ~s.ok -> s
    [] s.ok /\ NoPage(s) -> Fail(s)
    [] OTHER -> Let(Mappages(Taken(s), x, v, Kalloc(s)),
                    LAMBDA n : IF n.ok THEN n ELSE [n EXCEPT !.mem = Kalloc(s)])

\* allocuvm: all of the new pages or none; the tables it made stay.
Allocuvm(s, x, oldsz, newsz) ==
  IF newsz >= KERNBASE THEN Fail(s)
  ELSE Let(FoldLeft(LAMBDA n, v : AllocPage(n, x, v), s, Span(oldsz, newsz)),
           LAMBDA n : IF n.ok THEN n
                      ELSE Let(Deallocuvm(n, x, newsz, oldsz),
                               LAMBDA d : IF d.mem = 0 THEN d ELSE [Kfree(d, d.mem) EXCEPT !.mem = 0]))

Freevm(s, x) ==
  Let(Deallocuvm(s, x, KERNBASE, 0),
      LAMBDA n : LET a == n.as[x]
                     tables == {a.tabs[t] : t \in DOMAIN a.tabs} \cup {a.kern}
                     freed == {g \in tables \ {0} : ~IsShm(n, g)}
                 IN [FoldLeft(Kfree, n, SetToSeq(freed) \o <<a.dir>>) EXCEPT !.as[x] = NoSpace])

Setupkvm(s, x) ==
  CASE NoPage(s) -> Fail(s)
    [] Len(s.free) = 1 -> Fail(Freevm([Taken(s) EXCEPT !.as[x].dir = Kalloc(s)], x))
    [] OTHER -> [Taken(Taken(s)) EXCEPT !.as[x].dir = Kalloc(s), !.as[x].kern = Kalloc(Taken(s))]

\* One turn of copyuvm.  The page that mappages has no table for is lost.
CopyPage(s, p, c, v) ==
  LET from == s.as[p].map[v]
      here == {j \in Shms : v # 0 /\ s.shms[p][j].addr = v * PGSIZE}
      mem  == IF here # {} THEN Frame(s.infos[Max(here)].page) ELSE Kalloc(s)
      s1   == IF here # {} THEN s ELSE Taken(s)
      s2   == Mappages([s1 EXCEPT !.data[P2V(s, p, mem)] = s.data[P2V(s, p, from)]], c, v, mem)
  IN CASE ~s.ok -> s
       [] s.ok /\ from = 0 -> Panic(s, "copyuvm: page not present")
       [] s.ok /\ from # 0 /\ here = {} /\ NoPage(s) -> Fail(s)
       [] OTHER -> IF s2.ok \/ here # {} THEN s2 ELSE [s2 EXCEPT !.lost = @ \cup {mem}]

Copyuvm(s, p, c) ==
  Let(Setupkvm(s, c),
      LAMBDA k : IF ~k.ok THEN k
                 ELSE Let(FoldLeft(LAMBDA n, v : CopyPage(n, p, c, v), k, Span(0, s.sz[p])),
                          LAMBDA n : IF n.ok THEN [n EXCEPT !.as[c].guard = n.as[p].guard] ELSE Freevm(n, c)))
-----------------------------------------------------------------------------
(* exec.c *)

\* The program, a guard page and a stack page in address space 0.  The arguments are
\* copied to the stack: copyout refuses the guard page.
Build(s, args) ==
  LET top == IMAGE.mem * PGSIZE
      load(n) == [n EXCEPT !.data = [g \in Pages |-> IF \E v \in 0..(IMAGE.file - 1) : n.as[0].map[v] = g
                                                     THEN "text" ELSE @[g]]]
      grow(n, lo, hi) == IF n.ok THEN Allocuvm(n, 0, lo, hi) ELSE n
  IN Let(grow(Setupkvm(s, 0), 0, top), LAMBDA n1 :
     Let(grow(IF n1.ok THEN load(n1) ELSE n1, top, top + 2 * PGSIZE), LAMBDA n2 :
       CASE n2.ok /\ args <= PGSIZE -> [n2 EXCEPT !.as[0].guard = IMAGE.mem]
         [] n2.as[0].dir # 0 -> Fail(Freevm(n2, 0))
         [] OTHER -> n2))

\* The new image replaces the old one; the records of shared pages stay as they are.
Exec(s, p, args) ==
  Let(Build(s, args),
      LAMBDA n : IF ~n.ok THEN n
                 ELSE Let([n EXCEPT !.as[p] = n.as[0], !.as[0] = s.as[p], !.sz[p] = (IMAGE.mem + 2) * PGSIZE],
                          LAMBDA k : IF s.as[p].dir = 0 THEN k ELSE Freevm(k, 0)))
-----------------------------------------------------------------------------
(* Processes *)

NoProc  == [st |-> "unused", parent |-> 0, todo |-> <<>>, killed |-> FALSE, pc |-> "user", i |-> 0, mem |-> 0, ret |-> 0]
Space0  == Procs \cup {0}
Booted(n) == [free |-> [k \in 1..n |-> k], data |-> [g \in Pages |-> "junk"], as |-> [x \in Space0 |-> NoSpace],
              infos |-> [j \in Shms |-> [name |-> "", ref |-> 0, page |-> 0]],
              shms |-> [p \in Procs |-> [j \in Shms |-> [name |-> "", addr |-> 0]]],
              sz |-> [p \in Procs |-> 0], kst |-> [p \in Procs |-> 0],
              ok |-> TRUE, panic |-> "", mem |-> 0, lost |-> {}, pages |-> 1..n]

\* The first process has a kernel stack and has executed a test program.
Init ==
  /\ \E t \in Tests :
       /\ m = Exec([Taken(Booted(t.pages)) EXCEPT !.kst[First] = 1], First, 0)
       /\ proc = [p \in Procs |-> IF p = First THEN [NoProc EXCEPT !.st = "run", !.todo = t.script] ELSE NoProc]
  /\ failed = {}

At(p, label)   == m.panic = "" /\ proc[p].pc = label
Running(p)     == At(p, "user") /\ proc[p].st = "run"
Op(p)          == Head(proc[p].todo)
Calls(p, call) == Running(p) /\ proc[p].todo # <<>> /\ Op(p).call = call
\* The program goes on with the result; the kernel's state becomes s.
Done(p, s)     == m' = [s EXCEPT !.ok = TRUE]
Check(p, ret)  == failed' = IF ret \in Op(p).want THEN failed ELSE failed \cup {<<p, Op(p).call>>}
Step(p)        == [proc[p] EXCEPT !.todo = Tail(@), !.pc = "user"]
Returns(p, s, ret) == Done(p, s) /\ Check(p, ret) /\ proc' = [proc EXCEPT ![p] = Step(p)]

\* A load or store by the program, which the processor does: a page that is not there, or
\* not the user's, kills it.
Target(p)    == m.as[p].map[Op(p).addr \div PGSIZE]
Mapped(p, a) == a < KERNBASE /\ a \div PGSIZE # m.as[p].guard /\ m.as[p].map[a \div PGSIZE] # 0
Load(p) ==
  /\ Calls(p, "load") /\ Mapped(p, Op(p).addr)
  /\ Returns(p, m, IF Target(p) = Hole THEN "junk" ELSE m.data[Target(p)])
Store(p) ==
  /\ Calls(p, "store") /\ Mapped(p, Op(p).addr)
  /\ Returns(p, IF Target(p) = Hole THEN m ELSE [m EXCEPT !.data[Target(p)] = Op(p).val], "ok")
Fault(p) ==
  /\ \E call \in {"load", "store"} : Calls(p, call)
  /\ ~Mapped(p, Op(p).addr)
  /\ failed' = IF "fault" \in Op(p).want THEN failed ELSE failed \cup {<<p, "fault">>}
  /\ proc' = [proc EXCEPT ![p].st = "exit"]
  /\ UNCHANGED m

\* growproc; sbrk returns the old size.
Sbrk(p) ==
  LET n == Op(p).n
      sz == m.sz[p]
      s == IF n > 0 THEN Allocuvm(m, p, sz, sz + n) ELSE Deallocuvm(m, p, sz, sz + n)
  IN /\ Calls(p, "sbrk")
     /\ IF s.ok /\ (n < 0 => sz + n # 0) THEN Returns(p, [s EXCEPT !.sz[p] = sz + n], sz) ELSE Returns(p, s, -1)

SysExec(p) ==
  LET s == Exec(m, p, Op(p).args)
  IN /\ Calls(p, "exec")
     /\ IF ~s.ok THEN Returns(p, s, -1)
        ELSE Done(p, s) /\ proc' = [proc EXCEPT ![p].todo = Op(p).prog] /\ UNCHANGED failed
-----------------------------------------------------------------------------
(* shm_get and shm_rem *)

Own(p, name)   == {j \in Shms : name # "" /\ m.shms[p][j].name = name}
Known(name)    == {j \in Shms : m.infos[j].name = name}

\* shm_get has a page for the name in entry i at sz.
Entered(s, p, i) ==
  [s EXCEPT !.shms[p][i] = [name |-> Op(p).name, addr |-> m.sz[p]], !.sz[p] = m.sz[p] + PGSIZE]

\* shm_get up to the end of the first search of shm_allocuvm, or to the second one.
\* sys_shm_get returns the size from before the call, also when the page was there
\* already.  The 0 that shm_allocuvm returns at KERNBASE is taken for the first entry.
ShmFind(p) ==
  LET name == Op(p).name
      sz == m.sz[p]
      new == Mappages(Taken(m), p, RoundUp(sz), Kalloc(m))
  IN /\ Calls(p, "shm_get")
     /\ \/ Own(p, name) # {} /\ Returns(p, m, sz)
        \/ /\ Own(p, name) = {} /\ (Known(name) # {} \/ sz + PGSIZE >= KERNBASE)
           /\ IF sz + PGSIZE >= KERNBASE THEN Returns(p, Entered(m, p, 1), sz)
              ELSE proc' = [proc EXCEPT ![p].pc = "share", ![p].i = Min(Known(name))] /\ UNCHANGED <<m, failed>>
        \/ /\ Own(p, name) = {} /\ Known(name) = {} /\ sz + PGSIZE < KERNBASE
           /\ CASE NoPage(m) -> Returns(p, m, 0)
                [] ~NoPage(m) /\ ~new.ok -> Returns(p, Kfree(new, Kalloc(m)), 0)
                [] OTHER -> /\ Done(p, new) /\ UNCHANGED failed
                            /\ proc' = [proc EXCEPT ![p].pc = "pick", ![p].mem = Kalloc(m)]

\* The entry that had the name, which a shm_rem may have emptied meanwhile.
ShmShare(p) ==
  LET i == proc[p].i
      s == Mappages([m EXCEPT !.infos[i].ref = @ + 1], p, RoundUp(m.sz[p]), Frame(m.infos[i].page))
  IN /\ At(p, "share")
     /\ IF s.ok THEN Returns(p, Entered(s, p, i), m.sz[p]) ELSE Returns(p, s, 0)

\* The search for an empty entry; when there is none the page stays mapped above sz.
ShmPick(p) ==
  /\ At(p, "pick")
  /\ IF Known("") = {} THEN Returns(p, m, 0)
     ELSE proc' = [proc EXCEPT ![p].pc = "fill", ![p].i = Min(Known(""))] /\ UNCHANGED <<m, failed>>

ShmFill(p) ==
  LET i == proc[p].i
  IN /\ At(p, "fill")
     /\ Returns(p, Entered([m EXCEPT !.infos[i] = [name |-> Op(p).name, ref |-> @.ref + 1, page |-> proc[p].mem]], p, i), m.sz[p])

\* shm_rem of the caller's entry i: the size shrinks by a page, wherever the page was.
Rem(s, p, i) == [s EXCEPT !.shms[p][i].name = "", !.infos[i].ref = @ - 1, !.sz[p] = @ - PGSIZE]
LastRef(s, i)   == s.infos[i].ref = 0
Forget(s, p, i) == [s EXCEPT !.shms[p][i].addr = 0]

ShmRem(p) ==
  LET i == Min(Own(p, Op(p).name))
      s == Rem(m, p, i)
  IN /\ Calls(p, "shm_rem")
     /\ \/ Own(p, Op(p).name) = {} /\ Returns(p, m, -1)
        \/ /\ Own(p, Op(p).name) # {}
           /\ IF LastRef(s, i) THEN Done(p, s) /\ proc' = [proc EXCEPT ![p].pc = "remfree", ![p].i = i] /\ UNCHANGED failed
              ELSE Returns(p, Forget(s, p, i), 0)

\* The last user frees the page that its page table has at the address.  Without a table
\* the entry is read at the program's address 0: what is there depends on the program,
\* and says nothing, a page that kfree panics on, or any other page, which is freed.
Freed(s, p, v) ==
  LET page == s.as[p].map[v]
      text == s.as[p].map[0]
  IN CASE s.as[p].tabs[v \div PPT] # 0 /\ page = 0 -> {s}
       [] s.as[p].tabs[v \div PPT] # 0 /\ page = Hole -> {Panic(s, "kfree")}
       [] s.as[p].tabs[v \div PPT] # 0 /\ page \in Pages -> {Kfree([s EXCEPT !.as[p].map[v] = 0], page)}
       [] s.as[p].tabs[v \div PPT] = 0 /\ text = 0 -> {Panic(s, "trap")}
       [] OTHER -> {s, Panic(s, "kfree")} \cup {Kfree([s EXCEPT !.data[text] = "junk"], g) : g \in s.pages}

ShmRemFree(p) ==
  /\ At(p, "remfree")
  /\ \E s \in Freed(m, p, m.shms[p][proc[p].i].addr \div PGSIZE) : Done(p, s)
  /\ proc' = [proc EXCEPT ![p].pc = "rempage"] /\ UNCHANGED failed

ShmRemPage(p) ==
  /\ At(p, "rempage")
  /\ Done(p, [m EXCEPT !.infos[proc[p].i].page = 0])
  /\ proc' = [proc EXCEPT ![p].pc = "remname"] /\ UNCHANGED failed

ShmRemName(p) ==
  LET i == proc[p].i
      s == Forget([m EXCEPT !.infos[i].name = ""], p, i)
  IN /\ At(p, "remname")
     /\ IF proc[p].st = "run" THEN Returns(p, s, 0)
        ELSE Done(p, s) /\ proc' = [proc EXCEPT ![p].pc = "user"] /\ UNCHANGED failed
-----------------------------------------------------------------------------
(* fork, exit, wait and kill *)

Held(p) == {j \in Shms : m.shms[p][j].name # ""}

\* The child has the parent's shared pages; their addresses are counted from the top.
ChildShms(s, p, c) ==
  [j \in Shms |-> IF j \notin Held(p) THEN [name |-> "", addr |-> s.shms[c][j].addr]
                  ELSE [name |-> s.shms[p][j].name,
                        addr |-> s.sz[p] - PGSIZE * Cardinality({k \in Held(p) : k >= j})]]

ForkSharesUncounted(s, p, c) == [s EXCEPT !.sz[c] = s.sz[p], !.shms[c] = ChildShms(s, p, c)]

ForkShares(s, p, c) ==
  [s EXCEPT !.sz[c] = s.sz[p], !.shms[c] = ChildShms(s, p, c),
            !.infos = [j \in Shms |-> IF j \in Held(p) THEN [@[j] EXCEPT !.ref = @ + 1] ELSE @[j]]]

Fork(p) ==
  LET unused == {q \in Procs : proc[q].st = "unused"}
      c == Min(unused)
      s == Copyuvm([Taken(m) EXCEPT !.kst[c] = Kalloc(m)], p, c)
  IN /\ Calls(p, "fork")
     /\ CASE unused = {} \/ NoPage(m) -> Returns(p, m, -1)
          [] unused # {} /\ ~NoPage(m) /\ ~s.ok ->
               Returns(p, [Kfree(s, Kalloc(m)) EXCEPT !.kst[c] = 0], -1)
          [] OTHER -> /\ Done(p, ForkShares(s, p, c)) /\ Check(p, c)
                      /\ proc' = [proc EXCEPT ![p] = Step(p),
                                              ![c] = [NoProc EXCEPT !.st = "run", !.parent = p, !.todo = Op(p).kid]]

\* The end of a script, or of a killed process, is exit: it removes the shared pages one
\* by one, and its address space stays for wait.
Dies(p) ==
  /\ Running(p) /\ (proc[p].todo = <<>> \/ proc[p].killed)
  /\ proc' = [proc EXCEPT ![p].st = "exit"]
  /\ UNCHANGED <<m, failed>>

Exit(p) ==
  LET i == Min(Held(p))
      s == Rem(m, p, i)
  IN /\ At(p, "user") /\ proc[p].st = "exit"
     /\ IF Held(p) = {} THEN proc' = [proc EXCEPT ![p].st = "zombie"] /\ UNCHANGED m
        ELSE IF LastRef(s, i) THEN Done(p, s) /\ proc' = [proc EXCEPT ![p].pc = "remfree", ![p].i = i]
        ELSE Done(p, Forget(s, p, i)) /\ UNCHANGED proc
     /\ UNCHANGED failed

Wait(p) ==
  LET kids == {q \in Procs : proc[q].st # "unused" /\ proc[q].parent = p}
  IN /\ Calls(p, "wait")
     /\ \/ kids = {} /\ Returns(p, m, -1)
        \/ \E q \in kids :
             /\ proc[q].st = "zombie"
             /\ Done(p, [Freevm(Kfree(m, m.kst[q]), q) EXCEPT !.kst[q] = 0])
             /\ Check(p, q)
             /\ proc' = [proc EXCEPT ![p] = Step(p), ![q] = NoProc]

Kill(p) ==
  /\ Calls(p, "kill")
  /\ Check(p, 0) /\ UNCHANGED m
  /\ proc' = [proc EXCEPT ![p] = Step(p), ![Op(p).pid].killed = TRUE]

\* A read from the pipe on which the children report, when they all sit and sleep.
Await(p) ==
  /\ Calls(p, "await")
  /\ \A q \in Procs : proc[q].parent = p /\ proc[q].st = "run" => proc[q].todo # <<>> /\ Op(q).call = "pause"
  /\ Returns(p, m, 0)

\* sleep(10), which is taken to be long enough for the parent to come to its wait.
Sleep(p) ==
  /\ Calls(p, "sleep") /\ Op(proc[p].parent).call = "wait"
  /\ Returns(p, m, 0)

Steps(p) ==
  \/ Load(p) \/ Store(p) \/ Fault(p) \/ Sbrk(p) \/ SysExec(p)
  \/ ShmFind(p) \/ ShmShare(p) \/ ShmPick(p) \/ ShmFill(p)
  \/ ShmRem(p) \/ ShmRemFree(p) \/ ShmRemPage(p) \/ ShmRemName(p)
  \/ Fork(p) \/ Dies(p) \/ Exit(p) \/ Wait(p) \/ Kill(p) \/ Await(p) \/ Sleep(p)

Finished == \A p \in Procs : proc[p].st \in {"unused", "zombie"}
Idle     == Finished /\ UNCHANGED vars
Next     == (\E p \in Procs : Steps(p)) \/ Idle
Spec     == Init /\ [][Next]_vars
-----------------------------------------------------------------------------
\* Every program gets the results and reads the values that it is written for, and the
\* kernel does not panic: pages are shared by name and inherited by fork, and private,
\* zeroed pages otherwise (copyuvm, allocuvm, shm_allocuvm).
ProgramsPass == failed = {} /\ m.panic = ""

\* How often a page is in use: for a page table or a stack, as a private page of an
\* address space, as a shared page, or as the page of a shm_get that is under way.
InTables(a, g)  == Cardinality({t \in DOMAIN a.tabs : a.tabs[t] = g}) + (IF a.dir = g THEN 1 ELSE 0) + (IF a.kern = g THEN 1 ELSE 0)
InMap(a, g)     == Cardinality({v \in Vpages : a.map[v] = g})
\* The entries with the page, without one that shm_rem has freed and not yet cleared.
Sharing(g) == {j \in Shms : m.infos[j].page = g /\ ~\E p \in Procs : At(p, "rempage") /\ proc[p].i = j}
Uses(g) ==
  MapThenSumSet(LAMBDA x : InTables(m.as[x], g) + (IF Sharing(g) # {} THEN 0 ELSE InMap(m.as[x], g)), Space0)
  + Cardinality({p \in Procs : m.kst[p] = g}) + Cardinality(Sharing(g))

\* Every physical page is free once or in use once: freevm, deallocuvm, shm_rem, exec
\* and the error paths of allocuvm and fork neither lose a page nor free it twice nor
\* free one that somebody maps.  Only the page copyuvm had no table for is lost.
PagesExact ==
  \A g \in m.pages : Cardinality({k \in DOMAIN m.free : m.free[k] = g}) + Uses(g) = IF g \in m.lost THEN 0 ELSE 1

\* Between calls a shared page counts exactly the processes that have its name, and none
\* is kept without one: fork counts up, shm_rem and exit count down, also after exec.
Quiet == \A p \in Procs : proc[p].pc = "user"
ShmRefsExact ==
  Quiet => \A j \in Shms :
    /\ m.infos[j].ref = Cardinality({p \in Procs : m.shms[p][j].name # ""})
    /\ (m.infos[j].name = "") <=> (m.infos[j].ref = 0)
=============================================================================
