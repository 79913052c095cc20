------------------------------ MODULE MemTests ------------------------------
(***************************************************************************)
(* The shm_test programs and the memory tests of usertests.c as scripts    *)
(* for Memory.  Every call carries the results that its program or         *)
(* REPORT.md expects; "fault" is a load or store that kills the process.   *)
(*                                                                         *)
(* A program starts with pages 0 (text), 1 (zeroed data), 2 (guard) and 3  *)
(* (stack); a page has two units, so the heap starts at 8 = sbrk(0) and    *)
(* KERNBASE is 16.  Process 1 runs the script, its first child is 2.       *)
(***************************************************************************)
EXTENDS Integers, Sequences, TLC

Heap     == 8
KERN     == 16
AnyRet   == -1..KERN

Call(call, want)  == [call |-> call, want |-> want]
Load(a, want)     == Call("load", want) @@ [addr |-> a]
Store(a, v)       == Call("store", {"ok"}) @@ [addr |-> a, val |-> v]
ShmGet(n, want)   == Call("shm_get", want) @@ [name |-> n]
ShmRem(n, want)   == Call("shm_rem", want) @@ [name |-> n]
Sbrk(n, want)     == Call("sbrk", want) @@ [n |-> n]
Fork(kid, want)   == Call("fork", want) @@ [kid |-> kid]
Exec(args, prog, want) == Call("exec", want) @@ [args |-> args, prog |-> prog]
Kill(pid)         == Call("kill", {0}) @@ [pid |-> pid]
Wait(want)        == Call("wait", want)
Await             == Call("await", {0})
Sleep             == Call("sleep", {0})
Pause             == Call("pause", {0})
-----------------------------------------------------------------------------
\* The parent's page keeps its value while the child has a page of its own.
shm_testlvl1 ==
  <<ShmGet("first", {8}), Store(8, "hello"), Load(8, {"hello"}),
    Fork(<<ShmGet("second", {10}), Load(10, {"zero"}), Store(10, "bye"), Load(10, {"bye"}), ShmRem("second", {0})>>, {2}),
    Load(8, {"hello"}), Wait({2}), ShmRem("first", {0})>>

\* A child inherits the page; its update is seen after it has removed the page.
shm_testlvl2 ==
  <<ShmGet("second", {8}), Store(8, "hello"), Load(8, {"hello"}),
    Fork(<<Load(8, {"hello"}), Store(8, "bye"), Load(8, {"bye"}), ShmRem("second", {0})>>, {2}),
    Wait({2}), Load(8, {"bye"}), ShmRem("second", {0})>>

\* Parent and child get the page by its name.
shm_testlvl3 ==
  <<Fork(<<ShmGet("third", {8}), Store(8, "bye"), Load(8, {"bye"}), ShmRem("third", {0})>>, {2}),
    ShmGet("third", {8}), Wait({2}), Load(8, {"bye"}), ShmRem("third", {0})>>

\* The child sleeps until the parent has its page and waits.
shm_testfinal ==
  <<Fork(<<Sleep, ShmGet("third", {8}), Store(8, "hello"), ShmGet("fourth", {10}), Sbrk(2, {12}), Store(10, "bye"),
           Load(8, {"hello"}), Load(10, {"bye"}), ShmRem("third", {0}), ShmRem("fourth", {0})>>, {2}),
    ShmGet("third", {8}), Wait({2}), Load(8, {"hello"}), ShmRem("third", {0})>>

\* The child executes a program that gets the page again and writes to it; the parent
\* sees the update.
shm_testexecfile ==
  <<ShmGet("exec1", {8}), Load(8, {"hello"}), Store(8, "bye"), Load(8, {"bye"}), ShmRem("exec1", {0})>>
shm_testexec ==
  <<ShmGet("exec1", {8}), Store(8, "hello"), Load(8, {"hello"}), Fork(<<Exec(1, shm_testexecfile, {-1})>>, {2}),
    Wait({2}), Load(8, {"bye"}), ShmRem("exec1", {0})>>

exitwait == <<Fork(<<>>, {2}), Wait({2}), Fork(<<>>, {2}), Wait({2}), Fork(<<>>, {2}), Wait({2})>>

\* Forks until one fails, with 3 processes in the table; then as many waits.
forktest ==
  <<Fork(<<>>, {2}), Fork(<<>>, {3}), Fork(<<>>, {-1}), Wait({2, 3}), Wait({2, 3}), Wait({-1})>>

\* Growing by less than a page, over a page table, shrinking, and the child's copy.
sbrktest ==
  <<Sbrk(1, {8}), Store(8, "hello"), Sbrk(1, {9}), Sbrk(1, {10}),
    Fork(<<Sbrk(1, {11}), Load(8, {"hello"})>>, {2}), Sbrk(1, {11}), Wait({2}),
    Sbrk(2, {12}), Store(13, "bye"), Sbrk(-2, {14}), Load(13, {"fault"})>>
\* The page that is given back comes again as zeros.
sbrkAgain ==
  <<Sbrk(2, {8}), Store(9, "bye"), Sbrk(-2, {10}), Sbrk(2, {8}), Load(9, {"zero"}), Sbrk(-2, {10}), Sbrk(KERN, {-1})>>
\* The kernel's memory is not the program's.
sbrkKernel == <<Fork(<<Load(KERN, {"fault"})>>, {2}), Wait({2}), Fork(<<Load(4, {"fault"})>>, {2}), Wait({2})>>
\* The children take what they can get; what a failed sbrk took is free again.
sbrkMuch ==
  LET kid == <<Sbrk(6, AnyRet), Pause>>
  IN <<Fork(kid, AnyRet), Await, Fork(kid, AnyRet), Await, Sbrk(2, {8}), Kill(2), Wait({2}), Kill(3), Wait(AnyRet)>>

\* Data that the program file does not hold is zero.
bsstest == <<Load(2, {"zero"}), Load(3, {"zero"}), Load(0, {"text"})>>

\* Arguments of more than a page are refused.
bigargtest == <<Fork(<<Exec(3, <<>>, {-1}), Load(0, {"text"})>>, {2}), Wait({2})>>

\* Processes that inherit a shared page and run out of pages in sbrk, fork and exec.
hungry(n) ==
  LET kid == <<Sbrk(n, AnyRet), Exec(1, <<Sbrk(2, AnyRet)>>, AnyRet)>>
  IN <<ShmGet("a", {8}), Sbrk(n, AnyRet), Fork(kid, AnyRet), Fork(kid, AnyRet), Sbrk(2, AnyRet), Wait(AnyRet), Wait(AnyRet),
       Load(8, {"zero"})>>

\* The last user of a shared page executes a program, which drops the page.
execLast == <<ShmGet("a", {8}), Exec(1, <<>>, {})>>

\* A shared page at the end of the address space.
shmAtTop == <<Sbrk(6, {8}), ShmGet("a", {0})>>
=============================================================================
