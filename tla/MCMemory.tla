------------------------------ MODULE MCMemory ------------------------------
EXTENDS Memory

\* The scripts use constructors with the names of the actions.
T == INSTANCE MemTests

MCImage == [file |-> 1, mem |-> 2]
On(n, tests) == {[pages |-> n, script |-> t] : t \in tests}
PassingTests ==
  On(31, {T!shm_testlvl1, T!shm_testlvl2, T!shm_testfinal, T!exitwait, T!forktest, T!sbrktest,
          T!sbrkAgain, T!sbrkKernel, T!bsstest, T!bigargtest, T!sbrkMuch})
  \cup UNION {On(n, {T!hungry(2), T!hungry(4)}) : n \in 12..31}
\* A program that passes on some schedules only, and those that the kernel does not pass
\* (README, Disagreements).
RacingTests == On(31, {T!shm_testlvl3})
FailingTests == On(31, {T!shm_testexec, T!execLast, T!shmAtTop})
=============================================================================
