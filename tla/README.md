# TLA+ models of xv6-docker

xv6-docker is the teaching kernel xv6 (x86, C) extended with containers, named mutexes
with condition variables, shared memory pages, a priority scheduler and a user-level
container manager. This directory holds TLA+ modules for the parts of the kernel where
order and interleaving decide whether the code is right, TLC configurations that check
them on small instances, and TLAPS proofs of the properties that matter most.
`PROJECT.json` lists the components, the runs, the lines every definition models, the
hazards the properties are aimed at, and the theorems.

    tlc -config ProcLifecycle.cfg MCProc      # one run
    tlapm ProcProofs.tla                      # one module of proofs

## The system

| part | state | operations | hard behaviour | module |
|---|---|---|---|---|
| processes, scheduler (`proc.c`, `trap.c`, `sysproc.c`) | `ptable`, `prioqueue`, `cpus[]` | fork2, exit, wait, kill, sleep/wakeup, yield, scheduler, prio_set | several CPUs, preemption between locks, slots and pids reused, hand-linked queues | Proc, PrioQueue |
| mutexes (`proc.c`, `sleeplock.c`) | `mutexes[16]`, `locks[]` of a process | mutex_create/get/delete/lock/unlock, cv_wait, cv_signal | look-ups without a lock, counts spread over fork, exit and delete, owners that die | Mutex |
| log (`log.c`) | log header and blocks on disk, `struct log`, dirty buffers | begin_op, log_write, end_op/commit, initlog | crash between any two writes, log space | Log |
| buffer cache, disk (`bio.c`, `ide.c`, `memide.c`) | `NBUF` buffers, request queue | bget, bread, bwrite, brelse, iderw, ideintr | interrupts, buffers recycled or pinned, lock and count given up apart | Disk |
| inodes, directories, files (`fs.c`, `sysfile.c`, `file.c`) | inode cache, bitmap, link counts, file table | iget, iput, bmap, namex, link, unlink, create, open, read, write | reference and link counts over many error paths, lock order | Inode, FileSys |
| pipes (`pipe.c`, `file.c`) | ring buffer, two open flags, file reference counts | pipewrite, piperead, pipeclose, fileclose, filedup | wrapping counters, two sleep channels, closing against sleeping | Pipe |
| memory (`vm.c`, `kalloc.c`, `exec.c`) | page tables, free list, `shm_infos` | allocuvm, copyuvm, freevm, exec, sbrk, shm_get, shm_rem | pages shared across fork, exec and exit; running out of pages half-way | Memory |
| console (`console.c`) | line buffer, saved buffers, `active` | consoleintr, consoleread | a switch while somebody reads, wrapping indices | Console |
| containers (`container.c`) | `manager.containers[]` | setnextproc, setpath, setroot, get_new_cid | limit on processes, paths, no lock | Proc, Paths |
| image builder (`mkfs.c`) | the image | ialloc, iappend | | Mkfs |
| test programs, init, ls, cp | | system calls | | UserTests, MemTests |
| container manager (`cm.c`, `dockv6.c`), locks, user library, shell, boot code, vendored `jsmn.h` | | | | not modelled |

The parts meet in a few places: exit() closes files, drops shared pages, releases mutexes and
wakes the parent; fork2 copies descriptors, mutex handles, shared pages and the container; every
sleep and wake-up goes through `sleep`/`wakeup1`; every file system call runs between begin_op and
end_op and gets its blocks through the buffer cache; wait() frees the child's pages and returns
it to its container's count.

## Modules

A step of a model is one critical section, or one stretch of kernel code between two of
them; a lock that is only held inside a step does not appear. Locks held across steps do:
the scheduler's `ptable.lock`, which the process it switches to releases.

**PrioQueue** is the run queue of `proc.c` as the code keeps it, heads and next pointers, with
`pq1_enqueue`, `remove_node` and `pq1_dequeue` as operators. A loop over a list closed on
itself, which never ends, is a predicate `...Loops`.
**Proc** is the process table over it: `Schedule`, `Resume` and `Yield` for the scheduler and
the timer, `AllocProc` to `ForkRunnable` for fork2 with its windows, `Exit` with the variant
for a process that owns a mutex (`ExitReleasesMutex`, `ExitFinish`), `WaitReaps`/`WaitSleeps`,
`Kill`, `Sleep`, `Tick`, `Fault`, and `PrioSet` to `PrioEnqueue` for the four unlocked stretches
of prio_set. `Workload` selects what programs do in an instance. The container's limit and
count (`setnextproc`, wait) are part of it; containers are taken as alive.
**RunQueueSpec** says what the queue promises, with sequences: a new process in front, the
first runnable of the best priority served and moved to the back. Proc reads the pointers of a
bucket as a sequence (`AsSeq`) and states the refinement, `ImplementsRunQueue`.

**Mutex** models `struct mutex`, the handles `locks[]` and the sleep-lock below them, on `NCPU`
CPUs. mutex_create chooses a slot before it takes a lock and publishes the name before it resets
the sleep-lock, so these are steps of their own. Every `count++` and `count--` is a load and a
store (`CreateLoad`, `CreateStore`, ...), because allocproc holds no lock there (`proc.c:174`),
mutex_create and mutex_delete hold the mutex's spin-lock (`:948`, `:1014`) and exit `ptable.lock`
(`:362`). exit is cut where it gives `ptable.lock` up to release a mutex it owns
(`ExitOwn`, `ExitRelease`, `ExitRelock`; `:363-368`), fork at each handle that allocproc copies.
At the points `Uncut` a process keeps its CPU: it holds a spin-lock or is between pushcli and
popcli, or it is at allocproc's `count++`, one instruction in the kernel's `-O2` build. So on
one CPU nobody sees those points, and on two somebody does. `crit` and the counters `signals`
and `waits` record history for the properties only. A process that is back from cv_wait passes
through `CvReturn`. Not followed: a mutex_create that initialises a spin-lock which another CPU
holds (`:946`; the holder's release panics).

**Log** models `log.c` with the blocks on disk, the header, the cached blocks and their dirty
flags. Every write of a block is a step, `Crash` may come between any two, in recovery too,
and recovery starts again. log_write is two steps, since it looks at `log.lh.n` before it
takes `log.lock`. **AtomicDisk** is the promise: what is on disk changes in one step, only
when no operation is in progress, and a crash loses only what no commit has reached.

**Pipe** models one pipe and its two files, shared through fork. **BoundedFifo** is the promise
about the bytes.

**Disk** models the buffers, their counts, flags and sleep-locks, the list in the order of use,
`idequeue`, what the drive has been told to do, and the drive's interrupt. A step is a critical
section of `bcache.lock` or `idelock`, or the taking or giving of a buffer's lock. Both drivers are
there. **BlockStore** is the promise to the users of the cache: every block has one holder at most
and one current content, which only its holder changes.

**Inode** holds the functions of `fs.c` that run under an inode's lock, as operators from one file
system state to the next: balloc, bmap with the indirect block, itrunc, ialloc, iget, readi, writei,
dirlookup, dirlink. A file is a sequence of units, a unit a byte or a directory entry, and a panic
is part of the state. **Mkfs** builds the image that a run starts from, as `mkfs.c` does.
**FileSys** has the system calls as processes execute them: a step ends where an inode's lock is
given up or waited for, so the lock order, the window inside iput, and those between link's two
halves, unlink's two locks and create's are all there. `pc` is the stack of the pieces of kernel code
that a process has still to run, `loc` the inodes, the file and the progress of its call (the C
locals that hold references), `arg` its path and its result. **Paths** is skipelem and setpath.
setpath writes the new path over the string that its caller passed to chdir (`container.c:199`):
`text` has the strings of a program that no longer read as they were written, and every call looks
its path up there (`Text`). Equal literals of a program are one string, as `-O2` makes them; what
the longer path overwrites behind the literal is not modelled. Reading and writing a device goes to the
console, which takes what it is given and returns what was typed (`fs.c:450`, `:476`; module
Console has the rest).
**UserTests** turns tests of `usertests.c`, init, ls and cp into scripts: the calls, in their order,
with the results that the test checks, and children as scripts of their own. FileSys takes any
of them as the program of its first process; sizes and repetition counts are cut down, keeping
a file that needs the indirect block, a directory of several blocks and writes of several chunks.

**Memory** models the free list, two-level page tables (a page for the directory, for the kernel's
part and for each table), what a page holds (text, zeros, junk, or what a program stored),
`shm_infos` and every process's `shms`, and the calls sbrk, fork, exec, exit, wait, shm_get, shm_rem,
with loads and stores that fault. The table of shared pages has no lock, so shm_get is cut after
each of its searches, and shm_rem after it counts down, after it frees the page, and after it clears the
page's address. A shm_get that found a name may meet an entry emptied meanwhile; the page it
then maps, at V2P(0), is beyond the memory (`Hole`). shm_rem of an address without a
page table reads the word at the program's address 0 for the entry (`vm.c:490`), whose content is left
open (`Freed`). Names are never empty and have one length.
**MemTests** gives the `shm_test*.c` programs and the memory tests of `usertests.c` as scripts, and
`hungry`, which inherits a shared page and runs out of pages at every point of sbrk, fork and exec.

**Console** models `input`, the saved `inputs` and `active`, one character of consoleintr per step,
and consoleread from its lock to its sleep or return. `missed` is history: the readers that have
slept since before a switch. **Terminals** is the promise: every console has its own line being
edited and its own entered characters, read in order and once.

`MCProc`, `MCMutex`, `MCLog`, `MCDisk`, `MCFileSys`, `MCPipe`, `MCMemory`, `MCConsole` give the
instances; `ProcProofs`, `MutexProofs`, `LogProofs`, `DiskProofs`, `FsProofs`, `FsBlockProofs`,
`PipeProofs` and `ConsoleProofs` hold the theorems. Beside some definitions stands a wrong variant
(`EnqueueLast`, `LogWriteUnpinned`, ...): the mistake a programmer could make there. `PROJECT.json`
names, for every property, the variant that TLC rejects under the same configuration.

## Runs

| run | instance | what it shows |
|---|---|---|
| ProcLifecycle | 4 slots, 1 CPU, pids to 4, mutex owners, a container at its limit | `ParentAlive`, `PidsUnique`; `NoMissedZombie`: nobody sleeps in wait() past a zombie; `QueueOK`: lists end, a process is in the bucket of its priority and nowhere else; `CountsExact`; `ImplementsRunQueue`: the lists refine RunQueueSpec |
| ProcPriorities | 3 slots, 2 CPUs, prio_set | prio_set corrupts the queue (see below); `RunningOnOneCpu` holds all the same |
| ProcLiveness | 3 slots, 1 CPU, kill, sleep, faults, failing forks, mutex owners | `OrphanReaped`, `RoundRobin`, `KilledDies` |
| MutexLocking | 3 processes, 1 CPU, 2 mutexes, one creator | `MutualExclusion`, `NoLostRelease`, `DeadOwnNothing`, `CountsHandles` |
| MutexSignalling | 3 processes, 2 CPUs, 1 mutex, two creators, 2 signals | `NoLostSignal`, `SignalsBalance` |
| LogCrash | 2 processes, 2 blocks, 2 values, a log of 3 | `ImplementsAtomicDisk`, `IdleDurable`, `SleeperHasWaker`, `SleeperWoken` |
| PipeShared | 3 processes, 2 bytes of buffer, counters modulo 4 | `ImplementsFifo`, `SleepersWait`, `FreedOnce` |
| DiskCache | 2 processes, 3 blocks, 2 buffers, either driver | `ImplementsStore`: one current copy of a block, no change lost, the right buffer completed; `CountExact`; `RequestServed`: every request comes back |
| FsTests | 25 programs, up to 3 processes, 8 inodes, 16 blocks | `TestsPass`: every call returns what its program checks and nothing panics; `LinksExact`: link counts are the number of names at every step; `BlocksExact`: bitmap, blocks and inodes agree and nothing in use is freed; `RefsExact`: no error path loses or leaks a reference |
| FsDeadlock | linkunlink of `usertests.c` | violation of `TestsEnd`: two processes wait for each other's inode |
| MemoryTests | 11 programs with 31 pages, `hungry` with 12 to 31, up to 3 processes | `ProgramsPass`: what programs load is what they or their sharers stored, new memory is zero; `PagesExact`: every page is free or used once, however the program runs out of pages; `ShmRefsExact` |
| ConsoleLines | 2 readers, 2 consoles, a buffer of 2 with indices modulo 4, 5 keys | `ImplementsTerminals`; `NoMissedLine`: only a switch can leave a reader asleep past a line |

Bounds. Three slots give init, a child and a grandchild, or two siblings: enough for orphans and
reused slots. The fourth of ProcLifecycle gives a zombie that is not a child of init's child,
so that init sleeps unless exit() wakes it for its inheritance, and a bucket with a node in
its middle. One CPU is enough there: on it exit()'s window with `ptable.lock` released is
closed, since pushcli keeps the timer out; a second CPU opens it (see Disagreements), and
`NoLostExit` proves `NoMissedZombie` for any number of CPUs without mutex owners.
ProcPriorities has two CPUs. MutexLocking has one, which is what the Makefile starts (`CPUS := 1`,
`Makefile:243`): processes are preempted wherever interrupts are on, and the same instance with two
CPUs fails (see Disagreements). MutexSignalling, whose properties do not depend on it, has
two. `MAXPID` bounds the forks of a run; a slot is reaped and used
again within it. `PRIO_MAX` is 6 because fork2 gives pid 2 the
priority 5. The log keeps the code's ratio `LOGSIZE = 3 * MAXOPBLOCKS` and `nlog = LOGSIZE`
(`mkfs.c`), and operations may write more than `MAXOPBLOCKS` blocks, as filewrite's do. The
pipe's modulus is a multiple of its size, as 2^32 is of 512, so the counters wrap within a few
calls; writes of 3 bytes fill a pipe of 2 and sleep. The console's indices wrap in the same way.
With two buffers and three blocks every bread may have to recycle, and two pinned buffers make the
third panic. FileSys has 2 units in a block, 2 direct and 3 indirect blocks: files cross the
boundary with their fifth unit, and a directory with its dots and three names has two blocks.
Six inodes in the cache are enough that only a leak fills it. `iref` is cut to one turn; the second
fails (see Disagreements). Memory
has two page tables of 4 pages; `hungry` is started with every number of pages from what it needs to start to what it
needs to finish. Runs without deadlock checking are those where the system may stop: a process
table locked by an endless loop, no program that calls anything more, all users of a pipe gone, a
panic, no more keys.

Fairness. ProcLiveness: each CPU's scheduler loop and its release of `ptable.lock` go on (weak);
each CPU's timer interrupts it and a process that gets the CPU again and again executes
something (strong, because other CPUs and the lock get in between); the tick's wakeup gets
`ptable.lock` in the end (strong, for the same reason). init calls wait() for ever (`init.c`).
LogCrash: recovery, commits and log_write go on
(weak); an operation ends (strong, because it writes finitely many blocks). DiskCache: the drive
interrupts when it is done, and a process with a step of iderw to take is scheduled (weak).
FsDeadlock: every process with a step to take is scheduled (weak), so the counterexample is not one
that simply stops.

## Disagreements

Places where the code does not do what its comments, its tests or `REPORT.md` say. The first has a
run; the others were found by TLC with the change of a configuration that is given.

- create and unlink hold an inode's lock when `iunlockput(dp)` takes the directory's again inside
  iput, link holds the directory's when dirlink's iput takes the inode's (`sysfile.c:265`, `:214`,
  `fs.c:542`): linkunlink, the test "to look for deadlocks" (`usertests.c:850`), can stop for ever
  (FsDeadlock). Two unlinks of one inode, or `link("f", ".")`, do the same.
- `exit()` wakes the parent, then drops `ptable.lock` to release a mutex, then becomes a zombie
  (`proc.c:345-367`); the parent may look and go back to sleep for ever. (ProcLifecycle with
  NPROC = 3, NCPU = 2, Cids <- NoContainers, MaxProc <- NoLimits, Workload <- OwnsMutex:
  `NoMissedZombie`.)
- `prio_set` holds no lock between `remove_node` and `pq1_enqueue` (`proc.c:690-694`): a process
  preempted there is runnable and in no bucket. (ProcPriorities with NCPU = 1, MAXPID = 4:
  `RunnableLinked`.)
- `mutex_create` picks a slot unlocked (`proc.c:938`); two creators share it and the second resets
  a lock that is held. (MutexLocking with Creators <- Anybody, Workload <- Forking:
  `MutualExclusion`.)
- `exit()` counts a mutex it owns down, gives `ptable.lock` up and then releases the mutex
  (`proc.c:362-366`): on two CPUs the slot may be created anew in between, and exit frees the lock of
  its new owner, or leaves sleepers of the old one behind a free lock. (MutexLocking with NCPU = 2:
  `MutualExclusion`, `NoLostRelease`.) And no lock is common to the places that change `count`
  (`proc.c:174`, `:362`, `:1014`): on two CPUs updates are lost. (The same: `CountsHandles`.)
  `REPORT.md:75` has mutual exclusion tested, on the one CPU of the Makefile.
- `waiting_procs` is indexed by pid (`proc.c:1137`); pid 64 writes `cv_count`. (MutexSignalling with
  Pids <- LatePids, Creators <- Parent, Workload <- Waiting: `SignalsBalance`.)
- `filewrite` sizes an operation by `LOGSIZE` (`file.c:126`), and `log_write` checks the space before
  it locks (`log.c:216`): the header's array can be overrun. (LogCrash under Spec with three Procs,
  Blocks = 1..4, Values = {0}, Crashes = FALSE: `LogFits`.)
- iput looks at the count and decrements it in two sections (`fs.c:332`, `:345`): of two callers at
  once each sees the other's reference, and an inode without names stays allocated, against the
  comment at `fs.c:322`. (FsTests: `NoOrphan`.)
- setpath applies the elements of an absolute path to the current path (`container.c:164`), so
  `chdir("/")` stays where it is, it changes `path` before chdir has looked for the directory, and it
  writes the new path over the caller's string (`:199`): iputtest, iref and subdir of `usertests.c`
  fail. iref passes "irefd" to mkdir and chdir on every turn (`usertests.c:1345`); on the second
  the string reads "/irefd/", which exists. rmdot, which would remain in its directory, passes
  because its "dots" has become "/dots/". `MAXFILE` is twice what bmap can map (`fs.h:26`):
  writetest1 panics. (FsTests with Tests <- FailingTests: `TestsPass`. Each test starts in a process
  of its own; `usertests.c` runs them one after the other in one.)
- the table of shared pages has no lock (`vm.c:405`, `:429`): in `shm_testlvl3.c` parent and child may
  get different pages, against `REPORT.md:67`, and one that has found the name may map a page
  that the other's shm_rem frees. (MemoryTests with Tests <- RacingTests: `ProgramsPass`,
  `PagesExact`, `ShmRefsExact`.)
- exec drops the mapping of a shared page and keeps its name, since the code that would map it again
  is commented out (`exec.c:86-91`). `REPORT.md:71` says of shm_testexec "A new process gets forked
  and that child calls exec function and changes the value inside the shared memory. The parent is
  still able to access and see the update": the child's shm_get returns an address at which nothing
  is mapped, its first load faults, and the parent sees the old value. If the process that executes
  a program is the page's last user, the page is lost (`execLast`). (MemoryTests with Tests <-
  FailingTests: `ProgramsPass`, `PagesExact`.)
- shm_allocuvm returns 0 at KERNBASE (`vm.c:399`) and shm_get takes it for the first entry of the table:
  it returns an address without a page. (The same, `shmAtTop`: `ProgramsPass`. The machine has
  too little memory to get there by sbrk alone, `memlayout.h:4`.)

The models show these too, without a property of their own: kill() matches pid 0 and stale pids of
free slots, whose next owner is born killed (`proc.c:605`); a failed fork leaves the container's
and the mutexes' counts up (`proc.c:142`); a container gets `max_proc + 2` processes
(`container.c:299`); prio_set links a zombie child again, whose slot is later in two buckets
(`proc.c:690`); mutex_get can find a mutex before its lock is reset (`proc.c:963`); cv_wait
returns without the mutex although `race.c:43-45` relies on it (`proc.c:1139`); the log has one
block less than begin_op hands out, as `nlog` counts the header (`mkfs.c:25`, `log.c:216`); a
writer killed on a full pipe returns without waking the readers (`pipe.c:81-84`); a full transaction
leaves bget without a buffer, as NBUF is LOGSIZE (`bio.c:92`); create in a directory that has been
unlinked makes an inode nobody can reach (`sysfile.c:237`); copyuvm loses the page it has just
allocated when mappages fails (`vm.c:344`, the pages `lost` of Memory); shm_allocuvm counts a
reference before mappages can fail (`vm.c:406`) and leaves the page mapped when the table is full;
shm_rem takes a page off the size wherever the page was (`vm.c:487`); control-T wakes no reader, so
a line typed ahead is not read after switching away and back until the next line (`console.c:226`).

## Proofs

`ProcProofs`, for every number of slots, CPUs and pids, all containers and every workload, prio_set
included: `TypeCorrect`, `CpuExclusion`, `ParentsAlive`, `PidsDiffer`. The inductive invariant adds
to these what they rest on: a slot being forked is EMBRYO and has one forker (`EmbryoOwned`), or
the child could be scheduled half-made; the locals of a preempted fork2 or prio_set keep their
types (`LocalsOK`); init is alive and has no parent (`InitAlive`), or reparenting would hand
children to a dead process; a child has its parent before it can run (`ForkParent`); a process
in the middle of exit has no children left (`ExitChildless`); no pid reaches nextpid
(`PidsBounded`). Each action has a lemma of its own. Nothing is assumed of the run queue: what
Schedule picks is RUNNABLE, and that is enough. `NoLostExit` proves `NoMissedZombie` under the
assumption that no exiting process owns a mutex, which is needed (see Disagreements). Its
invariant says that who sleeps in wait() sleeps on its own channel.

`ChargesExact` proves `CountsExact` by a cardinality argument: each step adds the process it forks
to the set a container is charged for, or takes the one it reaps out, or leaves the set alone. It
needs that a process in the middle of fork2 cannot exit or be reaped (`ForkerRuns`) and that the
child has its container before it counts by itself (`ChildCid`).

`QueueConsistent` and `QueueImplementsSpec` are about the pointers of the run queue, under the
assumption that nobody calls prio_set (with it they are false, see ProcPriorities). `IsList(L, b, s)`
says that the heads and next pointers of bucket b are the sequence s, which repeats nobody; lemmas
say what a walk meets on such a list, and that unlinking, appending and putting in front do to s
what they should and touch nothing outside the bucket. The invariant `QInv` says that every bucket
is a list and (`Placed`) a process is linked into the bucket of its priority from fork2's enqueue to
exit's removal; that a process linked nowhere has next = NULL (`Loose`), without which pq1_enqueue,
which does not assign next when the bucket is empty, would link a forgotten tail; that a child is
linked once and has its priority by then (`Forking`); and that exit is not preempted between removal
and zombie (`Undisturbed`). A walk of any length is handled by the least place where two walks
differ, which takes the place of induction.

`MutexProofs`, for every number of processes, mutexes and CPUs, concurrent creators and mutex_get
included: `TypeCorrect`; `NoDeadOwner`, from the invariant that an owner is alive and still has a
handle, so that exit() finds the mutex (this is where the order inside mutex_delete matters:
unlock first, drop the handle after) or is at the step of exit that releases it; and `SignalsKept`,
no lost and no made-up signal, under the assumption that no process has pid NPROC, which is needed too.

Its second part is about one CPU. `CountIsHandles`, without mutex_get: a count is the number of
handles and of creations under way. The invariant adds that at most one process is at a point
`Uncut` and that what it has loaded is still the count, so no update is lost. On it rest
`OneInside` and `NoSleepOnFree`, for one creator: a slot with count 0 has no handle, and nobody is
between exit's count-- and its release, so the lock can be reset. TLC finds counterexamples when
any of the assumptions is dropped: two CPUs, mutex_get, a second creator.

`LogProofs` has three invariants. `ControlInv` (who runs, who commits, what outstanding counts) is
inductive by itself and gives `SleepersHaveWakers` for operations of any size. `DataInv` says what
disk, log and cache hold in each phase of a commit and of a recovery: before write_head the home
blocks are as the last commit left them; after it the log holds what the cache holds for every listed
block, each listed once; a clean cached block equals its home block. It is inductive while the header's
array is not overrun, so `LogImplementsAtomicDisk`, `IdleIsDurable` and `LogTypes` have `[]LogFits` as
a hypothesis, which the code does not guarantee (see Disagreements). `SpaceInv` says when it does:
if no operation writes more than MAXOPBLOCKS blocks, the blocks listed and those reserved and not
used together fit (`ReservationKeepsLog`), and the refinement holds outright.

`DiskProofs`: `UsersCounted` and `CacheImplementsStore`, for both drivers. Invariant: a block has
one buffer at most; every buffer is in the list once; the count of a buffer is the number of its
users, so one with users or changes is not recycled; the queue holds locked buffers, each once, and
the drive works on its head; a clean valid buffer equals the disk.

`FsProofs`: `SpecRefsExact`, `SpecInUse` and `SpecFileRefs`, and `FsBlockProofs`: `SpecBlocksExact`,
for any number of processes, descriptors, files, inodes and blocks, any image that is sound and
accounted for, and any scripts of calls, so for programs that the tests do not contain. `RefsExact`
speaks of the moments when no call is under way and is not inductive. The invariant `RInv` accounts
for every reference at every moment. It says

- which stacks `pc` there are (`Stacks`: a call's own steps, with iput on top of them or not);
- which locals are references at each of them (`IpLabels`, `DpLabels`, `Linking`, and x inside iput),
  and where the current directory has been given up already (`LeftLabels`);
- that a cached inode's count is the number of these and of the open files with that inode
  (`RefsCounted`);
- that the locals a stack relies on name inodes (`Kernel`), and that a process in filewrite's loop has
  its file open and is within its data (`Writing`);
- that a struct file has as many descriptors as its count, an inode exactly when it is in use, and,
  between sys_open's filealloc and its assignments, one descriptor only (`FileOK`, `DescOK`, `Opening`).

`Good` says `RInv` unless the kernel has panicked; then some call never ends, and `RefsExact` says
nothing. The first part has a lemma for every operator of Inode: iget and ialloc take one reference or
panic, all others leave the counts alone and keep the cache, the blocks and the bitmap well formed
(`Sound`: also that a unit below an inode's size has a block, without which readi and dirlookup would
have no value). writei's loop is a recursive function, and what it keeps follows from the least turn
that does not. The second part has one lemma per action of FileSys, most of them from three patterns:
a step to another place of the call (`BodyCase`), a step to iput (`PutCase`), and the entry into a call
(`EntersStep`). Counting is by `OneChanges`: only the process that steps can join or leave the holders.
The counts need nothing of locks: they are exact although iput looks at one and decrements it in two
sections, even where that leaves an inode without names allocated (`NoOrphan`, see Disagreements).

`SpecBlocksExact` rests on `RInv` and on who has locked which inode. Its invariant, `BInv`, holds of a
kernel that has not panicked; balloc marks a block before the inode that gets it is written, so a
panic in the middle of writei leaves the bitmap ahead of the inodes, and `BlocksExact` says nothing
then. It says

- that bitmap, blocks and inodes on the disk agree (`Accounted`);
- that a valid cached inode has the type and the blocks of the disk's (`Tended`), except in iput
  between the iupdate that writes type 0 and the assignment to valid (`Stale`): whoever
  used it in that gap would use a freed inode, and nobody does, because iput has it locked;
- that a process has locked, and has read, the inodes that its place in a call relies on: ip or dp
  in link, unlink, create and open, and x while iput frees it (`ClaimsOK`);
- that an inode which is open or somebody's directory, or which open or chdir is about to make so,
  is allocated (`PinsOK`);
- that iput frees only what nobody holds so, and nothing that the call around it has locked
  (`FreeOK`). When iput decides, `RInv` says that the count of 1 which it has seen is its own
  reference; afterwards somebody else may still get a reference through namex, but open and chdir
  lock an inode and check its type before they keep it, and iput has it locked.

Each operator of Inode has a lemma on what it does to `Accounted` and `Tended` (bmap and writei give
a free block to one inode, itrunc returns exactly what the inode had, ialloc takes an inode without
blocks), and each action of FileSys one on `BInv`.

`PipeProofs`: `TypeCorrect`, `SleepersHaveReason`, `PageFreedOnce` and `PipeImplementsFifo`.
Reference counts are the numbers of descriptors, an end is open as long as it has one or somebody is
about to close it, and nwrite - nread modulo W is at most PIPESIZE. `ConsoleProofs`: `NoLineMissed` and
`ConsoleImplementsTerminals`, from the invariant that in `input` and in every saved buffer what is
entered and what is edited fit and no line's end is being edited. Both begin with lemmas on ring buffers: an index
that wraps at W names the same byte as one that does not, because the size divides W, and distances
modulo W are lengths.

The assumptions are the named ASSUMEs of the models on sizes; TLC evaluates them in every run: there
are finitely many processes, the ring buffers' sizes divide the modulus of their indices, an
operation's reservation is no larger than the log, and the image that mkfs builds fits on its disk,
has a root, and its bitmap is right (`ImageAssumption`). Workload conditions are hypotheses of the theorems
that need them and are named above.

Only model-checked:

- liveness (`OrphanReaped`, `RoundRobin`, `KilledDies`, `SleeperWoken`, `RequestServed`),
  which is out of the prover's reach;
- `TestsPass` and `ProgramsPass`, which are about the results that given programs expect;
- `LinksExact`, which is false for arbitrary programs: create in a directory that has been unlinked
  enters a name that nobody can reach. The scripts of UserTests do not do that;
- `PagesExact` and `ShmRefsExact`, which arbitrary programs falsify: two processes at once in the
  unlocked table of shared pages, or shm_get failing after it has counted (see above);
- what prio_set does to the run queue, where there is nothing to prove.

## Not modelled

Registers, device registers, formatting and argument fetching are left out throughout. Also:

- `sys_remove_node`, which takes a kernel pointer from a program, and the kernel's test calls
  `test_0..2`; pipealloc's failure path; name_for_inode and sys_getcwd; consolewrite and cprintf,
  which only write to the display (consolewrite looks at `active` before it locks, so a switch can
  show it on the wrong console, `console.c:326`).
- The drive's errors: ideintr marks a buffer valid whose read failed (`ide.c:115`).
- FileSys has no transactions: begin_op and end_op exclude nobody, and Log has them. setpath runs
  for a process outside the containers, whose entry `containers[-1]` is taken as an empty root.
- Spin-locks: a critical section is one step everywhere, which is what `spinlock.c` provides.
- The container manager and its clients: the pages and mutexes they use are Memory and Mutex; the
  rest is sequential user code, as are the shell, the user allocator and the C library.
- Boot code and the vendored JSON parser.

What would be worth adding: the container manager's protocol over Mutex; Log over Disk; `LinksExact`
under the hypothesis that nobody creates names in a directory that has been unlinked.
