-------------------------------- MODULE Pipe --------------------------------
(***************************************************************************)
(* A pipe of pipe.c and the two struct files of file.c that refer to it,   *)
(* shared by processes through fork: pipewrite, piperead, fileclose with   *)
(* pipeclose, and kill.                                                    *)
(*                                                                         *)
(* A step is what a process does under pipe.lock until it sleeps or        *)
(* returns, or what fileclose does under ftable.lock.  The counters nread  *)
(* and nwrite are unsigned and wrap: the model keeps them modulo W, which  *)
(* stands for 2^32.                                                        *)
(***************************************************************************)
EXTENDS Integers, Sequences, FiniteSets

CONSTANTS Procs, First,  \* the processes, and the one that calls pipe()
          PIPESIZE,
          W,             \* the counters' modulus
          Bytes,
          Sizes,         \* the n of a read or a write
          Victims        \* the processes that may be killed

ASSUME PipeAssumption ==
  /\ First \in Procs /\ IsFiniteSet(Procs)
  /\ PIPESIZE \in Nat \ {0} /\ W \in Nat /\ W > PIPESIZE /\ W % PIPESIZE = 0
  /\ Sizes \subseteq Nat
  /\ Victims \subseteq Procs

VARIABLES
  data, nread, nwrite, readopen, writeopen,  \* struct pipe
  freed,            \* how often kfree was given the pipe's page
  ref,              \* f->ref of the read and of the write end
  ofile,            \* the ends a process has open
  pc, left,         \* where a process is, and the bytes its call has still to move
  exiting, killed

pipeVars == <<data, nread, nwrite, readopen, writeopen, freed>>
vars     == <<pipeVars, ref, ofile, pc, left, exiting, killed>>

Ends   == {"r", "w"}
Points == {"unborn", "user", "write", "wsleep", "read", "rsleep", "close_r", "close_w", "dead"}

TypeOK ==
  /\ data \in [0..(PIPESIZE - 1) -> Bytes]
  /\ nread \in 0..(W - 1) /\ nwrite \in 0..(W - 1)
  /\ readopen \in BOOLEAN /\ writeopen \in BOOLEAN
  /\ freed \in Nat
  /\ ref \in [Ends -> Nat]
  /\ ofile \in [Procs -> SUBSET Ends]
  /\ pc \in [Procs -> Points]
  /\ left \in [Procs -> Nat]
  /\ exiting \in [Procs -> BOOLEAN] /\ killed \in [Procs -> BOOLEAN]

\* pipealloc has returned to sys_pipe; the data is whatever the page held, and the
\* counters start at zero.
Init ==
  /\ \E b \in Bytes : data = [i \in 0..(PIPESIZE - 1) |-> b]
  /\ nread = 0 /\ nwrite = 0
  /\ readopen = TRUE /\ writeopen = TRUE
  /\ freed = 0
  /\ ref = [e \in Ends |-> 1]
  /\ ofile = [p \in Procs |-> IF p = First THEN Ends ELSE {}]
  /\ pc = [p \in Procs |-> IF p = First THEN "user" ELSE "unborn"]
  /\ left = [p \in Procs |-> 0]
  /\ exiting = [p \in Procs |-> FALSE] /\ killed = [p \in Procs |-> FALSE]

-----------------------------------------------------------------------------
\* The bytes piperead can take before nread meets nwrite.
Used == (nwrite - nread) % W

\* Takes a pipe with one byte too many for not yet full.
RoomPlusOne == (nread + PIPESIZE + 1 - nwrite) % W

\* The bytes pipewrite can add before nwrite meets nread + PIPESIZE.
Room == (nread + PIPESIZE - nwrite) % W

Least(a, b) == IF a < b THEN a ELSE b

\* p goes to at, and wakeup(): the processes asleep at from try again at to.
GoWaking(p, at, from, to) ==
  pc' = [q \in Procs |-> IF q = p THEN at ELSE IF pc[q] = from THEN to ELSE pc[q]]

Go(p, at) == pc' = [pc EXCEPT ![p] = at]

\* A user program makes a system call; trap() lets no killed process in.
Enters(p, e) == pc[p] = "user" /\ ~exiting[p] /\ ~killed[p] /\ e \in ofile[p]

-----------------------------------------------------------------------------
(* pipewrite *)

CallWrite(p, n) ==
  /\ Enters(p, "w")
  /\ left' = [left EXCEPT ![p] = n]
  /\ Go(p, "write")
  /\ UNCHANGED <<pipeVars, ref, ofile, exiting, killed>>

\* The bytes that go in before the pipe is full.
Store(p) ==
  LET k == Least(left[p], Room) IN
  /\ \E s \in [0..(k - 1) -> Bytes] :
       data' = [i \in DOMAIN data |->
                  IF \E j \in 0..(k - 1) : (nwrite + j) % PIPESIZE = i
                    THEN s[CHOOSE j \in 0..(k - 1) : (nwrite + j) % PIPESIZE = i]
                    ELSE data[i]]
  /\ nwrite' = (nwrite + k) % W

\* All written: wakeup(&p->nread) and return n.
WriteReturns(p) ==
  /\ pc[p] = "write" /\ left[p] <= Room
  /\ Store(p)
  /\ left' = [left EXCEPT ![p] = 0]
  /\ GoWaking(p, "user", "rsleep", "read")
  /\ UNCHANGED <<nread, readopen, writeopen, freed, ref, ofile, exiting, killed>>

\* Full and nobody to read, or killed: return -1, without a wake-up.
WriteFails(p) ==
  /\ pc[p] = "write" /\ left[p] > Room
  /\ ~readopen \/ killed[p]
  /\ Store(p)
  /\ left' = [left EXCEPT ![p] = 0]
  /\ Go(p, "user")
  /\ UNCHANGED <<nread, readopen, writeopen, freed, ref, ofile, exiting, killed>>

\* Sleeps on a full pipe without waking the readers.
WriteSleepsQuietly(p) ==
  /\ pc[p] = "write" /\ left[p] > Room
  /\ readopen /\ ~killed[p]
  /\ Store(p)
  /\ left' = [left EXCEPT ![p] = @ - Room]
  /\ Go(p, "wsleep")
  /\ UNCHANGED <<nread, readopen, writeopen, freed, ref, ofile, exiting, killed>>

WriteSleeps(p) ==
  /\ pc[p] = "write" /\ left[p] > Room
  /\ readopen /\ ~killed[p]
  /\ Store(p)
  /\ left' = [left EXCEPT ![p] = @ - Room]
  /\ GoWaking(p, "wsleep", "rsleep", "read")
  /\ UNCHANGED <<nread, readopen, writeopen, freed, ref, ofile, exiting, killed>>

-----------------------------------------------------------------------------
(* piperead *)

CallRead(p, n) ==
  /\ Enters(p, "r")
  /\ left' = [left EXCEPT ![p] = n]
  /\ Go(p, "read")
  /\ UNCHANGED <<pipeVars, ref, ofile, exiting, killed>>

\* Takes what there is, up to n bytes, or nothing once the write end is closed.
ReadReturns(p) ==
  /\ pc[p] = "read"
  /\ Used # 0 \/ ~writeopen
  /\ nread' = (nread + Least(left[p], Used)) % W
  /\ left' = [left EXCEPT ![p] = 0]
  /\ GoWaking(p, "user", "wsleep", "write")
  /\ UNCHANGED <<data, nwrite, readopen, writeopen, freed, ref, ofile, exiting, killed>>

ReadFails(p) ==
  /\ pc[p] = "read"
  /\ Used = 0 /\ writeopen /\ killed[p]
  /\ left' = [left EXCEPT ![p] = 0]
  /\ Go(p, "user")
  /\ UNCHANGED <<pipeVars, ref, ofile, exiting, killed>>

ReadSleeps(p) ==
  /\ pc[p] = "read"
  /\ Used = 0 /\ writeopen /\ ~killed[p]
  /\ Go(p, "rsleep")
  /\ UNCHANGED <<pipeVars, ref, ofile, left, exiting, killed>>

-----------------------------------------------------------------------------
(* fileclose and pipeclose, for close() and for exit() *)

\* close() leaves the descriptor in place.
FileCloseKeepsFd(p, e) ==
  /\ pc[p] = "user" /\ (exiting[p] \/ ~killed[p]) /\ e \in ofile[p]
  /\ ref' = [ref EXCEPT ![e] = @ - 1]
  /\ IF ref[e] > 1 THEN UNCHANGED pc ELSE Go(p, IF e = "r" THEN "close_r" ELSE "close_w")
  /\ UNCHANGED <<pipeVars, ofile, left, exiting, killed>>

\* The descriptor is gone; fileclose under ftable.lock.
FileClose(p, e) ==
  /\ pc[p] = "user" /\ (exiting[p] \/ ~killed[p]) /\ e \in ofile[p]
  /\ ofile' = [ofile EXCEPT ![p] = @ \ {e}]
  /\ ref' = [ref EXCEPT ![e] = @ - 1]
  /\ IF ref[e] > 1 THEN UNCHANGED pc ELSE Go(p, IF e = "r" THEN "close_r" ELSE "close_w")
  /\ UNCHANGED <<pipeVars, left, exiting, killed>>

\* Frees the page as soon as one end is closed.
PipeCloseFreesEarly(p) ==
  /\ \/ pc[p] = "close_w" /\ writeopen' = FALSE /\ UNCHANGED readopen
        /\ GoWaking(p, "user", "rsleep", "read")
     \/ pc[p] = "close_r" /\ readopen' = FALSE /\ UNCHANGED writeopen
        /\ GoWaking(p, "user", "wsleep", "write")
  /\ freed' = freed + 1
  /\ UNCHANGED <<data, nread, nwrite, ref, ofile, left, exiting, killed>>

PipeClose(p) ==
  /\ \/ pc[p] = "close_w" /\ writeopen' = FALSE /\ UNCHANGED readopen
        /\ GoWaking(p, "user", "rsleep", "read")
     \/ pc[p] = "close_r" /\ readopen' = FALSE /\ UNCHANGED writeopen
        /\ GoWaking(p, "user", "wsleep", "write")
  /\ freed' = IF readopen' \/ writeopen' THEN freed ELSE freed + 1
  /\ UNCHANGED <<data, nread, nwrite, ref, ofile, left, exiting, killed>>

-----------------------------------------------------------------------------
(* fork, exit and kill, as far as they touch the pipe *)

\* filedup of every open file.
Fork(p, q) ==
  /\ pc[p] = "user" /\ ~exiting[p] /\ ~killed[p] /\ pc[q] = "unborn"
  /\ ofile' = [ofile EXCEPT ![q] = ofile[p]]
  /\ ref' = [e \in Ends |-> IF e \in ofile[p] THEN ref[e] + 1 ELSE ref[e]]
  /\ Go(q, "user")
  /\ UNCHANGED <<pipeVars, left, exiting, killed>>

\* exit(), by the program or by trap() for a killed process, closes the files one by one.
Exit(p) ==
  /\ pc[p] = "user" /\ ~exiting[p]
  /\ exiting' = [exiting EXCEPT ![p] = TRUE]
  /\ UNCHANGED <<pipeVars, ref, ofile, pc, left, killed>>

ExitDone(p) ==
  /\ pc[p] = "user" /\ exiting[p] /\ ofile[p] = {}
  /\ Go(p, "dead")
  /\ UNCHANGED <<pipeVars, ref, ofile, left, exiting, killed>>

\* A sleeper becomes runnable.
Kill(p) ==
  /\ p \in Victims /\ pc[p] \notin {"unborn", "dead"} /\ ~killed[p]
  /\ killed' = [killed EXCEPT ![p] = TRUE]
  /\ Go(p, CASE pc[p] = "rsleep" -> "read" [] pc[p] = "wsleep" -> "write" [] OTHER -> pc[p])
  /\ UNCHANGED <<pipeVars, ref, ofile, left, exiting>>

-----------------------------------------------------------------------------
Calls(p)   == \E n \in Sizes : CallRead(p, n) \/ CallWrite(p, n)
Writing(p) == WriteReturns(p) \/ WriteFails(p) \/ WriteSleeps(p)
Reading(p) == ReadReturns(p) \/ ReadFails(p) \/ ReadSleeps(p)
Closing(p) == (\E e \in Ends : FileClose(p, e)) \/ PipeClose(p)

Next ==
  \E p \in Procs :
    \/ Calls(p) \/ Writing(p) \/ Reading(p) \/ Closing(p)
    \/ (\E q \in Procs : Fork(p, q)) \/ Exit(p) \/ ExitDone(p) \/ Kill(p)

Spec == Init /\ [][Next]_vars

-----------------------------------------------------------------------------
(* Properties *)

Fifo == INSTANCE BoundedFifo
          WITH Size <- PIPESIZE, in <- writeopen, out <- readopen,
               q <- [i \in 1..Used |-> data[(nread + i - 1) % PIPESIZE]]

\* pipewrite/piperead: bytes come out in the order they went in, none twice and none
\* overwritten, however often the counters wrap.
ImplementsFifo == Fifo!Spec

\* pipewrite/piperead/pipeclose: a writer sleeps only while the pipe is full and somebody
\* may read; a reader only while somebody may write, and only on an empty pipe, unless a
\* writer was killed: that one fills the pipe and returns without a wake-up.
SleepersWait ==
  \A p \in Procs :
    /\ pc[p] = "wsleep" => Used = PIPESIZE /\ readopen
    /\ pc[p] = "rsleep" => writeopen /\ (Used = 0 \/ \E q \in Procs : killed[q])

\* fileclose/pipeclose: the page is freed once, when the last descriptor is gone, and not
\* while a process is at work on the pipe.
FreedOnce ==
  /\ freed <= 1
  /\ freed = 1 => \A p \in Procs : ofile[p] = {} /\ pc[p] \in {"unborn", "user", "dead"}
  /\ (\A p \in Procs : ofile[p] = {} /\ pc[p] \in {"unborn", "user", "dead"}) => freed = 1

=============================================================================
