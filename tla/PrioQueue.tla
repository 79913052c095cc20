------------------------------ MODULE PrioQueue ------------------------------
(***************************************************************************)
(* The run queue of proc.c: prioqueue.queue[PRIO_MAX], one singly linked   *)
(* list of processes per priority, threaded through the field p->next.     *)
(*                                                                         *)
(* The lists are kept as the code keeps them, with heads and next          *)
(* pointers, because the ways they can go wrong (a process linked twice, a *)
(* list closed on itself) are what the pointers are for.  A run queue is a *)
(* record L with L.queue[b], the head of bucket b, and L.next[p].  A slot  *)
(* of ptable.proc is its index + 1; NULL is 0.                             *)
(*                                                                         *)
(* Every operator is the effect of one function body that runs under       *)
(* prioqueue.lock.  A loop that would never end because its list is closed *)
(* on itself is described by a predicate ...Loops of its own.              *)
(***************************************************************************)
EXTENDS Integers

CONSTANTS NPROC,    \* param.h: number of slots of the process table
          PRIO_MAX  \* proc.c:18: number of priorities

ASSUME SizesAssumption == NPROC \in Nat \ {0} /\ PRIO_MAX \in Nat \ {0}

NULL    == 0
Slots   == 1..NPROC
Ptr     == Slots \cup {NULL}
Buckets == 0..(PRIO_MAX - 1)

\* The pointer after i steps along bucket b, for every i up to NPROC.
Walk(L, b) ==
  LET w[i \in 0..NPROC] ==
        IF i = 0 THEN L.queue[b]
        ELSE LET p == w[i - 1] IN IF p = NULL THEN NULL ELSE L.next[p]
  IN  w

\* The processes linked into bucket b.
Bucket(L, b) == LET w == Walk(L, b) IN {w[i] : i \in 0..NPROC} \ {NULL}

\* A list of NPROC slots that is not closed has ended after NPROC steps.
Endless(L, b) == Walk(L, b)[NPROC] # NULL

\* The position of the first node of bucket b that belongs to S.
FirstAt(L, b, S) ==
  CHOOSE i \in 0..NPROC :
    /\ Walk(L, b)[i] \in S
    /\ \A j \in 0..(i - 1) : Walk(L, b)[j] \notin S

\* The last node of bucket b, when it has one and the list ends.
LastOf(L, b) ==
  CHOOSE p \in Bucket(L, b) : L.next[p] = NULL

\* prev->next = cur->next, or the head of the bucket when cur is the first.
UnlinkAt(L, b, i) ==
  LET cur == Walk(L, b)[i] IN
  IF i = 0
    THEN [queue |-> [L.queue EXCEPT ![b] = L.next[cur]], next |-> L.next]
    ELSE [queue |-> L.queue,
          next  |-> [L.next EXCEPT ![Walk(L, b)[i - 1]] = L.next[cur]]]

\* *head = cur; cur->next = NULL, with head run to the end of bucket b.
LinkLast(L, b, p) ==
  IF L.queue[b] = NULL
    THEN [queue |-> [L.queue EXCEPT ![b] = p], next |-> [L.next EXCEPT ![p] = NULL]]
    ELSE [queue |-> L.queue,
          next  |-> [L.next EXCEPT ![LastOf(L, b)] = p, ![p] = NULL]]

-----------------------------------------------------------------------------
(* pq1_enqueue: p becomes the head.  p->next is assigned only when the     *)
(* bucket had a head.                                                      *)

\* The same with the new process put in front but not linked to the old head.
EnqueueDropsTail(L, p, b) == [L EXCEPT !.queue[b] = p]

\* Appends instead, as a first-in first-out queue would.
EnqueueLast(L, p, b) == LinkLast(L, b, p)

Enqueue(L, p, b) ==
  IF L.queue[b] = NULL
    THEN [queue |-> [L.queue EXCEPT ![b] = p], next |-> L.next]
    ELSE [queue |-> [L.queue EXCEPT ![b] = p],
          next  |-> [L.next EXCEPT ![p] = L.queue[b]]]

-----------------------------------------------------------------------------
(* remove_node: searches bucket curproc->priority for a node with          *)
(* curproc's pid.  Same is the set of slots with that pid.                 *)

RemoveLoops(L, b, Same) == Endless(L, b) /\ Bucket(L, b) \cap Same = {}

Remove(L, b, Same) ==
  IF Bucket(L, b) \cap Same = {}
    THEN L
    ELSE LET i == FirstAt(L, b, Same)
             U == UnlinkAt(L, b, i)
         IN  [queue |-> U.queue, next |-> [U.next EXCEPT ![Walk(L, b)[i]] = NULL]]

-----------------------------------------------------------------------------
(* pq1_dequeue: the first RUNNABLE process of the first bucket that has    *)
(* one, moved to the end of the bucket its own priority names.  Runnable   *)
(* is the set of slots whose state is RUNNABLE, prio the priority field.   *)

HasRunnable(L, b, Runnable) == Bucket(L, b) \cap Runnable # {}

\* The bucket the scan stops in.
ScanStops(L, b, Runnable) ==
  /\ HasRunnable(L, b, Runnable)
  /\ \A a \in 0..(b - 1) : ~HasRunnable(L, a, Runnable)

\* The scan meets a closed list with nothing RUNNABLE in it first.
ScanLoops(L, Runnable) ==
  \E b \in Buckets :
    /\ Endless(L, b)
    /\ \A a \in 0..b : ~HasRunnable(L, a, Runnable)

\* The process the scan stops at.
Picked(L, p, Runnable) ==
  \E b \in Buckets :
    /\ ScanStops(L, b, Runnable)
    /\ p = Walk(L, b)[FirstAt(L, b, Runnable)]

\* cur taken out of the bucket of its priority, if it is linked there.
Unlinked(L, p, prio) ==
  IF p \in Bucket(L, prio[p]) THEN UnlinkAt(L, prio[p], FirstAt(L, prio[p], {p})) ELSE L

\* The search for cur's predecessor, or the search for the end, does not end.
MoveLoops(L, p, prio) ==
  \/ Endless(L, prio[p]) /\ p \notin Bucket(L, prio[p])
  \/ Endless(Unlinked(L, p, prio), prio[p])

\* Puts the process back at the head: the others of its bucket starve.
RotateToHead(L, p, prio) == Enqueue(Unlinked(L, p, prio), p, prio[p])

Rotate(L, p, prio) == LinkLast(Unlinked(L, p, prio), prio[p], p)

=============================================================================
