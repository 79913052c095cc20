---------------------------- MODULE RunQueueSpec ----------------------------
(***************************************************************************)
(* What the run queue of proc.c promises, without pointers: one sequence   *)
(* of processes per priority.  A new process goes to the front of its      *)
(* priority, the scheduler serves the first runnable process of the best   *)
(* priority and moves it to the back, an exiting process is taken out.  A  *)
(* process stops being runnable only by being served.                      *)
(***************************************************************************)
EXTENDS Naturals, Sequences, Functions

CONSTANTS Procs, Prios

VARIABLES q,        \* q[b]: the processes of priority b, in order
          runnable  \* the processes that wait for a CPU

Linked(p) == \E b \in Prios : p \in Range(q[b])
Without(p, b) ==
  LET k == CHOOSE k \in DOMAIN q[b] : q[b][k] = p
  IN  SubSeq(q[b], 1, k - 1) \o SubSeq(q[b], k + 1, Len(q[b]))

\* The sequence of priority b becomes s, the others stay.
Becomes(b, s) == q'[b] = s /\ \A a \in Prios \ {b} : q'[a] = q[a]

Init == q \in [Prios -> Seq(Procs)] /\ runnable \subseteq Procs

Push(p, b) ==
  /\ Becomes(b, <<p>> \o q[b])
  /\ ~Linked(p)
  /\ UNCHANGED runnable

Drop(p, b) ==
  /\ p \in Range(q[b])
  /\ Becomes(b, Without(p, b))
  /\ runnable \subseteq runnable'

Serve(p, b) ==
  /\ p \in runnable /\ runnable' = runnable \ {p}
  /\ \A a \in Prios : a < b => Range(q[a]) \cap runnable = {}
  /\ \E i \in DOMAIN q[b] :
       /\ q[b][i] = p
       /\ \A j \in 1..(i - 1) : q[b][j] \notin runnable
  /\ Becomes(b, Append(Without(p, b), p))

Ready == runnable \subseteq runnable' /\ UNCHANGED q

Next ==
  \/ Ready
  \/ \E p \in Procs, b \in Prios : Push(p, b) \/ Drop(p, b) \/ Serve(p, b)

Spec == Init /\ [][Next]_<<q, runnable>>

=============================================================================
