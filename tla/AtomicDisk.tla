------------------------------ MODULE AtomicDisk ------------------------------
(***************************************************************************)
(* What the log of log.c promises to the file system: operations bracketed *)
(* by begin_op and end_op change the blocks they see at once; what is on   *)
(* disk changes only when no operation is in progress, all of it in one    *)
(* step; a crash takes every block back to what is on disk.                *)
(***************************************************************************)
EXTENDS Naturals

CONSTANTS Blocks, Values

VARIABLES store,  \* what the disk holds, as a restart would see it
          cur,    \* what operations read
          open    \* the number of operations in progress

Init == store \in [Blocks -> Values] /\ cur = store /\ open = 0

Begin == open' = open + 1 /\ UNCHANGED <<store, cur>>

Write == \E b \in Blocks, v \in Values :
  open > 0 /\ cur' = [cur EXCEPT ![b] = v] /\ UNCHANGED <<store, open>>

End == open > 0 /\ open' = open - 1 /\ UNCHANGED <<store, cur>>

Commit == open = 0 /\ store' = cur /\ UNCHANGED <<cur, open>>

Crash == cur' = store /\ open' = 0 /\ UNCHANGED store

Next == Begin \/ Write \/ End \/ Commit \/ Crash

Spec == Init /\ [][Next]_<<store, cur, open>>

=============================================================================
