----------------------------- MODULE BlockStore -----------------------------
(***************************************************************************)
(* What the buffer cache promises its users: a block has one current       *)
(* content, at most one process at a time has it, only that process        *)
(* changes it, and the next one finds what the last one left.              *)
(***************************************************************************)
CONSTANTS Procs, Blocks, Values, Nobody

VARIABLES current, holder

Init == current \in [Blocks -> Values] /\ holder = [n \in Blocks |-> Nobody]

Get(p, n) == holder[n] = Nobody /\ holder' = [holder EXCEPT ![n] = p] /\ UNCHANGED current
Change(p, n) ==
  /\ holder[n] = p
  /\ \E v \in Values : current' = [current EXCEPT ![n] = v]
  /\ UNCHANGED holder
Give(p, n) == holder[n] = p /\ holder' = [holder EXCEPT ![n] = Nobody] /\ UNCHANGED current

Next == \E p \in Procs, n \in Blocks : Get(p, n) \/ Change(p, n) \/ Give(p, n)
Spec == Init /\ [][Next]_<<current, holder>>
=============================================================================
