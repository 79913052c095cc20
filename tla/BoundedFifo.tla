----------------------------- MODULE BoundedFifo -----------------------------
(***************************************************************************)
(* What a pipe promises about its bytes: they come out in the order they   *)
(* went in, each once, and no more than Size of them are underway.  Bytes  *)
(* only go in while the pipe is open for writing, and only come out while  *)
(* it is open for reading.                                                 *)
(***************************************************************************)
EXTENDS Naturals, Sequences

CONSTANTS Bytes, Size

VARIABLES q,       \* the bytes underway
          in, out  \* whether somebody may still write, still read

Init == q = <<>> /\ in = TRUE /\ out = TRUE

Put == \E k \in 1..(Size - Len(q)) : \E s \in [1..k -> Bytes] :
  in /\ q' = q \o s /\ UNCHANGED <<in, out>>

Take == \E k \in 1..Len(q) :
  out /\ q' = SubSeq(q, k + 1, Len(q)) /\ UNCHANGED <<in, out>>

Close == (in' => in) /\ (out' => out) /\ UNCHANGED q

Next == Put \/ Take \/ Close

Spec == Init /\ [][Next]_<<q, in, out>>

=============================================================================
