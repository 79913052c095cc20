----------------------------- MODULE Terminals ------------------------------
(***************************************************************************)
(* What the console promises its readers: every console has a line that    *)
(* the user edits and the characters of the lines that are entered; a      *)
(* reader gets the entered characters of its own console, in the order in  *)
(* which they were typed there, each once and no further than a line's     *)
(* end.  An end of file stays for the next read if this one has something  *)
(* to return.                                                              *)
(***************************************************************************)
EXTENDS Naturals, Sequences

CONSTANTS Consoles, Procs, Chars, Size

VARIABLES edit, ready,  \* the line being edited, and what has been entered
          dst,          \* what each process has got from its latest read
          con           \* the console of each process

LineEnds == {"nl", "eof"}

Init ==
  /\ edit  = [c \in Consoles |-> <<>>]
  /\ ready = [c \in Consoles |-> <<>>]
  /\ dst   = [p \in Procs |-> <<>>]
  /\ con \in [Procs -> Consoles]

\* A line's end enters the line, and so does the last place of the buffer.
Store(c, ch) ==
  LET line == Append(edit[c], ch)
  IN  /\ Len(ready[c] \o line) <= Size
      /\ IF ch \in LineEnds \/ Len(ready[c] \o line) = Size
         THEN ready' = [ready EXCEPT ![c] = @ \o line] /\ edit' = [edit EXCEPT ![c] = <<>>]
         ELSE edit' = [edit EXCEPT ![c] = line] /\ UNCHANGED ready
      /\ UNCHANGED dst

\* One character, or the whole line.
Erase(c) ==
  /\ edit[c] # <<>>
  /\ \E k \in {0, Len(edit[c]) - 1} : edit' = [edit EXCEPT ![c] = SubSeq(@, 1, k)]
  /\ UNCHANGED <<ready, dst>>

Call(p) == dst' = [dst EXCEPT ![p] = <<>>] /\ UNCHANGED <<edit, ready>>

Read(p) ==
  LET s == ready[con[p]]
  IN  \E k \in 1..Len(s) :
        LET got  == SubSeq(s, 1, IF s[k] = "eof" THEN k - 1 ELSE k)
            left == IF dst'[p] = <<>> THEN k ELSE Len(got)
        IN  /\ \A i \in 1..(k - 1) : s[i] \notin LineEnds
            /\ dst'   = [dst EXCEPT ![p] = @ \o got]
            /\ ready' = [ready EXCEPT ![con[p]] = SubSeq(@, left + 1, Len(@))]
            /\ UNCHANGED edit

Next ==
  \/ \E c \in Consoles : Erase(c) \/ \E ch \in Chars : Store(c, ch)
  \/ \E p \in Procs : Call(p) \/ Read(p)

Spec == Init /\ [][Next /\ UNCHANGED con]_<<edit, ready, dst, con>>
=============================================================================
