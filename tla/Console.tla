------------------------------ MODULE Console -------------------------------
(***************************************************************************)
(* The console of console.c: one line buffer, input, which control-T       *)
(* exchanges for the saved buffer of the next console, and the readers.    *)
(*                                                                         *)
(* A step is a critical section of cons.lock: the handling of one          *)
(* character by consoleintr, or consoleread from an acquire to its sleep   *)
(* or return.  The display is left out.  Keys bounds the user's typing.    *)
(***************************************************************************)
EXTENDS Integers, Sequences, FiniteSetsExt

CONSTANTS Procs, MAX_NUM_CONTAINERS,
          Opened,                \* which console, minor - 1, each process may have open
          INPUT_BUF, W,          \* the indices are unsigned and wrap at W
          Chars, Sizes, Victims, Keys

Consoles == 0..MAX_NUM_CONTAINERS

ASSUME ConsoleAssumption ==
  /\ INPUT_BUF \in Nat \ {0} /\ W \in Nat /\ W > INPUT_BUF /\ W % INPUT_BUF = 0
  /\ MAX_NUM_CONTAINERS \in Nat
  /\ Opened \subseteq [Procs -> Consoles] /\ Sizes \subseteq Nat \ {0}

VARIABLES input, inputs, active,
          con,     \* the console that a process has open
          at,      \* consoleread's locals: n, and what it has stored from dst on
          killed,
          missed,  \* the readers that have slept since before a switch
          keys

vars == <<input, inputs, active, con, at, killed, missed, keys>>

NoInput == [buf |-> [i \in 0..(INPUT_BUF - 1) |-> "none"], r |-> 0, w |-> 0, e |-> 0]

Init ==
  /\ input = NoInput /\ inputs = [c \in Consoles |-> NoInput] /\ active = 0
  /\ con \in Opened
  /\ at = [p \in Procs |-> [pc |-> "user", n |-> 0, dst |-> <<>>]]
  /\ killed = {} /\ missed = {} /\ keys = 0

LineEnds == {"nl", "eof"}

\* The characters of a buffer between two indices.
Between(b, from, to) == [k \in 1..((to - from) % W) |-> b.buf[(from + k - 1) % INPUT_BUF]]
Ready(b) == Between(b, b.r, b.w)
Edited(b) == Between(b, b.w, b.e)

Sleepers == {p \in Procs : at[p].pc = "sleep"}
\* wakeup(&input.r): every console's readers sleep on this channel.
Wakeup(S) == at' = [p \in Procs |-> IF p \in S \cap Sleepers THEN [at[p] EXCEPT !.pc = "loop"] ELSE at[p]]
-----------------------------------------------------------------------------
(* consoleintr *)

Pressed == keys < Keys /\ keys' = keys + 1 /\ UNCHANGED <<con, killed>>

SwitchUnsaved ==
  /\ Pressed
  /\ active' = (active + 1) % (MAX_NUM_CONTAINERS + 1)
  /\ input' = inputs[active']
  /\ missed' = missed \cup Sleepers
  /\ UNCHANGED <<inputs, at>>

\* Control-T.  Nobody is woken.
Switch ==
  /\ Pressed
  /\ inputs' = [inputs EXCEPT ![active] = input]
  /\ active' = (active + 1) % (MAX_NUM_CONTAINERS + 1)
  /\ input' = inputs'[active']
  /\ missed' = missed \cup Sleepers
  /\ UNCHANGED at

\* Control-U: back to the end of the line before, or to what has been entered.
KillLine ==
  LET ends == {k \in 1..Len(Edited(input)) : Edited(input)[k] = "nl"}
  IN  /\ Pressed
      /\ input' = [input EXCEPT !.e = (input.w + Max(ends \cup {0})) % W]
      /\ UNCHANGED <<inputs, active, at, missed>>

Backspace ==
  /\ Pressed /\ input.e # input.w
  /\ input' = [input EXCEPT !.e = (@ - 1) % W]
  /\ UNCHANGED <<inputs, active, at, missed>>

\* Return is stored as a newline.
Stored(ch) == IF ch = "cr" THEN "nl" ELSE ch

EntersQuietly(ch, e) ==
  IF Stored(ch) \in LineEnds THEN Wakeup(Procs) /\ missed' = {} ELSE UNCHANGED <<at, missed>>

\* A line's end or a full buffer wakes the readers.
Enters(ch, e) ==
  IF Stored(ch) \in LineEnds \/ e = (input.r + INPUT_BUF) % W
  THEN Wakeup(Procs) /\ missed' = {}
  ELSE UNCHANGED <<at, missed>>

Type(ch) ==
  LET e == (input.e + 1) % W
  IN  /\ Pressed
      /\ (input.e - input.r) % W < INPUT_BUF
      /\ input' = [buf |-> [input.buf EXCEPT ![input.e % INPUT_BUF] = Stored(ch)],
                   r   |-> input.r,
                   w   |-> IF Stored(ch) \in LineEnds \/ e = (input.r + INPUT_BUF) % W THEN e ELSE input.w,
                   e   |-> e]
      /\ Enters(ch, e)
      /\ UNCHANGED <<inputs, active>>
-----------------------------------------------------------------------------
(* consoleread *)

CallRead(p) == \E n \in Sizes :
  /\ at[p].pc = "user" /\ p \notin killed
  /\ at' = [at EXCEPT ![p] = [pc |-> "loop", n |-> n, dst |-> <<>>]]
  /\ UNCHANGED <<input, inputs, active, con, killed, missed, keys>>

\* What the reader finds, and the characters at which its loop ends.
Found(p) == IF active = con[p] THEN Ready(input) ELSE <<>>
Stops(p) == {k \in 1..Len(Found(p)) : k = at[p].n \/ Found(p)[k] \in LineEnds}

\* Take characters up to the k-th.  An end of file is not stored, and it is
\* put back if the read has something to return.
Taken(p, k) ==
  LET eof == k > 0 /\ Found(p)[k] = "eof"
      got == SubSeq(Found(p), 1, IF eof THEN k - 1 ELSE k)
      put == IF eof /\ at[p].dst \o got # <<>> THEN 1 ELSE 0
  IN  [r |-> (input.r + k - put) % W, n |-> at[p].n - Len(got), dst |-> at[p].dst \o got]

Take(p, k, pc) ==
  /\ input' = [input EXCEPT !.r = Taken(p, k).r]
  /\ at' = [at EXCEPT ![p] = [pc |-> pc, n |-> Taken(p, k).n, dst |-> Taken(p, k).dst]]
  /\ UNCHANGED <<inputs, active, con, killed, missed, keys>>

ReadReturns(p) == at[p].pc = "loop" /\ Stops(p) # {} /\ Take(p, Min(Stops(p)), "user")

\* The input does not suffice: all of it is taken, and consoleread sleeps.
ReadSleeps(p) ==
  at[p].pc = "loop" /\ Stops(p) = {} /\ p \notin killed /\ Take(p, Len(Found(p)), "sleep")

ReadFails(p) ==
  at[p].pc = "loop" /\ Stops(p) = {} /\ p \in killed /\ Take(p, Len(Found(p)), "user")

Kill(p) ==
  /\ p \in Victims \ killed /\ killed' = killed \cup {p}
  /\ Wakeup({p}) /\ missed' = missed \ {p}
  /\ UNCHANGED <<input, inputs, active, con, keys>>

Next ==
  \/ Switch \/ KillLine \/ Backspace
  \/ \E ch \in Chars : Type(ch)
  \/ \E p \in Procs : CallRead(p) \/ ReadReturns(p) \/ ReadSleeps(p) \/ ReadFails(p) \/ Kill(p)

Spec == Init /\ [][Next]_vars
-----------------------------------------------------------------------------
Buffer(c) == IF c = active THEN input ELSE inputs[c]

T == INSTANCE Terminals WITH
       Chars <- {Stored(ch) : ch \in Chars}, Size <- INPUT_BUF,
       edit  <- [c \in Consoles |-> Edited(Buffer(c))],
       ready <- [c \in Consoles |-> Ready(Buffer(c))],
       dst   <- [p \in Procs |-> at[p].dst]

\* The ring buffer, its wrapping indices and the copies that control-T makes
\* are consoles of their own: what is typed on one is read from that one, in
\* order and once, and editing never reaches what has been entered.
ImplementsTerminals == T!Spec

\* Nobody sleeps in consoleread past a line of the console on the screen,
\* unless the console was switched to while he slept: consoleintr wakes the
\* readers when a line is entered, and not when a switch brings one.
NoMissedLine == \A p \in Sleepers :
  active = con[p] /\ Ready(input) # <<>> => p \in missed
=============================================================================
