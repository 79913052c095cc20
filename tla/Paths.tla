------------------------------- MODULE Paths -------------------------------
(***************************************************************************)
(* Path names: how namex cuts one into elements, and how setpath rewrites  *)
(* the textual current path that every process keeps beside its cwd inode. *)
(*                                                                         *)
(* A path is [abs, elems]: whether it starts with a slash, and its         *)
(* elements; repeated and trailing slashes are dropped, as skipelem and    *)
(* strtok drop them.  A process's own path is absolute, so it is the       *)
(* sequence of its elements.                                               *)
(***************************************************************************)
EXTENDS Naturals, Sequences, SequencesExt

CONSTANT Shortened  \* names longer than DIRSIZ, with the DIRSIZ characters kept

Rel(elems) == [abs |-> FALSE, elems |-> elems]
Abs(elems) == [abs |-> TRUE, elems |-> elems]

\* The name that skipelem stores for an element.
SkipElem(e) == IF e \in DOMAIN Shortened THEN Shortened[e] ELSE e

\* What one token does to the current path: ".." removes an element unless there is
\* none, and everything else, "." included, is appended.
PathStep(cur, token) ==
  IF token = ".." THEN (IF cur = <<>> THEN cur ELSE Front(cur)) ELSE Append(cur, token)

\* The path that setpath stores: it applies the tokens to the current path even when
\* the argument is absolute.
NewPath(cur, path) == FoldLeft(PathStep, cur, path.elems)

\* setpath returns at once for "."
Unmoved(path) == ~path.abs /\ path.elems = <<".">>

\* What the caller's buffer holds after setpath has succeeded.
Rewritten(cur, path) == IF Unmoved(path) THEN path ELSE Abs(NewPath(cur, path))
=============================================================================
