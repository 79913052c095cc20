------------------------------ MODULE MCConsole -----------------------------
EXTENDS Console

\* Both processes read one console, or each reads its own.
OneOrTwo == {[p \in Procs |-> 0], [p \in Procs |-> IF p = 1 THEN 0 ELSE 1]}
=============================================================================
