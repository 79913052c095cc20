------------------------------- MODULE MCProc -------------------------------
EXTENDS Proc

NoContainers   == {}
OneContainer   == {0}
NoLimits       == [c \in {} |-> 0]
LimitZero      == [c \in {0} |-> 0]

\* What the programs of an instance do.
Lifecycle   == {"fork", "exit", "wait", "kill", "mutex"}
Priorities  == {"fork", "exit", "wait", "prio_set"}
Killing     == {"fork", "exit", "wait", "kill", "sleep", "fault", "oom", "mutex"}

\* With two CPUs NoMissedZombie fails for this workload (README, Disagreements).
OwnsMutex   == {"fork", "exit", "wait", "mutex"}
=============================================================================
