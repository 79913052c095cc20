------------------------------- MODULE MCMutex -------------------------------
EXTENDS Mutex

ThreePids  == {1, 2, 3}
OneName    == {"mux"}
Parent     == {1}
Anybody    == {1, 2}

Locking    == {"delete", "fork", "exit", "kill"}
Signalling == {"get", "cv", "fork", "oom", "exit", "kill"}

\* Instances in which MutualExclusion and SignalsBalance fail (README, Disagreements).
LatePids   == {1, 2, 64}
Forking    == {"fork"}
Waiting    == {"cv", "fork"}
=============================================================================
