----------------------------- MODULE MCFileSys ------------------------------
EXTENDS FileSys

\* The tests use constructors with names that FileSys also uses for its own operators.
U == INSTANCE UserTests

MCShortened == "n15" :> "n14"
MCFiles     == <<[name |-> "cat", data |-> <<Byte("#")>>]>>
PassingTests ==
  {U!exitiputtest, U!openiputtest, U!opentest, U!writetest, U!createtest, U!dirtest, U!sharedfd, U!fourfiles,
   U!createdelete, U!unlinkread, U!linktest, U!concreate, U!linkunlink, U!bigdir, U!bigwrite, U!bigfile,
   U!fourteen, U!rmdot, U!dirfile, U!iref(1), U!initmain, U!ls, U!cprm, U!openmany, U!subdir \o U!subdirErrors}
LockingTests == {U!linkunlink}

\* Tests that this file system does not pass (README, Disagreements).
FailingTests == {U!iputtest, U!iref(2), U!subdir \o U!subdirChdir, U!writetest1(MAXFILE)}
=============================================================================
