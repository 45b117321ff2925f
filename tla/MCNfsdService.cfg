\* The lifecycle as the code runs it, with no lock around write_threads or
\* a thread's exit, and every call but svc_bind fallible.  An oops ends the
\* writer (the race's use of a freed or NULL nn->nfsd_serv), and with one
\* writer nothing is left to run: the system may stop.
SPECIFICATION Spec
CONSTANTS
    Writers = {w1}
    Threads = {t1, t2}
    Servs = {s1, s2}
    NULL = NULL
    WriteCounts = {0, 1, 2}
    Fail <- MCFailNoBind
    Serialised = FALSE
CHECK_DEADLOCK FALSE
CONSTRAINT NotRaced
INVARIANT TypeOK RefsExact ServLifetimeSafeUnlessRaced ShutdownCleanUnlessRaced
PROPERTY SignalledThreadsExitUnlessRaced
