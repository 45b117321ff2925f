\* The code as it is: no nfsd_mutex around write_threads or a thread's
\* exit, and no call fails.
SPECIFICATION Spec
CONSTANTS
    Writers = {w1}
    Threads = {t1, t2}
    Servs = {s1, s2}
    NULL = NULL
    WriteCounts = {0, 1, 2}
    Fail <- MCFailNone
    Serialised = FALSE
INVARIANT ServLifetimeSafe
