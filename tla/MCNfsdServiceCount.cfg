\* Raising, lowering and raising again the thread count, with no failures,
\* among the behaviours in which no write_threads call overlaps another or a
\* thread's exit (Serialised), so that the nfssvc.c:246 race is not the cause.
SPECIFICATION Spec
CONSTANTS
    Writers = {w1}
    Threads = {t1, t2}
    Servs = {s1, s2}
    NULL = NULL
    WriteCounts = {0, 1, 2}
    Fail <- MCFailNone
    Serialised = TRUE
PROPERTY ThreadCountReached
