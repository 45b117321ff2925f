\* Lowering the thread count right after raising it, among the behaviours in
\* which no write_threads call overlaps another or a thread's exit
\* (Serialised): the code has these and more, so the violation is the code's.
SPECIFICATION Spec
CONSTANTS
    Writers = {w1}
    Threads = {t1, t2}
    Servs = {s1, s2}
    NULL = NULL
    WriteCounts = {0, 1, 2}
    Fail <- MCFailNone
    Serialised = TRUE
PROPERTY VictimsExit
