\* svc_bind may fail: nfsd_create_serv destroys the new server and leaves
\* nn->nfsd_serv pointing at it.  Serialised keeps the nfssvc.c:246 race out,
\* so the violation found is the svc_bind path's own.
SPECIFICATION Spec
CONSTANTS
    Writers = {w1}
    Threads = {t1, t2}
    Servs = {s1, s2}
    NULL = NULL
    WriteCounts = {0, 1, 2}
    Fail <- MCFailAll
    Serialised = TRUE
INVARIANT ServLifetimeSafe
