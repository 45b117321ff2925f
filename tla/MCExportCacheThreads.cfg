CONSTANTS
    Threads = {t1, t2}
    Ids = {i1, i2, i3}
    Paths <- MCRootOnly
    Root <- MCRoot
    Parent <- MCParent
    Key = Key
    RootFhPaths = {}
    NULL = NULL
SYMMETRY MCSymmetry
SPECIFICATION Spec
INVARIANT TypeOK RefCountsExact ExternalRefsExact DuplicatesOnlyPending
PROPERTY CachesRefineCacheMap
