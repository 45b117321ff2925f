CONSTANTS
    Threads = {t1}
    Ids = {i1, i2, i3}
    Paths <- MCPaths
    Root <- MCRoot
    Parent <- MCParent
    Key = Key
    RootFhPaths <- MCBelowRoot
    NULL = NULL
SYMMETRY MCSymmetry
SPECIFICATION Spec
INVARIANT TypeOK RefCountsExact ExternalRefsExact DuplicatesOnlyPending
PROPERTY CachesRefineCacheMap
