SPECIFICATION Spec
CONSTANTS
    Exports = {"e1", "e2"}
    Objects <- ColObjects
    NULL = NULL
    ExRoot <- ColExRoot
    ObjParent <- ColParent
    FsDev <- ColFsDev
    Ino <- ColIno
    Dirs <- ColDirs
    Present0 <- ColPresent0
    MountPoints = {}
    MaxSizes <- MCMaxSizes
    Mangles <- MCMangles
    MaxGen = 2
INVARIANT HandlesRoundTrip
