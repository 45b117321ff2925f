SPECIFICATION Spec
CONSTANTS
    Exports = {"e1", "e2"}
    Objects <- MCObjects
    NULL = NULL
    ExRoot <- MCExRoot
    ObjParent <- MCParent
    FsDev <- MCFsDev
    Ino <- MCIno
    Dirs <- MCDirs
    Present0 <- MCPresent0
    MountPoints = {}
    MaxSizes <- MCMaxSizes
    Mangles <- MCZeroed
    MaxGen = 2
INVARIANT ReplyOkOnlyIfResolvable
