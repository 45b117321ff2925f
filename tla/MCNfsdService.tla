--------------------------- MODULE MCNfsdService ---------------------------
EXTENDS NfsdService

MCFailAll == {"create", "bind", "socket", "kthread", "unshare"}
MCFailNoBind == {"create", "socket", "kthread", "unshare"}
MCFailNone == {}
====
