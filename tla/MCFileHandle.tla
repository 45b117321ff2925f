---------------------------- MODULE MCFileHandle ----------------------------
(***************************************************************************)
(* Instances of FileHandle.  One filesystem (device 8:1) holds the fs root *)
(* "top" (ino 2), the exported directory "ex" (ino 12), the file "f" and   *)
(* the name "n" that clients may create and remove.  Export e2 is the fs   *)
(* root and e1 is "ex", so ".." of e1's root lies outside e1.  The         *)
(* collision instance puts two exports on devices 0:65536 and 1:0, both    *)
(* with root inode 2.                                                      *)
(***************************************************************************)
EXTENDS FileHandle

MCObjects == {"top", "ex", "f", "n"}
MCExRoot == [e \in Exports |-> IF e = "e1" THEN "ex" ELSE "top"]
MCParent == [o \in Objects |-> CASE o \in {"top", "ex"} -> "top"
                                 [] OTHER -> "ex"]
MCFsDev == [o \in Objects |-> [major |-> 8, minor |-> 1]]
MCIno == [o \in Objects |-> [hi |-> 0, lo |-> CASE o = "top" -> 2
                                                [] o = "ex"  -> 12
                                                [] o = "f"   -> 13
                                                [] OTHER     -> 14]]
MCDirs == {"top", "ex"}
MCPresent0 == {"top", "ex", "f"}
MCMaxSizes == {16, 32, 64}
MCMangles == {"zero", "truncated", "badauth", "badfsidtype"}
MCZeroed == {"zero"}

\* Two filesystems whose (MAJOR << 16) | MINOR coincide.
ColObjects == {"ra", "rb", "fa"}
ColExRoot == [e \in Exports |-> IF e = "e1" THEN "ra" ELSE "rb"]
ColParent == [o \in Objects |-> IF o = "fa" THEN "ra" ELSE o]
ColFsDev == [o \in Objects |-> IF o = "rb" THEN [major |-> 1, minor |-> 0]
                                          ELSE [major |-> 0, minor |-> 65536]]
ColIno == [o \in Objects |-> [hi |-> 0, lo |-> IF o = "fa" THEN 12 ELSE 2]]
ColDirs == {"ra", "rb"}
ColPresent0 == {"ra", "rb", "fa"}
=============================================================================
