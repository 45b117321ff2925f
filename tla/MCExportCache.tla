--------------------------- MODULE MCExportCache ---------------------------
EXTENDS ExportCache, TLC

\* A root and one directory below it.  The cache objects (Ids, three model
\* values in the cfgs: enough for an old and a new expkey entry beside an
\* export entry, and few enough that allocation failure happens) are
\* interchangeable: which free object kmalloc returns changes nothing.
MCPaths == {"root", "dir"}
MCRoot == "root"
MCParent == [p \in Paths |-> "root"]
\* With two request threads, one path keeps the run short.
MCRootOnly == {"root"}
\* exp_rootfh is called on the directory: its walk reaches the root, so it
\* takes every branch a call on the root itself would.
MCBelowRoot == {"dir"}
MCSymmetry == Permutations(Threads) \cup Permutations(Ids)
====
