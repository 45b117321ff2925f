------------------------------ MODULE FileHandle ------------------------------
(***************************************************************************)
(* The file-handle codec of nfsd (nfsfh.c, nfsfh.h) and the requests that  *)
(* exercise it: the root handle written through the control file          *)
(* (write_filehandle, exp_rootfh), GETATTR, FSINFO, ACCESS, READDIRPLUS,    *)
(* CREATE/MKDIR and REMOVE/RMDIR (proc.c, nfs3xdr.c).  A handle is a       *)
(* record of its header fields and its body as a sequence of 32-bit words; *)
(* every request is one step, and the dentry and export reference counts   *)
(* it takes and drops are tracked so that the pairing on every path can be *)
(* checked.  The export caches are assumed populated (ExportCache models   *)
(* them); the filesystem's encode/decode of object ids is modelled from    *)
(* the generic ino32+generation encoding.                                  *)
(***************************************************************************)
EXTENDS Integers, Sequences, FiniteSets, Bitwise

CONSTANTS
    Exports,      \* svc_export records the agent has installed
    Objects,      \* dentries of the exported filesystems
    NULL,
    ExRoot,       \* [Exports -> Objects]: exp->ex_path.dentry
    ObjParent,    \* [Objects -> Objects]: d_parent; a filesystem root is its own
    FsDev,        \* [Objects -> [major, minor]]: s_dev of the object's super block
    Ino,          \* [Objects -> [hi, lo]]: i_ino as two 32-bit halves
    Dirs,         \* the objects that are directories
    Present0,     \* the objects that exist initially
    MountPoints,  \* dentries that are mount points (d_mountpoint)
    MaxSizes,     \* maxsize values written to the filehandle control file
    Mangles,      \* ways a client alters a handle it was given
    MaxGen        \* bound on i_generation: how often a name may be re-created

ExRoots == {ExRoot[e] : e \in Exports}

ASSUME /\ ExRoot \in [Exports -> Objects]
       /\ ObjParent \in [Objects -> Objects]
       /\ ExRoots \cup {ObjParent[o] : o \in Objects} \subseteq Dirs
       /\ ExRoots \cup {ObjParent[o] : o \in Present0} \subseteq Present0
       \* i_ino is unique within a super block, and ext-style inodes fit 32 bits
       /\ \A a, b \in Objects : FsDev[a] = FsDev[b] /\ Ino[a] = Ino[b] => a = b
       /\ MaxGen \in Nat

VARIABLES
    present,   \* objects that exist in the filesystem
    gen,       \* i_generation of each object (bumped when it is created)
    known,     \* handles the server has given out, with what they were made for
    refs,      \* [d: dentry refcounts, x: export refcounts] held by requests
    reply      \* handle argument and status of the last reply

vars == <<present, gen, known, refs, reply>>

FILEID_ROOT == 0
FILEID_INO32_GEN == 1
FILEID_INO32_GEN_PARENT == 2
FILEID_INVALID == 255
FSID_DEV == 0
FSID_NUM == 1
NFS_FHSIZE == 32
NFS3_FHSIZE == 64

\* The filesystem as the encode/decode functions see it.
FS == [present |-> present, gen |-> gen]

(***************************************************************************)
(* struct svc_fh and the reference operations on it.                       *)
(***************************************************************************)
NoHandle == [size |-> 0, version |-> 0, auth |-> 0, fsidtype |-> 0,
             fileidtype |-> 0, data |-> <<>>]

\* fh_init: memset the svc_fh to zero and set fh_maxsize.
FhInit(max) == [handle |-> NoHandle, maxsize |-> max, dentry |-> NULL, export |-> NULL]

Dget(r, o) == [r EXCEPT !.d[o] = @ + 1]
Dput(r, o) == [r EXCEPT !.d[o] = @ - 1]
ExpGet(r, e) == [r EXCEPT !.x[e] = @ + 1]
ExpPut(r, e) == [r EXCEPT !.x[e] = @ - 1]

\* fh_put: drop the dentry and export the svc_fh holds and clear them.
FhPut(r, fh) ==
    LET r1 == IF fh.dentry # NULL THEN Dput(r, fh.dentry) ELSE r
    IN  [r  |-> IF fh.export # NULL THEN ExpPut(r1, fh.export) ELSE r1,
         fh |-> [fh EXCEPT !.dentry = NULL, !.export = NULL]]

(***************************************************************************)
(* The handle layout.                                                      *)
(***************************************************************************)
\* key_len: bytes of fsid for an fsid type.
KeyLen(t) == CASE t = FSID_DEV -> 8 [] t = FSID_NUM -> 4 [] OTHER -> 0

\* mk_fsid for FSID_DEV (every svc_fh reaching fh_compose comes from fh_init,
\* so fh_fsid_type is 0): (MAJOR << 16) | MINOR, then the root's inode number
\* truncated to 32 bits by ino_t_to_u32.
ExFsid == [e \in Exports |->
              LET dev == FsDev[ExRoot[e]]
              IN  << (dev.major * 65536) | dev.minor, Ino[ExRoot[e]].lo >>]
MkFsid(e) == ExFsid[e]

\* exportfs_encode_fh with connectable set: a directory is (ino, gen); any
\* other object also records its parent's (ino, gen).  A body that does not
\* fit in maxlen words gives FILEID_INVALID and the length it needed.
EncodeFh(fs, o, maxlen) ==
    LET p    == ObjParent[o]
        conn == o \notin Dirs
        need == IF conn THEN 4 ELSE 2
        fid  == IF conn THEN <<Ino[o].lo, fs.gen[o], Ino[p].lo, fs.gen[p]>>
                        ELSE <<Ino[o].lo, fs.gen[o]>>
    IN  IF maxlen < need
        THEN [type |-> FILEID_INVALID, len |-> need, fid |-> <<>>]
        ELSE [type |-> IF conn THEN FILEID_INO32_GEN_PARENT ELSE FILEID_INO32_GEN,
              len |-> need, fid |-> fid]

\* _fh_update: encode the object id after the fsid, or mark the export root.
FhUpdateFid(fs, fh, e, o) ==
    IF o # ExRoot[e]
    THEN LET enc == EncodeFh(fs, o, (fh.maxsize - fh.handle.size) \div 4)
         IN  [fh EXCEPT !.handle.fileidtype = enc.type,
                        !.handle.size = @ + enc.len * 4,
                        !.handle.data = @ \o enc.fid]
    ELSE [fh EXCEPT !.handle.fileidtype = FILEID_ROOT]

\* fh_compose: take a dentry and an export reference, write the header and
\* fsid, and the object id when the dentry has an inode; an object id that
\* does not fit releases the handle and fails.
Compose(fs, r, fh, e, o) ==
    LET fh1 == [fh EXCEPT !.handle.version = 1, !.dentry = o, !.export = e,
                          !.handle.size = KeyLen(fh.handle.fsidtype) + 4,
                          !.handle.auth = 0, !.handle.data = MkFsid(e)]
        r1  == ExpGet(Dget(r, o), e)
        fh2 == IF o \in fs.present THEN FhUpdateFid(fs, fh1, e, o) ELSE fh1
        put == FhPut(r1, fh2)
    IN  IF fh2.handle.fileidtype = FILEID_INVALID
        THEN [r |-> put.r, fh |-> put.fh, rc |-> "opnotsupp"]
        ELSE [r |-> r1, fh |-> fh2, rc |-> "ok"]

\* Mutant: the early return fires on FILEID_ROOT, so nothing is encoded.
FhUpdateNoEncode(fs, fh) ==
    IF fh.dentry = NULL \/ fh.dentry \notin fs.present
    THEN [fh |-> fh, rc |-> "serverfault"]
    ELSE [fh |-> fh, rc |-> "ok"]

\* fh_update: fill in the object id of a handle composed for a negative dentry.
FhUpdate(fs, fh) ==
    IF fh.dentry = NULL \/ fh.dentry \notin fs.present
    THEN [fh |-> fh, rc |-> "serverfault"]
    ELSE IF fh.handle.fileidtype # FILEID_ROOT
    THEN [fh |-> fh, rc |-> "ok"]
    ELSE LET fh1 == FhUpdateFid(fs, fh, fh.export, fh.dentry)
         IN  [fh |-> fh1,
              rc |-> IF fh1.handle.fileidtype = FILEID_INVALID THEN "opnotsupp" ELSE "ok"]

(***************************************************************************)
(* Resolving a handle.                                                     *)
(***************************************************************************)
\* Mutant: the fsid lookup compares only the device word.
ExpFindDevOnly(type, fsid) ==
    LET m == {e \in Exports : type = FSID_DEV /\ MkFsid(e)[1] = fsid[1]}
    IN  IF m = {} THEN NULL ELSE CHOOSE e \in m : TRUE

\* rqst_exp_find -> exp_find -> exp_find_key/exp_get_by_name, with both caches
\* answered from the agent's export table: the export whose fsid matches, or
\* ENOENT (NULL).  The agent answers a given fsid with one fixed export.
ExpFind(type, fsid) ==
    LET m == {e \in Exports : type = FSID_DEV /\ MkFsid(e) = fsid}
    IN  IF m = {} THEN NULL ELSE CHOOSE e \in m : TRUE

\* exportfs_decode_fh through the generic fh_to_dentry: look the inode up in
\* the export's super block and compare the generation; any failure is
\* ERR_PTR(-ESTALE) (NULL here).
Decode(fs, e, fid, len, type) ==
    LET m == {o \in fs.present : FsDev[o] = FsDev[ExRoot[e]] /\ Ino[o].lo = fid[1]}
    IN  IF len < 2 \/ type \notin {FILEID_INO32_GEN, FILEID_INO32_GEN_PARENT} \/ m = {}
        THEN NULL
        ELSE LET o == CHOOSE o \in m : TRUE
             IN  IF fs.gen[o] = fid[2] THEN o ELSE NULL

\* fh_verify and nfsd_set_fh_dentry.  creds is whether prepare_creds in
\* nfsd_setuser succeeds; its -ENOMEM is returned as the status unconverted.
Verify(fs, r, fh, creds) ==
    IF fh.dentry # NULL THEN [r |-> r, fh |-> fh, rc |-> "ok"] ELSE
    LET h   == fh.handle
        dl  == h.size \div 4 - 1
        len == KeyLen(h.fsidtype) \div 4
    IN  IF dl < 0 \/ h.auth # 0 \/ len = 0 \/ dl - len < 0
        THEN [r |-> r, fh |-> fh, rc |-> "badhandle"]
        ELSE LET e  == ExpFind(h.fsidtype, SubSeq(h.data, 1, len))
                 r1 == ExpGet(r, e)
                 o  == IF h.fileidtype = FILEID_ROOT THEN ExRoot[e]
                       ELSE Decode(fs, e, SubSeq(h.data, len + 1, dl), dl - len,
                                   h.fileidtype)
             IN  CASE e = NULL -> [r |-> r, fh |-> fh, rc |-> "stale"]
                   [] ~creds   -> [r |-> ExpPut(r1, e), fh |-> fh, rc |-> "neg_errno"]
                   [] o = NULL -> [r |-> ExpPut(r1, e), fh |-> fh, rc |-> "stale"]
                   [] OTHER    -> [r |-> Dget(r1, o),
                                   fh |-> [fh EXCEPT !.dentry = o, !.export = e],
                                   rc |-> "ok"]

\* decode_fh: an argument handle arrives in an svc_fh of NFS3_FHSIZE.
FromWire(h) == [FhInit(NFS3_FHSIZE) EXCEPT !.handle = h]

(***************************************************************************)
(* The client side: handles it was given and altered versions of them.     *)
(***************************************************************************)
Mangle(h, m) ==
    CASE m = "zero"        -> [h EXCEPT !.size = 0, !.data = <<>>]
      [] m = "truncated"   -> [h EXCEPT !.size = @ - 4, !.data = SubSeq(@, 1, Len(@) - 1)]
      [] m = "badauth"     -> [h EXCEPT !.auth = 1]
      [] m = "badfsidtype" -> [h EXCEPT !.fsidtype = 2]

\* Handles the client was given.  Altered ones are sent with GETATTR and
\* ACCESS, and nfsd_setuser's failure is taken on GETATTR: FSINFO and the
\* directory procedures reach the same paths of fh_verify and answer with
\* its error.
Issued == {k.h : k \in known}

Sendable == Issued \cup {Mangle(k.h, m) : k \in known, m \in Mangles}

Issue(h, e, o, g) == [h |-> h, e |-> e, o |-> o, g |-> g]

(***************************************************************************)
(* Requests.  Each is one step: decode, the procedure, the encode of the   *)
(* handles it returns, and the release function.                           *)
(***************************************************************************)
RECURSIVE NearestExport(_)
\* exp_parent: the export rooted at o or at its closest ancestor.
NearestExport(o) ==
    IF \E e \in Exports : ExRoot[e] = o THEN CHOOSE e \in Exports : ExRoot[e] = o
    ELSE IF ObjParent[o] = o THEN NULL
    ELSE NearestExport(ObjParent[o])

\* Whether the handle h resolves (fh_verify with working credentials).
Resolves(h) == Verify(FS, refs, FromWire(h), TRUE).rc = "ok"

\* The reply's status, and whether the handle it was made with resolves.
Answer(rc, res) == reply' = [ok |-> rc = "ok", resolves |-> res]

\* exp_rootfh: kern_path pins the dentry (a missing path is -EPERM),
\* exp_parent finds the export, the handle is composed into a fresh svc_fh
\* and copied out, and the svc_fh, the export and the path are released.
ExpRootfh(fs, r, o, max) ==
    LET e  == NearestExport(o)
        c  == Compose(fs, ExpGet(Dget(r, o), e), FhInit(max), e, o)
        p  == FhPut(c.r, c.fh)
    IN  CASE o \notin fs.present -> [r |-> r, rc |-> "eperm", h |-> NoHandle, e |-> NULL]
          [] e = NULL -> [r |-> r, rc |-> "enoent", h |-> NoHandle, e |-> NULL]
          [] OTHER    -> [r |-> Dput(ExpPut(p.r, e), o),
                          rc |-> IF c.rc = "ok" THEN "ok" ELSE "einval",
                          h |-> c.fh.handle, e |-> e]

\* write_filehandle: the mount agent asks for the handle of a path with a
\* maximum size, below NFS_FHSIZE refused and capped at NFS3_FHSIZE.
WriteFilehandle(o, max) ==
    /\ IF max < NFS_FHSIZE
       THEN /\ Answer("einval", FALSE)
            /\ UNCHANGED <<known, refs>>
       ELSE LET x == ExpRootfh(FS, refs, o, IF max < NFS3_FHSIZE THEN max ELSE NFS3_FHSIZE)
            IN  /\ refs' = x.r
                /\ known' = IF x.rc = "ok" THEN known \cup {Issue(x.h, x.e, o, gen[o])}
                                           ELSE known
                /\ Answer(x.rc, x.rc = "ok" /\ Resolves(x.h))
    /\ UNCHANGED <<present, gen>>

\* nfsd3_proc_getattr: copy the argument into resp->fh, verify it; the
\* release function nfs3svc_release_fhandle puts resp->fh.
ProcGetattr(creds) ==
    \E h \in Sendable :
       LET v == Verify(FS, refs, FromWire(h), creds)
       IN  /\ refs' = FhPut(v.r, v.fh).r
           /\ Answer(v.rc, v.rc = "ok")
           /\ UNCHANGED <<present, gen, known>>

\* nfsd3_proc_fsinfo: verify the argument itself and put it before returning
\* (FSINFO has no release function).
ProcFsinfo ==
    \E h \in Issued :
       LET v == Verify(FS, refs, FromWire(h), TRUE)
       IN  /\ refs' = FhPut(v.r, v.fh).r
           /\ Answer(v.rc, v.rc = "ok")
           /\ UNCHANGED <<present, gen, known>>

\* nfsd3_proc_access: copy the argument, grant the requested mask and return
\* nfs_ok; the handle is never verified, so the release has nothing to put.
ProcAccess ==
    \E h \in Sendable :
        /\ Answer("ok", Resolves(h))
        /\ UNCHANGED <<present, gen, known, refs>>

\* The dentry nfsd_readdir's callback reaches for a directory entry: "." is
\* the directory, ".." its parent, any other name a present child.
EntryNames(d) == {".", ".."} \cup {o \in present : ObjParent[o] = d /\ o # d}
EntryDentry(d, n) == CASE n = "." -> d [] n = ".." -> ObjParent[d] [] OTHER -> n

\* Mutants: the skipped entry's dentry is put twice, or not at all.
EntryFhDoublePut(fs, r, dirfh, n) ==
    LET d  == dirfh.dentry
        ch == EntryDentry(d, n)
        c  == Compose(fs, Dget(r, ch), FhInit(NFS3_FHSIZE), dirfh.export, ch)
    IN  IF (n = ".." /\ ch = d) \/ ch \in MountPoints
        THEN [r |-> Dput(r, ch), out |-> {}]
        ELSE [r |-> FhPut(Dput(c.r, ch), c.fh).r,
              out |-> IF c.rc = "ok"
                      THEN {Issue(c.fh.handle, dirfh.export, ch, fs.gen[ch])} ELSE {}]
EntryFhLeak(fs, r, dirfh, n) ==
    LET d  == dirfh.dentry
        ch == EntryDentry(d, n)
        c  == Compose(fs, Dget(r, ch), FhInit(NFS3_FHSIZE), dirfh.export, ch)
    IN  IF (n = ".." /\ ch = d) \/ ch \in MountPoints
        THEN [r |-> Dget(r, ch), out |-> {}]
        ELSE [r |-> FhPut(Dput(c.r, ch), c.fh).r,
              out |-> IF c.rc = "ok"
                      THEN {Issue(c.fh.handle, dirfh.export, ch, fs.gen[ch])} ELSE {}]

\* encode_entryplus_baggage and compose_entry_fh for one entry: fh_init the
\* scratch handle, take the child dentry (dget, dget_parent or lookup), skip
\* ".." of a filesystem root and mount points, compose, dput the child and
\* fh_put the scratch handle.  Returns the references and the handle issued.
EntryFh(fs, r, dirfh, n) ==
    LET d  == dirfh.dentry
        ch == EntryDentry(d, n)
        r1 == Dget(r, ch)
        c  == Compose(fs, r1, FhInit(NFS3_FHSIZE), dirfh.export, ch)
    IN  IF (n = ".." /\ ch = d) \/ ch \in MountPoints
        THEN [r |-> Dput(r1, ch), out |-> {}]
        ELSE [r |-> FhPut(Dput(c.r, ch), c.fh).r,
              out |-> IF c.rc = "ok"
                      THEN {Issue(c.fh.handle, dirfh.export, ch, fs.gen[ch])} ELSE {}]

RECURSIVE EntriesFh(_, _, _, _)
EntriesFh(fs, r, dirfh, N) ==
    IF N = {} THEN [r |-> r, out |-> {}]
    ELSE LET n    == CHOOSE n \in N : TRUE
             one  == EntryFh(fs, r, dirfh, n)
             rest == EntriesFh(fs, one.r, dirfh, N \ {n})
         IN  [r |-> rest.r, out |-> one.out \cup rest.out]

\* nfsd3_proc_readdirplus: verify the directory handle, list it with a handle
\* for every entry (paging is modelled in Nfs3Readdir), release resp->fh.
ProcReaddirplus ==
    \E h \in Issued :
       LET v  == Verify(FS, refs, FromWire(h), TRUE)
           ls == EntriesFh(FS, v.r, v.fh, EntryNames(v.fh.dentry))
       IN  /\ IF v.rc # "ok"
              THEN /\ refs' = FhPut(v.r, v.fh).r
                   /\ Answer(v.rc, v.rc = "ok")
                   /\ UNCHANGED known
              ELSE IF v.fh.dentry \notin Dirs
              THEN /\ refs' = FhPut(v.r, v.fh).r
                   /\ Answer("notdir", v.rc = "ok")
                   /\ UNCHANGED known
              ELSE /\ refs' = FhPut(ls.r, v.fh).r
                   /\ known' = known \cup ls.out
                   /\ Answer("ok", v.rc = "ok")
           /\ UNCHANGED <<present, gen>>

\* nfsd3_proc_create and nfsd3_proc_mkdir: verify the directory, then
\* nfsd_create: look the name up (a negative dentry), fh_compose resp->fh for
\* it, create the inode, fh_update resp->fh and dput the child; the release
\* function nfs3svc_release_fhandle2 puts both handles.
ProcCreate(c) ==
    \E h \in Issued :
       LET v   == Verify(FS, refs, FromWire(h), TRUE)
           fs1 == [present |-> present \cup {c}, gen |-> [gen EXCEPT ![c] = @ + 1]]
           cmp == Compose(FS, Dget(v.r, c), FhInit(NFS3_FHSIZE), v.fh.export, c)
           upd == FhUpdate(fs1, cmp.fh)
       IN  /\ c \notin present
           /\ c \notin ExRoots
           /\ gen[c] < MaxGen
           /\ v.rc # "ok" \/ ObjParent[c] = v.fh.dentry
           /\ IF v.rc # "ok"
              THEN /\ refs' = FhPut(v.r, v.fh).r
                   /\ Answer(v.rc, v.rc = "ok")
                   /\ UNCHANGED <<present, gen, known>>
              ELSE /\ refs' = FhPut(FhPut(Dput(cmp.r, c), v.fh).r, upd.fh).r
                   /\ present' = fs1.present
                   /\ gen' = fs1.gen
                   /\ known' = IF upd.rc = "ok"
                               THEN known \cup {Issue(upd.fh.handle, v.fh.export, c, fs1.gen[c])}
                               ELSE known
                   /\ Answer(upd.rc, v.rc = "ok")

\* nfsd3_proc_remove and nfsd3_proc_rmdir: nfsd_unlink verifies the directory
\* and unlinks the name (an empty directory for RMDIR); resp->fh is released.
ProcRemove(c) ==
    \E h \in Issued :
       LET v == Verify(FS, refs, FromWire(h), TRUE)
       IN  /\ c \in present
           /\ c \notin ExRoots \cup MountPoints
           /\ ObjParent[c] # c
           /\ \A o \in present : ObjParent[o] = c => o = c
           /\ v.rc # "ok" \/ ObjParent[c] = v.fh.dentry
           /\ refs' = FhPut(v.r, v.fh).r
           /\ present' = IF v.rc = "ok" THEN present \ {c} ELSE present
           /\ Answer(v.rc, v.rc = "ok")
           /\ UNCHANGED <<gen, known>>

Init ==
    /\ present = Present0
    /\ gen = [o \in Objects |-> IF o \in Present0 THEN 1 ELSE 0]
    /\ known = {}
    /\ refs = [d |-> [o \in Objects |-> 0], x |-> [e \in Exports |-> 0]]
    /\ reply = NULL

Next ==
    \/ \E o \in Objects, m \in MaxSizes : WriteFilehandle(o, m)
    \/ \E cr \in BOOLEAN : ProcGetattr(cr)
    \/ ProcFsinfo
    \/ ProcAccess
    \/ ProcReaddirplus
    \/ \E c \in Objects : ProcCreate(c)
    \/ \E c \in Objects : ProcRemove(c)

Spec == Init /\ [][Next]_vars

(***************************************************************************)
(* Properties.                                                             *)
(***************************************************************************)
Handles == [size : 0..NFS3_FHSIZE + 3, version : {0, 1}, auth : {0, 1},
            fsidtype : {0, 2}, fileidtype : {0, 1, 2, 255}, data : Seq(Nat)]

TypeOK ==
    /\ present \subseteq Objects
    /\ gen \in [Objects -> 0..MaxGen]
    /\ \A k \in known : k.h \in Handles /\ k.e \in Exports /\ k.o \in Objects
    /\ refs \in [d : [Objects -> Nat], x : [Exports -> Nat]]
    /\ reply = NULL \/ reply \in [ok : BOOLEAN, resolves : BOOLEAN]

\* Every request drops every dentry and export reference it took: fh_compose,
\* nfsd_set_fh_dentry, compose_entry_fh and nfsd_create are paired with
\* fh_put, exp_put or dput on each success and error path, so between
\* requests no reference is held.
RefsBalanced ==
    refs = [d |-> [o \in Objects |-> 0], x |-> [e \in Exports |-> 0]]

\* A handle issued for an object is still valid if the object exists with the
\* generation it had then (an export root handle always is).
Live(k) == k.h.fileidtype = FILEID_ROOT \/ (k.o \in present /\ gen[k.o] = k.g)

\* Every handle fh_compose/fh_update gave out (root handle, READDIRPLUS entry,
\* CREATE result) is verified by nfsd_set_fh_dentry back to the export and
\* object it was made for while that object lives, and as stale once it was
\* removed or re-created, and never exceeds NFS3_FHSIZE.
HandlesRoundTrip ==
    \A k \in known :
        LET v == Verify(FS, refs, FromWire(k.h), TRUE)
        IN  /\ k.h.size <= NFS3_FHSIZE
            /\ IF Live(k) THEN v.rc = "ok" /\ v.fh.export = k.e /\ v.fh.dentry = k.o
                          ELSE v.rc = "stale"

\* The outcome of fh_verify for handle h with working credentials.
Verdict(h) == Verify(FS, refs, FromWire(h), TRUE)

\* Whatever a client does to the handles it was given, nfsd_set_fh_dentry
\* only ever resolves a handle to an export and object the client holds a
\* live handle for: the header checks, the fsid lookup and the generation
\* compare never let an altered or stale handle reach another object.
AcceptedNamesIssuedObject ==
    \A h \in Sendable :
        LET v == Verdict(h)
        IN  v.rc = "ok" =>
              \E k \in known : Live(k) /\ k.e = v.fh.export /\ k.o = v.fh.dentry

\* Any request answered nfs_ok was made with a handle that resolves: the
\* procedures verify their handle before they succeed.
ReplyOkOnlyIfResolvable ==
    reply # NULL /\ reply.ok => reply.resolves

RECURSIVE InSubtree(_, _)
InSubtree(o, top) == o = top \/ (ObjParent[o] # o /\ InSubtree(ObjParent[o], top))

\* A handle verified under an export names an object inside that export's
\* subtree: nfsd_acceptable is where a decoded dentry outside it would be
\* refused.
AcceptedWithinExport ==
    \A h \in Sendable :
        LET v == Verdict(h)
        IN  v.rc = "ok" => InSubtree(v.fh.dentry, ExRoot[v.fh.export])

=============================================================================
