---------------------------- MODULE ExportCache ----------------------------
(***************************************************************************)
(* The two export caches of export.c on the sunrpc cache core, the agent  *)
(* that fills them (expkey_parse, svc_export_parse), the request threads  *)
(* that resolve a file handle's fsid through them (nfsd_set_fh_dentry ->  *)
(* rqst_exp_find -> exp_find), the administrative exp_rootfh walk         *)
(* (exp_parent), expiry and cleaning, and nfsd_export_flush.              *)
(*                                                                         *)
(* The cache core (sunrpc_cache_lookup, sunrpc_cache_update, cache_check, *)
(* cache_put, cache_purge) is not in this repository; it is modelled from *)
(* spec section 4.1.  Every entry is an object from a fixed pool Ids, so  *)
(* an allocation can fail, and a freed object can be reused.  Each hash   *)
(* chain is kept in order: the core adds an entry at the head            *)
(* (hlist_add_head) and a lookup returns the first match it accepts.     *)
(* Only the order among entries of one key matters to a lookup, so the   *)
(* model keeps one chain per key.                                         *)
(***************************************************************************)
EXTENDS Integers, FiniteSets, Sequences

CONSTANTS
    Threads,    \* nfsd request threads
    Ids,        \* the pool of cache entry objects (kmalloc)
    Paths,      \* the paths that exist; every export key is one of them
    Root,       \* the filesystem root: IS_ROOT(dentry)
    Parent,     \* dget_parent, as a function on Paths
    Key,        \* the one expkey key (client, fsid type, fsid) of the model
    RootFhPaths,\* the names written to the filehandle control file
    NULL

ASSUME Root \in Paths /\ RootFhPaths \subseteq Paths /\ Parent \in [Paths -> Paths] /\ Parent[Root] = Root

VARIABLES
    ent,    \* ent[e]: the cache_head and payload of object e
    pr,     \* pr[p]: references on path p taken by this code
    dom,    \* references on the client's auth_domain taken by the caches
    pc,     \* pc[t]: where request thread t is in nfsd_set_fh_dentry
    tek,    \* tek[t]: the expkey entry t holds (exp_find's ek)
    tex,    \* tex[t]: the export entry t holds (exp, later fh_export)
    trc,    \* trc[t]: what exp_get_by_name returned to exp_find
    apc,    \* where the exp_rootfh caller is
    astart, \* the path exp_rootfh resolved with kern_path
    acur,   \* the path exp_parent is looking up
    aex,    \* the export exp_parent returned to exp_rootfh
    dref,   \* dref[p]: exp_parent's dget/dget_parent references on p
    chain,  \* chain[b]: the hashed entries with key b, newest first
    gpc,    \* where the agent is in a parse: between its lookup and update
    gid     \* the entry the agent's lookup returned

vars == <<ent, pr, dom, pc, tek, tex, trc, apc, astart, acur, aex, dref, chain, gpc, gid>>

States == {"pending", "valid", "neg"}
Caches == {"ek", "ex"}
\* A cache and a key: the entries a lookup compares (expkey_match,
\* svc_export_match).
Buckets == {<<"ek", Key>>} \cup {<<"ex", p>> : p \in Paths}
Rc == {"OK", "ENOENT", "EAGAIN", "ENOMEM"}

\* A world is the part of the state the cache operations change.
World == [ent |-> ent, pr |-> pr, dom |-> dom, chain |-> chain]

DeadEntry == [cd |-> "ek", key |-> NULL, st |-> "pending", path |-> NULL,
              expired |-> FALSE, hashed |-> FALSE, refs |-> 0, live |-> FALSE]

\* A hashed entry holds one reference, the caller of lookup or update one.
NewEntry(c, k, st, p) ==
    [cd |-> c, key |-> k, st |-> st, path |-> p,
     expired |-> FALSE, hashed |-> TRUE, refs |-> 2, live |-> TRUE]

PathGet(q, p) == [q EXCEPT ![p] = @ + 1]
PathPut(q, p) == [q EXCEPT ![p] = @ - 1]

FreeIds(w) == {e \in Ids : ~w.ent[e].live}

Matches(w, c, k) ==
    {e \in Ids : w.ent[e].live /\ w.ent[e].hashed /\ w.ent[e].cd = c /\ w.ent[e].key = k}

Fresh(w, c, k) == {e \in Matches(w, c, k) : ~w.ent[e].expired}

\* The first entry of S, a set of entries of cache c with key k, that a
\* walk of the hash chain meets.
FirstIn(w, c, k, S) == Head(SelectSeq(w.chain[<<c, k>>], LAMBDA e : e \in S))

\* hlist_add_head of a new entry.
Hash(w, e) == [w EXCEPT !.chain[<<w.ent[e].cd, w.ent[e].key>>] = <<e>> \o @]

(***************************************************************************)
(* The callbacks of svc_expkey_cache_template and svc_export_cache_template.*)
(* A callback takes the world w and the entry x it is called for.          *)
(***************************************************************************)
\* expkey_put: path_put only if VALID and not NEGATIVE, then auth_domain_put.
ExpkeyPut(w, x) ==
    [w EXCEPT !.pr = IF x.st = "valid" THEN PathPut(@, x.path) ELSE @, !.dom = @ - 1]

\* svc_export_put: path_put and auth_domain_put.
SvcExportPut(w, x) == [w EXCEPT !.pr = PathPut(@, x.key), !.dom = @ - 1]

\* expkey_init: a reference on the client's auth_domain.
ExpkeyInit(w, k) == [w EXCEPT !.dom = @ + 1]

\* svc_export_init: the auth_domain and path_get(&item->ex_path).
SvcExportInitNoGet(w, k) == [w EXCEPT !.dom = @ + 1]
SvcExportInit(w, k) == [w EXCEPT !.dom = @ + 1, !.pr = PathGet(@, k)]

\* expkey_update: new->ek_path = item->ek_path, path_get.  export_update
\* only copies flags, fsid and flavours, which the model does not keep.
ExpkeyUpdateNoGet(w, p) == w
ExpkeyUpdate(w, p) == [w EXCEPT !.pr = PathGet(@, p)]

\* The core calls cache_put, init, and update (only for a non-negative
\* entry) through the cache_detail.
PutCallback(w, x) == IF x.cd = "ek" THEN ExpkeyPut(w, x) ELSE SvcExportPut(w, x)
InitCallback(w, c, k) == IF c = "ek" THEN ExpkeyInit(w, k) ELSE SvcExportInit(w, k)
UpdateCallback(w, c, st, p) == IF c = "ek" /\ st = "valid" THEN ExpkeyUpdate(w, p) ELSE w

\* cache_put (exp_put, cache_put(&ek->h)).
CachePut(w, e) ==
    IF w.ent[e].refs = 1
    THEN PutCallback([w EXCEPT !.ent[e] = DeadEntry], w.ent[e])
    ELSE [w EXCEPT !.ent[e].refs = @ - 1]

\* Put a reference the caller got back, unless the call failed.
PutResultKept(r) == r.w
PutResult(r) == IF r.id = NULL THEN r.w ELSE CachePut(r.w, r.id)

\* Take an entry out of the hash and drop the hash's reference.
Unhash(w, e) ==
    CachePut([w EXCEPT !.ent[e].hashed = FALSE,
                       !.chain[<<w.ent[e].cd, w.ent[e].key>>] =
                            SelectSeq(@, LAMBDA x : x # e)], e)

RECURSIVE UnhashAll(_, _)
UnhashAll(w, S) ==
    IF S = {} THEN w
    ELSE LET e == CHOOSE e \in S : TRUE IN UnhashAll(Unhash(w, e), S \ {e})

(***************************************************************************)
(* sunrpc_cache_lookup: the first fresh match gets a reference; otherwise *)
(* a new PENDING entry is allocated and initialised from the key, the     *)
(* first (expired) match is taken out of the hash, and the new entry is   *)
(* hashed at the head.                                                    *)
(***************************************************************************)
Lookup(w, c, k) ==
    LET fresh == Fresh(w, c, k)
        old   == Matches(w, c, k) \ fresh
    IN  IF fresh # {}
        THEN LET e == FirstIn(w, c, k, fresh)
             IN  [w |-> [w EXCEPT !.ent[e].refs = @ + 1], id |-> e]
        ELSE IF FreeIds(w) = {} THEN [w |-> w, id |-> NULL]
        ELSE LET e  == CHOOSE e \in FreeIds(w) : TRUE
                 w1 == InitCallback(Hash([w EXCEPT !.ent[e] = NewEntry(c, k, "pending", NULL)], e),
                                    c, k)
             IN  [w |-> IF old = {} THEN w1 ELSE Unhash(w1, FirstIn(w, c, k, old)),
                  id |-> e]

(***************************************************************************)
(* sunrpc_cache_update: a PENDING entry is filled in place and the        *)
(* caller's reference is returned; a VALID one is replaced by a new entry *)
(* initialised from it, the old one is expired and the caller's reference *)
(* on it is put.  If the allocation fails, old is put and NULL returned.  *)
(***************************************************************************)
\* cache_fresh_locked(old, 0): the replaced entry expires at once.
SupersedeNot(E, old) == E
Supersede(E, old) == [E EXCEPT ![old].expired = TRUE]

Update(w, old, st, p) ==
    LET x == w.ent[old] IN
    IF x.st = "pending"
    THEN [w |-> UpdateCallback([w EXCEPT !.ent[old].st = st,
                                         !.ent[old].path = IF st = "valid" THEN p ELSE NULL],
                               x.cd, st, p),
          id |-> old]
    ELSE IF FreeIds(w) = {} THEN [w |-> CachePut(w, old), id |-> NULL]
    ELSE LET e  == CHOOSE e \in FreeIds(w) : TRUE
             new == NewEntry(x.cd, x.key, st, IF st = "valid" THEN p ELSE NULL)
             w1  == UpdateCallback(InitCallback(
                        Hash([w EXCEPT !.ent = Supersede([@ EXCEPT ![e] = new], old)], e),
                        x.cd, x.key), x.cd, st, p)
         IN  [w |-> CachePut(w1, old), id |-> e]

(***************************************************************************)
(* cache_check: VALID and unexpired is OK; PENDING or expired is EAGAIN   *)
(* (population is triggered); NEGATIVE is ENOENT.  On an error the        *)
(* caller's reference is put.                                             *)
(***************************************************************************)
CheckRcIgnoresExpiry(x) ==
    CASE x.st = "pending" -> "EAGAIN" [] x.st = "neg" -> "ENOENT" [] OTHER -> "OK"
CheckRc(x) ==
    CASE x.st = "pending" \/ x.expired -> "EAGAIN"
      [] x.st = "neg"                  -> "ENOENT"
      [] OTHER                         -> "OK"

Check(w, e) ==
    LET rc == CheckRc(w.ent[e]) IN
    [w |-> IF rc = "OK" THEN w ELSE CachePut(w, e), rc |-> rc]

(***************************************************************************)
(* Each cache's lookup and update wrappers: the key's hash picks the      *)
(* chain (abstracted: Matches compares keys), then the cache core is      *)
(* called.  svc_export_update hashes old, whose key the new entry shares. *)
(***************************************************************************)
SvcExpkeyLookup(w) == Lookup(w, "ek", Key)
SvcExpkeyUpdate(w, old, st, p) == Update(w, old, st, p)
SvcExportLookup(w, p) == Lookup(w, "ex", p)
SvcExportUpdate(w, old, st) == Update(w, old, st, NULL)

\* exp_get_by_name: svc_export_lookup, then cache_check.
ExpGetByName(w, p) ==
    LET lk == SvcExportLookup(w, p) IN
    IF lk.id = NULL THEN [w |-> w, rc |-> "ENOMEM", id |-> NULL]
    ELSE LET ck == Check(lk.w, lk.id)
         IN  [w |-> ck.w, rc |-> ck.rc, id |-> IF ck.rc = "OK" THEN lk.id ELSE NULL]

SetWorld(w) == ent' = w.ent /\ pr' = w.pr /\ dom' = w.dom /\ chain' = w.chain

ThreadVars == <<pc, tek, tex, trc>>
AdminVars == <<apc, astart, acur, aex, dref>>
AgentVars == <<gpc, gid>>

(***************************************************************************)
(* Request threads: nfsd_set_fh_dentry from rqst_exp_find on, one step    *)
(* per cache call.                                                        *)
(***************************************************************************)
\* exp_find_key: svc_expkey_lookup; NULL is ENOMEM, which maps to jukebox.
LookupKey(t) ==
    /\ pc[t] = "idle"
    /\ LET lk == SvcExpkeyLookup(World) IN
       /\ SetWorld(lk.w)
       /\ tek' = [tek EXCEPT ![t] = lk.id]
       /\ pc' = [pc EXCEPT ![t] = IF lk.id = NULL THEN "idle" ELSE "chkKey"]
    /\ UNCHANGED <<tex, trc>> /\ UNCHANGED <<AdminVars, AgentVars>>

\* exp_find_key: cache_check on the key; an error ends nfsd_set_fh_dentry.
CheckKey(t) ==
    /\ pc[t] = "chkKey"
    /\ LET ck == Check(World, tek[t]) IN
       /\ SetWorld(ck.w)
       /\ tek' = [tek EXCEPT ![t] = IF ck.rc = "OK" THEN @ ELSE NULL]
       /\ pc' = [pc EXCEPT ![t] = IF ck.rc = "OK" THEN "getExp" ELSE "idle"]
    /\ UNCHANGED <<tex, trc>> /\ UNCHANGED <<AdminVars, AgentVars>>

\* exp_find: exp_get_by_name(&ek->ek_path), lookup step.
LookupExport(t) ==
    /\ pc[t] = "getExp"
    /\ LET lk == SvcExportLookup(World, ent[tek[t]].path) IN
       /\ SetWorld(lk.w)
       /\ tex' = [tex EXCEPT ![t] = lk.id]
       /\ trc' = [trc EXCEPT ![t] = IF lk.id = NULL THEN "ENOMEM" ELSE @]
       /\ pc' = [pc EXCEPT ![t] = IF lk.id = NULL THEN "putKey" ELSE "chkExp"]
    /\ UNCHANGED tek /\ UNCHANGED <<AdminVars, AgentVars>>

\* exp_get_by_name: cache_check on the export.
CheckExport(t) ==
    /\ pc[t] = "chkExp"
    /\ LET ck == Check(World, tex[t]) IN
       /\ SetWorld(ck.w)
       /\ tex' = [tex EXCEPT ![t] = IF ck.rc = "OK" THEN @ ELSE NULL]
       /\ trc' = [trc EXCEPT ![t] = ck.rc]
       /\ pc' = [pc EXCEPT ![t] = "putKey"]
    /\ UNCHANGED tek /\ UNCHANGED <<AdminVars, AgentVars>>

\* exp_find: cache_put(&ek->h); nfsd_set_fh_dentry returns an error unless OK.
PutKey(t) ==
    /\ pc[t] = "putKey"
    /\ SetWorld(CachePut(World, tek[t]))
    /\ tek' = [tek EXCEPT ![t] = NULL]
    /\ pc' = [pc EXCEPT ![t] = IF trc[t] = "OK" THEN "setup" ELSE "idle"]
    /\ UNCHANGED <<tex, trc>> /\ UNCHANGED <<AdminVars, AgentVars>>

\* nfsd_setuser and the dentry decode: on failure goto out, exp_put;
\* on success the handle holds the export as fh_export.
SetupFh(t) ==
    /\ pc[t] = "setup"
    /\ \/ /\ SetWorld(CachePut(World, tex[t]))
          /\ tex' = [tex EXCEPT ![t] = NULL]
          /\ pc' = [pc EXCEPT ![t] = "idle"]
       \/ /\ pc' = [pc EXCEPT ![t] = "holding"]
          /\ UNCHANGED <<ent, pr, dom, chain, tex>>
    /\ UNCHANGED <<tek, trc>> /\ UNCHANGED <<AdminVars, AgentVars>>

\* fh_put, when the request's handles are released: exp_put(fh_export).
FhPut(t) ==
    /\ pc[t] = "holding"
    /\ SetWorld(CachePut(World, tex[t]))
    /\ tex' = [tex EXCEPT ![t] = NULL]
    /\ pc' = [pc EXCEPT ![t] = "idle"]
    /\ UNCHANGED <<tek, trc>> /\ UNCHANGED <<AdminVars, AgentVars>>

(***************************************************************************)
(* The agent's writes.  Each parse looks its entry up, and updates it in  *)
(* a later step: the cache's hash lock is dropped in between, so request  *)
(* threads, expiry, cache_clean and a flush run meanwhile.                *)
(***************************************************************************)
\* expkey_parse up to svc_expkey_lookup; NULL ends it with ENOMEM.
ExpkeyLookup ==
    /\ gpc = "idle"
    /\ LET lk == SvcExpkeyLookup(World) IN
       /\ SetWorld(lk.w)
       /\ gpc' = IF lk.id = NULL THEN "idle" ELSE "ek"
       /\ gid' = lk.id
    /\ UNCHANGED ThreadVars /\ UNCHANGED AdminVars

\* The rest of expkey_parse: an empty path makes ek NEGATIVE; otherwise
\* kern_path (a failure goes to out) and an update to VALID, whose path_get
\* is balanced by the path_put of key.ek_path; then the ek reference is put.
ExpkeyFinish(v) ==
    /\ gpc = "ek"
    /\ SetWorld(
         CASE v = "nopath" -> CachePut(World, gid)
           [] v = "neg"    -> PutResult(SvcExpkeyUpdate(World, gid, "neg", NULL))
           [] OTHER        ->
                LET w1 == [World EXCEPT !.pr = PathGet(@, v)]
                    w2 == PutResult(SvcExpkeyUpdate(w1, gid, "valid", v))
                IN  [w2 EXCEPT !.pr = PathPut(@, v)])
    /\ gpc' = "idle" /\ gid' = NULL
    /\ UNCHANGED ThreadVars /\ UNCHANGED AdminVars

\* svc_export_parse for path p up to svc_export_lookup: kern_path, then
\* the lookup; NULL is ENOMEM, and path_put ends the call.
ExportLookup(p) ==
    /\ gpc = "idle"
    /\ LET lk == SvcExportLookup([World EXCEPT !.pr = PathGet(@, p)], p) IN
       \/ /\ lk.id = NULL
          /\ UNCHANGED <<ent, pr, dom, chain, gpc, gid>>
       \/ /\ lk.id # NULL
          /\ SetWorld(lk.w)
          /\ gpc' = "ex" /\ gid' = lk.id
    /\ UNCHANGED ThreadVars /\ UNCHANGED AdminVars

\* svc_export_update (NEGATIVE when the flags are absent), exp_put unless
\* it returned NULL, and path_put of the key the lookup was made with.
ExportFinish(st) ==
    /\ gpc = "ex"
    /\ LET p == ent[gid].key
           w == PutResult(SvcExportUpdate(World, gid, st))
       IN  SetWorld([w EXCEPT !.pr = PathPut(@, p)])
    /\ gpc' = "idle" /\ gid' = NULL
    /\ UNCHANGED ThreadVars /\ UNCHANGED AdminVars

(***************************************************************************)
(* exp_rootfh(name): kern_path, exp_parent, fh_compose and fh_put (which  *)
(* take and drop one export reference), exp_put, path_put.                *)
(***************************************************************************)
\* kern_path(name), then exp_parent's saved = dget(path->dentry).
RootFhStart(p) ==
    /\ apc = "idle"
    /\ pr' = PathGet(pr, p)
    /\ dref' = [dref EXCEPT ![p] = @ + 1]
    /\ apc' = "walk" /\ astart' = p /\ acur' = p
    /\ UNCHANGED <<ent, dom, chain, aex>> /\ UNCHANGED <<ThreadVars, AgentVars>>

\* exp_parent's loop body: dget_parent, then dput of the current dentry.
ParentHopNoPut(d, cur) == [d EXCEPT ![Parent[cur]] = @ + 1]
ParentHop(d, cur) == [d EXCEPT ![Parent[cur]] = @ + 1, ![cur] = @ - 1]

\* One exp_get_by_name of exp_parent's loop.  ENOENT below the root goes on
\* with the parent; anything else ends the walk with dput(path->dentry).
\* An error then makes exp_rootfh path_put and return it.
ParentStep ==
    /\ apc = "walk"
    /\ LET g == ExpGetByName(World, acur) IN
       \/ /\ g.rc = "ENOENT" /\ acur # Root
          /\ SetWorld(g.w)
          /\ dref' = ParentHop(dref, acur)
          /\ acur' = Parent[acur]
          /\ UNCHANGED <<apc, astart, aex>>
       \/ /\ g.rc = "OK"
          /\ SetWorld(g.w)
          /\ dref' = [dref EXCEPT ![acur] = @ - 1]
          /\ aex' = g.id /\ apc' = "compose" /\ acur' = NULL
          /\ UNCHANGED astart
       \/ /\ g.rc # "OK" /\ (g.rc # "ENOENT" \/ acur = Root)
          /\ SetWorld([g.w EXCEPT !.pr = PathPut(@, astart)])
          /\ dref' = [dref EXCEPT ![acur] = @ - 1]
          /\ apc' = "idle" /\ astart' = NULL /\ acur' = NULL
          /\ UNCHANGED aex
    /\ UNCHANGED <<ThreadVars, AgentVars>>

\* fh_compose's exp_get and fh_put's exp_put cancel; then exp_put(exp)
\* and path_put(&path).
RootFhCompose ==
    /\ apc = "compose"
    /\ LET w == CachePut(World, aex) IN SetWorld([w EXCEPT !.pr = PathPut(@, astart)])
    /\ apc' = "idle" /\ astart' = NULL /\ aex' = NULL
    /\ UNCHANGED <<acur, dref>> /\ UNCHANGED <<ThreadVars, AgentVars>>

(***************************************************************************)
(* Time and the cache's own housekeeping.                                 *)
(***************************************************************************)
\* An entry's expiry time passes.
Expire(e) ==
    /\ ent[e].live /\ ent[e].hashed /\ ~ent[e].expired /\ ent[e].st # "pending"
    /\ ent' = [ent EXCEPT ![e].expired = TRUE]
    /\ UNCHANGED <<pr, dom, chain>> /\ UNCHANGED ThreadVars /\ UNCHANGED <<AdminVars, AgentVars>>

\* cache_clean takes an expired entry out of the hash.
CacheClean(e) ==
    /\ ent[e].live /\ ent[e].hashed /\ ent[e].expired
    /\ SetWorld(Unhash(World, e))
    /\ UNCHANGED ThreadVars /\ UNCHANGED <<AdminVars, AgentVars>>

\* nfsd_export_flush from nfsd_last_thread: cache_purge of the expkey cache,
\* then of the export cache.  It runs when no request thread is left.
ExportFlush ==
    /\ \A t \in Threads : pc[t] = "idle"
    /\ LET hashedIn(w, c) == {e \in Ids : w.ent[e].live /\ w.ent[e].hashed /\ w.ent[e].cd = c}
           w1 == UnhashAll(World, hashedIn(World, "ek"))
       IN  SetWorld(UnhashAll(w1, hashedIn(w1, "ex")))
    /\ UNCHANGED ThreadVars /\ UNCHANGED <<AdminVars, AgentVars>>

Init ==
    /\ ent = [e \in Ids |-> DeadEntry]
    /\ pr = [p \in Paths |-> 0]
    /\ dom = 0
    /\ dref = [p \in Paths |-> 0]
    /\ pc = [t \in Threads |-> "idle"]
    /\ tek = [t \in Threads |-> NULL]
    /\ tex = [t \in Threads |-> NULL]
    /\ trc = [t \in Threads |-> "OK"]
    /\ apc = "idle" /\ astart = NULL /\ acur = NULL /\ aex = NULL
    /\ chain = [b \in Buckets |-> <<>>] /\ gpc = "idle" /\ gid = NULL

Next ==
    \/ \E t \in Threads :
          \/ LookupKey(t) \/ CheckKey(t) \/ LookupExport(t) \/ CheckExport(t)
          \/ PutKey(t) \/ SetupFh(t) \/ FhPut(t)
    \/ ExpkeyLookup \/ \E v \in Paths \cup {"neg", "nopath"} : ExpkeyFinish(v)
    \/ \E p \in Paths : ExportLookup(p)
    \/ \E st \in {"valid", "neg"} : ExportFinish(st)
    \/ \E p \in RootFhPaths : RootFhStart(p)
    \/ ParentStep \/ RootFhCompose
    \/ \E e \in Ids : Expire(e) \/ CacheClean(e)
    \/ ExportFlush

Spec == Init /\ [][Next]_vars

(***************************************************************************)
(* Properties                                                             *)
(***************************************************************************)
Holders(e) ==
    Cardinality({t \in Threads : tek[t] = e}) + Cardinality({t \in Threads : tex[t] = e})
    + (IF aex = e THEN 1 ELSE 0) + (IF gid = e THEN 1 ELSE 0)

TypeOK ==
    /\ ent \in [Ids -> [cd : Caches, key : Paths \cup {Key, NULL}, st : States,
                        path : Paths \cup {NULL}, expired : BOOLEAN,
                        hashed : BOOLEAN, refs : 0..10, live : BOOLEAN]]
    /\ pr \in [Paths -> Nat] /\ dom \in Nat /\ dref \in [Paths -> Nat]
    /\ pc \in [Threads -> {"idle", "chkKey", "getExp", "chkExp", "putKey", "setup", "holding"}]
    /\ tek \in [Threads -> Ids \cup {NULL}] /\ tex \in [Threads -> Ids \cup {NULL}]
    /\ trc \in [Threads -> Rc]
    /\ apc \in {"idle", "walk", "compose"} /\ aex \in Ids \cup {NULL}
    /\ gpc \in {"idle", "ek", "ex"} /\ gid \in Ids \cup {NULL}
    /\ chain \in [Buckets -> Seq(Ids)]
    /\ \A e \in Ids, b \in Buckets :
          e \in {chain[b][i] : i \in DOMAIN chain[b]} <=> ent[e].hashed /\ b = <<ent[e].cd, ent[e].key>>

\* Reference counting of cache entries (cache_get/cache_put in the lookups,
\* checks, updates, exp_find, nfsd_set_fh_dentry, fh_put and exp_rootfh):
\* every live entry's count is exactly its hash reference plus the threads
\* holding it, and no thread holds a freed entry.  A missing put is a leak;
\* an extra put frees an entry another thread still uses.
RefCountsExact ==
    \A e \in Ids :
        IF ent[e].live THEN ent[e].refs = (IF ent[e].hashed THEN 1 ELSE 0) + Holders(e)
        ELSE Holders(e) = 0

\* References the caches and exp_rootfh take on other objects are returned
\* exactly: each path's count is the VALID expkey entries naming it
\* (expkey_update's path_get, expkey_put's path_put), the export entries
\* keyed by it (svc_export_init, svc_export_put) and exp_rootfh's
\* kern_path; the client domain has one reference per live entry (the
\* *_init callbacks and both puts); exp_parent holds a dentry reference on
\* the directory it is looking up and none once it has returned.
ExternalRefsExact ==
    /\ \A p \in Paths :
          pr[p] = Cardinality({e \in Ids : ent[e].live /\ ent[e].cd = "ek"
                                          /\ ent[e].st = "valid" /\ ent[e].path = p})
                + Cardinality({e \in Ids : ent[e].live /\ ent[e].cd = "ex" /\ ent[e].key = p})
                + (IF apc # "idle" /\ astart = p THEN 1 ELSE 0)
                + (IF gpc = "ex" /\ ent[gid].key = p THEN 1 ELSE 0)
    /\ dom = Cardinality({e \in Ids : ent[e].live})
    /\ \A p \in Paths : dref[p] = IF apc = "walk" /\ acur = p THEN 1 ELSE 0

\* A key can have two unexpired hashed entries: the agent's lookup returns
\* an entry that expires before its update, a request thread's lookup then
\* hashes a new PENDING entry, and sunrpc_cache_update hashes the VALID
\* replacement beside it (export.c:123/137, 448/450).  What the caches do
\* keep is that every such duplicate is a PENDING entry behind the first
\* unexpired one on the chain: no lookup returns it while the first lasts,
\* and a key never has two VALID or NEGATIVE answers at once.
DuplicatesOnlyPending ==
    \A b \in Buckets :
        LET F == Fresh(World, b[1], b[2]) IN
        \A e \in F : e # FirstIn(World, b[1], b[2], F) => ent[e].st = "pending"

(***************************************************************************)
(* The caches as the maps they stand for (CacheMap).  A key's value is    *)
(* that of its one unexpired hashed entry: a path for a VALID expkey      *)
(* entry, "valid" for a VALID export, "neg" for a NEGATIVE one, and a     *)
(* miss when there is none or it is still PENDING.  A request thread has  *)
(* read the key from its successful cache_check until exp_find's          *)
(* cache_put, and the export from exp_get_by_name's until the export is   *)
(* put; exp_rootfh has read the export exp_parent returned until its      *)
(* exp_put.                                                               *)
(***************************************************************************)
RootFhReader == "exp_rootfh"

CurrentValue(c, k) ==
    LET F == {e \in Ids : /\ ent[e].live /\ ent[e].hashed /\ ~ent[e].expired
                         /\ ent[e].cd = c /\ ent[e].key = k} IN
    IF F = {} THEN "miss"
    ELSE LET x == ent[FirstIn(World, c, k, F)] IN
         CASE x.st = "pending" -> "miss"
           [] x.st = "neg"     -> "neg"
           [] OTHER            -> IF c = "ek" THEN x.path ELSE "valid"

KeyRead(t) ==
    IF pc[t] \in {"getExp", "chkExp", "putKey"}
    THEN [key |-> Key, val |-> ent[tek[t]].path] ELSE NULL

ExportRead(r) ==
    CASE r = RootFhReader ->
           IF apc = "compose" THEN [key |-> ent[aex].key, val |-> "valid"] ELSE NULL
      [] pc[r] \in {"putKey", "setup", "holding"} /\ tex[r] # NULL ->
           [key |-> ent[tex[r]].key, val |-> "valid"]
      [] OTHER -> NULL

KeyTable == INSTANCE CacheMap
    WITH Keys <- {Key}, Hits <- Paths, Readers <- Threads,
         map <- [k \in {Key} |-> CurrentValue("ek", k)],
         got <- [t \in Threads |-> KeyRead(t)]

ExportTable == INSTANCE CacheMap
    WITH Keys <- Paths, Hits <- {"valid"}, Readers <- Threads \cup {RootFhReader},
         map <- [p \in Paths |-> CurrentValue("ex", p)],
         got <- [r \in Threads \cup {RootFhReader} |-> ExportRead(r)]

\* Both caches behave as maps read atomically: every step of the lookups,
\* checks, agent writes, expiry, cache_clean and nfsd_export_flush is a
\* change of the map, a read that returns the key's current value, or a
\* release; in particular no cache_check succeeds on an entry that is
\* superseded or expired, a lookup never changes what a key maps to, and an
\* entry a reader holds is never updated in place.
CachesRefineCacheMap == KeyTable!Spec /\ ExportTable!Spec

====
