# TLA+ models of the NFSv3 server in `src/`

The code in `src/` is a cut-down Linux knfsd. It has five parts:

- **Export caches** (`export.c`, `export.h`). There are two caches on the kernel's
  sunrpc cache core. The *expkey* cache maps (client, fsid type, fsid) to a path.
  The *export* cache maps (client, path) to export options. Entries are filled
  by a user-space agent (mountd) that writes text lines into
  `expkey_parse` / `svc_export_parse`. Request threads read them through
  `exp_find_key`, `exp_get_by_name`, `exp_find` and `exp_parent`, and the
  `rqst_exp_*` wrappers. Every lookup returns a counted reference that the
  caller must put.
- **File-handle codec** (`nfsfh.c`, `nfsfh.h`). `fh_compose` builds a handle
  from an export and a dentry. `fh_verify` / `nfsd_set_fh_dentry` parse a
  handle, resolve its export through the caches and decode its object id.
  `fh_update` and `fh_put` complete the set.
- **XDR codec and procedures** (`nfs3xdr.c`, `proc.c`). Per-procedure argument
  decoders, the procedures and the reply encoders. The most intricate piece is
  the directory-listing packer `encode_entry`. It appends entries to the reply
  pages and backpatches each entry's cookie on the next call.
- **Service lifecycle and dispatch** (`nfssvc.c`). `nfsd_svc` starts and stops
  the service and sets the thread count. The `nfsd` thread loop, `nfsd_last_thread`,
  the inetaddr notifier and `nfsd_dispatch` (decode, execute, encode) also live here.
- **Control filesystem** (`bmw_main.c`). It has two files. `filehandle` calls
  `exp_rootfh` and `threads` calls `nfsd_svc`.

How they interact:

- A request thread runs `nfsd_dispatch`. The decoder fills the arguments and
  the procedure calls `fh_verify`, which resolves the export through both
  caches. The encoder writes the reply. For READDIRPLUS the encoder composes a
  handle for each entry.
- Cache misses go out to the agent as upcalls. Its answers arrive concurrently,
  through `*_parse`, which replace entries that threads may be holding.
- When the last thread exits, both caches are purged.

## Modules

| module | models | source |
|---|---|---|
| `Nfs3Readdir` | READDIR and READDIRPLUS: argument decoding, `encode_entry` for every entry `nfsd_readdir` hands over, the procedures' final backpatch and reply length, and a client that lists a directory by resending the last cookie | `nfs3xdr.c` 339-380, 517-748; `proc.c` 278-373 |
| `DirListing` | the abstract listing a client is promised, which `Nfs3Readdir` implements | RFC 1813 READDIR; spec section 8 |
| `MCNfs3Readdir` | constants for TLC | |
| `ExportCache` | both export caches on the sunrpc cache core, the agent's `expkey_parse`/`svc_export_parse`, request threads resolving an fsid (`nfsd_set_fh_dentry` → `rqst_exp_find` → `exp_find`), `exp_rootfh`/`exp_parent`, expiry, cleaning, `nfsd_export_flush` | `export.c` 37-858; `nfsfh.c` 53-128, 293-308 |
| `CacheMap` | the abstract cache both export caches stand for: a map from keys to a value, a negative answer or nothing, whose readers hold what their check returned | spec section 4.1 |
| `MCExportCache` | constants and symmetry for TLC | |
| `FileHandle` | the handle codec (`fh_init`, `fh_compose`, `_fh_update`, `fh_update`, `nfsd_set_fh_dentry`/`fh_verify`, `fh_put`, `mk_fsid`, `key_len`) and its callers: `write_filehandle`/`exp_rootfh`, GETATTR, FSINFO, ACCESS, READDIRPLUS's `compose_entry_fh`, CREATE/MKDIR, REMOVE/RMDIR | `nfsfh.c` 19-308; `nfsfh.h` 54-114; `export.c` 633-754; `proc.c` 25-432; `nfs3xdr.c` 554-607; `bmw_main.c` 99-172 |
| `MCFileHandle` | an object tree, devices and inode numbers for TLC | |
| `NfsdService` | the service lifecycle: `write_threads` → `nfsd_svc` (`nfsd_create_serv`, `nfsd_startup_net`, `svc_set_num_threads`, `nfsd_destroy`), the `nfsd` thread, `nfsd_last_thread` and the inetaddr notifier | `nfssvc.c` 60-365; `bmw_main.c` 202-222, 265-280 |
| `MCNfsdService` | failure sets for TLC | |
| `NfsdDispatch` | `nfsd_dispatch` serving CREATE (all three createhow3 modes), MKDIR, REMOVE and RMDIR from the procedure table, with `nfs3svc_decode_createargs`, the dirop decoders, `map_new_errors` and `nfserrno`, for clients that retransmit over a network that loses, duplicates and reorders | `nfssvc.c` 372-431; `proc.c` 179-273, 519-555, 600-648; `nfs3xdr.c` 197-208, 304-326 |
| `MCNfsdDispatch` | two clients, one name and two call scripts for TLC | |
| `Nfs3ReadWrite` | READ and WRITE of one file: `nfs3svc_decode_readargs`/`writeargs`, `nfsd3_proc_read`/`write`, `nfsd_eof_on_read` and the two encoders, for an appending writer and a reader that reads to eof | `nfs3xdr.c` 223-300, 457-497; `proc.c` 112-171; `vfs.h` 89-106 |
| `MCNfs3ReadWrite` | 5-bit words, 2-byte pages, a 4-byte payload and two write scripts for TLC | |

### Nfs3Readdir

State, as in the code:

- **The response pages:** `pages` is `rq_respages[1..]`, one word per slot. `nextPage` is `rq_next_page`, the first page the decoder did not reserve.
- **The packer's cursor** (`struct nfsd3_readdirres`):
  - `buffer` and `buflen` are `cd->buffer` and `cd->buflen`.
  - `offset` and `offset1` are `cd->offset` and `cd->offset1`. A pointer is a pair `<<page, word>>`.
  - `err` is `cd->common.err`.
- **The procedure:** `rcount` is `resp->count`. `pos` is the position of the entry `nfsd_readdir` hands over next.
- **The client:** `cookie`, `listed` and `eof`.
- **History:**
  - `emitted` records the entries accepted in this call.
  - `strays` records words written outside a page, which in C land in whatever memory follows it.

Data is abstracted to tokens:

- A word is `<<tag, value>>`. Names and handles are runs of words tagged with their entry.
- A 64-bit position is `[hi, lo]`, and each entry has distinct halves, so a swapped or lost half is visible.
- `NFS_OFFSET_MAX` keeps its real bits: `lo = -1` stands for `0xffffffff`.

The only things abstracted away are the byte contents.

Actions:

- **`CallReaddir` and `CallReaddirPlus`.** Each is the argument decoder and the procedure up to `nfsd_readdir`. That covers the count caps, the page reservation loop, `buflen = count/4 - 2`, and the seek to the cookie.
- **`EncodeTooSmall`, `EncodeInPage` and `EncodeViaNextPage`.** Each is one whole call of `encode_entry`, and each starts with its backpatch of the open cookie.
  - `EncodeTooSmall` covers an entry that does not fit `buflen`, and an entry that does not fit the page when no next page is allocated.
  - `EncodeInPage` writes the entry in the current page.
  - `EncodeViaNextPage` builds the entry in the next page and then either moves it back or splits it. A split has three cookie placements.
- **`ReaddirEof`.** The directory has no more entries.
- **`ReplyDone`.** The rest of the procedure: `resp->count` and the final backpatch.
- **`ClientReceive`.** The client parses the reply: the entries in `count` words, then the cookie after the last entry.
- **`Relist`.** After eof the client starts a new listing.

`nfsd_readdir` is in `vfs.c`, which is not in this repository. It is modelled
from the spec (§4.4) and from its contract with `encode_entry`:

- It hands over the entries after the cookie in order, each with its own position.
- It stops at the first entry `encode_entry` refuses.
- It leaves that entry's position, or the end of the directory, as the final cookie.
- It reports eof when it runs out of entries.

Not modelled here:

- **The head page** (status, `post_op_attr`, verifier) and the reply trailer.
  `encode_fattr3` writes nothing and `post_op_attr` is one word, so the head is
  always small.
- **The `vfs_getattr` result.** The entry's attribute flag is taken as "present".
  It is one word either way.
- **`compose_entry_fh`'s reasons for failing.** A directory entry just has
  `fhok`, and the handle is `FhSize` bytes.

### ExportCache

The cache core (`sunrpc_cache_lookup`, `sunrpc_cache_update`, `cache_check`,
`cache_put`, `cache_purge`, `cache_clean`) is not in this repository. It is
modelled from spec §4.1 and marked `spec_modelled` in the map:

- **lookup**: a fresh hashed match gets a reference. On a miss a new PENDING
  entry is allocated, initialised by the cache's `init`, and hashed with two
  references (the hash and the caller). An expired match is unhashed.
- **update**: a PENDING entry is filled in place. A VALID one is replaced: a
  new entry is initialised from it, the old one expires at once and the
  caller's reference on it is put.
- **check**: VALID and unexpired is OK, PENDING or expired is EAGAIN,
  NEGATIVE is ENOENT. On an error the caller's reference is put.

State:

- **`ent[e]`** is one object of the pool `Ids`. It records which cache (`ek` or `ex`), the key (the fsid key, or the path), the state, the path of a VALID key entry, the expired/hashed flags, `h.ref` and whether it is allocated. A pool makes `kmalloc` failure reachable, and freed objects are reused.
- **`pr[p]`, `dom`, `dref[p]`**: the references this code takes on paths (`path_get`/`kern_path`), on the client's `auth_domain`, and `exp_parent`'s dentry references.
- **Request threads** (`pc`, `tek`, `tex`, `trc`): where each thread is in `nfsd_set_fh_dentry`, the key and export entries it holds, and what `exp_get_by_name` returned.
- **The `exp_rootfh` caller** (`apc`, `astart`, `acur`, `aex`).
- **The agent** (`gpc`, `gid`): whether it is between a parse's lookup and its update, and the entry the lookup returned.
- **`chain[b]`**: the hashed entries of one cache and key, newest first. The core adds an entry at the head of its hash chain (`hlist_add_head`), and a lookup returns the first unexpired match it meets. Entries of different keys never compare equal, so only the order within one key is kept.

The cache-specific wrappers (`SvcExpkeyLookup`, `SvcExpkeyUpdate`,
`SvcExportLookup`, `SvcExportUpdate`) call the core with the cache and the
key. Their hashes only choose a chain, and `Matches` compares keys
directly, so the hashes are left out.

Actions, one per call that touches the caches:

- `LookupKey`, `CheckKey`, `LookupExport`, `CheckExport` and `PutKey` are the steps of `exp_find`.
- `SetupFh` is the rest of `nfsd_set_fh_dentry`. `nfsd_setuser` or the decode may fail, and then the export is put. `FhPut` is `fh_put`.
- The agent's writes are two steps each, because the core drops its hash lock between a lookup and the update that follows:
  - `ExpkeyLookup` is `expkey_parse` up to `svc_expkey_lookup` (`export.c:123`). `ExpkeyFinish(v)` is the rest: `v` is a path, an empty path (NEGATIVE), or a path `kern_path` does not resolve, and the update is at `export.c:137`/`147`.
  - `ExportLookup(p)` is `svc_export_parse` up to `svc_export_lookup` (`export.c:448`), with its `kern_path`. `ExportFinish(st)` is the update at `export.c:450`, the `exp_put` and the `path_put`. `st` is NEGATIVE when the flags are absent.
  Request threads, expiry, `cache_clean` and the flush run between the two steps.
- `RootFhStart`, `ParentStep` and `RootFhCompose` are `exp_rootfh` around `exp_parent`'s loop, one `exp_get_by_name` per step.
- `Expire` and `CacheClean` are time passing and the cleaner.
- `ExportFlush` is `nfsd_export_flush`, guarded by "no request thread active", because its only caller is `nfsd_last_thread`.

Data is abstracted: the expkey cache has the one key `Key`, export options
are not kept (`export_update` copies only flags), and a path is a name in
`Paths` with `Parent` as `dget_parent`.

**The abstract cache.** `CacheMap.tla` is what a sunrpc cache promises its
readers. `map[k]` is a key's value, `Neg`, or `Miss`. `got[r]` is what reader
`r` holds from a successful `cache_check`. Its steps are:

- `Change`: the agent writes, entries expire, or the cache is purged. Any key
  may change, and no holding does.
- `Read(r)`: a check succeeds on a key whose current value is a hit, and the
  reader gets that value.
- `Release(r)`: the reader puts its reference.

`ExportCache` maps each cache onto it, with `KeyTable` and `ExportTable`
(`INSTANCE CacheMap WITH ...`):

- `CurrentValue(c, k)` is the value of the key's one hashed, unexpired
  entry: the path of a VALID expkey entry, `"valid"` for a VALID export, and
  `"neg"` for a NEGATIVE entry. It is `Miss` when there is no such entry or
  it is still PENDING.
- `KeyRead(t)` is the key entry `exp_find` holds between its successful
  check and `cache_put`.
- `ExportRead(r)` is the export a request thread holds until its export is
  put. For the `exp_rootfh` caller it is the export `exp_parent` returned,
  held until `exp_put`.

### FileHandle

This module asks what a handle handed to a client resolves to later. The
export caches are taken as populated: `ExpFind` is `rqst_exp_find` →
`exp_find` when both entries are VALID, that is, the export whose root's
`mk_fsid` words equal the handle's fsid words.

State:

- **`present`, `gen`**: the objects of the exported filesystems and each
  object's inode generation. CREATE of a name bumps its generation, so a name
  removed and created again is a new inode with the same number.
- **`known`**: every handle the server has put in a reply, with the export,
  object and generation it was composed for.
- **`refs`**: dentry (`dget`/`dput`) and export (`exp_get`/`exp_put`) counts
  taken by the code under the handle, which must all be back at 0 after every
  request.
- **`reply`**: whether the last reply was nfs_ok and whether its handle
  resolves.

A handle is a record of its header fields (`fh_size`, version, auth type,
fsid type, fileid type) and its data words. The client sends the handles it
was given and altered copies of them (`Mangle`: zero length, last word
dropped, a non-zero auth type, an unknown fsid type, two stray bytes).

Actions:

- **`WriteFilehandle(o, max)`**: the `filehandle` control file: the
  maxsize checks and `exp_rootfh`, its `exp_parent` walk (`NearestExport`),
  `fh_compose` and the final puts.
- **`ProcGetattr(creds)`, `ProcFsinfo`**: `fh_copy`, `fh_verify` and the
  release. `creds` is whether `nfsd_setuser` succeeds.
- **`ProcAccess`**: `fh_copy` and nfs_ok, as in the code: no verify.
- **`ProcReaddirplus`**: verify, then one `compose_entry_fh` per entry
  (`.`, `..` and the children), each composed into a fresh handle and put.
- **`ProcCreate(c)`** (CREATE and MKDIR): verify the directory, compose the
  result for the still-negative dentry, make the object, `fh_update`.
- **`ProcRemove(c)`** (REMOVE and RMDIR): verify the directory and remove a
  childless object that is not an export root or a mount point.

Three pieces are not in this repository and are modelled from the spec:

- the generic `exportfs` encoding: a directory is `FILEID_INO32_GEN`
  (inode, generation), any other object `FILEID_INO32_GEN_PARENT` (adding
  the parent's), because subtree checking is on;
- its decoding, which fails with ESTALE when the inode is absent or the
  generation differs;
- the wire decoding `decode_fh`. In `nfs3xdr.c` it is a stub that does not
  compile (`size` is undeclared), so `FromWire` is what the spec says it
  does: the handle's bytes, up to `NFS3_FHSIZE`, copied into `fh_init`.

Inode numbers are pairs of 32-bit halves, because TLC's integers are 32 bits
and `ino_t_to_u32` keeps the low half.

### NfsdService

This module asks whether the server object `nn->nfsd_serv` is kept alive
exactly as long as it is used. Several tasks start and stop it: writers of the
`threads` file, the `nfsd` threads themselves when a signal ends their request
loop, and the inetaddr notifier.

Each entry point is a sequence of steps, split wherever the code reads
`nn->nfsd_serv` or `sv_nrthreads` and acts on the value later, so that the
tasks interleave. The code takes no lock: the comment at `nfssvc.c:137` says
it runs under `nfsd_mutex`, but neither `write_threads` (`bmw_main.c:215`)
nor a thread's exit (`nfssvc.c:356-365`) takes one. The model runs the code
as written. The constant `Serialised` only restricts the model:
- `FALSE`: every interleaving the code has (the passing run and the race run);
- `TRUE`: only the behaviours in which no `write_threads` call overlaps
  another or a thread's exit. The code has all of these, so a violation found
  among them is one of the code; the victim, count and bind cfgs use it to
  show their bugs apart from the race.

State:

- `nfsdServ` is `nn->nfsd_serv`.
- `servs` is a pool of `svc_serv` objects. Each has its allocation,
  `sv_nrthreads`, whether it has permanent sockets, and a ghost flag recording
  that one of its threads reached the request loop.
- `netUp`, `ntfRef`, `notifierRef` and `registered` are `nfsd_net_up`,
  `ntf_refcnt`, `nfsd_notifier_refcount` and the notifier's registration.
- `pc` and `loc` hold each task's position and locals: `nrservs`,
  `nfsd_up_before`, `error`, `destroy`, and the server pointer
  `svo_setup` was given.
- `sig` and `victim` are a thread's pending signal and its `RQ_VICTIM` flag.
- `npc` is the notifier callback's position, and `holder` the entry point in
  progress when `Serialised` holds.
- `fault` records a NULL dereference, a use after free or `svc_destroy`'s
  BUG_ON. The task that made it stops (`oops`).
- `asked` and `killed` are history variables, there only to state
  `ThreadCountReached`: the count last written to `threads`, and whether a
  signal from outside (`Kill`) has reached a thread.
- `raced` is a history variable: it becomes TRUE at the first step that
  changes `nn->nfsd_serv`, or whether its `sv_nrthreads` is 1, while some task
  sits between `nfsd_destroy`'s read of `sv_nrthreads == 1` and its
  `svc_destroy` (`nfssvc.c:246-253`). From then on that task acts on a stale
  decision: this is the race.

Actions:

- **Writer:**
  - `WriteThreads(w, n)` covers `write_threads` and the start of `nfsd_svc`.
  - `CreateServ` and `AllocServ` are `nfsd_create_serv`. Allocation, bind,
    notifier registration and `ntf_refcnt` are all in `AllocServ`.
  - `StartupNet` is `nfsd_startup_net` with `nfsd_init_socks`.
  - `Setup` is `svo_setup`: the change net of the caller's reference, and
    the victims it signals.
  - `StartThread` is one iteration of `svc_start_kthreads`, and its
    `out_shutdown` on failure.
- **Both writers and threads:** `DestroyRead`, `DestroyWait` and
  `DestroyPut` are `nfsd_destroy`, with `nfsd_last_thread` in between. Both
  the writer and exiting threads use them.
- **Thread:**
  - `ThreadStart` is `nfsd()` up to `allow_signal`, or its `unshare_fs_struct`
    failure.
  - `Kill` is a signal from outside.
  - `ThreadExit` is `svc_recv` returning `-EINTR`.
- **Notifier:** `Event` and `EventUse` are `nfsd_inetaddr_event`.

The sunrpc calls are not in this repository. They are modelled after their
use here:
- `svc_create_pooled` counts its creator;
- `svc_prepare_thread` counts a thread;
- `svc_destroy` drops one user and frees the server at zero, with a BUG_ON
  if permanent sockets are still open;
- `svc_shutdown_net` closes the sockets and calls `nfsd_last_thread`;
- `choose_victim` picks threads that are not yet victims, and `send_sig` is
  ignored until the thread has called `allow_signal`;
- unregistering the blocking notifier chain waits for a running callback.

### Nfs3ReadWrite

This module asks whether what a WRITE stores is what the client sent, and
whether a reader that stops at eof has everything written before it.

- **State:** `data` is the file, one entry per byte: the index of the WRITE
  that stored it, `Hole` for a gap nobody wrote (zeroes), or `Stale` for a
  byte `svc_fill_write_vector` took from a page the request did not fill.
  `Len(data)` is `i_size`. `wpc` and `wsent` are the writer's position in
  `Writes`; `rpc`, `rbuf` and `rcopy` are the reader's state, the bytes
  `nfsd_read` put in the pages and the reader's copy. `acked` and `before`
  are history variables: the ranges of the WRITE replies with `nfs_ok`, and
  their value when the reader sent its current READ.
- **Actions:**
  - `WriteCall`, then `ServeWrite`: `nfs3svc_decode_writeargs` (the fixed
    header within the head kvec, count equal to len, the received bytes covering `XDR_QUADLEN(len)*4`, then the cut to
    `svc_max_payload`), `svc_fill_write_vector`, `nfsd_write` and the reply
    with the count written. A failed decode is GARBAGE_ARGS and no vector is
    `nfserr_io`; the writer goes on either way.
  - `ReadCall`, then `ReadData` (`nfs3svc_decode_readargs` and
    `nfsd3_proc_read` up to `nfsd_read`), then `ReadEof` (`nfsd_eof_on_read`
    with the `i_size` of that moment, and the reply). A `ServeWrite` can run
    between the last two, as the comment in `vfs.h` warns.
- **Words:** the decoder's `unsigned int`s are `Width` bits wide (`U32`), so
  `XDR_QUADLEN` wraps as it does at 32 bits. `svc_max_payload` and
  `PAGE_SIZE` are scaled down with them.
- **From the spec:** `svc_fill_write_vector` (sunrpc), `nfsd_write` and
  `nfsd_read` (vfs.c) are not in this repository.

### NfsdDispatch

This module asks what a client is told when its call, or the reply, is lost
or duplicated. The server has no duplicate-reply cache: `nfsd_dispatch`
decodes every copy it receives, runs `pc_func` and encodes the status. A
client resends the same call, with the same xid, until it gets a reply.

State:

- **`files`**: each name of one directory: absent, a regular file or a
  directory, and the verifier an EXCLUSIVE create stored in the file's times.
- **`cpc`, `sends`**: each client's current call in its `Script` and how
  many times it has sent it. The call `<<c, i>>` is also its xid.
- **`reqs`, `reps`**: the calls and replies on the wire, as sets. A reply is
  the RPC accept_stat and, after SUCCESS, the nfsstat3.
- **`answers`**: the replies each client accepted. **`first`** is a history
  variable: the reply the first execution of each call produced.

Actions:

- **`Dispatch(x)`** is `nfsd_dispatch` on one copy of call `x`, start to
  finish:
  - `PcDecode`: `nfs3svc_decode_createargs` switches on the mode word
    (`UNCHECKED`, `GUARDED`, the 8-byte verifier for `EXCLUSIVE`) and fails
    on any other mode, which gives GARBAGE_ARGS with nothing run;
  - `PcFunc`: the four procedures, each one call of `do_nfsd_create`,
    `nfsd_create(S_IFDIR)` or `nfsd_unlink`;
  - `NfsErrno`, then `MapNewErrors`, then the status goes into the reply.

  The network may leave the copy on the wire, which is a duplicate.
- **`Send`**, **`Receive`**, **`Discard`**: the client sends or resends,
  accepts a reply whose xid is its current call, or drops a reply to a call
  it has finished.
- **`LoseRequest`**, **`LoseReply`**: the network loses a copy. The last
  transmission of a call is never lost. That names the bound `MaxSends`: a
  client that resent for ever would get through.

The filesystem calls are not in this tree (only `vfs.h` declares them). They
are modelled from what Linux's `vfs.c` does:

- `do_nfsd_create` succeeds on an existing name for UNCHECKED, and for
  EXCLUSIVE when the stored verifier is the caller's;
- otherwise it, and `nfsd_create`, return EEXIST;
- `nfsd_unlink` returns ENOENT, EISDIR or ENOTDIR.

Not modelled here:

- **The RQ_DROPME path.** A request whose export lookup is deferred is
  revisited later with nothing changed, which is a delay, not a step.
- **The `rpc_system_err` encode failure.** These replies are far below
  `pc_xdrressize`.
- **The directory handle.** Its verification and release are `FileHandle`'s.

Fairness: per-call weak fairness of `Dispatch`, and weak fairness of some
`Send` and some `Receive`. nfsd threads take every request off the transport
eventually; a duplicated copy cannot starve another call's. A client keeps
resending an unanswered call and takes its replies. Loss and duplication
have no fairness.

## Runs

| run | cfg | expect | checks |
|---|---|---|---|
| `readdir_listing` | `MCNfs3Readdir.cfg` | pass | `TypeOK`, `ReplyStreamMatchesEntries`, `ListingExact`, `ListingRefinesDirListing` |
| `readdir_stray_cookie_write` | `MCNfs3ReaddirStray.cfg` | violation | `NoStrayWrite` |
| `export_cache_rootfh` | `MCExportCache.cfg` | pass | `TypeOK`, `RefCountsExact`, `ExternalRefsExact`, `DuplicatesOnlyPending`, `CachesRefineCacheMap` |
| `filehandle_codec` | `MCFileHandle.cfg` | pass | `TypeOK`, `RefsBalanced`, `HandlesRoundTrip`, `AcceptedNamesIssuedObject` |
| `filehandle_escape` | `MCFileHandleEscape.cfg` | violation | `AcceptedWithinExport` |
| `service_lifecycle` | `MCNfsdService.cfg` | pass | `TypeOK`, `RefsExact`, `ServLifetimeSafeUnlessRaced`, `ShutdownCleanUnlessRaced`, `SignalledThreadsExitUnlessRaced` |
| `service_unlocked_race` | `MCNfsdServiceRace.cfg` | violation | `ServLifetimeSafe` |
| `service_victim_signal_lost` | `MCNfsdServiceVictim.cfg` | violation | `VictimsExit` |
| `service_thread_count` | `MCNfsdServiceCount.cfg` | violation | `ThreadCountReached` |
| `dispatch_retransmit` | `MCNfsdDispatch.cfg` | pass | `TypeOK`, `ExclusiveCreateUnique`, `RepliesReportFirstExecution`, `AllCallsAnswered` |
| `dispatch_no_reply_cache` | `MCNfsdDispatchNonIdem.cfg` | violation | `RepliesReportFirstExecution` |
| `readwrite_io` | `MCNfs3ReadWrite.cfg` | pass | `TypeOK`, `WrittenBytesReceived`, `ReaderSeesPriorWrites` |

- **`ReplyStreamMatchesEntries`**: the `count` words the reply sends equal the
  accepted entries, and each entry's cookie holds the position of the entry
  after it. That one property covers several pieces of code at once:
  - the deferred backpatching, through `offset` and `offset1`;
  - the three cookie placements of a split;
  - the move-back case;
  - `resp->count` from the loop over the reserved pages.
- **`ListingExact`**: a client that keeps resending the cookie it got receives
  every entry once and in order, and when eof is reported it has all of them.
- **`ListingRefinesDirListing`**: the refinement. `DirListing.tla` is what a
  client listing a directory is promised: every reply hands over the entries
  that follow those it has, in order, and says eof only after the last one;
  while the listing is not at its end, every call moves it on (weak fairness
  of `Receive`). `Nfs3Readdir` instantiates it with `listed` and `eof` as the
  abstract variables (`Listing == INSTANCE DirListing WITH received <- listed,
  atEnd <- eof`) and checks
  `Listing!Spec` as a temporal property. `ClientReceive` is a `Receive` step,
  `Relist` a `Restart`, and every server step a stutter. The liveness half
  holds with a count of 160 bytes too. That count is below the READDIRPLUS
  estimate of 46 words, so such a call stops at `nfserr_toosmall` before
  its first entry, and its reply has no entry and no eof. Spec 4.4 has the
  caller retry with a larger budget, and the client does (`Retries`), so the
  listing moves on. A client that resends the too-small count is never
  answered with an entry.
- **`NoStrayWrite`** is violated. After a READDIRPLUS entry whose cookie
  straddles the page boundary (the "fence" case), let the next entry be too
  small. `encode_entry` has already backpatched through `offset1` and cleared
  it. `nfsd3_proc_readdirplus` then sees `offset1 == NULL` and writes the
  cookie's 8 bytes from the last word of the page, so the last 4 bytes land past
  the page (`proc.c:368`). TLC's trace has 7 steps:
  1. the first entry is written in the page;
  2. two entries are moved back;
  3. an entry is split on the fence at word 44;
  4. the next entry is too small;
  5. the reply is finished.
  The reply data is still correct, because the same value was already written
  through `offset1`. The damage is to the memory after the page.

Export caches:

- **`RefCountsExact`**: every allocated entry's `h.ref` is exactly its hash
  reference plus the threads holding it, and nobody holds a freed entry. A
  missing put (for example, putting the result of a failed update) is a leak.
  An extra put frees an entry another thread is using.
- **`ExternalRefsExact`**: the path, domain and dentry references are
  balanced. That covers `expkey_update`'s `path_get` against `expkey_put`'s
  conditional `path_put`, `svc_export_init` against `svc_export_put`, and the
  parses' and `exp_rootfh`'s `kern_path`/`path_put`. It also covers
  `exp_parent`'s dentry juggling on every exit.
- **`DuplicatesOnlyPending`**: a key may have more than one unexpired
  hashed entry, but every entry after the first is PENDING. So no lookup
  returns it while the first lasts, and a key never has two VALID or
  NEGATIVE answers at once. The spec's stronger "unique per key" (section 3)
  does not hold of the code. TLC finds it broken in 7 states when it is
  checked as an invariant:
  1. the agent's `svc_expkey_lookup` returns E1;
  2. E1 expires;
  3. a request thread's lookup hashes a new PENDING E2;
  4. the agent's `svc_expkey_update` replaces E1 with a VALID E3 at the head.

  E2 stays PENDING behind E3 until it expires. The mutant `Supersede` →
  `SupersedeNot` leaves a replaced entry unexpired, and TLC finds two VALID
  entries for one key.
- **`CachesRefineCacheMap`** (refinement, as a property): both caches
  implement `CacheMap`. Every step of the lookups, checks, agent writes,
  expiry, `cache_clean` and flush is one of three things:
  - a change of the map that leaves the readers alone;
  - a read of the key's current value;
  - a release.

  So `cache_check` never succeeds on a superseded or expired entry. A lookup
  never changes what a key maps to. An entry a reader holds is never updated
  in place. And what a thread holds stays what it read, whatever the agent
  does in the meantime. The mutant `CheckRc` → `CheckRcIgnoresExpiry` makes
  `cache_check` return OK for an expired VALID entry, and TLC finds a read
  that is not the key's current value.

`export_cache_rootfh` runs one request thread over `root` and `dir`, and
the `exp_rootfh` caller on `dir` (431k distinct states, about two minutes
with coverage). The three pool objects are model values under symmetry: which
free object `kmalloc` returns makes no difference. The walk from `dir` reaches `root`, so it takes
every branch that a call on `root` itself would: ENOENT below the root, an
export found, and an error at the root. Adding the call on `root`
multiplies the states, and the refinement check no longer fits in five minutes.
`MCExportCacheThreads.cfg` runs two request threads over one path, with no
`exp_rootfh` (328k states, under a minute). It
checks the same properties and passes. It is kept beside the run but is not
one of the project's runs, because the run list is at its limit. Four pool objects
with two threads and the admin caller together did not finish in ten minutes.
Three objects still leave room for an old and a new key entry plus an export
entry, and make allocation failure happen.

File handles:

- **`RefsBalanced`**: every request and every control-file write leaves the
  dentry and export counts at 0. That covers each error path of
  `nfsd_set_fh_dentry` (the export put when `nfsd_setuser` or the decode
  fails), `fh_compose`'s failure path, and `compose_entry_fh`'s early exit for
  `..` of the filesystem root, which takes a `dget` it must drop.
- **`HandlesRoundTrip`**: every handle the server has issued verifies to
  the export and object it was composed for while that object lives, and as
  stale once the object is removed, including after the name was created again.
  It covers `mk_fsid`, `key_len`, the fsid/fileid layout of `fh_compose` and
  `_fh_update`, the CREATE order of compose-then-`fh_update`, and the
  generation check of the decode.
- **`AcceptedNamesIssuedObject`**: no altered handle is accepted as an object
  that no issued handle names under that export.

One violation, a disagreement with the spec (see `findings`):

- **`AcceptedWithinExport`**: READDIRPLUS of export `e1`, whose root is not
  the filesystem root, composes `..` under `e1`. `nfsd_acceptable` accepts
  everything, so that handle to the directory above the export verifies. The
  trace is two steps long.

Bounds (`MCFileHandle`): four objects (a filesystem root `top`, an export
root `ex` below it, a file `f` and a name `n` that CREATE can make), two
exports (`ex` and `top`), and `MaxGen = 2`, so each name can be removed and
created again once. That is the smallest tree that has a `..` crossing an
export boundary, a nested export for `exp_parent`, and a reused inode. Maxsizes
16, 32 and 64 reach `write_filehandle`'s rejection, its 32-byte handles and
`NFS3_FHSIZE`. The run has 7,487 states. `FileHandle` assumes no fairness:
it checks only safety.

Service lifecycle:

- **The passing run** (`service_lifecycle`) is the code as written, with no
  lock (`Serialised = FALSE`). Every call except `svc_bind` may fail:
  `svc_create_pooled`, either socket, a kthread, and `unshare_fs_struct`.
  The race of `nfssvc.c:246` breaks everything once it happens, and
  `service_unlocked_race` shows it. This run asks what holds in every
  behaviour up to it: `CONSTRAINT NotRaced` stops exploring at the first
  raced state, which every property below exempts anyway.
  - **`ServLifetimeSafeUnlessRaced`**: no step dereferences a NULL or freed
    `nn->nfsd_serv` or trips the BUG_ON, and the published pointer is never
    freed.
  - **`RefsExact`**: `sv_nrthreads` equals the writers and threads using
    the server.
  - **`ShutdownCleanUnlessRaced`**: between calls, a server exists exactly
    while a thread does, and without one the net is down, `ntf_refcnt` and
    the notifier count are 0, and the notifier is unregistered.
  - **`SignalledThreadsExitUnlessRaced`**: in a behaviour with no race,
    every signalled thread gets through `nfsd_last_thread`'s wait.
  So the error paths of `nfsd_svc` and `nfsd_create_serv`, the notifier's
  `ntf_refcnt` and the socket teardown are right; the lock is what is
  missing.
- **`service_unlocked_race`** (`ServLifetimeSafe`). This is the code as it
  is: no lock, and no failures. The trace is 14 states long:
  1. `write_threads(1)` starts `t1`;
  2. the writer's `nfsd_destroy` reads `sv_nrthreads == 2`;
  3. `t1` is signalled, exits, and also reads 2;
  4. both call `svc_destroy`, and the second frees the server with its
     sockets open.
- **`service_victim_signal_lost`** (`VictimsExit`):
  1. `write_threads(1)` creates `t1`;
  2. `write_threads(0)` picks `t1` as a victim before it reaches
     `allow_signal`, so the SIGINT is ignored;
  3. `t1` then serves forever. It can no longer be chosen, so later writes
     do not stop it either.
- **`service_thread_count`** (`ThreadCountReached`). The comment on
  `write_threads` says the value written is the number of threads to start.
  The property: if no outside signal ever arrives, every victim's signal is
  delivered (so the lost signal above is excluded), and the writes stop,
  then the threads that are started and not victims come to number the
  count last written. It is violated, serialised and with no failures, in 26
  states:
  1. `write_threads(1)` starts `t1`;
  2. `write_threads(0)` signals `t1` as a victim;
  3. `write_threads(1)` runs before `t1` leaves: `sv_nrthreads` still counts
     it, so the change is `1 - (2 - 1) = 0` and nothing starts, and
     `nfsd_svc` returns 1 (`nfssvc.c:294`);
  4. `t1` exits, and no thread serves.

Bounds (`MCNfsdService`):
- **One writer.** The interleavings of interest are between the writer and
  the threads, and one writer is enough to race a thread's exit.
- **Two thread slots.** That is the fewest for two concurrent exits and for
  a partial start.
- **Two server objects.** A server can then be created again while a freed
  one is still pointed at.
- **Counts 0, 1 and 2.** These give raising, lowering and stopping.

The passing run has 23,534 distinct states.

Fairness (`NfsdService`): weak fairness for every step of a running task,
and strong fairness for the steps that wait, because `ntf_refcnt == 0` (and,
under `Serialised`, the entry point in progress) can be taken away and given
back. The kernel schedules runnable tasks, and wait-queue waiters are woken. There is no
fairness for writes to the control file, outside signals or address events.

Bounds and why they are enough (`MCNfs3Readdir`):

- **`PAGE_SIZE`** is scaled to 200 bytes (50 words). The real READDIRPLUS
  estimate (46-47 words) and real entry sizes (9-18 words, with a 28-byte
  handle) then make every path of `encode_entry` reachable within 5 entries:
  - in place;
  - moved back;
  - split with the cookie in the first page, in the second page, or on the fence;
  - an exact fit, `len2 = 0`.
- **Counts:**
  - 160 bytes (38 words) admits no READDIRPLUS entry: every such call ends at `nfserr_toosmall`.
  - 200 bytes is one page. READDIRPLUS then needs 2 to 4 calls per listing, which exercises resumption.
  - 400 bytes is two pages. It exercises splits.
- **Names** are 3 or 6 bytes, one or two XDR words. That moves the cookie's position in the entry by one word, which is what the fence case depends on.
- **Directories:** all 1024 directories of 5 entries are initial states.

`ExportCache` checks safety only and assumes no fairness.

Request dispatch (`MCNfsdDispatch`: clients `c1` and `c2`, one name `n1`,
`MaxSends = 2`, so one copy of each call or its reply can be lost and
resent):

- **The passing run.** Both clients create `n1` EXCLUSIVE with their own
  verifiers. `c1` then sends a CREATE with mode word 3, and `c2` an
  UNCHECKED create. Its 9,530 states cover every interleaving of the two
  clients' copies, losses and duplicates.
  - **`ExclusiveCreateUnique`**: at most one client is ever told that its
    exclusive create made the file. Its retransmissions match the stored
    verifier; the other client's never do.
  - **`RepliesReportFirstExecution`**: every reply a client accepts is the
    reply the call's first execution produced. For these calls the protocol
    needs no reply cache.
  - **`AllCallsAnswered`**: every call is answered in the end, the
    undecodable one included (GARBAGE_ARGS).
- **`dispatch_no_reply_cache`** (`RepliesReportFirstExecution`). The calls
  are a GUARDED CREATE and a REMOVE from `c1`, and a MKDIR and an RMDIR from
  `c2`. TLC's 5-state trace:
  1. `c2` sends MKDIR once;
  2. the network duplicates it;
  3. both copies run: the first makes the directory (OK), the second gets
     EEXIST;
  4. the EEXIST reply overtakes the OK, and `c2` is told its MKDIR failed.

  The comment over the procedure table says non-idempotent results are
  cached, and MKDIR is called not idempotent, but `nfsd_dispatch` has no
  reply cache.

READ and WRITE (`MCNfs3ReadWrite`):

- **`readwrite_io`**. The writer appends six calls: a 2-byte WRITE with
  its padding, a 3-byte one of which one byte arrived, a 6-byte one (cut to
  the 4-byte payload), one whose count is not its length, one whose fixed
  header runs past the head kvec, and an empty one.
  Together they take every path of the decoder and of `nfsd3_proc_write`.
  The reader's count of 5 is cut to 4 and spans two pages. Every
  interleaving of the two clients gives 198 states.
  - **`WrittenBytesReceived`**: no byte of the file is `Stale`. The
    decoder's length check keeps `svc_fill_write_vector` inside the data
    received.
  - **`ReaderSeesPriorWrites`**: when the reader stops at eof, its copy
    holds every byte of every WRITE acknowledged before its last READ was
    sent, none of them a hole. This holds even though the eof test reads
    `i_size` after the read, because a WRITE that lands in between can only
    turn an eof into a further READ. The writer must append (an ASSUME of
    the module); a writer that fills a gap behind the reader is not covered
    by NFS's guarantees.
  - Bounds: 5-bit words, 2-byte pages and a 4-byte payload keep the
    relations the code tests (count against len, received against padded
    length, count against payload, payload against pages) at the sizes
    where each one changes the outcome.

Fairness (`Nfs3ReadWrite`): `WF_vars(Next)`, but no property of the run is
a liveness one. Both clients finish, so deadlock checking is off.

Fairness (`Nfs3Readdir`): `WF_vars(Next)`. A request is served start to finish by one `nfsd`
thread that does not block inside the packer (spec §5). The client keeps
listing.

## Observations kept as hazards, not runs

Seven disagreements were seen with TLC while the modules were built and have
no run of their own. For the first four, the cfg is kept and reproduces the
violation. The ACCESS one and the `threads` read are single-call bugs a unit
test reaches, so they are not in `hazards`; the other three are, with a note:
- `nfs3xdr.c:291` (`Nfs3ReadWrite`, `MCNfs3ReadWriteWrap.cfg`,
  `WrittenBytesReceived`): `XDR_QUADLEN(len)` is `((len) + 3) >> 2` on an
  unsigned int. A WRITE whose count and len are `2^32 - 3` makes it 0, so
  the check passes with no data. Its length is then cut to the payload, and
  `svc_fill_write_vector` hands `nfsd_write` payload-many bytes of pages the
  request never filled. At 5 bits, TLC's trace stores four `Stale` bytes
  after one good WRITE (5 states).
- `nfssvc.c:220` (`NfsdService`, `MCNfsdServiceBind.cfg`,
  `ServLifetimeSafe`): one `write_threads` whose `svc_bind` fails leaves
  `nn->nfsd_serv` pointing to the server `svc_destroy` just freed, and the
  next write calls `svc_get` on it. This needs no concurrency (11 states).
- `proc.c:102` (`FileHandle`, `MCFileHandleAccess.cfg`,
  `ReplyOkOnlyIfResolvable`): `nfsd3_proc_access` never calls `fh_verify`,
  so a zero-length handle gets nfs_ok and the full requested access.
- `nfsfh.h:59` (`FileHandle`, `MCFileHandleCollision.cfg`,
  `HandlesRoundTrip`): two exports on devices 0:65536 and 1:0 (a 20-bit
  minor) whose roots have the same inode number get the same fsid word,
  because `MAJOR << 16 | MINOR` overlaps. The root handle of the second
  export then resolves to the first.
- `nfsfh.c:60`: `data_left = fh_size/4` drops stray bytes and nothing checks
  `fh_size % 4`, so a handle with two bytes appended is accepted, though spec
  4.3 says it is rejected.
- `bmw_main.c:219`: a zero-length write to `threads` sets `rv = 1`, so a read
  reports 1 whatever the number of running threads, against the comment on
  `write_threads`. The read changes no state and is not an action.
- `nfssvc.c:296`: when the second kthread of `write_threads(2)` fails,
  `out_shutdown` clears `nfsd_net_up` while `t1` keeps serving. When `t1`
  later exits, `nfsd_last_thread` skips the export flush. Its comment says
  the flush is skipped only before any thread has started.

## Plan

Modules still to build, in this order:

1. **`ExportCache`** (built). The sunrpc cache core, modelled from spec §4.1 because
   that code is not in this repository: lookup, update, check, put and purge,
   with reference counts and PENDING/VALID/NEGATIVE/expired states. On top of it:
   - the expkey and export templates from `export.c`: the `*_parse` agent
     writes, with their path and domain references, and the
     `put`/`init`/`update` callbacks;
   - the resolver: `exp_find_key`, `exp_get_by_name`, `exp_find` and `exp_parent`.
   Request threads resolve handles concurrently with agent writes, expiry and
   `nfsd_export_flush`. Properties:
   - no entry is used after its last put;
   - no path or domain reference leaks;
   - `exp_find` returns the export for the path the key mapped to;
   - `exp_parent` returns the closest exported ancestor.
   An abstract key-to-export map is refined by the cache.
2. **`FileHandle`** (built). The numeric-fsid candidate was dropped: every
   handle the code composes starts from `fh_init`, so the fsid type is always
   `FSID_DEV`, and the spec's numeric fsid is about the expkey key, not the
   handle.
3. **`NfsdService`** (built). Besides the missing `nfsd_mutex` (the race), it found
   the dangling pointer after a failed `svc_bind`, the skipped flush after a
   partial start, the lost victim signal, the thread count computed against
   exiting victims and the constant read of the threads file.
4. **`NfsdDispatch`** (built). `nfsd_dispatch` and the directory
   procedures over a lossy network; it found that nothing caches
   non-idempotent replies. The table's `pc_release` functions are
   `FileHandle`'s.
