---------------------------- MODULE NfsdDispatch ----------------------------
(***************************************************************************)
(* Request dispatch: nfsd_dispatch (nfssvc.c) running the v3 procedures    *)
(* that change a directory (CREATE, MKDIR, REMOVE, RMDIR of the table in  *)
(* proc.c) for clients that reach the server over a network that loses,   *)
(* duplicates and reorders calls and replies.  A client that gets no      *)
(* reply sends the same call (same xid) again.  The server keeps no reply *)
(* cache: nfsd_dispatch decodes, runs pc_func and encodes every copy it   *)
(* receives.                                                               *)
(*                                                                         *)
(* A call is <<c, i>>: the i-th call of client c's Script, which is also  *)
(* its xid.  The directory is one directory handle already verified (the  *)
(* handle path is FileHandle's); its entries are Names.  A request whose  *)
(* export lookup is deferred (RQ_DROPME) is revisited later with no state *)
(* changed, so it is the same as a delayed request and is not a step.     *)
(***************************************************************************)
EXTENDS Integers, Sequences, FiniteSets

CONSTANTS
  Clients,    \* the clients, each with its own create verifier
  Names,      \* the entry names of the directory
  Script,     \* Script[c]: client c's calls in order, [proc, mode, name]
  MaxSends,   \* transmissions a client makes of one call
  NULL

\* NFSv3 procedure numbers and createhow3 modes on the wire (RFC 1813).
CREATE == 8
MKDIR  == 9
REMOVE == 12
RMDIR  == 13
UNCHECKED == 0
GUARDED   == 1
EXCLUSIVE == 2

\* The errno values the filesystem calls return here (asm-generic/errno-base.h).
ENOENT == 2
EIO == 5
EACCES == 13
EEXIST == 17
ENOTDIR == 20
EISDIR == 21

CallIds == UNION {{<<c, i>> : i \in 1 .. Len(Script[c])} : c \in Clients}

\* nfsstat3 values (include/uapi/linux/nfs.h); WRONGSEC is the v4 status
\* nfsd procedures may return.
NFS_OK == 0
NFSERR_NOENT == 2
NFSERR_IO == 5
NFSERR_ACCES == 13
NFSERR_EXIST == 17
NFSERR_NOTDIR == 20
NFSERR_ISDIR == 21
NFSERR_WRONGSEC == 10016
NfsStat == {NFS_OK, NFSERR_NOENT, NFSERR_IO, NFSERR_ACCES, NFSERR_EXIST,
            NFSERR_NOTDIR, NFSERR_ISDIR}

\* The RPC accept_stat of a reply (RFC 5531): the procedure ran, or the
\* arguments did not decode.
SUCCESS == 0
GARBAGE_ARGS == 4

\* What a client can be told: accept_stat and, after SUCCESS, the status.
Status == [accept : {SUCCESS}, nfs : NfsStat] \cup
          [accept : {GARBAGE_ARGS}, nfs : {NULL}]

VARIABLES
  files,    \* files[n]: the entry n ("none", "reg" or "dir") and the
            \* verifier an exclusive create stored in its times
  cpc,      \* cpc[c]: the call client c is making (Len(Script[c]) + 1: done)
  sends,    \* sends[c]: the transmissions of that call so far
  reqs,     \* the calls on the wire to the server
  reps,     \* the replies on the wire: [call, st]
  answers,  \* answers[c]: the statuses client c accepted, one per call
  first     \* first[x]: the status the first execution of call x returned

vars == <<files, cpc, sends, reqs, reps, answers, first>>

-----------------------------------------------------------------------------
(* The client side and the network.                                        *)

\* The call the client puts on the wire: the procedure, the name, the mode
\* word and, for EXCLUSIVE, its 8-byte verifier (here, the client).
Wire(x) == LET s == Script[x[1]][x[2]] IN
  [proc |-> s.proc, mode |-> s.mode, name |-> s.name, verf |-> x[1]]

\* The client sends its current call, first or again after a timeout; the
\* timeout may fire while a reply is still on its way.
Send(c) ==
  /\ cpc[c] <= Len(Script[c])
  /\ sends[c] < MaxSends
  /\ reqs' = reqs \cup {<<c, cpc[c]>>}
  /\ sends' = [sends EXCEPT ![c] = @ + 1]
  /\ UNCHANGED <<files, cpc, reps, answers, first>>

\* A reply whose xid is the call in progress is accepted and the client
\* moves on to its next call.
Receive(p) ==
  LET c == p.call[1] IN
  /\ p.call[2] = cpc[c]
  /\ answers' = [answers EXCEPT ![c] = Append(@, p.st)]
  /\ cpc' = [cpc EXCEPT ![c] = @ + 1]
  /\ sends' = [sends EXCEPT ![c] = 0]
  /\ reps' = reps \ {p}
  /\ UNCHANGED <<files, reqs, first>>

\* A reply to a call the client has finished matches no pending xid.
Discard(p) ==
  /\ p.call[2] < cpc[p.call[1]]
  /\ reps' = reps \ {p}
  /\ UNCHANGED <<files, cpc, sends, reqs, answers, first>>

\* The network loses a copy of call x, or of a reply to it, unless it is
\* the call in progress and its client has no transmission left: some
\* copy of the last transmission gets through.
MayLose(x) == x[2] # cpc[x[1]] \/ sends[x[1]] < MaxSends

LoseRequest(x) ==
  /\ MayLose(x)
  /\ reqs' = reqs \ {x}
  /\ UNCHANGED <<files, cpc, sends, reps, answers, first>>

LoseReply(p) ==
  /\ MayLose(p.call)
  /\ reps' = reps \ {p}
  /\ UNCHANGED <<files, cpc, sends, reqs, answers, first>>

-----------------------------------------------------------------------------
(* The filesystem calls the procedures make (vfs.c, outside this tree).    *)

\* do_nfsd_create: an absent name is created as a regular file, an
\* EXCLUSIVE create storing the verifier in its times.  On an existing
\* name UNCHECKED succeeds, EXCLUSIVE succeeds only when the stored
\* verifier is the caller's, and GUARDED (and EXCLUSIVE otherwise) is
\* EEXIST.
DoNfsdCreate(f, mode, verf) ==
  CASE f.kind = "none"   -> [err |-> 0, f |-> [kind |-> "reg",
                               verf |-> IF mode = EXCLUSIVE THEN verf ELSE NULL]]
    [] mode = UNCHECKED  -> [err |-> 0, f |-> f]
    [] mode = EXCLUSIVE /\ f.kind = "reg" /\ f.verf = verf
                         -> [err |-> 0, f |-> f]
    [] OTHER             -> [err |-> -EEXIST, f |-> f]

\* nfsd_create(S_IFDIR): EEXIST on an existing name.
NfsdCreateDir(f) ==
  IF f.kind = "none" THEN [err |-> 0, f |-> [kind |-> "dir", verf |-> NULL]]
                     ELSE [err |-> -EEXIST, f |-> f]

\* nfsd_unlink: type -S_IFDIR unlinks a non-directory, S_IFDIR removes a
\* directory; ENOENT, EISDIR or ENOTDIR otherwise.
NfsdUnlink(f, isdir) ==
  CASE f.kind = "none"             -> [err |-> -ENOENT, f |-> f]
    [] (f.kind = "dir") = isdir    -> [err |-> 0, f |-> [kind |-> "none", verf |-> NULL]]
    [] isdir                       -> [err |-> -ENOTDIR, f |-> f]
    [] OTHER                       -> [err |-> -EISDIR, f |-> f]

-----------------------------------------------------------------------------
(* The server: proc.c and nfs3xdr.c.                                       *)

\* Mutant: the host errno goes into the reply untranslated.
NfsErrnoRaw(e) == e

\* nfserrno: the errno translation table, io for an errno it lacks.
NfsErrTbl == {<<NFS_OK, 0>>, <<NFSERR_NOENT, -ENOENT>>, <<NFSERR_IO, -EIO>>,
              <<NFSERR_ACCES, -EACCES>>, <<NFSERR_EXIST, -EEXIST>>,
              <<NFSERR_NOTDIR, -ENOTDIR>>, <<NFSERR_ISDIR, -EISDIR>>}

NfsErrno(e) ==
  IF \E t \in NfsErrTbl : t[2] = e THEN (CHOOSE t \in NfsErrTbl : t[2] = e)[1]
                                   ELSE NFSERR_IO

\* Mutant: EXCLUSIVE leaves args->verf unset, so every client's verifier
\* is the same.
DecodeCreateArgsNoVerf(w) ==
  CASE w.mode \in {UNCHECKED, GUARDED} -> [ok |-> TRUE, mode |-> w.mode, verf |-> NULL]
    [] w.mode = EXCLUSIVE -> [ok |-> TRUE, mode |-> EXCLUSIVE, verf |-> NULL]
    [] OTHER -> [ok |-> FALSE]

\* Mutant: the EXCLUSIVE case label decodes as GUARDED.
DecodeCreateArgsAsGuarded(w) ==
  CASE w.mode \in {UNCHECKED, GUARDED} -> [ok |-> TRUE, mode |-> w.mode, verf |-> NULL]
    [] w.mode = EXCLUSIVE -> [ok |-> TRUE, mode |-> GUARDED, verf |-> w.verf]
    [] OTHER -> [ok |-> FALSE]

\* nfs3svc_decode_createargs: the mode word selects a sattr3 (UNCHECKED,
\* GUARDED) or the verifier (EXCLUSIVE); any other mode fails to decode.
DecodeCreateArgs(w) ==
  CASE w.mode \in {UNCHECKED, GUARDED} -> [ok |-> TRUE, mode |-> w.mode, verf |-> NULL]
    [] w.mode = EXCLUSIVE -> [ok |-> TRUE, mode |-> EXCLUSIVE, verf |-> w.verf]
    [] OTHER -> [ok |-> FALSE]

\* nfs3svc_decode_mkdirargs and nfs3svc_decode_diropargs: handle and name.
DecodeDiropArgs(w) == [ok |-> TRUE, mode |-> NULL, verf |-> NULL]

\* The table's pc_decode for each procedure.
PcDecode(w) == IF w.proc = CREATE THEN DecodeCreateArgs(w) ELSE DecodeDiropArgs(w)

\* The table's pc_func on the decoded arguments a: nfsd3_proc_create,
\* nfsd3_proc_mkdir, nfsd3_proc_remove and nfsd3_proc_rmdir, each one
\* filesystem call whose errno is translated by nfserrno.
PcFunc(w, a, f) ==
  CASE w.proc = CREATE -> DoNfsdCreate(f, a.mode, a.verf)
    [] w.proc = MKDIR  -> NfsdCreateDir(f)
    [] w.proc = REMOVE -> NfsdUnlink(f, FALSE)
    [] OTHER           -> NfsdUnlink(f, TRUE)

\* map_new_errors: WRONGSEC is reported to v3 clients as ACCES.
MapNewErrors(st) == IF st = NFSERR_WRONGSEC THEN NFSERR_ACCES ELSE st

\* Mutant: a call that fails to decode is dropped (return 0) instead of
\* answered with GARBAGE_ARGS.
DispatchDropGarbage(x) ==
  LET w  == Wire(x)
      a  == PcDecode(w)
      r  == PcFunc(w, a, files[w.name])
      st == [accept |-> SUCCESS, nfs |-> MapNewErrors(NfsErrno(r.err))]
  IN /\ x \in reqs
     /\ \E dup \in BOOLEAN : reqs' = IF dup THEN reqs ELSE reqs \ {x}
     /\ files' = IF a.ok THEN [files EXCEPT ![w.name] = r.f] ELSE files
     /\ reps' = IF a.ok THEN reps \cup {[call |-> x, st |-> st]} ELSE reps
     /\ first' = IF first[x] = NULL /\ a.ok THEN [first EXCEPT ![x] = st] ELSE first
     /\ UNCHANGED <<cpc, sends, answers>>

\* nfsd_dispatch on one received copy of call x: decode, or reply
\* GARBAGE_ARGS; run the procedure; encode its status into the reply.
\* The copy is consumed, or stays on the wire when the network duplicated it.
Dispatch(x) ==
  LET w  == Wire(x)
      a  == PcDecode(w)
      r  == PcFunc(w, a, files[w.name])
      st == IF a.ok THEN [accept |-> SUCCESS, nfs |-> MapNewErrors(NfsErrno(r.err))]
                    ELSE [accept |-> GARBAGE_ARGS, nfs |-> NULL]
  IN /\ x \in reqs
     /\ \E dup \in BOOLEAN : reqs' = IF dup THEN reqs ELSE reqs \ {x}
     /\ files' = IF a.ok THEN [files EXCEPT ![w.name] = r.f] ELSE files
     /\ reps' = reps \cup {[call |-> x, st |-> st]}
     /\ first' = IF first[x] = NULL THEN [first EXCEPT ![x] = st] ELSE first
     /\ UNCHANGED <<cpc, sends, answers>>

-----------------------------------------------------------------------------

Init ==
  /\ files = [n \in Names |-> [kind |-> "none", verf |-> NULL]]
  /\ cpc = [c \in Clients |-> 1]
  /\ sends = [c \in Clients |-> 0]
  /\ reqs = {}
  /\ reps = {}
  /\ answers = [c \in Clients |-> <<>>]
  /\ first = [x \in CallIds |-> NULL]

Next ==
  \/ \E c \in Clients : Send(c)
  \/ \E x \in reqs : Dispatch(x)
  \/ \E x \in reqs : LoseRequest(x)
  \/ \E p \in reps : Receive(p)
  \/ \E p \in reps : Discard(p)
  \/ \E p \in reps : LoseReply(p)

\* nfsd threads keep taking requests off the transport, and a client keeps
\* retransmitting a call it has no answer to and takes the replies it gets.
Fairness ==
  /\ WF_vars(\E c \in Clients : Send(c))
  /\ \A x \in CallIds : WF_vars(x \in reqs /\ Dispatch(x))
  /\ WF_vars(\E p \in reps : Receive(p))

Spec == Init /\ [][Next]_vars /\ Fairness

-----------------------------------------------------------------------------

TypeOK ==
  /\ files \in [Names -> [kind : {"none", "reg", "dir"}, verf : Clients \cup {NULL}]]
  /\ cpc \in [Clients -> Nat] /\ sends \in [Clients -> 0 .. MaxSends]
  /\ reqs \subseteq CallIds
  /\ reps \subseteq [call : CallIds, st : Status]
  /\ answers \in [Clients -> Seq(Status)]
  /\ first \in [CallIds -> Status \cup {NULL}]

\* The comment over the v3 procedure table (proc.c) says the results of
\* non-idempotent operations are cached: a client that sends a call again
\* is told what the call did, the status of its first execution, even when
\* the reply to that execution was lost and the copy ran again.
RepliesReportFirstExecution ==
  \A c \in Clients : \A k \in 1 .. Len(answers[c]) :
    answers[c][k] = first[<<c, k>>]

\* An EXCLUSIVE CREATE stands in for the missing reply cache by its
\* verifier: of the clients that exclusively create the same name (and
\* with no call that removes it), at most one is ever told that it created
\* the file, however the copies of their calls interleave and repeat.
ExclusiveCreateUnique ==
  \A n \in Names :
    (\A x \in CallIds : Script[x[1]][x[2]].name = n =>
                          Script[x[1]][x[2]].proc \in {CREATE, MKDIR}) =>
      Cardinality({c \in Clients :
        \E k \in 1 .. Len(answers[c]) :
          /\ Script[c][k] = [proc |-> CREATE, mode |-> EXCLUSIVE, name |-> n]
          /\ answers[c][k] = [accept |-> SUCCESS, nfs |-> NFS_OK]}) <= 1

\* Every call of every client is answered in the end: a lost call or reply
\* is retransmitted, stale and duplicate replies are dropped by xid, and a
\* call whose arguments do not decode is still answered (GARBAGE_ARGS).
AllCallsAnswered == <>(\A c \in Clients : cpc[c] = Len(Script[c]) + 1)

=============================================================================
