---------------------------- MODULE NfsdService ----------------------------
(***************************************************************************)
(* The service lifecycle of nfssvc.c and the threads control file of       *)
(* bmw_main.c: write_threads -> nfsd_svc (nfsd_create_serv,                *)
(* nfsd_startup_net, svc_set_num_threads, nfsd_destroy), the nfsd thread   *)
(* (start-up, the request loop ended by a signal, its nfsd_destroy), the   *)
(* inetaddr notifier and nfsd_last_thread.                                 *)
(*                                                                         *)
(* Every entry point runs as a sequence of steps split where it reads      *)
(* nn->nfsd_serv or sv_nrthreads and acts on it later, so that entry       *)
(* points of different processes interleave.  The code takes no lock; the  *)
(* comment at nfssvc.c:137 says it runs under nfsd_mutex.  Serialised      *)
(* restricts a model to the behaviours in which no write_threads call     *)
(* overlaps another or a thread's exit path; the code has all of these    *)
(* behaviours and more, so a violation found under the restriction is one *)
(* of the code.  The passing run does not use it.                         *)
(*                                                                         *)
(* The sunrpc server (svc_create_pooled, svc_bind, svc_destroy,            *)
(* svc_shutdown_net, svc_set_num_threads, svc_exit_thread) is not in the   *)
(* repository; it is modelled after its use here: sv_nrthreads counts the  *)
(* creator and every prepared thread, svc_destroy drops one and frees the  *)
(* server at zero (a BUG_ON if its sockets are still open), and victims    *)
(* are signalled with SIGINT, which a thread ignores until allow_signal.   *)
(***************************************************************************)
EXTENDS Integers, FiniteSets

CONSTANTS
    Writers,      \* processes writing the threads control file
    Threads,      \* svc_rqst/kthread slots
    Servs,        \* svc_serv objects the allocator can hand out
    NULL,
    WriteCounts,  \* thread counts written to the control file
    Fail,         \* which of the fallible calls may fail
    Serialised    \* TRUE: only behaviours where entry points do not overlap

ASSUME WriteCounts \subseteq 0..Cardinality(Threads)
ASSUME Fail \subseteq {"create", "bind", "socket", "kthread", "unshare"}
ASSUME Serialised \in BOOLEAN

Procs == Writers \cup Threads
NoProc == NULL

VARIABLES
    nfsdServ,     \* nn->nfsd_serv
    servs,        \* the svc_serv objects: allocated, sv_nrthreads, permsocks
    netUp,        \* nn->nfsd_net_up
    ntfRef,       \* nn->ntf_refcnt
    notifierRef,  \* nfsd_notifier_refcount
    registered,   \* nfsd_inetaddr_notifier is on the inetaddr chain
    pc,           \* where each writer and thread is
    loc,          \* the locals of each process
    sig,          \* a signal is pending for the thread
    victim,       \* RQ_VICTIM of the thread's svc_rqst
    npc,          \* the notifier callback: "idle" or "use"
    holder,       \* the entry point in progress (Serialised only)
    fault,        \* "none", or the memory error a step made
    asked,        \* history: the count last written to the threads file
    killed,       \* history: a signal from outside has reached a thread
    raced         \* history: a pending nfsd_destroy decision has gone stale

vars == <<nfsdServ, servs, netUp, ntfRef, notifierRef, registered, pc, loc,
          sig, victim, npc, holder, fault, asked, killed, raced>>

NoServ == [alloc |-> FALSE, nr |-> 0, socks |-> FALSE]
NoLoc == [n |-> 0, left |-> 0, up |-> FALSE, err |-> 0, destroy |-> FALSE,
          srv |-> NULL]

(***************************************************************************)
(* Helpers.                                                                *)
(***************************************************************************)
\* A memory access through the pointer s: a NULL dereference, or a use of a
\* freed svc_serv, is recorded as a fault.
Access(s) ==
    IF s = NULL THEN "nullderef"
    ELSE IF ~servs[s].alloc THEN "uaf"
    ELSE "none"

Fault(f) == fault' = IF fault = "none" THEN f ELSE fault

\* The Serialised restriction: no other entry point is in progress, and p
\* becomes the one that is.
SerialFree(p) == ~Serialised \/ holder \in {NoProc, p}
Take(p) == holder' = IF Serialised THEN p ELSE holder
Release == holder' = NoProc

\* Mutant: svc_get does not count the new user.
SvcGetNoInc(sv, s) == sv

\* svc_get: one more user of the server.
SvcGet(sv, s) == [sv EXCEPT ![s].nr = @ + 1]

\* Mutant: the last user is taken to be the one that sees no users left.
IsLastZero(sv, s) == sv[s].nr = 0

\* nfsd_destroy: the caller is the last user of the server.
IsLast(sv, s) == sv[s].nr = 1

\* svc_destroy: drop one user; the last one frees the server, and its
\* sockets must have been closed by then (BUG_ON).
SvcDestroy(sv, s) ==
    IF sv[s].nr > 1 THEN [sv EXCEPT ![s].nr = @ - 1]
    ELSE [sv EXCEPT ![s] = NoServ]

SvcDestroyFault(sv, s) ==
    IF Access(s) # "none" THEN Access(s)
    ELSE IF sv[s].nr <= 1 /\ sv[s].socks THEN "bug"
    ELSE "none"

\* svc_set_num_threads' victims: prepared threads not yet chosen.
Candidates == {t \in Threads : pc[t] \in {"new", "run"} /\ ~victim[t]}

\* Mutant: nfsd_last_thread does not drop the server's ntf_refcnt.
NtfPutMissing(r) == r

\* Mutant: nfsd_last_thread drops ntf_refcnt twice.
NtfPutTwice(r) == r - 2

\* nfsd_last_thread: atomic_dec(&nn->ntf_refcnt).
NtfPut(r) == r - 1

\* Mutant: the notifier is never unregistered.
UnregistersNever(r) == FALSE

\* nfsd_last_thread: atomic_dec_return(&nfsd_notifier_refcount) == 0.
Unregisters(r) == r - 1 = 0

(***************************************************************************)
(* The threads control file: write_threads and nfsd_svc.                   *)
(***************************************************************************)
\* The end of nfsd_svc: write_threads returns the error or the count.
Finish(w, v) ==
    /\ pc' = [pc EXCEPT ![w] = "idle"]
    /\ loc' = [loc EXCEPT ![w] = NoLoc]
    /\ Release

\* A kernel oops ends the task where it stands.
Oops(p, f) ==
    /\ Fault(f)
    /\ pc' = [pc EXCEPT ![p] = "oops"]

\* write_threads with a count: nfsd_svc returns 0 at once when asked for no
\* threads and no server exists; otherwise it goes on to nfsd_create_serv.
WriteThreads(w, n) ==
    /\ pc[w] = "idle"
    /\ SerialFree(w)
    /\ IF n = 0 /\ nfsdServ = NULL
       THEN UNCHANGED <<pc, loc, holder>>
       ELSE /\ pc' = [pc EXCEPT ![w] = "create"]
            /\ loc' = [loc EXCEPT ![w] = [NoLoc EXCEPT !.n = n]]
            /\ Take(w)
    /\ asked' = n
    /\ UNCHANGED killed
    /\ UNCHANGED <<nfsdServ, servs, netUp, ntfRef, notifierRef, registered,
                   sig, victim, npc, fault>>

\* nfsd_create_serv, first half: an existing server gets one more user.
CreateServ(w) ==
    /\ pc[w] = "create"
    /\ IF nfsdServ = NULL
       THEN /\ pc' = [pc EXCEPT ![w] = "alloc"]
            /\ UNCHANGED <<servs, fault>>
       ELSE IF Access(nfsdServ) # "none"
       THEN /\ Oops(w, Access(nfsdServ))
            /\ UNCHANGED servs
       ELSE /\ servs' = SvcGet(servs, nfsdServ)
            /\ pc' = [pc EXCEPT ![w] = "startup"]
            /\ UNCHANGED fault
    /\ UNCHANGED <<nfsdServ, netUp, ntfRef, notifierRef, registered, loc, sig,
                   victim, npc, holder>>
    /\ UNCHANGED <<asked, killed>>

\* nfsd_create_serv, second half: svc_create_pooled is stored in
\* nn->nfsd_serv (NULL when it fails), then svc_bind; a bind failure
\* destroys the new server; otherwise the notifier is registered by its
\* first user and ntf_refcnt counts the server.
AllocServ(w) ==
    /\ pc[w] = "alloc"
    /\ \/ /\ "create" \in Fail \/ \A s \in Servs : servs[s].alloc
          /\ nfsdServ' = NULL
          /\ Finish(w, -1)
          /\ UNCHANGED <<servs, ntfRef, notifierRef, registered>>
       \/ \E s \in Servs :
            /\ ~servs[s].alloc
            /\ nfsdServ' = s
            /\ \/ /\ servs' = [servs EXCEPT ![s] = [NoServ EXCEPT !.alloc = TRUE,
                                                                  !.nr = 1]]
                  /\ notifierRef' = notifierRef + 1
                  /\ registered' = (registered \/ notifierRef + 1 = 1)
                  /\ ntfRef' = ntfRef + 1
                  /\ pc' = [pc EXCEPT ![w] = "startup"]
                  /\ UNCHANGED <<loc, holder>>
               \/ /\ "bind" \in Fail
                  /\ Finish(w, -1)
                  /\ UNCHANGED <<servs, ntfRef, notifierRef, registered>>
    /\ UNCHANGED <<netUp, sig, victim, npc, fault>>
    /\ UNCHANGED <<asked, killed>>

\* nfsd_startup_net and nfsd_init_socks: nothing when the net is up; an
\* existing permanent socket is enough; otherwise a UDP and a TCP socket.
\* A failure goes to out_destroy; a UDP socket already made stays open.
StartupNet(w) ==
    /\ pc[w] = "startup"
    /\ IF netUp
       THEN /\ pc' = [pc EXCEPT ![w] = "setup"]
            /\ loc' = [loc EXCEPT ![w].up = TRUE]
            /\ UNCHANGED <<servs, netUp, fault>>
       ELSE IF Access(nfsdServ) # "none"
       THEN /\ Oops(w, Access(nfsdServ))
            /\ UNCHANGED <<servs, netUp, loc>>
       ELSE IF servs[nfsdServ].socks
       THEN /\ netUp' = TRUE
            /\ pc' = [pc EXCEPT ![w] = "setup"]
            /\ loc' = [loc EXCEPT ![w].up = FALSE]
            /\ UNCHANGED <<servs, fault>>
       ELSE \/ /\ servs' = [servs EXCEPT ![nfsdServ].socks = TRUE]
               /\ netUp' = TRUE
               /\ pc' = [pc EXCEPT ![w] = "setup"]
               /\ loc' = [loc EXCEPT ![w].up = FALSE]
               /\ UNCHANGED fault
            \/ /\ "socket" \in Fail
               /\ \E udp \in BOOLEAN :
                    servs' = [servs EXCEPT ![nfsdServ].socks = udp]
               /\ pc' = [pc EXCEPT ![w] = "dread"]
               /\ loc' = [loc EXCEPT ![w].up = FALSE, ![w].err = -1]
               /\ UNCHANGED <<netUp, fault>>
    /\ UNCHANGED <<nfsdServ, ntfRef, notifierRef, registered, sig, victim, npc,
                   holder>>
    /\ UNCHANGED <<asked, killed>>

\* svc_set_num_threads(nn->nfsd_serv, NULL, nrservs): the change, net of
\* the caller's own reference, is started one thread at a time or taken
\* away by signalling that many victims.
\* SIGINT to a thread that has not reached allow_signal is ignored.
Setup(w) ==
    /\ pc[w] = "setup"
    /\ IF Access(nfsdServ) # "none"
       THEN /\ Oops(w, Access(nfsdServ))
            /\ UNCHANGED <<loc, sig, victim>>
       ELSE LET delta == loc[w].n - (servs[nfsdServ].nr - 1)
                k     == IF -delta < Cardinality(Candidates)
                         THEN -delta ELSE Cardinality(Candidates)
            IN  IF delta > 0
                THEN /\ pc' = [pc EXCEPT ![w] = "start"]
                     /\ loc' = [loc EXCEPT ![w].left = delta, ![w].srv = nfsdServ]
                     /\ UNCHANGED <<sig, victim, fault>>
                ELSE \E V \in SUBSET Candidates :
                       /\ Cardinality(V) = k
                       /\ victim' = [t \in Threads |-> victim[t] \/ t \in V]
                       /\ sig' = [t \in Threads |->
                                    sig[t] \/ (t \in V /\ pc[t] = "run")]
                       /\ pc' = [pc EXCEPT ![w] = "count"]
                       /\ UNCHANGED <<loc, fault>>
    /\ UNCHANGED <<nfsdServ, servs, netUp, ntfRef, notifierRef, registered,
                   npc, holder>>
    /\ UNCHANGED <<asked, killed>>

\* One iteration of svc_start_kthreads: svc_prepare_thread counts the new
\* thread, which is created and woken; a kthread failure undoes the count
\* through svc_exit_thread and takes nfsd_svc to out_shutdown, which
\* brings the net down again if this call brought it up.
StartThread(w) ==
    /\ pc[w] = "start"
    /\ LET s == loc[w].srv IN
       IF Access(s) # "none"
       THEN /\ Oops(w, Access(s))
            /\ UNCHANGED <<servs, netUp, loc, sig, victim>>
       ELSE \/ \E t \in Threads :
                 /\ pc[t] = "free"
                 /\ servs' = [servs EXCEPT ![s].nr = @ + 1]
                 /\ sig' = [sig EXCEPT ![t] = FALSE]
                 /\ victim' = [victim EXCEPT ![t] = FALSE]
                 /\ IF loc[w].left = 1
                    THEN /\ pc' = [pc EXCEPT ![t] = "new", ![w] = "count"]
                         /\ loc' = [loc EXCEPT ![t] = [NoLoc EXCEPT !.srv = s]]
                    ELSE /\ pc' = [pc EXCEPT ![t] = "new"]
                         /\ loc' = [loc EXCEPT ![t] = [NoLoc EXCEPT !.srv = s],
                                               ![w].left = @ - 1]
                 /\ UNCHANGED <<netUp, fault>>
            \/ /\ "kthread" \in Fail
               /\ netUp' = (netUp /\ loc[w].up)
               /\ pc' = [pc EXCEPT ![w] = "dread"]
               /\ loc' = [loc EXCEPT ![w].err = -1]
               /\ UNCHANGED <<servs, sig, victim, fault>>
    /\ UNCHANGED <<nfsdServ, ntfRef, notifierRef, registered, npc, holder>>
    /\ UNCHANGED <<asked, killed>>

\* svc_set_num_threads returned 0: error = nn->nfsd_serv->sv_nrthreads - 1,
\* through nn->nfsd_serv as it is now.
ReadCount(w) ==
    /\ pc[w] = "count"
    /\ IF Access(nfsdServ) # "none"
       THEN /\ Oops(w, Access(nfsdServ))
            /\ UNCHANGED loc
       ELSE /\ pc' = [pc EXCEPT ![w] = "dread"]
            /\ loc' = [loc EXCEPT ![w].err = servs[nfsdServ].nr - 1]
            /\ UNCHANGED fault
    /\ UNCHANGED <<nfsdServ, servs, netUp, ntfRef, notifierRef, registered, sig,
                   victim, npc, holder>>
    /\ UNCHANGED <<asked, killed>>

(***************************************************************************)
(* nfsd_destroy, for the writer at the end of nfsd_svc and for an exiting  *)
(* thread.                                                                 *)
(***************************************************************************)
\* nfsd_destroy reads sv_nrthreads == 1; the last user shuts the server's
\* net down (svc_close_net, then nfsd_last_thread's notifier references;
\* unregistering waits for a running notifier callback).
DestroyRead(p) ==
    /\ pc[p] = "dread"
    /\ IF Access(nfsdServ) # "none"
       THEN /\ Oops(p, Access(nfsdServ))
            /\ UNCHANGED <<servs, ntfRef, notifierRef, registered, loc>>
       ELSE LET s == nfsdServ
                d == IsLast(servs, s)
            IN  /\ loc' = [loc EXCEPT ![p].destroy = d]
                /\ IF d
                   THEN /\ Unregisters(notifierRef) => npc = "idle"
                        /\ servs' = [servs EXCEPT ![s].socks = FALSE]
                        /\ ntfRef' = NtfPut(ntfRef)
                        /\ notifierRef' = notifierRef - 1
                        /\ registered' = (registered /\ ~Unregisters(notifierRef))
                        /\ pc' = [pc EXCEPT ![p] = "wait"]
                   ELSE /\ pc' = [pc EXCEPT ![p] = "dput"]
                        /\ UNCHANGED <<servs, ntfRef, notifierRef, registered>>
                /\ UNCHANGED fault
    /\ UNCHANGED <<nfsdServ, netUp, sig, victim, npc, holder>>
    /\ UNCHANGED <<asked, killed>>

\* nfsd_last_thread, after wait_event(ntf_refcnt == 0): a net that is up
\* is shut down and its export cache flushed.
DestroyWait(p) ==
    /\ pc[p] = "wait"
    /\ ntfRef = 0
    /\ netUp' = FALSE
    /\ pc' = [pc EXCEPT ![p] = "dput"]
    /\ UNCHANGED <<nfsdServ, servs, ntfRef, notifierRef, registered, loc, sig,
                   victim, npc, holder, fault>>
    /\ UNCHANGED <<asked, killed>>

\* svc_destroy(nn->nfsd_serv), and nn->nfsd_serv = NULL for the last user;
\* then nfsd_svc returns, or the thread ends.
DestroyPut(p) ==
    /\ pc[p] = "dput"
    /\ LET s == nfsdServ IN
       IF SvcDestroyFault(servs, s) # "none"
       THEN /\ Oops(p, SvcDestroyFault(servs, s))
            /\ UNCHANGED <<nfsdServ, servs, loc, victim, holder>>
       ELSE /\ servs' = SvcDestroy(servs, s)
            /\ nfsdServ' = IF loc[p].destroy THEN NULL ELSE nfsdServ
            /\ UNCHANGED fault
            /\ IF p \in Writers
               THEN /\ Finish(p, loc[p].err)
                    /\ UNCHANGED victim
               ELSE /\ pc' = [pc EXCEPT ![p] = "free"]
                    /\ loc' = [loc EXCEPT ![p] = NoLoc]
                    /\ victim' = [victim EXCEPT ![p] = FALSE]
                    /\ Release
    /\ UNCHANGED <<netUp, ntfRef, notifierRef, registered, sig, npc>>
    /\ UNCHANGED <<asked, killed>>

(***************************************************************************)
(* The nfsd thread.                                                        *)
(***************************************************************************)
\* nfsd(): the thread reads its server's first permanent socket; then
\* unshare_fs_struct either fails (goto out, the exit path) or the thread
\* enables its signals and enters the request loop.
ThreadStart(t) ==
    /\ pc[t] = "new"
    /\ IF Access(loc[t].srv) # "none"
       THEN /\ Oops(t, Access(loc[t].srv))
            /\ UNCHANGED <<servs, holder>>
       ELSE \/ /\ pc' = [pc EXCEPT ![t] = "run"]
               /\ UNCHANGED <<servs, holder, fault>>
            \/ /\ "unshare" \in Fail
               /\ SerialFree(t)
               /\ Take(t)
               /\ pc' = [pc EXCEPT ![t] = "dread"]
               /\ UNCHANGED <<servs, fault>>
    /\ UNCHANGED <<nfsdServ, netUp, ntfRef, notifierRef, registered, loc, sig,
                   victim, npc>>
    /\ UNCHANGED <<asked, killed>>

\* A signal from outside (SIGKILL, SIGHUP, SIGINT, SIGQUIT) to a thread in
\* its request loop.
Kill(t) ==
    /\ pc[t] = "run"
    /\ ~sig[t]
    /\ sig' = [sig EXCEPT ![t] = TRUE]
    /\ UNCHANGED <<nfsdServ, servs, netUp, ntfRef, notifierRef, registered, pc,
                   loc, victim, npc, holder, fault>>
    /\ UNCHANGED asked
    /\ killed' = TRUE

\* svc_recv returns -EINTR for a pending signal: the thread flushes its
\* signals, leaves the pool (svc_exit_thread with rq_server cleared, so no
\* svc_destroy there) and goes on to nfsd_destroy.
ThreadExit(t) ==
    /\ pc[t] = "run"
    /\ sig[t]
    /\ SerialFree(t)
    /\ Take(t)
    /\ sig' = [sig EXCEPT ![t] = FALSE]
    /\ pc' = [pc EXCEPT ![t] = "dread"]
    /\ UNCHANGED <<nfsdServ, servs, netUp, ntfRef, notifierRef, registered,
                   loc, victim, npc, fault>>
    /\ UNCHANGED <<asked, killed>>

(***************************************************************************)
(* The inetaddr notifier.                                                  *)
(***************************************************************************)
\* nfsd_inetaddr_event for NETDEV_DOWN: atomic_inc_not_zero(ntf_refcnt).
Event ==
    /\ npc = "idle"
    /\ registered
    /\ ntfRef > 0
    /\ ntfRef' = ntfRef + 1
    /\ npc' = "use"
    /\ UNCHANGED <<nfsdServ, servs, netUp, notifierRef, registered, pc, loc,
                   sig, victim, holder, fault>>
    /\ UNCHANGED <<asked, killed>>

\* ... then svc_age_temp_xprts_now(nn->nfsd_serv) if there is a server,
\* atomic_dec and wake_up of ntf_wq.
EventUse ==
    /\ npc = "use"
    /\ IF nfsdServ # NULL THEN Fault(Access(nfsdServ)) ELSE UNCHANGED fault
    /\ ntfRef' = ntfRef - 1
    /\ npc' = "idle"
    /\ UNCHANGED <<nfsdServ, servs, netUp, notifierRef, registered, pc, loc,
                   sig, victim, holder>>
    /\ UNCHANGED <<asked, killed>>

(***************************************************************************)
(* The specification.                                                      *)
(***************************************************************************)
Init ==
    /\ nfsdServ = NULL
    /\ servs = [s \in Servs |-> NoServ]
    /\ netUp = FALSE
    /\ ntfRef = 0
    /\ notifierRef = 0
    /\ registered = FALSE
    /\ pc = [p \in Procs |-> IF p \in Writers THEN "idle" ELSE "free"]
    /\ loc = [p \in Procs |-> NoLoc]
    /\ sig = [t \in Threads |-> FALSE]
    /\ victim = [t \in Threads |-> FALSE]
    /\ npc = "idle"
    /\ holder = NoProc
    /\ fault = "none"
    /\ asked = 0
    /\ killed = FALSE
    /\ raced = FALSE

Next ==
    \/ \E w \in Writers, n \in WriteCounts : WriteThreads(w, n)
    \/ \E w \in Writers :
         \/ CreateServ(w) \/ AllocServ(w) \/ StartupNet(w) \/ Setup(w)
         \/ StartThread(w) \/ ReadCount(w)
    \/ \E p \in Procs : DestroyRead(p) \/ DestroyWait(p) \/ DestroyPut(p)
    \/ \E t \in Threads : ThreadStart(t) \/ Kill(t) \/ ThreadExit(t)
    \/ Event \/ EventUse

\* nfsd_destroy reads whether sv_nrthreads == 1 and acts on the answer two
\* steps later.  The history variable raced records that another process
\* changed that answer, or nn->nfsd_serv, while one was pending: the race
\* of nfssvc.c:246 that service_unlocked_race shows.
Pending(p) == pc[p] \in {"wait", "dput"}
OneUser == nfsdServ # NULL /\ servs[nfsdServ].alloc /\ servs[nfsdServ].nr = 1
ReadGoesStale ==
    \E p \in Procs : /\ Pending(p) /\ Pending(p)'
                    /\ (OneUser' # OneUser \/ nfsdServ' # nfsdServ)

\* The states before the race; every property that checks the code as it is
\* says nothing once raced is set, so a model may stop exploring there.
NotRaced == ~raced

\* A step of the code, with the history variable brought up to date.
Tracked(A) == A /\ raced' = (raced \/ ReadGoesStale)

\* The kernel schedules every runnable task; a task waiting on ntf_wq, or
\* held back by the Serialised restriction, runs when that is over (strong
\* fairness, as the wait queue can be refilled in between).  Writes to the
\* control file, outside signals and address events are not assumed.
Fairness ==
    /\ \A w \in Writers :
         /\ WF_vars(Tracked(CreateServ(w))) /\ WF_vars(Tracked(AllocServ(w)))
         /\ WF_vars(Tracked(StartupNet(w))) /\ WF_vars(Tracked(Setup(w)))
         /\ WF_vars(Tracked(StartThread(w))) /\ WF_vars(Tracked(ReadCount(w)))
    /\ \A p \in Procs :
         /\ SF_vars(Tracked(DestroyRead(p))) /\ SF_vars(Tracked(DestroyWait(p)))
         /\ WF_vars(Tracked(DestroyPut(p)))
    /\ \A t \in Threads :
         SF_vars(Tracked(ThreadStart(t))) /\ SF_vars(Tracked(ThreadExit(t)))
    /\ WF_vars(Tracked(EventUse))

Spec == Init /\ [][Tracked(Next)]_vars /\ Fairness

(***************************************************************************)
(* Properties.                                                             *)
(***************************************************************************)
PcValues == {"idle", "create", "alloc", "startup", "setup", "start", "count", "free",
             "new", "run", "dread", "wait", "dput", "oops"}

TypeOK ==
    /\ nfsdServ \in Servs \cup {NULL}
    /\ servs \in [Servs -> [alloc : BOOLEAN, nr : Nat, socks : BOOLEAN]]
    /\ netUp \in BOOLEAN /\ registered \in BOOLEAN
    /\ ntfRef \in Int /\ notifierRef \in Int
    /\ ~raced => ntfRef >= 0 /\ notifierRef >= 0
    /\ pc \in [Procs -> PcValues]
    /\ \A w \in Writers : pc[w] \notin {"free", "new", "run"}
    /\ \A t \in Threads : pc[t] \in {"free", "new", "run", "dread", "wait",
                                      "dput", "oops"}
    /\ loc \in [Procs -> [n : Nat, left : Nat, up : BOOLEAN, err : Int,
                          destroy : BOOLEAN, srv : Servs \cup {NULL}]]
    /\ sig \in [Threads -> BOOLEAN] /\ victim \in [Threads -> BOOLEAN]
    /\ \A t \in Threads : victim[t] => pc[t] # "free"
    /\ npc \in {"idle", "use"}
    /\ holder \in Procs \cup {NoProc}
    /\ fault \in {"none", "nullderef", "uaf", "bug"}
    /\ asked \in WriteCounts /\ killed \in BOOLEAN /\ raced \in BOOLEAN

\* No step of write_threads, of a thread or of the notifier dereferences a
\* NULL or freed nn->nfsd_serv, or frees a server whose sockets are open
\* (svc_destroy's BUG_ON), and nn->nfsd_serv never points to a freed server:
\* the reference counting of nfsd_create_serv, nfsd_svc and nfsd_destroy
\* keeps the server alive exactly while it is published.
ServLifetimeSafe ==
    /\ fault = "none"
    /\ nfsdServ # NULL => servs[nfsdServ].alloc

\* The users svc_serv counts: a writer between nfsd_create_serv and its
\* nfsd_destroy, and each thread from svc_prepare_thread to its
\* nfsd_destroy.
WriterHolds == {"startup", "setup", "start", "count", "dread", "wait", "dput"}
ThreadHolds == {"new", "run", "dread", "wait", "dput"}
Users(s) ==
    Cardinality({w \in Writers : pc[w] \in WriterHolds})
      + Cardinality({t \in Threads : pc[t] \in ThreadHolds /\ loc[t].srv = s})

\* sv_nrthreads of the published server is exactly the number of its users
\* (svc_get in nfsd_create_serv, svc_prepare_thread, the svc_destroy of
\* nfsd_destroy), so the last of them is the one that frees it; up to the
\* stale nfsd_destroy (raced, below), after which a task may die holding
\* its reference.
RefsExact ==
    ~raced /\ nfsdServ # NULL /\ servs[nfsdServ].alloc =>
        servs[nfsdServ].nr = Users(nfsdServ)

\* No entry point in the middle of a call.
Quiescent ==
    /\ \A w \in Writers : pc[w] = "idle"
    /\ \A t \in Threads : pc[t] \in {"free", "new", "run"}
    /\ npc = "idle"

\* Between calls a server is published exactly while some thread exists,
\* and holds the one ntf_refcnt and notifier reference nfsd_create_serv
\* took; with no server, nfsd_last_thread has undone all of that: the net
\* is down, the notifier unregistered and no svc_serv is left allocated.
ShutdownClean ==
    Quiescent =>
      IF nfsdServ = NULL
      THEN /\ ~netUp /\ ntfRef = 0 /\ notifierRef = 0 /\ ~registered
           /\ \A s \in Servs : ~servs[s].alloc
           /\ \A t \in Threads : pc[t] = "free"
      ELSE /\ ntfRef = 1 /\ notifierRef = 1 /\ registered
           /\ \E t \in Threads : pc[t] # "free"

\* A thread with a pending signal leaves its request loop and finishes
\* nfsd_destroy: nfsd_last_thread's wait for the notifier cannot hang.
SignalledThreadsExit ==
    \A t \in Threads : (pc[t] = "run" /\ sig[t]) ~> pc[t] = "free"

\* The same three properties on the code as it is, in every behaviour up to
\* the stale nfsd_destroy of nfssvc.c:246: with write_threads, thread exits,
\* failed starts and the notifier interleaving freely, every error path of
\* nfsd_svc and nfsd_create_serv, and every nfsd_destroy that acts on a
\* current answer, keeps the server alive while it is published and
\* leaves the notifier references balanced; a signalled thread finishes.
ServLifetimeSafeUnlessRaced == ~raced => ServLifetimeSafe
ShutdownCleanUnlessRaced == ~raced => ShutdownClean
SignalledThreadsExitUnlessRaced == [](~raced) => SignalledThreadsExit

\* A thread that svc_set_num_threads chose as a victim exits.
VictimsExit ==
    \A t \in Threads : victim[t] ~> pc[t] = "free"

\* The threads svc_set_num_threads keeps: started and not chosen as victims.
Kept == {t \in Threads : pc[t] \in {"new", "run"} /\ ~victim[t]}

\* write_threads' comment (bmw_main.c) says the value written is the number
\* of nfsd threads to start, and svc_set_num_threads raises or lowers the
\* pool to it.  With no signal from outside, and every victim's signal
\* delivered (the lost signal is VictimsExit's case), once the writes stop
\* the threads kept come to number the count last written and stay so.
VictimSignalled ==
    \A t \in Threads : victim[t] /\ pc[t] = "run" => sig[t]
ThreadCountReached ==
    (/\ [](~killed /\ VictimSignalled)
     /\ <>[](\A w \in Writers : pc[w] = "idle"))
        => <>[](Cardinality(Kept) = asked)

====
