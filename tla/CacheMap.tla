------------------------------- MODULE CacheMap -------------------------------
(***************************************************************************)
(* What a sunrpc cache promises the code that reads it (export.c): a map  *)
(* from keys to a value, a negative answer or nothing, that the agent's   *)
(* writes, expiry and flushes change, and readers whose successful        *)
(* cache_check returns the value the key has at that instant.  A reader   *)
(* keeps what it read until it puts its reference, however the map       *)
(* changes meanwhile.                                                     *)
(***************************************************************************)
CONSTANTS
    Keys,      \* the keys of the cache
    Hits,      \* the values a successful cache_check hands back
    Readers,   \* the request threads
    NULL

Miss == "miss"
Neg == "neg"

VARIABLES
    map,       \* map[k]: the key's current value, Neg, or Miss
    got        \* got[r]: [key, val] reader r holds from a successful check

vars == <<map, got>>

Init ==
    /\ map = [k \in Keys |-> Miss]
    /\ got = [r \in Readers |-> NULL]

\* The agent writes keys, entries expire, or the cache is purged: any key's
\* value may change, and no reader's holding does.
Change == UNCHANGED got

\* A reader's check succeeds on a key whose current value is a hit.
Read(r) ==
    /\ got[r] = NULL
    /\ UNCHANGED map
    /\ \E k \in Keys : /\ map[k] \in Hits
                       /\ got' = [got EXCEPT ![r] = [key |-> k, val |-> map[k]]]

\* The reader puts its reference.
Release(r) ==
    /\ got[r] # NULL
    /\ UNCHANGED map
    /\ got' = [got EXCEPT ![r] = NULL]

Next == Change \/ \E r \in Readers : Read(r) \/ Release(r)

Spec == Init /\ [][Next]_vars

=============================================================================
