---------------------------- MODULE MCNfsdDispatch ----------------------------
(***************************************************************************)
(* NfsdDispatch instantiated for TLC with two clients and up to two        *)
(* transmissions per call: one lost call or reply and its retransmission, *)
(* and two clients' calls on the same name interleaving in any order.     *)
(***************************************************************************)
EXTENDS NfsdDispatch

CONSTANTS c1, c2, n1

MCClients == {c1, c2}
MCNames == {n1}
MCMaxSends == 2

\* Calls for which the protocol needs no reply cache: two clients create
\* n1 exclusively (each with its own verifier), one then creates it
\* UNCHECKED, the other sends a CREATE whose mode word is not a createhow3.
MCScriptCreate ==
  [c \in MCClients |->
     IF c = c1
     THEN <<[proc |-> CREATE, mode |-> EXCLUSIVE, name |-> n1],
            [proc |-> CREATE, mode |-> 3, name |-> n1]>>
     ELSE <<[proc |-> CREATE, mode |-> EXCLUSIVE, name |-> n1],
            [proc |-> CREATE, mode |-> UNCHECKED, name |-> n1]>>]

\* Calls that are not idempotent: a GUARDED CREATE and a REMOVE of n1, a
\* MKDIR and an RMDIR of the same name from the other client.
MCScriptNonIdem ==
  [c \in MCClients |->
     IF c = c1
     THEN <<[proc |-> CREATE, mode |-> GUARDED, name |-> n1],
            [proc |-> REMOVE, mode |-> NULL, name |-> n1]>>
     ELSE <<[proc |-> MKDIR, mode |-> NULL, name |-> n1],
            [proc |-> RMDIR, mode |-> NULL, name |-> n1]>>]

=============================================================================
