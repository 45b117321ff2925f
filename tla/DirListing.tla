------------------------------ MODULE DirListing ------------------------------
(***************************************************************************)
(* What READDIR and READDIRPLUS promise a client that lists a directory   *)
(* by resending the cookie of the last entry it received (RFC 1813 3.3.16, *)
(* spec section 8):   each reply hands over the entries that follow those *)
(* already received, in directory order, none skipped and none twice, and *)
(* says end of directory only once the last entry has been handed over.   *)
(* The directory is its entries 1..NumEntries in cookie order; a listing  *)
(* that has reached the end may be started again from cookie 0.          *)
(***************************************************************************)
EXTENDS Integers, Sequences

CONSTANT NumEntries

VARIABLES
  received, \* the entries the client has received in this listing
  atEnd     \* the last reply said end of directory

vars == <<received, atEnd>>

Init == received = <<>> /\ atEnd = FALSE

\* A reply: the next n entries after those already received; atEnd only when
\* no entry is left.
Receive ==
  /\ ~atEnd
  /\ \E n \in 0 .. NumEntries - Len(received) :
       /\ received' = received \o [k \in 1 .. n |-> Len(received) + k]
       /\ atEnd' \in IF Len(received) + n = NumEntries THEN BOOLEAN ELSE {FALSE}

\* A new listing from cookie 0 after the end was reached.
Restart ==
  /\ atEnd
  /\ received' = <<>>
  /\ atEnd' = FALSE

Next == Receive \/ Restart

\* A listing that has not reached the end keeps moving: every call hands over
\* at least one entry or the end.  Starting again is up to the client.
Spec == Init /\ [][Next]_vars /\ WF_vars(Receive)

=============================================================================
