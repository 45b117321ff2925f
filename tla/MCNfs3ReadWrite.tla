--------------------------- MODULE MCNfs3ReadWrite ---------------------------
(***************************************************************************)
(* Nfs3ReadWrite for TLC, with 5-bit unsigned ints, 2-byte pages and a     *)
(* 4-byte svc_max_payload: an appending writer whose calls take each path  *)
(* of nfs3svc_decode_writeargs and nfsd3_proc_write, and a reader whose    *)
(* count is cut to the payload and covers two pages.                       *)
(***************************************************************************)
EXTENDS Nfs3ReadWrite

\* A padded 2-byte WRITE; a 3-byte one of which only 1 byte arrived; one of
\* 6 bytes, cut to 4; one whose count is not its length; one whose header
\* runs past the head kvec; an empty one.
MCWrites ==
  << [offset |-> 0, count |-> 2, len |-> 2, dlen |-> 4, overrun |-> FALSE],
     [offset |-> 2, count |-> 3, len |-> 3, dlen |-> 1, overrun |-> FALSE],
     [offset |-> 5, count |-> 6, len |-> 6, dlen |-> 8, overrun |-> FALSE],
     [offset |-> 11, count |-> 1, len |-> 2, dlen |-> 4, overrun |-> FALSE],
     [offset |-> 13, count |-> 1, len |-> 1, dlen |-> 4, overrun |-> TRUE],
     [offset |-> 14, count |-> 0, len |-> 0, dlen |-> 0, overrun |-> FALSE] >>

\* A WRITE whose length is within 3 of 2^Width: XDR_QUADLEN wraps to 0.
MCWritesWrap ==
  << [offset |-> 0, count |-> 2, len |-> 2, dlen |-> 4, overrun |-> FALSE],
     [offset |-> 2, count |-> 29, len |-> 29, dlen |-> 0, overrun |-> FALSE] >>

=============================================================================
