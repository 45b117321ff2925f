---------------------------- MODULE Nfs3ReadWrite ----------------------------
(***************************************************************************)
(* READ and WRITE of one regular file (proc.c, nfs3xdr.c, vfs.h): a writer *)
(* client sends its WRITE calls one after another and a reader client      *)
(* reads the file from offset 0, READ after READ, until a reply says eof.  *)
(* Each call is served by its own nfsd thread, so a WRITE runs between the *)
(* two halves of a READ: nfsd_read, and the i_size nfsd_eof_on_read is     *)
(* given afterwards.  The file handle is verified (FileHandle's part).     *)
(*                                                                         *)
(* A byte of the file is the write that stored it (its index in Writes),   *)
(* Hole for a byte below i_size nobody wrote, or Stale for a byte          *)
(* svc_fill_write_vector took from a page the request did not fill.        *)
(* The XDR words the decoders compute with are unsigned ints of Width      *)
(* bits; svc_max_payload and PAGE_SIZE are scaled down with them.          *)
(***************************************************************************)
EXTENDS Integers, Sequences, SequencesExt

CONSTANTS
  Width,       \* bits of the unsigned int nfs3svc_decode_writeargs uses
  PageSize,    \* PAGE_SIZE, in bytes
  MaxPayload,  \* svc_max_payload(rqstp), in bytes
  Writes,      \* the writer's calls: [offset, count, len, dlen, overrun] on
               \* the wire, dlen the data bytes the transport received after
               \* the header, overrun that the fixed header ran past the head
  ReadCount    \* the count of every READ the reader sends

\* The writer appends: no call's range starts below the end of an earlier one.
ASSUME \A i, j \in 1 .. Len(Writes) :
         i < j => Writes[j].offset >= Writes[i].offset + Writes[i].len

Hole == 0
Stale == -1
Byte == (1 .. Len(Writes)) \cup {Hole, Stale}

Min2(a, b) == IF a < b THEN a ELSE b
Max2(a, b) == IF a > b THEN a ELSE b

\* unsigned int arithmetic, and XDR_QUADLEN on it: ((l) + 3) >> 2.
U32(x) == x % (2 ^ Width)
XdrQuadLen(l) == U32(l + 3) \div 4

VARIABLES
  data,     \* the file: its bytes, Len(data) its i_size
  wpc,      \* the writer's current call (Len(Writes) + 1: done)
  wsent,    \* the writer's current call is on its way to the server
  rpc,      \* the reader: "idle", "sent", "read" (nfsd_read done) or "done"
  rbuf,     \* the bytes nfsd_read put in the READ's pages
  rcopy,    \* the reader's copy: the bytes of the replies it accepted
  acked,    \* history: [lo, hi) of every WRITE reply with nfs_ok and count
  before    \* history: acked when the reader sent its current READ

vars == <<data, wpc, wsent, rpc, rbuf, rcopy, acked, before>>

-----------------------------------------------------------------------------
(* The server.                                                             *)

\* Mutant: the received length is not checked against len.
DecodeWriteArgsNoDlen(w) ==
  IF w.overrun \/ w.count # w.len THEN [ok |-> FALSE]
  ELSE [ok |-> TRUE, offset |-> w.offset, len |-> Min2(w.len, MaxPayload)]

\* nfs3svc_decode_writeargs: the fixed header must lie within the head
\* kvec, count must equal the opaque length, the data received must cover
\* XDR_QUADLEN(len) words, and then count and len are cut to
\* svc_max_payload.
DecodeWriteArgs(w) ==
  IF \/ w.overrun
     \/ w.count # w.len
     \/ w.dlen < XdrQuadLen(w.len) * 4
  THEN [ok |-> FALSE]
  ELSE [ok |-> TRUE, offset |-> w.offset, len |-> Min2(w.len, MaxPayload)]

\* svc_fill_write_vector (sunrpc): total bytes from the data after the
\* header, head first and then the request's pages; past the dlen bytes
\* received the pages hold what an earlier request left there.  No vector
\* at all when total is 0 and the head holds no data.
FillWriteVector(i, total, dlen, head) ==
  [nvecs |-> IF total = 0 /\ head = 0 THEN 0 ELSE 1,
   bytes |-> [k \in 1 .. total |-> IF k <= dlen THEN i ELSE Stale]]

\* nfsd_write (vfs.c): the bytes replace the file's from offset on; a gap
\* past the old end reads as zeroes.
NfsdWrite(f, off, bytes) ==
  LET n == Max2(Len(f), off + Len(bytes)) IN
  [p \in 1 .. n |-> IF p > off /\ p <= off + Len(bytes) THEN bytes[p - off]
                    ELSE IF p <= Len(f) THEN f[p] ELSE Hole]

\* nfsd_dispatch on the writer's call: nfs3svc_decode_writeargs, or
\* GARBAGE_ARGS; nfsd3_proc_write (nfserr_io when svc_fill_write_vector
\* gives no vector), and nfs3svc_encode_writeres with the count written.
\* The writer takes the reply and goes on to its next call.
ServeWrite ==
  LET w == Writes[wpc]
      a == DecodeWriteArgs(w)
  IN /\ wsent
     /\ \E head \in 0 .. w.dlen :
          LET v == FillWriteVector(wpc, IF a.ok THEN a.len ELSE 0, w.dlen, head) IN
          IF a.ok /\ v.nvecs > 0
          THEN /\ data' = NfsdWrite(data, a.offset, v.bytes)
               /\ acked' = acked \cup {[lo |-> a.offset, hi |-> a.offset + a.len]}
          ELSE UNCHANGED <<data, acked>>
     /\ wpc' = wpc + 1
     /\ wsent' = FALSE
     /\ UNCHANGED <<rpc, rbuf, rcopy, before>>

\* Mutant: READ's count is not cut to svc_max_payload.
DecodeReadArgsNoMax(count) ==
  [len |-> count, vlen |-> (count + PageSize - 1) \div PageSize]

\* nfs3svc_decode_readargs: len = min(count, max_blocksize), set up as
\* vlen page-sized vectors.
DecodeReadArgs(count) ==
  LET len == Min2(count, MaxPayload) IN
  [len |-> len, vlen |-> (len + PageSize - 1) \div PageSize]

\* nfsd_read (vfs.c): up to the vectors' length from offset, short at the
\* end of the file.
NfsdRead(f, off, len) == SubSeq(f, off + 1, Min2(off + len, Len(f)))

\* Mutant: a read that fills the request is taken as eof.
NfsdEofOnReadFull(requested, read, offset, size) ==
  requested >= read \/ offset + read >= size

\* nfsd_eof_on_read: a short read means eof; otherwise eof when the read
\* reaches the size the file has now.
NfsdEofOnRead(requested, read, offset, size) ==
  requested > read \/ offset + read >= size

\* nfsd3_proc_read up to nfsd_read: cnt = min(count, max_blocksize), and
\* nfsd_read into the vectors nfs3svc_decode_readargs set up.
ReadData ==
  LET a == DecodeReadArgs(ReadCount) IN
  /\ rpc = "sent"
  /\ rbuf' = NfsdRead(data, Len(rcopy), a.len)
  /\ rpc' = "read"
  /\ UNCHANGED <<data, wpc, wsent, rcopy, acked, before>>

\* The rest of nfsd3_proc_read: resp->eof from the i_size read now, after
\* nfsd_read; nfs3svc_encode_readres puts count, eof and the data in the
\* reply.  The reader appends the data and stops at eof.
ReadEof ==
  LET eof == NfsdEofOnRead(Min2(ReadCount, MaxPayload), Len(rbuf),
                           Len(rcopy), Len(data))
  IN /\ rpc = "read"
     /\ rcopy' = rcopy \o rbuf
     /\ rpc' = IF eof THEN "done" ELSE "idle"
     /\ rbuf' = <<>>
     /\ UNCHANGED <<data, wpc, wsent, acked, before>>

-----------------------------------------------------------------------------
(* The clients.                                                            *)

\* The writer sends its next call once the last one is answered.
WriteCall ==
  /\ wpc <= Len(Writes)
  /\ ~wsent
  /\ wsent' = TRUE
  /\ UNCHANGED <<data, wpc, rpc, rbuf, rcopy, acked, before>>

\* The reader sends a READ of ReadCount bytes at the end of its copy.
ReadCall ==
  /\ rpc = "idle"
  /\ rpc' = "sent"
  /\ before' = acked
  /\ UNCHANGED <<data, wpc, wsent, rbuf, rcopy, acked>>

Init ==
  /\ data = <<>>
  /\ wpc = 1
  /\ wsent = FALSE
  /\ rpc = "idle"
  /\ rbuf = <<>>
  /\ rcopy = <<>>
  /\ acked = {}
  /\ before = {}

Next == WriteCall \/ ServeWrite \/ ReadCall \/ ReadData \/ ReadEof

Spec == Init /\ [][Next]_vars /\ WF_vars(Next)

-----------------------------------------------------------------------------

TypeOK ==
  /\ data \in Seq(Byte)
  /\ wpc \in 1 .. Len(Writes) + 1 /\ wsent \in BOOLEAN
  /\ rpc \in {"idle", "sent", "read", "done"}
  /\ rbuf \in BoundedSeq(Byte, MaxPayload)
  /\ rcopy \in Seq(Byte)
  /\ acked \subseteq [lo : Nat, hi : Nat] /\ before \subseteq acked

\* nfs3svc_decode_writeargs checks that the request carries the data its
\* length announces, so svc_fill_write_vector never hands nfsd_write bytes
\* of a page the request did not fill: no byte of the file is stale.
WrittenBytesReceived == \A p \in 1 .. Len(data) : data[p] # Stale

\* nfsd_eof_on_read's comment: eof must be set on a read that reaches the
\* end, and the i_size it reads is not atomic with the read.  A reader that
\* stops at eof has, in its copy, every byte of every WRITE the server
\* acknowledged before that last READ was sent, none of them a hole.
ReaderSeesPriorWrites ==
  rpc = "done" =>
    \A a \in before : /\ a.hi <= Len(rcopy)
                      /\ \A p \in a.lo + 1 .. a.hi : rcopy[p] # Hole

=============================================================================
