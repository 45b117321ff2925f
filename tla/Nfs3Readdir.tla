------------------------------ MODULE Nfs3Readdir ------------------------------
(***************************************************************************)
(* The directory-listing replies of the NFSv3 server (src/nfs3xdr.c,       *)
(* src/proc.c): READDIR and READDIRPLUS.  nfsd_readdir hands the entries   *)
(* of a directory, from the client's cookie on, one at a time to           *)
(* encode_entry, which appends each to the reply pages: in place when the  *)
(* estimated size fits the current page, else built in the next page and   *)
(* moved back or split across the page boundary.  Every entry ends with a  *)
(* 64-bit cookie written as a placeholder; the NEXT call to encode_entry   *)
(* fills it with the position of the entry it is given, and the procedure  *)
(* fills the last one with the final directory position.  A client lists a *)
(* whole directory by calling again with the last cookie it received.      *)
(*                                                                         *)
(* Data is abstracted to tokens: a reply word is <<tag, value>>; numeric   *)
(* words are <<"u32", n>>, name and handle bytes are tagged with the entry *)
(* they belong to.  Page contents, the buffer pointer and the two cookie   *)
(* pointers are kept word-exact: they are what the code gets wrong or     *)
(* right.                                                                  *)
(***************************************************************************)
EXTENDS Integers, Sequences, SequencesExt

CONSTANTS
  PageWords,     \* PAGE_SIZE >> 2 (scaled down: see the MC module)
  RespPages,     \* rq_respages[1..] pages that are allocated (non-NULL)
  MaxBlockSize,  \* svc_max_payload(rqstp), in bytes
  NumEntries,    \* entries in the directory
  NameLens,      \* name lengths (bytes) an entry may have
  Counts,        \* argp->count values (bytes) a client may send
  FhSize,        \* fh_size of a composed child file handle, in bytes
  NULL

VARIABLES
  dir,      \* the directory: dir[i] = [namlen, fhok] (fhok: compose_entry_fh succeeds)
  pages,    \* rq_respages[1..RespPages]: page -> word index -> word
  nextPage, \* rq_next_page: the first page not reserved for this reply
  buffer,   \* cd->buffer as <<page, word>>, or NULL
  buflen,   \* cd->buflen, in words
  offset,   \* cd->offset: <<page, word>> of the open cookie, or NULL
  offset1,  \* cd->offset1: <<page, word>> of its low half when split, or NULL
  err,      \* cd->common.err: "ok" | "toosmall" | "eof"
  plus,     \* TRUE while READDIRPLUS runs, FALSE for READDIR
  pos,      \* nfsd_readdir's position: index of the entry handed over next
  phase,    \* "idle" | "reading" (nfsd_readdir running) | "read"
  rcount,   \* resp->count: words of entry data the reply carries
  strays,   \* words written past the end of a page: <<page, word>>, word >= PageWords
  emitted,  \* history: the entries encode_entry accepted in this call
  cookie,   \* client: the cookie it sends in its next call
  listed,   \* client: the entries it has received in this listing
  eof       \* client: the last reply said end of directory

vars == <<dir, pages, nextPage, buffer, buflen, offset, offset1, err, plus,
          pos, phase, rcount, strays, emitted, cookie, listed, eof>>

ASSUME MaxBlockSize <= RespPages * 4 * PageWords

-----------------------------------------------------------------------------
(* Words and XDR encodings.                                                *)

U(n) == <<"u32", n>>
XdrOne == U(1)
XdrZero == U(0)
Junk == <<"junk", 0>>               \* whatever a page held before this call

\* A loff_t / u64 as its two 32-bit halves.  The filesystem's position of
\* entry i (i = NumEntries + 1 is the end of the directory); cookie 0 is the
\* start.  The halves differ so that a swapped or lost half is visible.
Pos(i) == [hi |-> i, lo |-> 100 + i]
Zero == [hi |-> 0, lo |-> 0]
\* NFS_OFFSET_MAX; its low half 0xffffffff is written as -1 (same bits).
OffsetMax == [hi |-> 2147483647, lo |-> -1]

\* xdr_encode_hyper: high word first.
Hyper(o) == <<U(o.hi), U(o.lo)>>
\* XDR_QUADLEN: bytes rounded up to 4-byte units.
Quad(n) == (n + 3) \div 4

NFS3_MAXNAMLEN == 255
NFS3_FHSIZE == 64
NFS3_ENTRY_BAGGAGE == 2 + 1 + 2 + 1
NFS3_ENTRYPLUS_BAGGAGE == 1 + 21 + 1 + (NFS3_FHSIZE \div 4)

NameLen(i) == IF dir[i].namlen < NFS3_MAXNAMLEN THEN dir[i].namlen ELSE NFS3_MAXNAMLEN

\* encode_entry_baggage: presence flag, file id, name, placeholder cookie.
EntryBaggage(i) ==
  <<XdrOne>> \o Hyper([hi |-> 0, lo |-> i]) \o <<U(NameLen(i))>>
    \o [k \in 1 .. Quad(NameLen(i)) |-> <<"name", i>>] \o Hyper(OffsetMax)

\* Faulty variant: the cookie pointer taken one word early.
CookieSlotShort(i) == 3 + Quad(NameLen(i))

\* cd->offset - tmp: words from the start of the entry to its cookie.
CookieSlot(i) == 4 + Quad(NameLen(i))

\* encode_fh: byte count, then the handle rounded to 4-byte units.
EncodeFh(i) == <<U(FhSize)>> \o [k \in 1 .. Quad(FhSize) |-> <<"fh", i>>]

\* encode_entryplus_baggage: when compose_entry_fh fails two zero words;
\* else encode_post_op_attr (its "attributes follow" word; encode_fattr3
\* writes nothing), "handle follows", and the handle.
EntryPlusBaggage(i) ==
  IF dir[i].fhok THEN <<XdrOne, XdrOne>> \o EncodeFh(i) ELSE <<XdrZero, XdrZero>>

EntryWords(i) == EntryBaggage(i) \o (IF plus THEN EntryPlusBaggage(i) ELSE <<>>)

\* Faulty variant: the estimate counted in bytes rather than words.
ElenBytes(i) == 4 * (Quad(NameLen(i)) + NFS3_ENTRY_BAGGAGE
                     + (IF plus THEN NFS3_ENTRYPLUS_BAGGAGE ELSE 0))

\* elen: the estimate encode_entry checks room against.
Elen(i) == Quad(NameLen(i)) + NFS3_ENTRY_BAGGAGE
             + (IF plus THEN NFS3_ENTRYPLUS_BAGGAGE ELSE 0)

\* Page p with the words of s written from word k on.  Words past the end of
\* the page are not in the model's pages: in C they land in whatever memory
\* follows the page, and Outside records them.
Write(pg, p, k, s) ==
  [pg EXCEPT ![p] = [j \in 0 .. PageWords - 1 |->
                       IF k <= j /\ j < k + Len(s) THEN s[j - k + 1] ELSE @[j]]]
WriteAt(pg, ptr, s) == Write(pg, ptr[1], ptr[2], s)
Outside(ptr, n) == {<<ptr[1], j>> : j \in {j \in ptr[2] .. ptr[2] + n - 1 : j >= PageWords}}

\* The reply's entry data: the first n words of the pages, in order.
Flat(pg, n) == [k \in 1 .. n |-> pg[(k - 1) \div PageWords + 1][(k - 1) % PageWords]]

-----------------------------------------------------------------------------
(* encode_entry (nfs3xdr.c 621-748), called by nfsd_readdir for entry pos. *)

\* The "if (cd->offset)" block: the open cookie gets the position o of the
\* entry now being encoded, split over offset and offset1 when it sits on a
\* page boundary.  Returns the new pages and the words written off a page.
Backpatch(pg, o) ==
  CASE offset = NULL  -> [pages |-> pg, off |-> {}]
    [] offset1 # NULL -> [pages |-> WriteAt(WriteAt(pg, offset, <<U(o.hi)>>), offset1, <<U(o.lo)>>),
                          off   |-> {}]
    [] OTHER          -> [pages |-> WriteAt(pg, offset, Hyper(o)), off |-> Outside(offset, 2)]

\* "(caddr_t)(cd->buffer + elen) < (curr_page_addr + PAGE_SIZE)"
InCurrentPage(b, elen) == b[2] + elen < PageWords
\* Faulty variant: an entry exactly filling the rest of the page is moved back.
FitsBackLe(n, len1) == n <= len1
\* "(num_entry_words << 2) < len1", both counted in words here.
FitsBack(n, len1) == n < len1
\* Faulty variant: a cookie ending exactly at the page end counts as split.
CookieInFirstLt(k, len1) == k + 2 < len1
\* "offset_r + 8 <= len1": the cookie lies wholly in the first page.
CookieInFirst(k, len1) == k + 2 <= len1

\* Success: cd->buflen -= num_entry_words; cd->buffer = p; err = nfs_ok;
\* nfsd_readdir moves on to the next entry.
Accepted(p, n) ==
  /\ buflen' = buflen - n
  /\ buffer' = p
  /\ err' = "ok"
  /\ pos' = pos + 1
  /\ emitted' = Append(emitted, pos)

\* elen does not fit cd->buflen, or it does not fit the current page and
\* no next page is allocated: nfserr_toosmall, nfsd_readdir stops here.  The
\* open cookie has already been backpatched and offset1 cleared.  (The
\* second case needs the buffer in the last allocated page with buflen >=
\* elen; as buflen never exceeds the pages the decoder reserved, it does
\* not arise while rq_respages holds those pages.)
EncodeTooSmall ==
  /\ phase = "reading" /\ pos <= NumEntries
  /\ \/ buflen < Elen(pos)
     \/ ~InCurrentPage(buffer, Elen(pos)) /\ buffer[1] + 1 > RespPages
  /\ LET bp == Backpatch(pages, Pos(pos)) IN
       /\ pages' = bp.pages
       /\ strays' = strays \cup bp.off
  /\ offset1' = NULL
  /\ err' = "toosmall"
  /\ phase' = "read"
  /\ UNCHANGED <<dir, nextPage, buffer, buflen, offset, plus, pos, rcount,
                 emitted, cookie, listed, eof>>

\* The estimate fits the current page: encode in place.
EncodeInPage ==
  /\ phase = "reading" /\ pos <= NumEntries
  /\ buflen >= Elen(pos)
  /\ InCurrentPage(buffer, Elen(pos))
  /\ LET ent == EntryWords(pos)
         bp == Backpatch(pages, Pos(pos))
     IN
       /\ pages' = WriteAt(bp.pages, buffer, ent)
       /\ strays' = strays \cup bp.off
       /\ offset' = <<buffer[1], buffer[2] + CookieSlot(pos)>>
       /\ offset1' = NULL
       /\ Accepted(<<buffer[1], buffer[2] + Len(ent)>>, Len(ent))
  /\ UNCHANGED <<dir, nextPage, plus, phase, rcount, cookie, listed, eof>>

\* The estimate does not fit but the next page exists: the entry is built at
\* the start of the next page (tmp), then either moved back whole, when its
\* actual length fits the current page, or split: its first len1 words to
\* the end of the current page, the rest to the start of the next.  The
\* cookie then lies wholly in the first page, wholly in the second, or on
\* the fence (offset1 holds its low half).
EncodeViaNextPage ==
  /\ phase = "reading" /\ pos <= NumEntries
  /\ buflen >= Elen(pos)
  /\ ~InCurrentPage(buffer, Elen(pos))
  /\ buffer[1] + 1 <= RespPages
  /\ LET ent == EntryWords(pos)
         n == Len(ent)
         cur == buffer[1]
         bp == Backpatch(pages, Pos(pos))
         scratch == Write(bp.pages, cur + 1, 0, ent)
         len1 == PageWords - buffer[2]
         k == CookieSlot(pos)
     IN
       /\ strays' = strays \cup bp.off
       /\ \/ /\ FitsBack(n, len1)
             /\ pages' = WriteAt(scratch, buffer, ent)
             /\ offset' = <<cur, buffer[2] + k>>
             /\ offset1' = NULL
             /\ Accepted(<<cur, buffer[2] + n>>, n)
          \/ /\ ~FitsBack(n, len1)
             /\ pages' = Write(WriteAt(scratch, buffer, SubSeq(ent, 1, len1)),
                               cur + 1, 0, SubSeq(ent, len1 + 1, n))
             /\ \/ CookieInFirst(k, len1) /\ offset' = <<cur, buffer[2] + k>>
                                          /\ offset1' = NULL
                \/ ~CookieInFirst(k, len1) /\ k >= len1
                                           /\ offset' = <<cur + 1, k - len1>>
                                           /\ offset1' = NULL
                \/ ~CookieInFirst(k, len1) /\ k < len1
                                           /\ offset' = <<cur, buffer[2] + k>>
                                           /\ offset1' = <<cur + 1, 0>>
             /\ Accepted(<<cur + 1, n - len1>>, n)
  /\ UNCHANGED <<dir, nextPage, plus, phase, rcount, cookie, listed, eof>>

\* nfsd_readdir (vfs.c) finds no more entries: cd->common.err stays
\* nfserr_eof and the position is the end of the directory.
ReaddirEof ==
  /\ phase = "reading" /\ pos > NumEntries
  /\ err' = "eof"
  /\ phase' = "read"
  /\ UNCHANGED <<dir, pages, nextPage, buffer, buflen, offset, offset1, plus,
                 pos, rcount, strays, emitted, cookie, listed, eof>>

-----------------------------------------------------------------------------
(* The procedures and the client.                                          *)

\* nfsd_readdir seeks to the client's cookie.
StartIndex(c) == IF c = Zero THEN 1 ELSE CHOOSE i \in 1 .. NumEntries + 1 : Pos(i) = c
ValidCookie(c) == c = Zero \/ \E i \in 1 .. NumEntries + 1 : Pos(i) = c

\* Setup common to both procedures: resp is zeroed by svc_process, so
\* cd->offset and cd->offset1 start NULL; the pages hold old data.  The
\* buffer budget is the client's count in words less two for the trailer.
StartCall(count, first, reserved, isplus) ==
  /\ phase = "idle"
  /\ pages' = [p \in 1 .. RespPages |-> [j \in 0 .. PageWords - 1 |-> Junk]]
  /\ nextPage' = 1 + reserved
  /\ buffer' = first
  /\ buflen' = (count \div 4) - 2
  /\ offset' = NULL /\ offset1' = NULL
  /\ err' = "ok"
  /\ plus' = isplus
  /\ pos' = StartIndex(cookie)
  /\ phase' = "reading"
  /\ rcount' = 0
  /\ emitted' = <<>>
  /\ UNCHANGED <<dir, strays, cookie, listed, eof>>

\* The client: a reply that stopped at nfserr_toosmall before its first
\* entry carries no entry and no eof, and the caller then retries with a
\* larger budget (spec 4.4), or with the same one when it has none larger;
\* any count otherwise.
Retries(count) ==
  \/ ~(emitted = <<>> /\ err = "toosmall")
  \/ (count \div 4) - 2 > buflen
  \/ \A c \in Counts : (c \div 4) - 2 <= buflen

\* nfs3svc_decode_readdirargs + nfsd3_proc_readdir up to nfsd_readdir: the
\* count is capped at PAGE_SIZE and one page is taken for the reply.
CallReaddir ==
  \E c \in Counts :
    LET count == IF c < 4 * PageWords THEN c ELSE 4 * PageWords
    IN /\ Retries(count)
       /\ StartCall(count, <<1, 0>>, 1, FALSE)

\* nfs3svc_decode_readdirplusargs: the count is capped at the maximum
\* payload and the "while (len > 0)" loop takes one page per PAGE_SIZE
\* bytes of it; args->buffer stays NULL when it takes none.
ReservedPages(count) == (count + 4 * PageWords - 1) \div (4 * PageWords)

CallReaddirPlus ==
  \E c \in Counts :
    LET count == IF c < MaxBlockSize THEN c ELSE MaxBlockSize
    IN /\ Retries(count)
       /\ StartCall(count, IF ReservedPages(count) > 0 THEN <<1, 0>> ELSE NULL,
                    ReservedPages(count), TRUE)

\* resp->count.  READDIR: "resp->buffer - argp->buffer", a pointer
\* difference that means something only within the first page (pages are
\* not contiguous); READDIRPLUS: the loop over the reserved pages adding
\* PAGE_SIZE for each page before the buffer's.
RespCount ==
  IF plus
  THEN IF buffer # NULL /\ buffer[1] < nextPage
       THEN {(buffer[1] - 1) * PageWords + buffer[2]}
       ELSE {(nextPage - 1) * PageWords}
  ELSE IF buffer[1] = 1 THEN {buffer[2]} ELSE 0 .. RespPages * PageWords

\* The position nfsd_readdir leaves in *offsetp: that of the entry it
\* stopped at, or the end of the directory.
FinalPos == Pos(pos)

\* The end of the procedure: the last open cookie gets the final position
\* (through offset1 by READDIRPLUS only), resp->count is computed, and
\* nfs3svc_encode_readdirres sends count words of entries and the eof flag.
ReplyDone ==
  /\ phase = "read"
  /\ rcount' \in RespCount
  /\ IF offset = NULL
     THEN pages' = pages /\ strays' = strays
     ELSE IF plus /\ offset1 # NULL
     THEN /\ pages' = WriteAt(WriteAt(pages, offset, <<U(FinalPos.hi)>>),
                              offset1, <<U(FinalPos.lo)>>)
          /\ strays' = strays
     ELSE /\ pages' = WriteAt(pages, offset, Hyper(FinalPos))
          /\ strays' = strays \cup Outside(offset, 2)
  /\ offset1' = NULL
  /\ phase' = "sent"
  /\ UNCHANGED <<dir, nextPage, buffer, buflen, offset, err, plus, pos,
                 emitted, cookie, listed, eof>>

\* The client reads the reply: the entries in its count words, and as its
\* next cookie the one that follows the last entry.
CookieAfter(stream, ents) ==
  LET last == ents[Len(ents)]
      \* entry present, fileid (2), name length, name: then the cookie
      at == FoldLeft(LAMBDA a, i : a + Len(EntryWords(i)), 0,
                     SubSeq(ents, 1, Len(ents) - 1))
                + 4 + Quad(NameLen(last)) + 1
  IN [hi |-> stream[at][2], lo |-> stream[at + 1][2]]

ClientReceive ==
  /\ phase = "sent"
  /\ listed' = listed \o emitted
  /\ cookie' = IF emitted = <<>> THEN cookie ELSE CookieAfter(Flat(pages, rcount), emitted)
  /\ eof' = (err = "eof")
  /\ phase' = "idle"
  /\ UNCHANGED <<dir, pages, nextPage, buffer, buflen, offset, offset1, err,
                 plus, pos, rcount, strays, emitted>>

\* After end of directory the client starts a new listing.
Relist ==
  /\ phase = "idle" /\ eof
  /\ cookie' = Zero /\ listed' = <<>> /\ eof' = FALSE
  /\ UNCHANGED <<dir, pages, nextPage, buffer, buflen, offset, offset1, err,
                 plus, pos, phase, rcount, strays, emitted>>

Init ==
  /\ dir \in [1 .. NumEntries -> [namlen : NameLens, fhok : BOOLEAN]]
  /\ pages = [p \in 1 .. RespPages |-> [j \in 0 .. PageWords - 1 |-> Junk]]
  /\ nextPage = 1 /\ buffer = NULL /\ buflen = 0
  /\ offset = NULL /\ offset1 = NULL /\ err = "ok" /\ plus = FALSE
  /\ pos = 1 /\ phase = "idle" /\ rcount = 0 /\ strays = {} /\ emitted = <<>>
  /\ cookie = Zero /\ listed = <<>> /\ eof = FALSE

Next ==
  \/ CallReaddir \/ CallReaddirPlus
  \/ EncodeTooSmall \/ EncodeInPage \/ EncodeViaNextPage
  \/ ReaddirEof \/ ReplyDone \/ ClientReceive \/ Relist

\* One nfsd thread runs a request from decode to reply without giving it
\* up, and the client keeps listing: weak fairness on the whole relation.
Spec == Init /\ [][Next]_vars /\ WF_vars(Next)

-----------------------------------------------------------------------------
(* Properties.                                                             *)

Ptr == (1 .. RespPages) \X (0 .. PageWords - 1)
Position == {Zero} \cup {Pos(i) : i \in 1 .. NumEntries + 1}

TypeOK ==
  /\ dir \in [1 .. NumEntries -> [namlen : NameLens, fhok : BOOLEAN]]
  /\ nextPage \in 1 .. RespPages + 1
  /\ buffer \in Ptr \cup {NULL}
  /\ buflen \in Int
  /\ offset \in Ptr \cup {NULL} /\ offset1 \in Ptr \cup {NULL}
  /\ err \in {"ok", "toosmall", "eof"}
  /\ plus \in BOOLEAN
  /\ pos \in 1 .. NumEntries + 1
  /\ phase \in {"idle", "reading", "read", "sent"}
  /\ rcount \in 0 .. RespPages * PageWords
  /\ emitted \in Seq(1 .. NumEntries)
  /\ cookie \in Position
  /\ listed \in Seq(1 .. NumEntries)
  /\ eof \in BOOLEAN

\* Entry i as it must reach the client: its cookie is the position of the
\* entry after it (where a listing resumes), the end position for the last.
Filled(i) ==
  LET k == CookieSlot(i) IN
  [EntryWords(i) EXCEPT ![k + 1] = U(Pos(i + 1).hi), ![k + 2] = U(Pos(i + 1).lo)]

\* The reply that goes out carries, in its count words of page data, exactly
\* the entries encode_entry accepted, each with its cookie filled: the
\* deferred backpatching by the next encode_entry call or by the procedure,
\* through offset/offset1 across page splits and moves, and the count
\* computed from the final buffer pointer all agree.
ReplyStreamMatchesEntries ==
  phase = "sent" =>
    Flat(pages, rcount) = FlattenSeq([j \in 1 .. Len(emitted) |-> Filled(emitted[j])])

\* A client that lists the directory by resending the last cookie it got
\* receives every entry once, in order, never one twice or one skipped; the
\* cookie it holds is a real position; when told eof it has them all.
ListingExact ==
  /\ listed = [k \in 1 .. Len(listed) |-> k]
  /\ cookie \in Position
  /\ cookie # Zero => cookie = Pos(Len(listed) + 1)
  /\ eof => Len(listed) = NumEntries

\* The refinement mapping: the abstract listing is the client's view of it,
\* the entries it has received and the eof flag of the last reply.
Listing == INSTANCE DirListing WITH received <- listed, atEnd <- eof,
                                    NumEntries <- NumEntries

\* The paging of encode_entry, the deferred cookie backpatching, the count
\* the procedures compute and the client's resume from the last cookie
\* together implement DirListing: each reply extends the listing by the
\* entries that follow it, eof comes only after the last entry, and every
\* call moves the listing on (the room estimate elen must admit at least one
\* entry per call) until the end is reached.
ListingRefinesDirListing == Listing!Spec

\* No backpatch of a cookie writes past the end of a reply page: the words
\* of the cookie are written where offset and offset1 point and nowhere else.
NoStrayWrite == strays = {}

=============================================================================
