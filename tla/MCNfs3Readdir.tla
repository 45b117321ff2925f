---------------------------- MODULE MCNfs3Readdir ----------------------------
(***************************************************************************)
(* Nfs3Readdir instantiated for TLC.  PAGE_SIZE is scaled from 4096 to 200 *)
(* bytes (50 words) so that a few entries fill a page: with READDIRPLUS    *)
(* entries of 9 to 18 words and a room estimate of 46-47 words, entries    *)
(* are moved back, split with the cookie in either page, and split with    *)
(* the cookie on the fence.  Two pages are allocated, the most a 400-byte  *)
(* count reserves, so the estimate can also run out of next page.          *)
(***************************************************************************)
EXTENDS Nfs3Readdir

MCPageWords == 50
MCRespPages == 2
MCMaxBlockSize == 400
MCNumEntries == 5
\* names of one and two XDR words
MCNameLens == {3, 6}
\* 160 bytes: below the READDIRPLUS estimate, no entry fits; 200 bytes: one
\* page, READDIRPLUS takes several calls; 400: two pages
MCCounts == {160, 200, 400}
\* a 28-byte handle: fsid type 0 (8 bytes) + 4-byte header + 16-byte fileid
MCFhSize == 28

=============================================================================
