------------------------------ MODULE PFProps ------------------------------
(***************************************************************************)
(* What the paged-file layer must guarantee, and the sense in which it     *)
(* implements PagedFile.                                                   *)
(***************************************************************************)
EXTENDS PF

-----------------------------------------------------------------------------
(* Types. *)

(* Every variable of the layer has its type: the hash table and the frames *)
(* hold page numbers, not the negative ones that mark a link's end or a    *)
(* used page.  That they are pages of the file is BufferedPagesInFile.     *)
PFTypeOK ==
    /\ disk \in [Fname -> File]
    /\ PFftab \in [FD -> PFftab_ele]
    /\ buf \in BufType
    /\ call \in Call
    /\ ret \in [code : Int, page : PF_PAGE_USED .. MaxPages]
    /\ PFerrno \in Int
    /\ touched \subseteq Frame

-----------------------------------------------------------------------------
(* The pool. *)

Listed == ToSet(buf.list)

(* The frames malloc returned are each once on the list or once on the     *)
(* free list, which share a link field: none is lost, none is on both.     *)
FramesAccountedFor ==
    /\ IsInjective(buf.list)
    /\ IsInjective(buf.free)
    /\ Listed \cap ToSet(buf.free) = {}
    /\ Listed \cup ToSet(buf.free) = 1 .. buf.num

(* The hash table finds exactly the pages the listed frames hold: a page   *)
(* is in at most one frame, and no entry points to a frame reused since.   *)
HashListAgree ==
    /\ \A f \in Listed :
         buf.hash[<<buf.frame[f].fd, buf.frame[f].page>>] = f
    /\ \A fp \in FD \X PageNum :
         buf.hash[fp] # NoFrame =>
           /\ buf.hash[fp] \in Listed
           /\ buf.frame[buf.hash[fp]].fd = fp[1]
           /\ buf.frame[buf.hash[fp]].page = fp[2]

(* Only listed frames are fixed.  The flag of any other frame says nothing *)
(* (no routine reads it before it sets it), but the proofs need this of    *)
(* the frames of the model, which start unfixed.                           *)
FixedAreListed == \A f \in Frame : buf.frame[f].fixed => f \in Listed

(* The pool holds pages of open files only: a descriptor that is used      *)
(* again for another file meets none of the pages of the first.            *)
BufferedPagesOfOpenFiles ==
    \A f \in Listed : PFftab[buf.frame[f].fd].fname # NULL

(* ... and of these, pages the file has by the header in memory, which     *)
(* counts a page as soon as PF_AllocPage hands it out: no page number past *)
(* the end gets into the pool, and none is left there by a longer file     *)
(* that had the descriptor before.  It is said of clients that keep the    *)
(* rules of IMP.DOC and of one process: the chain of free pages a process  *)
(* leaves that did not close its file can lead anywhere.                   *)
BufferedPagesInFile ==
    \A f \in Listed : buf.frame[f].page < PFftab[buf.frame[f].fd].hdr.numpages

(* A loop goes on over a file that is open, and what the loop of           *)
(* PF_CloseFile has passed holds no page of the file: when it ends, the    *)
(* file has no page in the pool.                                           *)
LoopsAreSound ==
    /\ call.op # "idle" => PFftab[call.fd].fname # NULL
    /\ call.op = "close" =>
         \A i \in 1 .. Len(buf.list) :
           i < call.at => buf.frame[buf.list[i]].fd # call.fd

-----------------------------------------------------------------------------
(* The pool and the disk. *)

(* A frame that is neither dirty nor changed by the client under its pin   *)
(* holds what its file holds on disk: it can be dropped without a write.   *)
CleanMatchesDisk ==
    \A f \in Listed :
      LET v  == buf.frame[f]
          df == disk[PFftab[v.fd].fname]
      IN  ~v.dirty /\ f \notin touched =>
            v.page < df.len /\ df.page[v.page] = v.fpage

(* The header on disk never counts a page that was not written, since it   *)
(* goes out after the pages: no restart, however early, meets a file that  *)
(* is shorter than its header says.                                        *)
HeaderCoversPages == \A fn \in Fname : disk[fn].hdr.numpages <= disk[fn].len

(* The header and the pages of fn as a reader of fn sees them: through the *)
(* open-file table and the pool if some descriptor has it open.            *)
OpenOn(fn) == {fd \in FD : PFftab[fd].fname = fn}

CurrentHdr(fn) == IF OpenOn(fn) = {} THEN disk[fn].hdr
                  ELSE PFftab[CHOOSE fd \in OpenOn(fn) : TRUE].hdr

CurrentPage(fn, p) ==
    IF \E fd \in OpenOn(fn) : PFhashFind(buf, fd, p) # NoFrame
    THEN FpageOf(buf, CHOOSE fd \in OpenOn(fn) : PFhashFind(buf, fd, p) # NoFrame, p)
    ELSE disk[fn].page[p]

FreePages(fn) == {p \in PageNum : /\ p < CurrentHdr(fn).numpages
                                  /\ CurrentPage(fn, p).nextfree # PF_PAGE_USED}

(* c is the chain of free pages of fn, link by link from the header. *)
Links(fn, c) ==
    /\ CurrentHdr(fn).firstfree = IF c = << >> THEN PF_PAGE_LIST_END ELSE c[1]
    /\ \A i \in DOMAIN c :
         CurrentPage(fn, c[i]).nextfree = IF i = Len(c) THEN PF_PAGE_LIST_END
                                                       ELSE c[i + 1]

(* The chain of every file, open or closed, goes through each of its free  *)
(* pages once, through no used one, and ends: no page is handed out twice  *)
(* by PF_AllocPage and none is lost.                                       *)
FreeChainSound == \A fn \in Fname : \E c \in SetToSeqs(FreePages(fn)) : Links(fn, c)

(* Between calls, a page fixed in the pool is a page in use: a call that   *)
(* gives up on a free page has not left it fixed.                          *)
PinnedPagesAreUsed ==
    Idle => \A f \in Listed : buf.frame[f].fixed =>
                              buf.frame[f].fpage.nextfree = PF_PAGE_USED

-----------------------------------------------------------------------------
(* Pins and the pointers that go with them. *)

IsPinned(fd, p) == NotFixed(buf, fd, p) = PFE_OK

Pinned == {fp \in FD \X PageNum : IsPinned(fp[1], fp[2])}

(* The pointer a client got with a pin stays good until it unpins the page *)
(* itself: whatever else is called, on this file or another, the page is   *)
(* neither moved, evicted, unpinned nor overwritten by the library.        *)
PinnedPagesStay ==
    [][\A fp \in Pinned :
         \/ \E dirty \in BOOLEAN : PF_UnfixPage(fp[1], fp[2], dirty)
         \/ /\ buf'.hash[fp] = buf.hash[fp]
            /\ buf'.frame[buf.hash[fp]].fixed
            /\ \/ buf'.frame[buf.hash[fp]].fpage = buf.frame[buf.hash[fp]].fpage
               \/ \E d \in Data : ClientWrite(fp[1], fp[2], d)]_pfvars

(* Every call returns: the scan of PF_GetNextPage and the flush of         *)
(* PF_CloseFile, whose list shrinks as it is walked, come to an end.       *)
CallsReturn == ~Idle ~> Idle

-----------------------------------------------------------------------------
(* The abstract view, and what a restart leaves of it. *)

CurrentContent(fn) ==
    [p \in PageNum |->
       IF /\ p < CurrentHdr(fn).numpages
          /\ CurrentPage(fn, p).nextfree = PF_PAGE_USED
       THEN CurrentPage(fn, p).data
       ELSE NULL]

(* A process that ends without PF_CloseFile loses nothing of a file whose  *)
(* pages and header were unchanged, even one with pages in the pool, and   *)
(* nothing of a file it did not have open.                                 *)
RestartKeepsSavedFiles ==
    [][Restart => \A fn \in Fname :
         (\A fd \in OpenOn(fn) : ~Unsaved(fd)) =>
           CurrentContent(fn)' = CurrentContent(fn)]_pfvars

Abstract == INSTANCE PagedFile WITH
    files   <- {fn \in Fname : disk[fn].exists},
    content <- [fn \in Fname |-> CurrentContent(fn)],
    open    <- [fd \in FD |-> PFftab[fd].fname],
    pinned  <- Pinned

(* The layer implements PagedFile: buffering, eviction, the free chain and *)
(* the header kept in memory cannot be told from a plain set of pages.     *)
ImplementsPagedFile == Abstract!PagedSpec
=============================================================================
