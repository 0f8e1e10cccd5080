--------------------------------- MODULE PF ---------------------------------
(***************************************************************************)
(* The paged-file layer, pflayer/pf.c over buf.c: files of fixed-size      *)
(* pages, a table of open files, and one pool of buffers shared by them.   *)
(*                                                                         *)
(* The library is called by one thread, so a call is one step, except the  *)
(* two that loop, PF_GetNextPage and PF_CloseFile: they take a step per    *)
(* turn, with the state of the loop in the variable call.  The client is   *)
(* any program that makes calls in any order with any arguments, and       *)
(* writes to the pages it has fixed.                                       *)
(***************************************************************************)
EXTENDS PFBuf

(***************************************************************************)
(* FALSE: the client follows IMP.DOC, that is, it changes a file only      *)
(* through a descriptor no other descriptor shares the file with, and says *)
(* that a page is dirty when it has changed it.  TRUE: any client.         *)
(***************************************************************************)
CONSTANT Undisciplined

ASSUME UndisciplinedAssumption == Undisciplined \in BOOLEAN

VARIABLES
    call,           \* the loop in progress: its operation, fd and position
    ret,            \* what the last call returned: code and *pagenum
    PFerrno,        \* the global error code
    touched         \* frames the client changed and has not declared dirty

pfvars == <<disk, PFftab, buf, call, ret, PFerrno, touched>>

NoCall == [op |-> "idle", fd |-> 0, at |-> 0]
Call   == {NoCall}
          \cup [op : {"next"}, fd : FD, at : 0 .. MaxPages]
          \cup [op : {"close"}, fd : FD, at : Nat \ {0}]

Idle == call = NoCall

(***************************************************************************)
(* The end of a call.  Every error code a routine returns is also stored   *)
(* in PFerrno, which success leaves alone.  page is what the call stored   *)
(* through its argument pagenum, -1 when it stored nothing.                *)
(***************************************************************************)
ReturnPage(code, p) ==
    /\ ret' = [code |-> code, page |-> p]
    /\ PFerrno' = IF code < 0 THEN code ELSE PFerrno
    /\ call' = NoCall

Return(code) == ReturnPage(code, -1)

Fail(code) == Return(code) /\ UNCHANGED <<disk, PFftab, buf, touched>>

PFinvalidFd(fd) == PFftab[fd].fname = NULL

PFinvalidPagenum(fd, p) == p < 0 \/ p >= PFftab[fd].hdr.numpages

(* The argument checks PF_GetThisPage and its like begin with. *)
ArgumentError(fd, p) ==
    IF PFinvalidFd(fd) THEN PFE_FD
    ELSE IF PFinvalidPagenum(fd, p) THEN PFE_INVALIDPAGE
    ELSE PFE_OK

(* The file page <<fd, p>> in the pool state b. *)
FpageOf(b, fd, p) == b.frame[PFhashFind(b, fd, p)].fpage

Apply(o) == buf' = o.buf /\ disk' = o.disk

(* Mutant of Advance: the loop stays at the page it has passed. *)
AdvanceNowhere == UNCHANGED <<call, ret, PFerrno>>

(* The next turn of a loop. *)
Advance == call' = [call EXCEPT !.at = @ + 1] /\ UNCHANGED <<ret, PFerrno>>

(* Mutant of ChangeHdr: hdrchanged is not set. *)
ChangeHdrUnmarked(fd, hdr) == [PFftab EXCEPT ![fd].hdr = hdr]

(* PFftab once the header of fd has become hdr. *)
ChangeHdr(fd, hdr) == [PFftab EXCEPT ![fd].hdr = hdr, ![fd].hdrchanged = TRUE]

(* PFftab as the program loader leaves it and PF_Init wants it. *)
NoOpenFile == [fd \in FD |-> [fname |-> NULL, hdr |-> EmptyHdr,
                             hdrchanged |-> FALSE, strategy |-> "PF_LRU"]]

PFInit ==
    /\ disk = [fn \in Fname |-> EmptyFile(FALSE)]
    /\ PFftab = NoOpenFile
    /\ buf = PFbufInit(PF_MAX_BUFS)
    /\ call = NoCall
    /\ ret = [code |-> PFE_OK, page |-> -1]
    /\ PFerrno = PFE_OK
    /\ touched = {}

-----------------------------------------------------------------------------
(* Files. *)

PF_CreateFile(fn) ==
    /\ Idle
    /\ \/ /\ disk[fn].exists            \* O_EXCL
          /\ Fail(PFE_UNIX)
       \/ /\ ~disk[fn].exists
          /\ disk' = [disk EXCEPT ![fn] = EmptyFile(TRUE)]
          /\ Return(PFE_OK)
          /\ UNCHANGED <<PFftab, buf, touched>>
       \/ /\ ~disk[fn].exists           \* header not written: unlinked again
          /\ "write" \in Faults
          /\ \E code \in {PFE_UNIX, PFE_HDRWRITE} : Fail(code)

PF_DestroyFile(fn) ==
    /\ Idle
    /\ \/ /\ \E fd \in FD : PFftab[fd].fname = fn
          /\ Fail(PFE_FILEOPEN)
       \/ /\ \A fd \in FD : PFftab[fd].fname # fn
          /\ ~disk[fn].exists
          /\ Fail(PFE_UNIX)
       \/ /\ \A fd \in FD : PFftab[fd].fname # fn
          /\ disk[fn].exists
          /\ disk' = [disk EXCEPT ![fn] = EmptyFile(FALSE)]
          /\ Return(PFE_OK)
          /\ UNCHANGED <<PFftab, buf, touched>>

(* The lowest unused entry of the table, if there is one. *)
PFftabFindFree == {fd \in FD : /\ PFinvalidFd(fd)
                               /\ \A g \in FD : PFinvalidFd(g) => fd <= g}

(* fd has changes that are not in its file yet. *)
Unsaved(fd) ==
    \/ PFftab[fd].hdrchanged
    \/ \E i \in 1 .. Len(buf.list) :
         LET f == buf.list[i]
         IN  buf.frame[f].fd = fd /\ (buf.frame[f].dirty \/ f \in touched)

(* The client's part: it does not open a file whose changes are unsaved. *)
MayOpen(fn) ==
    Undisciplined \/ \A fd \in FD : PFftab[fd].fname = fn => ~Unsaved(fd)

PF_OpenFile(fn, strategy) ==
    /\ Idle
    /\ MayOpen(fn)
    /\ \/ /\ PFftabFindFree = {}
          /\ Fail(PFE_FTABFULL)
       \/ /\ PFftabFindFree # {}
          /\ ~disk[fn].exists
          /\ Fail(PFE_UNIX)
       \/ \E fd \in PFftabFindFree :
            /\ disk[fn].exists
            /\ PFftab' = [PFftab EXCEPT ![fd] =
                            [fname |-> fn, hdr |-> disk[fn].hdr,
                             hdrchanged |-> FALSE, strategy |-> strategy]]
            /\ Return(fd)
            /\ UNCHANGED <<disk, buf, touched>>
       \/ /\ PFftabFindFree # {}        \* the header could not be read
          /\ disk[fn].exists
          /\ "read" \in Faults
          /\ \E code \in {PFE_UNIX, PFE_HDRREAD} : Fail(code)
       \/ \E fd \in PFftabFindFree :    \* no memory for the name
            /\ disk[fn].exists
            /\ "mem" \in Faults
            /\ PFftab' = [PFftab EXCEPT ![fd].hdr = disk[fn].hdr,
                                        ![fd].hdrchanged = FALSE]
            /\ Return(PFE_NOMEM)
            /\ UNCHANGED <<disk, buf, touched>>

(* Mutant of PF_CloseFile: the header is written before the pages. *)
CloseHeaderFirst(fd) ==
    /\ Idle
    /\ \/ /\ PFinvalidFd(fd)
          /\ Fail(PFE_FD)
       \/ /\ ~PFinvalidFd(fd)
          /\ disk' = [disk EXCEPT ![PFftab[fd].fname].hdr = PFftab[fd].hdr]
          /\ PFftab' = [PFftab EXCEPT ![fd].hdrchanged = FALSE]
          /\ call' = [op |-> "close", fd |-> fd, at |-> 1]
          /\ UNCHANGED <<buf, ret, PFerrno, touched>>

PF_CloseFile(fd) ==
    /\ Idle
    /\ \/ /\ PFinvalidFd(fd)
          /\ Fail(PFE_FD)
       \/ /\ ~PFinvalidFd(fd)
          /\ call' = [op |-> "close", fd |-> fd, at |-> 1]
          /\ UNCHANGED <<disk, PFftab, buf, ret, PFerrno, touched>>

(* Mutant of Released: the loop skips the frame that follows a released one. *)
ReleasedSkips(o) == IF o.err = PFE_OK THEN Advance ELSE Return(o.err)

(* After a frame was released the next one is in its place. *)
Released(o) == IF o.err = PFE_OK THEN UNCHANGED <<call, ret, PFerrno>>
                                 ELSE Return(o.err)

(* A turn of PFbufReleaseFile's loop over the list, head to tail. *)
PFbufReleaseFile ==
    /\ call.op = "close"
    /\ call.at <= Len(buf.list)
    /\ LET f == buf.list[call.at]
       IN  \/ /\ buf.frame[f].fd # call.fd
              /\ Advance
              /\ UNCHANGED <<disk, PFftab, buf, touched>>
           \/ /\ buf.frame[f].fd = call.fd
              /\ buf.frame[f].fixed
              /\ Fail(PFE_PAGEFIXED)
           \/ /\ buf.frame[f].fd = call.fd
              /\ ~buf.frame[f].fixed
              /\ \E o \in ReleaseFrame(f) : Apply(o) /\ Released(o)
              /\ UNCHANGED <<PFftab, touched>>

(* The end of PF_CloseFile: the header goes out after all the pages. *)
FinishClose ==
    /\ call.op = "close"
    /\ call.at > Len(buf.list)
    /\ \/ /\ disk' = IF PFftab[call.fd].hdrchanged
                     THEN [disk EXCEPT ![PFftab[call.fd].fname].hdr =
                                         PFftab[call.fd].hdr]
                     ELSE disk
          /\ PFftab' = [PFftab EXCEPT ![call.fd].fname = NULL,
                                      ![call.fd].hdrchanged = FALSE]
          /\ Return(PFE_OK)
          /\ UNCHANGED <<buf, touched>>
       \/ /\ PFftab[call.fd].hdrchanged
          /\ "write" \in Faults
          /\ \E code \in {PFE_UNIX, PFE_HDRWRITE} : Fail(code)

-----------------------------------------------------------------------------
(* Pages. *)

(* Mutant of InvalidStart: a scan may start from page numpages. *)
InvalidStartLate(fd, pagenum) == pagenum < -1 \/ pagenum > PFftab[fd].hdr.numpages

(* A scan starts from a page of the file, or from -1, before the first. *)
InvalidStart(fd, pagenum) == pagenum < -1 \/ pagenum >= PFftab[fd].hdr.numpages

(* PF_GetFirstPage is PF_GetNextPage from page -1. *)
PF_GetNextPage(fd, pagenum) ==
    /\ Idle
    /\ \/ /\ PFinvalidFd(fd)
          /\ Fail(PFE_FD)
       \/ /\ ~PFinvalidFd(fd)
          /\ InvalidStart(fd, pagenum)
          /\ Fail(PFE_INVALIDPAGE)
       \/ /\ ~PFinvalidFd(fd)
          /\ ~InvalidStart(fd, pagenum)
          /\ call' = [op |-> "next", fd |-> fd, at |-> pagenum + 1]
          /\ UNCHANGED <<disk, PFftab, buf, ret, PFerrno, touched>>

(* A turn of its loop: get the page; keep it if it is used, else unfix it. *)
NextPageStep ==
    /\ call.op = "next"
    /\ call.at < PFftab[call.fd].hdr.numpages
    /\ \E o \in PFbufGet(call.fd, call.at) :
         /\ disk' = o.disk
         /\ \/ /\ o.err # PFE_OK
               /\ buf' = o.buf
               /\ Return(o.err)
            \/ /\ o.err = PFE_OK
               /\ FpageOf(o.buf, call.fd, call.at).nextfree = PF_PAGE_USED
               /\ buf' = o.buf
               /\ ReturnPage(PFE_OK, call.at)
            \/ /\ o.err = PFE_OK
               /\ FpageOf(o.buf, call.fd, call.at).nextfree # PF_PAGE_USED
               /\ buf' = PFbufUnfix(o.buf, call.fd, call.at, FALSE)
               /\ Advance
    /\ UNCHANGED <<PFftab, touched>>

EndOfFile ==
    /\ call.op = "next"
    /\ call.at >= PFftab[call.fd].hdr.numpages
    /\ Fail(PFE_EOF)

PF_GetThisPage(fd, p) ==
    /\ Idle
    /\ \/ /\ ArgumentError(fd, p) # PFE_OK
          /\ Fail(ArgumentError(fd, p))
       \/ /\ ArgumentError(fd, p) = PFE_OK
          /\ \E o \in PFbufGet(fd, p) :
               /\ disk' = o.disk
               /\ \/ /\ o.err # PFE_OK
                     /\ buf' = o.buf
                     /\ Return(o.err)
                  \/ /\ o.err = PFE_OK
                     /\ FpageOf(o.buf, fd, p).nextfree = PF_PAGE_USED
                     /\ buf' = o.buf
                     /\ Return(PFE_OK)
                  \/ /\ o.err = PFE_OK
                     /\ FpageOf(o.buf, fd, p).nextfree # PF_PAGE_USED
                     /\ buf' = PFbufUnfix(o.buf, fd, p, FALSE)
                     /\ Return(PFE_INVALIDPAGE)
          /\ UNCHANGED <<PFftab, touched>>

(* The client's part: fd is the only descriptor of its file. *)
Alone(fd) ==
    \/ Undisciplined
    \/ \A g \in FD \ {fd} : PFftab[g].fname = NULL \/ PFftab[g].fname # PFftab[fd].fname

(* Mutant of MarkUsed: the link of the page is left as it was. *)
MarkUsedKeepsLink(b, fd, p) == PFbufUsed(b, fd, p)

(* Mutant of MarkUsed: without PFbufUsed, the page is never written. *)
MarkUsedClean(b, fd, p) ==
    [b EXCEPT !.frame[PFhashFind(b, fd, p)].fpage.nextfree = PF_PAGE_USED]

(* PFbufUsed, then nextfree := PF_PAGE_USED; the contents stay as they are. *)
MarkUsed(b, fd, p) ==
    [PFbufUsed(b, fd, p) EXCEPT
        !.frame[PFhashFind(b, fd, p)].fpage.nextfree = PF_PAGE_USED]

AllocError(fd, p, o) ==
    /\ o.err # PFE_OK
    /\ Apply(o)
    /\ ReturnPage(o.err, p)
    /\ UNCHANGED PFftab

(* The page at the head of the chain of free pages is used again. *)
Recycle(fd) ==
    LET p == PFftab[fd].hdr.firstfree
    IN  \E o \in PFbufGet(fd, p) :
          \/ AllocError(fd, p, o)
          \/ /\ o.err = PFE_OK
             /\ disk' = o.disk
             /\ buf' = MarkUsed(o.buf, fd, p)
             /\ PFftab' = ChangeHdr(fd, [PFftab[fd].hdr EXCEPT
                                           !.firstfree = FpageOf(o.buf, fd, p).nextfree])
             /\ ReturnPage(PFE_OK, p)

(* The file grows by a page, up to the bound MaxPages. *)
Extend(fd) ==
    LET p == PFftab[fd].hdr.numpages
    IN  /\ p < MaxPages
        /\ \E o \in PFbufAlloc(fd, p) :
             \/ AllocError(fd, p, o)
             \/ /\ o.err = PFE_OK
                /\ disk' = o.disk
                /\ buf' = MarkUsed(o.buf, fd, p)
                /\ PFftab' = ChangeHdr(fd, [PFftab[fd].hdr EXCEPT !.numpages = p + 1])
                /\ ReturnPage(PFE_OK, p)

PF_AllocPage(fd) ==
    /\ Idle
    /\ \/ /\ PFinvalidFd(fd)
          /\ Fail(PFE_FD)
       \/ /\ ~PFinvalidFd(fd)
          /\ Alone(fd)
          /\ IF PFftab[fd].hdr.firstfree # PF_PAGE_LIST_END
             THEN Recycle(fd)
             ELSE Extend(fd)
          /\ UNCHANGED touched

(* Mutant of Free: the page is the end of the chain, the old chain is lost. *)
FreeEndsChain(b, fd, p) ==
    PFbufUnfix([b EXCEPT !.frame[PFhashFind(b, fd, p)].fpage.nextfree =
                           PF_PAGE_LIST_END], fd, p, TRUE)

(* Page p, fixed by PFbufGet in b, goes on the chain of free pages. *)
Free(b, fd, p) ==
    PFbufUnfix([b EXCEPT !.frame[PFhashFind(b, fd, p)].fpage.nextfree =
                           PFftab[fd].hdr.firstfree], fd, p, TRUE)

PF_DisposePage(fd, p) ==
    /\ Idle
    /\ \/ /\ ArgumentError(fd, p) # PFE_OK
          /\ Fail(ArgumentError(fd, p))
       \/ /\ ArgumentError(fd, p) = PFE_OK
          /\ Alone(fd)
          /\ \E o \in PFbufGet(fd, p) :
               /\ disk' = o.disk
               /\ \/ /\ o.err # PFE_OK
                     /\ buf' = o.buf
                     /\ Return(o.err)
                     /\ UNCHANGED PFftab
                  \/ /\ o.err = PFE_OK
                     /\ FpageOf(o.buf, fd, p).nextfree # PF_PAGE_USED
                     /\ buf' = PFbufUnfix(o.buf, fd, p, FALSE)
                     /\ Return(PFE_PAGEFREE)
                     /\ UNCHANGED PFftab
                  \/ /\ o.err = PFE_OK
                     /\ FpageOf(o.buf, fd, p).nextfree = PF_PAGE_USED
                     /\ buf' = Free(o.buf, fd, p)
                     /\ PFftab' = ChangeHdr(fd, [PFftab[fd].hdr EXCEPT !.firstfree = p])
                     /\ Return(PFE_OK)
          /\ UNCHANGED touched

(* The errors of PF_UnfixPage and PF_MarkDirty. *)
NotFixedError(fd, p) ==
    IF ArgumentError(fd, p) # PFE_OK THEN ArgumentError(fd, p)
                                     ELSE NotFixed(buf, fd, p)

PF_UnfixPage(fd, p, dirty) ==
    /\ Idle
    /\ \/ /\ NotFixedError(fd, p) # PFE_OK
          /\ Fail(NotFixedError(fd, p))
       \/ /\ NotFixedError(fd, p) = PFE_OK
          /\ \/ Undisciplined
             \/ dirty /\ Alone(fd)
             \/ ~dirty /\ PFhashFind(buf, fd, p) \notin touched
          /\ buf' = PFbufUnfix(buf, fd, p, dirty)
          /\ touched' = touched \ {PFhashFind(buf, fd, p)}
          /\ Return(PFE_OK)
          /\ UNCHANGED <<disk, PFftab>>

PF_MarkDirty(fd, p) ==
    /\ Idle
    /\ \/ /\ NotFixedError(fd, p) # PFE_OK
          /\ Fail(NotFixedError(fd, p))
       \/ /\ NotFixedError(fd, p) = PFE_OK
          /\ Alone(fd)
          /\ buf' = PFbufMarkDirty(buf, fd, p)
          /\ touched' = touched \ {PFhashFind(buf, fd, p)}
          /\ Return(PFE_OK)
          /\ UNCHANGED <<disk, PFftab>>

(***************************************************************************)
(* The client stores d in a page it has fixed, through the pointer the     *)
(* library gave it.                                                        *)
(***************************************************************************)
ClientWrite(fd, p, d) ==
    /\ Idle
    /\ NotFixed(buf, fd, p) = PFE_OK
    /\ Alone(fd)
    /\ LET f == PFhashFind(buf, fd, p)
       IN  /\ buf' = [buf EXCEPT !.frame[f].fpage.data = d]
           /\ touched' = IF buf.frame[f].dirty THEN touched ELSE touched \cup {f}
    /\ UNCHANGED <<disk, PFftab, call, ret, PFerrno>>

-----------------------------------------------------------------------------

Loop == PFbufReleaseFile \/ FinishClose \/ NextPageStep \/ EndOfFile

PFNext ==
    \/ \E fn \in Fname : PF_CreateFile(fn)
    \/ \E fn \in Fname : PF_DestroyFile(fn)
    \/ \E fn \in Fname, strategy \in PF_Strategy : PF_OpenFile(fn, strategy)
    \/ \E fd \in FD : PF_CloseFile(fd)
    \/ PFbufReleaseFile
    \/ FinishClose
    \/ \E fd \in FD, pagenum \in -2 .. MaxPages : PF_GetNextPage(fd, pagenum)
    \/ NextPageStep
    \/ EndOfFile
    \/ \E fd \in FD, p \in PageNum : PF_GetThisPage(fd, p)
    \/ \E fd \in FD : PF_AllocPage(fd)
    \/ \E fd \in FD, p \in PageNum : PF_DisposePage(fd, p)
    \/ \E fd \in FD, p \in PageNum, dirty \in BOOLEAN : PF_UnfixPage(fd, p, dirty)
    \/ \E fd \in FD, p \in PageNum : PF_MarkDirty(fd, p)
    \/ \E fd \in FD, p \in PageNum, d \in Data \ {Junk} : ClientWrite(fd, p, d)

PFSpec == PFInit /\ [][PFNext]_pfvars

(* A call that has begun goes on: it is the only thread there is. *)
PFFairSpec == PFSpec /\ WF_pfvars(Loop)

(***************************************************************************)
(* The process ends without closing its files, and a new one starts with   *)
(* PF_Init: nothing but the disk is left.                                  *)
(***************************************************************************)
Restart ==
    /\ PFftab' = NoOpenFile
    /\ buf' = PFbufInit(PF_MAX_BUFS)
    /\ call' = NoCall
    /\ ret' = [code |-> PFE_OK, page |-> -1]
    /\ PFerrno' = PFE_OK
    /\ touched' = {}
    /\ UNCHANGED disk

PFCrashSpec == PFInit /\ [][PFNext \/ Restart]_pfvars
=============================================================================
