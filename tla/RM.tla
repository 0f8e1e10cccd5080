--------------------------------- MODULE RM ---------------------------------
(***************************************************************************)
(* The record manager, rmlayer/rm.c: one file of slotted pages, the calls  *)
(* that insert, delete and get a record by its RID, and scans.             *)
(*                                                                         *)
(* Below it is the paged-file layer as PagedFile describes it, with what   *)
(* rm.c depends on besides: the error code left in PFerrno.  The pages are *)
(* all in use, since rm.c disposes of none.  A call is one step, except    *)
(* RM_GetNextRecord, which takes a step per turn of its loop.              *)
(***************************************************************************)
EXTENDS RMPage, FiniteSetsExt

CONSTANTS
    PF_MAX_BUFS,      \* pages in the buffer pool
    MaxPages,         \* BOUND: the file grows to this number of pages
    RIDPages,         \* page numbers a RID tells apart, 65536 in the code
    RIDSlots,         \* slot numbers a RID tells apart, 65536 in the code
    Lengths,          \* lengths of the records clients insert
    BufSizes,         \* sizes of the buffers clients get a record in
    Scan,             \* scan handles
    RetriesScans      \* FALSE: a client only closes a scan that has failed

ASSUME RMAssumption ==
    /\ PF_MAX_BUFS \in Nat \ {0}
    /\ MaxPages \in Nat \ {0}
    /\ RIDPages \in Nat \ {0}
    /\ RIDSlots \in Nat \ {0}
    /\ Lengths \subseteq 0 .. RM_PAGE_SIZE - HeaderSize - SlotSize
    /\ BufSizes \subseteq Nat
    /\ RetriesScans \in BOOLEAN

VARIABLES
    status,     \* the file: "none", "closed" or "open"
    numpages,   \* pages it has
    page,       \* what they hold, in the pool or on disk
    pinned,     \* the pages that are fixed in the pool
    PFerrno,    \* the error code the paged-file layer keeps
    scan,       \* the scan handles
    call,       \* the RM_GetNextRecord in progress: its scan and bufSize
    ret         \* what the last call returned: code, *rid and the data

rmvars == <<status, numpages, page, pinned, PFerrno, scan, call, ret>>
file   == <<status, numpages, page>>

PageNum == 0 .. MaxPages - 1

PFE_OK           == 0
PFE_NOBUF        == -2
PFE_PAGEFIXED    == -3
PFE_PAGENOTINBUF == -4
PFE_UNIX         == -5
PFE_INVALIDPAGE  == -10
PFE_FILEOPEN     == -11
PFE_EOF          == -14
PFE_PAGEUNFIXED  == -16

RME_OK          == 0
RME_EOF         == -1
RME_BUFTOOSMALL == -3
RME_INVALIDRID  == -4

RM_PackRID(p, k)  == (p % RIDPages) * RIDSlots + (k % RIDSlots)
PageOf(rid)       == rid \div RIDSlots
SlotOf(rid)       == rid % RIDSlots

(***************************************************************************)
(* The RM_ScanHandle, of which pageData tells whether it points to a page, *)
(* and what the client knows of the scan: whether it is using it, the RID  *)
(* it was told last (-1: none yet), and whether a call has failed.         *)
(***************************************************************************)
ScanHandle == [currentPage : -1 .. MaxPages - 1, currentSlot : -1 .. RM_PAGE_SIZE,
               pageData : BOOLEAN, used : BOOLEAN, told : -1 .. RIDPages * RIDSlots,
               stuck : BOOLEAN]

NewScan(used) == [currentPage |-> -1, currentSlot |-> -1, pageData |-> FALSE,
                  used |-> used, told |-> -1, stuck |-> FALSE]

NoCall == [scan |-> "none"]
Idle   == call = NoCall

RMInit ==
    /\ status = "none"
    /\ numpages = 0
    /\ page = [p \in PageNum |-> BlankPage]
    /\ pinned = {}
    /\ PFerrno = PFE_OK
    /\ scan = [s \in Scan |-> NewScan(FALSE)]
    /\ call = NoCall
    /\ ret = [code |-> RME_OK, rid |-> -1, data |-> << >>]

ReturnData(code, rid, data) ==
    /\ ret' = [code |-> code, rid |-> rid, data |-> data]
    /\ call' = NoCall

Return(code) == ReturnData(code, -1, << >>)

-----------------------------------------------------------------------------
(* The paged-file layer. *)

PoolIsFull == Cardinality(pinned) = PF_MAX_BUFS

(* The error of PF_GetThisPage and its like for a page of the file. *)
GetError(p) ==
    IF p \in pinned THEN PFE_PAGEFIXED ELSE IF PoolIsFull THEN PFE_NOBUF ELSE PFE_OK

PF_GetThisPage(p) == IF p >= numpages THEN PFE_INVALIDPAGE ELSE GetError(p)

PF_GetNextPage(p) == IF p + 1 >= numpages THEN PFE_EOF ELSE GetError(p + 1)

(* The codes PF_UnfixPage may return. *)
PF_UnfixPage(p) == IF p \in pinned THEN {PFE_OK} ELSE {PFE_PAGENOTINBUF, PFE_PAGEUNFIXED}

(* A call to the layer that sets PFerrno if it fails. *)
Errno(code) == IF code < 0 THEN code ELSE PFerrno

-----------------------------------------------------------------------------
(* Files.  There is one; a client keeps its handle. *)

RM_CreateFile ==
    /\ Idle
    /\ \/ /\ status = "none"
          /\ status' = "closed"
          /\ numpages' = 0
          /\ Return(RME_OK)
          /\ UNCHANGED <<page, pinned, PFerrno, scan>>
       \/ /\ status # "none"
          /\ PFerrno' = PFE_UNIX
          /\ Return(PFE_UNIX)
          /\ UNCHANGED <<file, pinned, scan>>

RM_DestroyFile ==
    /\ Idle
    /\ \/ /\ status = "closed"
          /\ status' = "none"
          /\ numpages' = 0
          /\ page' = [p \in PageNum |-> BlankPage]
          /\ Return(RME_OK)
          /\ UNCHANGED <<pinned, PFerrno, scan>>
       \/ /\ status # "closed"
          /\ LET code == IF status = "open" THEN PFE_FILEOPEN ELSE PFE_UNIX
             IN  PFerrno' = code /\ Return(code)
          /\ UNCHANGED <<file, pinned, scan>>

(* The client opens the file once at a time. *)
RM_OpenFile ==
    /\ Idle
    /\ \/ /\ status = "closed"
          /\ status' = "open"
          /\ Return(RME_OK)
          /\ UNCHANGED <<numpages, page, pinned, PFerrno, scan>>
       \/ /\ status = "none"
          /\ PFerrno' = PFE_UNIX
          /\ Return(PFE_UNIX)
          /\ UNCHANGED <<file, pinned, scan>>

(* With the file the client gives up its scans. *)
RM_CloseFile ==
    /\ Idle
    /\ status = "open"
    /\ \/ /\ pinned = {}
          /\ status' = "closed"
          /\ scan' = [s \in Scan |-> NewScan(FALSE)]
          /\ Return(RME_OK)
          /\ UNCHANGED <<numpages, page, pinned, PFerrno>>
       \/ /\ pinned # {}
          /\ PFerrno' = PFE_PAGEFIXED
          /\ Return(PFE_PAGEFIXED)
          /\ UNCHANGED <<file, pinned, scan>>

(* A process that has closed the file ends, and another one begins. *)
NewProcess ==
    /\ Idle
    /\ status # "open"
    /\ PFerrno' = PFE_OK
    /\ Return(RME_OK)
    /\ UNCHANGED <<file, pinned, scan>>

-----------------------------------------------------------------------------
(* RM_InsertRecord. *)

(* The pages where its loop over the file ends: it has no page to look at, *)
(* or the page has room.                                                   *)
Stops(length) == {p \in 0 .. numpages - 1 : \/ GetError(p) # PFE_OK
                                            \/ HasRoom(page[p], length)}

(* Mutant of TargetSlot: a new slot whether or not one is empty. *)
TargetNewSlot(p) == page[p].numSlots

(* targetSlotID when the loop has ended with page p: an empty slot of the  *)
(* last page that had one, be it p or a page before it; else a new slot.   *)
TargetSlot(p) ==
    LET had == {q \in 0 .. p : EmptySlots(page[q]) # {}}
    IN  IF had = {} THEN page[p].numSlots ELSE Min(EmptySlots(page[Max(had)]))

(***************************************************************************)
(* What the loop over the pages leaves: PFerrno, which it sets only if a   *)
(* call in it fails, the number of the last page it got, and the pages     *)
(* that are fixed, a page that has room among them.                        *)
(***************************************************************************)
LoopEnd(length) ==
    LET p    == IF Stops(length) = {} THEN numpages ELSE Min(Stops(length))
        code == PF_GetNextPage(p - 1)
    IN  IF code # PFE_OK THEN [errno |-> code, pagenum |-> p - 1, fixed |-> pinned]
                         ELSE [errno |-> PFerrno, pagenum |-> p, fixed |-> pinned \cup {p}]

(* The record goes into slot k of page p, of which pg is the content. *)
Insert(p, k, pg, data) ==
    /\ page' = [page EXCEPT ![p] = StoreRecord(pg, k, data)]
    /\ ReturnData(RME_OK, RM_PackRID(p, k), << >>)

(* The client follows RM in this: a record fits in an empty page.  Growth  *)
(* stops at the bound MaxPages.                                            *)
InsertInNewPage(o, data) ==
    /\ pinned' = o.fixed
    /\ \/ /\ Cardinality(o.fixed) < PF_MAX_BUFS
          /\ numpages < MaxPages
          /\ numpages' = numpages + 1
          /\ Insert(numpages, 0, RM_InitPage(page[numpages]), data)
          /\ PFerrno' = o.errno
       \/ /\ Cardinality(o.fixed) = PF_MAX_BUFS
          /\ PFerrno' = PFE_NOBUF
          /\ Return(PFE_NOBUF)
          /\ UNCHANGED <<numpages, page>>

RM_InsertRecord(d, length) ==
    /\ Idle
    /\ status = "open"
    /\ LET o       == LoopEnd(length)
           data    == [i \in 1 .. length |-> d]
           newPage == o.errno = PFE_EOF \/ o.pagenum = -1
       IN  \/ /\ newPage
              /\ InsertInNewPage(o, data)
           \/ /\ ~newPage
              /\ o.errno # PFE_OK
              /\ pinned' = o.fixed
              /\ PFerrno' = o.errno
              /\ Return(o.errno)
              /\ UNCHANGED <<numpages, page>>
           \/ /\ ~newPage
              /\ o.errno = PFE_OK
              /\ Insert(o.pagenum, TargetSlot(o.pagenum), page[o.pagenum], data)
              /\ UNCHANGED <<numpages, pinned, PFerrno>>
    /\ UNCHANGED <<status, scan>>

-----------------------------------------------------------------------------
(* The calls that take a RID.  Each unfixes the page it got. *)

(* The error of a call with rid, before the record is looked at. *)
RIDError(rid) ==
    LET code == PF_GetThisPage(PageOf(rid))
    IN  IF code = PFE_INVALIDPAGE THEN RME_INVALIDRID
        ELSE IF code # PFE_OK THEN code
        ELSE IF SlotOf(rid) \notin LiveSlots(page[PageOf(rid)]) THEN RME_INVALIDRID
        ELSE RME_OK

Refused(rid) ==
    /\ RIDError(rid) # RME_OK
    /\ Return(RIDError(rid))
    /\ PFerrno' = Errno(PF_GetThisPage(PageOf(rid)))
    /\ UNCHANGED <<file, pinned, scan>>

RM_DeleteRecord(rid) ==
    /\ Idle
    /\ status = "open"
    /\ \/ Refused(rid)
       \/ /\ RIDError(rid) = RME_OK
          /\ page' = [page EXCEPT ![PageOf(rid)] = EraseRecord(@, SlotOf(rid))]
          /\ Return(RME_OK)
          /\ UNCHANGED <<status, numpages, pinned, PFerrno, scan>>

RM_GetRecord(rid, bufSize) ==
    /\ Idle
    /\ status = "open"
    /\ \/ Refused(rid)
       \/ /\ RIDError(rid) = RME_OK
          /\ LET data == Record(page[PageOf(rid)], SlotOf(rid))
             IN  IF bufSize < Len(data) THEN Return(RME_BUFTOOSMALL)
                                        ELSE ReturnData(RME_OK, -1, data)
          /\ UNCHANGED <<file, pinned, PFerrno, scan>>

-----------------------------------------------------------------------------
(* Scans. *)

RM_OpenScan(s) ==
    /\ Idle
    /\ status = "open"
    /\ ~scan[s].used
    /\ scan' = [scan EXCEPT ![s] = NewScan(TRUE)]
    /\ Return(RME_OK)
    /\ UNCHANGED <<file, pinned, PFerrno>>

RM_GetNextRecord(s, bufSize) ==
    /\ Idle
    /\ status = "open"
    /\ scan[s].used
    /\ RetriesScans \/ ~scan[s].stuck
    /\ call' = [scan |-> s, bufSize |-> bufSize]
    /\ UNCHANGED <<file, pinned, PFerrno, scan, ret>>

(* Mutant of LeavePage: it is the page just got that is unfixed. *)
LeaveNewPage(p, errno, fixed) == pinned' = fixed \ {p + 1} /\ PFerrno' = errno

(* PF_UnfixPage of the page the scan comes from; its error goes unseen. *)
LeavePage(p, errno, fixed) ==
    IF p = -1
    THEN pinned' = fixed /\ PFerrno' = errno
    ELSE \E code \in PF_UnfixPage(p) :
           /\ pinned' = fixed \ {p}
           /\ PFerrno' = IF code < 0 THEN code ELSE errno

(* A turn of the loop that needs a page and does not get it. *)
NextPageFails ==
    /\ ~Idle
    /\ LET s    == call.scan
           p    == scan[s].currentPage
           code == PF_GetNextPage(p)
       IN  /\ ~scan[s].pageData
           /\ code # PFE_OK
           /\ LeavePage(p, code, pinned)
           /\ scan' = [scan EXCEPT ![s].stuck = TRUE]
           /\ Return(IF code = PFE_EOF THEN RME_EOF ELSE code)
           /\ UNCHANGED file

(* Mutant of LookAt: the record is returned whether or not it is deleted. *)
LookAtDeleted(s, p, k) ==
    \/ /\ k >= page[p].numSlots
       /\ scan' = [scan EXCEPT ![s].currentPage = p, ![s].currentSlot = k,
                               ![s].pageData = FALSE]
       /\ UNCHANGED <<call, ret>>
    \/ /\ k \in Slots(page[p])
       /\ scan' = [scan EXCEPT ![s].currentPage = p, ![s].currentSlot = k,
                               ![s].pageData = TRUE, ![s].told = RM_PackRID(p, k)]
       /\ ReturnData(RME_OK, RM_PackRID(p, k), Record(page[p], k))

(***************************************************************************)
(* A turn that looks at a slot: the first of the next page, which is fixed *)
(* before the last one is unfixed, or the one after the last slot.         *)
(***************************************************************************)
LookAt(s, p, k) ==
    \/ /\ k >= page[p].numSlots              \* no more slots in the page
       /\ scan' = [scan EXCEPT ![s].currentPage = p, ![s].currentSlot = k,
                               ![s].pageData = FALSE]
       /\ UNCHANGED <<call, ret>>
    \/ /\ k \in EmptySlots(page[p])
       /\ scan' = [scan EXCEPT ![s].currentPage = p, ![s].currentSlot = k,
                               ![s].pageData = TRUE]
       /\ UNCHANGED <<call, ret>>
    \/ /\ k \in LiveSlots(page[p])
       /\ call.bufSize < page[p].slot[k].recordLength
       /\ scan' = [scan EXCEPT ![s].currentPage = p, ![s].currentSlot = k,
                               ![s].pageData = TRUE, ![s].stuck = TRUE]
       /\ Return(RME_BUFTOOSMALL)
    \/ /\ k \in LiveSlots(page[p])
       /\ call.bufSize >= page[p].slot[k].recordLength
       /\ scan' = [scan EXCEPT ![s].currentPage = p, ![s].currentSlot = k,
                               ![s].pageData = TRUE, ![s].told = RM_PackRID(p, k)]
       /\ ReturnData(RME_OK, RM_PackRID(p, k), Record(page[p], k))

(* Mutant of NextPage: the slot is not set back. *)
NextPageSameSlot ==
    /\ ~Idle
    /\ LET s == call.scan
           p == scan[s].currentPage
       IN  /\ ~scan[s].pageData
           /\ PF_GetNextPage(p) = PFE_OK
           /\ LeavePage(p, PFerrno, pinned \cup {p + 1})
           /\ LookAt(s, p + 1, scan[s].currentSlot + 1)
    /\ UNCHANGED file

NextPage ==
    /\ ~Idle
    /\ LET s == call.scan
           p == scan[s].currentPage
       IN  /\ ~scan[s].pageData
           /\ PF_GetNextPage(p) = PFE_OK
           /\ LeavePage(p, PFerrno, pinned \cup {p + 1})
           /\ LookAt(s, p + 1, 0)
    /\ UNCHANGED file

(* Mutant of NextSlot: an empty slot is looked at again and again. *)
SameSlot ==
    /\ ~Idle
    /\ scan[call.scan].pageData
    /\ LookAt(call.scan, scan[call.scan].currentPage, Max({0, scan[call.scan].currentSlot}))
    /\ UNCHANGED <<file, pinned, PFerrno>>

NextSlot ==
    /\ ~Idle
    /\ scan[call.scan].pageData
    /\ LookAt(call.scan, scan[call.scan].currentPage, scan[call.scan].currentSlot + 1)
    /\ UNCHANGED <<file, pinned, PFerrno>>

RM_CloseScan(s) ==
    /\ Idle
    /\ status = "open"
    /\ scan[s].used
    /\ \/ /\ ~scan[s].pageData
          /\ scan' = [scan EXCEPT ![s] = NewScan(FALSE)]
          /\ Return(RME_OK)
          /\ UNCHANGED <<pinned, PFerrno>>
       \/ /\ scan[s].pageData
          /\ scan[s].currentPage \in pinned
          /\ pinned' = pinned \ {scan[s].currentPage}
          /\ scan' = [scan EXCEPT ![s] = NewScan(FALSE)]
          /\ Return(RME_OK)
          /\ UNCHANGED PFerrno
       \/ /\ scan[s].pageData
          /\ \E code \in PF_UnfixPage(scan[s].currentPage) \ {PFE_OK} :
               PFerrno' = code /\ Return(code)
          /\ UNCHANGED <<pinned, scan>>
    /\ UNCHANGED file

-----------------------------------------------------------------------------

RID == {RM_PackRID(p, k) : p \in PageNum, k \in 0 .. (RM_PAGE_SIZE - HeaderSize) \div SlotSize}

Loop == NextPageFails \/ NextPage \/ NextSlot

RMNext ==
    \/ RM_CreateFile \/ RM_DestroyFile \/ RM_OpenFile \/ RM_CloseFile
    \/ NewProcess
    \/ \E d \in Datum, length \in Lengths : RM_InsertRecord(d, length)
    \/ \E rid \in RID : RM_DeleteRecord(rid)
    \/ \E rid \in RID, bufSize \in BufSizes : RM_GetRecord(rid, bufSize)
    \/ \E s \in Scan : RM_OpenScan(s)
    \/ \E s \in Scan, bufSize \in BufSizes : RM_GetNextRecord(s, bufSize)
    \/ NextPageFails
    \/ NextPage
    \/ NextSlot
    \/ \E s \in Scan : RM_CloseScan(s)

RMSpec == RMInit /\ [][RMNext]_rmvars

(* A call that has begun goes on: the program has one thread. *)
RMFairSpec == RMSpec /\ WF_rmvars(Loop)
=============================================================================
