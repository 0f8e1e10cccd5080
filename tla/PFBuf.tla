------------------------------- MODULE PFBuf -------------------------------
(***************************************************************************)
(* The buffer manager, pflayer/buf.c, with the hash table of hash.c seen   *)
(* as the map it implements (the module PFHash has its chains).            *)
(*                                                                         *)
(* buf is the state of the buffer manager:                                 *)
(*   list   frames in the pool, head (most recently used) first            *)
(*   free   the stack of released frames                                   *)
(*   num    frames obtained from malloc so far (PFnumbpage)                *)
(*   frame  the contents of each frame                                     *)
(*   hash   <<fd, page>> -> the frame that holds it, or NoFrame            *)
(*                                                                         *)
(* A routine of buf.c is an operator whose value is the set of its         *)
(* possible outcomes [buf, disk, err]: a singleton unless a system call    *)
(* may fail.  The caller's action picks one of them.                       *)
(***************************************************************************)
EXTENDS PFTypes, SequencesExt

VARIABLES
    disk,           \* [Fname -> File]
    PFftab,         \* [FD -> PFftab_ele], the table of open files
    buf

InitFrame == [fd |-> 0, page |-> 0, dirty |-> FALSE, fixed |-> FALSE,
              fpage |-> ZeroPage]

PFbufInit(bufsize) == [list  |-> << >>,
                       free  |-> << >>,
                       num   |-> 0,
                       frame |-> [f \in 1 .. bufsize |-> InitFrame],
                       hash  |-> [fp \in FD \X PageNum |-> NoFrame]]

BufType ==
    [list  : Seq(Frame),
     free  : Seq(Frame),
     num   : 0 .. PF_MAX_BUFS,
     frame : [Frame -> PFbpage],
     hash  : [FD \X PageNum -> Frame \cup {NoFrame}]]

Outcome(b, d, e) == [buf |-> b, disk |-> d, err |-> e]

-----------------------------------------------------------------------------
(* hash.c *)

PFhashFind(b, fd, p) ==
    IF <<fd, p>> \in FD \X PageNum THEN b.hash[<<fd, p>>] ELSE NoFrame

PFhashInsert(b, fd, p, f) == [b EXCEPT !.hash[<<fd, p>>] = f]

PFhashDelete(b, fd, p) == [b EXCEPT !.hash[<<fd, p>>] = NoFrame]

-----------------------------------------------------------------------------
(* The doubly linked list of frames and the list of free frames. *)

PFbufLinkHead(b, f) == [b EXCEPT !.list = <<f>> \o @]

Position(s, f) == CHOOSE i \in 1 .. Len(s) : s[i] = f

PFbufUnlink(b, f) == [b EXCEPT !.list = RemoveAt(@, Position(@, f))]

PFbufInsertFree(b, f) == [b EXCEPT !.free = <<f>> \o @]

-----------------------------------------------------------------------------
(* The Unix calls below the buffer manager. *)

(* write(2) of page p; a hole it leaves behind reads as zeroes. *)
Put(d, fname, p, fp) ==
    [d EXCEPT ![fname].page[p] = fp,
              ![fname].len = IF @ > p THEN @ ELSE p + 1]

(* What became of the disk, and the code returned.  A short write leaves a torn page. *)
PFwritefcn(d, fname, p, fp) ==
    {[disk |-> Put(d, fname, p, fp), err |-> PFE_OK]}
    \cup IF "write" \in Faults
         THEN {[disk |-> d, err |-> PFE_UNIX],
               [disk |-> Put(d, fname, p, [fp EXCEPT !.data = Junk]),
                err  |-> PFE_INCOMPLETEWRITE]}
         ELSE {}

(* What the frame holds after the read, and the code returned. *)
PFreadfcn(d, fname, p, old) ==
    IF p \notin PageNum        \* lseek to a negative offset
    THEN {[fpage |-> old, err |-> PFE_UNIX]}
    ELSE IF p >= d[fname].len
         THEN {[fpage |-> old, err |-> PFE_INCOMPLETEREAD]}
         ELSE {[fpage |-> d[fname].page[p], err |-> PFE_OK]}
              \cup IF "read" \in Faults
                   THEN {[fpage |-> old, err |-> PFE_UNIX]}
                   ELSE {}

-----------------------------------------------------------------------------
(* Finding a frame for a new page. *)

(* Mutant of Unfixed: the search for a victim does not look at the pins. *)
UnfixedAnyFrame(b) == 1 .. Len(b.list)

Unfixed(b) == {i \in 1 .. Len(b.list) : ~b.frame[b.list[i]].fixed}

(* The place of the victim, if there is one.  The strategy is that of the  *)
(* file that ASKS for the frame, not of the file that loses it.            *)
Victim(b, strategy) ==
    {i \in Unfixed(b) : IF strategy = "PF_LRU" THEN \A j \in Unfixed(b) : j <= i
                                               ELSE \A j \in Unfixed(b) : i <= j}

(* Mutant of Evict: PFhashDelete is forgotten. *)
EvictKeepsEntry(b, f) == PFbufUnlink([b EXCEPT !.frame[f].dirty = FALSE], f)

(* Taking frame f out of the page it holds, its contents being on disk. *)
Evict(b, f) ==
    LET old == b.frame[f]
    IN  PFbufUnlink(PFhashDelete([b EXCEPT !.frame[f].dirty = FALSE],
                                 old.fd, old.page), f)

(* Frame f written out if it is dirty: what became of the disk. *)
Flush(f) ==
    LET v == buf.frame[f]
    IN  IF v.dirty THEN PFwritefcn(disk, PFftab[v.fd].fname, v.page, v.fpage)
                   ELSE {[disk |-> disk, err |-> PFE_OK]}

(* Frame f, on no list, goes to the head of the list of b. *)
Linked(b, d, f) == Outcome(PFbufLinkHead(b, f), d, PFE_OK)

(* PFbufInternalAlloc: a released frame, else a new one, else the victim. *)
PFbufInternalAlloc(fd) ==
    IF buf.free # << >>
    THEN {Linked([buf EXCEPT !.free = Tail(@)], disk, Head(buf.free))}
    ELSE IF buf.num < PF_MAX_BUFS
    THEN {Linked([buf EXCEPT !.num = @ + 1], disk, buf.num + 1)}
         \cup IF "mem" \in Faults THEN {Outcome(buf, disk, PFE_NOMEM)} ELSE {}
    ELSE IF Unfixed(buf) = {}
    THEN {Outcome(buf, disk, PFE_NOBUF)}
    ELSE UNION {{IF w.err = PFE_OK
                 THEN Linked(Evict(buf, buf.list[i]), w.disk, buf.list[i])
                 ELSE Outcome(buf, w.disk, w.err) : w \in Flush(buf.list[i])} :
                   i \in Victim(buf, PFftab[fd].strategy)}

(* Mutant of Abandon: unlinked, but not put on the free list. *)
AbandonLoses(b) == PFbufUnlink(b, Head(b.list))

(* The frame at the head of the list is given back. *)
Abandon(b) == PFbufInsertFree(PFbufUnlink(b, Head(b.list)), Head(b.list))

(* No memory for the hash entry: the frame is given back as it is by then. *)
GiveBack(b, frame) == Abandon([b EXCEPT !.frame[Head(b.list)].fpage = frame.fpage])

(* The frame at the head of the list is entered in the hash table as the   *)
(* holder of <<fd, p>>, and filled in.                                     *)
Enter(o, fd, p, frame) ==
    {Outcome([PFhashInsert(o.buf, fd, p, Head(o.buf.list))
                EXCEPT !.frame[Head(o.buf.list)] = frame], o.disk, PFE_OK)}
    \cup IF "mem" \in Faults
         THEN {Outcome(GiveBack(o.buf, frame), o.disk, PFE_NOMEM)}
         ELSE {}

-----------------------------------------------------------------------------
(* The routines pf.c calls. *)

(* The page of fd is not in the pool: claim a frame, then read into it. *)
Fetch(o, fd, p) ==
    UNION {IF r.err # PFE_OK
           THEN {Outcome(Abandon(o.buf), o.disk, r.err)}
           ELSE Enter(o, fd, p, [fd |-> fd, page |-> p, dirty |-> FALSE,
                                 fixed |-> TRUE, fpage |-> r.fpage]) :
             r \in PFreadfcn(o.disk, PFftab[fd].fname, p,
                             o.buf.frame[Head(o.buf.list)].fpage)}

PFbufGet(fd, p) ==
    LET f == PFhashFind(buf, fd, p)
    IN  IF f = NoFrame
        THEN UNION {IF o.err # PFE_OK THEN {o} ELSE Fetch(o, fd, p) :
                      o \in PFbufInternalAlloc(fd)}
        ELSE IF buf.frame[f].fixed
        THEN {Outcome(buf, disk, PFE_PAGEFIXED)}
        ELSE {Outcome([buf EXCEPT !.frame[f].fixed = TRUE], disk, PFE_OK)}

(* A brand-new page: nothing to read, the frame keeps what it held. *)
PFbufAlloc(fd, p) ==
    IF PFhashFind(buf, fd, p) # NoFrame
    THEN {Outcome(buf, disk, PFE_PAGEINBUF)}
    ELSE UNION {IF o.err # PFE_OK
                THEN {o}
                ELSE Enter(o, fd, p,
                           [fd |-> fd, page |-> p, dirty |-> FALSE, fixed |-> TRUE,
                            fpage |-> o.buf.frame[Head(o.buf.list)].fpage]) :
                  o \in PFbufInternalAlloc(fd)}

(* The error of a routine that wants the page fixed in the pool. *)
NotFixed(b, fd, p) ==
    IF PFhashFind(b, fd, p) = NoFrame THEN PFE_PAGENOTINBUF
    ELSE IF ~b.frame[PFhashFind(b, fd, p)].fixed THEN PFE_PAGEUNFIXED
    ELSE PFE_OK

(* Mutant of PFbufUnfix: unfixing a page as clean forgets it was dirty. *)
PFbufUnfixForgets(b, fd, p, dirty) ==
    LET f == PFhashFind(b, fd, p)
    IN  PFbufLinkHead(
          PFbufUnlink([b EXCEPT !.frame[f].dirty = dirty,
                                !.frame[f].fixed = FALSE], f), f)

(* The three routines below are used where NotFixed(b, fd, p) = PFE_OK. *)
PFbufUnfix(b, fd, p, dirty) ==
    LET f == PFhashFind(b, fd, p)
    IN  PFbufLinkHead(
          PFbufUnlink([b EXCEPT !.frame[f].dirty = @ \/ dirty,
                                !.frame[f].fixed = FALSE], f), f)

PFbufUsed(b, fd, p) == [b EXCEPT !.frame[PFhashFind(b, fd, p)].dirty = TRUE]

PFbufMarkDirty(b, fd, p) == [b EXCEPT !.frame[PFhashFind(b, fd, p)].dirty = TRUE]

(* Mutant of ReleaseFrame: the page is dropped whether it was written or not. *)
ReleaseFrameAnyway(f) ==
    {Outcome(PFbufInsertFree(Evict(buf, f), f), w.disk, w.err) : w \in Flush(f)}

(***************************************************************************)
(* One turn of the loop of PFbufReleaseFile, for a frame f of fd that is   *)
(* not fixed: write it if dirty, forget it, put it on the free list.       *)
(***************************************************************************)
ReleaseFrame(f) ==
    {IF w.err = PFE_OK
     THEN Outcome(PFbufInsertFree(Evict(buf, f), f), w.disk, PFE_OK)
     ELSE Outcome(buf, w.disk, w.err) : w \in Flush(f)}
=============================================================================
