----------------------------- MODULE PagedFile -----------------------------
(***************************************************************************)
(* What the paged-file interface (pflayer/pf.h) promises a client that     *)
(* follows its rules, with no buffers, no chain of free pages and no       *)
(* header: a file is a partial map from page numbers to contents, kept     *)
(* whether the file is open or not; pages are pinned and unpinned.  The    *)
(* pool shows through in one place only: at most PF_MAX_BUFS pages can be  *)
(* pinned at a time.                                                       *)
(***************************************************************************)
EXTENDS PFTypes

VARIABLES
    files,          \* the names that exist
    content,        \* content[fn][p]: what page p of fn holds, NULL if unused
    open,           \* open[fd]: the name fd was opened with, or NULL
    pinned,         \* the pages <<fd, p>> some client call has fixed
    ret             \* what the last call returned

pagedvars == <<files, content, open, pinned, ret>>

(* Errors a call may return without having done anything. *)
IOError == IF Faults = {} THEN {}
           ELSE {PFE_NOMEM, PFE_UNIX, PFE_INCOMPLETEREAD, PFE_INCOMPLETEWRITE,
                 PFE_HDRREAD, PFE_HDRWRITE}

NoPages == [p \in PageNum |-> NULL]

Returns(code, p) == ret' = [code |-> code, page |-> p]

(* The call fails with one of the codes, because of reason, and does nothing. *)
Refuse(codes, reason) ==
    /\ \E code \in codes : Returns(code, -1)
    /\ reason
    /\ UNCHANGED <<files, content, open, pinned>>

ContentOf(fd, p) == content[open[fd]][p]

Used(fd) == {p \in PageNum : ContentOf(fd, p) # NULL}

PagedInit ==
    /\ files = {}
    /\ content = [fn \in Fname |-> NoPages]
    /\ open = [fd \in FD |-> NULL]
    /\ pinned = {}
    /\ ret = [code |-> PFE_OK, page |-> -1]

(* Creating an existing name and destroying a missing or open one fail. *)
Create(fn) ==
    \/ /\ Returns(PFE_OK, -1)
       /\ fn \notin files
       /\ files' = files \cup {fn}
       /\ UNCHANGED <<content, open, pinned>>
    \/ Refuse({PFE_UNIX}, fn \in files)
    \/ Refuse(IOError, TRUE)

Destroy(fn) ==
    \/ /\ Returns(PFE_OK, -1)
       /\ fn \in files
       /\ \A fd \in FD : open[fd] # fn
       /\ files' = files \ {fn}
       /\ content' = [content EXCEPT ![fn] = NoPages]
       /\ UNCHANGED <<open, pinned>>
    \/ Refuse({PFE_FILEOPEN}, \E fd \in FD : open[fd] = fn)
    \/ Refuse({PFE_UNIX}, fn \notin files)

Open(fn) ==
    \/ \E fd \in FD :
         /\ Returns(fd, -1)
         /\ open[fd] = NULL
         /\ fn \in files
         /\ open' = [open EXCEPT ![fd] = fn]
         /\ UNCHANGED <<files, content, pinned>>
    \/ Refuse({PFE_FTABFULL}, \A fd \in FD : open[fd] # NULL)
    \/ Refuse({PFE_UNIX}, fn \notin files)
    \/ Refuse(IOError, TRUE)

IsOpen(fd) == open[fd] # NULL

(* A file closes exactly when none of its pages is pinned; its pages stay. *)
Close(fd) ==
    \/ /\ Returns(PFE_OK, -1)
       /\ IsOpen(fd)
       /\ \A p \in PageNum : <<fd, p>> \notin pinned
       /\ open' = [open EXCEPT ![fd] = NULL]
       /\ UNCHANGED <<files, content, pinned>>
    \/ Refuse({PFE_FD}, ~IsOpen(fd))
    \/ Refuse({PFE_PAGEFIXED}, \E p \in PageNum : <<fd, p>> \in pinned)
    \/ Refuse(IOError, IsOpen(fd))

(* A page that is not pinned needs a buffer, and the calls on it read it in. *)
NoRoom(fd, p) ==
    \/ Refuse({PFE_NOBUF}, /\ IsOpen(fd)
                           /\ <<fd, p>> \notin pinned
                           /\ Cardinality(pinned) = PF_MAX_BUFS)
    \/ Refuse(IOError, IsOpen(fd) /\ <<fd, p>> \notin pinned)

(* Getting page p of an open file; out is what the caller is told. *)
Pin(fd, p, out) ==
    \/ /\ Returns(PFE_OK, out)
       /\ p \in Used(fd)
       /\ <<fd, p>> \notin pinned
       /\ Cardinality(pinned) < PF_MAX_BUFS
       /\ pinned' = pinned \cup {<<fd, p>>}
       /\ UNCHANGED <<files, content, open>>
    \/ Refuse({PFE_PAGEFIXED}, <<fd, p>> \in pinned)

GetThis(fd, p) ==
    \/ IsOpen(fd) /\ Pin(fd, p, -1)
    \/ Refuse({PFE_FD}, ~IsOpen(fd))
    \/ Refuse({PFE_INVALIDPAGE}, IsOpen(fd) /\ p \notin Used(fd))
    \/ NoRoom(fd, p)

(* The first page in use after page q.  The scan reads the unused pages it *)
(* passes, so it can run out of buffers on any of them.                    *)
GetNext(fd, q) ==
    \/ \E p \in PageNum :
         /\ IsOpen(fd)
         /\ q < p
         /\ \/ Pin(fd, p, p) /\ \A r \in Used(fd) : r <= q \/ p <= r
            \/ NoRoom(fd, p) /\ \A r \in Used(fd) : r <= q \/ p <= r
    \/ Refuse({PFE_FD}, ~IsOpen(fd))
    \/ Refuse({PFE_EOF}, IsOpen(fd) /\ \A r \in Used(fd) : r <= q)
    \/ Refuse({PFE_INVALIDPAGE}, IsOpen(fd) /\ q \notin Used(fd))

(* A page that is not in use becomes so, with any content, and is pinned. *)
Alloc(fd) ==
    \/ \E p \in PageNum :
         /\ Returns(PFE_OK, p)
         /\ IsOpen(fd)
         /\ p \notin Used(fd)
         /\ Cardinality(pinned) < PF_MAX_BUFS
         /\ \E d \in Data : content' = [content EXCEPT ![open[fd]][p] = d]
         /\ pinned' = pinned \cup {<<fd, p>>}
         /\ UNCHANGED <<files, open>>
    \/ Refuse({PFE_FD}, ~IsOpen(fd))
    \/ \E p \in PageNum :
         /\ \/ Returns(PFE_NOBUF, p) /\ Cardinality(pinned) = PF_MAX_BUFS
            \/ \E code \in IOError : Returns(code, p)
         /\ IsOpen(fd)
         /\ p \notin Used(fd)
         /\ UNCHANGED <<files, content, open, pinned>>

Dispose(fd, p) ==
    \/ /\ Returns(PFE_OK, -1)
       /\ IsOpen(fd)
       /\ p \in Used(fd)
       /\ <<fd, p>> \notin pinned
       /\ Cardinality(pinned) < PF_MAX_BUFS
       /\ content' = [content EXCEPT ![open[fd]][p] = NULL]
       /\ UNCHANGED <<files, open, pinned>>
    \/ Refuse({PFE_FD}, ~IsOpen(fd))
    \/ Refuse({PFE_PAGEFIXED}, <<fd, p>> \in pinned)
    \/ Refuse({PFE_PAGEFREE, PFE_INVALIDPAGE}, IsOpen(fd) /\ p \notin Used(fd))
    \/ NoRoom(fd, p)

(* Unpinning and marking dirty want a pinned page of an open file. *)
NotPinned(fd, p) ==
    \/ Refuse({PFE_FD}, ~IsOpen(fd))
    \/ Refuse({PFE_INVALIDPAGE, PFE_PAGENOTINBUF, PFE_PAGEUNFIXED},
              IsOpen(fd) /\ <<fd, p>> \notin pinned)

Unpin(fd, p) ==
    \/ /\ Returns(PFE_OK, -1)
       /\ <<fd, p>> \in pinned
       /\ pinned' = pinned \ {<<fd, p>>}
       /\ UNCHANGED <<files, content, open>>
    \/ NotPinned(fd, p)

MarkDirty(fd, p) ==
    \/ Refuse({PFE_OK}, <<fd, p>> \in pinned)
    \/ NotPinned(fd, p)

Write(fd, p, d) ==
    /\ <<fd, p>> \in pinned
    /\ content' = [content EXCEPT ![open[fd]][p] = d]
    /\ UNCHANGED <<files, open, pinned, ret>>

PagedNext ==
    \/ \E fn \in Fname : Create(fn) \/ Destroy(fn) \/ Open(fn)
    \/ \E fd \in FD : Close(fd) \/ Alloc(fd)
    \/ \E fd \in FD, q \in -2 .. MaxPages : GetNext(fd, q)
    \/ \E fd \in FD, p \in PageNum :
         GetThis(fd, p) \/ Dispose(fd, p) \/ Unpin(fd, p) \/ MarkDirty(fd, p)
    \/ \E fd \in FD, p \in PageNum, d \in Data : Write(fd, p, d)

PagedSpec == PagedInit /\ [][PagedNext]_pagedvars
=============================================================================
