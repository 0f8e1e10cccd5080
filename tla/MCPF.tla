-------------------------------- MODULE MCPF --------------------------------
(* PFProps for TLC: values for its constants, and views of its states. *)
EXTENDS PFProps
CONSTANTS f1, f2, d1, junk, null
OneFile  == {f1}
TwoFiles == {f1, f2}
NoDatum  == {junk}
OneDatum == {junk, d1}
(***************************************************************************)
(* Views, that is, what later steps can depend on.  No step reads ret or   *)
(* PFerrno; of a frame that is not on the list only the data survives;     *)
(* nothing does of an entry of PFftab that is not in use; and with one     *)
(* buffer the two strategies choose the same victim.                       *)
(***************************************************************************)
WholeState == <<disk, PFftab, buf>>

(* The equality always holds: it has TLC put the values in normal form. *)
Memory ==
    << [f \in Frame |-> IF f \in Listed THEN buf.frame[f]
                                        ELSE buf.frame[f].fpage.data],
       [fd \in FD |->
          IF PFinvalidFd(fd) THEN NULL
          ELSE << PFftab[fd].fname, PFftab[fd].hdr, PFftab[fd].hdrchanged,
                  IF PF_MAX_BUFS > 1 THEN PFftab[fd].strategy ELSE NULL >>],
       buf.list, buf.free, buf.num, call, touched,
       WholeState = WholeState >>

DiskAndMemory == <<disk, Memory>>

(* Where a disciplined process never restarts, the disk's copy of a dirty  *)
(* page or of a changed header is not read again either.                   *)
Shadowed(fn, p) ==
    \E fd \in OpenOn(fn) :
      LET f == PFhashFind(buf, fd, p) IN f # NoFrame /\ buf.frame[f].dirty

Observable ==
    << [fn \in Fname |->
          << disk[fn].exists, disk[fn].len,
             IF \E fd \in OpenOn(fn) : PFftab[fd].hdrchanged THEN NULL ELSE disk[fn].hdr,
             [p \in PageNum |-> IF Shadowed(fn, p) THEN NULL ELSE disk[fn].page[p]] >>],
       Memory >>

LRU       == {"PF_LRU"}
LRUorMRU  == {"PF_LRU", "PF_MRU"}
NoFault   == {}
AllFaults == {"read", "write", "mem"}
=============================================================================
