-------------------------------- MODULE MCRM --------------------------------
(* RMProps for TLC: values for its constants, and a view of its states. *)
EXTENDS RMProps
CONSTANTS a, b, scrap, s1, s2
OneDatum == {a}
TwoData  == {a, b}
NoScan   == {}
TwoScans == {s1, s2}
One      == {1}
UpToOne  == {0, 1}
Two      == {2}
OneOrTwo == {1, 2}
UpToTwo  == {0, 1, 2}

(* What later steps depend on.  No step reads ret, nor of PFerrno more     *)
(* than whether it is PFE_OK, PFE_EOF or another code, which it returns;   *)
(* none reads the bytes of a page behind its last record, its slots beyond *)
(* the last, or the offset of an empty one.                                *)
Observable ==
    << status, numpages, pinned, scan, call,
       IF PFerrno \in {PFE_OK, PFE_EOF} THEN PFerrno ELSE 1,
       [p \in 0 .. numpages - 1 |->
          << page[p].freeSpaceOffset,
             [k \in Slots(page[p]) |-> IF k \in LiveSlots(page[p]) THEN page[p].slot[k] ELSE NoSlot],
             [i \in HeaderSize .. page[p].freeSpaceOffset - 1 |-> page[p].byte[i]] >>] >>
=============================================================================
