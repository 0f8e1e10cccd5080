---------------------------- MODULE AMScanProps ----------------------------
(***************************************************************************)
(* What scans of an index must guarantee, and the sense in which they      *)
(* implement IndexScans.                                                   *)
(***************************************************************************)
EXTENDS AMScan

(* The operators whose scans the code gets right in every tree. *)
Promised == {"ALL", "EQUAL", "GREATER_THAN", "GREATER_THAN_EQUAL"}

Handle ==
    [status      : {"FREE", "FIRST", "BUSY", "LAST", "OVER"},
     op          : Operators \cup {"ALL"},
     pageNum     : AM_NULL_PAGE .. MaxPages - 1, index     : 0 .. MaxCell + 1,
     nextpageNum : Unplaced .. MaxPages - 1,     nextIndex : 0 .. MaxCell + 1,
     actindex    : 0 .. MaxCell + 1,             nextRecIdPtr : CellPtr,
     nextvalue   : Value \cup {NoValue},
     lastpageNum : AM_NULL_PAGE .. MaxPages - 1, lastIndex : 0 .. MaxCell + 1]

(* Every variable has its type, and an entry of AM_scanTable that no       *)
(* client holds is free or was lost by an AM_OpenIndexScan that failed.    *)
AMScanTypeOK ==
    /\ scan \in [Scan -> Handle]
    /\ \A s \in Scan : owed[s] \in {NoScan, Lost} \/ owed[s] \subseteq RecId
    /\ indexed \subseteq RecId
    /\ DOMAIN behind = PageNum
    /\ \A s \in Scan : scan[s].status \in {"FREE", "FIRST"} \/ s \in Held

InUse == {s \in Held : owed[s] # Lost /\ scan[s].nextpageNum # Unplaced}

(***************************************************************************)
(* The records from the place of scan h on to the end of the leaves: those *)
(* of its list from the next cell on, and those of all greater values.     *)
(***************************************************************************)
Following(h) ==
    LET r      == Reached(h)
        leaves == ChainFrom(r.nextpageNum)
        value  == IF r.status = "FIRST" THEN WithValue(r).nextvalue ELSE r.nextvalue
        list   == ListFrom(page[r.nextpageNum], r.nextRecIdPtr)
        after(l) == UNION {Range(RecIds(page[l], i)) :
                             i \in {j \in DOMAIN page[l].keys : page[l].keys[j].value > value}}
    IN  IF Over(h) \/ page[r.nextpageNum].keys = << >> THEN {}
        ELSE {page[r.nextpageNum].recId[c] : c \in Range(list)}
             \cup IF h.op = "EQUAL" THEN {} ELSE UNION {after(l) : l \in Range(leaves)}

(* What a scan will come to from its place is at all times what it owes,   *)
(* though the client has deleted what it was told and emptied leaves, and  *)
(* entries have moved under the place (amscan.c:324, 391).                 *)
AheadIsOwed ==
    \A s \in InUse : scan[s].op \in Promised => Following(scan[s]) = owed[s]

(* The operators whose scans may not end.  With LESS_THAN_EQUAL and the    *)
(* greatest value amscan.c:461 puts LAST over the OVER of amscan.c:431;    *)
(* with NOT_EQUAL and the last value of a leaf amscan.c:397 takes the step *)
(* to the next leaf for a deletion, and the place becomes entry 0 there.   *)
(* The next call reads bytes that are no record (Scrap), not AME_EOF.      *)
Endless == {"LESS_THAN_EQUAL", "NOT_EQUAL"}

(* For any operator, a call of AM_FindNextEntry that tells a record tells  *)
(* one that is ahead of the scan's place and leaves it behind, and no      *)
(* deletion takes a scan back: no record is told twice (amscan.c:417-448). *)
(* And but for the Endless, a call tells a record or AME_EOF or fails, so  *)
(* that the client's loop ends: LESS_THAN, which stops at a wrong place at *)
(* times, included.                                                        *)
ScansMoveOn ==
    [][\A s \in InUse :
          /\ s \in InUse' /\ page' # page => Following(scan[s])' \subseteq Following(scan[s])
          /\ s \in InUse' /\ scan'[s] # scan[s] /\ ret' \in RecId =>
               /\ ret' \in Following(scan[s])
               /\ Following(scan'[s]) \subseteq Following(scan[s]) \ {ret'}
          /\ owed'[s] = Lost => ret' = AME_PF \/ scan[s].op \in Endless]_allvars

IndexScansOf == INSTANCE IndexScans WITH
    records   <- indexed,
    due       <- [s \in Scan |-> IF s \in Held /\ scan[s].op \notin Promised THEN Lost
                                 ELSE owed[s]],
    ret       <- IF Idle THEN ret ELSE AME_OK,
    NoPromise <- Lost

(* The scans over the tree implement IndexScans: each record that meets    *)
(* the comparison once and in order, across leaves, splits before the scan *)
(* and deletions during it.                                                *)
ImplementsIndexScans == IndexScansOf!IndexScansSpec
=============================================================================
