------------------------------ MODULE MCAMScan ------------------------------
(* AMScanProps for TLC: values for its constants, and a view of its states. *)
EXTENDS AMScanProps

Values4 == 1 .. 4
Recs5   == 11 .. 15
ValueOf5 == [r \in Recs5 |-> <<1, 2, 3, 3, 4>>[r - 10]]
AllOperators == {"ALL", "EQUAL", "LESS_THAN", "GREATER_THAN", "LESS_THAN_EQUAL",
                 "GREATER_THAN_EQUAL", "NOT_EQUAL", "other"}

(* What later steps depend on.  Of a leaf that is, while a client holds a  *)
(* scan, all of it, for the scan refers to cells; and else the lists, the  *)
(* cells taken and the free ones.  Of the stack, between calls, it is the  *)
(* length; of ret the record that a scan has told and that may be deleted. *)
LeafView(l) ==
    IF Held = {} /\ LeafSound(l)
    THEN <<l.nextLeafPage, Values(l), [i \in DOMAIN l.keys |-> RecIds(l, i)],
           l.recIdPtr, l.numinfreeList>>
    ELSE <<l>>

(* Of a scan it is what AM_FindNextEntry reads for the operator; nothing,  *)
(* when the scan can only be closed or is at its end.                      *)
ScanView(s) ==
    LET h     == scan[s]
        due   == IF h.op \in Promised THEN owed[s] ELSE {}
        place == <<h.status, h.nextpageNum, h.nextIndex, h.actindex, h.nextRecIdPtr, h.nextvalue>>
    IN  CASE s \notin Held \/ owed[s] = Lost -> <<owed[s], h.status = "FREE">>
          [] Over(h) -> <<due, h.op \in Promised>>
          [] h.op \in {"EQUAL", "NOT_EQUAL"} -> <<due, h.op, place, h.pageNum, h.index>>
          [] IsUpTo(h) -> <<h.op, place, h.lastpageNum, h.lastIndex>>
          [] OTHER -> <<due, ">", place>>

Observable ==
    <<status, numpages, pinned, others, IF Idle THEN <<Len(stack)>> ELSE stack, call,
      [p \in Pages |-> IF page[p].pageType = "l" THEN LeafView(page[p]) ELSE page[p]],
      [s \in Scan |-> ScanView(s)], behind,
      IF Cardinality(Held) = 1 /\ ret \in RecId THEN ret ELSE 0>>
=============================================================================
