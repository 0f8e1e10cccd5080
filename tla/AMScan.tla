------------------------------- MODULE AMScan -------------------------------
(***************************************************************************)
(* Scans of an index, amscan.c: AM_OpenIndexScan, AM_FindNextEntry and     *)
(* AM_CloseIndexScan over the leaves of AM.  A scan keeps a page number,   *)
(* an index in the page and a record's cell between its calls, and no page *)
(* fixed.                                                                  *)
(*                                                                         *)
(* Clients change the index while they hold no scan, with one exception    *)
(* that the code provides for: the record that a scan has just told them   *)
(* they may delete, if it is the only scan they hold.                      *)
(***************************************************************************)
EXTENDS AMProps

CONSTANTS
    MAXSCANS,     \* entries of AM_scanTable
    Operators,    \* the operators clients open scans with
    ValueOf,      \* the attribute's value in each record
    NoValue,      \* the value of what is no entry of a leaf
    NoScan, Lost  \* what owed says of a scan that no client holds, and of one
                  \* that failed or read what is no entry

ASSUME AMScanAssumption ==
    /\ MAXSCANS \in Nat \ {0}
    /\ Operators \subseteq {"ALL", "EQUAL", "LESS_THAN", "GREATER_THAN", "LESS_THAN_EQUAL",
                            "GREATER_THAN_EQUAL", "NOT_EQUAL", "other"}
    /\ ValueOf \in [RecId -> Value]
    /\ RecId \subseteq Nat \ {0}
    /\ \A s \in 0 .. MAXSCANS - 1 : s \notin RecId   \* ret tells them apart
    /\ NoValue \notin Value
    /\ NoScan # Lost /\ \A due \in SUBSET RecId : due \notin {NoScan, Lost}

VARIABLES
    scan,      \* AM_scanTable
    behind,    \* what a deletion has left behind the last key of a leaf
    indexed,   \* history: the records in the leaves
    owed       \* history: the records a scan has still to tell its client

scanvars == <<scan, behind, indexed, owed>>
allvars  == <<amvars, scanvars>>

Scan == 0 .. MAXSCANS - 1

AME_INVALID_OP_TO_SCAN == -6
AME_EOF                == -7
AME_SCAN_TAB_FULL      == -8

(* The bytes of something else, read as an entry of a leaf; and what a call *)
(* makes of them, or of a place that the scan has not been given.          *)
NoEntry  == [value |-> NoValue, head |-> AM_NULL]
Scrap    == -99
Unplaced == -2

FreeHandle ==
    [status |-> "FREE", op |-> "ALL", pageNum |-> AM_NULL_PAGE, index |-> 0, actindex |-> 0,
     nextpageNum |-> Unplaced, nextvalue |-> NoValue, nextIndex |-> 0,
     nextRecIdPtr |-> AM_NULL, lastpageNum |-> AM_NULL_PAGE, lastIndex |-> 0]

ScanInit ==
    /\ AMInit
    /\ scan = [s \in Scan |-> FreeHandle]
    /\ behind = [p \in PageNum |-> NoEntry]
    /\ indexed = {}
    /\ owed = [s \in Scan |-> NoScan]

Held == {s \in Scan : owed[s] # NoScan}

(* The records in leaf p; and in the index. *)
RecordsOf(p) == UNION {Range(RecIds(page[p], i)) : i \in DOMAIN page[p].keys}

Indexed == UNION {RecordsOf(p) : p \in Range(Chain)}

Satisfies(w, op, v) ==
    \/ op = "ALL"
    \/ op \in {"EQUAL", "LESS_THAN_EQUAL", "GREATER_THAN_EQUAL"} /\ w = v
    \/ op \in {"LESS_THAN", "LESS_THAN_EQUAL", "NOT_EQUAL"} /\ w < v
    \/ op \in {"GREATER_THAN", "GREATER_THAN_EQUAL", "NOT_EQUAL"} /\ w > v

-----------------------------------------------------------------------------
(* Places in the leaves. *)

(* The i-th entry of leaf p, or the bytes there. *)
Slot(p, i) ==
    IF i \in DOMAIN page[p].keys THEN page[p].keys[i]
    ELSE IF i = Len(page[p].keys) + 1 THEN behind[p] ELSE NoEntry

NextLeaf(p) == page[p].nextLeafPage
LastKey(p)  == Len(page[p].keys)

(* The scan's place is entry i of leaf p; and its record the first of that. *)
Moved(h, p, i) == [h EXCEPT !.nextpageNum = p, !.nextIndex = i, !.actindex = i]

AtFirst(h) == [h EXCEPT !.nextRecIdPtr = Slot(h.nextpageNum, h.nextIndex).head]

AtEntry(h, p, i) == AtFirst(Moved(h, p, i))

(* The next entry of the same leaf.  After deletions actindex is where the *)
(* entry was when the scan was opened.                                     *)
NextEntry(h) == AtFirst([h EXCEPT !.nextIndex = @ + 1, !.actindex = @ + 1])

WithValue(h) == [h EXCEPT !.nextvalue = Slot(h.nextpageNum, h.nextIndex).value]

-----------------------------------------------------------------------------
(* AM_OpenIndexScan. *)

(***************************************************************************)
(* The handle of a scan when the search for v has found, or not, entry i   *)
(* of leaf p.  If it is behind the last entry of p there is no next leaf.  *)
(* NOT_EQUAL for a value that is not there leaves the place as the table's *)
(* entry had it, from an earlier scan or none.                             *)
(***************************************************************************)
Opened(op, p, i, found) ==
    LET pageNum  == IF i > LastKey(p) THEN AM_NULL_PAGE ELSE p
        h        == [FreeHandle EXCEPT !.status = "FIRST", !.op = op,
                                       !.pageNum = pageNum, !.index = i]
        over     == [h EXCEPT !.status = "OVER"]
        here     == IF pageNum = p THEN AtEntry(h, p, i) ELSE Moved(h, pageNum, i)
        leftmost == AtEntry(h, LeftPageNum, 1)
        upTo(n)  == [leftmost EXCEPT !.lastpageNum = pageNum, !.lastIndex = n]
    IN  CASE op = "EQUAL" -> IF found THEN here ELSE over
          [] op = "LESS_THAN" -> upTo(i - 1)
          [] op = "LESS_THAN_EQUAL" -> upTo(IF found THEN i ELSE i - 1)
          [] op = "GREATER_THAN_EQUAL" -> here
          [] op = "GREATER_THAN" ->
               IF ~found THEN here
               ELSE IF i < LastKey(p) THEN AtEntry(h, p, i + 1)
               ELSE IF NextLeaf(p) # AM_NULL_PAGE THEN AtEntry(h, NextLeaf(p), 1)
               ELSE over
          [] op = "NOT_EQUAL" -> IF found THEN leftmost ELSE [h EXCEPT !.pageNum = AM_NULL_PAGE]

(* The page it gets beside the leaf p that the search has left fixed. *)
SecondPage(op, p, i, found) ==
    IF i > LastKey(p) /\ NextLeaf(p) # AM_NULL_PAGE THEN {NextLeaf(p)}
    ELSE IF \/ op \in {"LESS_THAN", "LESS_THAN_EQUAL"}
            \/ op = "NOT_EQUAL" /\ found
    THEN {LeftPageNum} \ {p}
    ELSE IF op = "GREATER_THAN" /\ found /\ i = LastKey(p)
    THEN {NextLeaf(p)} \ {AM_NULL_PAGE}
    ELSE {}

(* The scan is the client's, with its handle and the records it owes. *)
Hold(s, h, op, v) ==
    /\ scan' = [scan EXCEPT ![s] = h]
    /\ owed' = [owed EXCEPT ![s] = {r \in indexed : Satisfies(ValueOf[r], op, v)}]

(* It fails, and the entry of the table is never free again. *)
Leak(s) ==
    /\ scan' = [scan EXCEPT ![s].status = "FIRST"]
    /\ Return(AME_PF)
    /\ UNCHANGED owed

OpenAll(s, v) ==
    /\ \/ /\ ~PoolIsFull(pinned) /\ {AM_RootPageNum, LeftPageNum} \cap pinned = {}
          /\ Hold(s, AtEntry([FreeHandle EXCEPT !.status = "FIRST"], LeftPageNum, 1), "ALL", v)
          /\ Return(s)
       \/ /\ PoolIsFull(pinned) \/ {AM_RootPageNum, LeftPageNum} \cap pinned # {}
          /\ Leak(s)
    /\ UNCHANGED <<pinned, stack>>

OpenSearchFails(v) ==
    /\ SearchFails(v, TRUE)
    /\ stack' = Pushed(PathTo(v), v)
    /\ UNCHANGED <<scan, owed>>

(* v would be behind the last entry of p, which is not the last leaf.  The *)
(* next leaf is fixed, its header read, and then the leaf after that one   *)
(* unfixed, which is not fixed: both stay.  (If it is, by a call that      *)
(* failed, clients do not search for such a value.)                        *)
OpenBetween(s, p, i) ==
    /\ i > LastKey(p) /\ NextLeaf(p) # AM_NULL_PAGE
    /\ NextLeaf(NextLeaf(p)) \notin pinned
    /\ pinned' = pinned \cup {p} \cup (IF PoolIsFull(pinned \cup {p}) THEN {} ELSE {NextLeaf(p)})
    /\ Leak(s)

(* The second page cannot be got, and the leaf stays fixed. *)
OpenStarves(s, op, p, i, found) ==
    /\ i <= LastKey(p) \/ NextLeaf(p) = AM_NULL_PAGE
    /\ SecondPage(op, p, i, found) # {}
    /\ PoolIsFull(pinned \cup {p}) \/ SecondPage(op, p, i, found) \subseteq pinned
    /\ pinned' = pinned \cup {p}
    /\ Leak(s)

(* No operator of am.h: the leaf stays fixed. *)
OpenInvalid(op, p, i) ==
    /\ i <= LastKey(p) \/ NextLeaf(p) = AM_NULL_PAGE
    /\ op = "other"
    /\ pinned' = pinned \cup {p}
    /\ Return(AME_INVALID_OP_TO_SCAN)
    /\ UNCHANGED <<scan, owed>>

OpenFound(s, op, v, p, i, found) ==
    /\ i <= LastKey(p) \/ NextLeaf(p) = AM_NULL_PAGE
    /\ op # "other"
    /\ \/ SecondPage(op, p, i, found) = {}
       \/ ~PoolIsFull(pinned \cup {p}) /\ SecondPage(op, p, i, found) \cap pinned = {}
    /\ Hold(s, Opened(op, p, i, found), op, v)
    /\ Return(s)
    /\ UNCHANGED pinned

OpenAt(s, op, v) ==
    LET p     == Last(PathTo(v))
        i     == AM_SearchLeaf(Values(page[p]), v)
        found == Found(Values(page[p]), v)
    IN  /\ Got(PathTo(v)) = Len(PathTo(v))
        /\ \/ OpenBetween(s, p, i)
           \/ OpenStarves(s, op, p, i, found)
           \/ OpenInvalid(op, p, i)
           \/ OpenFound(s, op, v, p, i, found)
        /\ stack' = Pushed(PathTo(v), v)

OpenFree(s, op, v) ==
    \/ op = "ALL" /\ OpenAll(s, v)
    \/ op # "ALL" /\ OpenSearchFails(v)
    \/ op # "ALL" /\ OpenAt(s, op, v)

(* Clients give the right attrLength. *)
AM_OpenIndexScan ==
    LET free == {s \in Scan : scan[s].status = "FREE"}
    IN  /\ MaySearch(TRUE)
        /\ \/ /\ free = {}
              /\ Return(AME_SCAN_TAB_FULL)
              /\ UNCHANGED <<pinned, stack, scan, owed>>
           \/ /\ free # {}
              /\ \E op \in Operators, v \in Value : OpenFree(Min(free), op, v)
        /\ UNCHANGED <<file, others, behind, indexed>>

-----------------------------------------------------------------------------
(* AM_FindNextEntry, the parts that move the place. *)

(* The leaves it gets to be at one that is not empty, or at the last. *)
Passed(h) ==
    LET leaves == ChainFrom(h.nextpageNum)
        full   == {k \in DOMAIN leaves : page[leaves[k]].keys # << >>}
    IN  SubSeq(leaves, 1, Min(full \cup {Len(leaves)}))

(* Mutant of Reached: the status is not FIRST again. *)
ReachedBusy(h) ==
    LET p == Last(Passed(h))
    IN  IF p = h.nextpageNum THEN h ELSE AtEntry(h, p, 1)

(* The place is the first entry there. *)
Reached(h) ==
    LET p == Last(Passed(h))
    IN  IF p = h.nextpageNum THEN h ELSE [AtEntry(h, p, 1) EXCEPT !.status = "FIRST"]

IsUpTo(h) == h.op \in {"LESS_THAN", "LESS_THAN_EQUAL"}

Overshot(h) == IsUpTo(h) /\ h.lastpageNum <= h.nextpageNum /\ h.lastIndex = 0

(* The place is that of the value a scan for NOT_EQUAL leaves out. *)
IsLeftOut(h) ==
    h.op = "NOT_EQUAL" /\ h.pageNum = h.nextpageNum /\ h.index = h.actindex

(* The place after it; the next leaf, if it was the last entry of its own. *)
LeftOut(h) ==
    IF h.nextIndex < LastKey(h.nextpageNum) THEN NextEntry(h)
    ELSE AtEntry(h, NextLeaf(h.nextpageNum), 1)

(* Mutant of Settled: it does not look whether the last record is there. *)
SettledBlindly(h) ==
    IF h.status = "FIRST" THEN WithValue([h EXCEPT !.status = "BUSY"]) ELSE h

(* If the entry at the place has changed, the one before it was deleted. *)
Settled(h) ==
    IF h.status = "FIRST" THEN WithValue([h EXCEPT !.status = "BUSY"])
    ELSE IF Slot(h.nextpageNum, h.nextIndex).value # h.nextvalue
    THEN AtFirst([h EXCEPT !.nextIndex = @ - 1])
    ELSE h

(* Mutant of Advanced: the value of the place stays the last one's. *)
AdvancedKeepsValue(h) ==
    LET p    == h.nextpageNum
        next == page[p].link[h.nextRecIdPtr]
    IN  IF next # AM_NULL THEN [h EXCEPT !.nextRecIdPtr = next]
        ELSE IF h.nextIndex < LastKey(p) THEN NextEntry(h)
        ELSE IF NextLeaf(p) # AM_NULL_PAGE THEN AtEntry(h, NextLeaf(p), 1)
        ELSE [h EXCEPT !.nextRecIdPtr = AM_NULL, !.status = "OVER"]

(* The place after the record has been read: the next record of the entry, *)
(* or the next entry, or the next leaf, or none.                           *)
Advanced(h) ==
    LET p    == h.nextpageNum
        next == page[p].link[h.nextRecIdPtr]
    IN  IF next # AM_NULL THEN [h EXCEPT !.nextRecIdPtr = next]
        ELSE IF h.nextIndex < LastKey(p) THEN WithValue(NextEntry(h))
        ELSE IF NextLeaf(p) # AM_NULL_PAGE THEN WithValue(AtEntry(h, NextLeaf(p), 1))
        ELSE [h EXCEPT !.nextRecIdPtr = AM_NULL, !.status = "OVER"]

(* The scan's status when the place is known to be behind its last record. *)
Ended(h) ==
    IF h.op = "EQUAL" /\ (h.pageNum # h.nextpageNum \/ h.index # h.actindex)
    THEN [h EXCEPT !.status = "OVER"]
    ELSE IF ~IsUpTo(h) THEN h
    ELSE IF h.lastpageNum = h.nextpageNum /\ h.lastIndex = h.actindex
    THEN [h EXCEPT !.status = "LAST"]
    ELSE IF \/ h.lastpageNum = h.nextpageNum /\ h.lastIndex < h.actindex
            \/ h.status = "LAST"
    THEN [h EXCEPT !.status = "OVER"]
    ELSE h

-----------------------------------------------------------------------------
(* AM_FindNextEntry.  h is the scan's handle, r the one at a leaf that is  *)
(* not empty, q the one at the entry whose record is told.                 *)

Over(h) == h.status = "OVER" \/ h.nextpageNum = AM_NULL_PAGE

(* There is no such entry, or the bytes of one without records. *)
Astray(h) == h.nextRecIdPtr = AM_NULL \/ Slot(h.nextpageNum, h.nextIndex) = NoEntry

EndOfScan(s, h) ==
    /\ scan' = [scan EXCEPT ![s] = h]
    /\ Return(AME_EOF)
    /\ UNCHANGED owed

(* The first page cannot be got, and nothing has changed. *)
NextStarves(p) ==
    /\ PoolIsFull(pinned) \/ p \in pinned
    /\ Return(AME_PF)
    /\ UNCHANGED <<scan, owed>>

(* A later page is fixed: the place is there or before it, and a record    *)
(* that has been read is not told.                                         *)
NextFails(s, h, later) ==
    /\ later \cap pinned # {}
    /\ scan' = [scan EXCEPT ![s] = h]
    /\ owed' = [owed EXCEPT ![s] = Lost]
    /\ Return(AME_PF)

NextTells(s, q) ==
    LET rid == page[q.nextpageNum].recId[q.nextRecIdPtr]
    IN  /\ scan' = [scan EXCEPT ![s] = Ended(Advanced(q))]
        /\ owed' = [owed EXCEPT ![s] = @ \ {rid}]
        /\ Return(rid)

(* What it reads is no record, and neither is what it would read next. *)
NextIsScrap(s) ==
    /\ Return(Scrap)
    /\ owed' = [owed EXCEPT ![s] = Lost]
    /\ UNCHANGED scan

(* At the entry at.  What AM_FindNextEntry has read when it cannot get the *)
(* next leaf is not told.                                                  *)
NextFound(s, at) ==
    LET q == Settled(at)
    IN  \/ (Astray(at) \/ Astray(q)) /\ NextIsScrap(s)
        \/ /\ ~Astray(at) /\ ~Astray(q)
           /\ \/ NextFails(s, q, {Advanced(q).nextpageNum})
              \/ Advanced(q).nextpageNum \notin pinned /\ NextTells(s, q)

(* At a leaf with entries: the one that NOT_EQUAL leaves out is passed. *)
NextAt(s, r) ==
    LET atEnd == r.nextIndex >= LastKey(r.nextpageNum)
        last  == atEnd /\ NextLeaf(r.nextpageNum) = AM_NULL_PAGE
    IN  \/ ~IsLeftOut(r) /\ NextFound(s, r)
        \/ IsLeftOut(r) /\ last /\ EndOfScan(s, r)
        \/ /\ IsLeftOut(r) /\ ~last
           /\ \/ NextFails(s, r, {LeftOut(r).nextpageNum})
              \/ LeftOut(r).nextpageNum \notin pinned /\ NextFound(s, LeftOut(r))

(* The place's page is got, and those after it up to one with entries. *)
NextFrom(s, h) ==
    LET r     == Reached(h)
        ended == page[r.nextpageNum].keys = << >> \/ Overshot(r)
        later == Range(Tail(Passed(h)))
    IN  /\ ~PoolIsFull(pinned) /\ h.nextpageNum \notin pinned
        /\ \/ NextFails(s, r, later)
           \/ /\ later \cap pinned = {}
              /\ \/ ended /\ EndOfScan(s, [r EXCEPT !.status = "OVER"])
                 \/ ~ended /\ NextAt(s, r)

AM_FindNextEntry(s) ==
    LET h == scan[s]
    IN  /\ Idle
        /\ owed[s] \notin {NoScan, Lost}
        /\ \/ Over(h) /\ EndOfScan(s, [h EXCEPT !.status = "OVER"])
           \/ ~Over(h) /\ h.nextpageNum = Unplaced /\ NextIsScrap(s)
           \/ /\ ~Over(h) /\ h.nextpageNum # Unplaced
              /\ NextStarves(h.nextpageNum) \/ NextFrom(s, h)
        /\ UNCHANGED <<file, pinned, others, stack, behind, indexed>>

(* Mutant of AM_CloseIndexScan: the entry is not free again. *)
CloseKeepsStatus(s) ==
    /\ Idle
    /\ others = 0
    /\ owed[s] # NoScan
    /\ scan' = [scan EXCEPT ![s] = [FreeHandle EXCEPT !.status = scan[s].status]]
    /\ owed' = [owed EXCEPT ![s] = NoScan]
    /\ Return(AME_OK)
    /\ UNCHANGED <<file, pinned, others, stack, behind, indexed>>

(* What else the entry of the table holds does not matter any more. *)
AM_CloseIndexScan(s) ==
    /\ Idle
    /\ others = 0
    /\ owed[s] # NoScan
    /\ scan' = [scan EXCEPT ![s] = FreeHandle]
    /\ owed' = [owed EXCEPT ![s] = NoScan]
    /\ Return(AME_OK)
    /\ UNCHANGED <<file, pinned, others, stack, behind, indexed>>

-----------------------------------------------------------------------------
(* The rest of the access method, as clients with scans use it. *)

(* The bytes of the last key stay where they were when a key before it, or *)
(* it, goes; of its list the head is AM_NULL in the second case.           *)
LeftBehind(p, v) ==
    LET old == page[p].keys
    IN  IF Len(page'[p].keys) = Len(old) THEN behind[p]
        ELSE IF Last(old).value = v THEN [Last(old) EXCEPT !.head = AM_NULL]
        ELSE Last(old)

(* The client deletes the record that the scan has told it.  The bytes     *)
(* behind the keys matter from now on, as the scan may read them.          *)
DeleteTold ==
    /\ ret \in RecId
    /\ Cardinality(Held) = 1
    /\ AM_DeleteEntry(ValueOf[ret], ret, TRUE)
    /\ LET p == Last(PathTo(ValueOf[ret]))
       IN  behind' = [behind EXCEPT ![p] = LeftBehind(p, ValueOf[ret])]
    /\ indexed' = Indexed'
    /\ UNCHANGED <<scan, owed>>

(* Clients insert a record once, under its value; and neither insert nor   *)
(* delete when a call that failed has left a page fixed.                   *)
Update ==
    \/ AM_CreateIndex \/ AM_DestroyIndex \/ PF_OpenFile \/ PF_CloseFile
    \/ \E r \in RecId \ indexed : pinned = {} /\ AM_InsertEntry(ValueOf[r], r, TRUE)
    \/ \E r \in indexed : pinned = {} /\ AM_DeleteEntry(ValueOf[r], r, TRUE)
    \/ AM_AddtoParent

(* Clients fill the pool with pages of other files between the calls of a  *)
(* scan, and unfix them before they close it.                              *)
OtherPages ==
    /\ Idle
    /\ Held # {}
    /\ others' = IF others = 0 THEN PF_MAX_BUFS - Cardinality(pinned) ELSE 0
    /\ UNCHANGED <<file, pinned, stack, call, ret, scanvars>>

UpdateIndex ==
    /\ Held = {}
    /\ Update
    /\ behind' = [p \in PageNum |-> NoEntry]
    /\ indexed' = Indexed'
    /\ UNCHANGED <<scan, owed>>

ScanNext ==
    \/ UpdateIndex \/ OtherPages
    \/ AM_OpenIndexScan
    \/ \E s \in Scan : AM_FindNextEntry(s)
    \/ \E s \in Scan : AM_CloseIndexScan(s)
    \/ DeleteTold

ScanSpec == ScanInit /\ [][ScanNext]_allvars
=============================================================================
