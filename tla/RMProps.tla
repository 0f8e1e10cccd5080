------------------------------- MODULE RMProps -------------------------------
(***************************************************************************)
(* What the record manager must guarantee, and the sense in which it       *)
(* implements RecordFile.                                                  *)
(***************************************************************************)
EXTENDS RM

(* Every variable has its type. *)
RMTypeOK ==
    /\ status \in {"none", "closed", "open"}
    /\ numpages \in 0 .. MaxPages
    /\ page \in [PageNum -> Page]
    /\ pinned \subseteq 0 .. numpages - 1
    /\ PFerrno \in -19 .. 0
    /\ scan \in [Scan -> ScanHandle]
    /\ call \in {NoCall} \cup [scan : Scan, bufSize : BufSizes]

(* On every page the directory and the records stay apart, and no two     *)
(* records share a byte, whatever is inserted, deleted and inserted again. *)
PagesAreSound == \A p \in 0 .. numpages - 1 : PageSound(page[p])

(* The page a scan points to is fixed, by this scan and no other: nothing  *)
(* takes the page from under it between two of its calls (rm.h:32, pageData *)
(* is a "Pinned page buffer from PF layer").                               *)
ScansHoldTheirPage ==
    \A s \in Scan : scan[s].pageData =>
      /\ scan[s].currentPage \in pinned
      /\ \A t \in Scan \ {s} : scan[t].pageData =>
                               scan[t].currentPage # scan[s].currentPage

-----------------------------------------------------------------------------
(* Records by their RIDs. *)

LiveRIDs ==
    UNION {{RM_PackRID(p, k) : k \in LiveSlots(page[p])} : p \in 0 .. numpages - 1}

RecordOf(rid) == Record(page[PageOf(rid)], SlotOf(rid))

RecordFileOf == INSTANCE RecordFile WITH
    Records <- {[i \in 1 .. n |-> d] : n \in Lengths, d \in Datum},
    Sizes   <- BufSizes,
    RIDs    <- RID,
    records <- [rid \in LiveRIDs |-> RecordOf(rid)]

(* The record manager implements RecordFile: the moves of records within   *)
(* their page, the reuse of slots and the search for room do not show.     *)
ImplementsRecordFile == RecordFileOf!FileSpec

(* rm.h:93: an insertion "Inserts a new record into the file": the records *)
(* that are there stay as they are.                                        *)
InsertKeepsRecords ==
    [][\A d \in Datum, length \in Lengths : RM_InsertRecord(d, length) =>
         \A rid \in LiveRIDs : rid \in LiveRIDs' /\ RecordOf(rid)' = RecordOf(rid)]_rmvars

-----------------------------------------------------------------------------
(* The use of pages and pins. *)

(* test_rm.c:125: RM_CloseFile "flushes all pages": a client that has      *)
(* closed its scans can close the file.                                    *)
CloseFlushesAllPages ==
    [][RM_CloseFile /\ (\A s \in Scan : ~scan[s].used) => ret'.code = RME_OK]_rmvars

-----------------------------------------------------------------------------
(* Scans. *)

(* A scan tells its client every record: between the one it told last and  *)
(* the one it tells now, or the end, there is none, whatever was inserted  *)
(* and deleted since.                                                      *)
ScansSkipNothing ==
    [][~Idle /\ Idle' =>
         \A rid \in LiveRIDs : rid > scan[call.scan].told =>
           /\ ret'.code # RME_EOF
           /\ ret'.code = RME_OK => ret'.rid <= rid]_rmvars

(* A call for the next record returns, over empty slots and empty pages.   *)
ScansReturn == ~Idle ~> Idle
=============================================================================
