----------------------------- MODULE RecordFile -----------------------------
(***************************************************************************)
(* What rm.h promises of a file of records: a partial map from RIDs to     *)
(* records.  An insertion adds a record under a RID no other record has,   *)
(* a deletion removes the one it names, and a call that fails changes      *)
(* nothing.  The layer below may make any call fail.                       *)
(***************************************************************************)
EXTENDS Integers, Sequences

CONSTANTS
    Records,    \* the records clients insert
    Sizes,      \* the buffers they get them in
    RIDs        \* the RIDs there are

VARIABLES
    records,    \* records[rid], for the RIDs that name a record
    ret         \* what the last call returned

OK         == 0
TooSmall   == -3
InvalidRID == -4

recordvars == <<records, ret>>

Returns(code, rid, data) == ret' = [code |-> code, rid |-> rid, data |-> data]

Live(rid) == rid \in DOMAIN records

FileInit == records = << >> /\ ret = [code |-> OK, rid |-> -1, data |-> << >>]

(* An error of the layer below. *)
Failure == \E code \in -19 .. -1 : Returns(code, -1, << >>) /\ UNCHANGED records

(* Opening, closing, and whatever else concerns no record. *)
NoRecord == Returns(OK, -1, << >>) /\ UNCHANGED records

Destroy == Returns(OK, -1, << >>) /\ records' = << >>

Insert(data) ==
    \E rid \in RIDs :
      /\ ~Live(rid)
      /\ Returns(OK, rid, << >>)
      /\ records' = [r \in DOMAIN records \cup {rid} |->
                       IF r = rid THEN data ELSE records[r]]

Delete(rid) ==
    /\ Live(rid)
    /\ Returns(OK, -1, << >>)
    /\ records' = [r \in DOMAIN records \ {rid} |-> records[r]]

Get(rid, size) ==
    /\ Live(rid)
    /\ size >= Len(records[rid])
    /\ Returns(OK, -1, records[rid])
    /\ UNCHANGED records

(* A scan comes to a record. *)
Next(rid, size) ==
    /\ Live(rid)
    /\ size >= Len(records[rid])
    /\ Returns(OK, rid, records[rid])
    /\ UNCHANGED records

FileNext ==
    \/ Failure \/ NoRecord \/ Destroy
    \/ \E data \in Records : Insert(data)
    \/ \E rid \in RIDs : Delete(rid)
    \/ \E rid \in RIDs, size \in Sizes : Get(rid, size) \/ Next(rid, size)

FileSpec == FileInit /\ [][FileNext]_recordvars
=============================================================================
