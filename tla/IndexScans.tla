----------------------------- MODULE IndexScans -----------------------------
(***************************************************************************)
(* What the access method promises of scans.  A scan of all records, or of *)
(* those whose value equals, exceeds, or is not below a given one, tells   *)
(* each of the records that were in the index when it was opened, and none *)
(* twice, in the order of their values, and then that it has ended; the    *)
(* records it has told may have been deleted since.  Of a scan for another *)
(* comparison nothing is promised.  A call that fails for want of a buffer *)
(* leaves a scan as it was, or past use.                                   *)
(***************************************************************************)
EXTENDS Integers, FiniteSets

CONSTANTS
    RecId,        \* the record ids
    ValueOf,      \* the value of each record
    Value,        \* the values
    Scan,         \* scan descriptors
    NoScan,       \* due of a descriptor that no client has
    NoPromise     \* due of a scan of which nothing is promised

VARIABLES
    records,      \* the records in the index
    due,          \* of each scan, the records it has still to tell
    ret           \* the result of the last call, as it matters to scans

OK       == 0
EOF      == -7
Errors   == {-8, -6, -3, -1}

indexscanvars == <<records, due, ret>>

IndexScansInit ==
    /\ records = {}
    /\ due = [s \in Scan |-> NoScan]
    /\ ret = OK

Held == {s \in Scan : due[s] # NoScan}

Qualifying(op, v) ==
    {r \in records : CASE op = "ALL" -> TRUE
                       [] op = "EQUAL" -> ValueOf[r] = v
                       [] op = "GREATER_THAN" -> ValueOf[r] > v
                       [] op = "GREATER_THAN_EQUAL" -> ValueOf[r] >= v}

Promised == {"ALL", "EQUAL", "GREATER_THAN", "GREATER_THAN_EQUAL"}

(* While a client holds a scan, nothing is inserted. *)
Insert ==
    /\ ret' \in {OK} \cup Errors
    /\ Held = {}
    /\ \E r \in RecId \ records : records' = records \cup {r}
    /\ UNCHANGED due

(* And nothing deleted that a scan has still to tell. *)
Delete ==
    /\ ret' = OK
    /\ \E r \in records :
         /\ \A s \in Held : due[s] = NoPromise \/ r \notin due[s]
         /\ records' = records \ {r}
    /\ UNCHANGED due

Destroy == ret' = OK /\ Held = {} /\ records' = {} /\ UNCHANGED due

Open(s, op, v) ==
    /\ ret' = s
    /\ due[s] = NoScan
    /\ due' = [due EXCEPT ![s] = Qualifying(op, v)]
    /\ UNCHANGED records

OpenUnpromised(s) ==
    /\ ret' = s
    /\ due[s] = NoScan
    /\ due' = [due EXCEPT ![s] = NoPromise]
    /\ UNCHANGED records

(* A record of the least value that is due. *)
Tell(s, r) ==
    /\ ret' = r
    /\ due[s] \notin {NoScan, NoPromise}
    /\ r \in due[s]
    /\ \A t \in due[s] : ValueOf[r] <= ValueOf[t]
    /\ due' = [due EXCEPT ![s] = @ \ {r}]
    /\ UNCHANGED records

End(s) == ret' = EOF /\ due[s] = {} /\ UNCHANGED <<records, due>>

Fail(s) ==
    /\ ret' \in Errors
    /\ due[s] # NoScan
    /\ due' \in {due, [due EXCEPT ![s] = NoPromise]}
    /\ UNCHANGED records

Unpromised(s) == due[s] = NoPromise /\ UNCHANGED <<records, due>>

Close(s) ==
    /\ ret' = OK
    /\ due[s] # NoScan
    /\ due' = [due EXCEPT ![s] = NoScan]
    /\ UNCHANGED records

(* What concerns no scan: it succeeds or fails. *)
Other == ret' \in {OK} \cup Errors /\ UNCHANGED <<records, due>>

IndexScansNext ==
    \/ \E s \in Scan, r \in RecId : Tell(s, r)
    \/ \E s \in Scan : End(s) \/ Fail(s) \/ Unpromised(s) \/ Close(s) \/ OpenUnpromised(s)
    \/ \E s \in Scan, op \in Promised, v \in Value : Open(s, op, v)
    \/ Other \/ Insert \/ Delete \/ Destroy

IndexScansSpec == IndexScansInit /\ [][IndexScansNext]_indexscanvars
=============================================================================
