-------------------------------- MODULE Index --------------------------------
(***************************************************************************)
(* What the access method promises of an index: a bag of entries, a value  *)
(* with a record id.  An insertion adds one and a deletion removes one; an *)
(* entry is reported as not found only if there is none.  A call that      *)
(* fails for another reason has changed nothing, or has inserted its entry *)
(* all the same.                                                           *)
(***************************************************************************)
EXTENDS Integers

CONSTANTS
    Value,      \* the values of the attribute
    RecId       \* the record ids

VARIABLES
    entries,    \* how often each entry is in the index
    ret         \* what the last call returned

OK       == 0
NotFound == -2
Errors   == {-3, -1}

indexvars == <<entries, ret>>

IndexInit == entries = [e \in Value \X RecId |-> 0] /\ ret = OK

Insert(e) ==
    /\ entries' = [entries EXCEPT ![e] = @ + 1]
    /\ ret' \in {OK} \cup Errors

Delete(e) ==
    /\ entries[e] > 0
    /\ entries' = [entries EXCEPT ![e] = @ - 1]
    /\ ret' = OK

Absent(e) ==
    /\ entries[e] = 0
    /\ ret' = NotFound
    /\ UNCHANGED entries

(* Failures, and what concerns the index as a whole. *)
NoEntry == ret' \in {OK} \cup Errors /\ UNCHANGED entries

Destroy == entries' = [e \in Value \X RecId |-> 0] /\ ret' = OK

IndexNext ==
    \/ NoEntry \/ Destroy
    \/ \E e \in Value \X RecId : Insert(e) \/ Delete(e) \/ Absent(e)

IndexSpec == IndexInit /\ [][IndexNext]_indexvars
=============================================================================
