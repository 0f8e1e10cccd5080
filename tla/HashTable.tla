----------------------------- MODULE HashTable -----------------------------
(***************************************************************************)
(* What the buffer manager expects of the page hash table: a partial map   *)
(* from pages, a descriptor with a page number, to the frames that hold    *)
(* them.  PFBuf uses it in this form.  A call is requested, and then       *)
(* served in one step.                                                     *)
(***************************************************************************)
EXTENDS Integers

CONSTANTS
    FD,         \* file descriptors
    PageNum,    \* page numbers
    Frame,      \* the buffers' addresses
    NULL        \* the null address

VARIABLES
    table,      \* the frame of each page, or NULL
    request,    \* the call that is to be served, with its arguments
    ret         \* what the last call returned

tablevars == <<table, request, ret>>

OK        == 0
NoMemory  == -1
Absent    == -18
PageExist == -19

NoRequest == [routine |-> "none"]

Key == <<request.fd, request.page>>

TableInit ==
    /\ table = [k \in FD \X PageNum |-> NULL]
    /\ request = NoRequest
    /\ ret = OK

Request ==
    /\ request = NoRequest
    /\ \/ request' \in [routine : {"PFhashFind", "PFhashDelete"}, fd : FD, page : PageNum]
       \/ request' \in [routine : {"PFhashInsert"}, fd : FD, page : PageNum, bpage : Frame]
    /\ UNCHANGED <<table, ret>>

Find == ret' = table[Key] /\ UNCHANGED table

Insert ==
    \/ /\ table[Key] = NULL
       /\ table' = [table EXCEPT ![Key] = request.bpage]
       /\ ret' = OK
    \/ /\ ret' = IF table[Key] = NULL THEN NoMemory ELSE PageExist
       /\ UNCHANGED table

Delete ==
    \/ /\ table[Key] # NULL
       /\ table' = [table EXCEPT ![Key] = NULL]
       /\ ret' = OK
    \/ /\ table[Key] = NULL
       /\ ret' = Absent
       /\ UNCHANGED table

Serve ==
    /\ \/ request.routine = "PFhashFind" /\ Find
       \/ request.routine = "PFhashInsert" /\ Insert
       \/ request.routine = "PFhashDelete" /\ Delete
    /\ request' = NoRequest

TableSpec == TableInit /\ [][Request \/ Serve]_tablevars
=============================================================================
