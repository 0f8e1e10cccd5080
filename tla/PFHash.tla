------------------------------- MODULE PFHash -------------------------------
(***************************************************************************)
(* The page hash table, pflayer/hash.c: a table of buckets, each the head  *)
(* of a doubly linked list of entries that come from malloc.               *)
(*                                                                         *)
(* Each routine begins with a walk through one bucket's list.  The walk    *)
(* takes a step per turn of its loop, with the routine's arguments in call *)
(* and the loop's pointer in entry.                                        *)
(***************************************************************************)
EXTENDS Integers

CONSTANTS
    PF_HASH_TBL_SIZE,   \* buckets
    FD,                 \* file descriptors
    PageNum,            \* page numbers
    Frame,              \* the buffers' addresses
    Entry,              \* BOUND: the addresses malloc gives to entries
    NULL                \* the null address

(* PFhash is a remainder: of a negative number C's would be negative. *)
ASSUME PFHashAssumption ==
    /\ PF_HASH_TBL_SIZE \in Nat \ {0}
    /\ FD \subseteq Nat
    /\ PageNum \subseteq Nat
    /\ NULL \notin Frame \cup Entry

VARIABLES
    PFhashtbl,      \* the first entry of each bucket's list
    heap,           \* the entries that malloc gave and free did not take back
    call,           \* the routine that runs and its arguments
    entry,          \* the loop's pointer
    ret,            \* what the last call returned
    length,         \* auxiliary: how many entries each list has,
    depth           \* and each entry with the ones behind it, 0 if it is free

hashvars == <<PFhashtbl, heap, call, entry, ret, length, depth>>
table    == <<PFhashtbl, heap, length, depth>>

PFE_OK            == 0
PFE_NOMEM         == -1
PFE_HASHNOTFOUND  == -18
PFE_HASHPAGEEXIST == -19

Bucket == 0 .. PF_HASH_TBL_SIZE - 1

PFhash(fd, page) == (fd + page) % PF_HASH_TBL_SIZE

PFhash_entry == [fd : FD, page : PageNum, bpage : Frame,
                 nextentry : Entry \cup {NULL}, preventry : Entry \cup {NULL}]

BucketOf(e) == PFhash(heap[e].fd, heap[e].page)

Call   == [routine : {"PFhashFind", "PFhashDelete"}, fd : FD, page : PageNum]
          \cup [routine : {"PFhashInsert"}, fd : FD, page : PageNum, bpage : Frame]
NoCall == [routine |-> "none"]
Idle   == call = NoCall

PFhashInit ==
    /\ PFhashtbl = [b \in Bucket |-> NULL]
    /\ heap = << >>
    /\ call = NoCall
    /\ entry = NULL
    /\ ret = PFE_OK
    /\ length = [b \in Bucket |-> 0]
    /\ depth = [e \in Entry |-> 0]

Return(code) == ret' = code /\ call' = NoCall /\ entry' = NULL

-----------------------------------------------------------------------------
(* The walk. *)

(* The client calls a routine, and the walk is at the bucket's first entry. *)
Begin(c) ==
    /\ Idle
    /\ call' = c
    /\ entry' = PFhashtbl[PFhash(c.fd, c.page)]
    /\ UNCHANGED <<table, ret>>

(* Mutant of Matches: the page number is not compared. *)
MatchesFile == heap[entry].fd = call.fd

Matches == heap[entry].fd = call.fd /\ heap[entry].page = call.page

Next == heap[entry].nextentry
Prev == heap[entry].preventry

(* Mutant of Follow: the walk begins again. *)
FollowFirst == entry' = PFhashtbl[BucketOf(entry)]

Follow == entry' = Next

Walk ==
    /\ ~Idle
    /\ entry # NULL
    /\ ~Matches
    /\ Follow
    /\ UNCHANGED <<table, call, ret>>

Found(routine)    == call.routine = routine /\ entry # NULL /\ Matches
NotFound(routine) == call.routine = routine /\ entry = NULL

-----------------------------------------------------------------------------
(* The routines, from where the walk has ended. *)

PFhashFind ==
    /\ \/ Found("PFhashFind") /\ Return(heap[entry].bpage)
       \/ NotFound("PFhashFind") /\ Return(NULL)
    /\ UNCHANGED table

SetNext(h, e, f) == IF e = NULL THEN h ELSE [h EXCEPT ![e].nextentry = f]
SetPrev(h, e, f) == IF e = NULL THEN h ELSE [h EXCEPT ![e].preventry = f]

(* Mutant of NewEntry: two arguments are swapped. *)
NewEntrySwapped(first) ==
    [fd |-> call.page, page |-> call.fd, bpage |-> call.bpage,
     nextentry |-> first, preventry |-> NULL]

NewEntry(first) ==
    [fd |-> call.fd, page |-> call.page, bpage |-> call.bpage,
     nextentry |-> first, preventry |-> NULL]

(* Mutant of Linked: the old first entry does not learn of the new one. *)
LinkedOneWay(e, first) ==
    [x \in DOMAIN heap \cup {e} |-> IF x = e THEN NewEntry(first) ELSE heap[x]]

(* The heap with e, for the call's page, before the entry that was first. *)
Linked(e, first) ==
    [x \in DOMAIN heap \cup {e} |-> IF x = e THEN NewEntry(first)
                                    ELSE SetPrev(heap, first, e)[x]]

InsertEntry(e) ==
    LET bucket == PFhash(call.fd, call.page)
    IN  /\ heap' = Linked(e, PFhashtbl[bucket])
        /\ PFhashtbl' = [PFhashtbl EXCEPT ![bucket] = e]
        /\ length' = [length EXCEPT ![bucket] = @ + 1]
        /\ depth' = [depth EXCEPT ![e] = length[bucket] + 1]
        /\ Return(PFE_OK)

(* Mutant of PFhashInsert: it does not look whether the page has an entry. *)
InsertUnchecked ==
    \/ NotFound("PFhashInsert") /\ Return(PFE_NOMEM) /\ UNCHANGED table
    \/ /\ Found("PFhashInsert") \/ NotFound("PFhashInsert")
       /\ \E e \in Entry \ DOMAIN heap : InsertEntry(e)

PFhashInsert ==
    \/ Found("PFhashInsert") /\ Return(PFE_HASHPAGEEXIST) /\ UNCHANGED table
    \/ NotFound("PFhashInsert") /\ Return(PFE_NOMEM) /\ UNCHANGED table
    \/ NotFound("PFhashInsert") /\ \E e \in Entry \ DOMAIN heap : InsertEntry(e)

(* The first entry of the list without the entry that has been found. *)
NewHead(first) == IF first = entry THEN Next ELSE first

(* The neighbours of the entry that has been found get each other. *)
Unlinked == SetPrev(SetNext(heap, Prev, Next), Next, Prev)

DeleteEntry ==
    LET bucket == PFhash(call.fd, call.page)
        above  == {x \in DOMAIN heap : BucketOf(x) = bucket /\ depth[x] > depth[entry]}
    IN  /\ heap' = [x \in DOMAIN heap \ {entry} |-> Unlinked[x]]
        /\ PFhashtbl' = [PFhashtbl EXCEPT ![bucket] = NewHead(@)]
        /\ length' = [length EXCEPT ![bucket] = @ - 1]
        /\ depth' = [x \in Entry |-> IF x = entry THEN 0
                                     ELSE IF x \in above THEN depth[x] - 1 ELSE depth[x]]
        /\ Return(PFE_OK)

PFhashDelete ==
    \/ NotFound("PFhashDelete") /\ Return(PFE_HASHNOTFOUND) /\ UNCHANGED table
    \/ Found("PFhashDelete") /\ DeleteEntry

-----------------------------------------------------------------------------

Turn == Walk \/ PFhashFind \/ PFhashInsert \/ PFhashDelete

PFHashNext == (\E c \in Call : Begin(c)) \/ Turn

PFHashSpec == PFhashInit /\ [][PFHashNext]_hashvars

(* A call that has begun runs on: there is one thread. *)
PFHashFairSpec == PFHashSpec /\ WF_hashvars(Turn)

-----------------------------------------------------------------------------
(* What the table must guarantee. *)

(* Every variable has its type. *)
PFHashTypeOK ==
    /\ PFhashtbl \in [Bucket -> Entry \cup {NULL}]
    /\ DOMAIN heap \subseteq Entry
    /\ heap \in [DOMAIN heap -> PFhash_entry]
    /\ call \in Call \cup {NoCall}
    /\ entry \in Entry \cup {NULL}
    /\ ret \in Frame \cup {NULL, PFE_OK, PFE_NOMEM, PFE_HASHNOTFOUND, PFE_HASHPAGEEXIST}
    /\ length \in [Bucket -> Nat]
    /\ depth \in [Entry -> Nat]

(* No pointer leads to an entry that was freed: the table's, those of the  *)
(* entries, and the walk's (the free of PFhashDelete, hash.c:153).  And    *)
(* the two links of an entry agree with those of its neighbours, all in    *)
(* the bucket where PFhash looks for it.                                   *)
LinksAgree ==
    /\ entry \in DOMAIN heap \cup {NULL}
    /\ \A b \in Bucket :
         PFhashtbl[b] # NULL =>
           /\ PFhashtbl[b] \in DOMAIN heap
           /\ BucketOf(PFhashtbl[b]) = b
           /\ heap[PFhashtbl[b]].preventry = NULL
    /\ \A e \in DOMAIN heap :
         LET next == heap[e].nextentry
             prev == heap[e].preventry
         IN  /\ next # NULL => /\ next \in DOMAIN heap
                               /\ BucketOf(next) = BucketOf(e)
                               /\ heap[next].preventry = e
             /\ prev # NULL => prev \in DOMAIN heap /\ heap[prev].nextentry = e
             /\ prev = NULL => PFhashtbl[BucketOf(e)] = e

(* A page has one entry at most, or PFhashDelete would leave the other one *)
(* with a frame that is used for another page by then.                     *)
OneEntryPerPage ==
    \A e, f \in DOMAIN heap :
      heap[e].fd = heap[f].fd /\ heap[e].page = heap[f].page => e = f

(* Every call returns: no list goes round. *)
HashCallsReturn == ~Idle ~> Idle

(* The frame of page k by the entries, wherever they are linked. *)
FrameOf(k) ==
    LET at == {e \in DOMAIN heap : <<heap[e].fd, heap[e].page>> = k}
    IN  IF at = {} THEN NULL ELSE heap[CHOOSE e \in at : TRUE].bpage

TableOf == INSTANCE HashTable WITH
    table   <- [k \in FD \X PageNum |-> FrameOf(k)],
    request <- call

(* The chains implement the map: each routine finds the entry of its page, *)
(* wherever it is in its list, and changes no other.                       *)
ImplementsHashTable == TableOf!TableSpec
=============================================================================
