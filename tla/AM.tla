--------------------------------- MODULE AM ---------------------------------
(***************************************************************************)
(* The access method, amlayer: an index is a paged file with a B+ tree.    *)
(* Its root is page 0 always; a leaf holds keys with lists of record ids   *)
(* and the number of the next leaf.  am.c splits nodes, amfns.c has the    *)
(* calls, amsearch.c finds the leaf for a value and leaves on the stack of *)
(* amstack.c the path to it.                                               *)
(*                                                                         *)
(* Below it is the paged-file layer as PagedFile describes it.  Its pool   *)
(* is shared with other files.  A call is one step, except AM_InsertEntry: *)
(* when it has split a leaf each AM_AddtoParent is a step.                 *)
(***************************************************************************)
EXTENDS AMLeaf

CONSTANTS
    PF_MAX_BUFS,   \* pages in the buffer pool
    MaxOthers,     \* BOUND: pages of other files that are fixed in it
    MaxKeys,       \* header->maxKeys, the keys an inner node takes
    AM_MAXSTACK,   \* BOUND: a search begins with a path that ends below it
    MaxPerKey,     \* BOUND: the record ids clients give one value
    Careful        \* clients know the attribute's length, and delete only
                   \* what is in the index

ASSUME AMAssumption ==
    /\ PF_MAX_BUFS \in Nat \ {0}
    /\ MaxOthers \in 0 .. PF_MAX_BUFS
    /\ MaxKeys \in Nat \ {0} /\ MaxKeys % 2 = 0
    /\ AM_MAXSTACK \in Nat
    /\ MaxPerKey \in Nat
    /\ Careful \in BOOLEAN

VARIABLES
    status,     \* the index: "none", "closed", "open", or "lost": left open
                \* and empty by an AM_CreateIndex that failed
    numpages,   \* pages it has
    page,       \* what they hold
    pinned,     \* the pages that are fixed in the pool
    others,     \* how many pages of other files are
    stack,      \* AM_Stack up to AM_topofStackPtr
    call,       \* AM_AddtoParent's arguments, when it is to be called
    ret         \* what the last call returned

amvars == <<status, numpages, page, pinned, others, stack, call, ret>>
file   == <<status, numpages, page>>

AM_RootPageNum == 0

PageNum == 0 .. MaxPages - 1

(* keys[i] separates child[i] from child[i + 1], to which it belongs. *)
IntNode == [pageType : {"i"}, keys : Seq(Value), child : Seq(PageNum)]

AME_OK                == 0
AME_INVALIDATTRLENGTH == -1
AME_NOTFOUND          == -2
AME_PF                == -3

NoCall == [pageNum |-> AM_NULL_PAGE]
Idle   == call = NoCall

AMInit ==
    /\ status = "none"
    /\ numpages = 0
    /\ page = [p \in PageNum |-> EmptyLeaf]
    /\ pinned = {}
    /\ others = 0
    /\ stack = << >>
    /\ call = NoCall
    /\ ret = AME_OK

Return(code) == ret' = code /\ call' = NoCall

(* With these pages of the index fixed no other page can be got. *)
PoolIsFull(fixed) == Cardinality(fixed) + others >= PF_MAX_BUFS

-----------------------------------------------------------------------------
(* The index as a file. *)

AM_CreateIndex ==
    /\ Idle
    /\ \/ /\ status = "none"
          /\ ~PoolIsFull({})
          /\ status' = "closed"
          /\ numpages' = 1
          /\ page' = [page EXCEPT ![AM_RootPageNum] = EmptyLeaf]
          /\ Return(AME_OK)
       \/ /\ status = "none"
          /\ PoolIsFull({})                   \* no buffer for the root
          /\ status' = "lost"
          /\ Return(AME_PF)
          /\ UNCHANGED <<numpages, page>>
       \/ /\ status # "none"                  \* the file is there
          /\ Return(AME_PF)
          /\ UNCHANGED file
    /\ UNCHANGED <<pinned, others, stack>>

AM_DestroyIndex ==
    /\ Idle
    /\ \/ /\ status = "closed"
          /\ status' = "none"
          /\ numpages' = 0
          /\ page' = [p \in PageNum |-> EmptyLeaf]
          /\ Return(AME_OK)
       \/ /\ status # "closed"                \* there is none, or it is open
          /\ Return(AME_PF)
          /\ UNCHANGED file
    /\ UNCHANGED <<pinned, others, stack>>

(* Clients open the index with PF_OpenFile, once at a time. *)
PF_OpenFile ==
    /\ Idle
    /\ status = "closed"
    /\ status' = "open"
    /\ Return(AME_OK)
    /\ UNCHANGED <<numpages, page, pinned, others, stack>>

PF_CloseFile ==
    /\ Idle
    /\ status = "open"
    /\ \/ /\ pinned = {}
          /\ status' = "closed"
          /\ Return(AME_OK)
       \/ /\ pinned # {}
          /\ Return(AME_PF)
          /\ UNCHANGED status
    /\ UNCHANGED <<numpages, page, pinned, others, stack>>

(* Clients fix and unfix pages of other files. *)
OtherFiles ==
    /\ Idle
    /\ others' \in 0 .. MaxOthers
    /\ others' # others
    /\ others' + Cardinality(pinned) <= PF_MAX_BUFS
    /\ UNCHANGED <<file, pinned, stack, call, ret>>

-----------------------------------------------------------------------------
(* AM_Search. *)

Child(p, v) == page[p].child[AM_BinSearch(page[p].keys, v) + 1]

(* The pages from the root to the leaf for v. *)
PathTo(v) ==
    LET path[n \in 0 .. MaxPages - 1] ==         \* after n turns of the loop
          IF n = 0 THEN <<AM_RootPageNum>>
          ELSE LET s == path[n - 1]
               IN  IF page[Last(s)].pageType = "l" THEN s ELSE Append(s, Child(Last(s), v))
    IN  path[MaxPages - 1]

(* How many of them the search gets.  It holds one page at a time, so that *)
(* the pool can only be full at the first.                                 *)
Got(path) ==
    IF PoolIsFull(pinned) THEN 0
    ELSE Min({k \in DOMAIN path : path[k] \in pinned} \cup {Len(path) + 1}) - 1

(* The stack behind it: an entry for every inner node it has got. *)
Pushed(path, v) ==
    stack \o [k \in 1 .. Min({Got(path), Len(path) - 1}) |->
                [pageNumber |-> path[k], offset |-> AM_BinSearch(page[path[k]].keys, v)]]

(* A search that fails: a page it cannot get, or the wrong attrLength,     *)
(* which shows when it has the root and leaves that fixed.                 *)
SearchFails(v, known) ==
    LET path == PathTo(v)
    IN  \/ /\ Got(path) < Len(path)
           /\ known \/ Got(path) = 0
           /\ pinned' = pinned
           /\ Return(AME_PF)
        \/ /\ Got(path) > 0
           /\ ~known
           /\ pinned' = pinned \cup {AM_RootPageNum}
           /\ Return(AME_INVALIDATTRLENGTH)

(* A client may search the index now, without or with its attrLength. *)
MaySearch(known) ==
    /\ Idle
    /\ status = "open"
    /\ Careful => known
    /\ Len(stack) < AM_MAXSTACK

-----------------------------------------------------------------------------
(* AM_DeleteEntry. *)

(* The record ids of v, as far as its leaf tells. *)
RecordsIn(l, v) ==
    LET i == AM_SearchLeaf(Values(l), v)
    IN  IF Found(Values(l), v) THEN RecIds(l, i) ELSE << >>

DeleteFails(v, known) ==
    LET path == PathTo(v)
    IN  /\ SearchFails(v, known)
        /\ stack' = IF known THEN Pushed(path, v) ELSE stack
        /\ UNCHANGED <<file, others>>

(* The leaf stays fixed. *)
DeleteNotFound(v, r) ==
    LET path == PathTo(v)
        p    == Last(path)
    IN  /\ Got(path) = Len(path)
        /\ ~Contains(RecordsIn(page[p], v), r)
        /\ ~Careful
        /\ pinned' = pinned \cup {p}
        /\ stack' = Pushed(path, v)
        /\ Return(AME_NOTFOUND)
        /\ UNCHANGED <<file, others>>

(* Mutant of DeleteFound: the stack is not emptied. *)
DeleteKeepsStack(v, r) ==
    LET path == PathTo(v)
        p    == Last(path)
    IN  /\ Got(path) = Len(path)
        /\ Contains(RecordsIn(page[p], v), r)
        /\ page' = [page EXCEPT ![p] = DeleteFromLeaf(@, AM_SearchLeaf(Values(@), v), r)]
        /\ stack' = Pushed(path, v)
        /\ Return(AME_OK)
        /\ UNCHANGED <<status, numpages, pinned, others>>

DeleteFound(v, r) ==
    LET path == PathTo(v)
        p    == Last(path)
    IN  /\ Got(path) = Len(path)
        /\ Contains(RecordsIn(page[p], v), r)
        /\ page' = [page EXCEPT ![p] = DeleteFromLeaf(@, AM_SearchLeaf(Values(@), v), r)]
        /\ stack' = << >>
        /\ Return(AME_OK)
        /\ UNCHANGED <<status, numpages, pinned, others>>

AM_DeleteEntry(v, r, known) ==
    /\ MaySearch(known)
    /\ \/ DeleteFails(v, known)
       \/ known /\ DeleteNotFound(v, r)
       \/ known /\ DeleteFound(v, r)

-----------------------------------------------------------------------------
(* AM_InsertEntry, the leaf. *)

InsertFails(v, known) ==
    /\ SearchFails(v, known)
    /\ stack' = << >>
    /\ UNCHANGED <<file, others>>

InsertFits(v, r) ==
    LET path  == PathTo(v)
        p     == Last(path)
        found == Found(Values(page[p]), v)
        i     == AM_SearchLeaf(Values(page[p]), v)
    IN  /\ Got(path) = Len(path)
        /\ Fits(page[p], found)
        /\ page' = [page EXCEPT ![p] = AM_InsertintoLeaf(@, v, r, i, found)]
        /\ stack' = << >>
        /\ Return(AME_OK)
        /\ UNCHANGED <<status, numpages, pinned, others>>

(***************************************************************************)
(* The leaf l split in two, of which the second gets page q, with v and r  *)
(* inserted in the half where they belong.  Whether that had room for them *)
(* AM_SplitLeaf does not ask.                                              *)
(***************************************************************************)
Halves(l, v, r, q) ==
    LET n     == Len(l.keys)
        half  == n \div 2
        i     == AM_SearchLeaf(Values(l), v)
        found == Found(Values(l), v)
        low   == AM_Compact(l, 1, half)
        high  == AM_Compact(l, half + 1, n)
    IN  [first  |-> [IF i <= half THEN AM_InsertintoLeaf(low, v, r, i, found) ELSE low
                     EXCEPT !.nextLeafPage = q],
         second |-> IF i <= half THEN high
                    ELSE AM_InsertintoLeaf(high, v, r, i - half, found)]

(* AM_FillRootPage *)
AM_FillRootPage(p1, p2, key) ==
    [pageType |-> "i", keys |-> <<key>>, child |-> <<p1, p2>>]

(* AM_SplitLeaf: a leaf that is not the root; its parent is to be told. *)
SplitBelow(p, h, key) ==
    /\ p # AM_RootPageNum
    /\ ~PoolIsFull(pinned \cup {p})
    /\ page' = [page EXCEPT ![p] = h.first, ![numpages] = h.second]
    /\ numpages' = numpages + 1
    /\ call' = [pageNum |-> numpages, key |-> key]
    /\ UNCHANGED <<pinned, ret>>

(* The root: its first half goes to a page of its own too. *)
SplitRoot(p, h, key) ==
    /\ p = AM_RootPageNum
    /\ ~PoolIsFull(pinned \cup {p, numpages})
    /\ page' = [page EXCEPT ![numpages + 1] = h.first, ![numpages] = h.second,
                            ![p] = AM_FillRootPage(numpages + 1, numpages, key)]
    /\ numpages' = numpages + 2
    /\ Return(AME_OK)
    /\ UNCHANGED pinned

(* There is no buffer for the new leaf, and the old one stays fixed. *)
NoNewLeaf(p) ==
    /\ PoolIsFull(pinned \cup {p})
    /\ pinned' = pinned \cup {p}
    /\ Return(AME_PF)
    /\ UNCHANGED <<numpages, page>>

(* Mutant of NoNewRoot: the pages are unfixed. *)
NoNewRootUnfixed(p, h) ==
    /\ p = AM_RootPageNum
    /\ ~PoolIsFull(pinned \cup {p})
    /\ PoolIsFull(pinned \cup {p, numpages})
    /\ page' = [page EXCEPT ![p] = h.first, ![numpages] = h.second]
    /\ numpages' = numpages + 1
    /\ pinned' = pinned
    /\ Return(AME_PF)

(* Mutant of NoNewRoot: the halves are not linked yet. *)
NoNewRootUnlinked(p, h) ==
    /\ p = AM_RootPageNum
    /\ ~PoolIsFull(pinned \cup {p})
    /\ PoolIsFull(pinned \cup {p, numpages})
    /\ page' = [page EXCEPT ![p] = [h.first EXCEPT !.nextLeafPage = page[p].nextLeafPage],
                            ![numpages] = h.second]
    /\ numpages' = numpages + 1
    /\ pinned' = pinned \cup {p, numpages}
    /\ Return(AME_PF)

(* There is one for the new leaf and none for the root's first half: the   *)
(* halves are linked, but no inner node leads to the second.               *)
NoNewRoot(p, h) ==
    /\ p = AM_RootPageNum
    /\ ~PoolIsFull(pinned \cup {p})
    /\ PoolIsFull(pinned \cup {p, numpages})
    /\ page' = [page EXCEPT ![p] = h.first, ![numpages] = h.second]
    /\ numpages' = numpages + 1
    /\ pinned' = pinned \cup {p, numpages}
    /\ Return(AME_PF)

InsertSplits(v, r) ==
    LET path  == PathTo(v)
        p     == Last(path)
        found == Found(Values(page[p]), v)
        h     == Halves(page[p], v, r, numpages)
        key   == h.second.keys[1].value
    IN  /\ Got(path) = Len(path)
        /\ ~Fits(page[p], found)
        /\ \/ SplitBelow(p, h, key) /\ stack' = Pushed(path, v)
           \/ SplitRoot(p, h, key) /\ stack' = << >>
           \/ NoNewLeaf(p) /\ stack' = << >>
           \/ NoNewRoot(p, h) /\ stack' = << >>
        /\ UNCHANGED <<status, others>>

(* The client stays within MaxPerKey, and the file within MaxPages though  *)
(* every node of the path split.                                           *)
AM_InsertEntry(v, r, known) ==
    /\ MaySearch(known)
    /\ Len(RecordsIn(page[Last(PathTo(v))], v)) < MaxPerKey
    /\ numpages + Len(PathTo(v)) + 1 <= MaxPages
    /\ \/ InsertFails(v, known)
       \/ known /\ InsertFits(v, r)
       \/ known /\ InsertSplits(v, r)

-----------------------------------------------------------------------------
(* AM_AddtoParent.  It takes the parent from the stack; getting it cannot  *)
(* fail, as the search has just had it.                                    *)

(* Mutant of Parent: the bottom of the stack. *)
Bottom == Head(stack)

Parent == Last(stack)

(* AM_AddtoIntPage *)
AM_AddtoIntPage(node, key, p, offset) ==
    [node EXCEPT !.keys = InsertAt(@, offset + 1, key), !.child = InsertAt(@, offset + 2, p)]

(* Mutant of AM_SplitIntNode: the middle key stays in the second half. *)
SplitKeepsMiddle(node, key, p, offset) ==
    LET all  == AM_AddtoIntPage(node, key, p, offset)
        half == MaxKeys \div 2
        n    == Len(all.keys)
    IN  [first  |-> [node EXCEPT !.keys  = SubSeq(all.keys, 1, half),
                                 !.child = SubSeq(all.child, 1, half + 1)],
         middle |-> all.keys[half + 1],
         second |-> [node EXCEPT !.keys  = SubSeq(all.keys, half + 1, n),
                                 !.child = SubSeq(all.child, half + 2, n + 1)]]

(* The keys of a full node and one more: half of them stay, half go to the *)
(* second node, and the middle one goes up.                                *)
AM_SplitIntNode(node, key, p, offset) ==
    LET all  == AM_AddtoIntPage(node, key, p, offset)
        half == MaxKeys \div 2
        n    == Len(all.keys)
    IN  [first  |-> [node EXCEPT !.keys  = SubSeq(all.keys, 1, half),
                                 !.child = SubSeq(all.child, 1, half + 1)],
         middle |-> all.keys[half + 1],
         second |-> [node EXCEPT !.keys  = SubSeq(all.keys, half + 2, n),
                                 !.child = SubSeq(all.child, half + 2, n + 1)]]

AddFits ==
    LET p == Parent.pageNumber
    IN  /\ Len(page[p].keys) < MaxKeys
        /\ page' = [page EXCEPT ![p] = AM_AddtoIntPage(@, call.key, call.pageNum, Parent.offset)]
        /\ stack' = << >>
        /\ Return(AME_OK)
        /\ UNCHANGED <<numpages, pinned>>

(* The inner node is split, and its parent is next. *)
AddBelow(p, h) ==
    /\ p # AM_RootPageNum
    /\ page' = [page EXCEPT ![p] = h.first, ![numpages] = h.second]
    /\ numpages' = numpages + 1
    /\ call' = [pageNum |-> numpages, key |-> h.middle]
    /\ stack' = Front(stack)
    /\ UNCHANGED <<pinned, ret>>

AddAtRoot(p, h) ==
    /\ p = AM_RootPageNum
    /\ ~PoolIsFull(pinned \cup {p, numpages})
    /\ page' = [page EXCEPT ![numpages + 1] = h.first, ![numpages] = h.second,
                            ![p] = AM_FillRootPage(numpages + 1, numpages, h.middle)]
    /\ numpages' = numpages + 2
    /\ stack' = << >>
    /\ Return(AME_OK)
    /\ UNCHANGED pinned

(* There is no buffer for the root's first half: the root and the new node *)
(* stay fixed, and the page below is in no inner node.  For the new node   *)
(* there is one, as there was for the new page below.                      *)
AddFails(p, h) ==
    /\ p = AM_RootPageNum
    /\ PoolIsFull(pinned \cup {p, numpages})
    /\ page' = [page EXCEPT ![numpages] = h.second]
    /\ numpages' = numpages + 1
    /\ pinned' = pinned \cup {p, numpages}
    /\ stack' = << >>
    /\ Return(AME_PF)

AM_AddtoParent ==
    /\ ~Idle
    /\ LET p == Parent.pageNumber
           h == AM_SplitIntNode(page[p], call.key, call.pageNum, Parent.offset)
       IN  \/ AddFits
           \/ /\ Len(page[p].keys) = MaxKeys
              /\ AddBelow(p, h) \/ AddAtRoot(p, h) \/ AddFails(p, h)
    /\ UNCHANGED <<status, others>>

-----------------------------------------------------------------------------

AMNext ==
    \/ AM_CreateIndex \/ AM_DestroyIndex \/ PF_OpenFile \/ PF_CloseFile
    \/ OtherFiles
    \/ \E v \in Value, r \in RecId, known \in BOOLEAN : AM_InsertEntry(v, r, known)
    \/ \E v \in Value, r \in RecId, known \in BOOLEAN : AM_DeleteEntry(v, r, known)
    \/ AM_AddtoParent

AMSpec == AMInit /\ [][AMNext]_amvars
=============================================================================
