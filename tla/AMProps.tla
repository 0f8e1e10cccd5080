------------------------------ MODULE AMProps ------------------------------
(***************************************************************************)
(* What the access method must guarantee, and the sense in which it        *)
(* implements Index.                                                       *)
(***************************************************************************)
EXTENDS AM

Pages == 0 .. numpages - 1

LeafPages == {p \in Pages : page[p].pageType = "l"}

(* Every variable has its type; an inner node has one child more than keys. *)
AMTypeOK ==
    /\ status \in {"none", "closed", "open", "lost"}
    /\ numpages \in 0 .. MaxPages
    /\ DOMAIN page = PageNum
    /\ \A p \in PageNum :
         \/ page[p] \in Leaf
         \/ /\ page[p] \in IntNode
            /\ Len(page[p].keys) \in 1 .. MaxKeys
            /\ Len(page[p].child) = Len(page[p].keys) + 1
    /\ pinned \subseteq Pages
    /\ others \in 0 .. MaxOthers
    /\ stack \in Seq([pageNumber : PageNum, offset : 0 .. MaxKeys])
    /\ call \in {NoCall} \cup [pageNum : PageNum, key : Value]
    /\ ret \in {AME_OK, AME_INVALIDATTRLENGTH, AME_NOTFOUND, AME_PF}

-----------------------------------------------------------------------------
(* The leaves and the tree over them. *)

(* Within each leaf the lists of the keys and the free list share out the  *)
(* cells, over any sequence of insertions, deletions, compactions, splits. *)
LeavesAreSound == \A p \in LeafPages : LeafSound(page[p])

(* Mutant of LeftPageNum: the first leaf that was split off the root. *)
LeftPageOne == IF page[AM_RootPageNum].pageType = "l" THEN AM_RootPageNum ELSE 1

(* Where a scan of the whole index begins: GetLeftPageNum of amscan.c.     *)
LeftPageNum == IF page[AM_RootPageNum].pageType = "l" THEN AM_RootPageNum ELSE 2

(* The leaves from page first on by their numbers of next pages; as many   *)
(* as there are pages at most, should they go round.                       *)
ChainFrom(first) ==
    LET chain[x \in (AM_NULL_PAGE .. MaxPages - 1) \X (0 .. MaxPages)] ==
          IF x[1] = AM_NULL_PAGE \/ x[2] = 0 THEN << >>       \* x[2] pages from x[1] on
          ELSE IF page[x[1]].pageType = "i" THEN <<x[1]>>
          ELSE <<x[1]>> \o chain[<<page[x[1]].nextLeafPage, x[2] - 1>>]
    IN  chain[<<first, MaxPages>>]

Chain == ChainFrom(LeftPageNum)

(* From the leftmost leaf, which amscan.c:504 takes to be page 2, the      *)
(* chain of leaves comes to every leaf once and to every key in order.     *)
ChainIsWhole ==
    numpages > 0 =>
      LET leaves == Chain
          keys   == FlattenSeq([k \in DOMAIN leaves |-> Values(page[leaves[k]])])
      IN  /\ Range(leaves) = LeafPages
          /\ Cardinality(LeafPages) = Len(leaves)
          /\ \A j \in 1 .. Len(keys) - 1 : keys[j] < keys[j + 1]

(* Between calls a search for a value that is in some leaf comes to that   *)
(* leaf, unless a failed call has left a page of its path fixed.           *)
SearchFindsAll ==
    Idle => \A p \in LeafPages : \A v \in Range(Values(page[p])) :
              \/ Last(PathTo(v)) = p /\ Found(Values(page[p]), v)
              \/ Range(PathTo(v)) \cap pinned # {}

(* All leaves are as deep: every search passes as many inner nodes. *)
TreeIsBalanced ==
    numpages > 0 => Cardinality({Len(PathTo(v)) : v \in Value}) = 1

(* A call returns with its pages unfixed and the stack empty (amfns.c:239, *)
(* "so that it is set for next amlayer call").                             *)
NothingLeftBehind == Idle => pinned = {} /\ stack = << >>

-----------------------------------------------------------------------------
(* The entries, as a scan of the leaves finds them. *)

(* The entries in leaf p, each with the cell that has its record id. *)
EntriesIn(p) ==
    LET l == page[p]
    IN  UNION {{[value |-> l.keys[i].value, recId |-> l.recId[c], cell |-> <<p, c>>] :
                  c \in Range(KeyCells(l, i))} : i \in DOMAIN l.keys}

Entries ==
    LET all == UNION {EntriesIn(p) : p \in Range(Chain)}
    IN  [e \in Value \X RecId |-> Cardinality({x \in all : <<x.value, x.recId>> = e})]

IndexOf == INSTANCE Index WITH
    entries <- Entries,
    ret     <- IF Idle THEN ret ELSE AME_OK

(* The access method implements Index: splits and compactions do not show, *)
(* and a call that fails half-way loses no entry.                          *)
ImplementsIndex == IndexOf!IndexSpec

(* amfns.c:254: AM_InsertEntry "Inserts a value,recId pair into the tree": *)
(* when it returns AME_OK the pair is there once more, and nothing else    *)
(* has changed.  Where a leaf below the root splits the pair goes in with  *)
(* the split, and the AM_AddtoParent steps to the return keep all entries. *)
InsertsThePair ==
    [][/\ \A v \in Value, r \in RecId :
            AM_InsertEntry(v, r, TRUE) /\ (Idle' => ret' = AME_OK) =>
              Entries' = [Entries EXCEPT ![<<v, r>>] = @ + 1]
       /\ AM_AddtoParent => Entries' = Entries]_amvars
=============================================================================
