------------------------------- MODULE AMLeaf -------------------------------
(***************************************************************************)
(* A leaf of the B+ tree, amlayer/aminsert.c and the part of amfns.c that  *)
(* deletes: behind the header an array of keys that grows up, and from the *)
(* end of the page down the cells that hold record ids.  The ids of a key  *)
(* are a list of cells; cells no key uses are on the leaf's free list.     *)
(***************************************************************************)
EXTENDS Integers, SequencesExt

CONSTANTS
    LeafSpace,     \* PF_PAGE_SIZE - AM_sl, the bytes behind the header
    EntrySize,     \* attrLength + AM_ss, a key and the head of its list
    CellSize,      \* AM_si + AM_ss, a record id and the link to the next
    MaxPages,      \* BOUND: the file grows to this number of pages
    Value,         \* the values of the attribute, in their order
    RecId          \* the record ids

(* A page takes a key with one record, and more. *)
ASSUME AMLeafAssumption ==
    /\ LeafSpace \in Nat
    /\ EntrySize \in Nat \ {0}
    /\ CellSize \in Nat \ {0}
    /\ EntrySize + CellSize < LeafSpace
    /\ MaxPages \in Nat \ {0}
    /\ Value \subseteq Int /\ Value # {}
    /\ RecId # {}

AM_NULL      == 0     \* ends a list of cells
AM_NULL_PAGE == -1    \* ends the chain of leaves

(* A cell has the number it has counting from the end of the page, so that *)
(* recIdPtr, the lowest cell taken from there, is how many have been.      *)
MaxCell == LeafSpace \div CellSize
Cell    == 1 .. MaxCell
CellPtr == 0 .. MaxCell

Entry == [value : Value, head : CellPtr]

Leaf == [pageType      : {"l"},
         nextLeafPage  : AM_NULL_PAGE .. MaxPages - 1,
         keys          : Seq(Entry),
         recIdPtr      : CellPtr,
         freeListPtr   : CellPtr,
         numinfreeList : CellPtr,
         recId         : [Cell -> RecId],
         link          : [Cell -> CellPtr]]

(* What is in cells that were never taken does not matter. *)
EmptyLeaf == [pageType      |-> "l",
              nextLeafPage  |-> AM_NULL_PAGE,
              keys          |-> << >>,
              recIdPtr      |-> 0,
              freeListPtr   |-> AM_NULL,
              numinfreeList |-> 0,
              recId         |-> [c \in Cell |-> CHOOSE r \in RecId : TRUE],
              link          |-> [c \in Cell |-> AM_NULL]]

(* recIdPtr - keyPtr, the bytes between the keys and the cells. *)
Gap(l) == LeafSpace - Len(l.keys) * EntrySize - l.recIdPtr * CellSize

(* The list of cells from c on. *)
ListFrom(l, c) ==
    LET list[x \in CellPtr \X CellPtr] ==        \* x[2] cells from x[1] on
          IF x[1] = AM_NULL \/ x[2] = 0 THEN << >>
          ELSE <<x[1]>> \o list[<<l.link[x[1]], x[2] - 1>>]
    IN  list[<<c, MaxCell>>]

FreeCells(l)   == ListFrom(l, l.freeListPtr)
KeyCells(l, i) == ListFrom(l, l.keys[i].head)
RecIds(l, i)   == LET cells == KeyCells(l, i) IN [k \in DOMAIN cells |-> l.recId[cells[k]]]
Values(l)      == [i \in DOMAIN l.keys |-> l.keys[i].value]

-----------------------------------------------------------------------------
(* Searching, in a leaf and in an inner node alike. *)

(* A turn of the binary search for v, which is not to the left of b[1] and *)
(* not to the right of b[2].  A key that is not v is dropped with the half *)
(* that it rules out.                                                      *)
Halved(ks, v, b) ==
    LET low  == b[1]
        high == b[2]
        mid  == (low + high) \div 2
    IN  IF high - low <= 1 THEN b
        ELSE IF v < ks[mid] THEN <<low, mid - 1>>
        ELSE IF v > ks[mid] THEN <<mid + 1, high>>
        ELSE <<mid, mid>>

(* The two or fewer positions that the search leaves. *)
Narrow(ks, v) ==
    LET n == Len(ks)
        bounds[k \in 0 .. n] ==                  \* after k turns
          IF k = 0 THEN <<1, n>> ELSE Halved(ks, v, bounds[k - 1])
    IN  bounds[n][1] .. bounds[n][2]

(* Where v is in a leaf, or is to be inserted. *)
AM_SearchLeaf(ks, v) ==
    LET at == Narrow(ks, v)
    IN  IF at = {} THEN 1 ELSE Min({j \in at : v <= ks[j]} \cup {Max(at) + 1})

Found(ks, v) == AM_SearchLeaf(ks, v) <= Len(ks) /\ ks[AM_SearchLeaf(ks, v)] = v

(* Mutant of AM_BinSearch: for a key of the node it goes left. *)
BinSearchLeft(ks, v) ==
    LET at == Narrow(ks, v)
    IN  Max({j \in at : ks[j] < v} \cup {Min(at) - 1})

(* The number of keys of an inner node that are left of the child for v. *)
AM_BinSearch(ks, v) ==
    LET at == Narrow(ks, v)
    IN  Max({j \in at : ks[j] <= v} \cup {Min(at) - 1})

-----------------------------------------------------------------------------
(* Inserting. *)

(* Mutant of AM_InsertToLeafFound: a cell stays on the free list. *)
InsertKeepsFree(l, r, i) ==
    LET c == IF l.freeListPtr = AM_NULL THEN l.recIdPtr + 1 ELSE l.freeListPtr
    IN  [l EXCEPT !.recIdPtr = Max({@, c}),
                  !.recId[c] = r,
                  !.link[c] = l.keys[i].head,
                  !.keys[i].head = c]

(* r goes to the head of key i's list, in a free cell or else in a new one. *)
AM_InsertToLeafFound(l, r, i) ==
    LET new == l.freeListPtr = AM_NULL
        c   == IF new THEN l.recIdPtr + 1 ELSE l.freeListPtr
    IN  [l EXCEPT !.recIdPtr = IF new THEN c ELSE @,
                  !.freeListPtr = IF new THEN @ ELSE l.link[c],
                  !.numinfreeList = IF new THEN @ ELSE @ - 1,
                  !.recId[c] = r,
                  !.link[c] = l.keys[i].head,
                  !.keys[i].head = c]

AM_InsertToLeafNotFound(l, v, r, i) ==
    AM_InsertToLeafFound(
        [l EXCEPT !.keys = InsertAt(@, i, [value |-> v, head |-> AM_NULL])], r, i)

(* The keys from low to high with their lists, in cells taken one after    *)
(* the other.                                                              *)
Packed(l, low, high) ==
    LET n       == high - low + 1
        lists   == [j \in 1 .. n |-> RecIds(l, low + j - 1)]
        recs    == FlattenSeq(lists)
        upTo(j) == Len(FlattenSeq(SubSeq(lists, 1, j)))
        last    == {upTo(j) : j \in 1 .. n}
    IN  [l EXCEPT !.keys = [j \in 1 .. n |-> [value |-> l.keys[low + j - 1].value,
                                              head  |-> upTo(j - 1) + 1]],
                  !.recIdPtr = Len(recs),
                  !.recId = [c \in Cell |-> IF c <= Len(recs) THEN recs[c] ELSE @[c]],
                  !.link = [c \in Cell |-> IF c >= Len(recs) \/ c \in last
                                           THEN AM_NULL ELSE c + 1]]

(* Mutant of AM_Compact: the header keeps its free list. *)
CompactKeepsFree(l, low, high) == Packed(l, low, high)

AM_Compact(l, low, high) ==
    [Packed(l, low, high) EXCEPT !.freeListPtr = AM_NULL, !.numinfreeList = 0]

(* The tests of AM_InsertintoLeaf: there is room without a split. *)
Fits(l, found) ==
    IF found THEN l.freeListPtr # AM_NULL \/ Gap(l) >= CellSize
    ELSE IF l.freeListPtr = AM_NULL THEN Gap(l) >= CellSize + EntrySize
    ELSE \/ Gap(l) > EntrySize
         \/ l.numinfreeList * CellSize + Gap(l) > EntrySize + CellSize

(* What AM_InsertintoLeaf makes of the leaf: nothing, if it has no room. *)
AM_InsertintoLeaf(l, v, r, i, found) ==
    LET tight == l.freeListPtr # AM_NULL /\ Gap(l) <= EntrySize
    IN  IF ~Fits(l, found) THEN l
        ELSE IF found THEN AM_InsertToLeafFound(l, r, i)
        ELSE AM_InsertToLeafNotFound(IF tight THEN AM_Compact(l, 1, Len(l.keys)) ELSE l,
                                     v, r, i)

-----------------------------------------------------------------------------
(* Deleting. *)

(* The first cell of key i's list that holds r goes to the free list. *)
FreeRecord(l, i, r) ==
    LET cells  == KeyCells(l, i)
        k      == SelectInSeq(RecIds(l, i), LAMBDA x : x = r)
        c      == cells[k]
        linked == IF k = 1 THEN [l EXCEPT !.keys[i].head = l.link[c]]
                           ELSE [l EXCEPT !.link[cells[k - 1]] = l.link[c]]
    IN  [linked EXCEPT !.link[c] = l.freeListPtr, !.freeListPtr = c,
                       !.numinfreeList = @ + 1]

(* Mutant of DeleteFromLeaf: a key without records stays. *)
DeleteKeepsKey(l, i, r) == FreeRecord(l, i, r)

(* A key goes with the last of its records. *)
DeleteFromLeaf(l, i, r) ==
    LET freed == FreeRecord(l, i, r)
    IN  IF freed.keys[i].head = AM_NULL THEN [freed EXCEPT !.keys = RemoveAt(@, i)]
                                        ELSE freed

-----------------------------------------------------------------------------
(***************************************************************************)
(* A sound leaf: its keys ascend; each has a list, and the lists and the   *)
(* free list use every cell taken from the end of the page exactly once;   *)
(* keys and cells do not meet; the free cells are as many as is counted.   *)
(***************************************************************************)
LeafSound(l) ==
    LET lists == [i \in DOMAIN l.keys |-> KeyCells(l, i)]
        all   == FlattenSeq(Append(lists, FreeCells(l)))
    IN  /\ \A i \in 1 .. Len(l.keys) - 1 : l.keys[i].value < l.keys[i + 1].value
        /\ \A i \in DOMAIN lists : lists[i] # << >>
        /\ Len(all) = l.recIdPtr
        /\ Range(all) = 1 .. l.recIdPtr
        /\ l.numinfreeList = Len(FreeCells(l))
        /\ Gap(l) >= 0
=============================================================================
