------------------------------- MODULE RMPage -------------------------------
(***************************************************************************)
(* The slotted page of rmlayer/rm.c: a header at the start of the page,    *)
(* records behind it, each against the next, and a directory of slots that *)
(* grows down from the end of the page.                                    *)
(***************************************************************************)
EXTENDS Integers, Sequences, FiniteSets

CONSTANTS
    RM_PAGE_SIZE,     \* 4096 bytes in the code
    HeaderSize,       \* sizeof(PageHeader), 8
    SlotSize,         \* sizeof(SlotEntry), 8
    Datum,            \* the values a byte of a record can have
    Scrap             \* a byte that is part of no record

(* The page has room for a slot at least, and Scrap is no byte of a record. *)
ASSUME RMPageAssumption ==
    /\ HeaderSize \in Nat \ {0}
    /\ SlotSize \in Nat \ {0}
    /\ RM_PAGE_SIZE \in Nat
    /\ HeaderSize + SlotSize <= RM_PAGE_SIZE
    /\ Scrap \notin Datum

SLOT_EMPTY == -1

(* More slots than a page can have, as each has its entry of SlotSize bytes. *)
SlotNum == 0 .. RM_PAGE_SIZE - 1
Offset  == 0 .. RM_PAGE_SIZE - 1

SlotEntry == [recordOffset : HeaderSize .. RM_PAGE_SIZE,
              recordLength : SLOT_EMPTY .. RM_PAGE_SIZE]

(***************************************************************************)
(* byte is the page as a client of PF sees it.  The entries of the         *)
(* directory, which take the bytes from SlotOffset(k) on, are in slot; of  *)
(* these only the first numSlots mean anything.                            *)
(***************************************************************************)
Page == [numSlots        : 0 .. RM_PAGE_SIZE,
         freeSpaceOffset : HeaderSize .. RM_PAGE_SIZE,
         slot            : [SlotNum -> SlotEntry],
         byte            : [Offset -> Datum \cup {Scrap}]]

SlotOffset(k) == RM_PAGE_SIZE - SlotSize * (k + 1)

NoSlot == [recordOffset |-> HeaderSize, recordLength |-> SLOT_EMPTY]

BlankPage == [numSlots        |-> 0,
              freeSpaceOffset |-> HeaderSize,
              slot            |-> [k \in SlotNum |-> NoSlot],
              byte            |-> [i \in Offset |-> Scrap]]

RM_InitPage(pg) == [pg EXCEPT !.numSlots = 0, !.freeSpaceOffset = HeaderSize]

(* GET_CONTIGUOUS_FREE_SPACE *)
FreeSpace(pg) == RM_PAGE_SIZE - pg.numSlots * SlotSize - pg.freeSpaceOffset

Slots(pg) == 0 .. pg.numSlots - 1

EmptySlots(pg) == {k \in Slots(pg) : pg.slot[k].recordLength = SLOT_EMPTY}

LiveSlots(pg) == Slots(pg) \ EmptySlots(pg)

(* Room for the data, and for the entry of a new slot if none is empty. *)
HasRoom(pg, length) ==
    FreeSpace(pg) >= IF EmptySlots(pg) = {} THEN length + SlotSize ELSE length

(* The record of slot k. *)
Record(pg, k) ==
    [i \in 1 .. pg.slot[k].recordLength |-> pg.byte[pg.slot[k].recordOffset + i - 1]]

(***************************************************************************)
(* data goes to the end of the records and its place into slot k.  The     *)
(* entry is written last, over whatever bytes it falls on.                 *)
(***************************************************************************)
StoreRecord(pg, k, data) ==
    LET at == pg.freeSpaceOffset
    IN  [numSlots        |-> IF k = pg.numSlots THEN k + 1 ELSE pg.numSlots,
         freeSpaceOffset |-> at + Len(data),
         slot            |-> [pg.slot EXCEPT ![k] = [recordOffset |-> at,
                                                     recordLength |-> Len(data)]],
         byte            |-> [i \in Offset |->
                                IF SlotOffset(k) <= i /\ i < SlotOffset(k) + SlotSize THEN Scrap
                                ELSE IF at <= i /\ i < at + Len(data) THEN data[i - at + 1]
                                ELSE pg.byte[i]]]

(* Mutant of EraseRecord: the records that moved keep their old offsets. *)
EraseRecordInPlace(pg, k) ==
    LET hole == pg.slot[k].recordOffset
        size == pg.slot[k].recordLength
    IN  [pg EXCEPT
           !.slot[k].recordLength = SLOT_EMPTY,
           !.byte = [i \in Offset |->
                       IF hole <= i /\ i < pg.freeSpaceOffset - size THEN @[i + size]
                                                                    ELSE @[i]],
           !.freeSpaceOffset = @ - size]

(* Mutant of EraseRecord: the slot is not marked empty. *)
EraseRecordOnly(pg, k) == [EraseRecordInPlace(pg, k) EXCEPT !.slot = pg.slot]

(* Slot k is emptied, and the records behind its own move up to its place. *)
EraseRecord(pg, k) ==
    LET hole == pg.slot[k].recordOffset
        size == pg.slot[k].recordLength
        Moved(e) == e.recordLength # SLOT_EMPTY /\ e.recordOffset > hole
        Emptied  == [pg.slot EXCEPT ![k].recordLength = SLOT_EMPTY]
    IN  [numSlots        |-> pg.numSlots,
         freeSpaceOffset |-> pg.freeSpaceOffset - size,
         slot            |-> [j \in SlotNum |->
                                IF j < pg.numSlots /\ Moved(Emptied[j])
                                THEN [Emptied[j] EXCEPT !.recordOffset = @ - size]
                                ELSE Emptied[j]],
         byte            |-> [i \in Offset |->
                                IF hole <= i /\ i < pg.freeSpaceOffset - size
                                THEN pg.byte[i + size]
                                ELSE pg.byte[i]]]

(* The bytes [first, last) a live slot's record takes. *)
First(pg, k) == pg.slot[k].recordOffset
Last(pg, k)  == First(pg, k) + pg.slot[k].recordLength

(* What every page must be: the directory and the records do not meet, each *)
(* record lies inside the data, and no two records share a byte.            *)
PageSound(pg) ==
    /\ pg.freeSpaceOffset <= RM_PAGE_SIZE - pg.numSlots * SlotSize
    /\ \A k \in LiveSlots(pg) : Last(pg, k) <= pg.freeSpaceOffset
    /\ \A j, k \in LiveSlots(pg) :
         j # k => Last(pg, j) <= First(pg, k) \/ Last(pg, k) <= First(pg, j)
=============================================================================
