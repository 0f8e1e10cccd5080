------------------------------ MODULE RMProofs ------------------------------
(***************************************************************************)
(* The record manager keeps its pages sound, its scans keep their pages,   *)
(* and it implements RecordFile.                                           *)
(***************************************************************************)
EXTENDS RMProps, FiniteSetTheorems, WellFoundedInduction, TLAPS

(***************************************************************************)
(* First what storing and erasing a record keep of a page: its type, and   *)
(* that the directory and the records are apart (PageSound).               *)
(***************************************************************************)
(* The directory of n slots takes n bytes at least, and SlotSize more with *)
(* each slot.                                                              *)
LEMMA DirectorySize ==
  ASSUME NEW n \in Nat
  PROVE  /\ n * SlotSize \in Nat
         /\ n <= n * SlotSize
         /\ (n + 1) * SlotSize = n * SlotSize + SlotSize
<1> USE RMPageAssumption DEF RMPageAssumption
<1>1. (n + 1) * SlotSize = n * SlotSize + SlotSize
  OBVIOUS
<1>2. n * SlotSize = n * (SlotSize - 1) + n
  OBVIOUS
<1>3. n * (SlotSize - 1) \in Nat
  OBVIOUS
<1> QED  BY <1>1, <1>2, <1>3

(* A sound page has fewer slots than bytes, so the next slot has a number. *)
LEMMA NextSlotExists ==
  ASSUME NEW pg \in Page, PageSound(pg)
  PROVE  /\ pg.numSlots \in SlotNum
         /\ Slots(pg) \subseteq SlotNum
<1> USE RMPageAssumption DEF RMPageAssumption
<1>1. pg.numSlots \in Nat /\ pg.freeSpaceOffset \in HeaderSize .. RM_PAGE_SIZE
  BY DEF Page
<1>2. pg.freeSpaceOffset <= RM_PAGE_SIZE - pg.numSlots * SlotSize
  BY DEF PageSound
<1>3. pg.numSlots <= pg.numSlots * SlotSize /\ pg.numSlots * SlotSize \in Nat
  BY <1>1, DirectorySize
<1> QED  BY <1>1, <1>2, <1>3 DEF SlotNum, Slots

(* An empty page is sound. *)
LEMMA InitPageSound ==
  ASSUME NEW pg \in Page
  PROVE  /\ RM_InitPage(pg) \in Page
         /\ PageSound(RM_InitPage(pg))
<1> USE RMPageAssumption DEF RMPageAssumption
<1>1. RM_InitPage(pg) \in Page
  <2>1. 0 \in 0 .. RM_PAGE_SIZE /\ HeaderSize \in HeaderSize .. RM_PAGE_SIZE
    OBVIOUS
  <2> HIDE RMPageAssumption
  <2> QED  BY <2>1 DEF RM_InitPage, Page
<1>2. /\ RM_InitPage(pg).numSlots = 0
      /\ RM_InitPage(pg).freeSpaceOffset = HeaderSize
  BY DEF RM_InitPage, Page
<1>3. Slots(RM_InitPage(pg)) = {}
  BY <1>2 DEF Slots
<1>4. 0 * SlotSize = 0
  OBVIOUS
<1> QED  BY <1>1, <1>2, <1>3, <1>4 DEF PageSound, LiveSlots

(* There is room for n bytes and for the directory with slot k in use. *)
Fits(pg, k, n) ==
    pg.freeSpaceOffset + n <=
      RM_PAGE_SIZE - SlotSize * (IF k = pg.numSlots THEN pg.numSlots + 1 ELSE pg.numSlots)

(***************************************************************************)
(* Storing a record of n bytes into slot k keeps a page sound if there is  *)
(* room for its bytes and for the directory as it is then, whatever the    *)
(* slot held.                                                              *)
(***************************************************************************)
LEMMA StoreSound ==
  ASSUME NEW pg \in Page, PageSound(pg),
         NEW k \in SlotNum,
         NEW data \in Seq(Datum),
         Fits(pg, k, Len(data))
  PROVE  /\ StoreRecord(pg, k, data) \in Page
         /\ PageSound(StoreRecord(pg, k, data))
         /\ Slots(pg) \subseteq Slots(StoreRecord(pg, k, data))
<1> USE RMPageAssumption DEF RMPageAssumption
<1> DEFINE new == StoreRecord(pg, k, data)
           at  == pg.freeSpaceOffset
<1>1. /\ Len(data) \in Nat
      /\ pg.numSlots \in 0 .. RM_PAGE_SIZE
      /\ at \in HeaderSize .. RM_PAGE_SIZE
      /\ pg.slot \in [SlotNum -> SlotEntry]
      /\ pg.byte \in [Offset -> Datum \cup {Scrap}]
  BY DEF Page
<1>2. /\ new.numSlots = IF k = pg.numSlots THEN k + 1 ELSE pg.numSlots
      /\ new.freeSpaceOffset = at + Len(data)
      /\ new.slot = [pg.slot EXCEPT ![k] = [recordOffset |-> at, recordLength |-> Len(data)]]
  BY DEF StoreRecord
<1>3. k = pg.numSlots => k + 1 \in 0 .. RM_PAGE_SIZE
  BY DEF SlotNum
<1>4. at + Len(data) <= RM_PAGE_SIZE - new.numSlots * SlotSize
  BY <1>1, <1>2 DEF Fits
<1>5. new.numSlots * SlotSize \in Nat
  BY <1>1, <1>2, <1>3, DirectorySize
<1>6. at + Len(data) \in HeaderSize .. RM_PAGE_SIZE /\ Len(data) \in SLOT_EMPTY .. RM_PAGE_SIZE
  <2> DEFINE n == Len(data)
             d == new.numSlots * SlotSize
  <2>1. n \in Nat /\ d \in Nat /\ at \in HeaderSize .. RM_PAGE_SIZE
        /\ at + n <= RM_PAGE_SIZE - d
    BY <1>1, <1>4, <1>5
  <2> HIDE DEF n, d, at
  <2>2. at + n \in HeaderSize .. RM_PAGE_SIZE /\ n \in SLOT_EMPTY .. RM_PAGE_SIZE
    BY <2>1 DEF SLOT_EMPTY
  <2> QED  BY <2>2 DEF n
<1>7. new \in Page
  <2>1. new.slot \in [SlotNum -> SlotEntry]
    BY <1>1, <1>2, <1>6 DEF SlotEntry
  <2>2. \A i \in 1 .. Len(data) : data[i] \in Datum
    OBVIOUS
  <2>3. new.byte \in [Offset -> Datum \cup {Scrap}]
    <3>1. new.byte = [i \in Offset |->
                        IF SlotOffset(k) <= i /\ i < SlotOffset(k) + SlotSize THEN Scrap
                        ELSE IF at <= i /\ i < at + Len(data) THEN data[i - at + 1]
                        ELSE pg.byte[i]]
      BY DEF StoreRecord
    <3>2. \A i \in Offset : at <= i /\ i < at + Len(data) => data[i - at + 1] \in Datum
      BY <1>1, <2>2 DEF Offset
    <3>3. \A i \in Offset : pg.byte[i] \in Datum \cup {Scrap}
      BY <1>1
    <3> QED  BY <3>1, <3>2, <3>3
  <2>4. new = [numSlots |-> new.numSlots, freeSpaceOffset |-> new.freeSpaceOffset,
               slot |-> new.slot, byte |-> new.byte]
    BY DEF StoreRecord
  <2> HIDE DEF new
  <2> QED  BY <1>1, <1>2, <1>3, <1>6, <2>1, <2>3, <2>4 DEF Page
<1> HIDE DEF new
<1>8. \A j \in LiveSlots(new) : j # k => j \in LiveSlots(pg) /\ new.slot[j] = pg.slot[j]
  <2> SUFFICES ASSUME NEW j \in LiveSlots(new), j # k
               PROVE  j \in LiveSlots(pg) /\ new.slot[j] = pg.slot[j]
    OBVIOUS
  <2>1. j \in Slots(new) /\ new.slot[j].recordLength # SLOT_EMPTY
    BY DEF LiveSlots, EmptySlots
  <2>2. j \in Slots(pg)
    BY <1>1, <1>2, <2>1 DEF Slots
  <2>3. new.slot[j] = pg.slot[j]
    BY <1>1, <1>2, <2>2, NextSlotExists
  <2> QED  BY <2>1, <2>2, <2>3 DEF LiveSlots, EmptySlots
<1>9. k \in LiveSlots(new) => First(new, k) = at /\ Last(new, k) = at + Len(data)
  BY <1>1, <1>2 DEF First, Last
<1>10. \A j \in LiveSlots(pg) : /\ pg.slot[j].recordOffset \in Int
                                /\ pg.slot[j].recordLength \in Nat
  BY <1>1, NextSlotExists, SMTT(40) DEF LiveSlots, EmptySlots, SlotEntry, SLOT_EMPTY
<1>11. \A j \in LiveSlots(new) : j # k => Last(new, j) <= at
  BY <1>8 DEF PageSound, First, Last
<1>12. \A j \in LiveSlots(new) : Last(new, j) <= new.freeSpaceOffset
  <2> SUFFICES ASSUME NEW j \in LiveSlots(new)
               PROVE  Last(new, j) <= at + Len(data)
    BY <1>2
  <2>1. CASE j = k
    BY <2>1, <1>1, <1>9
  <2>2. CASE j # k
    <3>1. Last(new, j) <= at
      BY <2>2, <1>11
    <3>2. Last(new, j) \in Int
      <4>1. j \in LiveSlots(pg) /\ new.slot[j] = pg.slot[j]
        BY <2>2, <1>8
      <4>2. pg.slot[j].recordOffset \in Int /\ pg.slot[j].recordLength \in Nat
        BY <4>1, <1>10
      <4> QED  BY <4>1, <4>2 DEF First, Last
    <3> QED  BY <3>1, <3>2, <1>1
  <2> QED  BY <2>1, <2>2
<1>13. ASSUME NEW i \in LiveSlots(new), NEW j \in LiveSlots(new), i # j
       PROVE  Last(new, i) <= First(new, j) \/ Last(new, j) <= First(new, i)
  <2>1. CASE i = k
    BY <2>1, <1>9, <1>11, <1>13
  <2>2. CASE j = k
    BY <2>2, <1>9, <1>11, <1>13
  <2>3. CASE i # k /\ j # k
    BY <2>3, <1>8, <1>13 DEF PageSound, First, Last
  <2> QED  BY <2>1, <2>2, <2>3
<1>14. Slots(pg) \subseteq Slots(new)
  BY <1>1, <1>2 DEF Slots
<1> QED  BY <1>2, <1>4, <1>7, <1>12, <1>13, <1>14 DEF PageSound, new

(***************************************************************************)
(* Erasing the record of a live slot keeps a page sound: what lies behind  *)
(* the record moves up by just its length, and no other record did.        *)
(***************************************************************************)
LEMMA EraseSound ==
  ASSUME NEW pg \in Page, PageSound(pg),
         NEW k \in LiveSlots(pg)
  PROVE  /\ EraseRecord(pg, k) \in Page
         /\ PageSound(EraseRecord(pg, k))
         /\ EraseRecord(pg, k).numSlots = pg.numSlots
<1> USE RMPageAssumption DEF RMPageAssumption
<1> DEFINE new     == EraseRecord(pg, k)
           hole    == pg.slot[k].recordOffset
           size    == pg.slot[k].recordLength
           free    == pg.freeSpaceOffset
           Behind(j) == pg.slot[j].recordOffset > hole
<1>1. /\ pg.numSlots \in 0 .. RM_PAGE_SIZE
      /\ free \in HeaderSize .. RM_PAGE_SIZE
      /\ pg.slot \in [SlotNum -> SlotEntry]
      /\ pg.byte \in [Offset -> Datum \cup {Scrap}]
  BY DEF Page
<1>2. Slots(pg) \subseteq SlotNum
  BY NextSlotExists
<1>3. \A j \in SlotNum : /\ pg.slot[j].recordOffset \in HeaderSize .. RM_PAGE_SIZE
                         /\ pg.slot[j].recordLength \in SLOT_EMPTY .. RM_PAGE_SIZE
  BY <1>1 DEF SlotEntry
<1>4. \A j \in LiveSlots(pg) : /\ j \in SlotNum
                               /\ pg.slot[j].recordOffset \in HeaderSize .. RM_PAGE_SIZE
                               /\ pg.slot[j].recordLength \in 0 .. RM_PAGE_SIZE
                               /\ pg.slot[j].recordOffset + pg.slot[j].recordLength <= free
  BY <1>2, <1>3 DEF LiveSlots, EmptySlots, SLOT_EMPTY, PageSound, First, Last
<1>5. hole \in HeaderSize .. RM_PAGE_SIZE /\ size \in 0 .. RM_PAGE_SIZE /\ hole + size <= free
  BY <1>4
<1>6. ASSUME NEW j \in LiveSlots(pg), Behind(j)
      PROVE  pg.slot[j].recordOffset >= hole + size
  <2>1. j # k
    BY <1>4, <1>6
  <2>2. Last(pg, j) <= First(pg, k) \/ Last(pg, k) <= First(pg, j)
    BY <2>1 DEF PageSound
  <2> QED  BY <2>2, <1>4, <1>5, <1>6 DEF First, Last
<1>7. /\ new.numSlots = pg.numSlots
      /\ new.freeSpaceOffset = free - size
  BY DEF EraseRecord, Page
<1>8. new.slot = [j \in SlotNum |->
        LET e == [pg.slot EXCEPT ![k].recordLength = SLOT_EMPTY][j]
        IN  IF j < pg.numSlots /\ e.recordLength # SLOT_EMPTY /\ e.recordOffset > hole
            THEN [e EXCEPT !.recordOffset = @ - size] ELSE e]
  BY DEF EraseRecord, Page
<1>9. \A j \in SlotNum :
        [pg.slot EXCEPT ![k].recordLength = SLOT_EMPTY][j] =
          IF j = k THEN [pg.slot[j] EXCEPT !.recordLength = SLOT_EMPTY] ELSE pg.slot[j]
  BY <1>1
<1>10. new.slot[k] = [pg.slot[k] EXCEPT !.recordLength = SLOT_EMPTY]
  BY <1>1, <1>4, <1>8, <1>9 DEF SlotEntry
<1>11. \A j \in SlotNum : j # k =>
         new.slot[j] = IF j \in LiveSlots(pg) /\ Behind(j)
                       THEN [pg.slot[j] EXCEPT !.recordOffset = @ - size] ELSE pg.slot[j]
  <2> SUFFICES ASSUME NEW j \in SlotNum, j # k
               PROVE  new.slot[j] = IF j \in LiveSlots(pg) /\ Behind(j)
                                    THEN [pg.slot[j] EXCEPT !.recordOffset = @ - size]
                                    ELSE pg.slot[j]
    OBVIOUS
  <2>1. j \in LiveSlots(pg) <=> j < pg.numSlots /\ pg.slot[j].recordLength # SLOT_EMPTY
    BY <1>1, SMTT(40) DEF LiveSlots, EmptySlots, Slots, SlotNum
  <2>2. [pg.slot EXCEPT ![k].recordLength = SLOT_EMPTY][j] = pg.slot[j]
    BY <1>9
  <2> QED  BY <1>8, <2>1, <2>2
<1>12. new \in Page
  <2>1. \A j \in SlotNum : new.slot[j] \in SlotEntry
    <3> SUFFICES ASSUME NEW j \in SlotNum
                 PROVE  new.slot[j] \in SlotEntry
      OBVIOUS
    <3>1. CASE j = k
      BY <3>1, <1>10, <1>1 DEF SlotEntry, SLOT_EMPTY
    <3>2. CASE j # k /\ j \in LiveSlots(pg) /\ Behind(j)
      <4>1. pg.slot[j].recordOffset - size \in HeaderSize .. RM_PAGE_SIZE
        BY <3>2, <1>4, <1>5, <1>6
      <4> QED  BY <3>2, <4>1, <1>1, <1>11, ZenonT(60) DEF SlotEntry
    <3>3. CASE j # k /\ ~(j \in LiveSlots(pg) /\ Behind(j))
      BY <3>3, <1>1, <1>11
    <3> QED  BY <3>1, <3>2, <3>3
  <2>2. new.slot \in [SlotNum -> SlotEntry]
    BY <2>1, <1>8
  <2>3. new.byte \in [Offset -> Datum \cup {Scrap}]
    <3>1. new.byte = [i \in Offset |-> IF hole <= i /\ i < free - size THEN pg.byte[i + size]
                                                                      ELSE pg.byte[i]]
      BY DEF EraseRecord, Page
    <3>2. \A i \in Offset : hole <= i /\ i < free - size => i + size \in Offset
      <4>1. hole \in Nat /\ size \in Nat /\ free \in Int /\ free <= RM_PAGE_SIZE
        BY <1>1, <1>5
      <4> HIDE DEF hole, size, free
      <4> QED  BY <4>1 DEF Offset
    <3> QED  BY <3>1, <3>2, <1>1
  <2>4. free - size \in HeaderSize .. RM_PAGE_SIZE
    BY <1>1, <1>5
  <2>5. new = [numSlots |-> new.numSlots, freeSpaceOffset |-> new.freeSpaceOffset,
               slot |-> new.slot, byte |-> new.byte]
    BY DEF EraseRecord
  <2> HIDE DEF new
  <2> QED  BY <1>1, <1>7, <2>2, <2>3, <2>4, <2>5 DEF Page
<1> HIDE DEF new
<1>13. \A j \in LiveSlots(new) : j # k /\ j \in LiveSlots(pg)
  <2> SUFFICES ASSUME NEW j \in LiveSlots(new)
               PROVE  j # k /\ j \in LiveSlots(pg)
    OBVIOUS
  <2>1. j \in Slots(pg) /\ new.slot[j].recordLength # SLOT_EMPTY /\ j \in SlotNum
    BY <1>2, <1>7 DEF LiveSlots, EmptySlots, Slots
  <2>2. j # k
    BY <2>1, <1>1, <1>4, <1>10 DEF SlotEntry
  <2>3. new.slot[j].recordLength = pg.slot[j].recordLength
    BY <2>1, <2>2, <1>1, <1>11 DEF SlotEntry
  <2> QED  BY <2>1, <2>2, <2>3 DEF LiveSlots, EmptySlots
<1>14. \A j \in LiveSlots(new) :
         /\ First(new, j) = IF Behind(j) THEN First(pg, j) - size ELSE First(pg, j)
         /\ Last(new, j) = IF Behind(j) THEN Last(pg, j) - size ELSE Last(pg, j)
  <2> SUFFICES ASSUME NEW j \in LiveSlots(new)
               PROVE  /\ First(new, j) = IF Behind(j) THEN First(pg, j) - size ELSE First(pg, j)
                      /\ Last(new, j) = IF Behind(j) THEN Last(pg, j) - size ELSE Last(pg, j)
    OBVIOUS
  <2>1. j # k /\ j \in LiveSlots(pg) /\ j \in SlotNum
    BY <1>4, <1>13
  <2>2. new.slot[j] = IF Behind(j) THEN [pg.slot[j] EXCEPT !.recordOffset = @ - size]
                                   ELSE pg.slot[j]
    BY <2>1, <1>11
  <2>3. pg.slot[j] \in SlotEntry
    BY <2>1, <1>1
  <2>4. /\ new.slot[j].recordLength = pg.slot[j].recordLength
        /\ new.slot[j].recordOffset = IF Behind(j) THEN pg.slot[j].recordOffset - size
                                                   ELSE pg.slot[j].recordOffset
    BY <2>2, <2>3 DEF SlotEntry
  <2>5. pg.slot[j].recordOffset \in Int /\ pg.slot[j].recordLength \in Int /\ size \in Int
    BY <2>1, <1>4, <1>5
  <2> HIDE DEF size, hole
  <2> QED  BY <2>4, <2>5 DEF First, Last
<1>15. \A j \in LiveSlots(pg) : j # k /\ ~Behind(j) => Last(pg, j) <= free - size
  <2> SUFFICES ASSUME NEW j \in LiveSlots(pg), j # k, ~Behind(j)
               PROVE  Last(pg, j) <= free - size
    OBVIOUS
  <2>1. Last(pg, j) <= First(pg, k) \/ Last(pg, k) <= First(pg, j)
    BY DEF PageSound
  <2> QED  BY <2>1, <1>1, <1>4, <1>5 DEF First, Last
<1>16. \A j \in LiveSlots(new) : Last(new, j) <= new.freeSpaceOffset
  <2> SUFFICES ASSUME NEW j \in LiveSlots(new)
               PROVE  Last(new, j) <= free - size
    BY <1>7
  <2>1. j # k /\ j \in LiveSlots(pg)
    BY <1>13
  <2> QED  BY <2>1, <1>1, <1>4, <1>5, <1>14, <1>15 DEF First, Last
<1>17. ASSUME NEW i \in LiveSlots(new), NEW j \in LiveSlots(new), i # j
       PROVE  Last(new, i) <= First(new, j) \/ Last(new, j) <= First(new, i)
  <2>1. /\ i # k /\ i \in LiveSlots(pg)
        /\ j # k /\ j \in LiveSlots(pg)
    BY <1>13
  <2>2. /\ Last(pg, i) <= First(pg, j) \/ Last(pg, j) <= First(pg, i)
        /\ Last(pg, i) <= First(pg, k) \/ Last(pg, k) <= First(pg, i)
        /\ Last(pg, j) <= First(pg, k) \/ Last(pg, k) <= First(pg, j)
    BY <2>1, <1>17 DEF PageSound
  <2> QED  BY <2>1, <2>2, <1>4, <1>5, <1>6, <1>14 DEF First, Last
<1>18. new.freeSpaceOffset <= RM_PAGE_SIZE - new.numSlots * SlotSize
  <2> DEFINE d == pg.numSlots * SlotSize
  <2>1. free <= RM_PAGE_SIZE - d
    BY DEF PageSound
  <2>2. d \in Nat
    <3>1. pg.numSlots \in Nat
      BY <1>1
    <3> HIDE RMPageAssumption
    <3>2. pg.numSlots * SlotSize \in Nat
      BY ONLY <3>1, DirectorySize
    <3> QED  BY <3>2
  <2> HIDE DEF d
  <2>3. free - size <= RM_PAGE_SIZE - d
    BY <2>1, <2>2, <1>1, <1>5
  <2> QED  BY <2>3, <1>7 DEF d
<1> QED  BY <1>7, <1>12, <1>16, <1>17, <1>18 DEF PageSound, new

-----------------------------------------------------------------------------
(* What they keep of the records.                                          *)

(* Where a sound page has the record of a live slot.                       *)
LEMMA RecordPlace ==
  ASSUME NEW pg \in Page, PageSound(pg), NEW j \in LiveSlots(pg)
  PROVE  /\ j \in Slots(pg) /\ j \in SlotNum
         /\ pg.slot[j].recordOffset \in Nat
         /\ HeaderSize <= pg.slot[j].recordOffset
         /\ pg.slot[j].recordLength \in Nat
         /\ pg.slot[j].recordOffset + pg.slot[j].recordLength <= pg.freeSpaceOffset
         /\ pg.freeSpaceOffset \in Nat /\ pg.freeSpaceOffset <= RM_PAGE_SIZE
         /\ pg.numSlots \in Nat
<1> USE RMPageAssumption DEF RMPageAssumption
<1>1. j \in Slots(pg) /\ j \in SlotNum /\ pg.slot[j].recordLength # SLOT_EMPTY
  BY NextSlotExists DEF LiveSlots, EmptySlots
<1>2. pg.slot[j] \in SlotEntry /\ pg.freeSpaceOffset \in HeaderSize .. RM_PAGE_SIZE
      /\ pg.numSlots \in 0 .. RM_PAGE_SIZE
  BY <1>1 DEF Page
<1>3. /\ pg.slot[j].recordOffset \in HeaderSize .. RM_PAGE_SIZE
      /\ pg.slot[j].recordLength \in SLOT_EMPTY .. RM_PAGE_SIZE
  BY <1>2 DEF SlotEntry
<1>4. pg.slot[j].recordOffset + pg.slot[j].recordLength <= pg.freeSpaceOffset
  BY DEF PageSound, First, Last
<1> QED  BY <1>1, <1>2, <1>3, <1>4 DEF SLOT_EMPTY

(* A record is a sequence of its length.                                   *)
LEMMA RecordLen ==
  ASSUME NEW pg \in Page, PageSound(pg), NEW j \in LiveSlots(pg)
  PROVE  Len(Record(pg, j)) = pg.slot[j].recordLength
<1>1. pg.slot[j].recordLength \in Nat
  BY RecordPlace
<1> QED  BY <1>1 DEF Record

(* Stored into a slot that is empty or new, a record is there, and the     *)
(* others are as they were.                                                *)
LEMMA StoreKeepsRecords ==
  ASSUME NEW pg \in Page, PageSound(pg),
         NEW k \in EmptySlots(pg) \cup {pg.numSlots},
         NEW data \in Seq(Datum),
         Fits(pg, k, Len(data))
  PROVE  /\ k \notin LiveSlots(pg)
         /\ LiveSlots(StoreRecord(pg, k, data)) = LiveSlots(pg) \cup {k}
         /\ Record(StoreRecord(pg, k, data), k) = data
         /\ \A j \in LiveSlots(pg) :
              Record(StoreRecord(pg, k, data), j) = Record(pg, j)
<1> USE RMPageAssumption DEF RMPageAssumption
<1> DEFINE new == StoreRecord(pg, k, data)
           at  == pg.freeSpaceOffset
           n   == Len(data)
<1>1. /\ n \in Nat
      /\ pg.numSlots \in Nat
      /\ at \in Nat /\ at <= RM_PAGE_SIZE
      /\ pg.slot \in [SlotNum -> SlotEntry]
      /\ pg.byte \in [Offset -> Datum \cup {Scrap}]
  BY DEF Page
<1>2. k \in SlotNum /\ k \in Nat /\ k <= pg.numSlots
  BY <1>1, NextSlotExists DEF EmptySlots, Slots, SlotNum
<1>3. k \notin LiveSlots(pg)
  BY <1>1 DEF LiveSlots, Slots
<1>4. /\ new.numSlots = IF k = pg.numSlots THEN k + 1 ELSE pg.numSlots
      /\ new.slot = [pg.slot EXCEPT ![k] = [recordOffset |-> at, recordLength |-> n]]
  BY DEF StoreRecord
<1>5. \A i \in Offset :
        new.byte[i] = IF SlotOffset(k) <= i /\ i < SlotOffset(k) + SlotSize THEN Scrap
                      ELSE IF at <= i /\ i < at + n THEN data[i - at + 1]
                      ELSE pg.byte[i]
  BY DEF StoreRecord
<1> HIDE DEF new
<1>6. at + n <= SlotOffset(k) /\ SlotOffset(k) \in Int /\ at + n <= RM_PAGE_SIZE
  <2> DEFINE m == IF k = pg.numSlots THEN pg.numSlots + 1 ELSE pg.numSlots
  <2>1. at + n <= RM_PAGE_SIZE - SlotSize * m
    BY DEF Fits
  <2>2. m \in Nat /\ k + 1 <= m
    <3>1. k # pg.numSlots => k < pg.numSlots
      BY <1>1, <1>2
    <3> QED  BY <3>1, <1>1, <1>2
  <2> HIDE DEF m
  <2>3. SlotSize * m = SlotSize * (k + 1) + SlotSize * (m - k - 1)
    BY <2>2, <1>2
  <2>4. SlotSize * (m - k - 1) \in Nat /\ SlotSize * (k + 1) \in Nat
    BY <2>2, <1>2
  <2>5. SlotSize * m \in Nat
    BY <2>3, <2>4
  <2> HIDE DEF n, at
  <2>6. at + n <= RM_PAGE_SIZE - SlotSize * (k + 1)
    BY <2>1, <2>3, <2>4, <2>5, <1>1
  <2> QED  BY <2>4, <2>6, <1>1 DEF SlotOffset
<1>7. new.slot[k].recordOffset = at /\ new.slot[k].recordLength = n
  BY <1>1, <1>2, <1>4
<1>8. \A j \in SlotNum : j # k => new.slot[j] = pg.slot[j]
  BY <1>1, <1>4
<1>9. LiveSlots(new) = LiveSlots(pg) \cup {k}
  <2>1. Slots(new) = Slots(pg) \cup {k}
    BY <1>1, <1>2, <1>4 DEF Slots
  <2>2. k \notin EmptySlots(new)
    BY <1>1, <1>7 DEF EmptySlots, SLOT_EMPTY
  <2>3. \A j \in Slots(pg) : j # k => (j \in EmptySlots(new) <=> j \in EmptySlots(pg))
    BY <2>1, <1>8, NextSlotExists DEF EmptySlots
  <2> QED  BY <2>1, <2>2, <2>3, <1>3 DEF LiveSlots
<1>10. Record(new, k) = data
  <2>1. \A i \in 1 .. n : new.byte[at + i - 1] = data[i]
    <3> SUFFICES ASSUME NEW i \in 1 .. n
                 PROVE  new.byte[at + i - 1] = data[i]
      OBVIOUS
    <3> DEFINE x == at + i - 1
    <3> HIDE DEF n, at
    <3>1. x \in Offset /\ x < SlotOffset(k) /\ at <= x /\ x < at + n /\ x - at + 1 = i
      BY <1>1, <1>6, SMTT(40) DEF Offset
    <3> HIDE DEF x
    <3>2. ~(SlotOffset(k) <= x)
      BY <3>1, <1>1, <1>6 DEF Offset
    <3> QED  BY <3>1, <3>2, <1>5 DEF x
  <2>2. Record(new, k) = [i \in 1 .. n |-> new.byte[at + i - 1]]
    BY <1>7 DEF Record
  <2>3. Record(new, k) = [i \in 1 .. n |-> data[i]]
    BY <2>1, <2>2
  <2>4. data = [i \in 1 .. n |-> data[i]]
    OBVIOUS
  <2> QED  BY <2>3, <2>4
<1>11. ASSUME NEW j \in LiveSlots(pg)
       PROVE  Record(new, j) = Record(pg, j)
  <2> DEFINE o == pg.slot[j].recordOffset
             l == pg.slot[j].recordLength
  <2>1. /\ o \in Nat /\ l \in Nat /\ o + l <= at
        /\ new.slot[j] = pg.slot[j]
    BY <1>3, <1>8, RecordPlace
  <2>2. \A i \in 1 .. l : new.byte[o + i - 1] = pg.byte[o + i - 1]
    <3> SUFFICES ASSUME NEW i \in 1 .. l
                 PROVE  new.byte[o + i - 1] = pg.byte[o + i - 1]
      OBVIOUS
    <3> DEFINE x == o + i - 1
    <3> HIDE DEF n, at, o, l
    <3>1. x \in Offset /\ x < at /\ x \in Int
      BY <2>1, <1>1 DEF Offset
    <3> HIDE DEF x
    <3>2. ~(SlotOffset(k) <= x) /\ ~(at <= x)
      BY <3>1, <1>1, <1>6
    <3> QED  BY <3>1, <3>2, <1>5 DEF x
  <2> QED  BY <2>1, <2>2 DEF Record
<1> QED  BY <1>3, <1>9, <1>10, <1>11 DEF new

(* Erasing the record of a slot leaves the others as they are, those that  *)
(* move included.                                                          *)
LEMMA EraseKeepsRecords ==
  ASSUME NEW pg \in Page, PageSound(pg), NEW k \in LiveSlots(pg)
  PROVE  /\ LiveSlots(EraseRecord(pg, k)) = LiveSlots(pg) \ {k}
         /\ \A j \in LiveSlots(pg) \ {k} :
              Record(EraseRecord(pg, k), j) = Record(pg, j)
<1> USE RMPageAssumption DEF RMPageAssumption
<1> DEFINE new  == EraseRecord(pg, k)
           hole == pg.slot[k].recordOffset
           size == pg.slot[k].recordLength
           free == pg.freeSpaceOffset
<1>1. /\ pg.slot \in [SlotNum -> SlotEntry]
      /\ pg.byte \in [Offset -> Datum \cup {Scrap}]
  BY DEF Page
<1>2. /\ k \in Slots(pg) /\ k \in SlotNum
      /\ hole \in Nat /\ size \in Nat /\ hole + size <= free
      /\ free \in Nat /\ free <= RM_PAGE_SIZE /\ pg.numSlots \in Nat
  BY RecordPlace
<1>3. \A j \in SlotNum :
        new.slot[j] =
          LET e == [pg.slot EXCEPT ![k].recordLength = SLOT_EMPTY][j]
          IN  IF j < pg.numSlots /\ e.recordLength # SLOT_EMPTY /\ e.recordOffset > hole
              THEN [e EXCEPT !.recordOffset = @ - size] ELSE e
  BY DEF EraseRecord
<1>4. \A i \in Offset : new.byte[i] = IF hole <= i /\ i < free - size THEN pg.byte[i + size]
                                                                    ELSE pg.byte[i]
  BY DEF EraseRecord
<1>5. new.numSlots = pg.numSlots
  BY DEF EraseRecord
<1> HIDE DEF new
<1>6. new.slot[k].recordLength = SLOT_EMPTY
  <2>1. [pg.slot EXCEPT ![k].recordLength = SLOT_EMPTY][k].recordLength = SLOT_EMPTY
    BY <1>1, <1>2 DEF SlotEntry
  <2> QED  BY <2>1, <1>2, <1>3
<1>7. ASSUME NEW j \in Slots(pg), j # k
      PROVE  /\ new.slot[j].recordLength = pg.slot[j].recordLength
             /\ new.slot[j].recordLength # SLOT_EMPTY =>
                  new.slot[j].recordOffset = IF pg.slot[j].recordOffset > hole
                                             THEN pg.slot[j].recordOffset - size
                                             ELSE pg.slot[j].recordOffset
  <2>1. j \in SlotNum /\ j < pg.numSlots
    BY <1>2, NextSlotExists DEF Slots
  <2>2. [pg.slot EXCEPT ![k].recordLength = SLOT_EMPTY][j] = pg.slot[j]
    BY <2>1, <1>1, <1>7
  <2>3. new.slot[j] = IF pg.slot[j].recordLength # SLOT_EMPTY /\ pg.slot[j].recordOffset > hole
                      THEN [pg.slot[j] EXCEPT !.recordOffset = @ - size] ELSE pg.slot[j]
    BY <2>1, <2>2, <1>3
  <2>4. pg.slot[j] \in SlotEntry
    BY <2>1, <1>1
  <2> QED  BY <2>3, <2>4 DEF SlotEntry
<1>8. LiveSlots(new) = LiveSlots(pg) \ {k}
  <2>1. Slots(new) = Slots(pg)
    BY <1>5 DEF Slots
  <2>2. k \in EmptySlots(new)
    BY <2>1, <1>2, <1>6 DEF EmptySlots
  <2>3. \A j \in Slots(pg) : j # k => (j \in EmptySlots(new) <=> j \in EmptySlots(pg))
    BY <2>1, <1>7 DEF EmptySlots
  <2> QED  BY <2>1, <2>2, <2>3 DEF LiveSlots
<1>9. ASSUME NEW j \in LiveSlots(pg), j # k
      PROVE  Record(new, j) = Record(pg, j)
  <2> DEFINE o == pg.slot[j].recordOffset
             l == pg.slot[j].recordLength
             moved == IF o > hole THEN o - size ELSE o
  <2>1. /\ j \in Slots(pg)
        /\ o \in Nat /\ l \in Nat /\ o + l <= free
    BY RecordPlace
  <2>2. new.slot[j].recordLength = l /\ new.slot[j].recordOffset = moved
    BY <2>1, <1>7, <1>9 DEF SLOT_EMPTY
  <2>3. o + l <= hole \/ hole + size <= o
    BY <1>9 DEF PageSound, First, Last
  <2> HIDE DEF o, l, hole, size, free
  <2>4. \A i \in 1 .. l : new.byte[moved + i - 1] = pg.byte[o + i - 1]
    <3> SUFFICES ASSUME NEW i \in 1 .. l
                 PROVE  new.byte[moved + i - 1] = pg.byte[o + i - 1]
      OBVIOUS
    <3> DEFINE x == moved + i - 1
    <3>1. x \in Int /\ x + 1 = moved + i
      BY <2>1, <1>2
    <3>2. CASE o > hole
      <4>1. hole <= x /\ x < free - size /\ x + size = o + i - 1 /\ x \in Offset
        BY <2>1, <2>3, <3>2, <1>2 DEF Offset
      <4> HIDE DEF x
      <4>2. new.byte[x] = pg.byte[x + size]
        BY <4>1, <1>4
      <4> QED  BY <4>1, <4>2 DEF x
    <3>3. CASE ~(o > hole)
      <4>1. x = o + i - 1 /\ x \in Offset
        BY <2>1, <3>3, <1>2 DEF Offset
      <4>2. x < hole \/ size = 0
        BY <2>1, <2>3, <3>3, <1>2
      <4> HIDE DEF x
      <4>3. new.byte[x] = pg.byte[x]
        <5>1. x + 0 = x /\ x \in Int
          BY <4>1 DEF Offset
        <5>2. ~(x < hole) => x + size = x
          BY <4>2, <5>1
        <5>3. x < hole => ~(hole <= x)
          BY <5>1, <1>2
        <5> QED  BY <4>1, <5>2, <5>3, <1>4
      <4> QED  BY <4>1, <4>3 DEF x
    <3> QED  BY <3>2, <3>3
  <2>5. Record(new, j) = [i \in 1 .. l |-> new.byte[moved + i - 1]]
    <3> HIDE DEF moved
    <3> QED  BY <2>2 DEF Record
  <2>6. Record(pg, j) = [i \in 1 .. l |-> pg.byte[o + i - 1]]
    BY DEF Record, o, l
  <2> QED  BY <2>4, <2>5, <2>6
<1> QED  BY <1>8, <1>9 DEF new

(* A file that is not open has no page fixed, no scan on a page, and no    *)
(* call in progress.                                                       *)
ClosedFileIsFree ==
    status # "open" => /\ Idle
                       /\ pinned = {}
                       /\ \A s \in Scan : ~scan[s].pageData

(* A scan that points to a page stands on a slot of it.                    *)
ScansPointToSlots ==
    \A s \in Scan : scan[s].pageData =>
      /\ scan[s].currentPage \in 0 .. numpages - 1
      /\ scan[s].currentSlot \in Slots(page[scan[s].currentPage])

RMInv == RMTypeOK /\ PagesAreSound /\ ClosedFileIsFree /\ ScansPointToSlots

(* A scan stands on a page if it points to it, or has done with it and is  *)
(* on its way to the next.                                                 *)
Stands(s) == \/ scan[s].pageData
             \/ ~Idle /\ call.scan = s /\ scan[s].currentPage # -1

(* The scans that stand on a page hold it, each its own; one that stands   *)
(* on none is at the start of the file, or has failed; and no call goes on *)
(* with a scan that has.                                                   *)
ScansApart ==
    /\ \A s \in Scan : Stands(s) => scan[s].currentPage \in pinned
    /\ \A s, t \in Scan : s # t /\ Stands(s) /\ Stands(t) =>
                          scan[s].currentPage # scan[t].currentPage
    /\ \A s \in Scan : ~scan[s].stuck /\ ~Stands(s) => scan[s].currentPage = -1
    /\ ~Idle => ~scan[call.scan].stuck

(* A set of numbers that is not empty has a least one. *)
LEMMA LeastNumber ==
  ASSUME NEW S \in SUBSET Nat, S # {}
  PROVE  /\ Min(S) \in S
         /\ \A y \in S : Min(S) <= y
<1> DEFINE R == OpToRel(<, Nat)
<1>1. PICK x \in S : \A y \in S : <<y, x>> \notin R
  <2>1. IsWellFoundedOn(R, Nat)
    BY NatLessThanWellFounded
  <2> HIDE DEF R
  <2> QED  BY <2>1, WFMin
<1>2. \A y \in S : x <= y
  <2> SUFFICES ASSUME NEW y \in S PROVE x <= y
    OBVIOUS
  <2>1. (<<y, x>> \in R) <=> (y < x)
    BY DEF OpToRel
  <2> HIDE DEF R
  <2>2. ~(y < x)
    BY <1>1, <2>1
  <2> QED  BY <2>2
<1> QED  BY <1>2 DEF Min

(* A set of numbers up to n that is not empty has a greatest one. *)
LEMMA GreatestNumber ==
  ASSUME NEW n \in Nat, NEW S \in SUBSET (0 .. n), S # {}
  PROVE  /\ Max(S) \in S
         /\ \A y \in S : y <= Max(S)
<1> DEFINE T == {n - y : y \in S}
           x == n - Min(T)
<1>1. T \in SUBSET Nat /\ T # {}
  <2>1. \A y \in S : n - y \in Nat
    OBVIOUS
  <2>2. PICK y \in S : TRUE
    OBVIOUS
  <2>3. n - y \in T
    BY <2>2
  <2> QED  BY <2>1, <2>3
<1>2. Min(T) \in T /\ \A y \in T : Min(T) <= y
  <2> HIDE DEF T
  <2> QED  BY <1>1, LeastNumber
<1>3. x \in S
  <2>1. PICK z \in S : Min(T) = n - z
    BY <1>2
  <2>2. x = z
    BY <2>1
  <2> QED  BY <2>2
<1>4. \A y \in S : x >= y
  <2> SUFFICES ASSUME NEW y \in S PROVE x >= y
    OBVIOUS
  <2>1. Min(T) <= n - y
    BY <1>2
  <2>2. x \in Int /\ Min(T) = n - x
    <3>1. PICK z \in S : Min(T) = n - z
      BY <1>2
    <3> QED  BY <3>1
  <2> HIDE DEF x, T
  <2> QED  BY <2>1, <2>2
<1> HIDE DEF x
<1>5. Max(S) \in S /\ \A y \in S : Max(S) >= y
  BY <1>3, <1>4 DEF Max
<1> QED  BY <1>5

(* A RID is a number, and so is the page it names. *)
LEMMA RIDIsNumber ==
  ASSUME NEW p \in Nat, NEW k \in Nat
  PROVE  /\ RM_PackRID(p, k) \in 0 .. RIDPages * RIDSlots
         /\ PageOf(RM_PackRID(p, k)) \in Nat
<1> USE RMAssumption DEF RMAssumption
<1> DEFINE a == p % RIDPages
           b == k % RIDSlots
<1>1. a \in 0 .. RIDPages - 1 /\ b \in 0 .. RIDSlots - 1
  OBVIOUS
<1> HIDE DEF a, b
<1>2. (RIDPages - 1 - a) * RIDSlots \in Nat
  BY <1>1
<1>3. a * RIDSlots \in Nat
  BY <1>1
<1>4. a * RIDSlots + b <= RIDPages * RIDSlots
  <2>1. (RIDPages - 1 - a) * RIDSlots = RIDPages * RIDSlots - RIDSlots - a * RIDSlots
    BY <1>1
  <2>2. RIDPages * RIDSlots \in Nat
    OBVIOUS
  <2> QED  BY <1>1, <1>2, <1>3, <2>1, <2>2
<1>5. a * RIDSlots + b \in 0 .. RIDPages * RIDSlots
  BY <1>1, <1>3, <1>4
<1>6. \A n \in Nat : n \div RIDSlots \in Nat
  OBVIOUS
<1> QED  BY <1>5, <1>6 DEF RM_PackRID, PageOf, a, b

(* The codes of the paged-file layer. *)
LEMMA Codes ==
  ASSUME NEW p \in Int, numpages \in Nat
  PROVE  /\ GetError(p) \in -19 .. 0
         /\ PF_GetThisPage(p) \in -19 .. 0
         /\ PF_GetNextPage(p) \in -19 .. 0
         /\ PF_UnfixPage(p) \subseteq -19 .. 0
         /\ PF_GetThisPage(p) = PFE_OK => p < numpages /\ p \notin pinned
         /\ PF_GetNextPage(p) = PFE_OK => p + 1 < numpages /\ p + 1 \notin pinned
BY DEF GetError, PF_GetThisPage, PF_GetNextPage, PF_UnfixPage, PFE_OK, PFE_NOBUF,
       PFE_PAGEFIXED, PFE_PAGENOTINBUF, PFE_INVALIDPAGE, PFE_EOF, PFE_PAGEUNFIXED

-----------------------------------------------------------------------------
(* The insertion of a record. *)

(* Where the loop ends with no error, the page is in the file and has room. *)
LEMMA LoopFindsRoom ==
  ASSUME RMTypeOK, NEW length \in Nat
  PROVE  LET o == LoopEnd(length)
         IN  /\ o.errno \in -19 .. 0
             /\ o.fixed \in SUBSET (0 .. numpages - 1)
             /\ pinned \subseteq o.fixed
             /\ o.errno = PFE_OK => /\ o.pagenum \in 0 .. numpages - 1
                                    /\ HasRoom(page[o.pagenum], length)
<1> DEFINE S    == Stops(length)
           p    == IF S = {} THEN numpages ELSE Min(S)
           code == PF_GetNextPage(p - 1)
           o    == LoopEnd(length)
<1>1. numpages \in Nat /\ PFerrno \in -19 .. 0 /\ pinned \in SUBSET (0 .. numpages - 1)
  BY RMAssumption DEF RMTypeOK, RMAssumption
<1>2. S \subseteq 0 .. numpages - 1
  BY DEF Stops
<1>3. S # {} => Min(S) \in S
  <2>1. S \in SUBSET Nat
    BY <1>1, <1>2
  <2> HIDE DEF S
  <2> QED  BY <2>1, LeastNumber
<1>4. p \in 0 .. numpages /\ (S = {} => p = numpages) /\ (S # {} => p \in S)
  <2>1. CASE S = {}
    BY <2>1, <1>1
  <2>2. CASE S # {}
    <3>1. p = Min(S)
      BY <2>2
    <3>2. p \in S
      BY <3>1, <2>2, <1>3
    <3> HIDE DEF p
    <3>3. p \in 0 .. numpages - 1
      BY <3>2, <1>2
    <3> HIDE DEF S
    <3> QED  BY <3>2, <3>3, <2>2, <1>1
  <2> QED  BY <2>1, <2>2
<1> HIDE DEF p
<1>5. p - 1 \in Int /\ p - 1 + 1 = p
  BY <1>1, <1>4
<1>6. code \in -19 .. 0
  BY <1>1, <1>5, Codes
<1>7. CASE code # PFE_OK
  <2>1. o = [errno |-> code, pagenum |-> p - 1, fixed |-> pinned]
    BY <1>7 DEF LoopEnd, p
  <2> HIDE DEF o, code
  <2> QED  BY <2>1, <1>1, <1>6, <1>7 DEF o
<1>8. CASE code = PFE_OK
  <2>1. o = [errno |-> PFerrno, pagenum |-> p, fixed |-> pinned \cup {p}]
    BY <1>8 DEF LoopEnd, p
  <2>2. p \in 0 .. numpages - 1 /\ GetError(p) = PFE_OK
    BY <1>1, <1>4, <1>5, <1>8 DEF PF_GetNextPage, PFE_EOF, PFE_OK
  <2>3. HasRoom(page[p], length)
    BY <2>2, <1>4 DEF Stops
  <2> HIDE DEF o, code, S
  <2> QED  BY <2>1, <2>2, <2>3, <1>1 DEF o
<1> QED  BY <1>7, <1>8

(* The slot is new only if the page has no empty one. *)
LEMMA TargetIsSlot ==
  ASSUME RMTypeOK, PagesAreSound, NEW p \in 0 .. numpages - 1
  PROVE  /\ TargetSlot(p) \in SlotNum
         /\ TargetSlot(p) = page[p].numSlots => EmptySlots(page[p]) = {}
<1> DEFINE had == {q \in 0 .. p : EmptySlots(page[q]) # {}}
           m   == Max(had)
<1>1. numpages \in 0 .. MaxPages /\ MaxPages \in Nat
  BY RMAssumption DEF RMTypeOK, RMAssumption
<1>2. \A q \in 0 .. p : q \in PageNum /\ page[q] \in Page /\ PageSound(page[q])
  BY <1>1 DEF RMTypeOK, PagesAreSound, PageNum
<1>3. \A q \in 0 .. p : page[q].numSlots \in SlotNum /\ Slots(page[q]) \subseteq SlotNum
  BY <1>2, NextSlotExists
<1>4. p \in 0 .. p
  BY <1>1
<1>5. CASE had = {}
  BY <1>3, <1>4, <1>5 DEF TargetSlot
<1>6. CASE had # {}
  <2>1. m \in had
    <3>1. p \in Nat /\ had \in SUBSET (0 .. p)
      BY <1>1
    <3> HIDE DEF had
    <3> QED  BY <3>1, <1>6, GreatestNumber
  <2> HIDE DEF m
  <2>2. EmptySlots(page[m]) # {} /\ EmptySlots(page[m]) \subseteq Slots(page[m])
        /\ Slots(page[m]) \subseteq SlotNum
    BY <2>1, <1>3 DEF EmptySlots
  <2>3. TargetSlot(p) = Min(EmptySlots(page[m])) /\ TargetSlot(p) \in EmptySlots(page[m])
    <3>1. Min(EmptySlots(page[m])) \in EmptySlots(page[m])
      <4>1. EmptySlots(page[m]) \in SUBSET Nat
        BY <2>2 DEF SlotNum
      <4> QED  BY <4>1, <2>2, LeastNumber
    <3> QED  BY <3>1, <1>6 DEF TargetSlot, m
  <2>4. p \in had => m = p
    <3>1. \A y \in had : y <= m
      <4>1. p \in Nat /\ had \in SUBSET (0 .. p)
        BY <1>1
      <4> HIDE DEF had
      <4> QED  BY <4>1, <1>6, GreatestNumber DEF m
    <3>2. m \in 0 .. p /\ p \in Int
      BY <2>1, <1>1
    <3> QED  BY <3>1, <3>2
  <2>5. TargetSlot(p) = page[p].numSlots => m # p
    <3>1. page[p].numSlots \in Nat
      BY <1>3, <1>4 DEF SlotNum
    <3> QED  BY <3>1, <2>3 DEF EmptySlots, Slots
  <2>6. p \notin had => EmptySlots(page[p]) = {}
    BY <1>4
  <2> QED  BY <2>2, <2>3, <2>4, <2>5, <2>6
<1> QED  BY <1>5, <1>6

(* A record that fits, stored in a page of the file or in one just behind  *)
(* it, leaves all pages sound and takes no slot away.                      *)
LEMMA InsertKeepsPages ==
  ASSUME RMTypeOK, PagesAreSound,
         NEW p \in PageNum, NEW pg \in Page, PageSound(pg),
         NEW k \in SlotNum, NEW data \in Seq(Datum),
         Fits(pg, k, Len(data)),
         \/ p < numpages /\ pg = page[p] /\ numpages' = numpages
         \/ p = numpages /\ numpages' = numpages + 1,
         Insert(p, k, pg, data)
  PROVE  /\ page' \in [PageNum -> Page]
         /\ PagesAreSound'
         /\ \A q \in 0 .. numpages - 1 : Slots(page[q]) \subseteq Slots(page'[q])
         /\ call' = NoCall
<1> DEFINE new == StoreRecord(pg, k, data)
<1>1. new \in Page /\ PageSound(new) /\ Slots(pg) \subseteq Slots(new)
  BY StoreSound
<1> HIDE DEF new
<1>2. page' = [page EXCEPT ![p] = new] /\ call' = NoCall
  BY DEF Insert, ReturnData, new
<1>3. page \in [PageNum -> Page] /\ numpages \in 0 .. MaxPages /\ MaxPages \in Nat
  BY RMAssumption DEF RMTypeOK, RMAssumption
<1>4. page' \in [PageNum -> Page]
  BY <1>1, <1>2, <1>3
<1>5. \A q \in PageNum : page'[q] = IF q = p THEN new ELSE page[q]
  BY <1>2, <1>3
<1>6. PagesAreSound'
  <2> SUFFICES ASSUME NEW q \in 0 .. numpages' - 1
               PROVE  PageSound(page'[q])
    BY DEF PagesAreSound
  <2>1. q \in PageNum /\ (q # p => q \in 0 .. numpages - 1)
    BY <1>3 DEF PageNum
  <2>2. q # p => PageSound(page[q])
    BY <2>1 DEF PagesAreSound
  <2> QED  BY <2>1, <2>2, <1>1, <1>5
<1>7. \A q \in 0 .. numpages - 1 : Slots(page[q]) \subseteq Slots(page'[q])
  <2> SUFFICES ASSUME NEW q \in 0 .. numpages - 1
               PROVE  Slots(page[q]) \subseteq Slots(page'[q])
    OBVIOUS
  <2>1. q \in PageNum /\ (q = p => pg = page[q])
    BY <1>3 DEF PageNum
  <2> QED  BY <2>1, <1>1, <1>5
<1> QED  BY <1>2, <1>4, <1>6, <1>7

(* The file only grows. *)
LEMMA Growth ==
  ASSUME NEW m \in Nat, NEW n \in m .. MaxPages
  PROVE  n \in 0 .. MaxPages /\ 0 .. m - 1 \subseteq 0 .. n - 1
BY RMAssumption DEF RMAssumption

(* What the invariant asks of a step that leaves the scans as they are. *)
LEMMA InvariantOfPages ==
  ASSUME RMInv,
         status = "open",
         UNCHANGED <<status, scan>>,
         numpages' \in numpages .. MaxPages,
         page' \in [PageNum -> Page],
         pinned' \subseteq 0 .. numpages - 1,
         PFerrno' \in -19 .. 0,
         PagesAreSound',
         \A q \in 0 .. numpages - 1 : Slots(page[q]) \subseteq Slots(page'[q]),
         call' = NoCall
  PROVE  RMInv'
<1>1. numpages \in Nat
  BY RMAssumption DEF RMAssumption, RMInv, RMTypeOK
<1>2. numpages' \in 0 .. MaxPages /\ 0 .. numpages - 1 \subseteq 0 .. numpages' - 1
  BY <1>1, Growth
<1>3. RMTypeOK'
  BY <1>2 DEF RMInv, RMTypeOK
<1>4. ClosedFileIsFree'
  BY DEF ClosedFileIsFree
<1>5. ScansPointToSlots'
  BY <1>2 DEF RMInv, ScansPointToSlots
<1> QED  BY <1>3, <1>4, <1>5 DEF RMInv

(* RM_InsertRecord keeps the invariant. *)
LEMMA InsertStep ==
  ASSUME RMInv, NEW d \in Datum, NEW length \in Lengths, RM_InsertRecord(d, length)
  PROVE  RMInv'
<1> DEFINE o    == LoopEnd(length)
           data == [i \in 1 .. length |-> d]
<1>1. /\ RMTypeOK /\ PagesAreSound /\ ClosedFileIsFree /\ ScansPointToSlots
      /\ status = "open" /\ Idle
      /\ UNCHANGED <<status, scan>>
  BY DEF RMInv, RM_InsertRecord
<1>2. length \in Nat /\ length <= RM_PAGE_SIZE - HeaderSize - SlotSize
  BY RMAssumption, RMPageAssumption DEF RMAssumption, RMPageAssumption
<1>3. data \in Seq(Datum) /\ Len(data) = length
  BY <1>2
<1>4. /\ o.errno \in -19 .. 0
      /\ o.fixed \in SUBSET (0 .. numpages - 1)
      /\ o.errno = PFE_OK => /\ o.pagenum \in 0 .. numpages - 1
                             /\ HasRoom(page[o.pagenum], length)
  BY <1>1, <1>2, LoopFindsRoom
<1>5. numpages \in 0 .. MaxPages /\ MaxPages \in Nat /\ page \in [PageNum -> Page]
  BY <1>1, RMAssumption DEF RMTypeOK, RMAssumption
<1> HIDE DEF o, data
<1>6. SUFFICES /\ numpages' \in numpages .. MaxPages
               /\ page' \in [PageNum -> Page]
               /\ pinned' \subseteq 0 .. numpages - 1
               /\ PFerrno' \in -19 .. 0
               /\ PagesAreSound'
               /\ \A q \in 0 .. numpages - 1 : Slots(page[q]) \subseteq Slots(page'[q])
               /\ call' = NoCall
  BY <1>1, InvariantOfPages
<1>7. CASE InsertInNewPage(o, data)
  <2>1. CASE /\ numpages < MaxPages /\ numpages' = numpages + 1
             /\ Insert(numpages, 0, RM_InitPage(page[numpages]), data)
             /\ PFerrno' = o.errno
    <3> DEFINE pg == RM_InitPage(page[numpages])
    <3>1. numpages \in PageNum /\ numpages' \in 0 .. MaxPages
      BY <2>1, <1>5 DEF PageNum
    <3>2. pg \in Page /\ PageSound(pg)
      BY <3>1, <1>5, InitPageSound
    <3>3. pg.numSlots = 0 /\ pg.freeSpaceOffset = HeaderSize
      BY <3>1, <1>5 DEF RM_InitPage, Page
    <3>4. Fits(pg, 0, Len(data))
      BY <3>3, <1>2, <1>3, RMPageAssumption DEF RMPageAssumption, Fits
    <3>5. 0 \in SlotNum
      BY RMPageAssumption DEF RMPageAssumption, SlotNum
    <3>6. Insert(numpages, 0, pg, data)
      BY <2>1
    <3> HIDE DEF pg
    <3>7. /\ page' \in [PageNum -> Page]
          /\ PagesAreSound'
          /\ \A q \in 0 .. numpages - 1 : Slots(page[q]) \subseteq Slots(page'[q])
          /\ call' = NoCall
      BY <2>1, <3>1, <3>2, <3>4, <3>5, <3>6, <1>1, <1>3, <1>5, InsertKeepsPages
    <3> QED  BY <3>1, <3>7, <2>1, <1>4, <1>5, <1>7 DEF InsertInNewPage
  <2>2. CASE PFerrno' = PFE_NOBUF /\ Return(PFE_NOBUF) /\ UNCHANGED <<numpages, page>>
    BY <2>2, <1>1, <1>4, <1>5, <1>7
       DEF InsertInNewPage, PFE_NOBUF, PagesAreSound, Return, ReturnData
  <2> QED  BY <2>1, <2>2, <1>7 DEF InsertInNewPage
<1>8. CASE /\ pinned' = o.fixed /\ PFerrno' = o.errno /\ Return(o.errno)
           /\ UNCHANGED <<numpages, page>>
  BY <1>8, <1>1, <1>4, <1>5 DEF PagesAreSound, Return, ReturnData
<1>9. CASE /\ o.errno = PFE_OK
           /\ Insert(o.pagenum, TargetSlot(o.pagenum), page[o.pagenum], data)
           /\ UNCHANGED <<numpages, pinned, PFerrno>>
  <2> DEFINE p == o.pagenum
             k == TargetSlot(p)
  <2>1. p \in 0 .. numpages - 1 /\ HasRoom(page[p], length)
    BY <1>4, <1>9
  <2>2. k \in SlotNum /\ (k = page[p].numSlots => EmptySlots(page[p]) = {})
    BY <2>1, <1>1, TargetIsSlot
  <2>3. Insert(p, k, page[p], data)
    BY <1>9
  <2> HIDE DEF p, k
  <2>4. p \in PageNum /\ page[p] \in Page /\ PageSound(page[p])
    BY <2>1, <1>1, <1>5 DEF PageNum, PagesAreSound
  <2>5. Fits(page[p], k, Len(data))
    <3> DEFINE n    == page[p].numSlots
               size == n * SlotSize
    <3>1. n \in Nat /\ page[p].freeSpaceOffset \in Int
      BY <2>4, RMPageAssumption DEF Page, RMPageAssumption
    <3>2. size \in Nat /\ (n + 1) * SlotSize = size + SlotSize
      BY <3>1, DirectorySize
    <3>3. SlotSize * n = size /\ SlotSize * (n + 1) = (n + 1) * SlotSize
      BY <3>1, RMPageAssumption DEF RMPageAssumption
    <3>4. /\ RM_PAGE_SIZE - size - page[p].freeSpaceOffset >= length
          /\ EmptySlots(page[p]) = {} =>
               RM_PAGE_SIZE - size - page[p].freeSpaceOffset >= length + SlotSize
      BY <3>1, <3>2, <2>1, <1>2, RMPageAssumption DEF HasRoom, FreeSpace, RMPageAssumption
    <3> HIDE DEF size, n
    <3>5. page[p].freeSpaceOffset + length <=
            RM_PAGE_SIZE - SlotSize * (IF k = n THEN n + 1 ELSE n)
      BY <3>1, <3>2, <3>3, <3>4, <2>2, <1>2, RMPageAssumption DEF RMPageAssumption, n
    <3> QED  BY <3>5, <1>3 DEF Fits, n
  <2>6. p < numpages /\ numpages' = numpages
    BY <2>1, <1>5, <1>9
  <2>7. /\ page' \in [PageNum -> Page]
        /\ PagesAreSound'
        /\ \A q \in 0 .. numpages - 1 : Slots(page[q]) \subseteq Slots(page'[q])
        /\ call' = NoCall
    BY <2>2, <2>3, <2>4, <2>5, <2>6, <1>1, <1>3, InsertKeepsPages
  <2> QED  BY <2>7, <1>1, <1>5, <1>9 DEF RMTypeOK
<1> QED  BY <1>7, <1>8, <1>9 DEF RM_InsertRecord, o, data

-----------------------------------------------------------------------------
(* The other calls. *)

(* What a page is before RM_InitPage is of the type, if nothing else. *)
LEMMA BlankPageTyped == BlankPage \in Page
<1>1. HeaderSize \in HeaderSize .. RM_PAGE_SIZE /\ 0 \in 0 .. RM_PAGE_SIZE
      /\ SLOT_EMPTY \in SLOT_EMPTY .. RM_PAGE_SIZE
  BY RMPageAssumption DEF RMPageAssumption, SLOT_EMPTY
<1> QED  BY <1>1 DEF BlankPage, Page, SlotEntry, NoSlot

(* A handle as RM_OpenScan sets it. *)
LEMMA NewScanTyped ==
  ASSUME NEW u \in BOOLEAN
  PROVE  NewScan(u) \in ScanHandle /\ ~NewScan(u).pageData
<1>1. /\ -1 \in -1 .. MaxPages - 1 /\ -1 \in -1 .. RM_PAGE_SIZE
      /\ -1 \in -1 .. RIDPages * RIDSlots
  BY RIDIsNumber, RMAssumption, RMPageAssumption DEF RMAssumption, RMPageAssumption
<1> QED  BY <1>1 DEF NewScan, ScanHandle

(* The calls on the file as a whole keep the invariant. *)
LEMMA FileStep ==
  ASSUME RMInv,
         \/ RM_CreateFile \/ RM_DestroyFile \/ RM_OpenFile \/ RM_CloseFile \/ NewProcess
  PROVE  RMInv'
<1> USE DEF Return, ReturnData, file
<1>1. numpages \in 0 .. MaxPages /\ 0 \in 0 .. MaxPages
  BY RMAssumption DEF RMInv, RMTypeOK, RMAssumption
<1>2. BlankPage \in Page
  BY BlankPageTyped
<1>3. \A s \in Scan : NewScan(FALSE) \in ScanHandle /\ ~NewScan(FALSE).pageData
  BY NewScanTyped
<1>4. CASE RM_CreateFile
  <2>1. CASE status = "none" /\ status' = "closed" /\ numpages' = 0
             /\ UNCHANGED <<page, pinned, PFerrno, scan>>
    BY <2>1, <1>1, <1>4 DEF RM_CreateFile, RMInv, RMTypeOK, PagesAreSound, ClosedFileIsFree,
       ScansPointToSlots, Idle
  <2>2. CASE PFerrno' = PFE_UNIX /\ UNCHANGED <<file, pinned, scan>>
    BY <2>2, <1>4 DEF RM_CreateFile, RMInv, RMTypeOK, PagesAreSound, ClosedFileIsFree,
       ScansPointToSlots, Idle, PFE_UNIX
  <2> QED  BY <2>1, <2>2, <1>4 DEF RM_CreateFile
<1>5. CASE RM_DestroyFile
  <2>1. CASE status = "closed" /\ status' = "none" /\ numpages' = 0
             /\ page' = [p \in PageNum |-> BlankPage] /\ UNCHANGED <<pinned, PFerrno, scan>>
    BY <2>1, <1>1, <1>2, <1>5 DEF RM_DestroyFile, RMInv, RMTypeOK, PagesAreSound,
       ClosedFileIsFree, ScansPointToSlots, Idle
  <2>2. CASE PFerrno' \in {PFE_FILEOPEN, PFE_UNIX} /\ UNCHANGED <<file, pinned, scan>>
    BY <2>2, <1>5 DEF RM_DestroyFile, RMInv, RMTypeOK, PagesAreSound, ClosedFileIsFree,
       ScansPointToSlots, Idle, PFE_UNIX, PFE_FILEOPEN
  <2> QED  BY <2>1, <2>2, <1>5 DEF RM_DestroyFile
<1>6. CASE RM_OpenFile
  <2>1. CASE status' = "open" /\ UNCHANGED <<numpages, page, pinned, PFerrno, scan>>
    BY <2>1, <1>6 DEF RM_OpenFile, RMInv, RMTypeOK, PagesAreSound, ClosedFileIsFree,
       ScansPointToSlots
  <2>2. CASE PFerrno' = PFE_UNIX /\ UNCHANGED <<file, pinned, scan>>
    BY <2>2, <1>6 DEF RM_OpenFile, RMInv, RMTypeOK, PagesAreSound, ClosedFileIsFree,
       ScansPointToSlots, Idle, PFE_UNIX
  <2> QED  BY <2>1, <2>2, <1>6 DEF RM_OpenFile
<1>7. CASE RM_CloseFile
  <2>1. CASE pinned = {} /\ status' = "closed" /\ scan' = [s \in Scan |-> NewScan(FALSE)]
             /\ UNCHANGED <<numpages, page, pinned, PFerrno>>
    BY <2>1, <1>3, <1>7 DEF RM_CloseFile, RMInv, RMTypeOK, PagesAreSound, ClosedFileIsFree,
       ScansPointToSlots, Idle
  <2>2. CASE PFerrno' = PFE_PAGEFIXED /\ UNCHANGED <<file, pinned, scan>>
    BY <2>2, <1>7 DEF RM_CloseFile, RMInv, RMTypeOK, PagesAreSound, ClosedFileIsFree,
       ScansPointToSlots, Idle, PFE_PAGEFIXED
  <2> QED  BY <2>1, <2>2, <1>7 DEF RM_CloseFile
<1>8. CASE NewProcess
  BY <1>8 DEF NewProcess, RMInv, RMTypeOK, PagesAreSound, ClosedFileIsFree,
     ScansPointToSlots, Idle, PFE_OK
<1> QED  BY <1>4, <1>5, <1>6, <1>7, <1>8

(* A RID that is not refused names a live slot of a page that is not fixed. *)
LEMMA GoodRID ==
  ASSUME RMInv, NEW rid \in RID
  PROVE  /\ Errno(PF_GetThisPage(PageOf(rid))) \in -19 .. 0
         /\ RIDError(rid) = RME_OK => /\ PageOf(rid) \in 0 .. numpages - 1
                                      /\ PageOf(rid) \notin pinned
                                      /\ SlotOf(rid) \in LiveSlots(page[PageOf(rid)])
<1>1. numpages \in Nat /\ PFerrno \in -19 .. 0
  BY RMAssumption DEF RMAssumption, RMInv, RMTypeOK
<1>2. PageOf(rid) \in Nat
  <2>1. PICK p \in PageNum, k \in 0 .. (RM_PAGE_SIZE - HeaderSize) \div SlotSize :
               rid = RM_PackRID(p, k)
    BY DEF RID
  <2>2. p \in Nat /\ k \in Nat
    BY RMPageAssumption DEF RMPageAssumption, PageNum
  <2> QED  BY <2>1, <2>2, RIDIsNumber
<1> DEFINE code == PF_GetThisPage(PageOf(rid))
<1>3. code \in -19 .. 0 /\ (code = PFE_OK => PageOf(rid) < numpages /\ PageOf(rid) \notin pinned)
  BY <1>1, <1>2, Codes
<1>4. Errno(code) \in -19 .. 0
  BY <1>1, <1>3 DEF Errno
<1>5. RIDError(rid) = RME_OK => code = PFE_OK /\ SlotOf(rid) \in LiveSlots(page[PageOf(rid)])
  BY DEF RIDError, RME_OK, RME_INVALIDRID, PFE_OK
<1> QED  BY <1>1, <1>2, <1>3, <1>4, <1>5

(* RM_DeleteRecord and RM_GetRecord keep the invariant. *)
LEMMA RIDStep ==
  ASSUME RMInv, NEW rid \in RID, NEW bufSize,
         RM_DeleteRecord(rid) \/ RM_GetRecord(rid, bufSize)
  PROVE  RMInv'
<1>1. /\ RMTypeOK /\ PagesAreSound /\ status = "open"
      /\ UNCHANGED <<status, scan>>
      /\ call' = NoCall
  BY DEF RMInv, RM_DeleteRecord, RM_GetRecord, Refused, Return, ReturnData, file
<1>2. numpages \in 0 .. MaxPages /\ MaxPages \in Nat /\ page \in [PageNum -> Page]
      /\ pinned \subseteq 0 .. numpages - 1 /\ PFerrno \in -19 .. 0
  BY <1>1, RMAssumption DEF RMTypeOK, RMAssumption
<1>3. numpages \in numpages .. MaxPages
  BY <1>2
<1>4. CASE UNCHANGED <<numpages, page, pinned>> /\ PFerrno' \in -19 .. 0
  <2>1. PagesAreSound'
    BY <1>1, <1>4 DEF PagesAreSound
  <2> QED  BY <2>1, <1>1, <1>2, <1>3, <1>4, InvariantOfPages
<1>5. CASE RIDError(rid) = RME_OK /\ UNCHANGED <<numpages, pinned, PFerrno>>
           /\ page' = [page EXCEPT ![PageOf(rid)] = EraseRecord(@, SlotOf(rid))]
  <2> DEFINE p   == PageOf(rid)
             new == EraseRecord(page[p], SlotOf(rid))
  <2>1. p \in 0 .. numpages - 1 /\ SlotOf(rid) \in LiveSlots(page[p])
    BY <1>5, GoodRID
  <2>2. page[p] \in Page /\ PageSound(page[p])
    BY <2>1, <1>1, <1>2 DEF PagesAreSound, PageNum
  <2>3. new \in Page /\ PageSound(new) /\ new.numSlots = page[p].numSlots
    BY <2>1, <2>2, EraseSound
  <2>4. page' = [page EXCEPT ![p] = new]
    BY <1>5
  <2> HIDE DEF p, new
  <2>5. page' \in [PageNum -> Page]
    BY <2>3, <2>4, <1>2
  <2>6. \A q \in 0 .. numpages - 1 : page'[q] = IF q = p THEN new ELSE page[q]
    BY <2>4, <1>2 DEF PageNum
  <2>7. PagesAreSound'
    BY <2>3, <2>6, <1>1, <1>5 DEF PagesAreSound
  <2>8. \A q \in 0 .. numpages - 1 : Slots(page[q]) \subseteq Slots(page'[q])
    BY <2>3, <2>6 DEF Slots
  <2> QED  BY <2>5, <2>7, <2>8, <1>1, <1>2, <1>3, <1>5, InvariantOfPages
<1> QED  BY <1>2, <1>4, <1>5, GoodRID DEF RM_DeleteRecord, RM_GetRecord, Refused, file

-----------------------------------------------------------------------------
(* Scans. *)

(* Where LookAt leaves the scan: on the page, and on a slot of it unless it *)
(* is done with the page.                                                   *)
LEMMA LookAtScan ==
  ASSUME RMInv, ~Idle,
         NEW p \in 0 .. numpages - 1, NEW k \in 0 .. RM_PAGE_SIZE,
         LookAt(call.scan, p, k),
         UNCHANGED file
  PROVE  /\ scan' \in [Scan -> ScanHandle]
         /\ ScansPointToSlots'
         /\ call' \in {NoCall, call}
         /\ \A t \in Scan \ {call.scan} : scan'[t] = scan[t]
         /\ scan'[call.scan].currentPage = p
         /\ ~scan'[call.scan].pageData => call' = call /\ scan'[call.scan].stuck = scan[call.scan].stuck
         /\ call' = call => scan'[call.scan].stuck = scan[call.scan].stuck
<1> DEFINE s == call.scan
<1>1. s \in Scan /\ scan \in [Scan -> ScanHandle]
  BY DEF RMInv, RMTypeOK, Idle
<1>2. numpages \in 0 .. MaxPages /\ MaxPages \in Nat
  BY RMAssumption DEF RMAssumption, RMInv, RMTypeOK
<1>3. p \in -1 .. MaxPages - 1 /\ k \in -1 .. RM_PAGE_SIZE /\ p \in Nat /\ k \in Nat
  BY <1>2, RMPageAssumption DEF RMPageAssumption
<1>4. RM_PackRID(p, k) \in -1 .. RIDPages * RIDSlots
  BY <1>3, RIDIsNumber
<1> HIDE DEF s
<1> DEFINE Done == /\ \A t \in Scan \ {s} : scan'[t] = scan[t]
                   /\ scan' \in [Scan -> ScanHandle]
                   /\ scan'[s].currentPage = p
                   /\ scan'[s].pageData => scan'[s].currentSlot \in Slots(page[p])
                   /\ ~scan'[s].pageData => call' = call
                   /\ call' \in {NoCall, call}
                   /\ call' = call => scan'[s].stuck = scan[s].stuck
<1>5. page' = page /\ numpages' = numpages /\ call # NoCall
  BY DEF file, Idle
<1>6. scan[s] \in ScanHandle
  BY <1>1
<1>7. ASSUME k >= page[p].numSlots,
             scan' = [scan EXCEPT ![s].currentPage = p, ![s].currentSlot = k,
                                  ![s].pageData = FALSE],
             call' = call
      PROVE  Done
  BY <1>1, <1>3, <1>6, <1>7 DEF ScanHandle
<1>8. ASSUME k \in Slots(page[p]),
             scan' = [scan EXCEPT ![s].currentPage = p, ![s].currentSlot = k,
                                  ![s].pageData = TRUE],
             call' = call
      PROVE  Done
  BY <1>1, <1>3, <1>6, <1>8 DEF ScanHandle
<1>9. ASSUME k \in Slots(page[p]),
             scan' = [scan EXCEPT ![s].currentPage = p, ![s].currentSlot = k,
                                  ![s].pageData = TRUE, ![s].stuck = TRUE],
             call' = NoCall
      PROVE  Done
  BY <1>1, <1>3, <1>5, <1>6, <1>9 DEF ScanHandle
<1>10. ASSUME k \in Slots(page[p]),
              scan' = [scan EXCEPT ![s].currentPage = p, ![s].currentSlot = k,
                                   ![s].pageData = TRUE, ![s].told = RM_PackRID(p, k)],
              call' = NoCall
       PROVE  Done
  BY <1>1, <1>3, <1>4, <1>5, <1>6, <1>10 DEF ScanHandle
<1>11. Done
  <2>1. EmptySlots(page[p]) \subseteq Slots(page[p]) /\ LiveSlots(page[p]) \subseteq Slots(page[p])
    BY DEF EmptySlots, LiveSlots
  <2> HIDE DEF Done
  <2> QED  BY <2>1, <1>7, <1>8, <1>9, <1>10 DEF LookAt, Return, ReturnData, s
<1>12. ScansPointToSlots'
  <2> SUFFICES ASSUME NEW t \in Scan, scan'[t].pageData
               PROVE  /\ scan'[t].currentPage \in 0 .. numpages - 1
                      /\ scan'[t].currentSlot \in Slots(page[scan'[t].currentPage])
    BY <1>5 DEF ScansPointToSlots
  <2>1. CASE t = s
    BY <2>1, <1>11
  <2>2. CASE t # s
    BY <2>2, <1>11 DEF RMInv, ScansPointToSlots
  <2> QED  BY <2>1, <2>2
<1> QED  BY <1>11, <1>12 DEF s

(* The page a scan comes from is unfixed, if there is one. *)
LEMMA LeavePageUnfixes ==
  ASSUME numpages \in Nat, NEW p \in Int, NEW errno \in -19 .. 0, NEW fixed,
         LeavePage(p, errno, fixed)
  PROVE  /\ PFerrno' \in -19 .. 0
         /\ pinned' = IF p = -1 THEN fixed ELSE fixed \ {p}
<1>1. CASE p = -1
  BY <1>1 DEF LeavePage
<1>2. CASE p # -1
  <2>1. PICK code \in PF_UnfixPage(p) :
          pinned' = fixed \ {p} /\ PFerrno' = IF code < 0 THEN code ELSE errno
    BY <1>2 DEF LeavePage
  <2>2. code \in -19 .. 0
    BY Codes
  <2> QED  BY <2>1, <2>2, <1>2
<1> QED  BY <1>1, <1>2

(* The calls that begin and end a scan, or begin RM_GetNextRecord. *)
LEMMA ScanStep ==
  ASSUME RMInv,
         \/ \E s \in Scan : RM_OpenScan(s)
         \/ \E s \in Scan, bufSize \in BufSizes : RM_GetNextRecord(s, bufSize)
         \/ \E s \in Scan : RM_CloseScan(s)
  PROVE  RMInv'
<1> USE DEF file, Return, ReturnData
<1>1. status = "open" /\ UNCHANGED file /\ PagesAreSound' /\ numpages \in Nat
  <2>1. status = "open" /\ UNCHANGED file
    BY DEF RM_OpenScan, RM_GetNextRecord, RM_CloseScan
  <2> QED  BY <2>1, RMAssumption DEF RMAssumption, RMInv, RMTypeOK, PagesAreSound
<1>2. ClosedFileIsFree'
  BY <1>1 DEF ClosedFileIsFree
<1>3. SUFFICES RMTypeOK' /\ ScansPointToSlots'
  BY <1>1, <1>2 DEF RMInv
<1>4. CASE \E s \in Scan : RM_OpenScan(s)
  <2>1. PICK s \in Scan : RM_OpenScan(s)
    BY <1>4
  <2>2. scan' = [scan EXCEPT ![s] = NewScan(TRUE)]
    BY <2>1 DEF RM_OpenScan
  <2> QED  BY <2>1, <2>2, NewScanTyped DEF RM_OpenScan, RMInv, RMTypeOK, ScansPointToSlots
<1>5. CASE \E s \in Scan, bufSize \in BufSizes : RM_GetNextRecord(s, bufSize)
  BY <1>5 DEF RM_GetNextRecord, RMInv, RMTypeOK, ScansPointToSlots
<1>6. CASE \E s \in Scan : RM_CloseScan(s)
  <2>1. PICK s \in Scan : RM_CloseScan(s)
    BY <1>6
  <2>2. scan[s].currentPage \in Int
    BY RMAssumption DEF RMAssumption, RMInv, RMTypeOK, ScanHandle
  <2>3. PF_UnfixPage(scan[s].currentPage) \subseteq -19 .. 0
    BY <1>1, <2>2, Codes
  <2>4. CASE scan' = [scan EXCEPT ![s] = NewScan(FALSE)] /\ pinned' \subseteq pinned /\ PFerrno' = PFerrno
    BY <2>1, <2>4, <1>1, NewScanTyped DEF RM_CloseScan, RMInv, RMTypeOK, ScansPointToSlots
  <2>5. CASE scan' = scan /\ pinned' = pinned /\ PFerrno' \in -19 .. 0
    BY <2>1, <2>5, <1>1 DEF RM_CloseScan, RMInv, RMTypeOK, ScansPointToSlots
  <2> QED  BY <2>1, <2>3, <2>4, <2>5 DEF RM_CloseScan
<1> QED  BY <1>4, <1>5, <1>6

(* A turn of the loop of RM_GetNextRecord keeps the invariant. *)
LEMMA LoopStep ==
  ASSUME RMInv, Loop
  PROVE  RMInv'
<1> USE DEF file, Return, ReturnData
<1> DEFINE s == call.scan
           p == scan[s].currentPage
<1>1. /\ ~Idle /\ UNCHANGED file /\ PagesAreSound' /\ s \in Scan
      /\ scan \in [Scan -> ScanHandle]
  BY DEF Loop, NextPageFails, NextPage, NextSlot, RMInv, RMTypeOK, Idle, PagesAreSound
<1>2. /\ status = "open" /\ numpages \in 0 .. MaxPages /\ MaxPages \in Nat
      /\ PFerrno \in -19 .. 0 /\ pinned \subseteq 0 .. numpages - 1
      /\ call \in {NoCall} \cup [scan : Scan, bufSize : BufSizes]
  BY <1>1, RMAssumption DEF RMAssumption, RMInv, RMTypeOK, ClosedFileIsFree
<1>3. p \in -1 .. MaxPages - 1 /\ PF_GetNextPage(p) \in -19 .. 0
      /\ (PF_GetNextPage(p) = PFE_OK => p + 1 < numpages)
  <2>1. p \in -1 .. MaxPages - 1
    BY <1>1 DEF ScanHandle
  <2> HIDE DEF p
  <2> QED  BY <2>1, <1>2, Codes
<1> HIDE DEF p, s
<1>4. SUFFICES /\ scan' \in [Scan -> ScanHandle] /\ ScansPointToSlots'
               /\ call' \in {NoCall, call}
               /\ PFerrno' \in -19 .. 0 /\ pinned' \subseteq 0 .. numpages - 1
  <2>1. RMTypeOK'
    BY <1>1, <1>2, <1>4 DEF RMInv, RMTypeOK
  <2>2. ClosedFileIsFree'
    BY <1>1, <1>2 DEF ClosedFileIsFree
  <2> QED  BY <2>1, <2>2, <1>1, <1>4 DEF RMInv
<1>5. CASE NextPageFails
  <2>1. LeavePage(p, PF_GetNextPage(p), pinned)
    BY <1>5 DEF NextPageFails, p, s
  <2>2. PFerrno' \in -19 .. 0 /\ pinned' \subseteq pinned
    BY <2>1, <1>2, <1>3, LeavePageUnfixes
  <2>3. scan' = [scan EXCEPT ![s].stuck = TRUE] /\ call' = NoCall
    BY <1>5 DEF NextPageFails, s
  <2>4. scan' \in [Scan -> ScanHandle] /\ \A t \in Scan : /\ scan'[t].pageData = scan[t].pageData
                                                        /\ scan'[t].currentPage = scan[t].currentPage
                                                        /\ scan'[t].currentSlot = scan[t].currentSlot
    BY <2>3, <1>1, ZenonT(60) DEF ScanHandle
  <2>5. ScansPointToSlots'
    BY <2>4, <1>1 DEF RMInv, ScansPointToSlots
  <2> QED  BY <2>2, <2>3, <2>4, <2>5, <1>2
<1>6. CASE NextPage
  <2>1. /\ PF_GetNextPage(p) = PFE_OK
        /\ LeavePage(p, PFerrno, pinned \cup {p + 1})
        /\ LookAt(call.scan, p + 1, 0)
    BY <1>6 DEF NextPage, p, s
  <2>2. p + 1 \in 0 .. numpages - 1 /\ 0 \in 0 .. RM_PAGE_SIZE
    BY <2>1, <1>2, <1>3, RMPageAssumption DEF RMPageAssumption
  <2>3. PFerrno' \in -19 .. 0 /\ pinned' \subseteq pinned \cup {p + 1}
    BY <2>1, <1>2, <1>3, LeavePageUnfixes
  <2> QED  BY <2>1, <2>2, <2>3, <1>1, <1>2, LookAtScan
<1>7. CASE NextSlot
  <2> DEFINE k == scan[s].currentSlot + 1
  <2>1. scan[s].pageData /\ LookAt(call.scan, p, k) /\ UNCHANGED <<pinned, PFerrno>>
    BY <1>7 DEF NextSlot, p, s
  <2>2. p \in 0 .. numpages - 1 /\ scan[s].currentSlot \in Slots(page[p])
    BY <2>1, <1>1 DEF RMInv, ScansPointToSlots, p
  <2>3. page[p].numSlots \in 0 .. RM_PAGE_SIZE
    BY <2>2, <1>2 DEF RMInv, RMTypeOK, PageNum, Page
  <2>4. k \in 0 .. RM_PAGE_SIZE
    BY <2>2, <2>3, RMPageAssumption DEF RMPageAssumption, Slots
  <2> HIDE DEF k
  <2> QED  BY <2>1, <2>2, <2>4, <1>1, <1>2, LookAtScan
<1> QED  BY <1>5, <1>6, <1>7 DEF Loop

(* The invariant is inductive. *)
LEMMA InitRMInv == RMInit => RMInv
<1> SUFFICES ASSUME RMInit PROVE RMInv
  OBVIOUS
<1> USE DEF RMInit
<1>1. 0 \in 0 .. MaxPages /\ PFE_OK \in -19 .. 0
  BY RMAssumption DEF RMAssumption, PFE_OK
<1>2. BlankPage \in Page
  BY BlankPageTyped
<1>3. RMTypeOK
  BY <1>1, <1>2, NewScanTyped DEF RMTypeOK
<1>4. PagesAreSound
  BY DEF PagesAreSound
<1>5. ClosedFileIsFree /\ ScansPointToSlots
  BY NewScanTyped DEF ClosedFileIsFree, ScansPointToSlots, Idle
<1> QED  BY <1>3, <1>4, <1>5 DEF RMInv

(* Every step keeps it. *)
LEMMA StepRMInv ==
  ASSUME RMInv, [RMNext]_rmvars
  PROVE  RMInv'
<1>1. CASE UNCHANGED rmvars
  BY <1>1 DEF rmvars, RMInv, RMTypeOK, PagesAreSound, ClosedFileIsFree, ScansPointToSlots, Idle
<1>2. CASE RMNext
  BY <1>2, FileStep, InsertStep, RIDStep, ScanStep, LoopStep DEF RMNext, Loop
<1> QED  BY <1>1, <1>2

(* Every variable keeps its type: no slot number taken from another page   *)
(* goes beyond the directory, no pin beyond the file.                      *)
THEOREM RMTypeCorrect == RMSpec => []RMTypeOK
<1>1. RMInv => RMTypeOK
  BY DEF RMInv
<1> QED  BY <1>1, InitRMInv, StepRMInv, PTL DEF RMSpec

(***************************************************************************)
(* On every page of the file the directory and the records stay apart, and *)
(* no two records share a byte, though RM_InsertRecord may take the number *)
(* of its slot from another page: for every page size, length and number   *)
(* of pages and buffers.                                                   *)
(***************************************************************************)
THEOREM RecordsStayApart == RMSpec => []PagesAreSound
<1>1. RMInv => PagesAreSound
  BY DEF RMInv
<1> QED  BY <1>1, InitRMInv, StepRMInv, PTL DEF RMSpec

-----------------------------------------------------------------------------
(* Scans hold their pages, if no client goes on with a scan that failed.   *)

(* A step between calls that leaves the scans alone and unfixes no page.   *)
LEMMA ApartIfScansStay ==
  ASSUME ScansApart, Idle, call' = NoCall, scan' = scan, pinned \subseteq pinned'
  PROVE  ScansApart'
BY DEF ScansApart, Stands, Idle

(* A scan that is used no more stands nowhere.                             *)
LEMMA NewScanStandsNowhere ==
  ASSUME NEW u \in BOOLEAN
  PROVE  ~NewScan(u).pageData /\ NewScan(u).currentPage = -1
BY DEF NewScan

(* The scan of the call comes to page n, which it has fixed, and no other  *)
(* scan loses or has that page.                                            *)
LEMMA ApartAfterLookAt ==
  ASSUME RMInv, ScansApart, ~Idle,
         NEW n \in 0 .. numpages - 1, NEW k \in 0 .. RM_PAGE_SIZE,
         LookAt(call.scan, n, k), UNCHANGED file,
         n \in pinned',
         \A t \in Scan \ {call.scan} :
           Stands(t) => scan[t].currentPage \in pinned' /\ scan[t].currentPage # n
  PROVE  ScansApart'
<1>0. PICK s \in Scan : s = call.scan
  BY DEF RMInv, RMTypeOK, Idle
<1>1. /\ \A t \in Scan \ {s} : scan'[t] = scan[t]
      /\ scan'[s].currentPage = n
      /\ ~scan'[s].pageData => call' = call
      /\ call' \in {NoCall, call}
      /\ call' = call => scan'[s].stuck = scan[s].stuck
  BY <1>0, LookAtScan
<1>2. \A t \in Scan \ {s} : Stands(t)' <=> Stands(t)
  BY <1>0, <1>1 DEF Stands, Idle
<1>3. Stands(s)'
  BY <1>0, <1>1 DEF Stands, Idle
<1>4. ~Idle' => call' = call
  BY <1>1 DEF Idle
<1>5. \A t \in Scan : Stands(t)' => scan'[t].currentPage \in pinned'
  BY <1>0, <1>1, <1>2
<1>6. \A t, u \in Scan : t # u /\ Stands(t)' /\ Stands(u)' =>
                        scan'[t].currentPage # scan'[u].currentPage
  BY <1>0, <1>1, <1>2 DEF ScansApart
<1>7. \A t \in Scan : ~scan'[t].stuck /\ ~Stands(t)' => scan'[t].currentPage = -1
  BY <1>1, <1>2, <1>3 DEF ScansApart
<1>8. ~Idle' => ~scan'[call'.scan].stuck
  BY <1>0, <1>1, <1>4 DEF ScansApart
<1> QED  BY <1>5, <1>6, <1>7, <1>8 DEF ScansApart

(* A turn of the loop keeps the scans apart. *)
LEMMA LoopKeepsApart ==
  ASSUME RMInv, ScansApart, Loop
  PROVE  ScansApart'
<1> USE DEF file, Return, ReturnData
<1>1. /\ ~Idle /\ UNCHANGED file /\ call.scan \in Scan /\ scan \in [Scan -> ScanHandle]
  BY DEF Loop, NextPageFails, NextPage, NextSlot, RMInv, RMTypeOK, Idle
<1>0. PICK s \in Scan : s = call.scan
  BY <1>1
<1> DEFINE p == scan[s].currentPage
<1>2. numpages \in 0 .. MaxPages /\ MaxPages \in Nat /\ PFerrno \in -19 .. 0
      /\ pinned \subseteq 0 .. numpages - 1
  BY RMAssumption DEF RMAssumption, RMInv, RMTypeOK
<1>3. p \in -1 .. MaxPages - 1 /\ PF_GetNextPage(p) \in -19 .. 0
      /\ (PF_GetNextPage(p) = PFE_OK => p + 1 < numpages /\ p + 1 \notin pinned)
  <2>1. p \in -1 .. MaxPages - 1
    BY <1>1 DEF ScanHandle
  <2> HIDE DEF p
  <2> QED  BY <2>1, <1>2, Codes
<1>4. p # -1 => Stands(s)
  BY <1>0, <1>1 DEF Stands
<1>5. \A t \in Scan \ {s} :
        Stands(t) => scan[t].currentPage \in pinned /\ (p # -1 => scan[t].currentPage # p)
  BY <1>1, <1>4 DEF ScansApart
<1> HIDE DEF p
<1>6. CASE NextPageFails
  <2>1. /\ ~scan[s].pageData /\ call' = NoCall
        /\ scan' = [scan EXCEPT ![s].stuck = TRUE]
        /\ LeavePage(p, PF_GetNextPage(p), pinned)
    BY <1>0, <1>6 DEF NextPageFails, p
  <2>2. pinned' = IF p = -1 THEN pinned ELSE pinned \ {p}
    BY <2>1, <1>2, <1>3, LeavePageUnfixes
  <2>3. /\ \A t \in Scan \ {s} : scan'[t] = scan[t]
        /\ scan'[s].stuck /\ ~scan'[s].pageData
    BY <2>1, <1>1 DEF ScanHandle
  <2>4. ~Stands(s)' /\ \A t \in Scan \ {s} : Stands(t)' <=> Stands(t)
    BY <1>0, <2>1, <2>3 DEF Stands, Idle
  <2>5. \A t \in Scan : Stands(t)' => t # s /\ Stands(t) /\ scan'[t] = scan[t]
    BY <2>3, <2>4
  <2>6. \A t \in Scan : Stands(t)' => scan'[t].currentPage \in pinned'
    BY <2>2, <2>5, <1>5
  <2>7. \A t, u \in Scan : t # u /\ Stands(t)' /\ Stands(u)' =>
                          scan'[t].currentPage # scan'[u].currentPage
    BY <2>5 DEF ScansApart
  <2>8. \A t \in Scan : ~scan'[t].stuck /\ ~Stands(t)' => scan'[t].currentPage = -1
    BY <2>3, <2>4 DEF ScansApart
  <2> QED  BY <2>1, <2>6, <2>7, <2>8 DEF ScansApart, Idle
<1>7. CASE NextPage
  <2>1. /\ PF_GetNextPage(p) = PFE_OK
        /\ LeavePage(p, PFerrno, pinned \cup {p + 1})
        /\ LookAt(call.scan, p + 1, 0)
    BY <1>0, <1>7 DEF NextPage, p
  <2>2. p + 1 \in 0 .. numpages - 1 /\ 0 \in 0 .. RM_PAGE_SIZE /\ p + 1 # p /\ p + 1 \notin pinned
    BY <2>1, <1>2, <1>3, RMPageAssumption DEF RMPageAssumption
  <2>3. pinned' = IF p = -1 THEN pinned \cup {p + 1} ELSE (pinned \cup {p + 1}) \ {p}
    BY <2>1, <1>2, <1>3, LeavePageUnfixes
  <2>4. p + 1 \in pinned'
    BY <2>2, <2>3
  <2>5. \A t \in Scan \ {s} :
          Stands(t) => scan[t].currentPage \in pinned' /\ scan[t].currentPage # p + 1
    BY <2>2, <2>3, <1>5
  <2> QED  BY <2>1, <2>2, <2>4, <2>5, <1>0, <1>1, ApartAfterLookAt
<1>8. CASE NextSlot
  <2> DEFINE k == scan[s].currentSlot + 1
  <2>1. scan[s].pageData /\ LookAt(call.scan, p, k) /\ UNCHANGED <<pinned, PFerrno>>
    BY <1>0, <1>8 DEF NextSlot, p
  <2>2. p \in 0 .. numpages - 1 /\ scan[s].currentSlot \in Slots(page[p])
    BY <2>1, <1>1 DEF RMInv, ScansPointToSlots, p
  <2>3. page[p].numSlots \in 0 .. RM_PAGE_SIZE
    BY <2>2, <1>2 DEF RMInv, RMTypeOK, PageNum, Page
  <2>4. k \in 0 .. RM_PAGE_SIZE
    BY <2>2, <2>3, RMPageAssumption DEF RMPageAssumption, Slots
  <2>5. p \in pinned'
    BY <2>1, <1>1 DEF ScansApart, Stands, p
  <2>6. p # -1
    BY <2>2, <1>2
  <2> HIDE DEF k
  <2>7. \A t \in Scan \ {s} :
          Stands(t) => scan[t].currentPage \in pinned' /\ scan[t].currentPage # p
    BY <2>1, <2>6, <1>5
  <2> QED  BY <2>1, <2>2, <2>4, <2>5, <2>7, <1>0, <1>1, ApartAfterLookAt
<1> QED  BY <1>6, <1>7, <1>8 DEF Loop

(* So do the calls that begin and end a scan: here it counts that the      *)
(* client does not go on with a scan that failed.                          *)
LEMMA ScanCallKeepsApart ==
  ASSUME RetriesScans = FALSE, RMInv, ScansApart,
         \/ \E s \in Scan : RM_OpenScan(s)
         \/ \E s \in Scan, bufSize \in BufSizes : RM_GetNextRecord(s, bufSize)
         \/ \E s \in Scan : RM_CloseScan(s)
  PROVE  ScansApart'
<1> USE DEF Return, ReturnData
<1>1. scan \in [Scan -> ScanHandle]
  BY DEF RMInv, RMTypeOK
<1>2. ASSUME NEW s \in Scan, NEW u \in BOOLEAN, Idle, call' = NoCall,
             scan' = [scan EXCEPT ![s] = NewScan(u)],
             \/ pinned' = pinned
             \/ scan[s].pageData /\ pinned' = pinned \ {scan[s].currentPage}
      PROVE  ScansApart'
  <2>1. /\ ~scan'[s].pageData /\ scan'[s].currentPage = -1
        /\ \A t \in Scan \ {s} : scan'[t] = scan[t]
    BY <1>1, <1>2, NewScanStandsNowhere
  <2>2. \A t \in Scan : Stands(t)' => t # s /\ Stands(t) /\ scan'[t] = scan[t]
    BY <2>1, <1>2 DEF Stands, Idle
  <2>3. \A t \in Scan \ {s} : Stands(t) => Stands(t)'
    BY <2>1, <1>2 DEF Stands, Idle
  <2>4. scan[s].pageData => \A t \in Scan \ {s} :
                              Stands(t) => scan[t].currentPage # scan[s].currentPage
    BY DEF ScansApart, Stands
  <2>5. \A t \in Scan : Stands(t)' => scan'[t].currentPage \in pinned'
    BY <2>2, <2>4, <1>2 DEF ScansApart
  <2>6. \A t, v \in Scan : t # v /\ Stands(t)' /\ Stands(v)' =>
                          scan'[t].currentPage # scan'[v].currentPage
    BY <2>2 DEF ScansApart
  <2>7. \A t \in Scan : ~scan'[t].stuck /\ ~Stands(t)' => scan'[t].currentPage = -1
    BY <2>1, <2>3 DEF ScansApart
  <2> QED  BY <2>5, <2>6, <2>7, <1>2 DEF ScansApart, Idle
<1>3. CASE \E s \in Scan : RM_OpenScan(s)
  BY <1>3, <1>2 DEF RM_OpenScan
<1>4. CASE \E s \in Scan, bufSize \in BufSizes : RM_GetNextRecord(s, bufSize)
  BY <1>4 DEF RM_GetNextRecord, ScansApart, Stands, Idle
<1>5. CASE \E s \in Scan : RM_CloseScan(s)
  BY <1>5, <1>2, ApartIfScansStay DEF RM_CloseScan
<1> QED  BY <1>3, <1>4, <1>5

(* At first no scan stands anywhere. *)
LEMMA InitApart == RMInit => ScansApart
BY NewScanStandsNowhere DEF RMInit, ScansApart, Stands, Idle

(* Every step keeps the scans apart. *)
LEMMA StepKeepsApart ==
  ASSUME RetriesScans = FALSE, RMInv, ScansApart, [RMNext]_rmvars
  PROVE  ScansApart'
<1> USE DEF file, Return, ReturnData
<1>1. CASE UNCHANGED rmvars
  BY <1>1 DEF rmvars, ScansApart, Stands, Idle
<1>2. CASE RM_CreateFile \/ RM_DestroyFile \/ RM_OpenFile \/ NewProcess
  <2>1. Idle /\ call' = NoCall /\ UNCHANGED <<scan, pinned>>
    BY <1>2 DEF RM_CreateFile, RM_DestroyFile, RM_OpenFile, NewProcess
  <2> QED  BY <2>1, ApartIfScansStay
<1>3. CASE RM_CloseFile
  <2>1. Idle /\ call' = NoCall
    BY <1>3 DEF RM_CloseFile
  <2>2. CASE scan' = [s \in Scan |-> NewScan(FALSE)]
    BY <2>1, <2>2, NewScanStandsNowhere DEF ScansApart, Stands, Idle
  <2>3. CASE UNCHANGED <<scan, pinned>>
    BY <2>1, <2>3, ApartIfScansStay
  <2> QED  BY <2>2, <2>3, <1>3 DEF RM_CloseFile
<1>4. CASE \E d \in Datum, length \in Lengths : RM_InsertRecord(d, length)
  <2>1. PICK d \in Datum, length \in Lengths : RM_InsertRecord(d, length)
    BY <1>4
  <2>2. length \in Nat
    BY RMAssumption DEF RMAssumption
  <2>3. pinned \subseteq LoopEnd(length).fixed
    BY <2>2, LoopFindsRoom DEF RMInv
  <2>4. Idle /\ scan' = scan /\ call' = NoCall /\ pinned' \in {pinned, LoopEnd(length).fixed}
    BY <2>1 DEF RM_InsertRecord, InsertInNewPage, Insert
  <2> QED  BY <2>3, <2>4, ApartIfScansStay
<1>5. CASE \/ \E rid \in RID : RM_DeleteRecord(rid)
           \/ \E rid \in RID, bufSize \in BufSizes : RM_GetRecord(rid, bufSize)
  <2>1. Idle /\ call' = NoCall /\ UNCHANGED <<scan, pinned>>
    BY <1>5 DEF RM_DeleteRecord, RM_GetRecord, Refused
  <2> QED  BY <2>1, ApartIfScansStay
<1>6. CASE \/ \E s \in Scan : RM_OpenScan(s)
           \/ \E s \in Scan, bufSize \in BufSizes : RM_GetNextRecord(s, bufSize)
           \/ \E s \in Scan : RM_CloseScan(s)
  BY <1>6, ScanCallKeepsApart
<1>7. CASE Loop
  BY <1>7, LoopKeepsApart
<1> QED  BY <1>1, <1>2, <1>3, <1>4, <1>5, <1>6, <1>7 DEF RMNext, Loop

(***************************************************************************)
(* If no client goes on with a scan that failed, a scan's page stays fixed *)
(* between its calls, and no two scans hold one page: whatever other scans *)
(* and insertions do with the buffers, and however few these are.          *)
(***************************************************************************)
THEOREM ScansKeepTheirPages ==
  ASSUME RetriesScans = FALSE
  PROVE  RMSpec => []ScansHoldTheirPage
<1>1. RMInit => RMInv /\ ScansApart
  BY InitRMInv, InitApart
<1>2. RMInv /\ ScansApart /\ [RMNext]_rmvars => (RMInv /\ ScansApart)'
  BY StepRMInv, StepKeepsApart
<1>3. RMInv /\ ScansApart => ScansHoldTheirPage
  BY DEF ScansApart, Stands, ScansHoldTheirPage
<1> QED  BY <1>1, <1>2, <1>3, PTL DEF RMSpec

-----------------------------------------------------------------------------
(* Scans tell every record.                                                *)

(* RIDs tell all pages and slots of the file apart.                        *)
WideRIDs == /\ MaxPages <= RIDPages
            /\ (RM_PAGE_SIZE - HeaderSize) \div SlotSize < RIDSlots

(* The places a RID of the file can name.                                  *)
SlotIndex == 0 .. (RM_PAGE_SIZE - HeaderSize) \div SlotSize

(* A RID names the page and the slot it was made of.                       *)
LEMMA PackIsInverse ==
  ASSUME WideRIDs, NEW p \in PageNum, NEW k \in SlotIndex
  PROVE  /\ RM_PackRID(p, k) = p * RIDSlots + k
         /\ PageOf(RM_PackRID(p, k)) = p
         /\ SlotOf(RM_PackRID(p, k)) = k
<1> USE RMAssumption, RMPageAssumption DEF RMAssumption, RMPageAssumption
<1> DEFINE m == (RM_PAGE_SIZE - HeaderSize) \div SlotSize
<1>1. m \in Nat
  OBVIOUS
<1> HIDE DEF m
<1>2. p \in Nat /\ k \in Nat /\ p < RIDPages /\ k < RIDSlots
  BY <1>1 DEF WideRIDs, PageNum, SlotIndex, m
<1>3. p % RIDPages = p /\ k % RIDSlots = k
  BY <1>2
<1>4. RM_PackRID(p, k) = p * RIDSlots + k
  BY <1>3 DEF RM_PackRID
<1>5. (p * RIDSlots + k) \div RIDSlots = p
  BY <1>2
<1>6. (p * RIDSlots + k) % RIDSlots = k
  BY <1>2
<1> QED  BY <1>4, <1>5, <1>6 DEF PageOf, SlotOf

(* RIDs are in the order of the pages and slots they name.                 *)
LEMMA PackIsOrdered ==
  ASSUME WideRIDs, NEW p \in PageNum, NEW k \in SlotIndex,
         NEW q \in PageNum, NEW j \in SlotIndex
  PROVE  RM_PackRID(p, k) < RM_PackRID(q, j) <=> (p < q \/ (p = q /\ k < j))
<1> USE RMAssumption, RMPageAssumption DEF RMAssumption, RMPageAssumption
<1> DEFINE m == (RM_PAGE_SIZE - HeaderSize) \div SlotSize
<1>1. m \in Nat
  OBVIOUS
<1> HIDE DEF m
<1>2. /\ p \in Nat /\ k \in Nat /\ k < RIDSlots
      /\ q \in Nat /\ j \in Nat /\ j < RIDSlots
  BY <1>1 DEF WideRIDs, PageNum, SlotIndex, m
<1>3. RM_PackRID(p, k) = p * RIDSlots + k /\ RM_PackRID(q, j) = q * RIDSlots + j
  BY PackIsInverse
<1>4. \A a, b \in Nat : a < b => a * RIDSlots + RIDSlots <= b * RIDSlots
  <2> SUFFICES ASSUME NEW a \in Nat, NEW b \in Nat, a < b
               PROVE  a * RIDSlots + RIDSlots <= b * RIDSlots
    OBVIOUS
  <2>1. b * RIDSlots = a * RIDSlots + RIDSlots + (b - a - 1) * RIDSlots
    OBVIOUS
  <2>2. (b - a - 1) * RIDSlots \in Nat
    OBVIOUS
  <2>3. b * RIDSlots \in Nat /\ a * RIDSlots \in Nat
    OBVIOUS
  <2> QED  BY <2>1, <2>2, <2>3
<1>5. p * RIDSlots \in Nat /\ q * RIDSlots \in Nat
  BY <1>2
<1>6. CASE p < q
  BY <1>6, <1>2, <1>3, <1>4, <1>5
<1>7. CASE p = q
  BY <1>7, <1>2, <1>3, <1>5
<1>8. CASE q < p
  BY <1>8, <1>2, <1>3, <1>4, <1>5
<1> QED  BY <1>2, <1>6, <1>7, <1>8

(* The directory of a sound page has no more slots than fit.               *)
LEMMA SlotsAreIndices ==
  ASSUME NEW pg \in Page, PageSound(pg)
  PROVE  pg.numSlots \in SlotIndex /\ Slots(pg) \subseteq SlotIndex
<1> USE RMPageAssumption DEF RMPageAssumption
<1> DEFINE x == RM_PAGE_SIZE - HeaderSize
           n == pg.numSlots
           m == x \div SlotSize
<1>1. n \in Nat /\ x \in Nat /\ n * SlotSize <= x
  <2>1. n \in Nat /\ pg.freeSpaceOffset \in HeaderSize .. RM_PAGE_SIZE
    BY DEF Page
  <2>2. n * SlotSize \in Nat
    BY <2>1, DirectorySize
  <2>3. pg.freeSpaceOffset <= RM_PAGE_SIZE - n * SlotSize
    BY DEF PageSound
  <2> QED  BY <2>1, <2>2, <2>3
<1> HIDE DEF n, x
<1>2. m \in Nat /\ x < (m + 1) * SlotSize
  BY <1>1
<1> HIDE DEF m
<1>3. n <= m
  <2> SUFFICES ASSUME m + 1 <= n PROVE FALSE
    BY <1>1, <1>2
  <2>1. n * SlotSize = (m + 1) * SlotSize + (n - m - 1) * SlotSize
    BY <1>1, <1>2
  <2>2. (n - m - 1) * SlotSize \in Nat
    BY <1>1, <1>2
  <2>3. n * SlotSize \in Int /\ (m + 1) * SlotSize \in Int
    BY <1>1, <1>2
  <2> QED  BY <1>1, <1>2, <2>1, <2>2, <2>3
<1> QED  BY <1>1, <1>2, <1>3 DEF SlotIndex, Slots, n, m, x

(* The place of slot k of page p is not beyond the one scan s has come to. *)
Passed(s, p, k) == \/ p < scan[s].currentPage
                   \/ p = scan[s].currentPage /\ k <= scan[s].currentSlot

(***************************************************************************)
(* Between its calls a scan that has not failed is at the start or on the  *)
(* record it told last.  In a call, the scan has passed no record beyond   *)
(* that one, and gives a page up only behind its last slot.                *)
(***************************************************************************)
TellsInOrder ==
    /\ \A s \in Scan : ~scan[s].stuck /\ (Idle \/ call.scan # s) =>
         \/ scan[s].told = -1 /\ scan[s].currentPage = -1 /\ ~scan[s].pageData
         \/ /\ scan[s].pageData
            /\ scan[s].told = RM_PackRID(scan[s].currentPage, scan[s].currentSlot)
    /\ ~Idle =>
         /\ \A p \in 0 .. numpages - 1 : \A k \in LiveSlots(page[p]) :
              RM_PackRID(p, k) > scan[call.scan].told => ~Passed(call.scan, p, k)
         /\ ~scan[call.scan].pageData /\ scan[call.scan].currentPage # -1 =>
              scan[call.scan].currentSlot >= page[scan[call.scan].currentPage].numSlots

(* A call that ends with no error tells the first record beyond the last   *)
(* one told, and finds the end only if there is none.                      *)
TellsNext ==
    \A rid \in LiveRIDs : rid > scan[call.scan].told =>
      /\ ret'.code # RME_EOF
      /\ ret'.code = RME_OK => ret'.rid <= rid

(* The slots of the file's pages have RIDs.                                *)
LEMMA SlotsHaveRIDs ==
  ASSUME RMInv, NEW p \in 0 .. numpages - 1
  PROVE  /\ p \in PageNum
         /\ page[p].numSlots \in Nat
         /\ \A k \in Slots(page[p]) : k \in SlotIndex /\ k \in Nat
         /\ LiveSlots(page[p]) \subseteq Slots(page[p])
<1>1. p \in PageNum /\ page[p] \in Page /\ PageSound(page[p])
  BY RMAssumption DEF RMAssumption, RMInv, RMTypeOK, PageNum, PagesAreSound
<1>2. page[p].numSlots \in Nat
  BY <1>1 DEF Page
<1> QED  BY <1>1, <1>2, SlotsAreIndices DEF LiveSlots, Slots

(* A turn that looks at the first place not passed keeps the order.        *)
LEMMA LookAtTellsInOrder ==
  ASSUME WideRIDs, RMInv, TellsInOrder, ~Idle,
         NEW n \in 0 .. numpages - 1, NEW k \in 0 .. RM_PAGE_SIZE,
         LookAt(call.scan, n, k), UNCHANGED file,
         \A p \in 0 .. numpages - 1 : \A j \in LiveSlots(page[p]) :
           RM_PackRID(p, j) > scan[call.scan].told => n < p \/ (n = p /\ k <= j)
  PROVE  TellsInOrder' /\ (Idle' => TellsNext)
<1>0. PICK s \in Scan : s = call.scan
  BY DEF RMInv, RMTypeOK, Idle
<1>1. /\ scan \in [Scan -> ScanHandle] /\ call # NoCall
      /\ page' = page /\ numpages' = numpages
      /\ numpages \in Nat /\ n \in Nat /\ k \in Nat
  BY RMAssumption, RMPageAssumption
     DEF RMAssumption, RMPageAssumption, RMInv, RMTypeOK, Idle, file
<1>2. \A p \in 0 .. numpages - 1 : \A j \in LiveSlots(page[p]) :
         /\ p \in PageNum /\ j \in SlotIndex /\ j \in Nat /\ p \in Nat
         /\ j < page[p].numSlots
  BY <1>1, SlotsHaveRIDs DEF Slots
<1>3. /\ \A t \in Scan \ {s} : scan'[t] = scan[t]
      /\ scan'[s].currentPage = n
      /\ call' \in {NoCall, call}
  BY <1>0, LookAtScan
<1>4. page[n].numSlots \in Nat
  BY SlotsHaveRIDs
<1> DEFINE Others == \A t \in Scan \ {s} : ~scan'[t].stuck =>
                       \/ scan'[t].told = -1 /\ scan'[t].currentPage = -1 /\ ~scan'[t].pageData
                       \/ /\ scan'[t].pageData
                          /\ scan'[t].told = RM_PackRID(scan'[t].currentPage, scan'[t].currentSlot)
<1>5. Others
  BY <1>0, <1>3 DEF TellsInOrder
<1> HIDE DEF Others
<1>6. ASSUME call' = call,
             scan'[s].told = scan[s].told, scan'[s].currentSlot = k,
             ~scan'[s].pageData => k >= page[n].numSlots,
             k \notin LiveSlots(page[n])
      PROVE  TellsInOrder'
  <2>1. ASSUME NEW p \in 0 .. numpages - 1, NEW j \in LiveSlots(page[p]),
               RM_PackRID(p, j) > scan[s].told
        PROVE  ~Passed(s, p, j)'
    <3>1. n < p \/ (n = p /\ k <= j)
      BY <1>0, <2>1
    <3>2. n = p => k # j
      BY <1>6
    <3> QED  BY <3>1, <3>2, <1>1, <1>2, <1>3, <1>6 DEF Passed
  <2>2. ~Idle'
    BY <1>1, <1>6 DEF Idle
  <2>3. call'.scan = s /\ scan'[s].told = scan[s].told
    BY <1>0, <1>6
  <2>4. ~scan'[s].pageData => scan'[s].currentSlot >= page[scan'[s].currentPage].numSlots
    BY <1>3, <1>6
  <2> QED  BY <2>1, <2>2, <2>3, <2>4, <1>1, <1>5 DEF TellsInOrder, Others
<1>7. ASSUME call' = NoCall,
             \/ scan'[s].stuck
             \/ /\ scan'[s].pageData
                /\ scan'[s].told = RM_PackRID(n, k) /\ scan'[s].currentSlot = k
      PROVE  TellsInOrder'
  <2>1. Idle'
    BY <1>7 DEF Idle
  <2> QED  BY <2>1, <1>3, <1>5, <1>7 DEF TellsInOrder, Others
<1>8. scan[s] \in ScanHandle
  BY <1>1
<1>9. CASE /\ k >= page[n].numSlots
           /\ scan' = [scan EXCEPT ![s].currentPage = n, ![s].currentSlot = k,
                                   ![s].pageData = FALSE]
           /\ UNCHANGED <<call, ret>>
  <2>1. scan'[s].told = scan[s].told /\ scan'[s].currentSlot = k
    BY <1>1, <1>8, <1>9 DEF ScanHandle
  <2>2. k \notin LiveSlots(page[n])
    BY <1>2, <1>4, <1>9, <1>1
  <2> QED  BY <2>1, <2>2, <1>1, <1>6, <1>9 DEF Idle
<1>10. CASE /\ k \in EmptySlots(page[n])
            /\ scan' = [scan EXCEPT ![s].currentPage = n, ![s].currentSlot = k,
                                    ![s].pageData = TRUE]
            /\ UNCHANGED <<call, ret>>
  <2>1. scan'[s].told = scan[s].told /\ scan'[s].currentSlot = k /\ scan'[s].pageData
    BY <1>1, <1>8, <1>10 DEF ScanHandle
  <2>2. k \notin LiveSlots(page[n])
    BY <1>10 DEF LiveSlots
  <2> QED  BY <2>1, <2>2, <1>1, <1>6, <1>10 DEF Idle
<1>11. CASE /\ scan' = [scan EXCEPT ![s].currentPage = n, ![s].currentSlot = k,
                                    ![s].pageData = TRUE, ![s].stuck = TRUE]
            /\ Return(RME_BUFTOOSMALL)
  <2>1. scan'[s].stuck
    BY <1>1, <1>8, <1>11 DEF ScanHandle
  <2>2. ret'.code = RME_BUFTOOSMALL /\ call' = NoCall
    BY <1>11 DEF Return, ReturnData
  <2> QED  BY <2>1, <2>2, <1>7 DEF TellsNext, RME_BUFTOOSMALL, RME_EOF, RME_OK
<1>12. CASE /\ k \in LiveSlots(page[n])
            /\ scan' = [scan EXCEPT ![s].currentPage = n, ![s].currentSlot = k,
                                    ![s].pageData = TRUE, ![s].told = RM_PackRID(n, k)]
            /\ ReturnData(RME_OK, RM_PackRID(n, k), Record(page[n], k))
  <2>1. scan'[s].pageData /\ scan'[s].told = RM_PackRID(n, k) /\ scan'[s].currentSlot = k
    BY <1>1, <1>8, <1>12 DEF ScanHandle
  <2>2. ret'.code = RME_OK /\ ret'.rid = RM_PackRID(n, k) /\ call' = NoCall
    BY <1>12 DEF ReturnData
  <2>3. TellsNext
    <3> SUFFICES ASSUME NEW rid \in LiveRIDs, rid > scan[call.scan].told
                 PROVE  RM_PackRID(n, k) <= rid
      BY <2>2 DEF TellsNext, RME_OK, RME_EOF
    <3>1. PICK p \in 0 .. numpages - 1 : \E j \in LiveSlots(page[p]) : rid = RM_PackRID(p, j)
      BY DEF LiveRIDs
    <3>2. PICK j \in LiveSlots(page[p]) : rid = RM_PackRID(p, j)
      BY <3>1
    <3>3. n < p \/ (n = p /\ k <= j)
      BY <3>2
    <3>4. /\ n \in PageNum /\ k \in SlotIndex /\ p \in PageNum /\ j \in SlotIndex
          /\ p \in Nat /\ j \in Nat
      BY <1>2, <1>12
    <3>5. RM_PackRID(p, j) < RM_PackRID(n, k) <=> (p < n \/ (p = n /\ j < k))
      BY <3>4, PackIsOrdered
    <3>6. RM_PackRID(p, j) \in Int /\ RM_PackRID(n, k) \in Int
      BY <3>4, <1>1, RIDIsNumber
    <3> QED  BY <3>2, <3>3, <3>4, <3>5, <3>6, <1>1
  <2> QED  BY <2>1, <2>2, <2>3, <1>7
<1> QED  BY <1>0, <1>9, <1>10, <1>11, <1>12 DEF LookAt

(* A turn of the loop keeps the order.                                     *)
LEMMA LoopTellsInOrder ==
  ASSUME WideRIDs, RMInv, TellsInOrder, Loop
  PROVE  TellsInOrder' /\ (Idle' => TellsNext)
<1> USE DEF file, Return, ReturnData
<1>1. /\ ~Idle /\ UNCHANGED file /\ call.scan \in Scan /\ scan \in [Scan -> ScanHandle]
      /\ numpages \in Nat
  BY RMAssumption
     DEF RMAssumption, Loop, NextPageFails, NextPage, NextSlot, RMInv, RMTypeOK, Idle
<1>0. PICK s \in Scan : s = call.scan
  BY <1>1
<1> DEFINE c == scan[s].currentPage
           k == scan[s].currentSlot
<1>2. c \in Int /\ -1 <= c /\ k \in Int /\ -1 <= k
  BY <1>1, RMAssumption DEF RMAssumption, ScanHandle
<1>3. \A p \in 0 .. numpages - 1 : \A j \in LiveSlots(page[p]) :
         /\ p \in PageNum /\ j \in SlotIndex /\ j \in Nat /\ p \in Nat
         /\ j < page[p].numSlots /\ page[p].numSlots \in Nat
  BY <1>1, SlotsHaveRIDs DEF Slots
<1>4. \A p \in 0 .. numpages - 1 : \A j \in LiveSlots(page[p]) :
        RM_PackRID(p, j) > scan[s].told => c < p \/ (c = p /\ k < j)
  <2> SUFFICES ASSUME NEW p \in 0 .. numpages - 1, NEW j \in LiveSlots(page[p]),
                      RM_PackRID(p, j) > scan[s].told
               PROVE  c < p \/ (c = p /\ k < j)
    OBVIOUS
  <2>1. ~Passed(s, p, j)
    BY <1>0, <1>1 DEF TellsInOrder
  <2>2. p \in Int /\ j \in Int
    BY <1>3
  <2> QED  BY <2>1, <2>2, <1>2 DEF Passed
<1>5. ~scan[s].pageData =>
        \A p \in 0 .. numpages - 1 : \A j \in LiveSlots(page[p]) :
          RM_PackRID(p, j) > scan[s].told => c < p
  <2> SUFFICES ASSUME ~scan[s].pageData,
                      NEW p \in 0 .. numpages - 1, NEW j \in LiveSlots(page[p]),
                      RM_PackRID(p, j) > scan[s].told
               PROVE  c < p
    OBVIOUS
  <2>1. c # -1 => k >= page[c].numSlots
    BY <1>0, <1>1 DEF TellsInOrder
  <2>2. c = p => c # -1 /\ j < page[c].numSlots /\ j \in Int /\ page[c].numSlots \in Int
    BY <1>3
  <2>3. c < p \/ (c = p /\ k < j)
    BY <1>4
  <2> QED  BY <2>1, <2>2, <2>3, <1>2
<1> HIDE DEF c, k
<1>6. CASE NextPageFails
  <2>1. /\ ~scan[s].pageData /\ call' = NoCall
        /\ scan' = [scan EXCEPT ![s].stuck = TRUE]
        /\ ret'.code = IF PF_GetNextPage(c) = PFE_EOF THEN RME_EOF ELSE PF_GetNextPage(c)
        /\ PF_GetNextPage(c) # PFE_OK
    BY <1>0, <1>6 DEF NextPageFails, c
  <2>2. scan'[s].stuck /\ \A t \in Scan \ {s} : scan'[t] = scan[t]
    BY <2>1, <1>1 DEF ScanHandle
  <2>3. TellsInOrder'
    BY <2>1, <2>2, <1>0 DEF TellsInOrder, Idle
  <2>4. ret'.code # RME_OK
    BY <2>1 DEF RME_OK, RME_EOF, PFE_OK
  <2>5. ASSUME ret'.code = RME_EOF
        PROVE  c + 1 >= numpages
    BY <2>1, <2>5 DEF RME_EOF, PF_GetNextPage, GetError, PFE_EOF, PFE_PAGEFIXED, PFE_NOBUF, PFE_OK
  <2>6. TellsNext
    <3> SUFFICES ASSUME NEW rid \in LiveRIDs, rid > scan[s].told, ret'.code = RME_EOF
                 PROVE  FALSE
      BY <2>4, <1>0 DEF TellsNext
    <3>1. PICK p \in 0 .. numpages - 1 : \E j \in LiveSlots(page[p]) : rid = RM_PackRID(p, j)
      BY DEF LiveRIDs
    <3>2. c < p
      BY <3>1, <2>1, <1>5
    <3> QED  BY <3>2, <2>5, <1>1, <1>2
  <2> QED  BY <2>3, <2>6
<1>7. CASE NextPage
  <2>1. ~scan[s].pageData /\ PF_GetNextPage(c) = PFE_OK /\ LookAt(call.scan, c + 1, 0)
    BY <1>0, <1>7 DEF NextPage, c
  <2>2. c + 1 \in 0 .. numpages - 1 /\ 0 \in 0 .. RM_PAGE_SIZE
    BY <2>1, <1>1, <1>2, RMPageAssumption, Codes DEF RMPageAssumption
  <2>3. \A p \in 0 .. numpages - 1 : \A j \in LiveSlots(page[p]) :
          RM_PackRID(p, j) > scan[call.scan].told => c + 1 < p \/ (c + 1 = p /\ 0 <= j)
    <3> SUFFICES ASSUME NEW p \in 0 .. numpages - 1, NEW j \in LiveSlots(page[p]),
                        RM_PackRID(p, j) > scan[s].told
                 PROVE  c + 1 < p \/ (c + 1 = p /\ 0 <= j)
      BY <1>0
    <3>1. c < p /\ j \in Nat
      BY <2>1, <1>3, <1>5
    <3> QED  BY <3>1, <1>2
  <2> DEFINE n == c + 1
             z == 0
  <2> HIDE DEF n
  <2>4. LookAt(call.scan, n, z) /\ n \in 0 .. numpages - 1 /\ z \in 0 .. RM_PAGE_SIZE
    BY <2>1, <2>2 DEF n
  <2>5. \A p \in 0 .. numpages - 1 : \A j \in LiveSlots(page[p]) :
          RM_PackRID(p, j) > scan[call.scan].told => n < p \/ (n = p /\ z <= j)
    BY <2>3 DEF n
  <2> HIDE DEF z
  <2> QED  BY <2>4, <2>5, <1>1, LookAtTellsInOrder
<1>8. CASE NextSlot
  <2> DEFINE m == k + 1
  <2>1. scan[s].pageData /\ LookAt(call.scan, c, m)
    BY <1>0, <1>8 DEF NextSlot, c, k
  <2>2. c \in 0 .. numpages - 1 /\ k \in Slots(page[c])
    BY <2>1, <1>1 DEF RMInv, ScansPointToSlots, c, k
  <2>3. page[c].numSlots \in 0 .. RM_PAGE_SIZE
    BY <2>2, <1>1, RMAssumption DEF RMAssumption, RMInv, RMTypeOK, PageNum, Page
  <2>4. m \in 0 .. RM_PAGE_SIZE
    BY <2>2, <2>3, RMPageAssumption DEF RMPageAssumption, Slots
  <2>5. \A p \in 0 .. numpages - 1 : \A j \in LiveSlots(page[p]) :
          RM_PackRID(p, j) > scan[call.scan].told => c < p \/ (c = p /\ m <= j)
    BY <1>0, <1>2, <1>3, <1>4
  <2> HIDE DEF m
  <2> QED  BY <2>1, <2>2, <2>4, <2>5, <1>1, LookAtTellsInOrder
<1> QED  BY <1>6, <1>7, <1>8 DEF Loop

(* A scan that is used no more, or not yet, is at the start.               *)
LEMMA NewScanTellsInOrder ==
  ASSUME NEW u \in BOOLEAN
  PROVE  NewScan(u).told = -1 /\ NewScan(u).currentPage = -1 /\ ~NewScan(u).pageData
BY DEF NewScan

(* A call that begins with a scan that has not failed has passed nothing   *)
(* that it has not told.                                                   *)
LEMMA GetNextTellsInOrder ==
  ASSUME WideRIDs, RetriesScans = FALSE, RMInv, TellsInOrder,
         NEW s \in Scan, NEW bufSize, RM_GetNextRecord(s, bufSize)
  PROVE  TellsInOrder'
<1>1. /\ Idle /\ ~scan[s].stuck /\ call'.scan = s
      /\ scan' = scan /\ page' = page /\ numpages' = numpages
  BY DEF RM_GetNextRecord, file
<1>2. scan[s] \in ScanHandle /\ numpages \in Nat
  BY RMAssumption DEF RMAssumption, RMInv, RMTypeOK
<1>3. \/ scan[s].told = -1 /\ scan[s].currentPage = -1 /\ ~scan[s].pageData
      \/ /\ scan[s].pageData
         /\ scan[s].told = RM_PackRID(scan[s].currentPage, scan[s].currentSlot)
  BY <1>1 DEF TellsInOrder
<1>4. \A p \in 0 .. numpages - 1 : \A k \in LiveSlots(page[p]) :
        RM_PackRID(p, k) > scan[s].told => ~Passed(s, p, k)
  <2> SUFFICES ASSUME NEW p \in 0 .. numpages - 1, NEW k \in LiveSlots(page[p]),
                      RM_PackRID(p, k) > scan[s].told, Passed(s, p, k)
               PROVE  FALSE
    OBVIOUS
  <2>1. p \in PageNum /\ k \in SlotIndex /\ k \in Nat /\ p \in Nat
    BY <1>2, SlotsHaveRIDs
  <2>2. CASE scan[s].currentPage = -1
    BY <2>1, <2>2 DEF Passed
  <2>3. CASE scan[s].pageData /\ scan[s].told = RM_PackRID(scan[s].currentPage, scan[s].currentSlot)
    <3> DEFINE c == scan[s].currentPage
               j == scan[s].currentSlot
    <3>1. c \in 0 .. numpages - 1 /\ j \in Slots(page[c])
      BY <2>3 DEF RMInv, ScansPointToSlots
    <3>2. p < c \/ (p = c /\ k <= j)
      BY DEF Passed
    <3>3. RM_PackRID(p, k) > RM_PackRID(c, j)
      BY <2>3
    <3> HIDE DEF c, j
    <3>4. c \in PageNum /\ j \in SlotIndex /\ c \in Nat /\ j \in Nat
      BY <3>1, <1>2, SlotsHaveRIDs
    <3>5. RM_PackRID(c, j) < RM_PackRID(p, k) <=> (c < p \/ (c = p /\ j < k))
      BY <2>1, <3>4, PackIsOrdered
    <3>6. RM_PackRID(c, j) \in Int /\ RM_PackRID(p, k) \in Int
      BY <2>1, <3>4, RIDIsNumber
    <3> QED  BY <2>1, <3>2, <3>3, <3>4, <3>5, <3>6
  <2> QED  BY <2>2, <2>3, <1>3
<1> QED  BY <1>1, <1>3, <1>4 DEF TellsInOrder, Passed

(* Every step keeps the order, and a call that ends has told the next.     *)
LEMMA StepTellsInOrder ==
  ASSUME WideRIDs, RetriesScans = FALSE, RMInv, TellsInOrder, [RMNext]_rmvars
  PROVE  TellsInOrder' /\ (~Idle /\ Idle' => TellsNext)
<1> USE DEF file, Return, ReturnData
<1>1. CASE UNCHANGED rmvars
  BY <1>1 DEF rmvars, TellsInOrder, Idle, Passed
<1>2. ASSUME Idle, call' = NoCall,
             \A t \in Scan : scan'[t] = scan[t] \/ \E u \in BOOLEAN : scan'[t] = NewScan(u)
      PROVE  TellsInOrder'
  BY <1>2, NewScanTellsInOrder DEF TellsInOrder, Idle
<1>3. CASE \/ RM_CreateFile \/ RM_DestroyFile \/ RM_OpenFile \/ RM_CloseFile \/ NewProcess
           \/ \E d \in Datum, length \in Lengths : RM_InsertRecord(d, length)
           \/ \E rid \in RID : RM_DeleteRecord(rid)
           \/ \E rid \in RID, bufSize \in BufSizes : RM_GetRecord(rid, bufSize)
  <2>1. Idle /\ call' = NoCall /\ scan' \in {scan, [s \in Scan |-> NewScan(FALSE)]}
    BY <1>3 DEF RM_CreateFile, RM_DestroyFile, RM_OpenFile, RM_CloseFile, NewProcess,
       RM_InsertRecord, InsertInNewPage, Insert, RM_DeleteRecord, RM_GetRecord, Refused
  <2> QED  BY <2>1, <1>2
<1>4. CASE \/ \E s \in Scan : RM_OpenScan(s)
           \/ \E s \in Scan : RM_CloseScan(s)
  <2>1. PICK s \in Scan : RM_OpenScan(s) \/ RM_CloseScan(s)
    BY <1>4
  <2>2. Idle /\ call' = NoCall /\ \/ scan' = scan
                                  \/ \E u \in BOOLEAN : scan' = [scan EXCEPT ![s] = NewScan(u)]
    BY <2>1 DEF RM_OpenScan, RM_CloseScan
  <2>3. \A t \in Scan : scan'[t] = scan[t] \/ \E u \in BOOLEAN : scan'[t] = NewScan(u)
    BY <2>2 DEF RMInv, RMTypeOK
  <2> QED  BY <2>2, <2>3, <1>2
<1>5. CASE \E s \in Scan, bufSize \in BufSizes : RM_GetNextRecord(s, bufSize)
  <2>1. PICK s \in Scan, bufSize \in BufSizes : RM_GetNextRecord(s, bufSize)
    BY <1>5
  <2>2. Idle
    BY <2>1 DEF RM_GetNextRecord
  <2> QED  BY <2>1, <2>2, GetNextTellsInOrder
<1>6. CASE Loop
  BY <1>6, LoopTellsInOrder
<1> QED  BY <1>1, <1>3, <1>4, <1>5, <1>6 DEF RMNext, Loop

(***************************************************************************)
(* If RIDs tell the file's slots apart, and no client goes on with a scan  *)
(* that failed, a scan skips no record: whatever is inserted and deleted   *)
(* between its calls, and by whatever other scans these pass.              *)
(***************************************************************************)
THEOREM ScansTellEveryRecord ==
  ASSUME WideRIDs, RetriesScans = FALSE
  PROVE  RMSpec => ScansSkipNothing
<1> DEFINE Inv == RMInv /\ TellsInOrder
           Tells == ~Idle /\ Idle' => TellsNext
<1>1. RMInit => Inv
  <2>1. RMInit => TellsInOrder
    BY NewScanTellsInOrder DEF RMInit, TellsInOrder, Idle
  <2> QED  BY <2>1, InitRMInv
<1>2. Inv /\ [RMNext]_rmvars => Inv'
  BY StepRMInv, StepTellsInOrder
<1>3. Inv /\ [RMNext]_rmvars => [Tells]_rmvars
  BY StepTellsInOrder
<1>4. RMSpec => [][Tells]_rmvars
  <2> HIDE DEF Inv, Tells
  <2> QED  BY <1>1, <1>2, <1>3, PTL DEF RMSpec
<1> QED  BY <1>4 DEF ScansSkipNothing, TellsNext

-----------------------------------------------------------------------------
(***************************************************************************)
(* The record manager implements RecordFile, if RIDs tell the file's slots *)
(* apart, and either all records have one length or the file is one page.  *)
(*                                                                         *)
(* Without the second condition it does not, as a run of InsertKeepsRecords *)
(* shows: RM_InsertRecord may take the number of an empty slot from a page *)
(* it has passed, and overwrite that slot of the page it stores in.  Where *)
(* this cannot happen is SlotsAreOwn, and all but the invariants under     *)
(* which it holds is proved from it.                                       *)
(***************************************************************************)

(* The slot an insertion would take, were it to end its loop on a page, is *)
(* an empty one of that page or a new one.                                 *)
SlotsAreOwn ==
    \A length \in Lengths :
      LET o == LoopEnd(length)
      IN  o.errno = PFE_OK =>
            TargetSlot(o.pagenum) \in EmptySlots(page[o.pagenum]) \cup {page[o.pagenum].numSlots}

(* There are no pages where there is no file. *)
NoFileIsEmpty == status = "none" => numpages = 0

-----------------------------------------------------------------------------
(* RIDs and what they name. *)

(* A RID that names a record is made of its page and slot.                 *)
LEMMA LiveRIDNames ==
  ASSUME WideRIDs, RMInv, NEW rid \in LiveRIDs
  PROVE  /\ PageOf(rid) \in 0 .. numpages - 1
         /\ PageOf(rid) \in PageNum
         /\ SlotOf(rid) \in LiveSlots(page[PageOf(rid)])
         /\ SlotOf(rid) \in SlotIndex
         /\ rid = RM_PackRID(PageOf(rid), SlotOf(rid))
         /\ rid \in RID
<1>1. PICK p \in 0 .. numpages - 1 : \E k \in LiveSlots(page[p]) : rid = RM_PackRID(p, k)
  BY DEF LiveRIDs
<1>2. PICK k \in LiveSlots(page[p]) : rid = RM_PackRID(p, k)
  BY <1>1
<1>3. p \in PageNum /\ k \in SlotIndex
  BY SlotsHaveRIDs
<1>4. PageOf(rid) = p /\ SlotOf(rid) = k
  BY <1>2, <1>3, PackIsInverse
<1>5. rid \in RID
  BY <1>2, <1>3 DEF RID, SlotIndex
<1> QED  BY <1>2, <1>3, <1>4, <1>5

(* RIDs of two places are two. *)
LEMMA PackIsInjective ==
  ASSUME WideRIDs, NEW p \in PageNum, NEW k \in SlotIndex,
         NEW q \in PageNum, NEW j \in SlotIndex,
         RM_PackRID(p, k) = RM_PackRID(q, j)
  PROVE  p = q /\ k = j
<1>1. PageOf(RM_PackRID(p, k)) = p /\ SlotOf(RM_PackRID(p, k)) = k
  BY PackIsInverse
<1>2. PageOf(RM_PackRID(q, j)) = q /\ SlotOf(RM_PackRID(q, j)) = j
  BY PackIsInverse
<1> QED  BY <1>1, <1>2

(* The live slots of the pages and the RIDs that name records are the same. *)
LEMMA LiveRIDIs ==
  ASSUME WideRIDs, RMInv, NEW p \in PageNum, NEW k \in SlotIndex
  PROVE  RM_PackRID(p, k) \in LiveRIDs <=> p \in 0 .. numpages - 1 /\ k \in LiveSlots(page[p])
<1>1. ASSUME RM_PackRID(p, k) \in LiveRIDs
      PROVE  p \in 0 .. numpages - 1 /\ k \in LiveSlots(page[p])
  <2>1. PageOf(RM_PackRID(p, k)) = p /\ SlotOf(RM_PackRID(p, k)) = k
    BY PackIsInverse
  <2> QED  BY <2>1, <1>1, LiveRIDNames
<1>2. ASSUME p \in 0 .. numpages - 1, k \in LiveSlots(page[p])
      PROVE  RM_PackRID(p, k) \in LiveRIDs
  BY <1>2 DEF LiveRIDs
<1> QED  BY <1>1, <1>2

(***************************************************************************)
(* Stores says what an insertion that succeeds does: it stores the record  *)
(* in slot k of page p, whose content is pg, where there is room for it.   *)
(* The slot is empty or new, and new only if the page has no empty one;    *)
(* the page is one of the file or an empty one behind it.                  *)
(***************************************************************************)
Stores(p, k, pg, data) ==
    /\ p \in PageNum /\ pg \in Page /\ PageSound(pg)
    /\ k \in EmptySlots(pg) \cup {pg.numSlots}
    /\ k = pg.numSlots => EmptySlots(pg) = {}
    /\ Fits(pg, k, Len(data))
    /\ \/ p < numpages /\ pg = page[p] /\ numpages' = numpages
       \/ /\ p = numpages /\ numpages' = numpages + 1
          /\ pg.numSlots = 0 /\ pg.freeSpaceOffset = HeaderSize
    /\ Insert(p, k, pg, data)

(***************************************************************************)
(* A record stored in slot k of page p, be it in the file or just behind   *)
(* it, is a new one if the slot was the page's own, and the others stay.   *)
(***************************************************************************)
LEMMA InsertShows ==
  ASSUME WideRIDs, RMInv, RMInv',
         NEW p, NEW k, NEW pg, NEW data \in Seq(Datum), Stores(p, k, pg, data)
  PROVE  LET rid == RM_PackRID(p, k)
         IN  /\ rid \in RID /\ rid \notin LiveRIDs
             /\ LiveRIDs' = LiveRIDs \cup {rid}
             /\ RecordOf(rid)' = data
             /\ \A r \in LiveRIDs : RecordOf(r)' = RecordOf(r)
             /\ ret' = [code |-> 0, rid |-> rid, data |-> << >>]
<1> DEFINE rid == RM_PackRID(p, k)
           new == StoreRecord(pg, k, data)
<1>0. /\ p \in PageNum /\ pg \in Page /\ PageSound(pg)
      /\ k \in EmptySlots(pg) \cup {pg.numSlots}
      /\ Fits(pg, k, Len(data))
      /\ \/ p < numpages /\ pg = page[p] /\ numpages' = numpages
         \/ p = numpages /\ LiveSlots(pg) = {} /\ numpages' = numpages + 1
      /\ Insert(p, k, pg, data)
  BY DEF Stores, LiveSlots, Slots
<1>1. /\ k \notin LiveSlots(pg)
      /\ LiveSlots(new) = LiveSlots(pg) \cup {k}
      /\ Record(new, k) = data
      /\ \A j \in LiveSlots(pg) : Record(new, j) = Record(pg, j)
  BY <1>0, StoreKeepsRecords
<1> HIDE DEF new
<1>2. /\ page' = [page EXCEPT ![p] = new]
      /\ ret' = [code |-> 0, rid |-> rid, data |-> << >>]
  BY <1>0 DEF Insert, ReturnData, new, RME_OK
<1>3. page \in [PageNum -> Page] /\ numpages \in 0 .. MaxPages /\ MaxPages \in Nat
      /\ numpages' \in 0 .. MaxPages
  BY RMAssumption DEF RMInv, RMTypeOK, RMAssumption
<1>4. \A q \in PageNum : page'[q] = IF q = p THEN new ELSE page[q]
  BY <1>0, <1>2, <1>3
<1>5. k \in SlotIndex
  BY <1>0, SlotsAreIndices DEF EmptySlots
<1>6. PageOf(rid) = p /\ SlotOf(rid) = k
  BY <1>0, <1>5, PackIsInverse
<1>7. p \in 0 .. numpages' - 1 /\ 0 .. numpages - 1 \subseteq 0 .. numpages' - 1
  BY <1>0, <1>3 DEF PageNum
<1>8. p \in 0 .. numpages - 1 => pg = page[p]
  BY <1>0, <1>3
<1>9. rid \notin LiveRIDs
  BY <1>0, <1>1, <1>5, <1>8, LiveRIDIs
<1>10. ASSUME NEW r \in LiveRIDs
       PROVE  r \in LiveRIDs' /\ RecordOf(r)' = RecordOf(r)
  <2> DEFINE q == PageOf(r)
             j == SlotOf(r)
  <2>1. /\ q \in 0 .. numpages - 1 /\ q \in PageNum
        /\ j \in LiveSlots(page[q]) /\ r = RM_PackRID(q, j)
    BY LiveRIDNames
  <2>2. j \in LiveSlots(page'[q]) /\ Record(page'[q], j) = Record(page[q], j)
    <3> HIDE DEF q, j
    <3>1. CASE q = p
      BY <1>0, <3>1, <2>1, <1>1, <1>4, <1>8
    <3>2. CASE q # p
      BY <1>0, <3>2, <2>1, <1>4
    <3> QED  BY <3>1, <3>2
  <2>3. r \in LiveRIDs'
    BY <2>1, <2>2, <1>7 DEF LiveRIDs
  <2> QED  BY <2>2, <2>3 DEF RecordOf
<1>11. rid \in LiveRIDs'
  <2>1. k \in LiveSlots(page'[p])
    BY <1>0, <1>1, <1>4
  <2>2. \E q \in 0 .. numpages' - 1 : \E j \in LiveSlots(page'[q]) : rid = RM_PackRID(q, j)
    BY <2>1, <1>7
  <2> HIDE DEF rid
  <2> QED  BY <2>2 DEF LiveRIDs
<1>12. ASSUME NEW r \in LiveRIDs'
       PROVE  r \in LiveRIDs \cup {rid}
  <2>1. PICK q \in 0 .. numpages' - 1 : \E j \in LiveSlots(page'[q]) : r = RM_PackRID(q, j)
    BY DEF LiveRIDs
  <2>2. PICK j \in LiveSlots(page'[q]) : r = RM_PackRID(q, j)
    BY <2>1
  <2>3. CASE q = p
    <3>1. j \in LiveSlots(pg) \cup {k}
      BY <1>0, <2>2, <2>3, <1>1, <1>4
    <3>2. j # k => p \in 0 .. numpages - 1 /\ j \in LiveSlots(page[p])
      BY <1>0, <3>1, <1>3, <1>8 DEF PageNum
    <3> QED  BY <3>2, <2>2, <2>3 DEF LiveRIDs
  <2>4. CASE q # p
    <3>1. q \in 0 .. numpages - 1 /\ q \in PageNum
      BY <1>0, <2>4, <1>3 DEF PageNum
    <3>2. j \in LiveSlots(page[q])
      BY <1>0, <3>1, <2>2, <2>4, <1>4
    <3> QED  BY <3>1, <3>2, <2>2 DEF LiveRIDs
  <2> QED  BY <2>3, <2>4
<1>13. RecordOf(rid)' = data
  BY <1>0, <1>1, <1>4, <1>6 DEF RecordOf
<1>14. rid \in RID
  BY <1>0, <1>5 DEF RID, SlotIndex
<1> QED  BY <1>2, <1>9, <1>10, <1>11, <1>12, <1>13, <1>14

(* A record erased is gone, and the others stay. *)
LEMMA DeleteShows ==
  ASSUME WideRIDs, RMInv, NEW rid \in LiveRIDs, numpages' = numpages,
         page' = [page EXCEPT ![PageOf(rid)] = EraseRecord(@, SlotOf(rid))]
  PROVE  /\ LiveRIDs' = LiveRIDs \ {rid}
         /\ \A r \in LiveRIDs \ {rid} : RecordOf(r)' = RecordOf(r)
<1> DEFINE p   == PageOf(rid)
           k   == SlotOf(rid)
           new == EraseRecord(page[p], k)
<1>1. /\ p \in 0 .. numpages - 1 /\ p \in PageNum
      /\ k \in LiveSlots(page[p]) /\ k \in SlotIndex /\ rid = RM_PackRID(p, k)
  BY LiveRIDNames
<1>2. page[p] \in Page /\ PageSound(page[p]) /\ page \in [PageNum -> Page]
  BY <1>1 DEF RMInv, RMTypeOK, PagesAreSound
<1>3. /\ LiveSlots(new) = LiveSlots(page[p]) \ {k}
      /\ \A j \in LiveSlots(page[p]) \ {k} : Record(new, j) = Record(page[p], j)
  <2> HIDE DEF p, k
  <2> QED  BY <1>1, <1>2, EraseKeepsRecords
<1>4. page' = [page EXCEPT ![p] = new]
  OBVIOUS
<1> HIDE DEF new, p, k
<1>5. \A q \in PageNum : page'[q] = IF q = p THEN new ELSE page[q]
  BY <1>2, <1>4
<1>6. 0 .. numpages - 1 \subseteq PageNum
  BY SlotsHaveRIDs
<1>7. ASSUME NEW r \in LiveRIDs, r # rid
      PROVE  r \in LiveRIDs' /\ RecordOf(r)' = RecordOf(r)
  <2> DEFINE q == PageOf(r)
             j == SlotOf(r)
  <2>1. /\ q \in 0 .. numpages - 1 /\ q \in PageNum
        /\ j \in LiveSlots(page[q]) /\ r = RM_PackRID(q, j)
    BY LiveRIDNames
  <2>2. j \in LiveSlots(page'[q]) /\ Record(page'[q], j) = Record(page[q], j)
    <3> HIDE DEF q, j
    <3>1. CASE q = p
      <4>1. j # k
        BY <3>1, <2>1, <1>1, <1>7
      <4> QED  BY <4>1, <3>1, <2>1, <1>3, <1>5
    <3>2. CASE q # p
      BY <3>2, <2>1, <1>5
    <3> QED  BY <3>1, <3>2
  <2>3. r \in LiveRIDs'
    BY <2>1, <2>2 DEF LiveRIDs
  <2> QED  BY <2>2, <2>3 DEF RecordOf
<1>8. ASSUME NEW r \in LiveRIDs'
      PROVE  r \in LiveRIDs /\ r # rid
  <2>1. PICK q \in 0 .. numpages - 1 : \E j \in LiveSlots(page'[q]) : r = RM_PackRID(q, j)
    BY DEF LiveRIDs
  <2>2. PICK j \in LiveSlots(page'[q]) : r = RM_PackRID(q, j)
    BY <2>1
  <2>3. j \in LiveSlots(page[q]) /\ (q = p => j # k)
    BY <2>2, <1>3, <1>5, <1>6
  <2>4. q \in PageNum /\ j \in SlotIndex
    BY <2>3, SlotsHaveRIDs
  <2>5. r # rid
    BY <2>2, <2>3, <2>4, <1>1, PackIsInjective
  <2> QED  BY <2>2, <2>3, <2>5 DEF LiveRIDs
<1> QED  BY <1>7, <1>8

-----------------------------------------------------------------------------
(* Whose slot an insertion takes. *)

(* It takes one of the page the loop ends with if no page before has an    *)
(* empty slot.                                                             *)
LEMMA NoSlotBefore ==
  ASSUME RMInv, NEW p \in 0 .. numpages - 1,
         \A q \in 0 .. p - 1 : EmptySlots(page[q]) = {}
  PROVE  TargetSlot(p) \in EmptySlots(page[p]) \cup {page[p].numSlots}
<1> DEFINE had == {q \in 0 .. p : EmptySlots(page[q]) # {}}
           m   == Max(had)
<1>1. p \in Nat /\ numpages \in Nat
  BY RMAssumption DEF RMAssumption, RMInv, RMTypeOK
<1>2. CASE had = {}
  BY <1>2 DEF TargetSlot
<1>3. CASE had # {}
  <2>1. m \in had
    <3>1. had \in SUBSET (0 .. p)
      OBVIOUS
    <3> HIDE DEF had
    <3> QED  BY <3>1, <1>1, <1>3, GreatestNumber
  <2>2. m = p /\ EmptySlots(page[p]) # {}
    <3> HIDE DEF m
    <3>1. m \in 0 .. p /\ EmptySlots(page[m]) # {}
      BY <2>1
    <3>2. m \notin 0 .. p - 1
      BY <3>1
    <3> QED  BY <3>1, <3>2, <1>1
  <2>3. TargetSlot(p) = Min(EmptySlots(page[p]))
    <3>1. TargetSlot(p) = Min(EmptySlots(page[m]))
      BY <1>3 DEF TargetSlot
    <3> HIDE DEF m
    <3> QED  BY <3>1, <2>2
  <2>4. EmptySlots(page[p]) \in SUBSET Nat
    BY SlotsHaveRIDs DEF EmptySlots
  <2>5. Min(EmptySlots(page[p])) \in EmptySlots(page[p])
    BY <2>2, <2>4, LeastNumber
  <2> QED  BY <2>3, <2>5
<1> QED  BY <1>2, <1>3

(* In a file of one page no page is before. *)
LEMMA OnePageSlotsAreOwn ==
  ASSUME RMInv, MaxPages = 1
  PROVE  SlotsAreOwn
<1> SUFFICES ASSUME NEW length \in Lengths, LoopEnd(length).errno = PFE_OK
             PROVE  TargetSlot(LoopEnd(length).pagenum) \in
                      EmptySlots(page[LoopEnd(length).pagenum])
                        \cup {page[LoopEnd(length).pagenum].numSlots}
  BY DEF SlotsAreOwn
<1> DEFINE p == LoopEnd(length).pagenum
<1>1. length \in Nat
  BY RMAssumption DEF RMAssumption
<1>2. p \in 0 .. numpages - 1
  BY <1>1, LoopFindsRoom DEF RMInv
<1>3. numpages \in 0 .. 1
  BY DEF RMInv, RMTypeOK
<1> HIDE DEF p
<1>4. p = 0
  BY <1>2, <1>3
<1>5. \A q \in 0 .. p - 1 : EmptySlots(page[q]) = {}
  BY <1>4
<1>6. TargetSlot(p) \in EmptySlots(page[p]) \cup {page[p].numSlots}
  BY <1>2, <1>5, NoSlotBefore
<1> QED  BY <1>6 DEF p

(* The loop ends with no error on the first page where it could end.       *)
LEMMA LoopEndsFirst ==
  ASSUME RMInv, NEW length \in Nat, LoopEnd(length).errno = PFE_OK
  PROVE  \A q \in 0 .. LoopEnd(length).pagenum - 1 : q \notin Stops(length)
<1> DEFINE S    == Stops(length)
           p    == IF S = {} THEN numpages ELSE Min(S)
           code == PF_GetNextPage(p - 1)
           o    == LoopEnd(length)
<1>1. numpages \in Nat
  BY RMAssumption DEF RMInv, RMTypeOK, RMAssumption
<1>2. S \subseteq Nat
  BY <1>1 DEF Stops
<1>3. code = PFE_OK
  <2> SUFFICES ASSUME code # PFE_OK PROVE FALSE
    OBVIOUS
  <2>1. o = [errno |-> code, pagenum |-> p - 1, fixed |-> pinned]
    BY DEF LoopEnd
  <2> HIDE DEF o, code
  <2>2. o.errno = code
    BY <2>1
  <2> QED  BY <2>2 DEF o
<1>4. o.pagenum = p
  <2>1. o = [errno |-> PFerrno, pagenum |-> p, fixed |-> pinned \cup {p}]
    BY <1>3 DEF LoopEnd
  <2> HIDE DEF o, p
  <2> QED  BY <2>1
<1>5. S = {} \/ (\A y \in S : p <= y)
  <2>1. CASE S # {}
    <3>1. p = Min(S)
      BY <2>1
    <3> HIDE DEF p, S
    <3> QED  BY <3>1, <2>1, <1>2, LeastNumber
  <2> QED  BY <2>1
<1>6. ASSUME NEW q \in 0 .. p - 1, q \in S
      PROVE  FALSE
  <2>1. p <= q
    BY <1>5, <1>6
  <2>2. p \in Nat
    <3>1. CASE S = {}
      BY <3>1, <1>1
    <3>2. CASE S # {}
      <4>1. p = Min(S)
        BY <3>2
      <4> HIDE DEF p, S
      <4> QED  BY <4>1, <3>2, <1>2, LeastNumber
    <3> QED  BY <3>1, <3>2
  <2> HIDE DEF p
  <2> QED  BY <2>1, <2>2
<1> HIDE DEF p, o
<1> QED  BY <1>4, <1>6 DEF o

(* All records have one length. *)
OneLength == \A m, n \in Lengths : m = n

(* A page of records of n bytes: what it has used, and that all its slots  *)
(* could have one.                                                         *)
HoldsOnly(pg, n) ==
    /\ \A k \in LiveSlots(pg) : pg.slot[k].recordLength = n
    /\ pg.freeSpaceOffset = HeaderSize + n * Cardinality(LiveSlots(pg))
    /\ HeaderSize + pg.numSlots * (SlotSize + n) <= RM_PAGE_SIZE

PagesHoldOneLength == \A n \in Lengths : \A p \in 0 .. numpages - 1 : HoldsOnly(page[p], n)

(* The live slots can be counted, and they are fewer than the slots if one *)
(* is empty.                                                               *)
LEMMA LiveSlotsCount ==
  ASSUME NEW pg \in Page
  PROVE  /\ IsFiniteSet(LiveSlots(pg))
         /\ Cardinality(LiveSlots(pg)) \in Nat
         /\ EmptySlots(pg) = {} => Cardinality(LiveSlots(pg)) = pg.numSlots
         /\ EmptySlots(pg) # {} => Cardinality(LiveSlots(pg)) + 1 <= pg.numSlots
<1>1. pg.numSlots \in Nat
  BY RMPageAssumption DEF RMPageAssumption, Page
<1>2. IsFiniteSet(Slots(pg)) /\ Cardinality(Slots(pg)) = pg.numSlots
  <2>1. /\ IsFiniteSet(0 .. pg.numSlots - 1)
        /\ Cardinality(0 .. pg.numSlots - 1) =
             IF 0 > pg.numSlots - 1 THEN 0 ELSE pg.numSlots - 1 - 0 + 1
    <3> DEFINE top == pg.numSlots - 1
    <3>1. top \in Int
      BY <1>1
    <3>2. 0 \in Int
      OBVIOUS
    <3> HIDE DEF top
    <3>3. IsFiniteSet(0 .. top) /\ Cardinality(0 .. top) = IF 0 > top THEN 0 ELSE top - 0 + 1
      BY <3>1, <3>2, FS_Interval
    <3> QED  BY <3>3 DEF top
  <2> QED  BY <2>1, <1>1 DEF Slots
<1>3. LiveSlots(pg) \subseteq Slots(pg)
  BY DEF LiveSlots
<1>4. /\ IsFiniteSet(LiveSlots(pg))
      /\ Cardinality(LiveSlots(pg)) <= pg.numSlots
      /\ pg.numSlots = Cardinality(LiveSlots(pg)) => LiveSlots(pg) = Slots(pg)
  BY <1>2, <1>3, FS_Subset
<1>5. Cardinality(LiveSlots(pg)) \in Nat
  BY <1>4, FS_CardinalityType
<1>6. EmptySlots(pg) = {} => LiveSlots(pg) = Slots(pg)
  BY DEF LiveSlots
<1>7. EmptySlots(pg) # {} => LiveSlots(pg) # Slots(pg)
  BY DEF LiveSlots, EmptySlots
<1> QED  BY <1>1, <1>2, <1>4, <1>5, <1>6, <1>7

(* Where all records have one length, an empty slot means room for one, so *)
(* that the loop does not go past it.                                      *)
LEMMA OneLengthSlotsAreOwn ==
  ASSUME RMInv, PagesHoldOneLength
  PROVE  SlotsAreOwn
<1> SUFFICES ASSUME NEW length \in Lengths, LoopEnd(length).errno = PFE_OK
             PROVE  TargetSlot(LoopEnd(length).pagenum) \in
                      EmptySlots(page[LoopEnd(length).pagenum])
                        \cup {page[LoopEnd(length).pagenum].numSlots}
  BY DEF SlotsAreOwn
<1> DEFINE p == LoopEnd(length).pagenum
<1>1. length \in Nat
  BY RMAssumption DEF RMAssumption
<1>2. p \in 0 .. numpages - 1
  BY <1>1, LoopFindsRoom DEF RMInv
<1>3. \A q \in 0 .. p - 1 : q \notin Stops(length)
  BY <1>1, LoopEndsFirst
<1>4. numpages \in Nat
  BY RMAssumption DEF RMInv, RMTypeOK, RMAssumption
<1> HIDE DEF p
<1>5. ASSUME NEW q \in 0 .. p - 1, EmptySlots(page[q]) # {}
      PROVE  FALSE
  <2>1. q \in 0 .. numpages - 1
    BY <1>2, <1>4
  <2>2. ~HasRoom(page[q], length)
    BY <2>1, <1>3 DEF Stops
  <2>3. page[q] \in Page /\ HoldsOnly(page[q], length)
    BY <2>1, SlotsHaveRIDs DEF RMInv, RMTypeOK, PagesHoldOneLength
  <2> DEFINE c == Cardinality(LiveSlots(page[q]))
             n == page[q].numSlots
             free == page[q].freeSpaceOffset
  <2>4. c \in Nat /\ n \in Nat /\ c + 1 <= n /\ SlotSize \in Nat
    BY <2>1, <2>3, <1>5, LiveSlotsCount, SlotsHaveRIDs, RMPageAssumption DEF RMPageAssumption
  <2>5. /\ free = HeaderSize + length * c
        /\ HeaderSize + n * (SlotSize + length) <= RM_PAGE_SIZE
    BY <2>3 DEF HoldsOnly
  <2>6. ~(RM_PAGE_SIZE - n * SlotSize - free >= length)
    BY <2>2, <1>5 DEF HasRoom, FreeSpace
  <2> HIDE DEF c, n, free
  <2>7. n * (SlotSize + length) = n * SlotSize + length * c + length + (n - c - 1) * length
    BY <2>4, <1>1
  <2>8. (n - c - 1) * length \in Nat /\ n * SlotSize \in Nat /\ length * c \in Nat
    BY <2>4, <1>1
  <2> QED  BY <2>5, <2>6, <2>7, <2>8, <1>1, RMPageAssumption DEF RMPageAssumption
<1>6. TargetSlot(p) \in EmptySlots(page[p]) \cup {page[p].numSlots}
  BY <1>2, <1>5, NoSlotBefore
<1> QED  BY <1>6 DEF p

(* An insertion stores its record, or fails and changes no page.           *)
LEMMA InsertStoresOrFails ==
  ASSUME RMInv, SlotsAreOwn, NEW d \in Datum, NEW length \in Lengths,
         RM_InsertRecord(d, length)
  PROVE  LET data == [i \in 1 .. length |-> d]
         IN  /\ data \in Seq(Datum) /\ Len(data) = length
             /\ \/ \E p, k, pg : Stores(p, k, pg, data)
                \/ /\ UNCHANGED <<numpages, page>>
                   /\ \E code \in -19 .. -1 : Return(code)
<1> DEFINE o    == LoopEnd(length)
           data == [i \in 1 .. length |-> d]
           Fails == /\ UNCHANGED <<numpages, page>>
                    /\ \E code \in -19 .. -1 : Return(code)
           Done == Fails \/ \E p, k, pg : Stores(p, k, pg, data)
<1>1. RMTypeOK /\ PagesAreSound
  BY DEF RMInv
<1>2. length \in Nat /\ length <= RM_PAGE_SIZE - HeaderSize - SlotSize
  BY RMAssumption, RMPageAssumption DEF RMAssumption, RMPageAssumption
<1>3. data \in Seq(Datum) /\ Len(data) = length
  BY <1>2
<1>4. /\ o.errno \in -19 .. 0
      /\ o.errno = PFE_OK => /\ o.pagenum \in 0 .. numpages - 1
                             /\ HasRoom(page[o.pagenum], length)
  BY <1>1, <1>2, LoopFindsRoom
<1>5. numpages \in 0 .. MaxPages /\ MaxPages \in Nat /\ page \in [PageNum -> Page]
  BY <1>1, RMAssumption DEF RMTypeOK, RMAssumption
<1>6. \/ InsertInNewPage(o, data)
      \/ o.errno # PFE_OK /\ Return(o.errno) /\ UNCHANGED <<numpages, page>>
      \/ /\ o.errno = PFE_OK
         /\ Insert(o.pagenum, TargetSlot(o.pagenum), page[o.pagenum], data)
         /\ UNCHANGED numpages
  BY DEF RM_InsertRecord
<1>7. o.errno = PFE_OK =>
        TargetSlot(o.pagenum) \in EmptySlots(page[o.pagenum]) \cup {page[o.pagenum].numSlots}
  BY DEF SlotsAreOwn
<1> SUFFICES Done
  BY <1>3
<1> HIDE DEF o, data
<1>8. CASE InsertInNewPage(o, data)
  <2>1. CASE /\ numpages < MaxPages /\ numpages' = numpages + 1
             /\ Insert(numpages, 0, RM_InitPage(page[numpages]), data)
    <3> DEFINE pg == RM_InitPage(page[numpages])
    <3>1. numpages \in PageNum
      BY <2>1, <1>5 DEF PageNum
    <3>2. pg \in Page /\ PageSound(pg)
      BY <3>1, <1>5, InitPageSound
    <3>3. pg.numSlots = 0 /\ pg.freeSpaceOffset = HeaderSize
      BY <3>1, <1>5 DEF RM_InitPage, Page
    <3>4. Fits(pg, 0, Len(data))
      BY <3>3, <1>2, <1>3, RMPageAssumption DEF RMPageAssumption, Fits
    <3>5. Insert(numpages, 0, pg, data)
      BY <2>1
    <3> HIDE DEF pg
    <3>6. EmptySlots(pg) = {}
      BY <3>3 DEF EmptySlots, Slots
    <3>7. Stores(numpages, 0, pg, data)
      BY <3>1, <3>2, <3>3, <3>4, <3>5, <3>6, <2>1 DEF Stores
    <3> QED  BY <3>7
  <2>2. CASE Return(PFE_NOBUF) /\ UNCHANGED <<numpages, page>>
    BY <2>2 DEF PFE_NOBUF
  <2> QED  BY <2>1, <2>2, <1>8 DEF InsertInNewPage
<1>9. CASE o.errno # PFE_OK /\ Return(o.errno) /\ UNCHANGED <<numpages, page>>
  <2>1. o.errno \in -19 .. -1
    BY <1>4, <1>9 DEF PFE_OK
  <2> QED  BY <2>1, <1>9
<1>10. CASE /\ o.errno = PFE_OK
            /\ Insert(o.pagenum, TargetSlot(o.pagenum), page[o.pagenum], data)
            /\ UNCHANGED numpages
  <2> DEFINE p == o.pagenum
             k == TargetSlot(p)
             pg == page[p]
  <2>1. p \in 0 .. numpages - 1 /\ HasRoom(pg, length)
    BY <1>4, <1>10
  <2>2. k = pg.numSlots => EmptySlots(pg) = {}
    BY <2>1, <1>1, TargetIsSlot
  <2>3. Insert(p, k, pg, data) /\ k \in EmptySlots(pg) \cup {pg.numSlots}
    BY <1>7, <1>10
  <2> HIDE DEF p, k
  <2>4. p \in PageNum /\ pg \in Page /\ PageSound(pg) /\ p < numpages
    BY <2>1, <1>1, <1>5 DEF PageNum, PagesAreSound
  <2>5. Fits(pg, k, Len(data))
    <3> DEFINE n    == pg.numSlots
               size == n * SlotSize
    <3>1. n \in Nat /\ pg.freeSpaceOffset \in Int
      BY <2>4, RMPageAssumption DEF Page, RMPageAssumption
    <3>2. size \in Nat /\ (n + 1) * SlotSize = size + SlotSize
      BY <3>1, DirectorySize
    <3>3. SlotSize * n = size /\ SlotSize * (n + 1) = (n + 1) * SlotSize
      BY <3>1, RMPageAssumption DEF RMPageAssumption
    <3>4. /\ RM_PAGE_SIZE - size - pg.freeSpaceOffset >= length
          /\ EmptySlots(pg) = {} =>
               RM_PAGE_SIZE - size - pg.freeSpaceOffset >= length + SlotSize
      BY <3>1, <3>2, <2>1, <1>2, RMPageAssumption DEF HasRoom, FreeSpace, RMPageAssumption
    <3> HIDE DEF size, n
    <3>5. pg.freeSpaceOffset + length <=
            RM_PAGE_SIZE - SlotSize * (IF k = n THEN n + 1 ELSE n)
      BY <3>1, <3>2, <3>3, <3>4, <2>2, <1>2, RMPageAssumption DEF RMPageAssumption, n
    <3> QED  BY <3>5, <1>3 DEF Fits, n
  <2>6. Stores(p, k, pg, data)
    BY <2>2, <2>3, <2>4, <2>5, <1>10 DEF Stores
  <2> QED  BY <2>6
<1> QED  BY <1>6, <1>8, <1>9, <1>10

(* A page of records of one length still is one when one more is stored,   *)
LEMMA StoreHoldsOnly ==
  ASSUME NEW n \in Nat, NEW pg \in Page, PageSound(pg), HoldsOnly(pg, n),
         NEW k \in EmptySlots(pg) \cup {pg.numSlots},
         k = pg.numSlots => EmptySlots(pg) = {},
         NEW data \in Seq(Datum), Len(data) = n,
         Fits(pg, k, n)
  PROVE  HoldsOnly(StoreRecord(pg, k, data), n)
<1> DEFINE new == StoreRecord(pg, k, data)
           live == LiveSlots(pg)
           c == Cardinality(live)
           m == pg.numSlots
<1>1. k \notin live /\ LiveSlots(new) = live \cup {k}
  BY StoreKeepsRecords
<1>2. IsFiniteSet(live) /\ c \in Nat /\ (EmptySlots(pg) = {} => c = m)
  BY LiveSlotsCount
<1>3. Cardinality(live \cup {k}) = c + 1
  BY <1>1, <1>2, FS_AddElement
<1>4. m \in Nat /\ pg.slot \in [SlotNum -> SlotEntry] /\ pg.freeSpaceOffset \in Int
  BY RMPageAssumption DEF RMPageAssumption, Page
<1>5. /\ new.numSlots = IF k = m THEN k + 1 ELSE m
      /\ new.freeSpaceOffset = pg.freeSpaceOffset + n
      /\ new.slot = [pg.slot EXCEPT ![k] = [recordOffset |-> pg.freeSpaceOffset,
                                            recordLength |-> n]]
  BY DEF StoreRecord
<1>6. k \in SlotNum /\ live \subseteq SlotNum
  BY NextSlotExists DEF EmptySlots, LiveSlots
<1>7. /\ \A j \in live : pg.slot[j].recordLength = n
      /\ pg.freeSpaceOffset = HeaderSize + n * c
      /\ HeaderSize + m * (SlotSize + n) <= RM_PAGE_SIZE
  BY DEF HoldsOnly
<1>8. k = m => pg.freeSpaceOffset + n <= RM_PAGE_SIZE - SlotSize * (m + 1)
  BY DEF Fits
<1> HIDE DEF new
<1>9. \A j \in LiveSlots(new) : new.slot[j].recordLength = n
  BY <1>1, <1>4, <1>5, <1>6, <1>7
<1> HIDE DEF live, c, m
<1>10. new.freeSpaceOffset = HeaderSize + n * Cardinality(LiveSlots(new))
  <2>1. n * (c + 1) = n * c + n /\ n * c \in Nat
    BY <1>2
  <2>2. Cardinality(LiveSlots(new)) = c + 1
    BY <1>1, <1>3
  <2>3. new.freeSpaceOffset = HeaderSize + n * c + n
    BY <1>5, <1>7
  <2> QED  BY <2>1, <2>2, <2>3, RMPageAssumption DEF RMPageAssumption
<1>11. HeaderSize + new.numSlots * (SlotSize + n) <= RM_PAGE_SIZE
  <2>1. CASE k # m
    BY <2>1, <1>5, <1>7
  <2>2. CASE k = m
    <3>1. c = m
      BY <2>2, <1>2 DEF m
    <3>2. HeaderSize + n * m + n <= RM_PAGE_SIZE - SlotSize * (m + 1)
      BY <3>1, <2>2, <1>7, <1>8
    <3>3. (m + 1) * (SlotSize + n) = SlotSize * (m + 1) + n * m + n
      BY <1>4, RMPageAssumption DEF RMPageAssumption
    <3>4. n * m \in Nat /\ SlotSize * (m + 1) \in Nat
      BY <1>4, RMPageAssumption DEF RMPageAssumption
    <3>5. new.numSlots = m + 1
      BY <2>2, <1>5
    <3> QED  BY <3>2, <3>3, <3>4, <3>5, RMPageAssumption DEF RMPageAssumption
  <2> QED  BY <2>1, <2>2
<1> QED  BY <1>9, <1>10, <1>11 DEF HoldsOnly, new

(* and when one is erased,                                                 *)
LEMMA EraseHoldsOnly ==
  ASSUME NEW n \in Nat, NEW pg \in Page, PageSound(pg), HoldsOnly(pg, n),
         NEW k \in LiveSlots(pg)
  PROVE  HoldsOnly(EraseRecord(pg, k), n)
<1> DEFINE new == EraseRecord(pg, k)
           live == LiveSlots(pg)
           c == Cardinality(live)
<1>1. /\ LiveSlots(new) = live \ {k}
      /\ \A j \in live \ {k} : Record(new, j) = Record(pg, j)
  BY EraseKeepsRecords
<1>2. new \in Page /\ PageSound(new)
  BY EraseSound
<1>3. IsFiniteSet(live) /\ c \in Nat
  BY LiveSlotsCount
<1>4. Cardinality(live \ {k}) = c - 1
  BY <1>3, FS_RemoveElement
<1>5. /\ \A j \in live : pg.slot[j].recordLength = n
      /\ pg.freeSpaceOffset = HeaderSize + n * c
      /\ HeaderSize + pg.numSlots * (SlotSize + n) <= RM_PAGE_SIZE
  BY DEF HoldsOnly
<1>6. new.numSlots = pg.numSlots /\ new.freeSpaceOffset = pg.freeSpaceOffset - n
  BY <1>5 DEF EraseRecord
<1> HIDE DEF new
<1>7. ASSUME NEW j \in LiveSlots(new)
      PROVE  new.slot[j].recordLength = n
  <2>1. j \in live /\ Record(new, j) = Record(pg, j)
    BY <1>1
  <2>2. Len(Record(new, j)) = new.slot[j].recordLength
    BY <1>2, RecordLen
  <2>3. Len(Record(pg, j)) = pg.slot[j].recordLength
    BY <2>1, RecordLen
  <2> QED  BY <2>1, <2>2, <2>3, <1>5
<1>8. new.freeSpaceOffset = HeaderSize + n * Cardinality(LiveSlots(new))
  <2> HIDE DEF live, c
  <2>1. n * (c - 1) = n * c - n /\ n * c \in Nat
    BY <1>3
  <2>2. Cardinality(LiveSlots(new)) = c - 1
    BY <1>1, <1>4
  <2>3. new.freeSpaceOffset = HeaderSize + n * c - n
    BY <2>1, <1>5, <1>6, RMPageAssumption DEF RMPageAssumption
  <2> QED  BY <2>1, <2>2, <2>3, RMPageAssumption DEF RMPageAssumption
<1> QED  BY <1>5, <1>6, <1>7, <1>8 DEF HoldsOnly, new

(* and an empty page is one.                                               *)
LEMMA EmptyHoldsOnly ==
  ASSUME NEW n \in Nat, NEW pg, pg.numSlots = 0, pg.freeSpaceOffset = HeaderSize
  PROVE  HoldsOnly(pg, n)
<1>1. LiveSlots(pg) = {}
  BY DEF LiveSlots, Slots
<1>2. Cardinality({}) = 0
  BY FS_EmptySet
<1>3. n * 0 = 0 /\ 0 * (SlotSize + n) = 0
  BY RMPageAssumption DEF RMPageAssumption
<1> QED  BY <1>1, <1>2, <1>3, RMPageAssumption DEF HoldsOnly, RMPageAssumption

(* What a step does to the pages. *)
LEMMA StepsOnPages ==
  ASSUME RMNext
  PROVE  \/ \E d \in Datum, length \in Lengths : RM_InsertRecord(d, length)
         \/ \E rid \in RID : RM_DeleteRecord(rid) /\ RIDError(rid) = RME_OK
         \/ numpages' = 0
         \/ UNCHANGED <<numpages, page>>
BY DEF RMNext, file, RM_CreateFile, RM_DestroyFile, RM_OpenFile, RM_CloseFile, NewProcess,
       RM_DeleteRecord, RM_GetRecord, Refused, RM_OpenScan, RM_GetNextRecord,
       NextPageFails, NextPage, NextSlot, RM_CloseScan

(* Pages hold records of one length for as long as clients insert no other. *)
LEMMA StepHoldsOneLength ==
  ASSUME OneLength, RMInv, RMInv', PagesHoldOneLength, [RMNext]_rmvars
  PROVE  PagesHoldOneLength'
<1> SUFFICES ASSUME NEW n \in Lengths, NEW q \in 0 .. numpages' - 1
             PROVE  HoldsOnly(page'[q], n)
  BY DEF PagesHoldOneLength
<1>1. n \in Nat
  BY RMAssumption DEF RMAssumption
<1>2. numpages \in 0 .. MaxPages /\ numpages' \in 0 .. MaxPages /\ MaxPages \in Nat
  BY RMAssumption DEF RMAssumption, RMInv, RMTypeOK
<1>0. PICK m : m = numpages'
  OBVIOUS
<1>3. q \in PageNum /\ page \in [PageNum -> Page]
  <2>1. m \in 0 .. MaxPages /\ q \in 0 .. m - 1
    BY <1>0, <1>2
  <2>2. q \in PageNum
    BY <2>1, <1>2 DEF PageNum
  <2> QED  BY <2>2 DEF RMInv, RMTypeOK
<1>4. CASE UNCHANGED <<numpages, page>>
  BY <1>4 DEF PagesHoldOneLength
<1>5. CASE numpages' = 0
  BY <1>5
<1>6. CASE \E d \in Datum, length \in Lengths : RM_InsertRecord(d, length)
  <2>1. PICK d \in Datum, length \in Lengths : RM_InsertRecord(d, length)
    BY <1>6
  <2>2. length = n
    BY DEF OneLength
  <2> DEFINE data == [i \in 1 .. length |-> d]
  <2>3. SlotsAreOwn
    BY OneLengthSlotsAreOwn
  <2>4. /\ data \in Seq(Datum) /\ Len(data) = n
        /\ (\E p, k, pg : Stores(p, k, pg, data)) \/ UNCHANGED <<numpages, page>>
    BY <2>1, <2>2, <2>3, InsertStoresOrFails
  <2> HIDE DEF data
  <2>5. ASSUME NEW p, NEW k, NEW pg, Stores(p, k, pg, data)
        PROVE  HoldsOnly(page'[q], n)
    <3>1. /\ p \in PageNum /\ pg \in Page /\ PageSound(pg)
          /\ k \in EmptySlots(pg) \cup {pg.numSlots}
          /\ k = pg.numSlots => EmptySlots(pg) = {}
          /\ Fits(pg, k, n)
          /\ \/ p < numpages /\ pg = page[p] /\ numpages' = numpages
             \/ /\ p = numpages /\ numpages' = numpages + 1
                /\ pg.numSlots = 0 /\ pg.freeSpaceOffset = HeaderSize
          /\ page' = [page EXCEPT ![p] = StoreRecord(pg, k, data)]
      BY <2>4, <2>5 DEF Stores, Insert
    <3>2. HoldsOnly(pg, n)
      <4>1. CASE p < numpages /\ pg = page[p]
        <5>1. p \in 0 .. numpages - 1
          BY <4>1, <3>1, <1>2 DEF PageNum
        <5> QED  BY <4>1, <5>1 DEF PagesHoldOneLength
      <4>2. CASE pg.numSlots = 0 /\ pg.freeSpaceOffset = HeaderSize
        BY <4>2, <1>1, EmptyHoldsOnly
      <4> QED  BY <4>1, <4>2, <3>1
    <3>3. HoldsOnly(StoreRecord(pg, k, data), n)
      BY <3>1, <3>2, <2>4, <1>1, StoreHoldsOnly
    <3>4. CASE q = p
      BY <3>1, <3>3, <3>4, <1>3
    <3>5. CASE q # p
      <4>1. q \in 0 .. numpages - 1
        <5>1. m = numpages \/ (p = numpages /\ m = numpages + 1)
          BY <3>1, <1>0
        <5>2. q \in 0 .. m - 1
          BY <1>0
        <5> QED  BY <5>1, <5>2, <3>5, <1>2
      <4>2. page'[q] = page[q]
        BY <3>1, <3>5, <1>3
      <4> QED  BY <4>1, <4>2 DEF PagesHoldOneLength
    <3> QED  BY <3>4, <3>5
  <2> QED  BY <2>4, <2>5, <1>4
<1>7. CASE \E rid \in RID : RM_DeleteRecord(rid) /\ RIDError(rid) = RME_OK
  <2>1. PICK rid \in RID : RM_DeleteRecord(rid) /\ RIDError(rid) = RME_OK
    BY <1>7
  <2> DEFINE p == PageOf(rid)
             k == SlotOf(rid)
  <2>2. numpages' = numpages /\ page' = [page EXCEPT ![p] = EraseRecord(page[p], k)]
    BY <2>1 DEF RM_DeleteRecord, Refused
  <2>3. p \in 0 .. numpages - 1 /\ k \in LiveSlots(page[p])
    BY <2>1, GoodRID
  <2> HIDE DEF p, k
  <2>4. page[p] \in Page /\ PageSound(page[p]) /\ HoldsOnly(page[p], n) /\ p \in PageNum
    BY <2>3, <1>3, SlotsHaveRIDs DEF RMInv, PagesAreSound, PagesHoldOneLength
  <2>5. HoldsOnly(EraseRecord(page[p], k), n)
    BY <2>3, <2>4, <1>1, EraseHoldsOnly
  <2>6. HoldsOnly(page[q], n)
    BY <2>2 DEF PagesHoldOneLength
  <2> QED  BY <2>2, <2>4, <2>5, <2>6, <1>3
<1>8. CASE UNCHANGED rmvars
  BY <1>8, <1>4 DEF rmvars
<1> QED  BY <1>4, <1>5, <1>6, <1>7, <1>8, StepsOnPages

(* There are no pages without a file, whatever happens. *)
LEMMA StepNoFileIsEmpty ==
  ASSUME NoFileIsEmpty, RMInv, [RMNext]_rmvars
  PROVE  NoFileIsEmpty'
BY DEF NoFileIsEmpty, RMInv, ClosedFileIsFree, rmvars, RMNext, file, RM_CreateFile,
       RM_DestroyFile, RM_OpenFile, RM_CloseFile, NewProcess, RM_InsertRecord,
       RM_DeleteRecord, RM_GetRecord, Refused, RM_OpenScan, RM_GetNextRecord,
       NextPageFails, NextPage, NextSlot, RM_CloseScan

-----------------------------------------------------------------------------
(* What each call does to the records, as RecordFile has it. *)

Recs == [rid \in LiveRIDs |-> RecordOf(rid)]

(* Where no page changes, no record does. *)
LEMMA RecordsStay ==
  ASSUME UNCHANGED <<numpages, page>>
  PROVE  Recs' = Recs
BY DEF Recs, LiveRIDs, RecordOf

(* A file of no pages has no records. *)
LEMMA NoRecords ==
  ASSUME numpages = 0
  PROVE  Recs = << >>
<1>1. LiveRIDs = {}
  BY DEF LiveRIDs
<1> QED  BY <1>1 DEF Recs

(* Steps that return an error and change no page are failures. *)
LEMMA FailureShows ==
  ASSUME UNCHANGED <<numpages, page>>, NEW code \in -19 .. -1, Return(code)
  PROVE  RecordFileOf!FileNext
<1>1. RecordFileOf!Failure
  BY RecordsStay DEF RecordFileOf!Failure, RecordFileOf!Returns, Return, ReturnData, Recs
<1> QED  BY <1>1 DEF RecordFileOf!FileNext

(* Steps that return no error nor change a page concern no record. *)
LEMMA NoRecordShows ==
  ASSUME UNCHANGED <<numpages, page>>, Return(RME_OK)
  PROVE  RecordFileOf!FileNext
<1>1. RecordFileOf!NoRecord
  BY RecordsStay DEF RecordFileOf!NoRecord, RecordFileOf!Returns, RecordFileOf!OK,
     Return, ReturnData, RME_OK, Recs
<1> QED  BY <1>1 DEF RecordFileOf!FileNext

(* A RID that is not refused names a record; one that is gets an error. *)
LEMMA RIDErrorShows ==
  ASSUME WideRIDs, RMInv, NEW rid \in RID
  PROVE  /\ RIDError(rid) = RME_OK => rid \in LiveRIDs
         /\ RIDError(rid) # RME_OK => RIDError(rid) \in -19 .. -1
<1>1. PICK p \in PageNum, k \in SlotIndex : rid = RM_PackRID(p, k)
  BY DEF RID, SlotIndex
<1>2. PageOf(rid) = p /\ SlotOf(rid) = k
  BY <1>1, PackIsInverse
<1>3. RIDError(rid) = RME_OK => rid \in LiveRIDs
  BY <1>1, <1>2, GoodRID, LiveRIDIs
<1>4. PF_GetThisPage(PageOf(rid)) \in -19 .. 0
  <2>1. p \in Int /\ numpages \in Nat
    BY RMAssumption DEF RMAssumption, RMInv, RMTypeOK, PageNum
  <2> QED  BY <2>1, <1>2, Codes
<1>5. RIDError(rid) # RME_OK => RIDError(rid) \in -19 .. -1
  BY <1>4 DEF RIDError, RME_OK, RME_INVALIDRID, PFE_OK
<1> QED  BY <1>3, <1>5

(* A call for a RID that is refused fails. *)
LEMMA RefusedShows ==
  ASSUME WideRIDs, RMInv, NEW rid \in RID, Refused(rid)
  PROVE  RecordFileOf!FileNext
<1>1. /\ RIDError(rid) \in -19 .. -1 /\ Return(RIDError(rid))
      /\ UNCHANGED <<numpages, page>>
  BY RIDErrorShows DEF Refused, file
<1> QED  BY <1>1, FailureShows

(* RM_InsertRecord inserts, or fails. *)
LEMMA InsertSimulates ==
  ASSUME WideRIDs, RMInv, RMInv', SlotsAreOwn,
         NEW d \in Datum, NEW length \in Lengths, RM_InsertRecord(d, length)
  PROVE  RecordFileOf!FileNext
<1> DEFINE data == [i \in 1 .. length |-> d]
<1>1. /\ data \in Seq(Datum)
      /\ \/ \E p, k, pg : Stores(p, k, pg, data)
         \/ /\ UNCHANGED <<numpages, page>>
            /\ \E code \in -19 .. -1 : Return(code)
  BY InsertStoresOrFails
<1>2. data \in {[i \in 1 .. n |-> e] : n \in Lengths, e \in Datum}
  OBVIOUS
<1> HIDE DEF data
<1>3. ASSUME NEW p, NEW k, NEW pg, Stores(p, k, pg, data)
      PROVE  RecordFileOf!FileNext
  <2> DEFINE rid == RM_PackRID(p, k)
  <2>1. /\ rid \in RID /\ rid \notin LiveRIDs
        /\ LiveRIDs' = LiveRIDs \cup {rid}
        /\ RecordOf(rid)' = data
        /\ \A r \in LiveRIDs : RecordOf(r)' = RecordOf(r)
        /\ ret' = [code |-> 0, rid |-> rid, data |-> << >>]
    BY <1>1, <1>3, InsertShows
  <2> HIDE DEF rid
  <2>2. Recs' = [r \in LiveRIDs' |-> RecordOf(r)']
    BY DEF Recs
  <2>3. DOMAIN Recs = LiveRIDs /\ \A r \in LiveRIDs : Recs[r] = RecordOf(r)
    BY DEF Recs
  <2>4. Recs' = [r \in DOMAIN Recs \cup {rid} |-> IF r = rid THEN data ELSE Recs[r]]
    BY <2>1, <2>2, <2>3
  <2>5. RecordFileOf!Insert(data)
    BY <2>1, <2>3, <2>4
       DEF RecordFileOf!Insert, RecordFileOf!Returns, RecordFileOf!Live, RecordFileOf!OK, Recs
  <2> QED  BY <2>5, <1>2 DEF RecordFileOf!FileNext
<1> QED  BY <1>1, <1>3, FailureShows

(* RM_DeleteRecord deletes, or fails. *)
LEMMA DeleteSimulates ==
  ASSUME WideRIDs, RMInv, NEW rid \in RID, RM_DeleteRecord(rid)
  PROVE  RecordFileOf!FileNext
<1>1. CASE Refused(rid)
  BY <1>1, RefusedShows
<1>2. CASE /\ RIDError(rid) = RME_OK
           /\ page' = [page EXCEPT ![PageOf(rid)] = EraseRecord(@, SlotOf(rid))]
           /\ Return(RME_OK) /\ UNCHANGED numpages
  <2>1. rid \in LiveRIDs
    BY <1>2, RIDErrorShows
  <2>2. /\ LiveRIDs' = LiveRIDs \ {rid}
        /\ \A r \in LiveRIDs \ {rid} : RecordOf(r)' = RecordOf(r)
    BY <1>2, <2>1, DeleteShows
  <2>3. Recs' = [r \in LiveRIDs' |-> RecordOf(r)']
    BY DEF Recs
  <2>4. DOMAIN Recs = LiveRIDs /\ \A r \in LiveRIDs : Recs[r] = RecordOf(r)
    BY DEF Recs
  <2>5. Recs' = [r \in DOMAIN Recs \ {rid} |-> Recs[r]]
    BY <2>2, <2>3, <2>4
  <2>6. ret' = [code |-> 0, rid |-> -1, data |-> << >>]
    BY <1>2 DEF Return, ReturnData, RME_OK
  <2>7. RecordFileOf!Delete(rid)
    BY <2>1, <2>4, <2>5, <2>6
       DEF RecordFileOf!Delete, RecordFileOf!Returns, RecordFileOf!Live, RecordFileOf!OK, Recs
  <2> QED  BY <2>7 DEF RecordFileOf!FileNext
<1> QED  BY <1>1, <1>2 DEF RM_DeleteRecord

(* The record of a RID is a sequence. *)
LEMMA LiveRecordLen ==
  ASSUME WideRIDs, RMInv, NEW rid \in LiveRIDs
  PROVE  /\ Recs[rid] = Record(page[PageOf(rid)], SlotOf(rid))
         /\ Len(Recs[rid]) = page[PageOf(rid)].slot[SlotOf(rid)].recordLength
         /\ Len(Recs[rid]) \in Nat
<1> DEFINE p == PageOf(rid)
           k == SlotOf(rid)
<1>1. p \in 0 .. numpages - 1 /\ p \in PageNum /\ k \in LiveSlots(page[p])
  BY LiveRIDNames
<1>2. Recs[rid] = Record(page[p], k)
  BY DEF Recs, RecordOf
<1> HIDE DEF p, k
<1>3. page[p] \in Page /\ PageSound(page[p])
  BY <1>1 DEF RMInv, RMTypeOK, PagesAreSound
<1>4. Len(Record(page[p], k)) = page[p].slot[k].recordLength
  BY <1>1, <1>3, RecordLen
<1>5. page[p].slot[k].recordLength \in Nat
  BY <1>1, <1>3, RecordPlace
<1> QED  BY <1>2, <1>4, <1>5 DEF p, k

(* RM_GetRecord gets the record, or fails. *)
LEMMA GetSimulates ==
  ASSUME WideRIDs, RMInv, NEW rid \in RID, NEW bufSize \in BufSizes,
         RM_GetRecord(rid, bufSize)
  PROVE  RecordFileOf!FileNext
<1>1. CASE Refused(rid)
  BY <1>1, RefusedShows
<1> DEFINE data == Record(page[PageOf(rid)], SlotOf(rid))
<1>2. CASE /\ RIDError(rid) = RME_OK
           /\ UNCHANGED <<numpages, page>>
           /\ IF bufSize < Len(data) THEN Return(RME_BUFTOOSMALL)
                                     ELSE ReturnData(RME_OK, -1, data)
  <2>1. rid \in LiveRIDs
    BY <1>2, RIDErrorShows
  <2>2. Recs[rid] = data /\ Len(data) \in Nat
    BY <2>1, LiveRecordLen
  <2> HIDE DEF data
  <2>3. bufSize \in Nat
    BY RMAssumption DEF RMAssumption
  <2>4. CASE bufSize < Len(data)
    <3>1. RME_BUFTOOSMALL \in -19 .. -1 /\ Return(RME_BUFTOOSMALL)
      BY <2>4, <1>2 DEF RME_BUFTOOSMALL
    <3> QED  BY <3>1, <1>2, FailureShows
  <2>5. CASE bufSize >= Len(data)
    <3>1. ret' = [code |-> 0, rid |-> -1, data |-> Recs[rid]]
      BY <2>2, <2>3, <2>5, <1>2 DEF ReturnData, RME_OK
    <3>2. Recs' = Recs /\ rid \in DOMAIN Recs /\ bufSize >= Len(Recs[rid])
      BY <2>1, <2>2, <2>5, <1>2, RecordsStay DEF Recs
    <3>3. RecordFileOf!Get(rid, bufSize)
      BY <3>1, <3>2
         DEF RecordFileOf!Get, RecordFileOf!Returns, RecordFileOf!Live, RecordFileOf!OK, Recs
    <3> QED  BY <3>3 DEF RecordFileOf!FileNext
  <2> QED  BY <2>2, <2>3, <2>4, <2>5
<1> QED  BY <1>1, <1>2 DEF RM_GetRecord, file

(* A turn of the loop of RM_GetNextRecord comes to a record, fails, or     *)
(* shows nothing.                                                          *)
LEMMA LookAtSimulates ==
  ASSUME WideRIDs, RMInv, ~Idle, NEW n \in 0 .. numpages - 1, NEW k,
         LookAt(call.scan, n, k), UNCHANGED <<numpages, page>>
  PROVE  RecordFileOf!FileNext \/ (ret' = ret /\ Recs' = Recs)
<1>1. CASE UNCHANGED ret
  BY <1>1, RecordsStay
<1>2. CASE Return(RME_BUFTOOSMALL)
  <2>1. RME_BUFTOOSMALL \in -19 .. -1
    BY DEF RME_BUFTOOSMALL
  <2> QED  BY <1>2, <2>1, FailureShows
<1>3. CASE /\ k \in LiveSlots(page[n])
           /\ call.bufSize >= page[n].slot[k].recordLength
           /\ ReturnData(RME_OK, RM_PackRID(n, k), Record(page[n], k))
  <2> DEFINE rid == RM_PackRID(n, k)
             size == call.bufSize
  <2>1. size \in BufSizes
    BY DEF RMInv, RMTypeOK, Idle
  <2>2. n \in PageNum /\ k \in SlotIndex
    BY <1>3, SlotsHaveRIDs
  <2>3. PageOf(rid) = n /\ SlotOf(rid) = k
    BY <2>2, PackIsInverse
  <2>4. rid \in LiveRIDs
    BY <1>3, <2>2, LiveRIDIs
  <2>5. ret' = [code |-> 0, rid |-> rid, data |-> Record(page[n], k)]
    BY <1>3 DEF ReturnData, RME_OK
  <2>6. size >= page[n].slot[k].recordLength
    BY <1>3
  <2> HIDE DEF rid, size
  <2>7. Recs[rid] = Record(page[n], k) /\ size >= Len(Recs[rid]) /\ rid \in RID
    BY <2>3, <2>4, <2>6, LiveRecordLen, LiveRIDNames
  <2>8. Recs' = Recs /\ rid \in DOMAIN Recs /\ ret' = [code |-> 0, rid |-> rid, data |-> Recs[rid]]
    BY <2>4, <2>5, <2>7, RecordsStay DEF Recs
  <2>9. RecordFileOf!Next(rid, size)
    BY <2>7, <2>8
       DEF RecordFileOf!Next, RecordFileOf!Returns, RecordFileOf!Live, RecordFileOf!OK, Recs
  <2> QED  BY <2>1, <2>7, <2>9 DEF RecordFileOf!FileNext
<1> QED  BY <1>1, <1>2, <1>3 DEF LookAt

(* So does the loop's every turn. *)
LEMMA LoopSimulates ==
  ASSUME WideRIDs, RMInv, Loop
  PROVE  RecordFileOf!FileNext \/ (ret' = ret /\ Recs' = Recs)
<1>1. ~Idle /\ UNCHANGED <<numpages, page>> /\ call.scan \in Scan
  BY DEF Loop, NextPageFails, NextPage, NextSlot, file, RMInv, RMTypeOK, Idle
<1> DEFINE s == call.scan
           c == scan[s].currentPage
<1>2. c \in Int /\ numpages \in Nat /\ 0 <= c + 1
  BY <1>1, RMAssumption DEF RMAssumption, RMInv, RMTypeOK, ScanHandle
<1> HIDE DEF c
<1>3. CASE NextPageFails
  <2> DEFINE code == PF_GetNextPage(c)
  <2>1. code # PFE_OK /\ Return(IF code = PFE_EOF THEN RME_EOF ELSE code)
    BY <1>3 DEF NextPageFails, c
  <2>2. code \in -19 .. 0
    BY <1>2, Codes
  <2> HIDE DEF code
  <2>3. (IF code = PFE_EOF THEN RME_EOF ELSE code) \in -19 .. -1
    BY <2>1, <2>2 DEF RME_EOF, PFE_OK
  <2> QED  BY <2>1, <2>3, <1>1, FailureShows
<1>4. CASE NextPage
  <2>1. PF_GetNextPage(c) = PFE_OK /\ LookAt(s, c + 1, 0)
    BY <1>4 DEF NextPage, c
  <2> DEFINE n == c + 1
  <2>2. n \in 0 .. numpages - 1
    BY <2>1, <1>2, Codes
  <2>3. LookAt(s, n, 0)
    BY <2>1
  <2> HIDE DEF n
  <2> QED  BY <2>2, <2>3, <1>1, LookAtSimulates
<1>5. CASE NextSlot
  <2> DEFINE k == scan[s].currentSlot + 1
  <2>1. scan[s].pageData /\ LookAt(s, c, k)
    BY <1>5 DEF NextSlot, c
  <2>2. c \in 0 .. numpages - 1
    BY <2>1, <1>1 DEF RMInv, ScansPointToSlots, c
  <2> HIDE DEF k
  <2> QED  BY <2>1, <2>2, <1>1, LookAtSimulates
<1> QED  BY <1>3, <1>4, <1>5 DEF Loop

(* The other calls on scans. *)
LEMMA ScanCallSimulates ==
  ASSUME RMInv,
         \/ \E s \in Scan : RM_OpenScan(s)
         \/ \E s \in Scan, bufSize \in BufSizes : RM_GetNextRecord(s, bufSize)
         \/ \E s \in Scan : RM_CloseScan(s)
  PROVE  RecordFileOf!FileNext \/ (ret' = ret /\ Recs' = Recs)
<1>1. UNCHANGED <<numpages, page>>
  BY DEF RM_OpenScan, RM_GetNextRecord, RM_CloseScan, file
<1>2. CASE \E s \in Scan : RM_OpenScan(s)
  BY <1>1, <1>2, NoRecordShows DEF RM_OpenScan
<1>3. CASE \E s \in Scan, bufSize \in BufSizes : RM_GetNextRecord(s, bufSize)
  BY <1>1, <1>3, RecordsStay DEF RM_GetNextRecord
<1>4. CASE \E s \in Scan : RM_CloseScan(s)
  <2>1. PICK s \in Scan : RM_CloseScan(s)
    BY <1>4
  <2>2. scan[s].currentPage \in Int /\ numpages \in Nat
    BY RMAssumption DEF RMAssumption, RMInv, RMTypeOK, ScanHandle
  <2>3. PF_UnfixPage(scan[s].currentPage) \ {PFE_OK} \subseteq -19 .. -1
    BY <2>2, Codes DEF PFE_OK
  <2>4. Return(RME_OK) \/ \E code \in -19 .. -1 : Return(code)
    BY <2>1, <2>3 DEF RM_CloseScan
  <2> QED  BY <2>4, <1>1, NoRecordShows, FailureShows
<1> QED  BY <1>2, <1>3, <1>4

(* The calls on the file: RM_DestroyFile destroys its records. *)
LEMMA FileCallSimulates ==
  ASSUME NoFileIsEmpty,
         RM_CreateFile \/ RM_DestroyFile \/ RM_OpenFile \/ RM_CloseFile \/ NewProcess
  PROVE  RecordFileOf!FileNext
<1> USE DEF file
<1>1. PFE_UNIX \in -19 .. -1 /\ PFE_FILEOPEN \in -19 .. -1 /\ PFE_PAGEFIXED \in -19 .. -1
  BY DEF PFE_UNIX, PFE_FILEOPEN, PFE_PAGEFIXED
<1>2. CASE UNCHANGED <<numpages, page>> /\ Return(RME_OK)
  BY <1>2, NoRecordShows
<1>3. CASE UNCHANGED <<numpages, page>> /\ \E code \in -19 .. -1 : Return(code)
  BY <1>3, FailureShows
<1>4. CASE numpages' = 0 /\ Return(RME_OK)
  <2>1. Recs' = << >>
    <3>1. (numpages = 0 => Recs = << >>)'
      BY NoRecords, PTL
    <3> QED  BY <3>1, <1>4
  <2>2. RecordFileOf!Destroy
    BY <2>1, <1>4 DEF RecordFileOf!Destroy, RecordFileOf!Returns, RecordFileOf!OK,
       Return, ReturnData, RME_OK, Recs
  <2> QED  BY <2>2 DEF RecordFileOf!FileNext
<1>5. CASE RM_CreateFile
  BY <1>1, <1>2, <1>3, <1>5 DEF RM_CreateFile, NoFileIsEmpty
<1>6. CASE RM_DestroyFile
  BY <1>1, <1>3, <1>4, <1>6 DEF RM_DestroyFile
<1>7. CASE RM_OpenFile \/ RM_CloseFile \/ NewProcess
  BY <1>1, <1>2, <1>3, <1>7 DEF RM_OpenFile, RM_CloseFile, NewProcess
<1> QED  BY <1>5, <1>6, <1>7

(* Every step is one of RecordFile, or shows nothing. *)
LEMMA StepSimulates ==
  ASSUME WideRIDs, RMInv, RMInv', NoFileIsEmpty, SlotsAreOwn, [RMNext]_rmvars
  PROVE  RecordFileOf!FileNext \/ (ret' = ret /\ Recs' = Recs)
<1>1. CASE UNCHANGED rmvars
  BY <1>1, RecordsStay DEF rmvars
<1>2. CASE RMNext
  BY <1>2, FileCallSimulates, InsertSimulates, DeleteSimulates, GetSimulates,
     ScanCallSimulates, LoopSimulates DEF RMNext, Loop
<1> QED  BY <1>1, <1>2

-----------------------------------------------------------------------------

(* What the steps that change pages keep, and SlotsAreOwn follows from. *)
RecordInv == RMInv /\ NoFileIsEmpty /\ (OneLength => PagesHoldOneLength)

(* It holds at first, *)
LEMMA InitRecordInv == RMInit => RecordInv
BY InitRMInv DEF RMInit, RecordInv, NoFileIsEmpty, PagesHoldOneLength

(* and every step keeps it. *)
LEMMA StepRecordInv ==
  ASSUME RecordInv, [RMNext]_rmvars
  PROVE  RecordInv'
<1>1. RMInv'
  BY StepRMInv DEF RecordInv
<1>2. NoFileIsEmpty'
  BY StepNoFileIsEmpty DEF RecordInv
<1>3. OneLength => PagesHoldOneLength'
  BY <1>1, StepHoldsOneLength DEF RecordInv
<1>4. OneLength' <=> OneLength
  BY DEF OneLength
<1> QED  BY <1>1, <1>2, <1>3, <1>4 DEF RecordInv

(***************************************************************************)
(* If RIDs tell the file's slots apart, and an insertion never takes the   *)
(* number of its slot from another page, the record manager implements     *)
(* RecordFile: every RID names the record that was inserted under it,      *)
(* until it is deleted, however records move and slots are used again; a   *)
(* call that fails changes none; and scans tell records there are.         *)
(***************************************************************************)
THEOREM OwnSlotsImplementRecordFile ==
  ASSUME WideRIDs
  PROVE  RMSpec /\ []SlotsAreOwn => ImplementsRecordFile
<1>1. RMInit => RecordFileOf!FileInit
  <2> SUFFICES ASSUME RMInit PROVE RecordFileOf!FileInit
    OBVIOUS
  <2>1. Recs = << >>
    BY NoRecords DEF RMInit
  <2> QED  BY <2>1 DEF RMInit, RecordFileOf!FileInit, RecordFileOf!OK, RME_OK, Recs
<1>2. RecordInv /\ RecordInv' /\ SlotsAreOwn /\ [RMNext]_rmvars =>
        [RecordFileOf!FileNext]_(RecordFileOf!recordvars)
  BY StepSimulates DEF RecordInv, RecordFileOf!recordvars, Recs
<1>3. RecordInv /\ [RMNext]_rmvars => RecordInv'
  BY StepRecordInv
<1> QED  BY <1>1, <1>2, <1>3, InitRecordInv, PTL
         DEF RMSpec, ImplementsRecordFile, RecordFileOf!FileSpec

(* An insertion takes no other page's slot where records have one length,  *)
(* nor in a file of one page.                                              *)
LEMMA SlotsStayOwn ==
  ASSUME OneLength \/ MaxPages = 1
  PROVE  RMSpec => []SlotsAreOwn
<1>1. RecordInv => SlotsAreOwn
  BY OneLengthSlotsAreOwn, OnePageSlotsAreOwn DEF RecordInv
<1>2. RecordInv /\ [RMNext]_rmvars => RecordInv'
  BY StepRecordInv
<1> QED  BY <1>1, <1>2, InitRecordInv, PTL DEF RMSpec

(***************************************************************************)
(* So the record manager implements RecordFile for records of one length,  *)
(* in files of any number of pages, and for records of any lengths in a    *)
(* file of one page.                                                       *)
(***************************************************************************)
THEOREM RMImplementsRecordFile ==
  ASSUME WideRIDs, OneLength \/ MaxPages = 1
  PROVE  RMSpec => ImplementsRecordFile
<1>1. RMSpec => []SlotsAreOwn
  BY SlotsStayOwn
<1>2. RMSpec /\ []SlotsAreOwn => ImplementsRecordFile
  BY OwnSlotsImplementRecordFile
<1> QED  BY <1>1, <1>2

(***************************************************************************)
(* Under the same conditions an insertion leaves every record as it is,    *)
(* which it does not for records of two lengths in a file of two pages.    *)
(***************************************************************************)
THEOREM InsertionsKeepRecords ==
  ASSUME WideRIDs, OneLength \/ MaxPages = 1
  PROVE  RMSpec => InsertKeepsRecords
<1> DEFINE Keeps == \A d \in Datum, length \in Lengths : RM_InsertRecord(d, length) =>
                      \A rid \in LiveRIDs : rid \in LiveRIDs' /\ RecordOf(rid)' = RecordOf(rid)
<1>1. RecordInv /\ RecordInv' /\ SlotsAreOwn /\ [RMNext]_rmvars => [Keeps]_rmvars
  <2> SUFFICES ASSUME RecordInv, RecordInv', SlotsAreOwn,
                      NEW d \in Datum, NEW length \in Lengths, RM_InsertRecord(d, length),
                      NEW rid \in LiveRIDs
               PROVE  rid \in LiveRIDs' /\ RecordOf(rid)' = RecordOf(rid)
    OBVIOUS
  <2> DEFINE data == [i \in 1 .. length |-> d]
  <2>1. /\ data \in Seq(Datum)
        /\ (\E p, k, pg : Stores(p, k, pg, data)) \/ UNCHANGED <<numpages, page>>
    BY InsertStoresOrFails DEF RecordInv
  <2> HIDE DEF data
  <2>2. CASE UNCHANGED <<numpages, page>>
    BY <2>2 DEF LiveRIDs, RecordOf
  <2>3. ASSUME NEW p, NEW k, NEW pg, Stores(p, k, pg, data)
        PROVE  rid \in LiveRIDs' /\ RecordOf(rid)' = RecordOf(rid)
    BY <2>1, <2>3, InsertShows DEF RecordInv
  <2> QED  BY <2>1, <2>2, <2>3
<1>2. RecordInv /\ [RMNext]_rmvars => RecordInv'
  BY StepRecordInv
<1>3. RMSpec => []SlotsAreOwn
  BY SlotsStayOwn
<1>4. RMSpec => [][Keeps]_rmvars
  <2> HIDE DEF Keeps
  <2> QED  BY <1>1, <1>2, <1>3, InitRecordInv, PTL DEF RMSpec
<1> QED  BY <1>4 DEF InsertKeepsRecords
=============================================================================
