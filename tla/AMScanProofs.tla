---------------------------- MODULE AMScanProofs ----------------------------
(***************************************************************************)
(* Scans of the tree tell what they promise.  The proof says for each scan *)
(* where it is, in the order of the leaves that AMOrderProofs knows, and   *)
(* that the records from there on are those it owes (ScanInv).             *)
(***************************************************************************)
EXTENDS AMScanProps, AMOrderProofs

-----------------------------------------------------------------------------
(* The constants. *)

(* The constants: no code, scan or other thing that a call returns is a    *)
(* record id.                                                              *)
LEMMA ScanConstants ==
  /\ ValueOf \in [RecId -> Value] /\ Value \subseteq Int
  /\ NoValue \notin Value /\ NoScan # Lost
  /\ \A due \in SUBSET RecId : due # NoScan /\ due # Lost
  /\ \A s \in Scan : s \notin RecId
  /\ \A c \in {AME_OK, AME_INVALIDATTRLENGTH, AME_NOTFOUND, AME_PF, AME_INVALID_OP_TO_SCAN,
               AME_EOF, AME_SCAN_TAB_FULL, Scrap} : c \notin RecId
<1>1. RecId \subseteq Nat \ {0}
  BY AMScanAssumption
<1>2. \A c \in {AME_OK, AME_INVALIDATTRLENGTH, AME_NOTFOUND, AME_PF, AME_INVALID_OP_TO_SCAN,
               AME_EOF, AME_SCAN_TAB_FULL, Scrap} : c \notin RecId
  BY <1>1 DEF AME_OK, AME_INVALIDATTRLENGTH, AME_NOTFOUND, AME_PF, AME_INVALID_OP_TO_SCAN,
     AME_EOF, AME_SCAN_TAB_FULL, Scrap
<1> QED  BY <1>2, AMScanAssumption, AMLeafAssumption DEF Scan

-----------------------------------------------------------------------------
(* The handles of scans. *)

IsHandle(h) ==
    h = [status |-> h.status, op |-> h.op, pageNum |-> h.pageNum, index |-> h.index,
         actindex |-> h.actindex, nextpageNum |-> h.nextpageNum, nextvalue |-> h.nextvalue,
         nextIndex |-> h.nextIndex, nextRecIdPtr |-> h.nextRecIdPtr,
         lastpageNum |-> h.lastpageNum, lastIndex |-> h.lastIndex]

(* What AM_FindNextEntry never changes of a scan. *)
Kin(g, h) ==
    /\ IsHandle(g) /\ g.op = h.op /\ g.pageNum = h.pageNum /\ g.index = h.index
    /\ h.status # "FREE" => g.status # "FREE"

(* Each routine returns a handle and changes what its name tells. *)
LEMMA FreeIs ==
  /\ IsHandle(FreeHandle) /\ FreeHandle.status = "FREE"
  /\ IsHandle([FreeHandle EXCEPT !.status = "FIRST"])
BY DEF IsHandle, FreeHandle

LEMMA StatusIs ==
  ASSUME NEW h, IsHandle(h), NEW c, NEW g, g = [h EXCEPT !.status = c]
  PROVE  /\ IsHandle(g) /\ g.status = c /\ g.op = h.op /\ g.pageNum = h.pageNum /\ g.index = h.index
         /\ g.actindex = h.actindex /\ g.nextpageNum = h.nextpageNum /\ g.nextvalue = h.nextvalue
         /\ g.nextIndex = h.nextIndex /\ g.nextRecIdPtr = h.nextRecIdPtr
BY DEF IsHandle

LEMMA AtFirstIs ==
  ASSUME NEW h, IsHandle(h), NEW g, g = AtFirst(h)
  PROVE  /\ Kin(g, h) /\ g.status = h.status /\ g.nextvalue = h.nextvalue
         /\ g.nextpageNum = h.nextpageNum /\ g.nextIndex = h.nextIndex /\ g.actindex = h.actindex
         /\ g.nextRecIdPtr = Slot(h.nextpageNum, h.nextIndex).head
BY DEF IsHandle, Kin, AtFirst

LEMMA AtEntryIs ==
  ASSUME NEW h, IsHandle(h), NEW p, NEW i, NEW g, g = AtEntry(h, p, i)
  PROVE  /\ Kin(g, h) /\ g.status = h.status /\ g.nextvalue = h.nextvalue
         /\ g.nextpageNum = p /\ g.nextIndex = i /\ g.actindex = i
         /\ g.nextRecIdPtr = Slot(p, i).head
<1>1. PICK m : m = Moved(h, p, i)
  OBVIOUS
<1>2. /\ Kin(m, h) /\ m.status = h.status /\ m.nextvalue = h.nextvalue
      /\ m.nextpageNum = p /\ m.nextIndex = i /\ m.actindex = i
  BY <1>1 DEF IsHandle, Kin, Moved
<1>3. g = AtFirst(m) /\ IsHandle(m)
  BY <1>1, <1>2 DEF AtEntry, Kin
<1>4. /\ Kin(g, m) /\ g.status = m.status /\ g.nextvalue = m.nextvalue
      /\ g.nextpageNum = m.nextpageNum /\ g.nextIndex = m.nextIndex /\ g.actindex = m.actindex
      /\ g.nextRecIdPtr = Slot(m.nextpageNum, m.nextIndex).head
  BY <1>3, AtFirstIs
<1> QED  BY <1>2, <1>4 DEF Kin

LEMMA MovedIs ==
  ASSUME NEW h, IsHandle(h), NEW p, NEW i, NEW g, g = Moved(h, p, i)
  PROVE  /\ Kin(g, h) /\ g.status = h.status /\ g.nextpageNum = p
BY DEF IsHandle, Kin, Moved

LEMMA NextEntryIs ==
  ASSUME NEW h, IsHandle(h), NEW g, g = NextEntry(h)
  PROVE  /\ Kin(g, h) /\ g.status = h.status /\ g.nextvalue = h.nextvalue
         /\ g.nextpageNum = h.nextpageNum /\ g.nextIndex = h.nextIndex + 1
         /\ g.actindex = h.actindex + 1
         /\ g.nextRecIdPtr = Slot(h.nextpageNum, h.nextIndex + 1).head
<1>1. PICK m : m = [h EXCEPT !.nextIndex = @ + 1, !.actindex = @ + 1]
  OBVIOUS
<1>2. /\ Kin(m, h) /\ m.status = h.status /\ m.nextvalue = h.nextvalue
      /\ m.nextpageNum = h.nextpageNum /\ m.nextIndex = h.nextIndex + 1 /\ m.actindex = h.actindex + 1
  BY <1>1 DEF IsHandle, Kin
<1>3. g = AtFirst(m) /\ IsHandle(m)
  BY <1>1, <1>2 DEF NextEntry, Kin
<1>4. /\ Kin(g, m) /\ g.status = m.status /\ g.nextvalue = m.nextvalue
      /\ g.nextpageNum = m.nextpageNum /\ g.nextIndex = m.nextIndex /\ g.actindex = m.actindex
      /\ g.nextRecIdPtr = Slot(m.nextpageNum, m.nextIndex).head
  BY <1>3, AtFirstIs
<1> QED  BY <1>2, <1>4 DEF Kin

LEMMA WithValueIs ==
  ASSUME NEW h, IsHandle(h), NEW g, g = WithValue(h)
  PROVE  /\ Kin(g, h) /\ g.status = h.status /\ g.nextpageNum = h.nextpageNum
         /\ g.nextIndex = h.nextIndex /\ g.actindex = h.actindex
         /\ g.nextRecIdPtr = h.nextRecIdPtr
         /\ g.nextvalue = Slot(h.nextpageNum, h.nextIndex).value
BY DEF IsHandle, Kin, WithValue

(* One after the other they change no more than that. *)
LEMMA KinTrans ==
  ASSUME NEW f, NEW g, NEW h, Kin(f, g), Kin(g, h)
  PROVE  Kin(f, h)
BY DEF Kin

LEMMA ReachedKin ==
  ASSUME NEW h, IsHandle(h)
  PROVE  Kin(Reached(h), h)
<1>1. Kin(h, h)
  BY DEF Kin
<1>2. ASSUME NEW p PROVE Kin([AtEntry(h, p, 1) EXCEPT !.status = "FIRST"], h)
  <2>1. PICK g : g = AtEntry(h, p, 1)
    OBVIOUS
  <2>2. Kin(g, h)
    BY <2>1, AtEntryIs
  <2>3. PICK f : f = [g EXCEPT !.status = "FIRST"]
    OBVIOUS
  <2>4. /\ IsHandle(f) /\ f.status = "FIRST" /\ f.op = g.op /\ f.pageNum = g.pageNum
        /\ f.index = g.index
    BY <2>2, <2>3, StatusIs DEF Kin
  <2> QED  BY <2>1, <2>2, <2>3, <2>4 DEF Kin
<1> QED  BY <1>1, <1>2 DEF Reached

LEMMA LeftOutKin ==
  ASSUME NEW h, IsHandle(h)
  PROVE  Kin(LeftOut(h), h)
<1>1. Kin(NextEntry(h), h)
  BY NextEntryIs
<1>2. Kin(AtEntry(h, NextLeaf(h.nextpageNum), 1), h)
  BY AtEntryIs
<1> QED  BY <1>1, <1>2 DEF LeftOut

LEMMA SettledKin ==
  ASSUME NEW h, IsHandle(h)
  PROVE  Kin(Settled(h), h)
<1>1. PICK f : f = [h EXCEPT !.status = "BUSY"]
  OBVIOUS
<1>2. Kin(f, h)
  <2>1. IsHandle(f) /\ f.status = "BUSY" /\ f.op = h.op /\ f.pageNum = h.pageNum /\ f.index = h.index
    BY <1>1, StatusIs
  <2> QED  BY <2>1 DEF Kin
<1>3. Kin(WithValue(f), f)
  BY <1>2, WithValueIs DEF Kin
<1>4. PICK g : g = [h EXCEPT !.nextIndex = @ - 1]
  OBVIOUS
<1>5. Kin(g, h)
  BY <1>4 DEF Kin, IsHandle
<1>6. Kin(AtFirst(g), g)
  BY <1>5, AtFirstIs DEF Kin
<1>7. Kin(WithValue(f), h) /\ Kin(AtFirst(g), h)
  BY <1>2, <1>3, <1>5, <1>6, KinTrans
<1>8. Kin(h, h)
  BY DEF Kin
<1> QED  BY <1>1, <1>4, <1>7, <1>8 DEF Settled

LEMMA AdvancedKin ==
  ASSUME NEW h, IsHandle(h)
  PROVE  Kin(Advanced(h), h)
<1>1. \A c : Kin([h EXCEPT !.nextRecIdPtr = c], h)
  BY DEF Kin, IsHandle
<1>2. PICK f, g : f = NextEntry(h) /\ g = AtEntry(h, NextLeaf(h.nextpageNum), 1)
  OBVIOUS
<1>3. Kin(f, h) /\ Kin(g, h)
  BY <1>2, NextEntryIs, AtEntryIs
<1>4. Kin(WithValue(f), f) /\ Kin(WithValue(g), g)
  BY <1>3, WithValueIs DEF Kin
<1>5. Kin(WithValue(f), h) /\ Kin(WithValue(g), h)
  BY <1>3, <1>4, KinTrans
<1>6. Kin([h EXCEPT !.nextRecIdPtr = AM_NULL, !.status = "OVER"], h)
  <2>1. PICK e : e = [h EXCEPT !.nextRecIdPtr = AM_NULL, !.status = "OVER"]
    OBVIOUS
  <2>2. e.op = h.op /\ e.pageNum = h.pageNum /\ e.index = h.index /\ e.status = "OVER"
    BY <2>1 DEF IsHandle
  <2>3. IsHandle(e)
    BY <2>1 DEF IsHandle
  <2> QED  BY <2>1, <2>2, <2>3 DEF Kin
<1> QED  BY <1>1, <1>2, <1>5, <1>6 DEF Advanced

LEMMA EndedKin ==
  ASSUME NEW h, IsHandle(h)
  PROVE  Kin(Ended(h), h)
<1>1. ASSUME NEW c \in {"OVER", "LAST"} PROVE Kin([h EXCEPT !.status = c], h)
  <2>1. PICK g : g = [h EXCEPT !.status = c]
    OBVIOUS
  <2>2. IsHandle(g) /\ g.status = c /\ g.op = h.op /\ g.pageNum = h.pageNum /\ g.index = h.index
    BY <2>1, StatusIs
  <2> QED  BY <2>1, <2>2 DEF Kin
<1>2. Kin(h, h)
  BY DEF Kin
<1> QED  BY <1>1, <1>2 DEF Ended

-----------------------------------------------------------------------------
(* Where scans are. *)

(* Scan h is at the m-th record of key t of leaf p, which holds l and has  *)
(* b behind its last key.                                                  *)
PlacedAt(h, l, b, p, t, m) ==
    /\ h.nextpageNum = p
    /\ t \in 1 .. Len(l.keys) /\ m \in 1 .. Len(KeyCells(l, t))
    /\ h.nextRecIdPtr = KeyCells(l, t)[m]
    /\ h.op = "EQUAL" => h.pageNum = p /\ h.index = h.actindex /\ h.index \in Nat
    /\ \/ h.status = "FIRST" /\ h.nextIndex = t
       \/ /\ h.status = "BUSY" /\ h.nextvalue = l.keys[t].value
          /\ \/ h.nextIndex = t
             \/ h.nextIndex = t + 1 /\ t < Len(l.keys) /\ m = 1
             \/ h.nextIndex = t + 1 /\ t = Len(l.keys) /\ b.value = h.nextvalue

(* What a scan for op owes that has come to the m-th record of value x. *)
Due(A, op, x, m) == Rest(A, x, m) \cup IF op = "EQUAL" THEN {} ELSE Greater(A, x)

AtKey(h, o, A, L, i, t, m) ==
    /\ i \in 1 .. Len(L)
    /\ PlacedAt(h, page[L[i]], behind[L[i]], L[i], t, m)
    /\ o = Due(A, h.op, page[L[i]].keys[t].value, m)

(* Or it is at a leaf without keys. *)
AtEmpty(h, o, A, L, rng, i) ==
    /\ i \in 1 .. Len(L)
    /\ h.nextpageNum = L[i] /\ Len(page[L[i]].keys) = 0
    /\ h.op # "EQUAL" /\ h.status \in {"FIRST", "BUSY"}
    /\ o = Onward(A, L, rng, i)

(* Scan h has still to tell the records o, and will. *)
Serving(h, o, A, L, rng) ==
    \/ Over(h) /\ o = {}
    \/ \E i : AtEmpty(h, o, A, L, rng, i)
    \/ \E i, t, m : AtKey(h, o, A, L, i, t, m)

(* The leaves that AM_FindNextEntry passes are the empty ones, up to the   *)
(* first that has a key, or the last.                                      *)
LEMMA PassedIs ==
  ASSUME Nodes(page), NEW np \in 1 .. MaxPages, NEW L, Linking(page, np, L), NEW i \in 1 .. Len(L),
         NEW h, h.nextpageNum = L[i]
  PROVE  \E j \in 1 .. Len(L) :
           /\ i <= j /\ Last(Passed(h)) = L[j]
           /\ \A k \in 1 .. Len(L) : i <= k /\ k < j => page[L[k]].keys = << >>
           /\ j = Len(L) \/ page[L[j]].keys # << >>
<1>1. PICK N \in Nat : N = Len(L)
  BY DEF Linking
<1>2. PICK s : s = SubSeq(L, i, N)
  OBVIOUS
<1>3. ChainFrom(L[i]) = s
  BY <1>1, <1>2, ChainsAre
<1>4. PICK n \in Nat : n = N - i + 1 /\ n >= 1
  <2>1. N - i + 1 \in Nat /\ N - i + 1 >= 1
    BY <1>1
  <2> QED  BY <2>1
<1>5. s \in Seq(PageNum) /\ Len(s) = n /\ DOMAIN s = 1 .. n /\ \A k \in 1 .. n : s[k] = L[i + k - 1]
  <2>1. L \in Seq(PageNum)
    BY DEF Linking
  <2> QED  BY <1>1, <1>2, <1>4, <2>1
<1> DEFINE S == {k \in DOMAIN s : page[s[k]].keys # << >>} \cup {Len(s)}
<1>6. S \in SUBSET Nat /\ S # {} /\ S \subseteq 1 .. n
  BY <1>4, <1>5
<1>7. PICK m : m = Min(S)
  OBVIOUS
<1>8. m \in S /\ \A y \in S : m <= y
  <2> HIDE DEF S
  <2> QED  BY <1>6, <1>7, LeastNumber
<1>9. m \in 1 .. n
  BY <1>6, <1>8
<1>10. Passed(h) = SubSeq(s, 1, m)
  BY <1>3, <1>7 DEF Passed
<1>11. Last(Passed(h)) = s[m]
  <2>1. PICK u : u = SubSeq(s, 1, m)
    OBVIOUS
  <2>2. Len(u) = m /\ \A k \in 1 .. m : u[k] = s[k]
    BY <1>5, <1>9, <2>1
  <2>3. m \in 1 .. m
    BY <1>9
  <2> QED  BY <1>10, <2>1, <2>2, <2>3 DEF Last
<1>12. PICK j \in 1 .. N : j = i + m - 1
  <2>1. i + m - 1 \in 1 .. N
    BY <1>1, <1>4, <1>9
  <2> QED  BY <2>1
<1>13. i <= j /\ s[m] = L[j]
  BY <1>1, <1>5, <1>9, <1>12
<1>14. ASSUME NEW k \in 1 .. N, i <= k, k < j PROVE page[L[k]].keys = << >>
  <2>1. PICK e \in 1 .. n : e = k - i + 1 /\ e < m /\ i + e - 1 = k
    <3>1. k - i + 1 \in 1 .. n /\ k - i + 1 < m /\ i + (k - i + 1) - 1 = k
      BY <1>1, <1>4, <1>9, <1>12, <1>14
    <3> QED  BY <3>1
  <2>2. e \notin S
    <3> HIDE DEF S
    <3> SUFFICES ASSUME e \in S PROVE FALSE
      OBVIOUS
    <3>1. m <= e
      BY <1>8
    <3> QED  BY <1>9, <2>1, <3>1
  <2> QED  BY <1>5, <2>1, <2>2
<1>15. j = N \/ page[L[j]].keys # << >>
  <2>1. m = n => j = N
    BY <1>1, <1>4, <1>12
  <2> QED  BY <1>5, <1>8, <1>13, <2>1
<1> QED  BY <1>1, <1>11, <1>13, <1>14, <1>15

(* From an empty leaf on there is what there is from a later one on, if    *)
(* all between them are empty.                                             *)
LEMMA FromEmptyLeaves ==
  ASSUME NEW A, NEW L, NEW rng, Rows(A, L, rng), NEW i \in 1 .. Len(L), NEW j \in 1 .. Len(L) + 1, i <= j,
         \A k \in 1 .. Len(L) : i <= k /\ k < j => Len(page[L[k]].keys) = 0
  PROVE  Onward(A, L, rng, i) = Onward(A, L, rng, j)
<1>1. A \in [Value -> Seq(RecId)] /\ Len(L) \in Nat
  BY DEF Rows
<1> DEFINE S == {v \in Value : \E k \in 1 .. Len(L) : i <= k /\ v \in rng[L[k]]}
           T == {v \in Value : \E k \in 1 .. Len(L) : j <= k /\ v \in rng[L[k]]}
<1>2. ASSUME NEW v \in Value, A[v] # << >> PROVE v \in S <=> v \in T
  <2>1. ASSUME NEW k \in 1 .. Len(L), i <= k, v \in rng[L[k]] PROVE j <= k
    <3>1. \E t \in 1 .. Len(page[L[k]].keys) : page[L[k]].keys[t].value = v
      BY <1>2, <2>1, SMTT(40) DEF Rows
    <3>2. Len(page[L[k]].keys) # 0
      BY <3>1
    <3>3. ~(k < j)
      BY <2>1, <3>2
    <3> QED  BY <1>1, <3>3
  <2>2. ASSUME NEW k \in 1 .. Len(L), j <= k PROVE i <= k
    BY <1>1, <2>2
  <2> QED  BY <2>1, <2>2
<1> HIDE DEF S, T
<1>3. S \subseteq Value /\ T \subseteq Value
  BY DEF S, T
<1>4. RecordsFrom(A, S) = RecordsFrom(A, T)
  BY <1>1, <1>2, <1>3, SameRecords
<1> QED  BY <1>4 DEF Onward, S, T

-----------------------------------------------------------------------------
(* Scans that stand at a record. *)

(* Each record is in the index once, under its value. *)
Single(A) ==
    \A v \in Value : \A k \in 1 .. Len(A[v]) :
      ValueOf[A[v][k]] = v /\ \A j \in 1 .. Len(A[v]) : A[v][j] = A[v][k] => j = k

(* A scan that has just told a record of value w: the client may delete it. *)
ToldAt(h, l, t, m, w) ==
    /\ h.status = "BUSY"
    /\ h.nextIndex = t \/ l.keys[t].value = w
    /\ m = 1 \/ l.keys[t].value = w

Ready(h, o, A, L, rng, w) ==
    \/ Over(h) /\ o = {}
    \/ \E i : AtEmpty(h, o, A, L, rng, i)
    \/ \E i, t, m : AtKey(h, o, A, L, i, t, m) /\ ToldAt(h, page[L[i]], t, m, w)

(* What is ready for a deletion is served as it is. *)
LEMMA ReadyServes ==
  ASSUME NEW h, NEW o, NEW A, NEW L, NEW rng, NEW w, Ready(h, o, A, L, rng, w)
  PROVE  Serving(h, o, A, L, rng)
BY DEF Ready, Serving

(* All the records of x and of the greater values are those of x and       *)
(* upward.                                                                 *)
LEMMA RestAndGreater ==
  ASSUME NEW A \in [Value -> Seq(RecId)], NEW x \in Value
  PROVE  Rest(A, x, 1) = Range(A[x]) /\ Rest(A, x, 1) \cup Greater(A, x) = Upward(A, x)
<1>1. Len(A[x]) \in Nat /\ DOMAIN A[x] = 1 .. Len(A[x]) /\ x \in Int /\ \A w \in Value : w \in Int
  BY AMLeafAssumption
<1>2. Rest(A, x, 1) = Range(A[x])
  <2>1. {k \in 1 .. Len(A[x]) : k >= 1} = 1 .. Len(A[x])
    BY <1>1
  <2> QED  BY <1>1, <2>1 DEF Rest, Range
<1>3. {w \in Value : w >= x} = {w \in Value : w > x} \cup {x}
  BY <1>1
<1>4. Upward(A, x) = Greater(A, x) \cup Range(A[x])
  BY <1>3 DEF Upward, Greater, RecordsFrom
<1> QED  BY <1>2, <1>4

(* The first record that is due has the least value; after it the ones     *)
(* behind it are due.                                                      *)
LEMMA DueParts ==
  ASSUME NEW A \in [Value -> Seq(RecId)], Single(A), NEW x \in Value, NEW m \in 1 .. Len(A[x]), NEW op
  PROVE  /\ A[x][m] \in Due(A, op, x, m)
         /\ Due(A, op, x, m) \ {A[x][m]} = Due(A, op, x, m + 1)
         /\ m = Len(A[x]) /\ op = "EQUAL" => Due(A, op, x, m + 1) = {}
         /\ m = Len(A[x]) /\ op # "EQUAL" => Due(A, op, x, m + 1) = Greater(A, x)
         /\ \A r \in Due(A, op, x, m) : r \in RecId /\ x <= ValueOf[r]
         /\ A[x][m] \in RecId /\ ValueOf[A[x][m]] = x
<1>1. Len(A[x]) \in Nat /\ x \in Int /\ \A w \in Value : w \in Int
  BY AMLeafAssumption
<1>2. \A r \in Greater(A, x) : r \in RecId /\ x < ValueOf[r]
  <2> SUFFICES ASSUME NEW r \in Greater(A, x) PROVE r \in RecId /\ x < ValueOf[r]
    OBVIOUS
  <2>1. PICK w \in Value : w > x /\ \E k \in 1 .. Len(A[w]) : r = A[w][k]
    <3>1. PICK S : S = {w \in Value : w > x}
      OBVIOUS
    <3>2. S \in SUBSET Value /\ r \in RecordsFrom(A, S)
      BY <3>1 DEF Greater
    <3>3. \E w \in S : \E k \in 1 .. Len(A[w]) : r = A[w][k]
      BY <3>2, RecordAt
    <3> QED  BY <3>1, <3>3
  <2>2. PICK k \in 1 .. Len(A[w]) : r = A[w][k]
    BY <2>1
  <2>3. ValueOf[r] = w
    BY <2>2 DEF Single
  <2>4. A[w] \in Seq(RecId)
    OBVIOUS
  <2>5. r \in RecId
    BY <2>2, <2>4
  <2> QED  BY <1>1, <2>1, <2>3, <2>5
<1>3. \A k \in 1 .. Len(A[x]) : A[x][k] \in RecId /\ ValueOf[A[x][k]] = x
  <2>1. A[x] \in Seq(RecId)
    OBVIOUS
  <2> QED  BY <2>1 DEF Single
<1>4. A[x][m] \notin Greater(A, x)
  BY <1>1, <1>2, <1>3
<1>5. Rest(A, x, m) \ {A[x][m]} = Rest(A, x, m + 1)
  <2>1. \A k \in 1 .. Len(A[x]) : k >= m <=> k = m \/ k >= m + 1
    BY <1>1
  <2>2. ASSUME NEW r PROVE r \in Rest(A, x, m) /\ r # A[x][m] => r \in Rest(A, x, m + 1)
    BY <2>1 DEF Rest
  <2>3. ASSUME NEW r, r \in Rest(A, x, m + 1) PROVE r \in Rest(A, x, m) /\ r # A[x][m]
    <3>1. PICK k \in 1 .. Len(A[x]) : k >= m + 1 /\ r = A[x][k]
      BY <2>3 DEF Rest
    <3>2. k # m /\ k >= m
      BY <1>1, <3>1
    <3> QED  BY <3>1, <3>2 DEF Rest, Single
  <2> QED  BY <2>2, <2>3
<1>6. A[x][m] \in Rest(A, x, m)
  BY <1>1 DEF Rest
<1>7. m = Len(A[x]) => Rest(A, x, m + 1) = {}
  <2>1. m = Len(A[x]) => {k \in 1 .. Len(A[x]) : k >= m + 1} = {}
    BY <1>1
  <2> QED  BY <2>1 DEF Rest
<1>8. \A r \in Rest(A, x, m) : r \in RecId /\ x <= ValueOf[r]
  BY <1>1, <1>3 DEF Rest
<1>9. ASSUME NEW r \in Due(A, op, x, m) PROVE r \in RecId /\ x <= ValueOf[r]
  <2>1. r \in Rest(A, x, m) \/ r \in Greater(A, x)
    BY DEF Due
  <2>2. CASE r \in Greater(A, x)
    <3>1. r \in RecId /\ x < ValueOf[r]
      BY <1>2, <2>2
    <3>2. ValueOf[r] \in Int
      BY <1>1, <3>1, ScanConstants
    <3> QED  BY <1>1, <3>1, <3>2
  <2> QED  BY <1>8, <2>1, <2>2
<1>10. Due(A, op, x, m) \ {A[x][m]} = Due(A, op, x, m + 1)
  BY <1>4, <1>5 DEF Due
<1>11. A[x][m] \in Due(A, op, x, m)
  BY <1>6 DEF Due
<1>12. /\ m = Len(A[x]) /\ op = "EQUAL" => Due(A, op, x, m + 1) = {}
       /\ m = Len(A[x]) /\ op # "EQUAL" => Due(A, op, x, m + 1) = Greater(A, x)
  BY <1>7 DEF Due
<1> QED  BY <1>3, <1>9, <1>10, <1>11, <1>12

(* The bytes that a scan reads as a key are those of the key, or those     *)
(* behind the last key.                                                    *)
LEMMA SlotIs ==
  ASSUME NEW p, GoodLeaf(page[p])
  PROVE  /\ \A i \in 1 .. Len(page[p].keys) : Slot(p, i) = page[p].keys[i]
         /\ Slot(p, Len(page[p].keys) + 1) = behind[p]
         /\ Len(page[p].keys) \in Nat
<1>1. DOMAIN page[p].keys = 1 .. Len(page[p].keys) /\ Len(page[p].keys) \in Nat
  BY LeafParts DEF GoodLeaf
<1>2. Len(page[p].keys) + 1 \notin 1 .. Len(page[p].keys)
  BY <1>1, SMTT(40)
<1> QED  BY <1>1, <1>2 DEF Slot

(* Key t of leaf p has the value x, whose records A knows, in the cells s. *)
KeyIs(A, p, t, x, s) ==
    /\ t \in 1 .. Len(page[p].keys) /\ Len(page[p].keys) \in Nat /\ GoodLeaf(page[p])
    /\ x = page[p].keys[t].value /\ x \in Value /\ x \in Int
    /\ s = KeyCells(page[p], t) /\ page[p].keys[t].head = s[1] /\ Linked(page[p], s)
    /\ s \in Seq(Cell) /\ Len(s) \in Nat /\ 1 \in 1 .. Len(s)
    /\ \A k \in 1 .. Len(s) : s[k] # AM_NULL
    /\ Len(A[x]) = Len(s) /\ \A k \in 1 .. Len(s) : A[x][k] = page[p].recId[s[k]]
    /\ A[x] = RecIds(page[p], t)

(* Every key of every leaf has a list that A knows. *)
LEMMA KeyOf ==
  ASSUME NEW A, NEW L, NEW rng, Rows(A, L, rng), NEW i \in 1 .. Len(L),
         NEW t \in 1 .. Len(page[L[i]].keys)
  PROVE  \E x, s : KeyIs(A, L[i], t, x, s)
<1>1. PICK p : p = L[i]
  OBVIOUS
<1>2. /\ GoodLeaf(page[p]) /\ Len(page[p].keys) \in Nat
      /\ page[p].keys[t].value \in Value /\ page[p].keys[t].value \in Int
      /\ A[page[p].keys[t].value] = RecIds(page[p], t)
  BY <1>1 DEF Rows
<1>3. PICK s : Listed(page[p], t, s)
  BY <1>1, <1>2, KeyHasList
<1> QED  BY <1>1, <1>2, <1>3, SMTT(40) DEF KeyIs, Listed

(* A scan that enters leaf i at its first key owes all from that leaf on. *)
LEMMA StepFrom ==
  ASSUME NEW A, NEW L, NEW rng, Rows(A, L, rng), NEW i \in 1 .. Len(L), 1 \in 1 .. Len(page[L[i]].keys),
         NEW h, h.nextpageNum = L[i], h.nextIndex = 1,
         h.nextRecIdPtr = Slot(L[i], 1).head, h.op # "EQUAL",
         h.status = "FIRST" \/ (h.status = "BUSY" /\ h.nextvalue = page[L[i]].keys[1].value)
  PROVE  AtKey(h, Onward(A, L, rng, i), A, L, i, 1, 1)
<1>1. PICK x, s : KeyIs(A, L[i], 1, x, s)
  BY KeyOf, SMTT(40)
<1>2. Slot(L[i], 1).head = s[1] /\ s = KeyCells(page[L[i]], 1) /\ 1 \in 1 .. Len(s)
  BY <1>1, SlotIs DEF KeyIs
<1>3. PlacedAt(h, page[L[i]], behind[L[i]], L[i], 1, 1)
  BY <1>2 DEF PlacedAt
<1>4. Onward(A, L, rng, i) = Upward(A, x) /\ x \in Value /\ x = page[L[i]].keys[1].value
  BY <1>1, FromFirstKey, SMTT(40) DEF KeyIs
<1>5. Upward(A, x) = Due(A, h.op, x, 1)
  <2>1. A \in [Value -> Seq(RecId)]
    BY DEF Rows
  <2> QED  BY <1>4, <2>1, RestAndGreater, SMTT(40) DEF Due
<1> QED  BY <1>3, <1>4, <1>5 DEF AtKey

(* At a key no leaf is passed. *)
LEMMA ReachedAtKey ==
  ASSUME Nodes(page), NEW np \in 1 .. MaxPages, NEW L, Linking(page, np, L),
         NEW h, NEW o, NEW A, NEW i, NEW t, NEW m, AtKey(h, o, A, L, i, t, m)
  PROVE  Reached(h) = h
<1>1. i \in 1 .. Len(L) /\ h.nextpageNum = L[i] /\ t \in 1 .. Len(page[L[i]].keys)
  BY DEF AtKey, PlacedAt
<1>2. page[L[i]].keys # << >>
  BY <1>1
<1>3. PICK j \in 1 .. Len(L) : /\ i <= j /\ Last(Passed(h)) = L[j]
                               /\ \A k \in 1 .. Len(L) : i <= k /\ k < j => page[L[k]].keys = << >>
  BY <1>1, PassedIs
<1>4. Len(L) \in Nat
  BY DEF Linking
<1>5. ~(i < j)
  <2>1. i <= i
    BY <1>1, <1>4
  <2> QED  BY <1>1, <1>2, <1>3, <2>1
<1>6. j = i
  BY <1>1, <1>3, <1>4, <1>5
<1> QED  BY <1>1, <1>3, <1>6 DEF Reached

(* From an empty leaf a scan reaches the first key behind it, or the end. *)
LEMMA ReachedAtEmpty ==
  ASSUME Nodes(page), NEW np \in 1 .. MaxPages, NEW L, Linking(page, np, L),
         NEW A, NEW rng, Rows(A, L, rng), NEW h, IsHandle(h), NEW o, NEW i, AtEmpty(h, o, A, L, rng, i),
         NEW r, r = Reached(h)
  PROVE  \/ page[r.nextpageNum].keys = << >> /\ o = {}
         \/ r.status = "FIRST" /\ \E j, t, m : AtKey(r, o, A, L, j, t, m)
<1>1. /\ i \in 1 .. Len(L) /\ h.nextpageNum = L[i] /\ Len(page[L[i]].keys) = 0
      /\ h.op # "EQUAL" /\ o = Onward(A, L, rng, i)
  BY DEF AtEmpty
<1>2. PICK j \in 1 .. Len(L) : /\ i <= j /\ Last(Passed(h)) = L[j]
                               /\ \A k \in 1 .. Len(L) : i <= k /\ k < j => page[L[k]].keys = << >>
                               /\ j = Len(L) \/ page[L[j]].keys # << >>
  BY <1>1, PassedIs, SMTT(40)
<1>3. /\ Len(L) \in Nat /\ \A k \in 1 .. Len(L) : Len(page[L[k]].keys) \in Nat
      /\ \A a, b \in 1 .. Len(L) : a < b => L[a] # L[b]
      /\ \A k \in 1 .. Len(L) : page[L[k]].keys = << >> <=> Len(page[L[k]].keys) = 0
  <2>1. \A k \in 1 .. Len(L) : GoodLeaf(page[L[k]])
    BY DEF Rows
  <2>2. \A k \in 1 .. Len(L) : page[L[k]].keys \in Seq(Entry)
    BY <2>1, LeafParts DEF GoodLeaf
  <2>3. \A k \in 1 .. Len(L) : page[L[k]].keys = << >> <=> Len(page[L[k]].keys) = 0
    BY <2>2
  <2> QED  BY <2>3, SMTT(40) DEF Rows
<1>4. CASE page[L[j]].keys = << >>
  <2>1. j = Len(L)
    BY <1>2, <1>4
  <2>2. \A k \in 1 .. Len(L) : i <= k /\ k < Len(L) + 1 => Len(page[L[k]].keys) = 0
    <3> SUFFICES ASSUME NEW k \in 1 .. Len(L), i <= k PROVE Len(page[L[k]].keys) = 0
      OBVIOUS
    <3>1. k < j \/ k = j
      BY <1>3, <2>1
    <3> QED  BY <1>2, <1>3, <1>4, <3>1
  <2>3. o = {}
    <3>1. Len(L) + 1 \in 1 .. Len(L) + 1 /\ i <= Len(L) + 1
      BY <1>1, <1>3
    <3>2. PICK n \in 1 .. Len(L) + 1 : n = Len(L) + 1
      BY <3>1
    <3>3. Onward(A, L, rng, i) = Onward(A, L, rng, n)
      BY <1>1, <2>2, <3>1, <3>2, FromEmptyLeaves
    <3> QED  BY <1>1, <3>2, <3>3, FromEmptyLeaf
  <2>4. r.nextpageNum = L[j]
    <3>1. PICK g : g = AtEntry(h, L[j], 1)
      OBVIOUS
    <3>2. IsHandle(g) /\ g.nextpageNum = L[j]
      BY <3>1, AtEntryIs DEF Kin
    <3>3. PICK f : f = [g EXCEPT !.status = "FIRST"]
      OBVIOUS
    <3>4. f.nextpageNum = L[j]
      BY <3>2, <3>3, StatusIs
    <3> QED  BY <1>1, <1>2, <3>1, <3>3, <3>4 DEF Reached
  <2> QED  BY <1>4, <2>3, <2>4
<1>5. CASE page[L[j]].keys # << >>
  <2>1. j # i /\ i < j
    BY <1>1, <1>2, <1>3, <1>5
  <2>2. L[j] # h.nextpageNum
    BY <1>1, <1>3, <2>1
  <2>3. PICK g : g = AtEntry(h, L[j], 1)
    OBVIOUS
  <2>4. /\ IsHandle(g) /\ g.nextpageNum = L[j] /\ g.nextIndex = 1 /\ g.op = h.op
        /\ g.nextRecIdPtr = Slot(L[j], 1).head
    BY <2>3, AtEntryIs DEF Kin
  <2>5. r = [g EXCEPT !.status = "FIRST"]
    BY <1>2, <2>2, <2>3 DEF Reached
  <2>6. /\ r.status = "FIRST" /\ r.nextpageNum = L[j] /\ r.nextIndex = 1 /\ r.op = h.op
        /\ r.nextRecIdPtr = Slot(L[j], 1).head
    BY <2>4, <2>5, StatusIs
  <2>7. 1 \in 1 .. Len(page[L[j]].keys)
    BY <1>3, <1>5
  <2>8. AtKey(r, Onward(A, L, rng, j), A, L, j, 1, 1)
    BY <1>1, <2>6, <2>7, StepFrom
  <2>9. Onward(A, L, rng, i) = Onward(A, L, rng, j)
    <3>1. \A k \in 1 .. Len(L) : i <= k /\ k < j => Len(page[L[k]].keys) = 0
      BY <1>2, <1>3
    <3>2. PICK n \in 1 .. Len(L) + 1 : n = j
      BY <1>3
    <3> QED  BY <1>1, <1>2, <3>1, <3>2, FromEmptyLeaves
  <2> QED  BY <1>1, <2>6, <2>8, <2>9
<1> QED  BY <1>4, <1>5

-----------------------------------------------------------------------------
(* AM_FindNextEntry reads one record and goes on. *)

(* A scan for one value ends when it leaves the key; another does not end  *)
(* there.                                                                  *)
LEMMA EndedIs ==
  ASSUME NEW h, IsHandle(h), h.op \in Promised, NEW g, g = Ended(h)
  PROVE  /\ h.op # "EQUAL" => g = h
         /\ h.op = "EQUAL" /\ h.pageNum = h.nextpageNum /\ h.index = h.actindex => g = h
         /\ h.op = "EQUAL" /\ (h.pageNum # h.nextpageNum \/ h.index # h.actindex) => Over(g)
         /\ Over(h) => Over(g)
         /\ Kin(g, h)
<1>1. ~IsUpTo(h)
  BY DEF IsUpTo, Promised
<1>2. PICK f : f = [h EXCEPT !.status = "OVER"]
  OBVIOUS
<1>3. f.status = "OVER"
  BY <1>2, StatusIs
<1>4. Over(f)
  BY <1>3 DEF Over
<1>5. g = IF h.op = "EQUAL" /\ (h.pageNum # h.nextpageNum \/ h.index # h.actindex) THEN f ELSE h
  BY <1>1, <1>2 DEF Ended
<1>6. Kin(g, h)
  BY EndedKin
<1> QED  BY <1>4, <1>5, <1>6

(* At the t-th key of the leaf, whose value it has read. *)
ReadKey(q, r, p, t, x, c, b) ==
    /\ Kin(q, r) /\ q.status = "BUSY" /\ q.nextvalue = x /\ q.nextpageNum = p
    /\ q.nextRecIdPtr = c /\ q.actindex = r.actindex
    /\ \/ q.nextIndex = t
       \/ q.nextIndex = t + 1 /\ t = Len(page[p].keys) /\ b.value = x

(* Before it reads a record a scan stands at the key, and knows its value; *)
(* no scan of the promised operators goes astray.                          *)
LEMMA SettledIs ==
  ASSUME NEW A, NEW L, NEW rng, Rows(A, L, rng), NEW r, IsHandle(r), NEW o, NEW i, NEW t, NEW m,
         AtKey(r, o, A, L, i, t, m), NEW x, NEW s, KeyIs(A, L[i], t, x, s), NEW q, q = Settled(r)
  PROVE  /\ ~Astray(r) /\ ~Astray(q) /\ AtKey(q, o, A, L, i, t, m)
         /\ ReadKey(q, r, L[i], t, x, s[m], behind[L[i]])
<1>1. PICK p : p = L[i]
  BY SMTT(40)
<1>2. /\ i \in 1 .. Len(L) /\ r.nextpageNum = p /\ t \in 1 .. Len(page[p].keys)
      /\ m \in 1 .. Len(s) /\ r.nextRecIdPtr = s[m] /\ s[m] # AM_NULL
      /\ Len(page[p].keys) \in Nat /\ GoodLeaf(page[p])
      /\ x = page[p].keys[t].value /\ x \in Value /\ x \in Int /\ page[p].keys[t].head = s[1]
  BY <1>1 DEF AtKey, PlacedAt, KeyIs
<1>3. /\ \A j \in 1 .. Len(page[p].keys) : Slot(p, j) = page[p].keys[j]
      /\ Slot(p, Len(page[p].keys) + 1) = behind[p]
  BY <1>2, SlotIs, SMTT(40)
<1>4. \A j \in 1 .. Len(page[p].keys) : page[p].keys[j].value \in Value /\ page[p].keys[j].value \in Int
  BY <1>1, <1>2 DEF Rows
<1>5. NoEntry.value = NoValue /\ NoValue \notin Value
  BY ScanConstants DEF NoEntry
<1>6. ASSUME NEW g, g.nextpageNum = p, g.nextRecIdPtr = s[m], Slot(p, g.nextIndex).value \in Value
      PROVE  ~Astray(g)
  BY <1>2, <1>5, <1>6, SMTT(40) DEF Astray
<1>7. ASSUME NEW g, Kin(g, r), g.status = "BUSY", g.nextvalue = x, g.nextpageNum = p,
             g.nextRecIdPtr = s[m], g.actindex = r.actindex,
             \/ g.nextIndex = t
             \/ g.nextIndex = t + 1 /\ t = Len(page[p].keys) /\ behind[p].value = x
      PROVE  AtKey(g, o, A, L, i, t, m) /\ ReadKey(g, r, L[i], t, x, s[m], behind[L[i]])
  <2>1. ReadKey(g, r, L[i], t, x, s[m], behind[L[i]])
    BY <1>1, <1>7, SMTT(40) DEF ReadKey
  <2>2. s = KeyCells(page[p], t)
    BY <1>1 DEF KeyIs
  <2>3. g.op = "EQUAL" => g.pageNum = p /\ g.index = g.actindex /\ g.index \in Nat
    BY <1>1, <1>7 DEF AtKey, PlacedAt, Kin
  <2>4. PlacedAt(g, page[p], behind[p], p, t, m)
    BY <1>2, <1>7, <2>2, <2>3 DEF PlacedAt
  <2>5. g.op = r.op /\ o = Due(A, r.op, page[p].keys[t].value, m)
    BY <1>1, <1>7 DEF AtKey, Kin
  <2> QED  BY <1>1, <1>2, <2>1, <2>4, <2>5 DEF AtKey
<1>8. Kin(r, r)
  BY DEF Kin
<1>9. CASE r.status = "FIRST"
  <2>1. r.nextIndex = t
    BY <1>9 DEF AtKey, PlacedAt
  <2>2. PICK f : f = [r EXCEPT !.status = "BUSY"]
    OBVIOUS
  <2>11. /\ IsHandle(f) /\ f.status = "BUSY" /\ f.op = r.op /\ f.pageNum = r.pageNum /\ f.index = r.index
         /\ f.actindex = r.actindex /\ f.nextpageNum = r.nextpageNum /\ f.nextIndex = r.nextIndex
         /\ f.nextRecIdPtr = r.nextRecIdPtr
    BY <2>2, StatusIs
  <2>3. /\ IsHandle(f) /\ f.status = "BUSY" /\ f.op = r.op /\ f.pageNum = r.pageNum /\ f.index = r.index
        /\ f.actindex = r.actindex /\ f.nextpageNum = p /\ f.nextIndex = t /\ f.nextRecIdPtr = s[m]
    BY <1>2, <2>1, <2>11
  <2>4. q = WithValue(f)
    BY <1>9, <2>2 DEF Settled
  <2>5. /\ Kin(q, f) /\ q.status = "BUSY" /\ q.nextpageNum = p /\ q.nextIndex = t
        /\ q.actindex = r.actindex /\ q.nextRecIdPtr = s[m] /\ q.nextvalue = Slot(p, t).value
    BY <2>3, <2>4, WithValueIs
  <2>6. Kin(q, r)
    BY <2>3, <2>5 DEF Kin
  <2>7. q.nextvalue = x /\ Slot(p, t).value \in Value
    BY <1>2, <1>3, <2>5
  <2>8. ~Astray(r) /\ ~Astray(q)
    BY <1>2, <1>6, <2>1, <2>5, <2>7
  <2> QED  BY <1>7, <2>5, <2>6, <2>7, <2>8
<1>10. CASE r.status # "FIRST"
  <2>1. /\ r.status = "BUSY" /\ r.nextvalue = x
        /\ \/ r.nextIndex = t
           \/ r.nextIndex = t + 1 /\ t < Len(page[p].keys) /\ m = 1
           \/ r.nextIndex = t + 1 /\ t = Len(page[p].keys) /\ behind[p].value = x
    BY <1>1, <1>2, <1>10 DEF AtKey, PlacedAt
  <2>2. q = IF Slot(p, r.nextIndex).value # x THEN AtFirst([r EXCEPT !.nextIndex = @ - 1]) ELSE r
    BY <1>2, <1>10, <2>1 DEF Settled
  <2>3. CASE r.nextIndex = t
    <3>1. Slot(p, r.nextIndex).value = x
      BY <1>2, <1>3, <2>3
    <3>2. q = r
      BY <2>2, <3>1
    <3>3. ~Astray(r)
      BY <1>2, <1>6, <3>1
    <3> QED  BY <1>2, <1>7, <1>8, <2>1, <2>3, <3>2, <3>3
  <2>4. CASE r.nextIndex = t + 1 /\ t = Len(page[p].keys) /\ behind[p].value = x
    <3>1. Slot(p, r.nextIndex).value = x
      BY <1>3, <2>4
    <3>2. q = r
      BY <2>2, <3>1
    <3>3. ~Astray(r)
      BY <1>2, <1>6, <3>1
    <3> QED  BY <1>2, <1>7, <1>8, <2>1, <2>4, <3>2, <3>3
  <2>5. CASE r.nextIndex = t + 1 /\ t < Len(page[p].keys) /\ m = 1
    <3>1. PICK u \in 1 .. Len(page[p].keys) : u = t + 1
      BY <1>2, <2>5, SMTT(40)
    <3>2. page[p].keys[t].value < page[p].keys[u].value
      <4>1. t < u
        BY <1>2, <3>1
      <4> QED  BY <1>1, <1>2, <4>1 DEF Rows
    <3>3. page[p].keys[u].value # x /\ page[p].keys[u].value \in Value
      BY <1>2, <1>4, <3>2, SMTT(40)
    <3>4. Slot(p, r.nextIndex) = page[p].keys[u]
      BY <1>3, <2>5, <3>1
    <3>5. PICK f : f = [r EXCEPT !.nextIndex = @ - 1]
      OBVIOUS
    <3>6. /\ f.status = r.status /\ f.op = r.op /\ f.pageNum = r.pageNum /\ f.index = r.index
          /\ f.actindex = r.actindex /\ f.nextpageNum = r.nextpageNum /\ f.nextvalue = r.nextvalue
          /\ f.nextIndex = r.nextIndex - 1
      BY <3>5 DEF IsHandle
    <3>7. IsHandle(f)
      BY <3>5 DEF IsHandle
    <3>8. q = AtFirst(f)
      BY <2>2, <3>3, <3>4, <3>5
    <3>9. f.nextIndex = t
      BY <1>2, <2>5, <3>6
    <3>10. /\ Kin(q, f) /\ q.status = "BUSY" /\ q.nextvalue = x
           /\ q.nextpageNum = p /\ q.nextIndex = t /\ q.actindex = r.actindex
           /\ q.nextRecIdPtr = Slot(p, t).head
      BY <1>2, <2>1, <3>6, <3>7, <3>8, <3>9, AtFirstIs, SMTT(40)
    <3>11. q.nextRecIdPtr = s[m]
      BY <1>2, <1>3, <2>5, <3>10
    <3>12. Kin(q, r)
      BY <3>6, <3>10 DEF Kin
    <3>13. Slot(p, t).value \in Value /\ Slot(p, r.nextIndex).value \in Value
      BY <1>2, <1>3, <3>3, <3>4
    <3>14. ~Astray(r) /\ ~Astray(q)
      BY <1>2, <1>6, <3>10, <3>11, <3>13
    <3> QED  BY <1>7, <3>10, <3>11, <3>12, <3>14
  <2> QED  BY <2>1, <2>3, <2>4, <2>5
<1> QED  BY <1>9, <1>10

(* In the last cell of the list of key t, and of leaf i what is there. *)
LEMMA NextOf ==
  ASSUME NEW A, NEW p, NEW t, NEW x, NEW s, KeyIs(A, p, t, x, s), NEW m \in 1 .. Len(s)
  PROVE  /\ m # Len(s) => page[p].link[s[m]] = s[m + 1] /\ s[m + 1] # AM_NULL
         /\ m = Len(s) => page[p].link[s[m]] = AM_NULL
         /\ m # Len(s) => m + 1 \in 1 .. Len(s)
         /\ page[p].recId[s[m]] = A[x][m] /\ m \in 1 .. Len(A[x])
<1>1. /\ \A k \in 1 .. Len(s) : page[p].link[s[k]] = IF k = Len(s) THEN AM_NULL ELSE s[k + 1]
      /\ \A k \in 1 .. Len(s) : s[k] # AM_NULL
      /\ Len(s) \in Nat /\ Len(A[x]) = Len(s) /\ \A k \in 1 .. Len(s) : A[x][k] = page[p].recId[s[k]]
  BY DEF KeyIs, Linked
<1>2. m # Len(s) => m + 1 \in 1 .. Len(s)
  BY <1>1
<1> QED  BY <1>1, <1>2

(* The scan q reads the record in cell m of the list s, of key t. *)
Reads(q, o, A, L, rng, i, t, m, x, s, r) ==
    /\ Rows(A, L, rng) /\ Single(A) /\ IsHandle(q) /\ q.op \in Promised
    /\ AtKey(q, o, A, L, i, t, m) /\ KeyIs(A, L[i], t, x, s)
    /\ ReadKey(q, r, L[i], t, x, s[m], behind[L[i]])

(* It has told rid, of the least value that it owed, and owes the others. *)
Gives(g, o, A, L, rng, rid) ==
    /\ rid \in RecId /\ rid \in o /\ \A u \in o : u \in RecId /\ ValueOf[rid] <= ValueOf[u]
    /\ Ready(g, o \ {rid}, A, L, rng, ValueOf[rid])

(* AM_FindNextEntry tells a record that is due, of the least value, and    *)
(* its place is then that of what is left.                                 *)
LEMMA AdvancedServes ==
  ASSUME NEW A, NEW L, NEW rng, NEW q, NEW o, NEW i, NEW t, NEW m, NEW x, NEW s, NEW r,
         Reads(q, o, A, L, rng, i, t, m, x, s, r), NEW p, p = L[i],
         NEW g, g = Ended(Advanced(q)), NEW rid, rid = page[p].recId[q.nextRecIdPtr]
  PROVE  Gives(g, o, A, L, rng, rid)
<1> SUFFICES ASSUME Rows(A, L, rng), Single(A), IsHandle(q), q.op \in Promised,
                    AtKey(q, o, A, L, i, t, m), KeyIs(A, L[i], t, x, s),
                    ReadKey(q, r, L[i], t, x, s[m], behind[L[i]])
             PROVE  Gives(g, o, A, L, rng, rid)
  BY DEF Reads
<1>0. p = L[i] /\ Rows(A, L, rng) /\ IsHandle(q)
  BY SMTT(40)
<1>1. /\ i \in 1 .. Len(L) /\ t \in 1 .. Len(page[p].keys) /\ m \in 1 .. Len(s) /\ Len(page[p].keys) \in Nat
      /\ GoodLeaf(page[p]) /\ x = page[p].keys[t].value /\ x \in Value /\ s = KeyCells(page[p], t)
      /\ o = Due(A, q.op, x, m)
      /\ q.op = "EQUAL" => q.pageNum = p /\ q.index = q.actindex /\ q.index \in Nat
  BY DEF AtKey, PlacedAt, KeyIs
<1>2. /\ q.status = "BUSY" /\ q.nextvalue = x /\ q.nextpageNum = p /\ q.nextRecIdPtr = s[m]
      /\ \/ q.nextIndex = t
         \/ q.nextIndex = t + 1 /\ t = Len(page[p].keys) /\ behind[p].value = x
  BY DEF ReadKey
<1>3. /\ m # Len(s) => page[p].link[s[m]] = s[m + 1] /\ s[m + 1] # AM_NULL
      /\ m = Len(s) => page[p].link[s[m]] = AM_NULL
      /\ m # Len(s) => m + 1 \in 1 .. Len(s)
      /\ page[p].recId[s[m]] = A[x][m] /\ m \in 1 .. Len(A[x])
  <2>1. KeyIs(A, p, t, x, s)
    BY SMTT(40)
  <2>2. m \in 1 .. Len(s)
    BY <1>1
  <2> QED  BY ONLY <2>1, <2>2, NextOf
<1>4. rid = A[x][m]
  BY <1>2, <1>3
<1>5. A \in [Value -> Seq(RecId)] /\ Len(L) \in Nat
  BY DEF Rows
<1>6. /\ rid \in RecId /\ rid \in o /\ \A u \in o : u \in RecId /\ x <= ValueOf[u]
      /\ ValueOf[rid] = x /\ o \ {rid} = Due(A, q.op, x, m + 1)
      /\ m = Len(A[x]) => o \ {rid} = IF q.op = "EQUAL" THEN {} ELSE Greater(A, x)
  <2>1. PICK op : op = q.op
    OBVIOUS
  <2>2. /\ A[x][m] \in Due(A, op, x, m)
        /\ Due(A, op, x, m) \ {A[x][m]} = Due(A, op, x, m + 1)
        /\ m = Len(A[x]) /\ op = "EQUAL" => Due(A, op, x, m + 1) = {}
        /\ m = Len(A[x]) /\ op # "EQUAL" => Due(A, op, x, m + 1) = Greater(A, x)
        /\ \A u \in Due(A, op, x, m) : u \in RecId /\ x <= ValueOf[u]
        /\ A[x][m] \in RecId /\ ValueOf[A[x][m]] = x
    <3>1. A \in [Value -> Seq(RecId)] /\ Single(A) /\ x \in Value /\ m \in 1 .. Len(A[x])
      <4>1. Single(A)
        BY SMTT(40)
      <4> QED  BY ONLY <1>1, <1>3, <1>5, <4>1
    <3> QED  BY ONLY <3>1, DueParts
  <2>3. o = Due(A, op, x, m)
    BY <1>1, <2>1
  <2>4. o \ {rid} = Due(A, q.op, x, m + 1)
    BY <1>4, <2>1, <2>2, <2>3
  <2>5. m = Len(A[x]) => o \ {rid} = IF q.op = "EQUAL" THEN {} ELSE Greater(A, x)
    BY <2>1, <2>2, <2>4, SMTT(40)
  <2> QED  BY <1>4, <2>2, <2>3, <2>4, <2>5
<1>7. Len(A[x]) = Len(s)
  BY DEF KeyIs
<1>8. PICK a : a = Advanced(q)
  OBVIOUS
<1>9. g = Ended(a) /\ Kin(a, q)
  BY <1>8, AdvancedKin
<1>10. IsHandle(a) /\ a.op = q.op /\ a.pageNum = q.pageNum /\ a.index = q.index
  BY <1>9 DEF Kin
<1>11. /\ a.op # "EQUAL" => g = a
       /\ a.op = "EQUAL" /\ a.pageNum = a.nextpageNum /\ a.index = a.actindex => g = a
       /\ a.op = "EQUAL" /\ (a.pageNum # a.nextpageNum \/ a.index # a.actindex) => Over(g)
       /\ Over(a) => Over(g)
       /\ Kin(g, a)
  <2>1. a.op \in Promised
    BY <1>10, SMTT(40)
  <2> QED  BY <1>9, <1>10, <2>1, EndedIs
<1>12. SUFFICES Ready(g, o \ {rid}, A, L, rng, ValueOf[rid])
  BY <1>6 DEF Gives
<1>13. CASE m # Len(s)
  <2>1. a = [q EXCEPT !.nextRecIdPtr = s[m + 1]]
    BY ONLY <1>0, <1>2, <1>3, <1>8, <1>13 DEF Advanced
  <2>2. /\ a.status = q.status /\ a.nextvalue = q.nextvalue /\ a.nextpageNum = q.nextpageNum
        /\ a.nextIndex = q.nextIndex /\ a.actindex = q.actindex /\ a.nextRecIdPtr = s[m + 1]
    BY ONLY <1>0, <2>1 DEF IsHandle
  <2>3. g = a
    BY ONLY <1>0, <1>1, <1>2, <1>10, <1>11, <2>2
  <2>4. a.op = "EQUAL" => a.pageNum = p /\ a.index = a.actindex /\ a.index \in Nat
    BY ONLY <1>0, <1>1, <1>10, <2>2
  <2>5. PICK n \in 1 .. Len(s) : n = m + 1
    BY ONLY <1>0, <1>3, <1>13
  <2>6. PlacedAt(a, page[p], behind[p], p, t, n)
    <3>1. \/ a.nextIndex = t
          \/ a.nextIndex = t + 1 /\ t = Len(page[p].keys) /\ behind[p].value = a.nextvalue
      BY ONLY <1>0, <1>2, <2>2
    <3>2. a.status = "BUSY" /\ a.nextvalue = page[p].keys[t].value /\ a.nextpageNum = p
      BY ONLY <1>0, <1>1, <1>2, <2>2
    <3>3. n \in 1 .. Len(KeyCells(page[p], t)) /\ a.nextRecIdPtr = KeyCells(page[p], t)[n]
      BY ONLY <1>0, <1>1, <2>2, <2>5, SMTT(40)
    <3> QED  BY ONLY <1>0, <1>1, <2>4, <3>1, <3>2, <3>3 DEF PlacedAt
  <2>7. AtKey(a, o \ {rid}, A, L, i, t, n)
    BY ONLY <1>0, <1>1, <1>6, <1>10, <2>5, <2>6, SMTT(40) DEF AtKey
  <2>8. ToldAt(a, page[p], t, n, ValueOf[rid])
    BY ONLY <1>0, <1>1, <1>2, <1>6, <2>2 DEF ToldAt
  <2>9. Ready(g, o \ {rid}, A, L, rng, ValueOf[rid])
    BY ONLY <1>0, <2>3, <2>7, <2>8 DEF Ready
  <2> QED  BY ONLY <2>9
<1>14. CASE m = Len(s) /\ q.nextIndex < Len(page[p].keys)
  <2>1. PICK b : b = NextEntry(q)
    OBVIOUS
  <2>2. a = WithValue(b)
    BY ONLY <1>0, <1>2, <1>3, <1>8, <1>14, <2>1 DEF Advanced, LastKey
  <2>3. q.nextIndex = t /\ t + 1 \in 1 .. Len(page[p].keys)
    BY ONLY <1>0, <1>1, <1>2, <1>14
  <2>4. PICK u \in 1 .. Len(page[p].keys) : u = t + 1
    BY ONLY <1>0, <2>3
  <2>5. /\ IsHandle(b) /\ b.status = q.status /\ b.nextpageNum = q.nextpageNum /\ b.nextIndex = q.nextIndex + 1
        /\ b.actindex = q.actindex + 1 /\ b.nextRecIdPtr = Slot(q.nextpageNum, q.nextIndex + 1).head
    BY ONLY <1>0, <2>1, NextEntryIs DEF Kin
  <2>6. /\ b.status = "BUSY" /\ b.nextpageNum = p /\ b.nextIndex = u
        /\ b.nextRecIdPtr = Slot(p, u).head
    BY ONLY <1>0, <1>2, <2>3, <2>4, <2>5
  <2>7. /\ a.status = b.status /\ a.nextpageNum = b.nextpageNum /\ a.nextIndex = b.nextIndex
        /\ a.actindex = b.actindex /\ a.nextRecIdPtr = b.nextRecIdPtr
        /\ a.nextvalue = Slot(b.nextpageNum, b.nextIndex).value
    BY ONLY <1>0, <2>2, <2>5, WithValueIs
  <2>8. /\ a.status = "BUSY" /\ a.nextpageNum = p /\ a.nextIndex = u
        /\ a.nextRecIdPtr = Slot(p, u).head /\ a.nextvalue = Slot(p, u).value
    BY ONLY <1>0, <2>6, <2>7
  <2>9. a.actindex = q.actindex + 1
    BY ONLY <1>0, <2>5, <2>7
  <2>10. CASE q.op = "EQUAL"
    <3>1. a.index # a.actindex
      BY ONLY <1>0, <1>1, <1>10, <2>9, <2>10
    <3>2. Over(g) /\ o \ {rid} = {}
      BY ONLY <1>0, <1>6, <1>7, <1>10, <1>11, <1>14, <2>10, <3>1
    <3>3. Ready(g, o \ {rid}, A, L, rng, ValueOf[rid])
      BY ONLY <1>0, <3>2 DEF Ready
    <3> QED  BY ONLY <3>3
  <2>11. CASE q.op # "EQUAL"
    <3>1. PICK y, v : KeyIs(A, p, u, y, v)
      <4>1. u \in 1 .. Len(page[L[i]].keys) /\ i \in 1 .. Len(L)
        BY ONLY <1>0, <1>1, <2>4
      <4>2. \E y, v : KeyIs(A, L[i], u, y, v)
        BY ONLY <1>0, <4>1, KeyOf, SMTT(40)
      <4> QED  BY ONLY <1>0, <4>2
    <3>2. /\ y = page[p].keys[u].value /\ v = KeyCells(page[p], u) /\ page[p].keys[u].head = v[1]
          /\ 1 \in 1 .. Len(v) /\ y \in Value
      BY ONLY <1>0, <3>1 DEF KeyIs
    <3>3. Slot(p, u) = page[p].keys[u]
      BY ONLY <1>0, <1>1, <2>4, SlotIs
    <3>4. PlacedAt(a, page[p], behind[p], p, u, 1)
      BY ONLY <1>0, <1>10, <2>4, <2>8, <2>11, <3>2, <3>3 DEF PlacedAt
    <3>5. o \ {rid} = Greater(A, x)
      BY ONLY <1>0, <1>6, <1>7, <1>14, <2>11
    <3>6. Greater(A, x) = Upward(A, y)
      <4>1. /\ i \in 1 .. Len(L) /\ t \in 1 .. Len(page[L[i]].keys) /\ u \in 1 .. Len(page[L[i]].keys)
            /\ x = page[L[i]].keys[t].value /\ y = page[L[i]].keys[u].value
        BY ONLY <1>0, <1>1, <3>2
      <4>2. Rows(A, L, rng)
        OBVIOUS
      <4>3. u = t + 1
        BY ONLY <1>0, <2>4
      <4> QED  BY ONLY <4>1, <4>2, <4>3, FromNextKey, SMTT(40)
    <3>7. Upward(A, y) = Due(A, a.op, y, 1)
      BY ONLY <1>0, <1>5, <1>10, <2>11, <3>2, RestAndGreater, SMTT(40) DEF Due
    <3>8. AtKey(a, o \ {rid}, A, L, i, u, 1)
      BY ONLY <1>0, <1>1, <3>2, <3>4, <3>5, <3>6, <3>7 DEF AtKey
    <3>9. ToldAt(a, page[p], u, 1, ValueOf[rid])
      BY ONLY <1>0, <2>8 DEF ToldAt
    <3>10. g = a
      BY ONLY <1>0, <1>10, <1>11, <2>11
    <3>11. Ready(g, o \ {rid}, A, L, rng, ValueOf[rid])
      BY ONLY <1>0, <3>8, <3>9, <3>10 DEF Ready
    <3> QED  BY ONLY <3>11
  <2> QED  BY ONLY <2>10, <2>11
<1>15. CASE m = Len(s) /\ ~(q.nextIndex < Len(page[p].keys)) /\ page[p].nextLeafPage # AM_NULL_PAGE
  <2>1. PICK n : n = page[p].nextLeafPage
    OBVIOUS
  <2>2. PICK b : b = AtEntry(q, n, 1)
    OBVIOUS
  <2>3. a = WithValue(b)
    BY ONLY <1>0, <1>2, <1>3, <1>8, <1>15, <2>1, <2>2 DEF Advanced, LastKey, NextLeaf
  <2>4. i # Len(L)
    BY ONLY <1>0, <1>1, <1>15, SMTT(40) DEF Rows
  <2>5. n = L[i + 1] /\ i + 1 \in 1 .. Len(L)
    <3>1. i + 1 \in 1 .. Len(L)
      BY ONLY <1>0, <1>1, <1>5, <2>4
    <3> QED  BY ONLY <1>0, <1>1, <2>1, <2>4, <3>1 DEF Rows
  <2>6. PICK j \in 1 .. Len(L) : j = i + 1
    BY ONLY <1>0, <2>5, SMTT(40)
  <2>7. n = L[j] /\ n # p
    <3>1. i < j
      BY ONLY <1>0, <1>1, <1>5, <2>6
    <3> QED  BY ONLY <1>0, <1>1, <2>5, <2>6, <3>1 DEF Rows
  <2>8. t = Len(page[p].keys)
    BY ONLY <1>0, <1>1, <1>2, <1>15
  <2>9. /\ IsHandle(b) /\ b.status = q.status /\ b.nextpageNum = n /\ b.nextIndex = 1
        /\ b.nextRecIdPtr = Slot(n, 1).head
    BY ONLY <1>0, <2>2, AtEntryIs DEF Kin
  <2>10. /\ a.status = b.status /\ a.nextpageNum = b.nextpageNum /\ a.nextIndex = b.nextIndex
         /\ a.nextRecIdPtr = b.nextRecIdPtr
         /\ a.nextvalue = Slot(b.nextpageNum, b.nextIndex).value
    BY ONLY <1>0, <2>3, <2>9, WithValueIs
  <2>11. /\ a.status = "BUSY" /\ a.nextpageNum = n /\ a.nextIndex = 1
         /\ a.nextRecIdPtr = Slot(n, 1).head /\ a.nextvalue = Slot(n, 1).value
    BY ONLY <1>0, <1>2, <2>9, <2>10
  <2>12. CASE q.op = "EQUAL"
    <3>1. a.pageNum # a.nextpageNum
      BY ONLY <1>0, <1>1, <1>10, <2>7, <2>11, <2>12
    <3>2. Over(g) /\ o \ {rid} = {}
      BY ONLY <1>0, <1>6, <1>7, <1>10, <1>11, <1>15, <2>12, <3>1
    <3>3. Ready(g, o \ {rid}, A, L, rng, ValueOf[rid])
      BY ONLY <1>0, <3>2 DEF Ready
    <3> QED  BY ONLY <3>3
  <2>13. CASE q.op # "EQUAL"
    <3>1. o \ {rid} = Onward(A, L, rng, j)
      <4>1. o \ {rid} = Greater(A, x)
        BY ONLY <1>0, <1>6, <1>7, <1>15, <2>13, SMTT(40)
      <4>2. /\ t \in 1 .. Len(page[L[i]].keys) /\ t = Len(page[L[i]].keys)
            /\ x = page[L[i]].keys[t].value
        BY ONLY <1>0, <1>1, <2>8, SMTT(40)
      <4>3. Greater(A, x) = Onward(A, L, rng, i + 1)
        BY ONLY <1>0, <1>1, <4>2, FromNextLeaf
      <4> QED  BY ONLY <1>0, <2>6, <4>1, <4>3
    <3>2. g = a /\ a.op # "EQUAL"
      BY ONLY <1>0, <1>10, <1>11, <2>13
    <3>3. GoodLeaf(page[n]) /\ Len(page[n].keys) \in Nat
      BY ONLY <1>0, <2>7 DEF Rows
    <3>4. CASE Len(page[n].keys) = 0
      <4>1. AtEmpty(a, o \ {rid}, A, L, rng, j)
        BY ONLY <1>0, <2>7, <2>11, <3>1, <3>2, <3>4 DEF AtEmpty
      <4> QED  BY ONLY <1>0, <3>2, <4>1 DEF Ready
    <3>5. CASE Len(page[n].keys) # 0
      <4>1. 1 \in 1 .. Len(page[n].keys)
        BY ONLY <1>0, <3>3, <3>5
      <4>2. Slot(n, 1) = page[n].keys[1]
        BY ONLY <1>0, <3>3, <4>1, SlotIs
      <4>3. AtKey(a, o \ {rid}, A, L, j, 1, 1)
        <5>1. /\ 1 \in 1 .. Len(page[L[j]].keys) /\ a.nextpageNum = L[j] /\ a.nextIndex = 1
              /\ a.nextRecIdPtr = Slot(L[j], 1).head /\ a.op # "EQUAL"
              /\ a.status = "BUSY" /\ a.nextvalue = page[L[j]].keys[1].value
          BY ONLY <1>0, <2>7, <2>11, <3>2, <4>1, <4>2
        <5>2. AtKey(a, Onward(A, L, rng, j), A, L, j, 1, 1)
          BY ONLY <1>0, <5>1, StepFrom
        <5> QED  BY ONLY <1>0, <3>1, <5>2
      <4>4. ToldAt(a, page[n], 1, 1, ValueOf[rid])
        BY ONLY <1>0, <2>11 DEF ToldAt
      <4>5. Ready(g, o \ {rid}, A, L, rng, ValueOf[rid])
        BY ONLY <1>0, <2>7, <3>2, <4>3, <4>4 DEF Ready
      <4> QED  BY ONLY <4>5
    <3> QED  BY ONLY <3>4, <3>5
  <2> QED  BY ONLY <2>12, <2>13
<1>16. CASE m = Len(s) /\ ~(q.nextIndex < Len(page[p].keys)) /\ page[p].nextLeafPage = AM_NULL_PAGE
  <2>1. a = [q EXCEPT !.nextRecIdPtr = AM_NULL, !.status = "OVER"]
    BY ONLY <1>0, <1>2, <1>3, <1>8, <1>16 DEF Advanced, LastKey, NextLeaf
  <2>2. a.status = "OVER"
    BY ONLY <1>0, <2>1 DEF IsHandle
  <2>3. Over(g)
    BY ONLY <1>0, <1>11, <2>2 DEF Over
  <2>4. o \ {rid} = {}
    <3>1. CASE q.op = "EQUAL"
      BY ONLY <1>0, <1>6, <1>7, <1>16, <3>1
    <3>2. CASE q.op # "EQUAL"
      <4>1. i = Len(L)
        <5>1. i # Len(L) => i + 1 \in 1 .. Len(L) /\ page[p].nextLeafPage = L[i + 1]
          <6>1. i # Len(L) => i + 1 \in 1 .. Len(L)
            BY ONLY <1>0, <1>1, <1>5, SMTT(40)
          <6>2. page[L[i]].nextLeafPage = IF i = Len(L) THEN AM_NULL_PAGE ELSE L[i + 1]
            BY ONLY <1>0, <1>1 DEF Rows
          <6> QED  BY ONLY <1>0, <6>1, <6>2
        <5>2. \A k \in 1 .. Len(L) : L[k] # AM_NULL_PAGE
          <6>1. AM_NULL_PAGE \notin PageNum
            BY DEF PageNum, AM_NULL_PAGE
          <6> QED  BY ONLY <1>0, <6>1 DEF Rows
        <5> QED  BY ONLY <1>0, <1>16, <5>1, <5>2
      <4>2. t = Len(page[p].keys)
        BY ONLY <1>0, <1>1, <1>2, <1>16
      <4>3. o \ {rid} = Onward(A, L, rng, i + 1)
        <5>1. o \ {rid} = Greater(A, x)
          BY ONLY <1>0, <1>6, <1>7, <1>16, <3>2
        <5>2. /\ t \in 1 .. Len(page[L[i]].keys) /\ t = Len(page[L[i]].keys)
              /\ x = page[L[i]].keys[t].value
          BY ONLY <1>0, <1>1, <4>2, SMTT(40)
        <5>3. Greater(A, x) = Onward(A, L, rng, i + 1)
          BY ONLY <1>0, <1>1, <5>2, FromNextLeaf
        <5> QED  BY ONLY <1>0, <5>1, <5>3
      <4> QED  BY ONLY <1>0, <4>1, <4>3, FromEmptyLeaf
    <3> QED  BY ONLY <1>0, <3>1, <3>2
  <2> QED  BY ONLY <1>0, <2>3, <2>4 DEF Ready
<1> QED  BY ONLY <1>0, <1>13, <1>14, <1>15, <1>16

-----------------------------------------------------------------------------
(* AM_FindNextEntry. *)

(* The entry of s is as it was, but for the place. *)
Stands(s) ==
    /\ DOMAIN scan' = DOMAIN scan /\ Kin(scan'[s], scan[s])
    /\ \A u \in Scan : u # s => scan'[u] = scan[u]

(* The records that s owes are as they were, but for those. *)
Owes(s, o) == owed' = [owed EXCEPT ![s] = o]

(* A handle that is put in the table changes no other. *)
LEMMA SetTo ==
  ASSUME NEW s \in Scan, DOMAIN scan = Scan, NEW g, scan' = [scan EXCEPT ![s] = g], Kin(g, scan[s])
  PROVE  Stands(s) /\ scan'[s] = g
<1>1. scan'[s] = g /\ DOMAIN scan' = DOMAIN scan
  OBVIOUS
<1>2. \A u \in Scan : u # s => scan'[u] = scan[u]
  OBVIOUS
<1> QED  BY <1>1, <1>2 DEF Stands

(* AM_FindNextEntry changes one entry of the table, and there only the     *)
(* place.                                                                  *)
LEMMA FindNextStands ==
  ASSUME NEW s \in Scan, DOMAIN scan = Scan, IsHandle(scan[s]), AM_FindNextEntry(s)
  PROVE  Stands(s)
<1>1. PICK h : h = scan[s]
  OBVIOUS
<1>2. Kin(h, scan[s]) /\ IsHandle(h)
  BY <1>1 DEF Kin
<1>3. ASSUME NEW g, Kin(g, h), scan' = [scan EXCEPT ![s] = g] PROVE Stands(s)
  BY <1>1, <1>3, SetTo
<1>4. ASSUME scan' = scan PROVE Stands(s)
  BY <1>1, <1>2, <1>4 DEF Stands
<1>5. ASSUME NEW g, Kin(g, h), EndOfScan(s, g) PROVE Stands(s)
  BY <1>3, <1>5 DEF EndOfScan
<1>6. ASSUME NEW g, Kin(g, h), NEW later, NextFails(s, g, later) PROVE Stands(s)
  BY <1>3, <1>6 DEF NextFails
<1>7. ASSUME NextIsScrap(s) PROVE Stands(s)
  BY <1>4, <1>7 DEF NextIsScrap
<1>8. ASSUME NEW g, Kin(g, h) PROVE Kin([g EXCEPT !.status = "OVER"], h)
  <2>1. PICK f : f = [g EXCEPT !.status = "OVER"]
    OBVIOUS
  <2>2. IsHandle(g)
    BY <1>8 DEF Kin
  <2>3. IsHandle(f) /\ f.status = "OVER" /\ f.op = g.op /\ f.pageNum = g.pageNum /\ f.index = g.index
    BY <2>1, <2>2, StatusIs
  <2>4. Kin(f, h)
    BY <1>8, <2>3 DEF Kin
  <2> QED  BY <2>1, <2>4
<1>9. ASSUME NEW at, Kin(at, h), NextFound(s, at) PROVE Stands(s)
  <2>1. PICK q : q = Settled(at)
    OBVIOUS
  <2>2. Kin(q, h) /\ IsHandle(q)
    <3>1. IsHandle(at)
      BY <1>9 DEF Kin
    <3>2. Kin(q, at)
      BY <2>1, <3>1, SettledKin
    <3>3. Kin(q, h)
      BY <1>9, <3>2, KinTrans
    <3> QED  BY <3>2, <3>3 DEF Kin
  <2>3. PICK g : g = Ended(Advanced(q))
    OBVIOUS
  <2>4. Kin(g, h)
    <3>1. PICK a : a = Advanced(q)
      OBVIOUS
    <3>2. Kin(a, q)
      BY <2>2, <3>1, AdvancedKin
    <3>3. IsHandle(a)
      BY <3>2 DEF Kin
    <3>4. Kin(g, a)
      BY <2>3, <3>1, <3>3, EndedKin
    <3>5. Kin(a, h)
      BY <2>2, <3>2, KinTrans
    <3> QED  BY <3>4, <3>5, KinTrans
  <2>5. \/ NextIsScrap(s)
        \/ NextFails(s, q, {Advanced(q).nextpageNum})
        \/ NextTells(s, q)
    BY <1>9, <2>1 DEF NextFound
  <2>6. ASSUME NextTells(s, q) PROVE Stands(s)
    <3>1. scan' = [scan EXCEPT ![s] = g]
      BY <2>3, <2>6 DEF NextTells
    <3> QED  BY <1>3, <2>4, <3>1
  <2> QED  BY <1>6, <1>7, <2>2, <2>5, <2>6
<1>10. CASE Over(h) /\ EndOfScan(s, [h EXCEPT !.status = "OVER"])
  BY <1>1, <1>2, <1>5, <1>8, <1>10
<1>11. CASE NextIsScrap(s)
  BY <1>7, <1>11
<1>12. CASE NextStarves(h.nextpageNum)
  BY <1>4, <1>12 DEF NextStarves
<1>13. CASE NextFrom(s, h)
  <2>1. PICK r : r = Reached(h)
    OBVIOUS
  <2>2. Kin(r, h) /\ IsHandle(r)
    BY <1>2, <2>1, ReachedKin DEF Kin
  <2>3. \/ NextFails(s, r, Range(Tail(Passed(h))))
        \/ EndOfScan(s, [r EXCEPT !.status = "OVER"])
        \/ NextAt(s, r)
    BY <1>13, <2>1 DEF NextFrom
  <2>4. CASE NextAt(s, r)
    <3>1. PICK f : f = LeftOut(r)
      OBVIOUS
    <3>2. Kin(f, h)
      <4>1. Kin(f, r)
        BY <2>2, <3>1, LeftOutKin
      <4> QED  BY <2>2, <4>1, KinTrans
    <3>3. \/ NextFound(s, r) \/ EndOfScan(s, r)
          \/ NextFails(s, r, {f.nextpageNum}) \/ NextFound(s, f)
      BY <2>4, <3>1 DEF NextAt
    <3> QED  BY <1>5, <1>6, <1>9, <2>2, <3>2, <3>3
  <2> QED  BY <1>5, <1>6, <1>8, <2>2, <2>3, <2>4
<1> QED  BY <1>1, <1>10, <1>11, <1>12, <1>13 DEF AM_FindNextEntry

(* What the client gets from a scan that the code promises. *)
Answers(s, A, L, rng) ==
    \/ ret' = AME_EOF /\ owed[s] = {} /\ owed' = owed /\ Over(scan'[s])
    \/ ret' = AME_PF /\ owed' = owed /\ scan' = scan
    \/ ret' = AME_PF /\ Owes(s, Lost)
    \/ \E r \in RecId :
         /\ ret' = r /\ r \in owed[s] /\ Owes(s, owed[s] \ {r})
         /\ \A u \in owed[s] : u \in RecId /\ ValueOf[r] <= ValueOf[u]
         /\ Ready(scan'[s], owed[s] \ {r}, A, L, rng, ValueOf[r])

(* A scan at a key gets the answers that are due. *)
LEMMA FoundAnswers ==
  ASSUME NEW A, NEW L, NEW rng, Rows(A, L, rng), Single(A), NEW s \in Scan, DOMAIN scan = Scan,
         NEW r, IsHandle(r), r.op \in Promised, NEW i, NEW t, NEW m, AtKey(r, owed[s], A, L, i, t, m),
         NextFound(s, r)
  PROVE  Answers(s, A, L, rng)
<1>1. i \in 1 .. Len(L) /\ t \in 1 .. Len(page[L[i]].keys)
  BY DEF AtKey, PlacedAt
<1>2. PICK x, c : KeyIs(A, L[i], t, x, c)
  BY <1>1, KeyOf
<1>3. PICK q : q = Settled(r)
  OBVIOUS
<1>4. PICK o : o = owed[s]
  OBVIOUS
<1>5. AtKey(r, o, A, L, i, t, m)
  BY <1>4
<1>6. /\ ~Astray(r) /\ ~Astray(q) /\ AtKey(q, o, A, L, i, t, m)
      /\ ReadKey(q, r, L[i], t, x, c[m], behind[L[i]])
  BY <1>2, <1>3, <1>5, SettledIs
<1>7. IsHandle(q) /\ q.op = r.op /\ q.nextpageNum = L[i]
  BY <1>6 DEF ReadKey, Kin
<1>8. NextFails(s, q, {Advanced(q).nextpageNum}) \/ NextTells(s, q)
  BY <1>3, <1>6 DEF NextFound
<1>9. CASE NextFails(s, q, {Advanced(q).nextpageNum})
  BY <1>9 DEF NextFails, Answers, Owes, Return
<1>10. CASE NextTells(s, q)
  <2>1. PICK p : p = L[i]
    OBVIOUS
  <2>2. PICK g : g = Ended(Advanced(q))
    OBVIOUS
  <2>3. PICK rid : rid = page[p].recId[q.nextRecIdPtr]
    OBVIOUS
  <2>4. /\ rid \in RecId /\ rid \in o /\ \A u \in o : u \in RecId /\ ValueOf[rid] <= ValueOf[u]
        /\ Ready(g, o \ {rid}, A, L, rng, ValueOf[rid])
    <3>1. q.op \in Promised
      BY <1>7
    <3>2. ReadKey(q, r, L[i], t, x, c[m], behind[L[i]]) /\ AtKey(q, o, A, L, i, t, m)
      BY <1>6
    <3>3. Reads(q, o, A, L, rng, i, t, m, x, c, r)
      BY <1>2, <1>7, <3>1, <3>2 DEF Reads
    <3>4. Gives(g, o, A, L, rng, rid)
      BY <2>1, <2>2, <2>3, <3>3, AdvancedServes
    <3> QED  BY <3>4 DEF Gives
  <2>5. /\ scan' = [scan EXCEPT ![s] = g] /\ owed' = [owed EXCEPT ![s] = @ \ {rid}] /\ ret' = rid
    BY <1>7, <1>10, <2>1, <2>2, <2>3 DEF NextTells, Return
  <2>6. scan'[s] = g
    BY <2>5
  <2>7. Owes(s, owed[s] \ {rid})
    BY <2>5 DEF Owes
  <2> QED  BY <1>4, <2>4, <2>5, <2>6, <2>7 DEF Answers
<1> QED  BY <1>8, <1>9, <1>10

(* A scan that owes nothing is told that it has ended. *)
LEMMA EndAnswers ==
  ASSUME NEW A, NEW L, NEW rng, NEW s \in Scan, DOMAIN scan = Scan, owed[s] = {},
         NEW h, IsHandle(h), EndOfScan(s, [h EXCEPT !.status = "OVER"])
  PROVE  Answers(s, A, L, rng)
<1>1. PICK g : g = [h EXCEPT !.status = "OVER"]
  OBVIOUS
<1>2. Over(g)
  BY <1>1, StatusIs DEF Over
<1>3. scan'[s] = g
  BY <1>1 DEF EndOfScan
<1> QED  BY <1>2, <1>3 DEF EndOfScan, Answers, Return

(* Wherever a scan is, it gets them. *)
LEMMA FindNextAnswers ==
  ASSUME Nodes(page), NEW np \in 1 .. MaxPages, NEW L, Linking(page, np, L), NEW A, NEW rng,
         Rows(A, L, rng), Single(A), NEW s \in Scan, DOMAIN scan = Scan,
         IsHandle(scan[s]), scan[s].op \in Promised, Serving(scan[s], owed[s], A, L, rng),
         AM_FindNextEntry(s)
  PROVE  Answers(s, A, L, rng)
<1>1. PICK h : h = scan[s]
  OBVIOUS
<1>2. PICK o : o = owed[s]
  OBVIOUS
<1>3. IsHandle(h) /\ h.op \in Promised /\ h.op # "NOT_EQUAL" /\ ~IsUpTo(h)
  BY <1>1 DEF Promised, IsUpTo
<1>4. \/ Over(h) /\ o = {}
      \/ \E i : AtEmpty(h, o, A, L, rng, i)
      \/ \E i, t, m : AtKey(h, o, A, L, i, t, m)
  BY <1>1, <1>2 DEF Serving
<1>5. ASSUME NEW i, AtEmpty(h, o, A, L, rng, i) PROVE ~Over(h) /\ h.nextpageNum # Unplaced
  <2>1. /\ i \in 1 .. Len(L) /\ h.nextpageNum = L[i] /\ h.status \in {"FIRST", "BUSY"}
    BY <1>5 DEF AtEmpty
  <2>2. L[i] \in PageNum
    BY <2>1 DEF Rows
  <2> QED  BY <2>1, <2>2 DEF Over, PageNum, Unplaced, AM_NULL_PAGE
<1>6. ASSUME NEW i, NEW t, NEW m, AtKey(h, o, A, L, i, t, m) PROVE ~Over(h) /\ h.nextpageNum # Unplaced
  <2>1. /\ i \in 1 .. Len(L) /\ h.nextpageNum = L[i] /\ h.status \in {"FIRST", "BUSY"}
    BY <1>6 DEF AtKey, PlacedAt
  <2>2. L[i] \in PageNum
    BY <2>1 DEF Rows
  <2> QED  BY <2>1, <2>2 DEF Over, PageNum, Unplaced, AM_NULL_PAGE
<1>7. CASE Over(h)
  <2>1. o = {}
    BY <1>4, <1>5, <1>6, <1>7
  <2>2. EndOfScan(s, [h EXCEPT !.status = "OVER"])
    BY <1>1, <1>7 DEF AM_FindNextEntry
  <2> QED  BY <1>2, <1>3, <2>1, <2>2, EndAnswers
<1>8. CASE ~Over(h)
  <2>1. NextStarves(h.nextpageNum) \/ NextFrom(s, h)
    BY <1>1, <1>4, <1>5, <1>6, <1>8 DEF AM_FindNextEntry
  <2>2. CASE NextStarves(h.nextpageNum)
    BY <2>2 DEF NextStarves, Answers, Return
  <2>3. CASE NextFrom(s, h)
    <3>1. PICK r : r = Reached(h)
      OBVIOUS
    <3>2. Kin(r, h)
      BY <1>3, <3>1, ReachedKin
    <3>3. IsHandle(r) /\ r.op \in Promised
      BY <1>3, <3>2 DEF Kin
    <3>4. ~Overshot(r) /\ ~IsLeftOut(r)
      BY <1>3, <3>2 DEF Kin, Overshot, IsUpTo, IsLeftOut
    <3>5. \/ page[r.nextpageNum].keys = << >> /\ o = {}
          \/ page[r.nextpageNum].keys # << >> /\ \E j, t, m : AtKey(r, o, A, L, j, t, m)
      <4>1. ASSUME NEW j, NEW t, NEW m, AtKey(r, o, A, L, j, t, m) PROVE page[r.nextpageNum].keys # << >>
        <5>1. r.nextpageNum = L[j] /\ t \in 1 .. Len(page[L[j]].keys)
          BY <4>1 DEF AtKey, PlacedAt
        <5> QED  BY <5>1
      <4>2. ASSUME NEW i, AtEmpty(h, o, A, L, rng, i)
            PROVE  \/ page[r.nextpageNum].keys = << >> /\ o = {}
                   \/ \E j, t, m : AtKey(r, o, A, L, j, t, m)
        BY <1>3, <3>1, <4>2, ReachedAtEmpty
      <4>3. ASSUME NEW i, NEW t, NEW m, AtKey(h, o, A, L, i, t, m) PROVE AtKey(r, o, A, L, i, t, m)
        <5>1. r = h
          BY <3>1, <4>3, ReachedAtKey
        <5> QED  BY <4>3, <5>1
      <4> QED  BY <1>4, <1>8, <4>1, <4>2, <4>3
    <3>6. \/ NextFails(s, r, Range(Tail(Passed(h))))
          \/ page[r.nextpageNum].keys = << >> /\ EndOfScan(s, [r EXCEPT !.status = "OVER"])
          \/ page[r.nextpageNum].keys # << >> /\ NextFound(s, r)
      BY <2>3, <3>1, <3>4 DEF NextFrom, NextAt
    <3>7. CASE NextFails(s, r, Range(Tail(Passed(h))))
      BY <3>7 DEF NextFails, Answers, Owes, Return
    <3>8. CASE page[r.nextpageNum].keys = << >> /\ EndOfScan(s, [r EXCEPT !.status = "OVER"])
      BY <1>2, <3>3, <3>5, <3>8, EndAnswers
    <3>9. CASE page[r.nextpageNum].keys # << >> /\ NextFound(s, r)
      <4>1. PICK j, t, m : AtKey(r, o, A, L, j, t, m)
        BY <3>5, <3>9
      <4>2. AtKey(r, owed[s], A, L, j, t, m)
        BY <1>2, <4>1
      <4> QED  BY <3>3, <3>9, <4>2, FoundAnswers
    <3> QED  BY <3>6, <3>7, <3>8, <3>9
  <2> QED  BY <2>1, <2>2, <2>3
<1> QED  BY <1>7, <1>8

(* AM_FindNextEntry is called of scans that clients hold; it changes at    *)
(* most what that scan owes.                                               *)
LEMMA FindNextOwes ==
  ASSUME NEW s \in Scan, AM_FindNextEntry(s)
  PROVE  /\ owed[s] # NoScan /\ owed[s] # Lost /\ Idle
         /\ owed' = owed \/ \E o : Owes(s, o) /\ (o = Lost \/ o \subseteq owed[s])
         /\ call' = NoCall /\ UNCHANGED <<file, pinned, others, stack, behind, indexed>>
<1>1. ASSUME NEW g, EndOfScan(s, g) PROVE owed' = owed /\ call' = NoCall
  BY <1>1 DEF EndOfScan, Return
<1>2. ASSUME NEW g, NEW later, NextFails(s, g, later) PROVE Owes(s, Lost) /\ call' = NoCall
  BY <1>2 DEF NextFails, Owes, Return
<1>3. ASSUME NextIsScrap(s) PROVE Owes(s, Lost) /\ call' = NoCall
  BY <1>3 DEF NextIsScrap, Owes, Return
<1>4. ASSUME NEW q, NextTells(s, q) PROVE (\E o : Owes(s, o) /\ o \subseteq owed[s]) /\ call' = NoCall
  <2>1. PICK rid : rid = page[q.nextpageNum].recId[q.nextRecIdPtr]
    OBVIOUS
  <2>2. owed' = [owed EXCEPT ![s] = @ \ {rid}] /\ call' = NoCall
    BY <1>4, <2>1 DEF NextTells, Return
  <2>3. Owes(s, owed[s] \ {rid})
    BY <2>2 DEF Owes
  <2>4. owed[s] \ {rid} \subseteq owed[s]
    OBVIOUS
  <2> QED  BY <2>2, <2>3, <2>4
<1>5. ASSUME NEW at, NextFound(s, at)
      PROVE  (\E o : Owes(s, o) /\ (o = Lost \/ o \subseteq owed[s])) /\ call' = NoCall
  <2>1. \/ NextIsScrap(s) \/ NextFails(s, Settled(at), {Advanced(Settled(at)).nextpageNum})
        \/ NextTells(s, Settled(at))
    BY <1>5 DEF NextFound
  <2> QED  BY <1>2, <1>3, <1>4, <2>1
<1>6. ASSUME NEW p, NextStarves(p) PROVE owed' = owed /\ call' = NoCall
  BY <1>6 DEF NextStarves, Return
<1>7. ASSUME NEW r, NextAt(s, r)
      PROVE  (owed' = owed \/ \E o : Owes(s, o) /\ (o = Lost \/ o \subseteq owed[s])) /\ call' = NoCall
  <2>1. \/ NextFound(s, r) \/ EndOfScan(s, r) \/ NextFails(s, r, {LeftOut(r).nextpageNum})
        \/ NextFound(s, LeftOut(r))
    BY <1>7 DEF NextAt
  <2> QED  BY <1>1, <1>2, <1>5, <2>1
<1>8. ASSUME NEW h, NextFrom(s, h)
      PROVE  (owed' = owed \/ \E o : Owes(s, o) /\ (o = Lost \/ o \subseteq owed[s])) /\ call' = NoCall
  <2>1. PICK r : r = Reached(h)
    OBVIOUS
  <2>2. \/ NextFails(s, r, Range(Tail(Passed(h)))) \/ EndOfScan(s, [r EXCEPT !.status = "OVER"])
        \/ NextAt(s, r)
    BY <1>8, <2>1 DEF NextFrom
  <2> QED  BY <1>1, <1>2, <1>7, <2>2
<1>9. (owed' = owed \/ \E o : Owes(s, o) /\ (o = Lost \/ o \subseteq owed[s])) /\ call' = NoCall
  <2>1. PICK h : h = scan[s]
    OBVIOUS
  <2>2. \/ EndOfScan(s, [h EXCEPT !.status = "OVER"]) \/ NextIsScrap(s)
        \/ NextStarves(h.nextpageNum) \/ NextFrom(s, h)
    BY <2>1 DEF AM_FindNextEntry
  <2> QED  BY <1>1, <1>3, <1>6, <1>8, <2>2
<1> QED  BY <1>9 DEF AM_FindNextEntry

-----------------------------------------------------------------------------
(* The invariant. *)

(* OrderIs(A), with the order of the leaves and what belongs to each. *)
Arranged(A, L, rng) ==
    /\ Order(page, Size(numpages), L, rng, A)
    /\ 0 \notin pinned => Routes(Told(page, stack, call), Size(numpages), rng)
    /\ numpages = 0 => page[0] = EmptyLeaf
    /\ call # NoCall => 0 \notin pinned /\ StackLeads(page, stack)

LEMMA ArrangedIs ==
  ASSUME NEW A
  PROVE  OrderIs(A) <=> \E L, rng : Arranged(A, L, rng)
BY DEF OrderIs, Ordered, Arranged

(* The scans of which something is promised; one of them may have told the *)
(* client just now the record that it may delete.                          *)
Serves  == {s \in Held : owed[s] # Lost /\ scan[s].op \in Promised}
Just(s) == ret \in RecId /\ Held = {s}

Served(s, A, L, rng) ==
    /\ Serving(scan[s], owed[s], A, L, rng)
    /\ Just(s) => /\ ret \notin owed[s] /\ ret \in indexed
                  /\ Ready(scan[s], owed[s], A, L, rng, ValueOf[ret])

Followed(A, L, rng) ==
    /\ Arranged(A, L, rng) /\ Single(A)
    /\ \A s \in Serves : Served(s, A, L, rng)

TableIs ==
    /\ DOMAIN scan = Scan /\ behind = [p \in PageNum |-> behind[p]]
    /\ owed \in [Scan -> {NoScan, Lost} \cup SUBSET RecId]
    /\ \A s \in Scan : IsHandle(scan[s]) /\ (scan[s].status = "FREE" => owed[s] = NoScan)

ScanInv ==
    /\ AMInv /\ NoFile /\ TableIs
    /\ Held # {} => Idle /\ status = "open"
    /\ indexed = Indexed
    /\ \E A, L, rng : Followed(A, L, rng)

(* There is at least one page to speak of. *)
LEMMA SizeIs ==
  ASSUME AMInv
  PROVE  Size(numpages) \in 1 .. MaxPages /\ Nodes(page)
<1>1. numpages \in 0 .. MaxPages /\ Nodes(page)
  BY DEF AMInv, Tree
<1>2. MaxPages \in Nat /\ MaxPages > 0
  BY Constants
<1>3. Size(numpages) \in 1 .. MaxPages
  BY <1>1, <1>2 DEF Size
<1> QED  BY <1>1, <1>3

(* So the leaves are in rows, and linked in their order. *)
LEMMA ArrangedRows ==
  ASSUME AMInv, NEW A, NEW L, NEW rng, Arranged(A, L, rng)
  PROVE  Rows(A, L, rng) /\ Linking(page, Size(numpages), L)
<1>1. Size(numpages) \in 1 .. MaxPages /\ Nodes(page)
  BY SizeIs
<1>2. Order(page, Size(numpages), L, rng, A)
  BY DEF Arranged
<1>3. Rows(A, L, rng)
  BY <1>1, <1>2, OrderRows
<1> QED  BY <1>2, <1>3 DEF Order

(* The records in the leaves are those that A knows. *)
LEMMA IndexedIs ==
  ASSUME AMInv, NEW A, NEW L, NEW rng, Arranged(A, L, rng)
  PROVE  Indexed = RecordsFrom(A, Value)
<1>1. Rows(A, L, rng) /\ Linking(page, Size(numpages), L)
  BY ArrangedRows
<1>2. Size(numpages) \in 1 .. MaxPages /\ Nodes(page)
  BY SizeIs
<1>3. Chain = L
  BY <1>1, <1>2, ChainIs
<1>4. \A i \in 1 .. Len(L) : DOMAIN page[L[i]].keys = 1 .. Len(page[L[i]].keys)
  <2>1. \A i \in 1 .. Len(L) : GoodLeaf(page[L[i]])
    BY <1>1 DEF Rows
  <2> QED  BY <2>1, LeafParts, SMTT(40) DEF GoodLeaf
<1>5. Range(L) = {L[i] : i \in 1 .. Len(L)}
  <2>1. L \in Seq(PageNum)
    BY <1>1 DEF Linking
  <2>2. DOMAIN L = 1 .. Len(L)
    BY <2>1
  <2> QED  BY <2>2 DEF Range
<1>6. ASSUME NEW r \in Indexed PROVE r \in RecordsFrom(A, Value)
  <2>1. PICK i \in 1 .. Len(L) : r \in RecordsOf(L[i])
    BY <1>3, <1>5 DEF Indexed
  <2>2. PICK t \in 1 .. Len(page[L[i]].keys) : r \in Range(RecIds(page[L[i]], t))
    BY <1>4, <2>1, SMTT(40) DEF RecordsOf
  <2>3. page[L[i]].keys[t].value \in Value /\ A[page[L[i]].keys[t].value] = RecIds(page[L[i]], t)
    BY <1>1 DEF Rows
  <2> QED  BY <2>2, <2>3 DEF RecordsFrom
<1>7. ASSUME NEW r \in RecordsFrom(A, Value) PROVE r \in Indexed
  <2>1. PICK v \in Value : r \in Range(A[v])
    BY DEF RecordsFrom
  <2>2. A[v] # << >>
    <3>1. A[v] \in Seq(RecId)
      BY <1>1 DEF Rows
    <3> QED  BY <2>1, <3>1 DEF Range
  <2>3. PICK j \in 1 .. Len(L) : \E t \in 1 .. Len(page[L[j]].keys) : page[L[j]].keys[t].value = v
    BY <1>1, <2>2, IsKey
  <2>4. PICK t \in 1 .. Len(page[L[j]].keys) : page[L[j]].keys[t].value = v
    BY <2>3
  <2>5. A[v] = RecIds(page[L[j]], t)
    BY <1>1, <2>4 DEF Rows
  <2>6. r \in RecordsOf(L[j])
    BY <1>4, <2>1, <2>5 DEF RecordsOf
  <2> QED  BY <1>3, <1>5, <2>6 DEF Indexed
<1> QED  BY <1>6, <1>7

-----------------------------------------------------------------------------
(* Steps that leave the leaves alone. *)

Quiet ==
    /\ Idle /\ call' = NoCall /\ status = "open"
    /\ UNCHANGED <<status, numpages, page, behind, indexed>>
    /\ pinned \subseteq pinned' /\ pinned' \subseteq Pages
    /\ stack' \in Seq(StackEntry)

(* The records in the leaves of pg; Indexed, where page is a parameter.    *)
IndexedIn(pg) ==
    LET chain[x \in (AM_NULL_PAGE .. MaxPages - 1) \X (0 .. MaxPages)] ==
          IF x[1] = AM_NULL_PAGE \/ x[2] = 0 THEN << >>
          ELSE IF pg[x[1]].pageType = "i" THEN <<x[1]>>
          ELSE <<x[1]>> \o chain[<<pg[x[1]].nextLeafPage, x[2] - 1>>]
        first == IF pg[AM_RootPageNum].pageType = "l" THEN AM_RootPageNum ELSE 2
    IN  UNION {UNION {Range(RecIds(pg[p], i)) : i \in DOMAIN pg[p].keys}
                 : p \in Range(chain[<<first, MaxPages>>])}

(* Indexed is about the pages alone. *)
LEMMA SameIndexed ==
  ASSUME page' = page
  PROVE  Indexed' = Indexed
<1>1. Indexed = IndexedIn(page)
  BY DEF Indexed, RecordsOf, Chain, ChainFrom, LeftPageNum, IndexedIn
<1>2. Indexed' = IndexedIn(page')
  BY DEF Indexed, RecordsOf, Chain, ChainFrom, LeftPageNum, IndexedIn
<1> QED  BY <1>1, <1>2

(* Such a step keeps the invariant of the tree, *)
LEMMA QuietInv ==
  ASSUME AMInv, NoFile, indexed = Indexed, Quiet
  PROVE  AMInv' /\ NoFile' /\ (indexed = Indexed)' /\ Idle' /\ (status = "open")'
<1>1. Tree(page, numpages, stack, NoCall)
  BY DEF AMInv, Quiet, Idle
<1>2. Tree(page, numpages, stack', NoCall)
  BY <1>1, TreeStays
<1>3. Tree(page, numpages, stack, call)'
  BY <1>2 DEF Quiet
<1>4. AMInv'
  BY <1>3 DEF AMInv, Quiet, Pages, Idle
<1>5. Indexed' = Indexed
  BY SameIndexed DEF Quiet
<1> QED  BY <1>4, <1>5 DEF NoFile, Quiet, Idle

(* the order of the leaves, *)
LEMMA QuietArranged ==
  ASSUME Quiet, NEW A, NEW L, NEW rng, Arranged(A, L, rng)
  PROVE  Arranged(A, L, rng)'
<1>1. Told(page, stack, call) = page
  BY DEF Quiet, Idle, Told
<1>2. Told(page, stack, call)' = page
  BY DEF Quiet, Told
<1>3. call' = NoCall /\ UNCHANGED <<numpages, page>> /\ pinned \subseteq pinned'
  BY DEF Quiet
<1>4. 0 \notin pinned' => Routes(Told(page, stack, call)', Size(numpages)', rng)
  BY <1>1, <1>2, <1>3 DEF Arranged
<1> QED  BY <1>3, <1>4 DEF Arranged

(* and the place of every scan that stays where it is. *)
LEMMA SameServing ==
  ASSUME UNCHANGED <<page, behind>>, NEW h, NEW o, NEW A, NEW L, NEW rng
  PROVE  Serving(h, o, A, L, rng)' <=> Serving(h, o, A, L, rng)
BY DEF Serving, AtEmpty, AtKey

LEMMA SameReady ==
  ASSUME UNCHANGED <<page, behind>>, NEW h, NEW o, NEW A, NEW L, NEW rng, NEW w
  PROVE  Ready(h, o, A, L, rng, w)' <=> Ready(h, o, A, L, rng, w)
BY DEF Ready, AtEmpty, AtKey

(* The scan has been served in this step, or is as it was. *)
ServedNow(s, A, L, rng) ==
    \/ /\ s \in Serves /\ scan'[s] = scan[s] /\ owed'[s] = owed[s]
       /\ Just(s)' => Just(s) /\ ret' = ret
    \/ /\ Serving(scan'[s], owed'[s], A, L, rng)
       /\ Just(s)' => /\ ret' \notin owed'[s] /\ ret' \in indexed
                      /\ Ready(scan'[s], owed'[s], A, L, rng, ValueOf[ret'])

(* So the scans are followed after it, *)
LEMMA QuietFollowed ==
  ASSUME Quiet, NEW A, NEW L, NEW rng, Followed(A, L, rng),
         \A s \in Serves' : ServedNow(s, A, L, rng)
  PROVE  Followed(A, L, rng)'
<1>1. UNCHANGED <<page, behind, indexed>>
  BY DEF Quiet
<1>2. Arranged(A, L, rng)' /\ Single(A)
  BY QuietArranged DEF Followed
<1>3. ASSUME NEW s \in Serves' PROVE Served(s, A, L, rng)'
  <2>1. PICK h : h = scan'[s]
    OBVIOUS
  <2>2. PICK o : o = owed'[s]
    OBVIOUS
  <2>3. PICK w : w = ValueOf[ret']
    OBVIOUS
  <2>4. /\ Serving(h, o, A, L, rng)
        /\ Just(s)' => ret' \notin o /\ ret' \in indexed /\ Ready(h, o, A, L, rng, w)
    <3>1. CASE s \in Serves /\ scan'[s] = scan[s] /\ owed'[s] = owed[s] /\ (Just(s)' => Just(s) /\ ret' = ret)
      BY <2>1, <2>2, <2>3, <3>1 DEF Followed, Served
    <3>2. CASE /\ Serving(scan'[s], owed'[s], A, L, rng)
               /\ Just(s)' => /\ ret' \notin owed'[s] /\ ret' \in indexed
                              /\ Ready(scan'[s], owed'[s], A, L, rng, ValueOf[ret'])
      BY <2>1, <2>2, <2>3, <3>2
    <3> QED  BY <3>1, <3>2 DEF ServedNow
  <2>5. Serving(h, o, A, L, rng)' /\ (Just(s)' => Ready(h, o, A, L, rng, w)')
    BY <1>1, <2>4, SameServing, SameReady
  <2>6. Just(s)' => ret' \notin o /\ ret' \in indexed'
    BY <1>1, <2>4
  <2> QED  BY <2>1, <2>2, <2>3, <2>5, <2>6 DEF Served
<1> QED  BY <1>2, <1>3 DEF Followed, Single

(* and the whole invariant holds. *)
LEMMA QuietScanInv ==
  ASSUME ScanInv, Quiet, TableIs',
         \A A, L, rng : Followed(A, L, rng) => \A s \in Serves' : ServedNow(s, A, L, rng)
  PROVE  ScanInv'
<1>1. PICK A, L, rng : Followed(A, L, rng)
  BY DEF ScanInv
<1>2. Followed(A, L, rng)'
  BY <1>1, QuietFollowed
<1>3. AMInv' /\ NoFile' /\ (indexed = Indexed)' /\ Idle' /\ (status = "open")'
  BY QuietInv DEF ScanInv
<1> QED  BY <1>2, <1>3 DEF ScanInv

-----------------------------------------------------------------------------
(* The steps of scans. *)

(* While a client holds a scan no call is under way. *)
LEMMA HeldIs ==
  ASSUME ScanInv, NEW s \in Scan, owed[s] # NoScan
  PROVE  s \in Held /\ Idle /\ status = "open" /\ IsHandle(scan[s])
BY DEF ScanInv, TableIs, Held

(* What a scan owes to its client, which holds it still. *)
LEMMA OwesStill ==
  ASSUME TableIs, NEW s \in Scan, owed[s] # NoScan, owed[s] # Lost,
         NEW o, Owes(s, o), o = Lost \/ o \subseteq owed[s]
  PROVE  /\ owed' \in [Scan -> {NoScan, Lost} \cup SUBSET RecId] /\ owed'[s] = o /\ o # NoScan
         /\ \A u \in Scan : u # s => owed'[u] = owed[u]
<1>1. owed[s] \in SUBSET RecId
  BY DEF TableIs
<1>2. o = Lost \/ o \in SUBSET RecId
  BY <1>1
<1>3. o # NoScan
  BY <1>2, ScanConstants
<1>4. owed \in [Scan -> {NoScan, Lost} \cup SUBSET RecId]
  BY DEF TableIs
<1> QED  BY <1>2, <1>3, <1>4 DEF Owes

(* AM_FindNextEntry leaves the table a table. *)
LEMMA FindNextEntries ==
  ASSUME ScanInv, NEW s \in Scan, AM_FindNextEntry(s)
  PROVE  /\ TableIs' /\ Held' = Held /\ scan'[s].op = scan[s].op
         /\ \A u \in Scan : u # s => scan'[u] = scan[u] /\ owed'[u] = owed[u]
<1>1. owed[s] # NoScan /\ owed[s] # Lost /\ behind' = behind
  BY FindNextOwes
<1>2. DOMAIN scan = Scan /\ IsHandle(scan[s]) /\ behind = [p \in PageNum |-> behind[p]] /\ TableIs
      /\ owed \in [Scan -> {NoScan, Lost} \cup SUBSET RecId]
      /\ \A u \in Scan : IsHandle(scan[u]) /\ (scan[u].status = "FREE" => owed[u] = NoScan)
  BY DEF ScanInv, TableIs
<1>3. Stands(s)
  BY <1>2, FindNextStands
<1>4. /\ owed' \in [Scan -> {NoScan, Lost} \cup SUBSET RecId] /\ owed'[s] # NoScan
      /\ \A u \in Scan : u # s => owed'[u] = owed[u]
  <2>1. CASE owed' = owed
    BY <1>1, <1>2, <2>1
  <2>2. CASE \E o : Owes(s, o) /\ (o = Lost \/ o \subseteq owed[s])
    BY <1>1, <1>2, <2>2, OwesStill
  <2> QED  BY <2>1, <2>2, FindNextOwes
<1>5. Held' = Held
  BY <1>1, <1>4 DEF Held
<1>6. /\ IsHandle(scan'[s]) /\ scan'[s].op = scan[s].op /\ scan'[s].status # "FREE"
      /\ DOMAIN scan' = Scan /\ \A u \in Scan : u # s => scan'[u] = scan[u]
  BY <1>1, <1>2, <1>3 DEF Stands, Kin
<1>7. \A u \in Scan : IsHandle(scan'[u]) /\ (scan'[u].status = "FREE" => owed'[u] = NoScan)
  <2> TAKE u \in Scan
  <2>1. CASE u = s
    BY <1>6, <2>1
  <2>2. CASE u # s
    BY <1>2, <1>4, <1>6, <2>2
  <2> QED  BY <2>1, <2>2
<1>8. TableIs'
  BY <1>1, <1>2, <1>4, <1>6, <1>7 DEF TableIs
<1> QED  BY <1>4, <1>5, <1>6, <1>8

(* The answers, for a scan that is followed. *)
LEMMA FindNextAnswered ==
  ASSUME ScanInv, NEW s \in Serves, AM_FindNextEntry(s), NEW A, NEW L, NEW rng, Followed(A, L, rng)
  PROVE  Answers(s, A, L, rng)
<1>1. s \in Scan /\ DOMAIN scan = Scan /\ IsHandle(scan[s]) /\ scan[s].op \in Promised
  BY DEF ScanInv, TableIs, Serves, Held
<1>2. Rows(A, L, rng) /\ Linking(page, Size(numpages), L) /\ Single(A)
  BY ArrangedRows DEF ScanInv, Followed
<1>3. Size(numpages) \in 1 .. MaxPages /\ Nodes(page)
  BY SizeIs DEF ScanInv
<1>4. Serving(scan[s], owed[s], A, L, rng)
  BY DEF Followed, Served
<1> QED  BY <1>1, <1>2, <1>3, <1>4, FindNextAnswers

(* A scan owes nothing that is not there. *)
LEMMA OwedAreThere ==
  ASSUME ScanInv, NEW s \in Serves, NEW A, NEW L, NEW rng, Followed(A, L, rng)
  PROVE  owed[s] \subseteq indexed
<1>1. PICK h : h = scan[s]
  OBVIOUS
<1>2. PICK o : o = owed[s]
  OBVIOUS
<1>3. Serving(h, o, A, L, rng) /\ Arranged(A, L, rng)
  BY <1>1, <1>2 DEF Followed, Served
<1>4. Rows(A, L, rng) /\ indexed = RecordsFrom(A, Value)
  BY <1>3, ArrangedRows, IndexedIs DEF ScanInv
<1>5. CASE Over(h) /\ o = {}
  BY <1>2, <1>5
<1>6. CASE \E i : AtEmpty(h, o, A, L, rng, i)
  <2>1. PICK i : o = Onward(A, L, rng, i)
    BY <1>6 DEF AtEmpty
  <2> QED  BY <1>2, <1>4, <2>1 DEF Onward, RecordsFrom
<1>7. CASE \E i, t, m : AtKey(h, o, A, L, i, t, m)
  <2>1. PICK i, t, m : AtKey(h, o, A, L, i, t, m)
    BY <1>7
  <2>2. PICK x : x = page[L[i]].keys[t].value
    OBVIOUS
  <2>3. i \in 1 .. Len(L) /\ t \in 1 .. Len(page[L[i]].keys) /\ o = Due(A, h.op, x, m) /\ m \in Nat
    BY <2>1, <2>2, SMTT(40) DEF AtKey, PlacedAt
  <2>4. x \in Value /\ A[x] \in Seq(RecId)
    BY <1>4, <2>2, <2>3 DEF Rows
  <2>5. Rest(A, x, m) \subseteq RecordsFrom(A, Value)
    BY <2>4 DEF Rest, RecordsFrom, Range
  <2>6. Greater(A, x) \subseteq RecordsFrom(A, Value)
    BY DEF Greater, RecordsFrom
  <2> QED  BY <1>2, <1>4, <2>3, <2>5, <2>6 DEF Due
<1> QED  BY <1>3, <1>5, <1>6, <1>7 DEF Serving

(* And after the answer it is followed. *)
LEMMA AnswerServes ==
  ASSUME ScanInv, NEW s \in Serves, AM_FindNextEntry(s), NEW A, NEW L, NEW rng, Followed(A, L, rng),
         s \in Serves'
  PROVE  ServedNow(s, A, L, rng)
<1>1. Answers(s, A, L, rng)
  BY FindNextAnswered
<1>2. s \in Scan /\ owed \in [Scan -> {NoScan, Lost} \cup SUBSET RecId]
  BY DEF ScanInv, TableIs, Serves, Held
<1>3. AME_EOF \notin RecId /\ AME_PF \notin RecId
  BY ScanConstants
<1>4. CASE ret' = AME_EOF /\ owed[s] = {} /\ owed' = owed /\ Over(scan'[s])
  BY <1>3, <1>4 DEF ServedNow, Serving, Just
<1>5. CASE ret' = AME_PF /\ owed' = owed /\ scan' = scan
  BY <1>3, <1>5 DEF ServedNow, Just
<1>6. CASE ret' = AME_PF /\ Owes(s, Lost)
  <2>1. owed'[s] = Lost
    BY <1>2, <1>6 DEF Owes
  <2> QED  BY <2>1 DEF Serves
<1>7. CASE \E r \in RecId :
             /\ ret' = r /\ r \in owed[s] /\ Owes(s, owed[s] \ {r})
             /\ \A u \in owed[s] : u \in RecId /\ ValueOf[r] <= ValueOf[u]
             /\ Ready(scan'[s], owed[s] \ {r}, A, L, rng, ValueOf[r])
  <2>1. PICK r \in RecId : /\ ret' = r /\ r \in owed[s] /\ Owes(s, owed[s] \ {r})
                           /\ Ready(scan'[s], owed[s] \ {r}, A, L, rng, ValueOf[r])
    BY <1>7
  <2>2. owed'[s] = owed[s] \ {r}
    BY <1>2, <2>1 DEF Owes
  <2>3. PICK h : h = scan'[s]
    OBVIOUS
  <2>4. PICK o : o = owed[s] \ {r}
    OBVIOUS
  <2>5. Ready(h, o, A, L, rng, ValueOf[r])
    BY <2>1, <2>3, <2>4
  <2>6. Serving(h, o, A, L, rng)
    BY <2>5, ReadyServes
  <2>7. r \in indexed
    BY <2>1, OwedAreThere
  <2> QED  BY <2>1, <2>2, <2>3, <2>4, <2>5, <2>6, <2>7 DEF ServedNow
<1> QED  BY <1>1, <1>4, <1>5, <1>6, <1>7 DEF Answers

(* AM_FindNextEntry keeps the invariant. *)
LEMMA FindNextInv ==
  ASSUME ScanInv, NEW s \in Scan, AM_FindNextEntry(s)
  PROVE  ScanInv'
<1>1. /\ owed[s] # NoScan /\ owed[s] # Lost /\ Idle
      /\ call' = NoCall /\ UNCHANGED <<file, pinned, others, stack, behind, indexed>>
  BY FindNextOwes
<1>2. /\ TableIs' /\ Held' = Held /\ scan'[s].op = scan[s].op
      /\ \A u \in Scan : u # s => scan'[u] = scan[u] /\ owed'[u] = owed[u]
  BY FindNextEntries
<1>3. s \in Held /\ status = "open"
  BY <1>1, HeldIs
<1>4. Quiet
  BY <1>1, <1>3 DEF Quiet, file, ScanInv, AMInv
<1>5. ASSUME NEW A, NEW L, NEW rng, Followed(A, L, rng), NEW u \in Serves' PROVE ServedNow(u, A, L, rng)
  <2>1. u \in Scan /\ u \in Held' /\ owed'[u] # Lost /\ scan'[u].op \in Promised
    BY <1>5 DEF Serves, Held
  <2>2. CASE u = s
    <3>1. s \in Serves /\ s \in Serves'
      BY <1>1, <1>2, <1>3, <1>5, <2>1, <2>2 DEF Serves
    <3> QED  BY <1>5, <2>2, <3>1, AnswerServes
  <2>3. CASE u # s
    <3>1. u \in Serves /\ scan'[u] = scan[u] /\ owed'[u] = owed[u]
      BY <1>2, <2>1, <2>3 DEF Serves
    <3>2. ~Just(u)'
      BY <1>2, <1>3, <2>3 DEF Just
    <3> QED  BY <3>1, <3>2 DEF ServedNow
  <2> QED  BY <2>2, <2>3
<1> QED  BY <1>2, <1>4, <1>5, QuietScanInv

(* AM_CloseIndexScan keeps the invariant. *)
LEMMA CloseInv ==
  ASSUME ScanInv, NEW s \in Scan, AM_CloseIndexScan(s)
  PROVE  ScanInv'
<1>1. /\ owed[s] # NoScan /\ Idle /\ call' = NoCall /\ ret' = AME_OK
      /\ scan' = [scan EXCEPT ![s] = FreeHandle] /\ owed' = [owed EXCEPT ![s] = NoScan]
      /\ UNCHANGED <<file, pinned, others, stack, behind, indexed>>
  BY DEF AM_CloseIndexScan, Return
<1>2. s \in Held /\ status = "open"
  BY <1>1, HeldIs
<1>3. Quiet
  BY <1>1, <1>2 DEF Quiet, file, ScanInv, AMInv
<1>4. /\ DOMAIN scan = Scan /\ behind = [p \in PageNum |-> behind[p]]
      /\ owed \in [Scan -> {NoScan, Lost} \cup SUBSET RecId]
      /\ \A u \in Scan : IsHandle(scan[u]) /\ (scan[u].status = "FREE" => owed[u] = NoScan)
  BY DEF ScanInv, TableIs
<1>5. /\ DOMAIN scan' = Scan /\ owed' \in [Scan -> {NoScan, Lost} \cup SUBSET RecId]
      /\ scan'[s] = FreeHandle /\ owed'[s] = NoScan
      /\ \A u \in Scan : u # s => scan'[u] = scan[u] /\ owed'[u] = owed[u]
  BY <1>1, <1>4
<1>6. TableIs'
  <2>1. IsHandle(FreeHandle)
    BY FreeIs
  <2>2. \A u \in Scan : IsHandle(scan'[u]) /\ (scan'[u].status = "FREE" => owed'[u] = NoScan)
    BY <1>4, <1>5, <2>1
  <2> QED  BY <1>1, <1>4, <1>5, <2>2 DEF TableIs
<1>7. AME_OK \notin RecId
  BY ScanConstants
<1>8. ASSUME NEW A, NEW L, NEW rng, Followed(A, L, rng), NEW u \in Serves' PROVE ServedNow(u, A, L, rng)
  <2>1. u \in Scan /\ u \in Held' /\ owed'[u] # NoScan /\ owed'[u] # Lost /\ scan'[u].op \in Promised
    BY <1>8 DEF Serves, Held
  <2>2. u # s
    BY <1>5, <2>1
  <2>3. u \in Serves /\ scan'[u] = scan[u] /\ owed'[u] = owed[u]
    BY <1>5, <2>1, <2>2 DEF Serves, Held
  <2>4. ~Just(u)'
    BY <1>1, <1>7 DEF Just
  <2> QED  BY <2>3, <2>4 DEF ServedNow
<1> QED  BY <1>3, <1>6, <1>8, QuietScanInv

(* So do the pages of other files. *)
LEMMA OtherPagesInv ==
  ASSUME ScanInv, OtherPages
  PROVE  ScanInv'
<1>1. /\ Idle /\ Held # {} /\ UNCHANGED <<status, numpages, page, pinned, stack, call, ret, scan, behind, indexed, owed>>
  BY DEF OtherPages, file, scanvars
<1>2. Quiet
  BY <1>1 DEF Quiet, ScanInv, AMInv, Idle
<1>3. TableIs' /\ Held' = Held
  BY <1>1 DEF ScanInv, TableIs, Held
<1>4. ASSUME NEW A, NEW L, NEW rng, Followed(A, L, rng), NEW u \in Serves' PROVE ServedNow(u, A, L, rng)
  <2>1. u \in Serves /\ (Just(u)' => Just(u))
    BY <1>1, <1>3, <1>4 DEF Serves, Just
  <2> QED  BY <1>1, <2>1 DEF ServedNow
<1> QED  BY <1>2, <1>3, <1>4, QuietScanInv

-----------------------------------------------------------------------------
(* AM_OpenIndexScan. *)

(* The records that a scan is to tell. *)
Asked(I, op, v) == {r \in I : Satisfies(ValueOf[r], op, v)}

(* For each operator these are the records of certain values. *)
LEMMA AskedIs ==
  ASSUME NEW A \in [Value -> Seq(RecId)], Single(A), NEW v \in Value, NEW I, I = RecordsFrom(A, Value)
  PROVE  /\ I \subseteq RecId
         /\ Asked(I, "ALL", v) = I
         /\ Asked(I, "EQUAL", v) = Range(A[v])
         /\ Asked(I, "GREATER_THAN", v) = Greater(A, v)
         /\ Asked(I, "GREATER_THAN_EQUAL", v) = Upward(A, v)
<1>1. \A w \in Value : \A k \in 1 .. Len(A[w]) : A[w][k] \in RecId /\ ValueOf[A[w][k]] = w
  <2>1. \A w \in Value : A[w] \in Seq(RecId)
    OBVIOUS
  <2> QED  BY <2>1 DEF Single
<1>2. \A r : r \in I <=> \E w \in Value : \E k \in 1 .. Len(A[w]) : r = A[w][k]
  BY RecordAt
<1>3. ASSUME NEW S, S \subseteq Value PROVE \A r : r \in RecordsFrom(A, S) <=> r \in I /\ ValueOf[r] \in S
  <2>1. \A r : r \in RecordsFrom(A, S) <=> \E w \in S : \E k \in 1 .. Len(A[w]) : r = A[w][k]
    <3>1. S \in SUBSET Value /\ A \in [Value -> Seq(RecId)]
      BY <1>3
    <3> QED  BY ONLY <3>1, RecordAt
  <2>2. ASSUME NEW r, r \in RecordsFrom(A, S) PROVE r \in I /\ ValueOf[r] \in S
    <3>1. PICK w \in S : \E k \in 1 .. Len(A[w]) : r = A[w][k]
      BY <2>1, <2>2
    <3>2. w \in Value
      BY <1>3
    <3>3. ValueOf[r] = w
      BY <1>1, <3>1, <3>2
    <3> QED  BY <1>2, <3>1, <3>2, <3>3
  <2>3. ASSUME NEW r, r \in I, ValueOf[r] \in S PROVE r \in RecordsFrom(A, S)
    <3>1. PICK w \in Value : \E k \in 1 .. Len(A[w]) : r = A[w][k]
      BY <1>2, <2>3
    <3>2. ValueOf[r] = w
      BY <1>1, <3>1
    <3> QED  BY <2>1, <2>3, <3>1, <3>2
  <2> QED  BY <2>2, <2>3
<1>4. \A r \in I : r \in RecId /\ ValueOf[r] \in Value /\ ValueOf[r] \in Int
  <2>1. \A r \in I : r \in RecId /\ ValueOf[r] \in Value
    BY <1>1, <1>2
  <2> QED  BY <2>1, ScanConstants
<1>5. v \in Int
  BY ScanConstants
<1>6. Asked(I, "ALL", v) = I
  BY DEF Asked, Satisfies
<1>7. Asked(I, "EQUAL", v) = Range(A[v])
  <2>1. \A r : r \in RecordsFrom(A, {v}) <=> r \in I /\ ValueOf[r] = v
    BY <1>3
  <2>2. RecordsFrom(A, {v}) = Range(A[v])
    BY DEF RecordsFrom
  <2>3. \A w : Satisfies(w, "EQUAL", v) <=> w = v
    BY DEF Satisfies
  <2> QED  BY <2>1, <2>2, <2>3 DEF Asked
<1>8. Asked(I, "GREATER_THAN", v) = Greater(A, v)
  <2>1. \A r : r \in Greater(A, v) <=> r \in I /\ ValueOf[r] \in {w \in Value : w > v}
    BY <1>3 DEF Greater
  <2>2. \A w : Satisfies(w, "GREATER_THAN", v) <=> w > v
    BY DEF Satisfies
  <2> QED  BY <1>4, <2>1, <2>2 DEF Asked
<1>9. Asked(I, "GREATER_THAN_EQUAL", v) = Upward(A, v)
  <2>1. \A r : r \in Upward(A, v) <=> r \in I /\ ValueOf[r] \in {w \in Value : w >= v}
    BY <1>3 DEF Upward
  <2>2. \A w \in Int : Satisfies(w, "GREATER_THAN_EQUAL", v) <=> w >= v
    BY <1>5 DEF Satisfies
  <2> QED  BY <1>4, <2>1, <2>2 DEF Asked
<1> QED  BY <1>4, <1>6, <1>7, <1>8, <1>9

(* At a leaf from which all is due. *)
LEMMA FromLeaf ==
  ASSUME NEW A, NEW L, NEW rng, Rows(A, L, rng), NEW i \in 1 .. Len(L),
         NEW h, IsHandle(h), h.op # "EQUAL", h.status = "FIRST", NEW g, g = AtEntry(h, L[i], 1)
  PROVE  Serving(g, Onward(A, L, rng, i), A, L, rng)
<1>1. PICK p : p = L[i]
  OBVIOUS
<1>2. /\ g.status = "FIRST" /\ g.op # "EQUAL" /\ g.nextpageNum = p /\ g.nextIndex = 1
      /\ g.nextRecIdPtr = Slot(p, 1).head
  BY <1>1, AtEntryIs DEF Kin
<1>3. Len(page[p].keys) \in Nat
  BY <1>1 DEF Rows
<1>4. PICK o : o = Onward(A, L, rng, i)
  OBVIOUS
<1>5. CASE Len(page[p].keys) = 0
  <2>1. AtEmpty(g, o, A, L, rng, i)
    BY <1>1, <1>2, <1>4, <1>5 DEF AtEmpty
  <2> QED  BY <1>4, <2>1 DEF Serving
<1>6. CASE Len(page[p].keys) # 0
  <2>1. 1 \in 1 .. Len(page[p].keys)
    BY <1>3, <1>6
  <2>2. AtKey(g, o, A, L, i, 1, 1)
    BY <1>1, <1>2, <1>4, <2>1, StepFrom
  <2> QED  BY <1>4, <2>2 DEF Serving
<1> QED  BY <1>5, <1>6

(* At key t of leaf i, for a scan that is new. *)
LEMMA FromKey ==
  ASSUME NEW A, NEW L, NEW rng, Rows(A, L, rng), NEW i \in 1 .. Len(L), NEW t \in 1 .. Len(page[L[i]].keys),
         NEW h, IsHandle(h), h.status = "FIRST", h.op = "EQUAL" => h.pageNum = L[i] /\ h.index = t,
         NEW g, g = AtEntry(h, L[i], t), NEW x, x = page[L[i]].keys[t].value
  PROVE  Serving(g, Due(A, h.op, x, 1), A, L, rng)
<1>1. PICK p : p = L[i]
  OBVIOUS
<1>2. PICK y, s : KeyIs(A, p, t, y, s)
  BY <1>1, KeyOf, SMTT(40)
<1>3. /\ s = KeyCells(page[p], t) /\ page[p].keys[t].head = s[1] /\ 1 \in 1 .. Len(s)
      /\ Slot(p, t) = page[p].keys[t] /\ t \in Nat
  BY <1>1, <1>2, SlotIs DEF KeyIs
<1>4. /\ g.status = "FIRST" /\ g.op = h.op /\ g.pageNum = h.pageNum /\ g.index = h.index
      /\ g.nextpageNum = p /\ g.nextIndex = t /\ g.actindex = t
      /\ g.nextRecIdPtr = Slot(p, t).head
  BY <1>1, AtEntryIs DEF Kin
<1>5. g.op = "EQUAL" => g.pageNum = p /\ g.index = g.actindex /\ g.index \in Nat
  BY <1>1, <1>3, <1>4
<1>6. PlacedAt(g, page[p], behind[p], p, t, 1)
  BY <1>1, <1>3, <1>4, <1>5 DEF PlacedAt
<1>7. AtKey(g, Due(A, h.op, x, 1), A, L, i, t, 1)
  BY <1>1, <1>4, <1>6 DEF AtKey
<1> QED  BY <1>7 DEF Serving

(* The search for v has come to leaf i, which is p, and there to t; where  *)
(* that is behind the last key there is no next leaf.                      *)
Landed(A, L, rng, i, v, p, t, found) ==
    /\ Rows(A, L, rng) /\ Single(A)
    /\ i \in 1 .. Len(L) /\ p = L[i] /\ v \in Value /\ v \in rng[p]
    /\ FoundAt(page[p], v, t, found)
    /\ t <= LastKey(p) \/ NextLeaf(p) = AM_NULL_PAGE

LandedAt(A, L, rng, i, v, p, t, found) ==
    /\ t \in 1 .. Len(page[p].keys) + 1 /\ Len(page[p].keys) \in Nat /\ Len(L) \in Nat
    /\ t \in 1 .. Len(page[p].keys) => Upward(A, v) = Upward(A, page[p].keys[t].value)
    /\ t = Len(page[p].keys) + 1 => i = Len(L) /\ Upward(A, v) = {}
    /\ found <=> t \in 1 .. Len(page[p].keys) /\ page[p].keys[t].value = v
    /\ found <=> A[v] # << >>
    /\ A[v] = << >> => Greater(A, v) = Upward(A, v)
    /\ i # Len(L) => i + 1 \in 1 .. Len(L) /\ NextLeaf(p) = L[i + 1] /\ NextLeaf(p) # AM_NULL_PAGE
    /\ i = Len(L) => NextLeaf(p) = AM_NULL_PAGE

(* What that means for the key there, and for the leaf behind it. *)
LEMMA LandedParts ==
  ASSUME NEW A, NEW L, NEW rng, NEW i, NEW v, NEW p, NEW t, NEW found,
         Landed(A, L, rng, i, v, p, t, found)
  PROVE  LandedAt(A, L, rng, i, v, p, t, found)
<1>1. /\ Rows(A, L, rng) /\ i \in 1 .. Len(L) /\ p = L[i] /\ v \in Value /\ v \in rng[p]
      /\ t <= Len(page[p].keys) \/ page[p].nextLeafPage = AM_NULL_PAGE
      /\ Place(page[p], v, t) /\ (found <=> t <= Len(page[p].keys) /\ page[p].keys[t].value = v)
  BY SMTT(40) DEF Landed, FoundAt, LastKey, NextLeaf
<1>2. Len(page[p].keys) \in Nat /\ Len(L) \in Nat /\ t \in 1 .. Len(page[p].keys) + 1
  BY <1>1 DEF Rows, Place
<1>3. /\ t \in 1 .. Len(page[p].keys) => Upward(A, v) = Upward(A, page[p].keys[t].value)
      /\ t = Len(page[p].keys) + 1 => Upward(A, v) = Onward(A, L, rng, i + 1)
      /\ A[v] # << >> <=> t \in 1 .. Len(page[p].keys) /\ page[p].keys[t].value = v
      /\ A[v] = << >> => Greater(A, v) = Upward(A, v)
  <2>1. Place(page[L[i]], v, t) /\ v \in rng[L[i]] /\ i \in 1 .. Len(L) /\ v \in Value
    BY <1>1
  <2>2. Rows(A, L, rng)
    BY <1>1
  <2>3. /\ t \in 1 .. Len(page[L[i]].keys) => Upward(A, v) = Upward(A, page[L[i]].keys[t].value)
        /\ t = Len(page[L[i]].keys) + 1 => Upward(A, v) = Onward(A, L, rng, i + 1)
        /\ A[v] # << >> <=> t \in 1 .. Len(page[L[i]].keys) /\ page[L[i]].keys[t].value = v
        /\ A[v] = << >> => Greater(A, v) = Upward(A, v)
    BY ONLY <2>1, <2>2, FromPlace
  <2> QED  BY <1>1, <2>3
<1>4. t <= Len(page[p].keys) <=> t \in 1 .. Len(page[p].keys)
  BY <1>2, SMTT(40)
<1>5. page[p].nextLeafPage = IF i = Len(L) THEN AM_NULL_PAGE ELSE L[i + 1]
  BY <1>1 DEF Rows
<1>6. i # Len(L) => i + 1 \in 1 .. Len(L)
  BY <1>1, <1>2, SMTT(40)
<1>7. \A k \in 1 .. Len(L) : L[k] # AM_NULL_PAGE
  <2>1. AM_NULL_PAGE \notin PageNum
    BY DEF PageNum, AM_NULL_PAGE
  <2> QED  BY <1>1, <2>1, SMTT(40) DEF Rows
<1>8. i # Len(L) => i + 1 \in 1 .. Len(L) /\ NextLeaf(p) = L[i + 1] /\ NextLeaf(p) # AM_NULL_PAGE
  BY <1>5, <1>6, <1>7 DEF NextLeaf
<1>9. t = Len(page[p].keys) + 1 => i = Len(L) /\ Upward(A, v) = {}
  <2> SUFFICES ASSUME t = Len(page[p].keys) + 1 PROVE i = Len(L) /\ Upward(A, v) = {}
    OBVIOUS
  <2>1. ~(t <= Len(page[p].keys))
    BY <1>2
  <2>2. i = Len(L)
    BY <1>1, <1>8, <2>1 DEF NextLeaf
  <2>3. Onward(A, L, rng, Len(L) + 1) = {}
    BY <1>1, FromEmptyLeaf
  <2> QED  BY <1>3, <2>2, <2>3
<1>10. i = Len(L) => NextLeaf(p) = AM_NULL_PAGE
  BY <1>5 DEF NextLeaf
<1>11. /\ found <=> t \in 1 .. Len(page[p].keys) /\ page[p].keys[t].value = v
       /\ found <=> A[v] # << >>
  BY <1>1, <1>3, <1>4
<1> QED  BY <1>2, <1>3, <1>8, <1>9, <1>10, <1>11 DEF LandedAt

(* For every operator that is promised the scan begins where the first     *)
(* record is that it is to tell.                                           *)
LEMMA OpenedIs ==
  ASSUME NEW op, NEW p, NEW t, NEW found, NEW g, g = Opened(op, p, t, found),
         op \in Operators, op # "ALL", op # "other"
  PROVE  IsHandle(g) /\ g.status # "FREE" /\ g.op = op
<1> DEFINE pn == IF t > LastKey(p) THEN AM_NULL_PAGE ELSE p
<1>1. PICK h : h = [FreeHandle EXCEPT !.status = "FIRST", !.op = op, !.pageNum = pn, !.index = t]
  OBVIOUS
<1>2. IsHandle(h) /\ h.status = "FIRST" /\ h.op = op
  BY <1>1 DEF FreeHandle, IsHandle
<1>3. PICK over : over = [h EXCEPT !.status = "OVER"]
  OBVIOUS
<1>4. IsHandle(over) /\ over.status = "OVER" /\ over.op = op
  BY <1>2, <1>3, StatusIs
<1>5. PICK here : here = IF pn = p THEN AtEntry(h, p, t) ELSE Moved(h, pn, t)
  OBVIOUS
<1>6. ASSUME NEW q, NEW k, NEW f, f = AtEntry(h, q, k) PROVE IsHandle(f) /\ f.status = "FIRST" /\ f.op = op
  BY <1>2, <1>6, AtEntryIs DEF Kin
<1>7. IsHandle(here) /\ here.status = "FIRST" /\ here.op = op
  <2>1. CASE pn = p
    BY <1>5, <1>6, <2>1
  <2>2. CASE pn # p
    BY <1>2, <1>5, <2>2, MovedIs DEF Kin
  <2> QED  BY <2>1, <2>2
<1>8. PICK leftmost : leftmost = AtEntry(h, LeftPageNum, 1)
  OBVIOUS
<1>9. IsHandle(leftmost) /\ leftmost.status = "FIRST" /\ leftmost.op = op
  BY <1>6, <1>8
<1>10. ASSUME NEW n, NEW f, f = [leftmost EXCEPT !.lastpageNum = pn, !.lastIndex = n]
       PROVE  IsHandle(f) /\ f.status = "FIRST" /\ f.op = op
  <2>1. f.status = leftmost.status /\ f.op = leftmost.op
    BY <1>9, <1>10 DEF IsHandle
  <2>2. IsHandle(f)
    BY <1>9, <1>10 DEF IsHandle
  <2> QED  BY <1>9, <2>1, <2>2
<1>11. ASSUME NEW f, f = [h EXCEPT !.pageNum = AM_NULL_PAGE] PROVE IsHandle(f) /\ f.status = "FIRST" /\ f.op = op
  <2>1. f.status = h.status /\ f.op = h.op
    BY <1>2, <1>11 DEF IsHandle
  <2>2. IsHandle(f)
    BY <1>2, <1>11 DEF IsHandle
  <2> QED  BY <1>2, <2>1, <2>2
<1>12. op \in {"EQUAL", "LESS_THAN", "LESS_THAN_EQUAL", "GREATER_THAN_EQUAL", "GREATER_THAN", "NOT_EQUAL"}
  BY AMScanAssumption
<1>13. g = CASE op = "EQUAL" -> IF found THEN here ELSE over
             [] op = "LESS_THAN" -> [leftmost EXCEPT !.lastpageNum = pn, !.lastIndex = t - 1]
             [] op = "LESS_THAN_EQUAL" ->
                  [leftmost EXCEPT !.lastpageNum = pn, !.lastIndex = IF found THEN t ELSE t - 1]
             [] op = "GREATER_THAN_EQUAL" -> here
             [] op = "GREATER_THAN" ->
                  IF ~found THEN here
                  ELSE IF t < LastKey(p) THEN AtEntry(h, p, t + 1)
                  ELSE IF NextLeaf(p) # AM_NULL_PAGE THEN AtEntry(h, NextLeaf(p), 1)
                  ELSE over
             [] op = "NOT_EQUAL" -> IF found THEN leftmost ELSE [h EXCEPT !.pageNum = AM_NULL_PAGE]
  BY <1>1, <1>3, <1>5, <1>8 DEF Opened
<1> HIDE DEF pn
<1>14. CASE op = "EQUAL"
  BY <1>4, <1>7, <1>13, <1>14
<1>15. CASE op = "LESS_THAN"
  BY <1>10, <1>13, <1>15
<1>16. CASE op = "LESS_THAN_EQUAL"
  BY <1>10, <1>13, <1>16
<1>17. CASE op = "GREATER_THAN_EQUAL"
  BY <1>7, <1>13, <1>17
<1>18. CASE op = "GREATER_THAN"
  BY <1>4, <1>6, <1>7, <1>13, <1>18
<1>19. CASE op = "NOT_EQUAL"
  BY <1>9, <1>11, <1>13, <1>19
<1> QED  BY <1>12, <1>14, <1>15, <1>16, <1>17, <1>18, <1>19

(* The handle that the search for v begins with. *)
NewHandle(h, op, pn, t) ==
    h = [FreeHandle EXCEPT !.status = "FIRST", !.op = op, !.pageNum = pn, !.index = t]

(* Its parts. *)
LEMMA NewHandleIs ==
  ASSUME NEW h, NEW op, NEW pn, NEW t, NewHandle(h, op, pn, t)
  PROVE  IsHandle(h) /\ h.status = "FIRST" /\ h.op = op /\ h.pageNum = pn /\ h.index = t
BY DEF NewHandle, FreeHandle, IsHandle

(* At the place the search has found, or behind the last leaf. *)
LEMMA HereServes ==
  ASSUME NEW A, NEW L, NEW rng, NEW i, NEW v, NEW p, NEW t, NEW found,
         Landed(A, L, rng, i, v, p, t, found), NEW op \in Promised,
         NEW pn, pn = IF t > LastKey(p) THEN AM_NULL_PAGE ELSE p,
         NEW h, NewHandle(h, op, pn, t),
         NEW g, g = IF pn = p THEN AtEntry(h, p, t) ELSE Moved(h, pn, t)
  PROVE  /\ op # "EQUAL" => Serving(g, Upward(A, v), A, L, rng)
         /\ found => Serving(g, Due(A, op, v, 1), A, L, rng)
<1>1. LandedAt(A, L, rng, i, v, p, t, found)
  BY LandedParts
<1>2. Rows(A, L, rng) /\ Single(A) /\ i \in 1 .. Len(L) /\ p = L[i] /\ v \in Value
  BY DEF Landed
<1>3. IsHandle(h) /\ h.status = "FIRST" /\ h.op = op /\ h.pageNum = pn /\ h.index = t
  BY NewHandleIs
<1>4. p \in PageNum /\ A \in [Value -> Seq(RecId)]
  BY <1>2 DEF Rows
<1>5. p # AM_NULL_PAGE
  BY <1>4 DEF PageNum, AM_NULL_PAGE
<1>6. t \in 1 .. Len(page[p].keys) + 1 /\ Len(page[p].keys) \in Nat
  BY <1>1 DEF LandedAt
<1>7. CASE t \in 1 .. Len(page[p].keys)
  <2>1. pn = p
    BY <1>6, <1>7 DEF LastKey
  <2>2. g = AtEntry(h, L[i], t)
    BY <1>2, <2>1
  <2>3. PICK x : x = page[L[i]].keys[t].value
    OBVIOUS
  <2>4. Rows(A, L, rng) /\ i \in 1 .. Len(L) /\ t \in 1 .. Len(page[L[i]].keys) /\ IsHandle(h) /\ h.status = "FIRST"
        /\ (h.op = "EQUAL" => h.pageNum = L[i] /\ h.index = t)
    BY <1>2, <1>3, <1>7, <2>1
  <2>5. Serving(g, Due(A, h.op, x, 1), A, L, rng)
    BY ONLY <2>2, <2>3, <2>4, FromKey
  <2>6. Serving(g, Due(A, op, x, 1), A, L, rng)
    BY <1>3, <2>5, SMTT(40)
  <2>7. x \in Value
    BY <2>3, <2>4 DEF Rows
  <2>8. op # "EQUAL" => Due(A, op, x, 1) = Upward(A, v)
    <3>1. Rest(A, x, 1) \cup Greater(A, x) = Upward(A, x)
      BY <1>4, <2>7, RestAndGreater
    <3>2. Upward(A, v) = Upward(A, x)
      BY <1>1, <1>2, <1>7, <2>3 DEF LandedAt
    <3> QED  BY <3>1, <3>2 DEF Due
  <2>9. found => x = v
    BY <1>1, <1>2, <2>3 DEF LandedAt
  <2> QED  BY <2>6, <2>8, <2>9
<1>8. CASE t = Len(page[p].keys) + 1
  <2>1. t > LastKey(p)
    BY <1>6, <1>8 DEF LastKey
  <2>2. pn = AM_NULL_PAGE /\ g = Moved(h, pn, t)
    BY <1>5, <2>1
  <2>3. Over(g)
    BY <1>3, <2>2, MovedIs DEF Over
  <2>4. Upward(A, v) = {}
    BY <1>1, <1>8 DEF LandedAt
  <2>5. ~found
    BY <1>1, <1>6, <1>8 DEF LandedAt
  <2> QED  BY <2>3, <2>4, <2>5 DEF Serving
<1> QED  BY <1>6, <1>7, <1>8

(* A scan that has just been opened is at its place. *)
LEMMA OpenedServes ==
  ASSUME NEW A, NEW L, NEW rng, NEW i, NEW v, NEW p, NEW t, NEW found,
         Landed(A, L, rng, i, v, p, t, found), NEW op \in Promised, op # "ALL",
         NEW g, g = Opened(op, p, t, found), NEW o, o = Asked(RecordsFrom(A, Value), op, v)
  PROVE  Serving(g, o, A, L, rng)
<1>1. LandedAt(A, L, rng, i, v, p, t, found)
  BY LandedParts
<1>2. Rows(A, L, rng) /\ Single(A) /\ i \in 1 .. Len(L) /\ p = L[i] /\ v \in Value
  BY DEF Landed
<1>3. A \in [Value -> Seq(RecId)]
  BY <1>2 DEF Rows
<1>4. PICK pn : pn = IF t > LastKey(p) THEN AM_NULL_PAGE ELSE p
  OBVIOUS
<1>5. PICK h : NewHandle(h, op, pn, t)
  BY DEF NewHandle
<1>6. IsHandle(h) /\ h.status = "FIRST" /\ h.op = op /\ h.pageNum = pn /\ h.index = t
  BY <1>5, NewHandleIs
<1>7. PICK here : here = IF pn = p THEN AtEntry(h, p, t) ELSE Moved(h, pn, t)
  OBVIOUS
<1>8. PICK over : over = [h EXCEPT !.status = "OVER"]
  OBVIOUS
<1>9. Over(over)
  BY <1>6, <1>8, StatusIs DEF Over
<1>10. /\ op # "EQUAL" => Serving(here, Upward(A, v), A, L, rng)
       /\ found => Serving(here, Due(A, op, v, 1), A, L, rng)
  BY <1>4, <1>5, <1>7, HereServes
<1>11. /\ Asked(RecordsFrom(A, Value), "EQUAL", v) = Range(A[v])
       /\ Asked(RecordsFrom(A, Value), "GREATER_THAN", v) = Greater(A, v)
       /\ Asked(RecordsFrom(A, Value), "GREATER_THAN_EQUAL", v) = Upward(A, v)
  BY <1>2, <1>3, AskedIs
<1>12. found <=> A[v] # << >>
  BY <1>1 DEF LandedAt
<1>13. CASE op = "EQUAL"
  <2>1. g = IF found THEN here ELSE over
    BY <1>4, <1>5, <1>7, <1>8, <1>13 DEF Opened, NewHandle
  <2>2. CASE found
    <3>1. Due(A, op, v, 1) = Range(A[v])
      <4>1. Rest(A, v, 1) = Range(A[v])
        BY <1>2, <1>3, RestAndGreater
      <4> QED  BY <1>13, <4>1 DEF Due
    <3> QED  BY <1>10, <1>11, <1>13, <2>1, <2>2, <3>1
  <2>3. CASE ~found
    <3>1. A[v] = << >>
      BY <1>12, <2>3
    <3>2. Range(A[v]) = {}
      BY <3>1 DEF Range
    <3> QED  BY <1>9, <1>11, <1>13, <2>1, <2>3, <3>2 DEF Serving
  <2> QED  BY <2>2, <2>3
<1>14. CASE op = "GREATER_THAN_EQUAL"
  <2>1. g = here
    BY <1>4, <1>5, <1>7, <1>14 DEF Opened, NewHandle
  <2> QED  BY <1>10, <1>11, <1>14, <2>1
<1>15. CASE op = "GREATER_THAN"
  <2>1. g = IF ~found THEN here
            ELSE IF t < LastKey(p) THEN AtEntry(h, p, t + 1)
            ELSE IF NextLeaf(p) # AM_NULL_PAGE THEN AtEntry(h, NextLeaf(p), 1)
            ELSE over
    BY <1>4, <1>5, <1>7, <1>8, <1>15 DEF Opened, NewHandle
  <2>2. o = Greater(A, v)
    BY <1>11, <1>15
  <2>3. CASE ~found
    <3>1. Greater(A, v) = Upward(A, v)
      BY <1>1, <1>12, <2>3 DEF LandedAt
    <3> QED  BY <1>10, <1>15, <2>1, <2>2, <2>3, <3>1
  <2>4. CASE found
    <3>1. t \in 1 .. Len(page[L[i]].keys) /\ page[L[i]].keys[t].value = v
          /\ Len(page[L[i]].keys) \in Nat /\ LastKey(p) = Len(page[L[i]].keys)
      BY <1>1, <1>2, <2>4 DEF LandedAt, LastKey
    <3>2. CASE t < LastKey(p)
      <4>1. PICK u : u = t + 1
        OBVIOUS
      <4>2. u \in 1 .. Len(page[L[i]].keys)
        BY <3>1, <3>2, <4>1
      <4>3. g = AtEntry(h, L[i], u)
        BY <1>2, <2>1, <2>4, <3>2, <4>1
      <4>4. PICK y : y = page[L[i]].keys[u].value
        OBVIOUS
      <4>5. Rows(A, L, rng) /\ i \in 1 .. Len(L) /\ h.op # "EQUAL" /\ IsHandle(h) /\ h.status = "FIRST"
        BY <1>2, <1>6, <1>15
      <4>6. Serving(g, Due(A, h.op, y, 1), A, L, rng)
        BY ONLY <4>2, <4>3, <4>4, <4>5, FromKey
      <4>7. Greater(A, v) = Upward(A, y)
        BY <1>2, <3>1, <4>1, <4>2, <4>4, FromNextKey, SMTT(40)
      <4>8. y \in Value
        BY <1>2, <4>2, <4>4 DEF Rows
      <4>9. Rest(A, y, 1) \cup Greater(A, y) = Upward(A, y)
        BY <1>3, <4>8, RestAndGreater
      <4>10. Due(A, h.op, y, 1) = Upward(A, y)
        BY <4>5, <4>9 DEF Due
      <4> QED  BY <2>2, <4>6, <4>7, <4>10
    <3>3. CASE ~(t < LastKey(p))
      <4>1. t = Len(page[L[i]].keys)
        BY <3>1, <3>3
      <4>2. Greater(A, v) = Onward(A, L, rng, i + 1)
        BY <1>2, <3>1, <4>1, FromNextLeaf
      <4>3. CASE i # Len(L)
        <5>1. i + 1 \in 1 .. Len(L) /\ NextLeaf(p) = L[i + 1] /\ NextLeaf(p) # AM_NULL_PAGE
          BY <1>1, <4>3 DEF LandedAt
        <5>2. PICK j : j = i + 1
          OBVIOUS
        <5>3. j \in 1 .. Len(L) /\ g = AtEntry(h, L[j], 1)
          BY <2>1, <2>4, <3>3, <5>1, <5>2
        <5>4. Rows(A, L, rng) /\ IsHandle(h) /\ h.op # "EQUAL" /\ h.status = "FIRST"
          BY <1>2, <1>6, <1>15
        <5>5. Serving(g, Onward(A, L, rng, j), A, L, rng)
          BY ONLY <5>3, <5>4, FromLeaf
        <5> QED  BY <2>2, <4>2, <5>2, <5>5
      <4>4. CASE i = Len(L)
        <5>1. NextLeaf(p) = AM_NULL_PAGE
          BY <1>1, <4>4 DEF LandedAt
        <5>2. g = over
          BY <2>1, <2>4, <3>3, <5>1
        <5>3. Onward(A, L, rng, Len(L) + 1) = {}
          BY <1>2, FromEmptyLeaf
        <5> QED  BY <1>9, <2>2, <4>2, <4>4, <5>2, <5>3 DEF Serving
      <4> QED  BY <4>3, <4>4
    <3> QED  BY <3>2, <3>3
  <2> QED  BY <2>3, <2>4
<1> QED  BY <1>13, <1>14, <1>15 DEF Promised

(* What AM_OpenIndexScan does to the table and to what it owes. *)
OpenDoes(s) ==
    \/ UNCHANGED <<scan, owed>> /\ ret' \in {AME_PF, AME_INVALID_OP_TO_SCAN, AME_SCAN_TAB_FULL}
    \/ /\ s \in Scan /\ scan[s].status = "FREE"
       /\ scan' = [scan EXCEPT ![s].status = "FIRST"] /\ owed' = owed /\ ret' = AME_PF
    \/ /\ s \in Scan /\ scan[s].status = "FREE" /\ ret' = s
       /\ \E h, op, v :
            /\ scan' = [scan EXCEPT ![s] = h] /\ owed' = [owed EXCEPT ![s] = Asked(indexed, op, v)]
            /\ IsHandle(h) /\ h.status # "FREE" /\ h.op = op /\ op \in Operators \cup {"ALL"} /\ v \in Value
            /\ \A A, L, rng : Followed(A, L, rng) /\ op \in Promised =>
                 Serving(h, Asked(indexed, op, v), A, L, rng)

(* In each case the table stays a table. *)
LEMMA OpenTable ==
  ASSUME ScanInv, Quiet, NEW s, OpenDoes(s)
  PROVE  ScanInv'
<1>1. /\ DOMAIN scan = Scan /\ behind = [p \in PageNum |-> behind[p]]
      /\ owed \in [Scan -> {NoScan, Lost} \cup SUBSET RecId]
      /\ \A u \in Scan : IsHandle(scan[u]) /\ (scan[u].status = "FREE" => owed[u] = NoScan)
  BY DEF ScanInv, TableIs
<1>2. behind' = behind
  BY DEF Quiet
<1>3. indexed \subseteq RecId
  <2>1. PICK A, L, rng : Followed(A, L, rng)
    BY DEF ScanInv
  <2>2. Arranged(A, L, rng) /\ AMInv /\ indexed = Indexed
    BY <2>1 DEF Followed, ScanInv
  <2>3. indexed = RecordsFrom(A, Value) /\ A \in [Value -> Seq(RecId)]
    BY <2>2, IndexedIs, ArrangedRows DEF Rows
  <2>4. \A r \in RecordsFrom(A, Value) : r \in RecId
    BY <2>3 DEF RecordsFrom, Range
  <2> QED  BY <2>3, <2>4
<1>4. CASE UNCHANGED <<scan, owed>> /\ ret' \in {AME_PF, AME_INVALID_OP_TO_SCAN, AME_SCAN_TAB_FULL}
  <2>1. TableIs'
    BY <1>1, <1>2, <1>4 DEF TableIs
  <2>2. ret' \notin RecId
    BY <1>4, ScanConstants
  <2>3. ASSUME NEW A, NEW L, NEW rng, Followed(A, L, rng), NEW u \in Serves' PROVE ServedNow(u, A, L, rng)
    <3>1. u \in Serves /\ ~Just(u)'
      BY <1>4, <2>2, <2>3 DEF Serves, Held, Just
    <3> QED  BY <1>4, <3>1 DEF ServedNow
  <2> QED  BY <2>1, <2>3, QuietScanInv
<1>5. CASE /\ s \in Scan /\ scan[s].status = "FREE"
           /\ scan' = [scan EXCEPT ![s].status = "FIRST"] /\ owed' = owed /\ ret' = AME_PF
  <2>1. PICK g : g = [scan[s] EXCEPT !.status = "FIRST"]
    OBVIOUS
  <2>2. IsHandle(g) /\ g.status = "FIRST"
    BY <1>1, <1>5, <2>1, StatusIs
  <2>3. /\ DOMAIN scan' = Scan /\ scan'[s] = g /\ \A u \in Scan : u # s => scan'[u] = scan[u]
    BY <1>1, <1>5, <2>1
  <2>4. \A u \in Scan : IsHandle(scan'[u]) /\ (scan'[u].status = "FREE" => owed'[u] = NoScan)
    <3> TAKE u \in Scan
    <3>1. CASE u = s
      BY <2>2, <2>3, <3>1
    <3>2. CASE u # s
      BY <1>1, <1>5, <2>3, <3>2
    <3> QED  BY <3>1, <3>2
  <2>5. TableIs'
    BY <1>1, <1>2, <1>5, <2>3, <2>4 DEF TableIs
  <2>6. ret' \notin RecId
    BY <1>5, ScanConstants
  <2>7. ASSUME NEW A, NEW L, NEW rng, Followed(A, L, rng), NEW u \in Serves' PROVE ServedNow(u, A, L, rng)
    <3>1. u \in Scan /\ owed'[u] # NoScan
      BY <2>7 DEF Serves, Held
    <3>2. u # s
      BY <1>1, <1>5, <3>1
    <3>3. scan'[u] = scan[u] /\ owed'[u] = owed[u]
      BY <1>5, <2>3, <3>1, <3>2
    <3>4. u \in Serves /\ ~Just(u)'
      BY <1>5, <2>6, <2>7, <3>3 DEF Serves, Held, Just
    <3> QED  BY <3>3, <3>4 DEF ServedNow
  <2> QED  BY <2>5, <2>7, QuietScanInv
<1>6. CASE /\ s \in Scan /\ scan[s].status = "FREE" /\ ret' = s
           /\ \E h, op, v :
                /\ scan' = [scan EXCEPT ![s] = h] /\ owed' = [owed EXCEPT ![s] = Asked(indexed, op, v)]
                /\ IsHandle(h) /\ h.status # "FREE" /\ h.op = op /\ op \in Operators \cup {"ALL"} /\ v \in Value
                /\ \A A, L, rng : Followed(A, L, rng) /\ op \in Promised =>
                     Serving(h, Asked(indexed, op, v), A, L, rng)
  <2>1. PICK h, op, v :
                /\ scan' = [scan EXCEPT ![s] = h] /\ owed' = [owed EXCEPT ![s] = Asked(indexed, op, v)]
                /\ IsHandle(h) /\ h.status # "FREE" /\ h.op = op
                /\ \A A, L, rng : Followed(A, L, rng) /\ op \in Promised =>
                     Serving(h, Asked(indexed, op, v), A, L, rng)
    BY <1>6
  <2>2. PICK o : o = Asked(indexed, op, v)
    OBVIOUS
  <2>3. o \in SUBSET RecId
    BY <1>3, <2>2 DEF Asked
  <2>4. /\ DOMAIN scan' = Scan /\ scan'[s] = h /\ owed'[s] = o
        /\ owed' \in [Scan -> {NoScan, Lost} \cup SUBSET RecId]
        /\ \A u \in Scan : u # s => scan'[u] = scan[u] /\ owed'[u] = owed[u]
    BY <1>1, <1>6, <2>1, <2>2, <2>3
  <2>5. \A u \in Scan : IsHandle(scan'[u]) /\ (scan'[u].status = "FREE" => owed'[u] = NoScan)
    <3> TAKE u \in Scan
    <3>1. CASE u = s
      BY <2>1, <2>4, <3>1
    <3>2. CASE u # s
      BY <1>1, <2>4, <3>2
    <3> QED  BY <3>1, <3>2
  <2>6. TableIs'
    BY <1>1, <1>2, <2>4, <2>5 DEF TableIs
  <2>7. ret' \notin RecId
    BY <1>6, ScanConstants
  <2>8. ASSUME NEW A, NEW L, NEW rng, Followed(A, L, rng), NEW u \in Serves' PROVE ServedNow(u, A, L, rng)
    <3>1. u \in Scan /\ owed'[u] # NoScan /\ owed'[u] # Lost /\ scan'[u].op \in Promised
      BY <2>8 DEF Serves, Held
    <3>2. ~Just(u)'
      BY <2>7 DEF Just
    <3>3. CASE u = s
      <4>1. Serving(h, o, A, L, rng)
        BY <2>1, <2>2, <2>4, <2>8, <3>1, <3>3
      <4> QED  BY <2>4, <3>2, <3>3, <4>1 DEF ServedNow
    <3>4. CASE u # s
      <4>1. scan'[u] = scan[u] /\ owed'[u] = owed[u]
        BY <2>4, <3>1, <3>4
      <4>2. u \in Serves
        BY <3>1, <4>1 DEF Serves, Held
      <4> QED  BY <3>2, <4>1, <4>2 DEF ServedNow
    <3> QED  BY <3>3, <3>4
  <2> QED  BY <2>6, <2>8, QuietScanInv
<1> QED  BY <1>4, <1>5, <1>6 DEF OpenDoes

(* The search for v ends at a leaf of the chain, to which v belongs. *)
LEMMA SearchLands ==
  ASSUME ScanInv, Idle, status = "open", NEW v \in Value, Got(PathTo(v)) = Len(PathTo(v)),
         NEW A, NEW L, NEW rng, Followed(A, L, rng), NEW p, p = Last(PathTo(v)),
         NEW t, t = AM_SearchLeaf(Values(page[p]), v), NEW found, found = Found(Values(page[p]), v)
  PROVE  \E i \in 1 .. Len(L) : IsAt(L, rng, p, i) /\ v \in rng[p] /\ FoundAt(page[p], v, t, found)
<1>1. AMInv /\ Arranged(A, L, rng)
  BY DEF ScanInv, Followed
<1>2. PICK h : Arrives(h, v)
  BY <1>1, SearchReaches
<1>3. 0 \notin pinned
  BY <1>2, GotUnpinned
<1>4. numpages \in 1 .. MaxPages /\ p \in 0 .. numpages - 1 /\ GoodLeaf(page[p])
  BY <1>2 DEF Arrives
<1>5. Size(numpages) = numpages
  BY <1>4 DEF Size
<1>6. Routes(page, numpages, rng) /\ Order(page, numpages, L, rng, A)
  BY <1>1, <1>3, <1>5 DEF Arranged, Told, Idle
<1>7. v \in rng[p]
  BY <1>2, <1>6, PathInRange
<1>8. page[p].pageType = "l"
  BY <1>4 DEF GoodLeaf, Leaf
<1>9. \E i : IsAt(L, rng, p, i)
  BY <1>4, <1>6, <1>8, LeafIsAt
<1>10. FoundAt(page[p], v, t, found)
  BY <1>4, FoundIs
<1> QED  BY <1>7, <1>9, <1>10 DEF IsAt

(* A scan for all records, *)
LEMMA OpenAllDoes ==
  ASSUME ScanInv, NEW s \in Scan, scan[s].status = "FREE", status = "open", NEW v \in Value, OpenAll(s, v)
  PROVE  OpenDoes(s) /\ pinned' = pinned /\ stack' = stack /\ call' = NoCall
<1>1. CASE Leak(s)
  BY <1>1 DEF Leak, OpenAll, OpenDoes, Return
<1>2. CASE ~Leak(s)
  <2>1. PICK h : h = [FreeHandle EXCEPT !.status = "FIRST"]
    OBVIOUS
  <2>2. /\ Hold(s, AtEntry(h, LeftPageNum, 1), "ALL", v) /\ Return(s)
        /\ UNCHANGED <<pinned, stack>>
    BY <1>2, <2>1 DEF OpenAll
  <2>3. PICK g : g = AtEntry(h, LeftPageNum, 1)
    OBVIOUS
  <2>4. IsHandle(h) /\ h.status = "FIRST" /\ h.op = "ALL"
    BY <2>1 DEF FreeHandle, IsHandle
  <2>5. IsHandle(g) /\ g.op = "ALL" /\ g.status # "FREE"
    BY <2>3, <2>4, AtEntryIs DEF Kin
  <2>6. ASSUME NEW A, NEW L, NEW rng, Followed(A, L, rng) PROVE Serving(g, Asked(indexed, "ALL", v), A, L, rng)
    <3>1. AMInv /\ Arranged(A, L, rng) /\ Single(A) /\ indexed = Indexed
      BY <2>6 DEF ScanInv, Followed
    <3>2. Rows(A, L, rng) /\ Linking(page, Size(numpages), L) /\ indexed = RecordsFrom(A, Value)
      BY <3>1, ArrangedRows, IndexedIs
    <3>3. LeftPageNum = L[1]
      BY <3>2, SMTT(40) DEF Linking, LeftPageNum, AM_RootPageNum
    <3>4. 1 \in 1 .. Len(L) /\ h.op # "EQUAL" /\ IsHandle(h) /\ h.status = "FIRST" /\ g = AtEntry(h, L[1], 1)
      BY <2>3, <2>4, <3>2, <3>3 DEF Rows
    <3>5. Serving(g, Onward(A, L, rng, 1), A, L, rng)
      BY ONLY <3>2, <3>4, FromLeaf
    <3>6. Onward(A, L, rng, 1) = RecordsFrom(A, Value)
      BY <3>2, FromEmptyLeaf
    <3>7. Asked(indexed, "ALL", v) = indexed
      BY DEF Asked, Satisfies
    <3> QED  BY <3>2, <3>5, <3>6, <3>7
  <2>7. scan' = [scan EXCEPT ![s] = g] /\ owed' = [owed EXCEPT ![s] = Asked(indexed, "ALL", v)] /\ ret' = s
    BY <2>2, <2>3 DEF Hold, Asked, Return
  <2>8. OpenDoes(s)
    BY <2>5, <2>6, <2>7 DEF OpenDoes
  <2> QED  BY <2>2, <2>8 DEF Return
<1> QED  BY <1>1, <1>2

(* There is a leaf behind leaf i, unless it is the last. *)
LEMMA NextLeafIs ==
  ASSUME AMInv, status = "open", NEW A, NEW L, NEW rng, Arranged(A, L, rng), NEW i \in 1 .. Len(L)
  PROVE  NextLeaf(L[i]) # AM_NULL_PAGE => NextLeaf(L[i]) \in Pages
<1>1. numpages \in 1 .. MaxPages
  BY DEF AMInv
<1>2. Linking(page, numpages, L)
  BY <1>1, ArrangedRows DEF Size
<1>3. CASE i = Len(L)
  BY <1>2, <1>3 DEF Linking, NextLeaf
<1>4. CASE i # Len(L)
  <2>1. i + 1 \in 1 .. Len(L)
    BY <1>2, <1>4 DEF Linking
  <2>2. NextLeaf(L[i]) = L[i + 1]
    BY <1>2, <1>4 DEF Linking, NextLeaf
  <2> QED  BY <1>2, <2>1, <2>2 DEF Linking, Pages
<1> QED  BY <1>3, <1>4

(* and one that searches for its value. *)
LEMMA OpenAtDoes ==
  ASSUME ScanInv, Idle, status = "open", NEW s \in Scan, scan[s].status = "FREE",
         NEW op \in Operators, op # "ALL", NEW v \in Value, OpenAt(s, op, v)
  PROVE  /\ OpenDoes(s) /\ call' = NoCall /\ stack' = Pushed(PathTo(v), v)
         /\ pinned \subseteq pinned' /\ pinned' \subseteq Pages
<1>1. PICK p : p = Last(PathTo(v))
  OBVIOUS
<1>2. PICK t : t = AM_SearchLeaf(Values(page[p]), v)
  OBVIOUS
<1>3. PICK found : found = Found(Values(page[p]), v)
  OBVIOUS
<1>4. /\ Got(PathTo(v)) = Len(PathTo(v)) /\ stack' = Pushed(PathTo(v), v)
      /\ \/ OpenBetween(s, p, t)
         \/ OpenStarves(s, op, p, t, found)
         \/ OpenInvalid(op, p, t)
         \/ OpenFound(s, op, v, p, t, found)
  BY <1>1, <1>2, <1>3 DEF OpenAt
<1>5. AMInv /\ indexed = Indexed /\ pinned \subseteq Pages
  BY DEF ScanInv, AMInv
<1>6. ASSUME NEW A, NEW L, NEW rng, Followed(A, L, rng)
      PROVE  \E i \in 1 .. Len(L) : /\ IsAt(L, rng, p, i) /\ v \in rng[p] /\ FoundAt(page[p], v, t, found)
                                    /\ p \in Pages /\ (NextLeaf(p) # AM_NULL_PAGE => NextLeaf(p) \in Pages)
  <2>1. PICK i \in 1 .. Len(L) : IsAt(L, rng, p, i) /\ v \in rng[p] /\ FoundAt(page[p], v, t, found)
    BY <1>1, <1>2, <1>3, <1>4, <1>6, SearchLands
  <2>2. Arranged(A, L, rng)
    BY <1>6 DEF Followed
  <2>3. L[i] = p
    BY <2>1 DEF IsAt
  <2>4. NextLeaf(p) # AM_NULL_PAGE => NextLeaf(p) \in Pages
    BY <1>5, <2>2, <2>3, NextLeafIs
  <2>5. p \in Pages
    <3>1. PICK h : Arrives(h, v)
      BY <1>5, SearchReaches
    <3> QED  BY <1>1, <3>1 DEF Arrives, Pages
  <2> QED  BY <2>1, <2>4, <2>5
<1>7. p \in Pages /\ (NextLeaf(p) # AM_NULL_PAGE => NextLeaf(p) \in Pages)
  <2>1. PICK A, L, rng : Followed(A, L, rng)
    BY DEF ScanInv
  <2> QED  BY <1>6, <2>1
<1>8. CASE OpenBetween(s, p, t)
  <2>1. pinned' = pinned \cup {p} \cup (IF PoolIsFull(pinned \cup {p}) THEN {} ELSE {NextLeaf(p)})
        /\ NextLeaf(p) # AM_NULL_PAGE /\ Leak(s)
    BY <1>8 DEF OpenBetween
  <2>2. pinned \subseteq pinned' /\ pinned' \subseteq Pages
    BY <1>5, <1>7, <2>1
  <2> QED  BY <1>4, <2>1, <2>2 DEF Leak, OpenDoes, Return
<1>9. CASE OpenStarves(s, op, p, t, found)
  <2>1. pinned' = pinned \cup {p} /\ Leak(s)
    BY <1>9 DEF OpenStarves
  <2> QED  BY <1>4, <1>5, <1>7, <2>1 DEF Leak, OpenDoes, Return
<1>10. CASE OpenInvalid(op, p, t)
  <2>1. pinned' = pinned \cup {p} /\ Return(AME_INVALID_OP_TO_SCAN) /\ UNCHANGED <<scan, owed>>
    BY <1>10 DEF OpenInvalid
  <2> QED  BY <1>4, <1>5, <1>7, <2>1 DEF OpenDoes, Return
<1>11. CASE OpenFound(s, op, v, p, t, found)
  <2>1. /\ t <= LastKey(p) \/ NextLeaf(p) = AM_NULL_PAGE
        /\ op # "other" /\ Hold(s, Opened(op, p, t, found), op, v) /\ Return(s) /\ pinned' = pinned
    BY <1>11 DEF OpenFound
  <2>2. PICK g : g = Opened(op, p, t, found)
    OBVIOUS
  <2>3. IsHandle(g) /\ g.status # "FREE" /\ g.op = op
    BY <2>1, <2>2, OpenedIs
  <2>4. ASSUME NEW A, NEW L, NEW rng, Followed(A, L, rng), op \in Promised
        PROVE  Serving(g, Asked(indexed, op, v), A, L, rng)
    <3>1. PICK i \in 1 .. Len(L) : IsAt(L, rng, p, i) /\ v \in rng[p] /\ FoundAt(page[p], v, t, found)
      BY <1>6, <2>4
    <3>2. Arranged(A, L, rng) /\ Single(A)
      BY <2>4 DEF Followed
    <3>3. Rows(A, L, rng) /\ indexed = RecordsFrom(A, Value)
      BY <1>5, <3>2, ArrangedRows, IndexedIs
    <3>4. Landed(A, L, rng, i, v, p, t, found)
      BY <2>1, <3>1, <3>2, <3>3 DEF Landed, IsAt
    <3>5. PICK o : o = Asked(RecordsFrom(A, Value), op, v)
      OBVIOUS
    <3>6. Serving(g, o, A, L, rng)
      BY <2>2, <2>4, <3>4, <3>5, OpenedServes
    <3> QED  BY <3>3, <3>5, <3>6
  <2>5. scan' = [scan EXCEPT ![s] = g] /\ owed' = [owed EXCEPT ![s] = Asked(indexed, op, v)]
        /\ ret' = s /\ call' = NoCall
    BY <2>1, <2>2 DEF Hold, Asked, Return
  <2>6. OpenDoes(s)
    BY <2>3, <2>4, <2>5 DEF OpenDoes
  <2> QED  BY <1>4, <1>5, <2>1, <2>5, <2>6
<1> QED  BY <1>4, <1>8, <1>9, <1>10, <1>11

(* AM_OpenIndexScan does nothing else. *)
LEMMA OpenIs ==
  ASSUME ScanInv, AM_OpenIndexScan
  PROVE  Quiet /\ \E s : OpenDoes(s)
<1>1. Idle /\ status = "open" /\ UNCHANGED <<file, others, behind, indexed>>
  BY DEF AM_OpenIndexScan, MaySearch
<1>2. AMInv /\ pinned \subseteq Pages /\ stack \in Seq(StackEntry)
  BY DEF ScanInv, AMInv
<1>3. PICK free : free = {s \in Scan : scan[s].status = "FREE"}
  OBVIOUS
<1>4. ASSUME call' = NoCall, pinned \subseteq pinned', pinned' \subseteq Pages, stack' \in Seq(StackEntry)
      PROVE  Quiet
  BY <1>1, <1>4 DEF Quiet, file
<1>5. CASE free = {}
  <2>1. Return(AME_SCAN_TAB_FULL) /\ UNCHANGED <<pinned, stack, scan, owed>>
    BY <1>3, <1>5 DEF AM_OpenIndexScan
  <2> QED  BY <1>2, <1>4, <2>1 DEF Return, OpenDoes
<1>6. CASE free # {}
  <2>1. PICK op \in Operators, v \in Value : OpenFree(Min(free), op, v)
    BY <1>3, <1>6 DEF AM_OpenIndexScan
  <2>2. PICK s : s = Min(free)
    OBVIOUS
  <2>3. s \in Scan /\ scan[s].status = "FREE"
    <3>1. free \in SUBSET Nat
      BY <1>3 DEF Scan
    <3>2. s \in free
      BY <1>6, <2>2, <3>1, LeastNumber
    <3> QED  BY <1>3, <3>2
  <2>4. PICK h : Arrives(h, v)
    BY <1>1, <1>2, SearchReaches
  <2>5. Pushed(PathTo(v), v) \in Seq(StackEntry)
    BY <1>2, <2>4, PushedIs
  <2>6. CASE OpenAll(s, v)
    <3>1. OpenDoes(s) /\ pinned' = pinned /\ stack' = stack /\ call' = NoCall
      BY <1>1, <2>3, <2>6, OpenAllDoes
    <3> QED  BY <1>2, <1>4, <3>1
  <2>7. CASE OpenSearchFails(v)
    <3>1. /\ pinned' = pinned /\ Return(AME_PF) /\ stack' = Pushed(PathTo(v), v) /\ UNCHANGED <<scan, owed>>
      BY <2>7 DEF OpenSearchFails, SearchFails
    <3> QED  BY <1>2, <1>4, <2>5, <3>1 DEF Return, OpenDoes
  <2>8. CASE op # "ALL" /\ OpenAt(s, op, v)
    <3>1. /\ OpenDoes(s) /\ call' = NoCall /\ stack' = Pushed(PathTo(v), v)
          /\ pinned \subseteq pinned' /\ pinned' \subseteq Pages
      BY <1>1, <2>3, <2>8, OpenAtDoes
    <3> QED  BY <1>4, <2>5, <3>1
  <2> QED  BY <2>1, <2>2, <2>6, <2>7, <2>8 DEF OpenFree
<1> QED  BY <1>5, <1>6

(* AM_OpenIndexScan keeps the invariant. *)
LEMMA OpenInv ==
  ASSUME ScanInv, AM_OpenIndexScan
  PROVE  ScanInv'
BY OpenIs, OpenTable

-----------------------------------------------------------------------------
(* The deletion of the record that has just been told. *)

(* A2 is A without r, which is the q-th record of v. *)
Lessens(A, A2, v, r, q) ==
    /\ A \in [Value -> Seq(RecId)] /\ A2 \in [Value -> Seq(RecId)] /\ Single(A) /\ Single(A2)
    /\ v \in Value /\ q \in 1 .. Len(A[v]) /\ r = A[v][q]
    /\ \A x \in Value : x # v => A2[x] = A[x]
    /\ Len(A2[v]) = Len(A[v]) - 1
    /\ \A k \in 1 .. Len(A2[v]) : A2[v][k] = IF k < q THEN A[v][k] ELSE A[v][k + 1]

(* So does the deletion of r from the sequence of its value. *)
LEMMA LessensIs ==
  ASSUME NEW A \in [Value -> Seq(RecId)], Single(A), NEW v \in Value, NEW r \in RecId, r \in Range(A[v]),
         NEW q, q = FirstOf(A[v], r), NEW A2, A2 = Without(A, v, r)
  PROVE  Lessens(A, A2, v, r, q)
<1>1. A[v] \in Seq(RecId)
  OBVIOUS
<1>2. q \in 1 .. Len(A[v]) /\ A[v][q] = r
  BY <1>1, FirstIs
<1>3. PICK u : u = RemoveAt(A[v], q)
  OBVIOUS
<1>4. /\ u \in Seq(RecId) /\ Len(u) = Len(A[v]) - 1
      /\ \A p \in 1 .. Len(u) : u[p] = IF p < q THEN A[v][p] ELSE A[v][p + 1]
  <2>1. PICK C \in Seq(RecId) : C = A[v]
    BY <1>1
  <2>2. q \in 1 .. Len(C) /\ u = RemoveAt(C, q)
    BY <1>2, <1>3, <2>1
  <2>3. /\ u \in Seq(RecId) /\ Len(u) = Len(C) - 1
        /\ \A p \in 1 .. Len(u) : u[p] = IF p < q THEN C[p] ELSE C[p + 1]
    BY ONLY <2>2, RemoveAtIs
  <2> QED  BY <2>1, <2>3
<1>5. A2 = [A EXCEPT ![v] = u]
  BY <1>3 DEF Without
<1>6. A2 \in [Value -> Seq(RecId)] /\ A2[v] = u /\ \A x \in Value : x # v => A2[x] = A[x]
  BY <1>4, <1>5
<1>7. Single(A2)
  <2> SUFFICES ASSUME NEW x \in Value, NEW k \in 1 .. Len(A2[x])
               PROVE  ValueOf[A2[x][k]] = x /\ \A j \in 1 .. Len(A2[x]) : A2[x][j] = A2[x][k] => j = k
    BY DEF Single
  <2>1. CASE x # v
    <3>1. A2[x] = A[x]
      BY <1>6, <2>1
    <3> QED  BY <3>1 DEF Single
  <2>2. CASE x = v
    <3>1. \A j \in 1 .. Len(u) : \E i \in 1 .. Len(A[v]) :
            u[j] = A[v][i] /\ (j < q => i = j) /\ (~(j < q) => i = j + 1)
      <4> TAKE j \in 1 .. Len(u)
      <4>1. CASE j < q
        <5>1. j \in 1 .. Len(A[v])
          BY <1>1, <1>4
        <5> QED  BY <1>4, <4>1, <5>1
      <4>2. CASE ~(j < q)
        <5>1. j + 1 \in 1 .. Len(A[v])
          BY <1>1, <1>4
        <5> QED  BY <1>4, <4>2, <5>1
      <4> QED  BY <4>1, <4>2
    <3>2. k \in 1 .. Len(u) /\ A2[x] = u
      BY <1>6, <2>2
    <3>3. PICK i \in 1 .. Len(A[v]) : u[k] = A[v][i] /\ (k < q => i = k) /\ (~(k < q) => i = k + 1)
      BY <3>1, <3>2
    <3>4. ASSUME NEW j \in 1 .. Len(u), u[j] = u[k] PROVE j = k
      <4>1. PICK n \in 1 .. Len(A[v]) : u[j] = A[v][n] /\ (j < q => n = j) /\ (~(j < q) => n = j + 1)
        BY <3>1
      <4>2. n = i
        <5>1. \A a, b \in 1 .. Len(A[v]) : A[v][a] = A[v][b] => a = b
          BY <1>2 DEF Single
        <5>2. A[v][n] = A[v][i]
          BY <3>3, <3>4, <4>1
        <5> QED  BY ONLY <5>1, <5>2
      <4>3. j \in Int /\ k \in Int /\ q \in Int
        BY <1>2, <3>2
      <4> QED  BY <3>3, <4>1, <4>2, <4>3
    <3>5. ValueOf[u[k]] = v
      BY <3>3 DEF Single
    <3> QED  BY <2>2, <3>2, <3>4, <3>5
  <2> QED  BY <2>1, <2>2
<1> QED  BY <1>2, <1>4, <1>6, <1>7 DEF Lessens

(* The records of some values, and from some place on. *)
LEMMA LessFrom ==
  ASSUME NEW A, NEW A2, NEW v, NEW r, NEW q, Lessens(A, A2, v, r, q)
  PROVE  /\ \A S : S \subseteq Value => RecordsFrom(A2, S) = RecordsFrom(A, S) \ {r}
         /\ \A x \in Value : x # v => r \notin Range(A[x])
         /\ r \in RecId /\ r \in Range(A[v])
<1>1. /\ A \in [Value -> Seq(RecId)] /\ A2 \in [Value -> Seq(RecId)] /\ Single(A) /\ Single(A2)
      /\ v \in Value /\ q \in 1 .. Len(A[v]) /\ r = A[v][q]
      /\ \A x \in Value : x # v => A2[x] = A[x]
      /\ Len(A2[v]) = Len(A[v]) - 1
      /\ \A k \in 1 .. Len(A2[v]) : A2[v][k] = IF k < q THEN A[v][k] ELSE A[v][k + 1]
  BY DEF Lessens
<1>2. A[v] \in Seq(RecId) /\ A2[v] \in Seq(RecId) /\ q \in Nat /\ Len(A[v]) \in Nat
  BY <1>1
<1>3. \A x \in Value : \A c : c \in Range(A[x]) <=> \E k \in 1 .. Len(A[x]) : c = A[x][k]
  <2>1. \A x \in Value : A[x] \in Seq(RecId)
    BY <1>1
  <2> QED  BY <2>1 DEF Range
<1>4. \A c : c \in Range(A2[v]) <=> \E k \in 1 .. Len(A2[v]) : c = A2[v][k]
  BY <1>2 DEF Range
<1>5. \A x \in Value : x # v => r \notin Range(A[x])
  <2>1. ValueOf[r] = v
    BY <1>1 DEF Single
  <2>2. \A x \in Value : \A k \in 1 .. Len(A[x]) : ValueOf[A[x][k]] = x
    BY <1>1 DEF Single
  <2>3. ASSUME NEW x \in Value, x # v, r \in Range(A[x]) PROVE FALSE
    <3>1. PICK k \in 1 .. Len(A[x]) : r = A[x][k]
      BY <1>3, <2>3
    <3>2. ValueOf[r] = x
      BY <2>2, <3>1
    <3> QED  BY <2>1, <2>3, <3>2
  <2> QED  BY <2>3
<1>6. Range(A2[v]) = Range(A[v]) \ {r}
  <2>1. ASSUME NEW c \in Range(A2[v]) PROVE c \in Range(A[v]) /\ c # r
    <3>1. PICK k \in 1 .. Len(A2[v]) : c = A2[v][k]
      BY <1>4
    <3>2. CASE k < q
      <4>1. k \in 1 .. Len(A[v]) /\ c = A[v][k] /\ k # q
        BY <1>1, <1>2, <3>1, <3>2
      <4>2. c # r
        BY <1>1, <4>1 DEF Single
      <4> QED  BY <1>1, <1>3, <4>1, <4>2
    <3>3. CASE ~(k < q)
      <4>1. PICK j : j = k + 1
        OBVIOUS
      <4>2. j \in 1 .. Len(A[v]) /\ c = A[v][j] /\ j # q
        BY <1>1, <1>2, <3>1, <3>3, <4>1
      <4>3. c # r
        BY <1>1, <4>2 DEF Single
      <4> QED  BY <1>1, <1>3, <4>2, <4>3
    <3> QED  BY <3>2, <3>3
  <2>2. ASSUME NEW c \in Range(A[v]), c # r PROVE c \in Range(A2[v])
    <3>1. PICK j \in 1 .. Len(A[v]) : c = A[v][j]
      BY <1>1, <1>3
    <3>2. j # q
      BY <1>1, <2>2, <3>1
    <3>3. CASE j < q
      <4>1. j \in 1 .. Len(A2[v])
        BY <1>1, <1>2, <3>3
      <4>2. c = A2[v][j]
        BY <1>1, <3>1, <3>3, <4>1
      <4> QED  BY <1>4, <4>1, <4>2
    <3>4. CASE ~(j < q)
      <4>1. PICK k : k = j - 1
        OBVIOUS
      <4>2. k \in 1 .. Len(A2[v]) /\ ~(k < q) /\ k + 1 = j
        BY <1>1, <1>2, <3>2, <3>4, <4>1
      <4>3. c = A2[v][k]
        BY <1>1, <3>1, <4>2
      <4> QED  BY <1>4, <4>2, <4>3
    <3> QED  BY <3>3, <3>4
  <2> QED  BY <2>1, <2>2
<1>7. \A x \in Value : Range(A2[x]) = Range(A[x]) \ {r}
  <2> TAKE x \in Value
  <2>1. CASE x = v
    BY <1>6, <2>1
  <2>2. CASE x # v
    BY <1>1, <1>5, <2>2
  <2> QED  BY <2>1, <2>2
<1>8. ASSUME NEW S, S \subseteq Value PROVE RecordsFrom(A2, S) = RecordsFrom(A, S) \ {r}
  BY <1>7, <1>8 DEF RecordsFrom
<1>9. r \in RecId /\ r \in Range(A[v])
  BY <1>1, <1>2, <1>3
<1> QED  BY <1>5, <1>8, <1>9

(* What is due is due still, if the scan has told r. *)
LEMMA DueLess ==
  ASSUME NEW A, NEW A2, NEW v, NEW r, NEW q, Lessens(A, A2, v, r, q), NEW x \in Value, NEW m \in 1 .. Len(A[x]), NEW op
  PROVE  /\ x # v => Due(A2, op, x, m) = Due(A, op, x, m) \ {r}
         /\ x = v /\ r \notin Due(A, op, v, m) => q < m /\ m - 1 \in 1 .. Len(A2[v])
                                                 /\ Due(A2, op, v, m - 1) = Due(A, op, v, m)
<1>1. /\ A \in [Value -> Seq(RecId)] /\ Single(A) /\ A2 \in [Value -> Seq(RecId)]
      /\ v \in Value /\ q \in 1 .. Len(A[v]) /\ r = A[v][q]
      /\ \A w \in Value : w # v => A2[w] = A[w]
      /\ Len(A2[v]) = Len(A[v]) - 1
      /\ \A k \in 1 .. Len(A2[v]) : A2[v][k] = IF k < q THEN A[v][k] ELSE A[v][k + 1]
  BY DEF Lessens
<1>2. A[v] \in Seq(RecId) /\ q \in Nat /\ Len(A[v]) \in Nat /\ m \in Nat /\ m >= 1
  BY <1>1
<1>3. Greater(A2, x) = Greater(A, x) \ {r}
  BY LessFrom DEF Greater
<1>4. ASSUME x # v PROVE Due(A2, op, x, m) = Due(A, op, x, m) \ {r}
  <2>1. Rest(A2, x, m) = Rest(A, x, m)
    BY <1>1, <1>4 DEF Rest
  <2>2. r \notin Range(A[x])
    BY <1>4, LessFrom
  <2>3. A[x] \in Seq(RecId)
    BY <1>1
  <2>4. r \notin Rest(A, x, m)
    BY <2>2, <2>3 DEF Rest, Range
  <2> QED  BY <1>3, <2>1, <2>4 DEF Due
<1>5. ASSUME x = v, r \notin Due(A, op, v, m)
      PROVE  q < m /\ m - 1 \in 1 .. Len(A2[v]) /\ Due(A2, op, v, m - 1) = Due(A, op, v, m)
  <2>1. q < m
    <3>1. r \notin Rest(A, v, m)
      BY <1>5 DEF Due
    <3>2. ~(q >= m)
      BY <1>1, <3>1 DEF Rest
    <3> QED  BY <1>2, <3>2
  <2>2. m - 1 \in 1 .. Len(A2[v])
    BY <1>1, <1>2, <1>5, <2>1
  <2>3. Rest(A2, v, m - 1) = Rest(A, v, m)
    <3>1. ASSUME NEW c \in Rest(A2, v, m - 1) PROVE c \in Rest(A, v, m)
      <4>1. PICK k \in 1 .. Len(A2[v]) : k >= m - 1 /\ c = A2[v][k]
        BY DEF Rest
      <4>2. ~(k < q) /\ k + 1 \in 1 .. Len(A[v]) /\ k + 1 >= m
        BY <1>1, <1>2, <2>1, <4>1
      <4>3. c = A[v][k + 1]
        BY <1>1, <4>1, <4>2
      <4> QED  BY <4>2, <4>3 DEF Rest
    <3>2. ASSUME NEW c \in Rest(A, v, m) PROVE c \in Rest(A2, v, m - 1)
      <4>1. PICK j \in 1 .. Len(A[v]) : j >= m /\ c = A[v][j]
        BY DEF Rest
      <4>2. PICK k : k = j - 1
        OBVIOUS
      <4>3. k \in 1 .. Len(A2[v]) /\ ~(k < q) /\ k + 1 = j /\ k >= m - 1
        BY <1>1, <1>2, <2>1, <4>1, <4>2
      <4>4. c = A2[v][k]
        BY <1>1, <4>1, <4>3
      <4> QED  BY <4>3, <4>4 DEF Rest
    <3> QED  BY <3>1, <3>2
  <2>4. Due(A2, op, v, m - 1) = Due(A, op, v, m)
    BY <1>3, <1>5, <2>3 DEF Due
  <2> QED  BY <2>1, <2>2, <2>4
<1> QED  BY <1>4, <1>5

(* The q-th cell of key j, whose value is v, is taken from leaf l; of what *)
(* is behind the keys only this matters.                                   *)
Deleting(l, l2, b, b2, j, s, q, v) ==
    /\ j \in 1 .. Len(l.keys) /\ l.keys[j].value = v /\ Len(l.keys) \in Nat
    /\ s = KeyCells(l, j) /\ s \in Seq(Cell) /\ Len(s) \in Nat /\ q \in 1 .. Len(s)
    /\ Removed(l, l2, j, s, q)
    /\ Len(l2.keys) = Len(l.keys) => b2 = b
    /\ Len(l2.keys) # Len(l.keys) /\ l.keys[Len(l.keys)].value # v =>
         b2.value = l.keys[Len(l.keys)].value

(* A scan at the very key from which the cell is taken is where it is due, *)
LEMMA PlaceSame ==
  ASSUME NEW l, NEW l2, NEW b, NEW b2, NEW j, NEW s, NEW q, NEW v, Deleting(l, l2, b, b2, j, s, q, v),
         NEW h, NEW p, NEW m, PlacedAt(h, l, b, p, j, m), q < m
  PROVE  PlacedAt(h, l2, b2, p, j, m - 1) /\ l2.keys[j].value = v
<1>1. /\ j \in 1 .. Len(l.keys) /\ l.keys[j].value = v /\ Len(l.keys) \in Nat
      /\ s = KeyCells(l, j) /\ s \in Seq(Cell) /\ Len(s) \in Nat /\ q \in 1 .. Len(s)
      /\ Removed(l, l2, j, s, q) /\ (Len(l2.keys) = Len(l.keys) => b2 = b)
  BY DEF Deleting
<1>2. /\ m \in 1 .. Len(s) /\ h.nextRecIdPtr = s[m] /\ h.nextpageNum = p
      /\ h.op = "EQUAL" => h.pageNum = p /\ h.index = h.actindex /\ h.index \in Nat
      /\ \/ h.status = "FIRST" /\ h.nextIndex = j
         \/ /\ h.status = "BUSY" /\ h.nextvalue = l.keys[j].value
            /\ \/ h.nextIndex = j
               \/ h.nextIndex = j + 1 /\ j < Len(l.keys) /\ m = 1
               \/ h.nextIndex = j + 1 /\ j = Len(l.keys) /\ b.value = h.nextvalue
  BY <1>1 DEF PlacedAt
<1>3. Len(s) # 1 /\ m # 1
  BY <1>1, <1>2
<1>4. /\ Len(l2.keys) = Len(l.keys) /\ l2.keys[j].value = l.keys[j].value
      /\ KeyCells(l2, j) = RemoveAt(s, q)
  BY <1>1, <1>3 DEF Removed
<1>5. PICK u : u = RemoveAt(s, q)
  OBVIOUS
<1>6. Len(u) = Len(s) - 1 /\ \A k \in 1 .. Len(u) : u[k] = IF k < q THEN s[k] ELSE s[k + 1]
  BY <1>1, <1>5, RemoveAtIs
<1>7. PICK k : k = m - 1
  OBVIOUS
<1>8. k \in 1 .. Len(u) /\ ~(k < q) /\ k + 1 = m
  BY <1>1, <1>2, <1>6, <1>7
<1>9. u[k] = s[m]
  BY <1>6, <1>8
<1>10. b2 = b
  BY <1>1, <1>4
<1>11. PlacedAt(h, l2, b2, p, j, k)
  BY <1>1, <1>2, <1>3, <1>4, <1>5, <1>8, <1>9, <1>10 DEF PlacedAt
<1> QED  BY <1>1, <1>4, <1>7, <1>11

(* and so is one at another key of that leaf. *)
LEMMA PlaceOther ==
  ASSUME NEW l, NEW l2, NEW b, NEW b2, NEW j, NEW s, NEW q, NEW v, Deleting(l, l2, b, b2, j, s, q, v),
         NEW h, NEW p, NEW t, NEW m, PlacedAt(h, l, b, p, t, m), ToldAt(h, l, t, m, v), l.keys[t].value # v
  PROVE  m = 1 /\ \E t2 : PlacedAt(h, l2, b2, p, t2, 1) /\ l2.keys[t2].value = l.keys[t].value
<1>1. /\ j \in 1 .. Len(l.keys) /\ l.keys[j].value = v /\ Len(l.keys) \in Nat
      /\ Removed(l, l2, j, s, q)
      /\ Len(l2.keys) # Len(l.keys) /\ l.keys[Len(l.keys)].value # v =>
           b2.value = l.keys[Len(l.keys)].value
  BY DEF Deleting
<1>2. m = 1 /\ h.nextIndex = t /\ h.status = "BUSY"
  BY DEF ToldAt
<1>3. /\ t \in 1 .. Len(l.keys) /\ 1 \in 1 .. Len(KeyCells(l, t)) /\ h.nextRecIdPtr = KeyCells(l, t)[1]
      /\ h.nextpageNum = p /\ h.nextvalue = l.keys[t].value
      /\ h.op = "EQUAL" => h.pageNum = p /\ h.index = h.actindex /\ h.index \in Nat
  BY <1>2 DEF PlacedAt
<1>4. t # j
  BY <1>1
<1>5. CASE Len(s) # 1
  <2>1. Len(l2.keys) = Len(l.keys) /\ l2.keys[t].value = l.keys[t].value /\ KeyCells(l2, t) = KeyCells(l, t)
    BY <1>1, <1>3, <1>4, <1>5 DEF Removed
  <2>2. PlacedAt(h, l2, b2, p, t, 1)
    BY <1>2, <1>3, <2>1 DEF PlacedAt
  <2> QED  BY <1>2, <2>1, <2>2
<1>6. CASE Len(s) = 1
  <2>1. /\ Len(l2.keys) = Len(l.keys) - 1
        /\ \A i \in 1 .. Len(l.keys) : \A k \in 1 .. Len(l2.keys) :
             (i < j /\ k = i) \/ (i > j /\ k + 1 = i) =>
               l2.keys[k].value = l.keys[i].value /\ KeyCells(l2, k) = KeyCells(l, i)
    BY <1>1, <1>6 DEF Removed
  <2>2. CASE t < j
    <3>1. t \in 1 .. Len(l2.keys)
      BY <1>1, <1>3, <2>1, <2>2
    <3>2. l2.keys[t].value = l.keys[t].value /\ KeyCells(l2, t) = KeyCells(l, t)
      BY <1>3, <2>1, <2>2, <3>1
    <3>3. PlacedAt(h, l2, b2, p, t, 1)
      BY <1>2, <1>3, <3>1, <3>2 DEF PlacedAt
    <3> QED  BY <1>2, <3>2, <3>3
  <2>3. CASE t > j
    <3>1. PICK k : k = t - 1
      OBVIOUS
    <3>2. k \in 1 .. Len(l2.keys) /\ k + 1 = t
      BY <1>1, <1>3, <2>1, <2>3, <3>1
    <3>3. l2.keys[k].value = l.keys[t].value /\ KeyCells(l2, k) = KeyCells(l, t)
      BY <1>3, <2>1, <2>3, <3>2
    <3>4. k < Len(l2.keys) \/ (k = Len(l2.keys) /\ b2.value = h.nextvalue)
      <4>1. CASE t = Len(l.keys)
        <5>1. Len(l2.keys) # Len(l.keys) /\ l.keys[Len(l.keys)].value # v
          BY <1>1, <2>1, <4>1
        <5>2. b2.value = h.nextvalue
          BY <1>1, <1>3, <4>1, <5>1
        <5>3. k = Len(l2.keys)
          BY <1>1, <2>1, <3>1, <4>1
        <5> QED  BY <5>2, <5>3
      <4>2. CASE t # Len(l.keys)
        <5>1. k < Len(l2.keys)
          BY <1>1, <1>3, <2>1, <3>1, <4>2
        <5> QED  BY <5>1
      <4> QED  BY <4>1, <4>2
    <3>5. PlacedAt(h, l2, b2, p, k, 1)
      BY <1>2, <1>3, <3>2, <3>3, <3>4 DEF PlacedAt
    <3> QED  BY <1>2, <3>3, <3>5
  <2>4. t < j \/ t > j
    BY <1>1, <1>3, <1>4
  <2> QED  BY <2>2, <2>3, <2>4
<1> QED  BY <1>5, <1>6

(* The record r of v goes from leaf p, in this step. *)
Strikes(A, A2, L, rng, p, v, r, q) ==
    /\ Rows(A, L, rng) /\ Lessens(A, A2, v, r, q)
    /\ \E i : IsAt(L, rng, p, i)
    /\ v \in rng[p]
    /\ \E j, s : Deleting(page[p], page'[p], behind[p], behind'[p], j, s, q, v)
    /\ \A u \in PageNum : u # p => page'[u] = page[u] /\ behind'[u] = behind[u]

(* A scan that is ready for the deletion is served after it. *)
LEMMA StruckServes ==
  ASSUME NEW A, NEW A2, NEW L, NEW rng, NEW p, NEW v, NEW r, NEW q, Strikes(A, A2, L, rng, p, v, r, q),
         NEW h, NEW o, Ready(h, o, A, L, rng, v), r \notin o
  PROVE  Serving(h, o, A2, L, rng)'
<1>1. Rows(A, L, rng) /\ Lessens(A, A2, v, r, q) /\ v \in rng[p] /\ v \in Value
  BY DEF Strikes, Lessens
<1>2. PICK i0 : IsAt(L, rng, p, i0)
  BY DEF Strikes
<1>3. PICK j, s : Deleting(page[p], page'[p], behind[p], behind'[p], j, s, q, v)
  BY DEF Strikes
<1>4. \A u \in PageNum : u # p => page'[u] = page[u] /\ behind'[u] = behind[u]
  BY DEF Strikes
<1>5. \A i \in 1 .. Len(L) : L[i] \in PageNum /\ (L[i] = p \/ (page'[L[i]] = page[L[i]] /\ behind'[L[i]] = behind[L[i]]))
  BY <1>1, <1>4 DEF Rows
<1>6. CASE Over(h) /\ o = {}
  BY <1>6 DEF Serving, Over
<1>7. CASE \E i : AtEmpty(h, o, A, L, rng, i)
  <2>1. PICK i \in 1 .. Len(L) : AtEmpty(h, o, A, L, rng, i)
    BY <1>7 DEF AtEmpty
  <2>2. /\ h.nextpageNum = L[i] /\ Len(page[L[i]].keys) = 0
        /\ h.op # "EQUAL" /\ h.status \in {"FIRST", "BUSY"} /\ o = Onward(A, L, rng, i)
    BY <2>1 DEF AtEmpty
  <2>3. L[i] # p
    BY <1>3, <2>2 DEF Deleting
  <2>4. Onward(A2, L, rng, i) = o
    <3>1. PICK S : S = {w \in Value : \E k \in 1 .. Len(L) : i <= k /\ w \in rng[L[k]]}
      OBVIOUS
    <3>2. S \subseteq Value /\ Onward(A, L, rng, i) = RecordsFrom(A, S) /\ Onward(A2, L, rng, i) = RecordsFrom(A2, S)
      BY <3>1 DEF Onward
    <3>3. RecordsFrom(A2, S) = RecordsFrom(A, S) \ {r}
      BY <1>1, <3>2, LessFrom
    <3> QED  BY <2>2, <3>2, <3>3
  <2>5. page'[L[i]] = page[L[i]]
    BY <1>5, <2>3
  <2>6. AtEmpty(h, o, A2, L, rng, i)'
    BY <2>2, <2>4, <2>5 DEF AtEmpty
  <2> QED  BY <2>6 DEF Serving
<1>8. CASE \E i, t, m : AtKey(h, o, A, L, i, t, m) /\ ToldAt(h, page[L[i]], t, m, v)
  <2>1. PICK i, t, m : AtKey(h, o, A, L, i, t, m) /\ ToldAt(h, page[L[i]], t, m, v)
    BY <1>8
  <2>2. /\ i \in 1 .. Len(L) /\ PlacedAt(h, page[L[i]], behind[L[i]], L[i], t, m)
        /\ o = Due(A, h.op, page[L[i]].keys[t].value, m)
    BY <2>1 DEF AtKey
  <2>3. PICK x : x = page[L[i]].keys[t].value
    OBVIOUS
  <2>4. t \in 1 .. Len(page[L[i]].keys) /\ m \in 1 .. Len(KeyCells(page[L[i]], t))
    BY <2>2, SMTT(40) DEF PlacedAt
  <2>5. x \in Value /\ x \in rng[L[i]]
    BY <1>1, <2>2, <2>3, <2>4 DEF Rows
  <2>6. m \in 1 .. Len(A[x])
    <3>1. PICK y, c : KeyIs(A, L[i], t, y, c)
      BY <1>1, <2>2, <2>4, KeyOf
    <3> QED  BY <2>3, <2>4, <3>1 DEF KeyIs
  <2>7. PICK op : op = h.op
    OBVIOUS
  <2>8. /\ x # v => Due(A2, op, x, m) = Due(A, op, x, m) \ {r}
        /\ x = v /\ r \notin Due(A, op, v, m) => q < m /\ m - 1 \in 1 .. Len(A2[v])
                                                /\ Due(A2, op, v, m - 1) = Due(A, op, v, m)
    BY <1>1, <2>5, <2>6, DueLess
  <2>9. CASE L[i] # p
    <3>1. x # v
      <4>1. i # i0
        BY <1>2, <2>9 DEF IsAt
      <4> QED  BY <1>1, <1>2, <2>2, <2>5, <4>1 DEF IsAt
    <3>2. page'[L[i]] = page[L[i]] /\ behind'[L[i]] = behind[L[i]]
      BY <1>5, <2>2, <2>9, SMTT(40)
    <3>3. o = Due(A2, op, x, m)
      BY <2>2, <2>3, <2>7, <2>8, <3>1
    <3>4. AtKey(h, o, A2, L, i, t, m)'
      BY <2>2, <2>3, <2>7, <3>2, <3>3 DEF AtKey
    <3> QED  BY <3>4 DEF Serving
  <2>10. CASE L[i] = p /\ x = v
    <3>1. t = j
      <4>1. /\ \A a, b \in 1 .. Len(page[p].keys) : a < b => page[p].keys[a].value < page[p].keys[b].value
            /\ \A a \in 1 .. Len(page[p].keys) : page[p].keys[a].value \in Int
            /\ Len(page[p].keys) \in Nat
        BY <1>1, <2>2, <2>10 DEF Rows
      <4>2. j \in 1 .. Len(page[p].keys) /\ t \in 1 .. Len(page[p].keys)
            /\ page[p].keys[j].value = v /\ page[p].keys[t].value = v
        BY <1>3, <2>3, <2>4, <2>10 DEF Deleting
      <4>3. ~(t < j) /\ ~(j < t)
        BY <4>1, <4>2
      <4> QED  BY <4>2, <4>3, SMTT(40)
    <3>2. q < m /\ o = Due(A2, op, v, m - 1)
      BY <2>2, <2>3, <2>7, <2>8, <2>10
    <3>3. PlacedAt(h, page[p], behind[p], p, j, m)
      BY <2>2, <2>10, <3>1
    <3>4. PlacedAt(h, page'[p], behind'[p], p, j, m - 1) /\ page'[p].keys[j].value = v
      BY <1>3, <3>2, <3>3, PlaceSame
    <3>5. AtKey(h, o, A2, L, i, j, m - 1)'
      BY <2>2, <2>7, <2>10, <3>2, <3>4 DEF AtKey
    <3> QED  BY <3>5 DEF Serving
  <2>11. CASE L[i] = p /\ x # v
    <3>1. PlacedAt(h, page[p], behind[p], p, t, m) /\ ToldAt(h, page[p], t, m, v) /\ page[p].keys[t].value # v
      BY <2>1, <2>2, <2>3, <2>11
    <3>2. m = 1 /\ \E t2 : PlacedAt(h, page'[p], behind'[p], p, t2, 1) /\ page'[p].keys[t2].value = page[p].keys[t].value
      BY <1>3, <3>1, PlaceOther
    <3>3. PICK t2 : PlacedAt(h, page'[p], behind'[p], p, t2, 1) /\ page'[p].keys[t2].value = x
      BY <2>3, <2>11, <3>2
    <3>4. o = Due(A2, op, x, 1)
      BY <2>2, <2>3, <2>7, <2>8, <2>11, <3>2
    <3>5. AtKey(h, o, A2, L, i, t2, 1)'
      BY <2>2, <2>7, <2>11, <3>3, <3>4 DEF AtKey
    <3> QED  BY <3>5 DEF Serving
  <2> QED  BY <2>9, <2>10, <2>11
<1> QED  BY <1>6, <1>7, <1>8 DEF Ready

(* DeleteFound takes the record from the order. *)
LEMMA FoundArranged ==
  ASSUME AMInv, Idle, status = "open", NEW A, NEW L, NEW rng, Arranged(A, L, rng),
         NEW v \in Value, NEW r \in RecId, DeleteFound(v, r)
  PROVE  Arranged(Without(A, v, r), L, rng)' /\ r \in Range(A[v])
<1>1. PICK h : Arrives(h, v)
  BY SearchReaches
<1>2. OrderIs(A)
  BY ArrangedIs
<1>3. PICK A2 : A2 = Without(A, v, r)
  OBVIOUS
<1>4. r \in Range(A[v]) /\ Keeping(A, A2)
  BY <1>1, <1>2, <1>3, DeleteFoundOrder DEF Without
<1>5. 0 \notin pinned
  BY <1>1, GotUnpinned DEF DeleteFound
<1>6. numpages \in 1 .. MaxPages
  BY DEF AMInv
<1>7. Order(page, numpages, L, rng, A) /\ Routes(page, numpages, rng)
  BY <1>5, <1>6 DEF Arranged, Told, Size, Idle
<1>8. Order(page', numpages', L, rng, A2) /\ Routes(page', numpages', rng)
  BY <1>4, <1>7 DEF Keeping
<1>9. numpages' = numpages /\ call' = NoCall
  BY DEF DeleteFound, Return
<1>10. Arranged(A2, L, rng)'
  BY <1>6, <1>8, <1>9 DEF Arranged, Size, Told
<1> QED  BY <1>3, <1>4, <1>10

(* The key of v in the leaf that the search finds. *)
FindsIn(A, L, rng, i, p, v, r, j) ==
    /\ Rows(A, L, rng) /\ i \in 1 .. Len(L) /\ p = L[i] /\ v \in Value
    /\ Contains(RecordsIn(page[p], v), r) /\ j = AM_SearchLeaf(Values(page[p]), v)

(* The key of v is in the leaf that the search comes to. *)
LEMMA FoundKey ==
  ASSUME NEW A, NEW L, NEW rng, NEW i, NEW p, NEW v, NEW r, NEW j, FindsIn(A, L, rng, i, p, v, r, j)
  PROVE  /\ j \in 1 .. Len(page[p].keys) /\ page[p].keys[j].value = v /\ GoodLeaf(page[p])
         /\ A[v] = RecIds(page[p], j) /\ r \in Range(A[v])
<1> USE DEF FindsIn
<1>1. GoodLeaf(page[p]) /\ Len(page[p].keys) \in Nat
  BY DEF Rows
<1>2. PICK found : found = Found(Values(page[p]), v)
  OBVIOUS
<1>3. FoundAt(page[p], v, j, found)
  BY <1>1, <1>2, FoundIs
<1>4. found
  <2>1. ~found => RecordsIn(page[p], v) = << >>
    BY <1>2 DEF RecordsIn
  <2>2. RecordsIn(page[p], v) # << >>
    BY DEF Contains
  <2> QED  BY <2>1, <2>2
<1>5. j \in 1 .. Len(page[p].keys) /\ page[p].keys[j].value = v
  BY <1>1, <1>3, <1>4, SMTT(40) DEF FoundAt, Place
<1>6. A[v] = RecIds(page[p], j)
  BY <1>5 DEF Rows
<1>7. RecordsIn(page[p], v) = RecIds(page[p], j)
  BY <1>2, <1>4 DEF RecordsIn
<1>8. r \in Range(A[v])
  BY <1>6, <1>7 DEF Contains, Range
<1> QED  BY <1>1, <1>5, <1>6, <1>8

(* DeleteFound strikes the record. *)
LEMMA ToldStrikes ==
  ASSUME ScanInv, Idle, status = "open", NEW A, NEW L, NEW rng, Followed(A, L, rng),
         NEW r \in RecId, NEW v, v = ValueOf[r], DeleteFound(v, r), NEW p, p = Last(PathTo(v)),
         behind' = [behind EXCEPT ![p] = LeftBehind(p, v)]
  PROVE  \E q : Strikes(A, Without(A, v, r), L, rng, p, v, r, q)
<1>1. AMInv /\ Arranged(A, L, rng) /\ Single(A) /\ behind = [u \in PageNum |-> behind[u]]
  BY DEF ScanInv, Followed, TableIs
<1>2. v \in Value
  BY ScanConstants
<1>3. Rows(A, L, rng)
  BY <1>1, ArrangedRows
<1>4. PICK j : j = AM_SearchLeaf(Values(page[p]), v)
  OBVIOUS
<1>5. PICK i \in 1 .. Len(L) : IsAt(L, rng, p, i) /\ v \in rng[p]
  BY <1>2, SearchLands DEF DeleteFound
<1>6. /\ Contains(RecordsIn(page[p], v), r)
      /\ page' = [page EXCEPT ![p] = DeleteFromLeaf(page[p], j, r)]
  BY <1>4 DEF DeleteFound
<1>7. /\ j \in 1 .. Len(page[p].keys) /\ page[p].keys[j].value = v /\ GoodLeaf(page[p])
      /\ A[v] = RecIds(page[p], j) /\ r \in Range(A[v])
  <2>1. FindsIn(A, L, rng, i, p, v, r, j)
    BY <1>2, <1>3, <1>4, <1>5, <1>6 DEF IsAt, FindsIn
  <2> QED  BY ONLY <2>1, FoundKey
<1>8. PICK s : Listed(page[p], j, s)
  BY <1>7, KeyHasList
<1>9. PICK q : q = FirstOf(A[v], r)
  OBVIOUS
<1>10. PICK l2 : l2 = DeleteFromLeaf(page[p], j, r)
  OBVIOUS
<1>11. q \in 1 .. Len(s) /\ Removed(page[p], l2, j, s, q)
  BY <1>7, <1>8, <1>9, <1>10, DeleteLists
<1>12. p \in PageNum /\ DOMAIN page = PageNum /\ Len(page[p].keys) \in Nat
  <2>1. p \in PageNum /\ Len(page[p].keys) \in Nat
    BY <1>3, <1>5 DEF IsAt, Rows
  <2>2. DOMAIN page = PageNum
    BY <1>1 DEF AMInv, Tree, Nodes
  <2> QED  BY <2>1, <2>2
<1>13. page'[p] = l2 /\ behind'[p] = LeftBehind(p, v)
       /\ \A u \in PageNum : u # p => page'[u] = page[u] /\ behind'[u] = behind[u]
  BY <1>1, <1>6, <1>10, <1>12, SMTT(40)
<1>14. /\ Len(l2.keys) = Len(page[p].keys) => behind'[p] = behind[p]
       /\ Len(l2.keys) # Len(page[p].keys) /\ page[p].keys[Len(page[p].keys)].value # v =>
            behind'[p].value = page[p].keys[Len(page[p].keys)].value
  BY <1>13 DEF LeftBehind, Last
<1>15. Deleting(page[p], page'[p], behind[p], behind'[p], j, s, q, v)
  <2>1. s = KeyCells(page[p], j) /\ s \in Seq(Cell) /\ Len(s) \in Nat
    BY <1>8 DEF Listed
  <2> QED  BY <1>7, <1>11, <1>12, <1>13, <1>14, <2>1, SMTT(40) DEF Deleting
<1>16. Lessens(A, Without(A, v, r), v, r, q)
  <2>1. A \in [Value -> Seq(RecId)]
    BY <1>3 DEF Rows
  <2> QED  BY <1>1, <1>2, <1>7, <1>9, <2>1, LessensIs, SMTT(40)
<1> QED  BY <1>3, <1>5, <1>13, <1>15, <1>16 DEF Strikes

(* A deletion of what a scan has told, as the client calls for it. *)
Struck(v, r) ==
    /\ Idle /\ status = "open" /\ ret = r /\ v = ValueOf[r] /\ r \in RecId /\ v \in Value
    /\ AM_DeleteEntry(v, r, TRUE)
    /\ behind' = [behind EXCEPT ![Last(PathTo(v))] = LeftBehind(Last(PathTo(v)), v)]
    /\ indexed' = Indexed' /\ UNCHANGED <<scan, owed>>
    /\ \E s \in Scan : Held = {s}

(* DeleteTold is such a deletion. *)
LEMMA DeleteToldIs ==
  ASSUME ScanInv, DeleteTold
  PROVE  \E v, r : Struck(v, r)
<1>1. PICK r \in RecId : r = ret
  BY DEF DeleteTold
<1>2. PICK v \in Value : v = ValueOf[r]
  BY ScanConstants
<1>3. IsFiniteSet(Scan)
  BY AMScanAssumption, FS_Interval DEF Scan
<1>4. IsFiniteSet(Held)
  BY <1>3, FS_Subset DEF Held
<1>5. Cardinality(Held) = 1
  BY DEF DeleteTold
<1>6. PICK s : Held = {s}
  BY <1>4, <1>5, FS_Singleton
<1>7. s \in Scan
  BY <1>6 DEF Held
<1>8. Idle /\ status = "open"
  BY <1>6 DEF ScanInv
<1>9. /\ AM_DeleteEntry(v, r, TRUE)
      /\ behind' = [behind EXCEPT ![Last(PathTo(v))] = LeftBehind(Last(PathTo(v)), v)]
      /\ indexed' = Indexed' /\ UNCHANGED <<scan, owed>>
  BY <1>1, <1>2 DEF DeleteTold
<1> QED  BY <1>1, <1>2, <1>6, <1>7, <1>8, <1>9 DEF Struck

Missed == Quiet /\ UNCHANGED <<scan, owed>> /\ ret' \in {AME_PF, AME_NOTFOUND} /\ ret' \notin RecId

(* If the record is not found only a page may be left fixed. *)
LEMMA StruckMisses ==
  ASSUME ScanInv, NEW v, NEW r, Struck(v, r), ~DeleteFound(v, r)
  PROVE  Missed
<1>1. /\ Idle /\ status = "open" /\ v \in Value /\ indexed' = Indexed' /\ UNCHANGED <<scan, owed>>
      /\ DeleteFails(v, TRUE) \/ DeleteNotFound(v, r)
  BY DEF Struck, AM_DeleteEntry
<1>2. AMInv /\ behind = [u \in PageNum |-> behind[u]] /\ indexed = Indexed
  BY DEF ScanInv, TableIs
<1>3. PICK h : Arrives(h, v)
  BY <1>1, <1>2, SearchReaches
<1>4. PICK p : p = Last(PathTo(v))
  OBVIOUS
<1>5. p \in PageNum /\ p \in Pages
  BY <1>3, <1>4 DEF Arrives, Pages
<1>6. Pushed(PathTo(v), v) \in Seq(StackEntry)
  BY <1>1, <1>2, <1>3, PushedIs
<1>7. /\ UNCHANGED <<status, numpages, page>> /\ stack' \in Seq(StackEntry) /\ call' = NoCall
      /\ pinned \subseteq pinned' /\ pinned' \subseteq Pages /\ ret' \in {AME_PF, AME_NOTFOUND}
  <2>1. pinned \subseteq Pages
    BY <1>2 DEF AMInv
  <2>2. CASE DeleteFails(v, TRUE)
    BY <1>6, <2>1, <2>2 DEF DeleteFails, SearchFails, Return, file
  <2>3. CASE DeleteNotFound(v, r)
    BY <1>4, <1>5, <1>6, <2>1, <2>3 DEF DeleteNotFound, Return, file
  <2> QED  BY <1>1, <2>2, <2>3
<1>8. behind' = behind
  <2>1. LeftBehind(p, v) = behind[p]
    BY <1>7 DEF LeftBehind
  <2>2. behind' = [behind EXCEPT ![p] = LeftBehind(p, v)]
    BY <1>4 DEF Struck
  <2> QED  BY <1>2, <1>5, <2>1, <2>2
<1>9. indexed' = indexed
  BY <1>1, <1>2, <1>7, SameIndexed
<1>10. ret' \notin RecId
  BY <1>7, ScanConstants
<1> QED  BY <1>1, <1>7, <1>8, <1>9, <1>10 DEF Missed, Quiet

(* The invariant holds then, *)
LEMMA MissedInv ==
  ASSUME ScanInv, Missed
  PROVE  ScanInv'
<1>1. Quiet /\ UNCHANGED <<scan, owed>> /\ ret' \notin RecId /\ behind' = behind
  BY DEF Missed, Quiet
<1>2. TableIs' /\ Held' = Held
  BY <1>1 DEF ScanInv, TableIs, Held
<1>3. ASSUME NEW A, NEW L, NEW rng, Followed(A, L, rng), NEW u \in Serves' PROVE ServedNow(u, A, L, rng)
  <2>1. u \in Serves /\ ~Just(u)'
    BY <1>1, <1>2, <1>3 DEF Serves, Just
  <2> QED  BY <1>1, <2>1 DEF ServedNow
<1> QED  BY <1>1, <1>2, <1>3, QuietScanInv

Strike(A, A2, L, rng, v, r) ==
    /\ Followed(A2, L, rng)' /\ r \in Range(A[v]) /\ v \in Value
    /\ \E q : Lessens(A, A2, v, r, q)
    /\ \A s \in Serves : r \notin owed[s] /\ r \in indexed

(* and if it is found the one scan there is goes on from its place; *)
LEMMA StruckFollowed ==
  ASSUME ScanInv, NEW v, NEW r, Struck(v, r), DeleteFound(v, r), NEW A, NEW L, NEW rng, Followed(A, L, rng)
  PROVE  Strike(A, Without(A, v, r), L, rng, v, r)
<1>1. PICK A2 : A2 = Without(A, v, r)
  OBVIOUS
<1>2. AMInv /\ Idle /\ status = "open" /\ ret = r /\ v = ValueOf[r] /\ r \in RecId /\ v \in Value
      /\ UNCHANGED <<scan, owed>> /\ \E s \in Scan : Held = {s}
  BY DEF Struck, ScanInv
<1>3. Arranged(A, L, rng) /\ \A s \in Serves : Served(s, A, L, rng)
  BY DEF Followed
<1>4. Arranged(A2, L, rng)' /\ r \in Range(A[v])
  BY <1>1, <1>2, <1>3, FoundArranged
<1>5. PICK p : p = Last(PathTo(v))
  OBVIOUS
<1>6. behind' = [behind EXCEPT ![p] = LeftBehind(p, v)]
  BY <1>5 DEF Struck
<1>7. PICK q : Strikes(A, A2, L, rng, p, v, r, q)
  BY <1>1, <1>2, <1>5, <1>6, ToldStrikes
<1>8. Lessens(A, A2, v, r, q) /\ Single(A2)
  BY <1>7 DEF Strikes, Lessens
<1>9. Serves' = Serves /\ Held' = Held
  BY <1>2 DEF Serves, Held
<1>10. ret' \notin RecId
  <2>1. ret' = AME_OK
    BY DEF DeleteFound, Return
  <2> QED  BY <2>1, ScanConstants
<1>11. ASSUME NEW s \in Serves PROVE r \notin owed[s] /\ r \in indexed /\ Ready(scan[s], owed[s], A, L, rng, v)
  <2>1. Just(s)
    BY <1>2, <1>11 DEF Just, Serves
  <2> QED  BY <1>2, <1>3, <1>11, <2>1 DEF Served
<1>12. ASSUME NEW s \in Serves' PROVE Served(s, A2, L, rng)'
  <2>1. PICK h : h = scan[s]
    OBVIOUS
  <2>2. PICK o : o = owed[s]
    OBVIOUS
  <2>3. Ready(h, o, A, L, rng, v) /\ r \notin o
    BY <1>9, <1>11, <2>1, <2>2
  <2>4. Serving(h, o, A2, L, rng)'
    BY <1>7, <2>3, StruckServes
  <2>5. h = scan'[s] /\ o = owed'[s] /\ ~Just(s)'
    BY <1>2, <1>10, <2>1, <2>2 DEF Just
  <2> QED  BY <2>4, <2>5 DEF Served
<1>13. Followed(A2, L, rng)'
  BY <1>4, <1>8, <1>12 DEF Followed, Single
<1> QED  BY <1>1, <1>2, <1>4, <1>8, <1>11, <1>13 DEF Strike

(* so the invariant holds again. *)
LEMMA StruckInv ==
  ASSUME ScanInv, NEW v, NEW r, Struck(v, r), DeleteFound(v, r)
  PROVE  ScanInv'
<1>1. AMInv /\ v \in Value /\ r \in RecId /\ status = "open" /\ TableIs /\ indexed' = Indexed'
      /\ UNCHANGED <<scan, owed>> /\ Idle /\ AM_DeleteEntry(v, r, TRUE)
  BY DEF ScanInv, Struck
<1>2. PICK A, L, rng : Followed(A, L, rng)
  BY DEF ScanInv
<1>3. \E B, M, b : Followed(B, M, b)'
  BY <1>2, StruckFollowed DEF Strike
<1>4. AMInv'
  BY <1>1, DeleteInv
<1>5. status' = "open" /\ Idle'
  BY <1>1 DEF DeleteFound, Return, Idle
<1>6. TableIs'
  <2>1. PICK p : p = Last(PathTo(v))
    OBVIOUS
  <2>2. PICK b : b = LeftBehind(p, v)
    OBVIOUS
  <2>3. behind' = [behind EXCEPT ![p] = b]
    BY <2>1, <2>2 DEF Struck
  <2>4. behind = [u \in PageNum |-> behind[u]]
    BY <1>1 DEF TableIs
  <2>5. behind' = [u \in PageNum |-> behind'[u]]
    BY <2>3, <2>4
  <2> QED  BY <1>1, <2>5 DEF TableIs
<1> QED  BY <1>1, <1>3, <1>4, <1>5, <1>6 DEF ScanInv, NoFile

(* DeleteTold keeps the invariant. *)
LEMMA DeleteToldInv ==
  ASSUME ScanInv, DeleteTold
  PROVE  ScanInv'
<1>1. PICK v, r : Struck(v, r)
  BY DeleteToldIs
<1> QED  BY <1>1, StruckMisses, MissedInv, StruckInv

-----------------------------------------------------------------------------
(* Updates, with no scan held. *)

Grows(A, A2, v, r) ==
    /\ A2 \in [Value -> Seq(RecId)] /\ Single(A2)
    /\ RecordsFrom(A2, Value) = RecordsFrom(A, Value) \cup {r}

(* An insertion of a record that is not there leaves each there once. *)
LEMMA GrowsIs ==
  ASSUME NEW A \in [Value -> Seq(RecId)], Single(A), NEW v \in Value, NEW r \in RecId, v = ValueOf[r],
         r \notin RecordsFrom(A, Value), NEW A2, A2 = With(A, v, r)
  PROVE  Grows(A, A2, v, r)
<1>1. PICK C \in Seq(RecId) : C = A[v]
  OBVIOUS
<1>2. PICK u : u = <<r>> \o C
  OBVIOUS
<1>3. u \in Seq(RecId) /\ Fronted(u, r, C)
  BY <1>2 DEF Fronted
<1>4. A2 = [A EXCEPT ![v] = u]
  BY <1>1, <1>2 DEF With
<1>5. A2 \in [Value -> Seq(RecId)] /\ A2[v] = u /\ \A w \in Value : w # v => A2[w] = A[w]
  BY <1>3, <1>4
<1>6. \A k \in 1 .. Len(C) : C[k] # r
  <2> SUFFICES ASSUME NEW k \in 1 .. Len(C), C[k] = r PROVE FALSE
    OBVIOUS
  <2>1. r \in Range(A[v])
    BY <1>1 DEF Range
  <2> QED  BY <2>1 DEF RecordsFrom
<1>7. Len(C) \in Nat /\ Len(u) = Len(C) + 1 /\ u[1] = r /\ \A p \in 1 .. Len(C) : u[p + 1] = C[p]
  BY <1>3 DEF Fronted
<1>8. \A k \in 1 .. Len(u) : k = 1 \/ (k - 1 \in 1 .. Len(C) /\ u[k] = C[k - 1])
  <2> SUFFICES ASSUME NEW k \in 1 .. Len(u), k # 1 PROVE k - 1 \in 1 .. Len(C) /\ u[k] = C[k - 1]
    OBVIOUS
  <2>1. k - 1 \in 1 .. Len(C) /\ (k - 1) + 1 = k
    BY <1>7
  <2> QED  BY <1>7, <2>1
<1>9. \A k \in 1 .. Len(u) : ValueOf[u[k]] = v /\ \A j \in 1 .. Len(u) : u[j] = u[k] => j = k
  <2>1. \A k \in 1 .. Len(C) : ValueOf[C[k]] = v /\ \A j \in 1 .. Len(C) : C[j] = C[k] => j = k
    BY <1>1 DEF Single
  <2>2. ASSUME NEW k \in 1 .. Len(u) PROVE ValueOf[u[k]] = v
    BY <1>7, <1>8, <2>1
  <2>3. ASSUME NEW k \in 1 .. Len(u), NEW j \in 1 .. Len(u), u[j] = u[k] PROVE j = k
    <3>1. CASE k = 1 /\ j = 1
      BY <3>1
    <3>2. CASE k = 1 /\ j # 1
      BY <1>6, <1>7, <1>8, <2>3, <3>2
    <3>3. CASE k # 1 /\ j = 1
      BY <1>6, <1>7, <1>8, <2>3, <3>3
    <3>4. CASE k # 1 /\ j # 1
      <4>1. k - 1 \in 1 .. Len(C) /\ j - 1 \in 1 .. Len(C) /\ C[j - 1] = C[k - 1]
        BY <1>8, <2>3, <3>4
      <4>2. j - 1 = k - 1
        BY <2>1, <4>1
      <4> QED  BY <1>7, <4>2
    <3> QED  BY <3>1, <3>2, <3>3, <3>4
  <2> QED  BY <2>2, <2>3
<1>10. Single(A2)
  <2> SUFFICES ASSUME NEW w \in Value, NEW k \in 1 .. Len(A2[w])
               PROVE  ValueOf[A2[w][k]] = w /\ \A j \in 1 .. Len(A2[w]) : A2[w][j] = A2[w][k] => j = k
    BY DEF Single
  <2>1. CASE w = v
    BY <1>5, <1>9, <2>1
  <2>2. CASE w # v
    <3>1. A2[w] = A[w]
      BY <1>5, <2>2
    <3> QED  BY <3>1 DEF Single
  <2> QED  BY <2>1, <2>2
<1>11. Range(u) = Range(C) \cup {r}
  <2>1. DOMAIN u = 1 .. Len(u) /\ DOMAIN C = 1 .. Len(C)
    BY <1>3
  <2>2. ASSUME NEW x \in Range(u) PROVE x \in Range(C) \cup {r}
    <3>1. PICK k \in 1 .. Len(u) : x = u[k]
      BY <2>1 DEF Range
    <3> QED  BY <1>7, <1>8, <2>1, <3>1 DEF Range
  <2>3. ASSUME NEW x \in Range(C) PROVE x \in Range(u)
    <3>1. PICK k \in 1 .. Len(C) : x = C[k]
      BY <2>1 DEF Range
    <3>2. k + 1 \in 1 .. Len(u) /\ u[k + 1] = x
      BY <1>7, <3>1
    <3> QED  BY <2>1, <3>2 DEF Range
  <2>4. r \in Range(u)
    <3>1. 1 \in 1 .. Len(u)
      BY <1>7
    <3> QED  BY <1>7, <2>1, <3>1 DEF Range
  <2> QED  BY <2>2, <2>3, <2>4
<1>12. ASSUME NEW x PROVE x \in RecordsFrom(A2, Value) <=> x \in RecordsFrom(A, Value) \cup {r}
  <2>1. x \in RecordsFrom(A2, Value) <=> \E w \in Value : x \in Range(A2[w])
    BY DEF RecordsFrom
  <2>2. x \in RecordsFrom(A, Value) <=> \E w \in Value : x \in Range(A[w])
    BY DEF RecordsFrom
  <2>3. \A w \in Value : Range(A2[w]) = IF w = v THEN Range(A[w]) \cup {r} ELSE Range(A[w])
    BY <1>1, <1>5, <1>11
  <2> QED  BY <2>1, <2>2, <2>3
<1> QED  BY <1>5, <1>10, <1>12 DEF Grows

(* What an update leaves in the tree, and what it returns. *)
Updates(A, A2) ==
    \/ A2 = A /\ Answer' \in {AME_OK} \cup Errors
    \/ A2 = NoEntries /\ Answer' = AME_OK
    \/ \E r \in RecId : /\ r \notin indexed /\ A2 = With(A, ValueOf[r], r)
                        /\ Answer' \in {AME_OK} \cup Errors
    \/ \E r \in RecId : /\ r \in Range(A[ValueOf[r]]) /\ A2 = Without(A, ValueOf[r], r)
                        /\ Answer' = AME_OK

(* Creating, destroying, opening and closing: all entries stay or go. *)
LEMMA FileUpdates ==
  ASSUME AMInv, NoFile, NEW A, OrderIs(A), AM_CreateIndex \/ AM_DestroyIndex \/ PF_OpenFile \/ PF_CloseFile
  PROVE  \E A2 : OrderIs(A2)' /\ Updates(A, A2)
<1>1. Idle /\ call' = NoCall /\ pinned' = pinned
  BY DEF AM_CreateIndex, AM_DestroyIndex, PF_OpenFile, PF_CloseFile, Return
<1>2. ret' = AME_OK \/ (ret' = AME_PF /\ UNCHANGED <<numpages, page>>)
  BY DEF AM_CreateIndex, AM_DestroyIndex, PF_OpenFile, PF_CloseFile, Return, file
<1>3. Answer' = ret'
  BY <1>1 DEF Answer, Idle
<1>4. CASE ret' = AME_OK
  <2>1. status = "none" => numpages = 0
    BY DEF NoFile
  <2>2. PICK A2 \in {A, NoEntries} : OrderIs(A2)'
    BY <2>1, FileOrder
  <2> QED  BY <1>3, <1>4, <2>2 DEF Updates
<1>5. CASE ret' = AME_PF /\ UNCHANGED <<numpages, page>>
  <2>1. OrderIs(A)'
    BY <1>1, <1>5, OrderUnchanged
  <2> QED  BY <1>3, <1>5, <2>1 DEF Updates, Errors
<1> QED  BY <1>2, <1>4, <1>5

(* A record that is in the index is found. *)
LEMMA RecordIsFound ==
  ASSUME AMInv, Idle, status = "open", NEW A, OrderIs(A), Single(A), indexed = RecordsFrom(A, Value),
         NEW r \in RecId, r \in indexed, NEW v \in Value, v = ValueOf[r]
  PROVE  ~DeleteNotFound(v, r)
<1> SUFFICES ASSUME DeleteNotFound(v, r) PROVE FALSE
  OBVIOUS
<1>0. PICK h : Arrives(h, v)
  BY SearchReaches
<1>1. PICK p : p = Last(PathTo(v))
  OBVIOUS
<1>2. Got(PathTo(v)) = Len(PathTo(v)) /\ ~Contains(RecordsIn(page[p], v), r)
  BY <1>1 DEF DeleteNotFound
<1>3. 0 \notin pinned
  BY <1>0, <1>2, GotUnpinned
<1>4. RecordsIn(page[p], v) = A[v] /\ A \in [Value -> Seq(RecId)]
  BY <1>0, <1>1, <1>3, LeafHas
<1>5. PICK w \in Value : r \in Range(A[w])
  BY DEF RecordsFrom
<1>6. A[w] \in Seq(RecId)
  BY <1>4
<1>7. PICK k \in 1 .. Len(A[w]) : r = A[w][k]
  BY <1>5, <1>6 DEF Range
<1>8. w = v
  BY <1>7 DEF Single
<1>9. r \notin Range(A[v])
  <2>1. RecordsIn(page[p], v) = A[v] /\ A[v] \in Seq(RecId)
    BY <1>4
  <2> QED  BY <1>2, <2>1 DEF Contains, Range
<1> QED  BY <1>5, <1>8, <1>9

(* AM_DeleteEntry of such a record, *)
LEMMA DeleteUpdates ==
  ASSUME AMInv, NEW A, OrderIs(A), Single(A), indexed = RecordsFrom(A, Value), NEW r \in RecId, r \in indexed,
         NEW v \in Value, v = ValueOf[r], AM_DeleteEntry(v, r, TRUE)
  PROVE  \E A2 : OrderIs(A2)' /\ Updates(A, A2)
<1>1. Idle /\ status = "open"
  BY DEF AM_DeleteEntry, MaySearch
<1>2. PICK h : Arrives(h, v)
  BY <1>1, SearchReaches
<1>3. CASE DeleteFails(v, TRUE)
  <2>1. /\ pinned \subseteq pinned' /\ call' = NoCall /\ ret' \in Errors /\ UNCHANGED <<numpages, page>>
    BY <1>3 DEF DeleteFails, SearchFails, Return, Errors, file
  <2>2. OrderIs(A)'
    BY <1>1, <2>1, OrderUnchanged
  <2>3. Answer' = ret'
    BY <2>1 DEF Answer, Idle
  <2> QED  BY <2>1, <2>2, <2>3 DEF Updates
<1>4. ~DeleteNotFound(v, r)
  BY <1>1, RecordIsFound
<1>5. CASE DeleteFound(v, r)
  <2>1. OrderIs(Without(A, v, r))' /\ r \in Range(A[v])
    BY <1>1, <1>2, <1>5, DeleteFoundOrder DEF Without
  <2>2. Answer' = AME_OK
    BY <1>5 DEF DeleteFound, Return, Answer, Idle
  <2> QED  BY <2>1, <2>2 DEF Updates
<1> QED  BY <1>3, <1>4, <1>5 DEF AM_DeleteEntry

(* AM_AddtoParent, *)
LEMMA AddUpdates ==
  ASSUME AMInv, NEW A, OrderIs(A), AM_AddtoParent
  PROVE  \E A2 : OrderIs(A2)' /\ Updates(A, A2)
<1>1. OrderIs(A)'
  BY AddtoParentOrder
<1>2. (call' = NoCall /\ ret' \in {AME_OK, AME_PF}) \/ call' # NoCall
  <2>1. CASE AddFits
    BY <2>1 DEF AddFits, Return
  <2>2. ASSUME NEW p, NEW y, AddBelow(p, y) PROVE call' # NoCall
    <3>1. call'.pageNum = numpages
      BY <2>2 DEF AddBelow
    <3>2. numpages # AM_NULL_PAGE
      BY Constants DEF AMInv, AM_NULL_PAGE
    <3> QED  BY <3>1, <3>2 DEF NoCall
  <2>3. ASSUME NEW p, NEW y, AddAtRoot(p, y) \/ AddFails(p, y)
        PROVE  call' = NoCall /\ ret' \in {AME_OK, AME_PF}
    BY <2>3 DEF AddAtRoot, AddFails, Return
  <2> QED  BY <2>1, <2>2, <2>3 DEF AM_AddtoParent
<1>3. Idle' => ret' \in {AME_OK} \cup Errors
  BY <1>2 DEF Idle, Errors
<1>4. Answer' \in {AME_OK} \cup Errors
  BY <1>3 DEF Answer
<1> QED  BY <1>1, <1>4 DEF Updates

(* and every update. *)
LEMMA UpdateUpdates ==
  ASSUME FewPerKey, AMInv, NoFile, NEW A, OrderIs(A), Single(A), indexed = RecordsFrom(A, Value), Update,
         A \in [Value -> Seq(RecId)]
  PROVE  (\E A2 : OrderIs(A2)' /\ Updates(A, A2)) /\ AMNext
<1>1. indexed \subseteq RecId
  <2> SUFFICES ASSUME NEW r \in indexed PROVE r \in RecId
    OBVIOUS
  <2>1. Value \in SUBSET Value
    OBVIOUS
  <2>2. PICK v \in Value : \E k \in 1 .. Len(A[v]) : r = A[v][k]
    BY <2>1, RecordAt
  <2>3. A[v] \in Seq(RecId)
    OBVIOUS
  <2> QED  BY <2>2, <2>3
<1>2. CASE AM_CreateIndex \/ AM_DestroyIndex \/ PF_OpenFile \/ PF_CloseFile
  BY <1>2, FileUpdates DEF AMNext
<1>3. ASSUME NEW r \in RecId \ indexed, AM_InsertEntry(ValueOf[r], r, TRUE)
      PROVE  (\E A2 : OrderIs(A2)' /\ Updates(A, A2)) /\ AMNext
  <2>1. PICK v \in Value : v = ValueOf[r]
    BY ScanConstants
  <2>2. AM_InsertEntry(v, r, TRUE) /\ TRUE \in BOOLEAN
    BY <1>3, <2>1
  <2>3. \/ OrderIs(A)' /\ Idle' /\ ret' \in Errors
        \/ OrderIs(With(A, v, r))' /\ Answer' \in {AME_OK} \cup Errors
    BY <2>2, InsertOrder
  <2>4. CASE OrderIs(A)' /\ Idle' /\ ret' \in Errors
    <3>1. Answer' \in Errors
      BY <2>4 DEF Answer
    <3> QED  BY <2>2, <2>4, <3>1 DEF Updates, AMNext
  <2>5. CASE OrderIs(With(A, v, r))' /\ Answer' \in {AME_OK} \cup Errors
    BY <2>1, <2>2, <2>5 DEF Updates, AMNext
  <2> QED  BY <2>3, <2>4, <2>5
<1>4. ASSUME NEW r \in indexed, AM_DeleteEntry(ValueOf[r], r, TRUE)
      PROVE  (\E A2 : OrderIs(A2)' /\ Updates(A, A2)) /\ AMNext
  <2>1. r \in RecId
    BY <1>1
  <2>2. PICK v \in Value : v = ValueOf[r]
    BY <2>1, ScanConstants
  <2>3. AM_DeleteEntry(v, r, TRUE) /\ TRUE \in BOOLEAN
    BY <1>4, <2>2
  <2>4. \E A2 : OrderIs(A2)' /\ Updates(A, A2)
    BY <2>1, <2>2, <2>3, DeleteUpdates
  <2> QED  BY <2>1, <2>3, <2>4 DEF AMNext
<1>5. CASE AM_AddtoParent
  BY <1>5, AddUpdates DEF AMNext
<1> QED  BY <1>2, <1>3, <1>4, <1>5 DEF Update

-----------------------------------------------------------------------------
(* The invariant is inductive. *)

(* What holds of the order, now and after the next step. *)
OrderOk ==
    \A A : OrderIs(A) => \E L, rng : Arranged(A, L, rng) /\ (AMInv => Indexed = RecordsFrom(A, Value))

LEMMA OrderIsOk == OrderOk
<1>1. ASSUME NEW A, OrderIs(A)
      PROVE  \E L, rng : Arranged(A, L, rng) /\ (AMInv => Indexed = RecordsFrom(A, Value))
  <2>1. PICK L, rng : Arranged(A, L, rng)
    BY <1>1, ArrangedIs
  <2>2. AMInv => Indexed = RecordsFrom(A, Value)
    BY <2>1, IndexedIs
  <2> QED  BY <2>1, <2>2
<1> QED  BY <1>1 DEF OrderOk

LEMMA OrderStaysOk == OrderOk'
<1>1. OrderOk
  BY OrderIsOk
<1> QED  BY <1>1, PTL

Renews ==
    \/ indexed' = indexed /\ Answer' \in {AME_OK} \cup Errors
    \/ indexed' = {} /\ Answer' = AME_OK
    \/ \E r \in RecId : /\ r \notin indexed /\ indexed' = indexed \cup {r}
                        /\ Answer' \in {AME_OK} \cup Errors
    \/ \E r \in RecId : r \in indexed /\ indexed' = indexed \ {r} /\ Answer' = AME_OK

(* The records in the index change as the entries do. *)
LEMMA UpdatesRenew ==
  ASSUME NEW A \in [Value -> Seq(RecId)], Single(A), indexed = RecordsFrom(A, Value), NEW A2, Updates(A, A2),
         indexed' = RecordsFrom(A2, Value)
  PROVE  Single(A2) /\ Renews
<1>1. CASE A2 = A /\ Answer' \in {AME_OK} \cup Errors
  BY <1>1 DEF Renews
<1>2. CASE A2 = NoEntries /\ Answer' = AME_OK
  <2>1. \A v \in Value : A2[v] = << >>
    BY <1>2 DEF NoEntries
  <2>2. Single(A2)
    BY <2>1 DEF Single
  <2>3. RecordsFrom(A2, Value) = {}
    BY <2>1 DEF RecordsFrom, Range
  <2> QED  BY <1>2, <2>2, <2>3 DEF Renews
<1>3. ASSUME NEW r \in RecId, r \notin indexed, A2 = With(A, ValueOf[r], r), Answer' \in {AME_OK} \cup Errors
      PROVE  Single(A2) /\ Renews
  <2>1. PICK v \in Value : v = ValueOf[r]
    BY ScanConstants
  <2>2. A2 = With(A, v, r) /\ r \notin RecordsFrom(A, Value)
    BY <1>3, <2>1
  <2>3. Grows(A, A2, v, r)
    BY <2>1, <2>2, GrowsIs, SMTT(40)
  <2> QED  BY <1>3, <2>3 DEF Grows, Renews
<1>4. ASSUME NEW r \in RecId, r \in Range(A[ValueOf[r]]), A2 = Without(A, ValueOf[r], r), Answer' = AME_OK
      PROVE  Single(A2) /\ Renews
  <2>1. PICK v \in Value : v = ValueOf[r]
    BY ScanConstants
  <2>2. PICK q : q = FirstOf(A[v], r)
    OBVIOUS
  <2>3. r \in Range(A[v]) /\ A2 = Without(A, v, r)
    BY <1>4, <2>1
  <2>4. Lessens(A, A2, v, r, q)
    BY <2>2, <2>3, LessensIs
  <2>5. RecordsFrom(A2, Value) = RecordsFrom(A, Value) \ {r}
    BY <2>4, LessFrom
  <2>6. r \in indexed
    BY <2>3 DEF RecordsFrom
  <2> QED  BY <1>4, <2>4, <2>5, <2>6 DEF Lessens, Renews
<1> QED  BY <1>1, <1>2, <1>3, <1>4 DEF Updates

(* An update, which comes when no scan is held, keeps the invariant. *)
LEMMA UpdateInv ==
  ASSUME FewPerKey, ScanInv, UpdateIndex
  PROVE  ScanInv' /\ Renews
<1>1. /\ AMInv /\ NoFile /\ TableIs /\ indexed = Indexed /\ Held = {} /\ Update
      /\ behind' = [p \in PageNum |-> NoEntry] /\ indexed' = Indexed' /\ UNCHANGED <<scan, owed>>
  BY DEF ScanInv, UpdateIndex
<1>2. PICK A, L, rng : Arranged(A, L, rng) /\ Single(A)
  BY DEF ScanInv, Followed
<1>3. OrderIs(A)
  BY <1>2, ArrangedIs, SMTT(40)
<1>4. A \in [Value -> Seq(RecId)] /\ indexed = RecordsFrom(A, Value)
  <2>1. Rows(A, L, rng)
    BY <1>1, <1>2, ArrangedRows
  <2>2. Indexed = RecordsFrom(A, Value)
    BY <1>1, <1>2, IndexedIs
  <2> QED  BY <1>1, <2>1, <2>2 DEF Rows
<1>5. AMNext
  BY <1>1, <1>2, <1>3, <1>4, UpdateUpdates
<1>6. PICK A2 : OrderIs(A2)' /\ Updates(A, A2)
  BY <1>1, <1>2, <1>3, <1>4, UpdateUpdates
<1>7. AMInv'
  BY <1>1, <1>5, AMInvInductive
<1>8. NoFile'
  BY <1>1, <1>5, NoFileKept
<1>9. PICK M, b : Arranged(A2, M, b)' /\ (AMInv' => Indexed' = RecordsFrom(A2, Value))
  BY <1>6, OrderStaysOk DEF OrderOk, RecordsFrom
<1>10. Single(A2) /\ Renews
  BY <1>1, <1>2, <1>4, <1>6, <1>7, <1>9, UpdatesRenew
<1>11. Held' = {} /\ Serves' = {}
  BY <1>1 DEF Held, Serves
<1>12. TableIs'
  <2>1. behind' = [p \in PageNum |-> behind'[p]]
    BY <1>1
  <2> QED  BY <1>1, <2>1 DEF TableIs
<1>13. Followed(A2, M, b)'
  BY <1>9, <1>10, <1>11 DEF Followed, Single
<1> QED  BY <1>1, <1>7, <1>8, <1>10, <1>11, <1>12, <1>13 DEF ScanInv

(* The invariant holds at first, *)
LEMMA ScanInitInv == ScanInit => ScanInv
<1> SUFFICES ASSUME ScanInit PROVE ScanInv
  OBVIOUS
<1>1. AMInit /\ scan = [s \in Scan |-> FreeHandle] /\ behind = [p \in PageNum |-> NoEntry]
      /\ indexed = {} /\ owed = [s \in Scan |-> NoScan]
  BY DEF ScanInit
<1>2. AMInv /\ NoFile /\ \E A : OrderIs(A)
  BY <1>1, InitOrder DEF OrderInv
<1>3. PICK A : OrderIs(A)
  BY <1>2
<1>4. A = NoEntries
  <2>1. numpages = 0
    BY <1>1 DEF AMInit
  <2> QED  BY <1>3, <2>1, NoPages
<1>5. PICK L, rng : Arranged(A, L, rng) /\ Indexed = RecordsFrom(A, Value)
  BY <1>2, <1>3, OrderIsOk DEF OrderOk
<1>6. \A v \in Value : A[v] = << >>
  BY <1>4 DEF NoEntries
<1>7. Single(A)
  BY <1>6 DEF Single
<1>8. indexed = Indexed
  <2>1. RecordsFrom(A, Value) = {}
    BY <1>6 DEF RecordsFrom, Range
  <2> QED  BY <1>1, <1>5, <2>1
<1>9. Held = {} /\ Serves = {}
  BY <1>1 DEF Held, Serves
<1>10. TableIs
  <2>1. behind = [p \in PageNum |-> behind[p]]
    BY <1>1
  <2>2. owed \in [Scan -> {NoScan, Lost} \cup SUBSET RecId]
    BY <1>1
  <2> QED  BY <1>1, <2>1, <2>2, FreeIs DEF TableIs
<1>11. Followed(A, L, rng)
  BY <1>5, <1>7, <1>9 DEF Followed
<1> QED  BY <1>2, <1>8, <1>9, <1>10, <1>11 DEF ScanInv

(* when nothing happens, *)
LEMMA IdleInv ==
  ASSUME ScanInv, UNCHANGED allvars
  PROVE  ScanInv'
<1>1. UNCHANGED <<status, numpages, page, pinned, others, stack, call, ret, scan, behind, indexed, owed>>
  BY DEF allvars, amvars, scanvars
<1>2. CASE Idle /\ status = "open"
  <2>1. Quiet
    BY <1>1, <1>2 DEF Quiet, ScanInv, AMInv, Idle
  <2>2. TableIs' /\ Held' = Held
    BY <1>1 DEF ScanInv, TableIs, Held
  <2>3. ASSUME NEW A, NEW L, NEW rng, Followed(A, L, rng), NEW u \in Serves' PROVE ServedNow(u, A, L, rng)
    <3>1. u \in Serves /\ (Just(u)' => Just(u))
      BY <1>1, <2>2, <2>3 DEF Serves, Just
    <3> QED  BY <1>1, <3>1 DEF ServedNow
  <2> QED  BY <2>1, <2>2, <2>3, QuietScanInv
<1>3. CASE ~(Idle /\ status = "open")
  <2>1. Held = {} /\ AMInv /\ NoFile /\ TableIs /\ indexed = Indexed
    BY <1>3 DEF ScanInv
  <2>2. PICK A, L, rng : Arranged(A, L, rng) /\ Single(A)
    BY DEF ScanInv, Followed
  <2>3. AMInv'
    BY <1>1, <2>1, AMInvInductive DEF amvars
  <2>4. NoFile' /\ TableIs' /\ Held' = {} /\ Serves' = {}
    BY <1>1, <2>1 DEF NoFile, TableIs, Held, Serves
  <2>5. (indexed = Indexed)'
    BY <1>1, <2>1, SameIndexed
  <2>6. OrderIs(A)
    BY <2>2, ArrangedIs
  <2>7. OrderIs(A)'
    BY <1>1, <2>6 DEF OrderIs
  <2>8. PICK M, b : Arranged(A, M, b)'
    BY <2>7, OrderStaysOk DEF OrderOk
  <2>9. Followed(A, M, b)'
    BY <2>2, <2>4, <2>8 DEF Followed, Single
  <2> QED  BY <2>3, <2>4, <2>5, <2>9 DEF ScanInv
<1> QED  BY <1>2, <1>3

(* and after every step; *)
LEMMA ScanInductive ==
  ASSUME FewPerKey
  PROVE  ScanInv /\ [ScanNext]_allvars => ScanInv'
<1> SUFFICES ASSUME ScanInv, [ScanNext]_allvars PROVE ScanInv'
  OBVIOUS
<1>1. CASE UpdateIndex
  BY <1>1, UpdateInv
<1>2. CASE OtherPages
  BY <1>2, OtherPagesInv
<1>3. CASE AM_OpenIndexScan
  BY <1>3, OpenInv
<1>4. CASE \E s \in Scan : AM_FindNextEntry(s)
  BY <1>4, FindNextInv
<1>5. CASE \E s \in Scan : AM_CloseIndexScan(s)
  BY <1>5, CloseInv
<1>6. CASE DeleteTold
  BY <1>6, DeleteToldInv
<1>7. CASE UNCHANGED allvars
  BY <1>7, IdleInv
<1> QED  BY <1>1, <1>2, <1>3, <1>4, <1>5, <1>6, <1>7 DEF ScanNext

(* hence always. *)
LEMMA ScanHolds ==
  ASSUME FewPerKey
  PROVE  ScanSpec => []ScanInv
<1>1. ScanInit => ScanInv
  BY ScanInitInv
<1>2. ScanInv /\ [ScanNext]_allvars => ScanInv'
  BY ScanInductive
<1> QED  BY <1>1, <1>2, PTL DEF ScanSpec

-----------------------------------------------------------------------------
(* What is ahead of a scan. *)

(* The records of the greater values in the leaves from the i-th on. *)
After(l, x) ==
    UNION {Range(RecIds(page[l], u)) : u \in {j \in DOMAIN page[l].keys : page[l].keys[j].value > x}}

KeyAt(A, L, rng, i, t, x) ==
    /\ Rows(A, L, rng) /\ L \in Seq(PageNum) /\ i \in 1 .. Len(L)
    /\ t \in 1 .. Len(page[L[i]].keys) /\ x = page[L[i]].keys[t].value

(* They are those of the leaf with the key, and those of the later leaves. *)
LEMMA AfterIs ==
  ASSUME NEW A, NEW L, NEW rng, NEW i, NEW t, NEW x, KeyAt(A, L, rng, i, t, x)
  PROVE  UNION {After(l, x) : l \in Range(SubSeq(L, i, Len(L)))} = Greater(A, x)
<1> USE DEF KeyAt
<1>1. PICK M : M = SubSeq(L, i, Len(L))
  OBVIOUS
<1>2. Len(L) \in Nat /\ i \in Nat
  BY DEF Rows
<1>3. ASSUME NEW l PROVE l \in Range(M) <=> \E j \in 1 .. Len(L) : i <= j /\ l = L[j]
  <2>1. M \in Seq(PageNum) /\ Len(M) = Len(L) - i + 1 /\ \A k \in 1 .. Len(M) : M[k] = L[i + k - 1]
    BY <1>1, <1>2
  <2>2. DOMAIN M = 1 .. Len(M)
    BY <2>1
  <2>3. ASSUME l \in Range(M) PROVE \E j \in 1 .. Len(L) : i <= j /\ l = L[j]
    <3>1. PICK k \in 1 .. Len(M) : l = M[k]
      BY <2>2, <2>3 DEF Range
    <3>2. i + k - 1 \in 1 .. Len(L) /\ i <= i + k - 1 /\ l = L[i + k - 1]
      BY <1>2, <2>1, <3>1, SMTT(40)
    <3> QED  BY <3>2
  <2>4. ASSUME NEW j \in 1 .. Len(L), i <= j, l = L[j] PROVE l \in Range(M)
    <3>1. j - i + 1 \in 1 .. Len(M) /\ i + (j - i + 1) - 1 = j
      <4>1. j \in Int /\ j <= Len(L) /\ Len(M) = Len(L) - i + 1
        BY <1>2, <2>1
      <4>2. j - i + 1 \in Int /\ 1 <= j - i + 1 /\ j - i + 1 <= Len(M)
        BY ONLY <1>2, <2>4, <4>1
      <4> QED  BY ONLY <1>2, <4>1, <4>2
    <3>2. M[j - i + 1] = l
      BY <2>1, <2>4, <3>1
    <3> QED  BY <2>2, <3>1, <3>2 DEF Range
  <2> QED  BY <2>3, <2>4
<1>4. x \in Value /\ x \in Int /\ x \in rng[L[i]]
  BY DEF Rows
<1>5. ASSUME NEW r, NEW l \in Range(M), r \in After(l, x) PROVE r \in Greater(A, x)
  <2>1. PICK j \in 1 .. Len(L) : l = L[j]
    BY <1>3, <1>5
  <2>2. PICK u \in DOMAIN page[l].keys : page[l].keys[u].value > x /\ r \in Range(RecIds(page[l], u))
    BY <1>5 DEF After
  <2>3. GoodLeaf(page[l])
    BY <2>1 DEF Rows
  <2>4. u \in 1 .. Len(page[l].keys)
    <3>1. DOMAIN page[l].keys = 1 .. Len(page[l].keys)
      BY <2>3, LeafParts DEF GoodLeaf
    <3> QED  BY <2>2, <3>1
  <2>5. page[l].keys[u].value \in Value /\ A[page[l].keys[u].value] = RecIds(page[l], u)
    BY <2>1, <2>4 DEF Rows
  <2> QED  BY <2>2, <2>5 DEF Greater, RecordsFrom
<1>6. ASSUME NEW r, r \in Greater(A, x) PROVE \E l \in Range(M) : r \in After(l, x)
  <2>1. PICK w \in Value : w > x /\ r \in Range(A[w])
    BY <1>6 DEF Greater, RecordsFrom
  <2>2. A[w] # << >>
    BY <2>1 DEF Range
  <2>3. PICK j \in 1 .. Len(L) : w \in rng[L[j]] /\ \E u \in 1 .. Len(page[L[j]].keys) : page[L[j]].keys[u].value = w
    BY <2>2, IsKey
  <2>4. PICK u \in 1 .. Len(page[L[j]].keys) : page[L[j]].keys[u].value = w
    BY <2>3
  <2>5. i <= j
    <3>0. \A a, b \in 1 .. Len(L) : a < b => \A v \in rng[L[a]], z \in rng[L[b]] : v < z
      BY DEF Rows
    <3>1. j < i => w < x
      BY <1>4, <2>3, <3>0
    <3>2. w \in Int
      BY DEF Rows
    <3> QED  BY <1>2, <1>4, <2>1, <3>1, <3>2
  <2>6. A[w] = RecIds(page[L[j]], u)
    BY <2>4 DEF Rows
  <2>7. L[j] \in Range(M)
    BY <1>3, <2>5
  <2>8. u \in DOMAIN page[L[j]].keys
    <3>1. GoodLeaf(page[L[j]])
      BY DEF Rows
    <3>2. DOMAIN page[L[j]].keys = 1 .. Len(page[L[j]].keys)
      BY <3>1, LeafParts DEF GoodLeaf
    <3> QED  BY <3>2
  <2> QED  BY <2>1, <2>4, <2>6, <2>7, <2>8 DEF After
<1> QED  BY <1>1, <1>5, <1>6

(* What Following says at the place r that is reached. *)
FollowingAt(h, r) ==
    {page[r.nextpageNum].recId[c] : c \in Range(ListFrom(page[r.nextpageNum], r.nextRecIdPtr))}
      \cup IF h.op = "EQUAL" THEN {}
           ELSE UNION {After(l, IF r.status = "FIRST" THEN WithValue(r).nextvalue ELSE r.nextvalue)
                         : l \in Range(ChainFrom(r.nextpageNum))}

(* Following, at the place that is reached. *)
LEMMA FollowingIs ==
  ASSUME NEW h, NEW r, r = Reached(h)
  PROVE  /\ Over(h) \/ page[r.nextpageNum].keys = << >> => Following(h) = {}
         /\ ~Over(h) /\ page[r.nextpageNum].keys # << >> => Following(h) = FollowingAt(h, r)
  BY DEF Following, FollowingAt, After

(* At a key what follows is what is due. *)
LEMMA FollowingDue ==
  ASSUME AMInv, NEW A, NEW L, NEW rng, Arranged(A, L, rng), NEW h, IsHandle(h), ~Over(h),
         NEW r, IsHandle(r), r = Reached(h), r.op = h.op,
         NEW o, NEW i, NEW t, NEW m, AtKey(r, o, A, L, i, t, m)
  PROVE  Following(h) = o
<1>1. Rows(A, L, rng) /\ Linking(page, Size(numpages), L) /\ Size(numpages) \in 1 .. MaxPages /\ Nodes(page)
  BY ArrangedRows, SizeIs
<1>2. PICK p : p = L[i]
  OBVIOUS
<1>3. /\ i \in 1 .. Len(L) /\ t \in 1 .. Len(page[p].keys) /\ m \in 1 .. Len(KeyCells(page[p], t))
      /\ r.nextpageNum = p /\ r.nextRecIdPtr = KeyCells(page[p], t)[m]
      /\ \/ r.status = "FIRST" /\ r.nextIndex = t
         \/ r.status = "BUSY" /\ r.nextvalue = page[p].keys[t].value
  BY <1>2 DEF AtKey, PlacedAt
<1>4. PICK x, s : KeyIs(A, p, t, x, s)
  BY <1>1, <1>2, <1>3, KeyOf, SMTT(40)
<1>5. o = Due(A, h.op, x, m)
  BY <1>2, <1>4 DEF AtKey, KeyIs
<1>6. PICK c0 : c0 = r.nextRecIdPtr
  OBVIOUS
<1>7. {page[p].recId[c] : c \in Range(ListFrom(page[p], c0))} = Rest(A, x, m)
  <2>1. GoodLeaf(page[p]) /\ s = KeyCells(page[p], t) /\ m \in 1 .. Len(s) /\ c0 = s[m]
    BY <1>3, <1>4, <1>6 DEF KeyIs
  <2>2. Listed(page[p], t, s)
    <3>1. PICK s2 : Listed(page[p], t, s2)
      BY <1>3, <2>1, KeyHasList
    <3> QED  BY <2>1, <3>1 DEF Listed
  <2>3. \A c : c \in Range(ListFrom(page[p], c0)) <=> \E k \in 1 .. Len(s) : m <= k /\ c = s[k]
    <3>1. PICK l : l = page[p]
      OBVIOUS
    <3>2. PICK list : list = ListFrom(l, s[m])
      OBVIOUS
    <3>3. SuffixOf(l, t, s, m, list)
      BY <1>3, <2>1, <2>2, <3>1, <3>2 DEF SuffixOf
    <3>4. \A c : c \in Range(list) <=> \E k \in 1 .. Len(s) : m <= k /\ c = s[k]
      BY ONLY <3>3, ListSuffix
    <3> QED  BY <2>1, <3>1, <3>2, <3>4
  <2>4. Len(A[x]) = Len(s) /\ \A k \in 1 .. Len(s) : A[x][k] = page[p].recId[s[k]]
    BY <1>4 DEF KeyIs
  <2>5. ASSUME NEW y PROVE y \in Rest(A, x, m) <=> \E k \in 1 .. Len(s) : m <= k /\ y = page[p].recId[s[k]]
    <3>1. Len(s) \in Nat /\ m \in Int
      BY <1>4, <2>1 DEF KeyIs
    <3> QED  BY <2>4, <3>1 DEF Rest
  <2> QED  BY <2>3, <2>5
<1>8. (IF r.status = "FIRST" THEN WithValue(r).nextvalue ELSE r.nextvalue) = x
  <2>1. page[p].keys[t].value = x /\ GoodLeaf(page[p])
    BY <1>4 DEF KeyIs
  <2>2. CASE r.status = "FIRST" /\ r.nextIndex = t
    <3>1. WithValue(r).nextvalue = Slot(p, t).value
      BY <1>3, <2>2, WithValueIs
    <3>2. Slot(p, t) = page[p].keys[t]
      BY <1>3, <2>1, SlotIs
    <3> QED  BY <2>1, <2>2, <3>1, <3>2
  <2>3. CASE r.status = "BUSY" /\ r.nextvalue = page[p].keys[t].value
    BY <2>1, <2>3
  <2> QED  BY <1>3, <2>2, <2>3
<1>9. ChainFrom(p) = SubSeq(L, i, Len(L))
  BY <1>1, <1>2, <1>3, ChainsAre
<1>10. UNION {After(l, x) : l \in Range(SubSeq(L, i, Len(L)))} = Greater(A, x)
  <2>1. L \in Seq(PageNum)
    BY <1>1, SMTT(40) DEF Linking
  <2>2. x = page[L[i]].keys[t].value /\ t \in 1 .. Len(page[L[i]].keys)
    BY <1>2, <1>3, <1>4 DEF KeyIs
  <2>3. KeyAt(A, L, rng, i, t, x)
    BY <1>1, <1>3, <2>1, <2>2 DEF KeyAt
  <2> QED  BY ONLY <2>3, AfterIs
<1>11. page[r.nextpageNum].keys # << >>
  BY <1>3
<1>12. FollowingAt(h, r) = Rest(A, x, m) \cup IF h.op = "EQUAL" THEN {} ELSE Greater(A, x)
  BY <1>3, <1>6, <1>7, <1>8, <1>9, <1>10 DEF FollowingAt
<1> QED  BY <1>5, <1>11, <1>12, FollowingIs DEF Due

(* What is ahead of each scan is what it owes. *)
LEMMA ScanAhead == ScanInv => AheadIsOwed
<1> SUFFICES ASSUME ScanInv, NEW s \in InUse, scan[s].op \in Promised PROVE Following(scan[s]) = owed[s]
  BY DEF AheadIsOwed
<1>1. s \in Serves /\ s \in Scan
  BY DEF InUse, Serves, Held
<1>2. PICK A, L, rng : Followed(A, L, rng)
  BY DEF ScanInv
<1>3. PICK h : h = scan[s]
  OBVIOUS
<1>4. PICK o : o = owed[s]
  OBVIOUS
<1>5. AMInv /\ IsHandle(h) /\ Arranged(A, L, rng) /\ Serving(h, o, A, L, rng)
  BY <1>1, <1>2, <1>3, <1>4 DEF ScanInv, TableIs, Followed, Served
<1>6. Rows(A, L, rng) /\ Linking(page, Size(numpages), L) /\ Size(numpages) \in 1 .. MaxPages /\ Nodes(page)
  BY <1>5, ArrangedRows, SizeIs
<1>7. PICK r : r = Reached(h)
  OBVIOUS
<1>8. CASE Over(h) /\ o = {}
  BY <1>3, <1>4, <1>8, FollowingIs
<1>9. CASE \E i : AtEmpty(h, o, A, L, rng, i)
  <2>1. PICK i : AtEmpty(h, o, A, L, rng, i)
    BY <1>9
  <2>2. ~Over(h)
    BY <1>6, <2>1 DEF AtEmpty, Over, Rows, PageNum, AM_NULL_PAGE
  <2>3. IsHandle(r) /\ r.op = h.op
    BY <1>5, <1>7, ReachedKin DEF Kin
  <2>4. \/ page[r.nextpageNum].keys = << >> /\ o = {}
        \/ r.status = "FIRST" /\ \E j, t, m : AtKey(r, o, A, L, j, t, m)
    BY <1>5, <1>6, <1>7, <2>1, ReachedAtEmpty
  <2>5. CASE page[r.nextpageNum].keys = << >> /\ o = {}
    BY <1>3, <1>4, <1>7, <2>5, FollowingIs
  <2>6. CASE \E j, t, m : AtKey(r, o, A, L, j, t, m)
    BY <1>3, <1>4, <1>5, <1>7, <2>2, <2>3, <2>6, FollowingDue
  <2> QED  BY <2>4, <2>5, <2>6
<1>10. CASE \E i, t, m : AtKey(h, o, A, L, i, t, m)
  <2>1. PICK i, t, m : AtKey(h, o, A, L, i, t, m)
    BY <1>10, SMTT(40)
  <2>2. ~Over(h)
    BY <1>6, <2>1, SMTT(40) DEF AtKey, PlacedAt, Over, Rows, PageNum, AM_NULL_PAGE
  <2>3. h = Reached(h)
    BY <1>6, <2>1, ReachedAtKey
  <2> QED  BY <1>3, <1>4, <1>5, <2>1, <2>2, <2>3, FollowingDue
<1> QED  BY <1>5, <1>8, <1>9, <1>10 DEF Serving

(***************************************************************************)
(* From its place a scan comes to exactly the records that it owes, for    *)
(* the four operators of Promised: across leaves that deletions emptied    *)
(* (amscan.c:324) and though the entries have moved under its place when   *)
(* the client deleted what it was told (amscan.c:391).                     *)
(***************************************************************************)
THEOREM ScansStayOnCourse ==
  ASSUME FewPerKey
  PROVE  ScanSpec => []AheadIsOwed
  BY ScanHolds, ScanAhead, PTL

-----------------------------------------------------------------------------
(* The steps of IndexScans. *)

(* What IndexScans is told of due. *)
Owing == [s \in Scan |-> IF s \in Held /\ scan[s].op \notin Promised THEN Lost ELSE owed[s]]

(* It is what the scan owes, if anything is promised of it. *)
LEMMA OwingIs ==
  ASSUME TableIs
  PROVE  /\ \A s \in Scan : /\ s \notin Held => Owing[s] = NoScan
                            /\ s \in Serves => Owing[s] = owed[s] /\ owed[s] \in SUBSET RecId
                            /\ s \in Held /\ s \notin Serves => Owing[s] = Lost
                            /\ s \in Held <=> Owing[s] # NoScan
         /\ Owing = [s \in Scan |-> Owing[s]]
<1>1. owed \in [Scan -> {NoScan, Lost} \cup SUBSET RecId] /\ NoScan # Lost
  BY ScanConstants DEF TableIs
<1>2. ASSUME NEW s \in Scan, s \in Serves PROVE owed[s] \in SUBSET RecId
  <2>1. owed[s] # NoScan /\ owed[s] # Lost
    BY <1>2 DEF Serves, Held
  <2> QED  BY <1>1, <2>1
<1>3. \A s \in Scan : s \in Held <=> owed[s] # NoScan
  BY DEF Held
<1>4. \A s \in Scan : s \in Serves <=> s \in Held /\ owed[s] # Lost /\ scan[s].op \in Promised
  BY DEF Serves
<1> QED  BY <1>1, <1>2, <1>3, <1>4 DEF Owing

LEMMA OwingSame ==
  ASSUME UNCHANGED <<scan, owed>>
  PROVE  Owing' = Owing /\ Held' = Held
  BY DEF Owing, Held

(* Both mean the same by a scan that is held, and by the codes. *)
LEMMA HeldSame ==
  ASSUME TableIs
  PROVE  IndexScansOf!Held = Held
<1>1. \A s \in Scan : s \in Held <=> Owing[s] # NoScan
  BY OwingIs
<1> QED  BY <1>1 DEF IndexScansOf!Held, Owing, Held

LEMMA CodesAre ==
  /\ IndexScansOf!OK = AME_OK /\ IndexScansOf!EOF = AME_EOF
  /\ \A c \in Errors : c \in IndexScansOf!Errors
  /\ AME_PF \in IndexScansOf!Errors /\ AME_INVALID_OP_TO_SCAN \in IndexScansOf!Errors
  /\ AME_SCAN_TAB_FULL \in IndexScansOf!Errors
  BY DEF IndexScansOf!OK, IndexScansOf!EOF, IndexScansOf!Errors, Errors, AME_OK, AME_EOF, AME_PF,
         AME_INVALIDATTRLENGTH, AME_INVALID_OP_TO_SCAN, AME_SCAN_TAB_FULL

(* The steps of IndexScans, in the variables of AMScan. *)
LEMMA OtherIs ==
  ASSUME Answer' \in {AME_OK} \cup IndexScansOf!Errors, indexed' = indexed, Owing' = Owing
  PROVE  IndexScansOf!IndexScansNext
<1>1. IndexScansOf!Other
  BY CodesAre DEF IndexScansOf!Other, Answer, Owing
<1> QED  BY <1>1 DEF IndexScansOf!IndexScansNext

LEMMA RenewsIs ==
  ASSUME TableIs, Held = {}, Renews, Owing' = Owing
  PROVE  IndexScansOf!IndexScansNext
<1>1. IndexScansOf!Held = {}
  BY HeldSame
<1>2. CASE indexed' = indexed /\ Answer' \in {AME_OK} \cup Errors
  BY <1>2, CodesAre, OtherIs
<1>3. CASE indexed' = {} /\ Answer' = AME_OK
  <2>1. IndexScansOf!Destroy
    BY <1>1, <1>3, CodesAre DEF IndexScansOf!Destroy, Answer, Owing
  <2> QED  BY <2>1 DEF IndexScansOf!IndexScansNext
<1>4. CASE \E r \in RecId : /\ r \notin indexed /\ indexed' = indexed \cup {r}
                            /\ Answer' \in {AME_OK} \cup Errors
  <2>1. IndexScansOf!Insert
    BY <1>1, <1>4, CodesAre DEF IndexScansOf!Insert, Answer, Owing
  <2> QED  BY <2>1 DEF IndexScansOf!IndexScansNext
<1>5. CASE \E r \in RecId : r \in indexed /\ indexed' = indexed \ {r} /\ Answer' = AME_OK
  <2>1. IndexScansOf!Delete
    BY <1>1, <1>5, CodesAre DEF IndexScansOf!Delete, Answer, Owing
  <2> QED  BY <2>1 DEF IndexScansOf!IndexScansNext
<1> QED  BY <1>2, <1>3, <1>4, <1>5 DEF Renews

LEMMA UnpromisedIs ==
  ASSUME NEW s \in Scan, Owing[s] = Lost, indexed' = indexed, Owing' = Owing
  PROVE  IndexScansOf!IndexScansNext
<1>1. IndexScansOf!Unpromised(s)
  BY DEF IndexScansOf!Unpromised, Owing
<1> QED  BY <1>1 DEF IndexScansOf!IndexScansNext

LEMMA CloseIs ==
  ASSUME NEW s \in Scan, Owing[s] # NoScan, indexed' = indexed, Owing' = [Owing EXCEPT ![s] = NoScan],
         Answer' = AME_OK
  PROVE  IndexScansOf!IndexScansNext
<1>1. IndexScansOf!Close(s)
  BY CodesAre DEF IndexScansOf!Close, Answer, Owing
<1> QED  BY <1>1 DEF IndexScansOf!IndexScansNext

LEMMA FailIs ==
  ASSUME NEW s \in Scan, Owing[s] # NoScan, indexed' = indexed,
         Owing' = Owing \/ Owing' = [Owing EXCEPT ![s] = Lost], Answer' = AME_PF
  PROVE  IndexScansOf!IndexScansNext
<1>1. IndexScansOf!Fail(s)
  BY CodesAre DEF IndexScansOf!Fail, Answer, Owing
<1> QED  BY <1>1 DEF IndexScansOf!IndexScansNext

LEMMA EndIs ==
  ASSUME NEW s \in Scan, Owing[s] = {}, indexed' = indexed, Owing' = Owing, Answer' = AME_EOF
  PROVE  IndexScansOf!IndexScansNext
<1>1. IndexScansOf!End(s)
  BY CodesAre DEF IndexScansOf!End, Answer, Owing
<1> QED  BY <1>1 DEF IndexScansOf!IndexScansNext

LEMMA TellIs ==
  ASSUME NEW s \in Scan, NEW r \in RecId, Owing[s] \notin {NoScan, Lost}, r \in Owing[s],
         \A t \in Owing[s] : ValueOf[r] <= ValueOf[t],
         indexed' = indexed, Owing' = [Owing EXCEPT ![s] = Owing[s] \ {r}], Answer' = r
  PROVE  IndexScansOf!IndexScansNext
<1>1. IndexScansOf!Tell(s, r)
  BY DEF IndexScansOf!Tell, Answer, Owing
<1> QED  BY <1>1 DEF IndexScansOf!IndexScansNext

LEMMA OpenedIn ==
  ASSUME NEW s \in Scan, NEW op, NEW v \in Value, Owing[s] = NoScan, indexed' = indexed, Answer' = s,
         Owing' = [Owing EXCEPT ![s] = IF op \in Promised THEN Asked(indexed, op, v) ELSE Lost],
         indexed \subseteq RecId
  PROVE  IndexScansOf!IndexScansNext
<1>1. CASE op \notin Promised
  <2>1. IndexScansOf!OpenUnpromised(s)
    BY <1>1 DEF IndexScansOf!OpenUnpromised, Answer, Owing
  <2> QED  BY <2>1 DEF IndexScansOf!IndexScansNext
<1>2. CASE op \in Promised
  <2>1. \A r \in indexed : ValueOf[r] \in Int /\ v \in Int
    BY ScanConstants
  <2>2. IndexScansOf!Qualifying(op, v) = Asked(indexed, op, v)
    <3>1. CASE op = "ALL"
      BY <3>1 DEF IndexScansOf!Qualifying, Asked, Satisfies
    <3>2. CASE op = "EQUAL"
      BY <3>2 DEF IndexScansOf!Qualifying, Asked, Satisfies
    <3>3. CASE op = "GREATER_THAN"
      BY <3>3 DEF IndexScansOf!Qualifying, Asked, Satisfies
    <3>4. CASE op = "GREATER_THAN_EQUAL"
      BY <2>1, <3>4 DEF IndexScansOf!Qualifying, Asked, Satisfies
    <3> QED  BY <1>2, <3>1, <3>2, <3>3, <3>4 DEF Promised
  <2>3. IndexScansOf!Open(s, op, v)
    BY <1>2, <2>2 DEF IndexScansOf!Open, Answer, Owing
  <2>4. op \in IndexScansOf!Promised
    BY <1>2 DEF IndexScansOf!Promised, Promised
  <2> QED  BY <2>3, <2>4 DEF IndexScansOf!IndexScansNext
<1> QED  BY <1>1, <1>2

(* What the steps need of the invariant. *)
LEMMA ScanInvIs ==
  ASSUME ScanInv
  PROVE  TableIs /\ AMInv /\ indexed \subseteq RecId
<1>1. PICK A, L, rng : Arranged(A, L, rng)
  BY DEF ScanInv, Followed
<1>2. Rows(A, L, rng) /\ indexed = RecordsFrom(A, Value)
  BY <1>1, ArrangedRows, IndexedIs DEF ScanInv
<1>3. A \in [Value -> Seq(RecId)]
  BY <1>2 DEF Rows
<1>4. ASSUME NEW r \in indexed PROVE r \in RecId
  <2>1. Value \in SUBSET Value
    OBVIOUS
  <2>2. PICK v \in Value : \E k \in 1 .. Len(A[v]) : r = A[v][k]
    BY <1>2, <1>3, <2>1, RecordAt
  <2>3. A[v] \in Seq(RecId)
    BY <1>3
  <2> QED  BY <2>2, <2>3
<1> QED  BY <1>4 DEF ScanInv

(* The answer is what a call that has ended returns. *)
LEMMA AnswerOf ==
  ASSUME call' = NoCall
  PROVE  Answer' = ret'
  BY DEF Answer, Idle

(* Where one scan changes, Owing changes there. *)
LEMMA OwingSet ==
  ASSUME TableIs, NEW s \in Scan, NEW x,
         \A u \in Scan : u # s => owed'[u] = owed[u] /\ scan'[u].op = scan[u].op,
         (IF owed'[s] # NoScan /\ scan'[s].op \notin Promised THEN Lost ELSE owed'[s]) = x
  PROVE  Owing' = [Owing EXCEPT ![s] = x]
<1>1. \A u \in Scan : u \in Held' <=> owed'[u] # NoScan
  BY DEF Held
<1>2. \A u \in Scan : u \in Held <=> owed[u] # NoScan
  BY DEF Held
<1>3. ASSUME NEW u \in Scan PROVE Owing'[u] = IF u = s THEN x ELSE Owing[u]
  <2>1. CASE u = s
    BY <1>1, <2>1 DEF Owing
  <2>2. CASE u # s
    BY <1>1, <1>2, <2>2 DEF Owing
  <2> QED  BY <2>1, <2>2
<1>4. Owing' = [u \in Scan |-> Owing'[u]] /\ Owing = [u \in Scan |-> Owing[u]]
  BY DEF Owing
<1> QED  BY <1>3, <1>4

(* Each step of AMScan is one of IndexScans: an update, *)
LEMMA UpdateShows ==
  ASSUME FewPerKey, ScanInv, UpdateIndex
  PROVE  IndexScansOf!IndexScansNext
<1>1. Renews /\ TableIs
  BY UpdateInv, ScanInvIs
<1>2. Held = {} /\ UNCHANGED <<scan, owed>>
  BY DEF UpdateIndex
<1>3. Owing' = Owing
  BY <1>2, OwingSame
<1> QED  BY <1>1, <1>2, <1>3, RenewsIs

(* an AM_OpenIndexScan, *)
LEMMA OpenShows ==
  ASSUME ScanInv, AM_OpenIndexScan
  PROVE  IndexScansOf!IndexScansNext
<1>1. PICK s : Quiet /\ OpenDoes(s)
  BY OpenIs
<1>2. indexed' = indexed /\ Answer' = ret'
  BY <1>1, AnswerOf DEF Quiet
<1>3. TableIs /\ indexed \subseteq RecId
  BY ScanInvIs
<1>4. CASE UNCHANGED <<scan, owed>> /\ ret' \in {AME_PF, AME_INVALID_OP_TO_SCAN, AME_SCAN_TAB_FULL}
  <2>1. Owing' = Owing
    BY <1>4, OwingSame
  <2>2. Answer' \in {AME_OK} \cup IndexScansOf!Errors
    BY <1>2, <1>4, CodesAre
  <2> QED  BY <1>2, <2>1, <2>2, OtherIs
<1>5. CASE /\ s \in Scan /\ scan[s].status = "FREE"
           /\ scan' = [scan EXCEPT ![s].status = "FIRST"] /\ owed' = owed /\ ret' = AME_PF
  <2>1. owed[s] = NoScan
    BY <1>3, <1>5 DEF TableIs
  <2>2. \A u \in Scan : u # s => scan'[u] = scan[u]
    BY <1>3, <1>5 DEF TableIs
  <2>3. Owing' = [Owing EXCEPT ![s] = NoScan]
    BY <1>3, <1>5, <2>1, <2>2, OwingSet
  <2>4. Owing[s] = NoScan
    BY <1>5, <2>1 DEF Owing, Held
  <2>5. Owing' = Owing
    BY <1>5, <2>3, <2>4 DEF Owing
  <2>6. Answer' \in {AME_OK} \cup IndexScansOf!Errors
    BY <1>2, <1>5, CodesAre
  <2> QED  BY <1>2, <2>5, <2>6, OtherIs
<1>6. CASE /\ s \in Scan /\ scan[s].status = "FREE" /\ ret' = s
           /\ \E h, op, v :
                /\ scan' = [scan EXCEPT ![s] = h] /\ owed' = [owed EXCEPT ![s] = Asked(indexed, op, v)]
                /\ IsHandle(h) /\ h.status # "FREE" /\ h.op = op /\ op \in Operators \cup {"ALL"} /\ v \in Value
  <2>1. PICK h, op, v : /\ scan' = [scan EXCEPT ![s] = h]
                        /\ owed' = [owed EXCEPT ![s] = Asked(indexed, op, v)]
                        /\ h.op = op /\ v \in Value
    BY <1>6
  <2>2. owed[s] = NoScan /\ DOMAIN scan = Scan /\ DOMAIN owed = Scan
    BY <1>3, <1>6 DEF TableIs
  <2>3. Owing[s] = NoScan
    BY <1>6, <2>2 DEF Owing, Held
  <2>4. /\ scan'[s] = h /\ owed'[s] = Asked(indexed, op, v)
        /\ \A u \in Scan : u # s => owed'[u] = owed[u] /\ scan'[u] = scan[u]
    BY <1>6, <2>1, <2>2
  <2>5. Asked(indexed, op, v) # NoScan
    <3>1. Asked(indexed, op, v) \in SUBSET RecId
      BY <1>3 DEF Asked
    <3> QED  BY <3>1, ScanConstants
  <2>6. Owing' = [Owing EXCEPT ![s] = IF op \in Promised THEN Asked(indexed, op, v) ELSE Lost]
    <3>1. (IF owed'[s] # NoScan /\ scan'[s].op \notin Promised THEN Lost ELSE owed'[s])
            = IF op \in Promised THEN Asked(indexed, op, v) ELSE Lost
      BY <2>1, <2>4, <2>5
    <3> QED  BY <1>3, <1>6, <2>4, <3>1, OwingSet
  <2> QED  BY <1>2, <1>3, <1>6, <2>1, <2>3, <2>6, OpenedIn
<1> QED  BY <1>1, <1>4, <1>5, <1>6 DEF OpenDoes

(* an AM_FindNextEntry, *)
LEMMA FindNextShows ==
  ASSUME ScanInv, NEW s \in Scan, AM_FindNextEntry(s)
  PROVE  IndexScansOf!IndexScansNext
<1>1. /\ owed[s] # NoScan /\ owed[s] # Lost /\ call' = NoCall /\ indexed' = indexed
      /\ owed' = owed \/ \E o : Owes(s, o) /\ (o = Lost \/ o \subseteq owed[s])
  BY FindNextOwes
<1>2. Answer' = ret'
  BY <1>1, AnswerOf
<1>3. /\ TableIs' /\ Held' = Held /\ scan'[s].op = scan[s].op
      /\ \A u \in Scan : u # s => scan'[u] = scan[u] /\ owed'[u] = owed[u]
  BY FindNextEntries
<1>4. TableIs
  BY ScanInvIs
<1>5. s \in Held /\ owed'[s] # NoScan
  <2>1. s \in Held
    BY <1>1 DEF Held
  <2>2. s \in Held'
    BY <1>3, <2>1
  <2> QED  BY <2>1, <2>2 DEF Held
<1>6. CASE scan[s].op \notin Promised
  <2>1. Owing[s] = Lost
    BY <1>5, <1>6 DEF Owing
  <2>2. Owing' = [Owing EXCEPT ![s] = Lost]
    BY <1>3, <1>4, <1>5, <1>6, OwingSet
  <2>3. Owing' = Owing
    BY <2>1, <2>2 DEF Owing
  <2> QED  BY <1>1, <2>1, <2>3, UnpromisedIs
<1>7. CASE scan[s].op \in Promised
  <2>1. s \in Serves
    BY <1>1, <1>5, <1>7 DEF Serves
  <2>2. Owing[s] = owed[s]
    BY <1>7 DEF Owing
  <2>3. ASSUME NEW o, o = owed'[s] PROVE Owing' = [Owing EXCEPT ![s] = o]
    BY <1>3, <1>4, <1>7, <2>3, OwingSet
  <2>4. DOMAIN owed = Scan
    BY <1>4 DEF TableIs
  <2>5. owed' = owed => Owing' = Owing
    <3> SUFFICES ASSUME owed' = owed PROVE Owing' = Owing
      OBVIOUS
    <3>1. PICK o : o = owed[s]
      OBVIOUS
    <3>2. Owing' = [Owing EXCEPT ![s] = o]
      BY <2>3, <3>1
    <3> QED  BY <2>2, <3>1, <3>2 DEF Owing
  <2>6. PICK A, L, rng : Followed(A, L, rng)
    BY DEF ScanInv
  <2>7. Answers(s, A, L, rng)
    BY <2>1, <2>6, FindNextAnswered
  <2>8. CASE ret' = AME_EOF /\ owed[s] = {} /\ owed' = owed
    BY <1>1, <1>2, <2>2, <2>5, <2>8, EndIs
  <2>9. CASE ret' = AME_PF /\ owed' = owed
    BY <1>1, <1>2, <2>2, <2>5, <2>9, FailIs
  <2>10. CASE ret' = AME_PF /\ Owes(s, Lost)
    <3>1. owed'[s] = Lost
      BY <2>4, <2>10 DEF Owes
    <3>2. Owing' = [Owing EXCEPT ![s] = Lost]
      BY <2>3, <3>1
    <3> QED  BY <1>1, <1>2, <2>2, <2>10, <3>2, FailIs
  <2>11. CASE \E r \in RecId : /\ ret' = r /\ r \in owed[s] /\ Owes(s, owed[s] \ {r})
                               /\ \A u \in owed[s] : u \in RecId /\ ValueOf[r] <= ValueOf[u]
    <3>1. PICK r \in RecId : /\ ret' = r /\ r \in owed[s] /\ Owes(s, owed[s] \ {r})
                             /\ \A u \in owed[s] : ValueOf[r] <= ValueOf[u]
      BY <2>11
    <3>2. owed'[s] = owed[s] \ {r}
      BY <2>4, <3>1 DEF Owes
    <3>3. PICK o : o = owed[s] \ {r}
      OBVIOUS
    <3>4. Owing' = [Owing EXCEPT ![s] = o]
      BY <2>3, <3>2, <3>3
    <3>5. Owing' = [Owing EXCEPT ![s] = Owing[s] \ {r}]
      BY <2>2, <3>3, <3>4
    <3>6. Owing[s] \notin {NoScan, Lost} /\ r \in Owing[s] /\ \A t \in Owing[s] : ValueOf[r] <= ValueOf[t]
      BY <1>1, <2>2, <3>1
    <3>7. Answer' = r
      BY <1>2, <3>1
    <3> QED  BY <1>1, <3>5, <3>6, <3>7, TellIs
  <2> QED  BY <2>7, <2>8, <2>9, <2>10, <2>11 DEF Answers
<1> QED  BY <1>6, <1>7

(* an AM_CloseIndexScan, *)
LEMMA CloseShows ==
  ASSUME ScanInv, NEW s \in Scan, AM_CloseIndexScan(s)
  PROVE  IndexScansOf!IndexScansNext
<1>1. /\ owed[s] # NoScan /\ call' = NoCall /\ ret' = AME_OK /\ indexed' = indexed
      /\ scan' = [scan EXCEPT ![s] = FreeHandle] /\ owed' = [owed EXCEPT ![s] = NoScan]
  BY DEF AM_CloseIndexScan, Return
<1>2. TableIs
  BY ScanInvIs
<1>3. /\ owed'[s] = NoScan
      /\ \A u \in Scan : u # s => scan'[u] = scan[u] /\ owed'[u] = owed[u]
  BY <1>1, <1>2 DEF TableIs
<1>4. Owing' = [Owing EXCEPT ![s] = NoScan]
  BY <1>2, <1>3, OwingSet
<1>5. Owing[s] # NoScan
  <2>1. s \in Held
    BY <1>1 DEF Held
  <2> QED  BY <1>2, <2>1, OwingIs
<1>6. Answer' = AME_OK
  BY <1>1, AnswerOf
<1> QED  BY <1>1, <1>4, <1>5, <1>6, CloseIs

FollowedOk == \A A, L, rng : Followed(A, L, rng) => Single(A) /\ (AMInv => Indexed = RecordsFrom(A, Value))

(* Now and after the next step. *)
LEMMA FollowedIsOk == FollowedOk
<1>1. ASSUME NEW A, NEW L, NEW rng, Followed(A, L, rng)
      PROVE  Single(A) /\ (AMInv => Indexed = RecordsFrom(A, Value))
  BY <1>1, IndexedIs DEF Followed
<1> QED  BY <1>1 DEF FollowedOk

LEMMA FollowedStaysOk == FollowedOk'
<1>1. FollowedOk
  BY FollowedIsOk
<1> QED  BY <1>1, PTL

(* A record that is told and not there: nothing is promised of the scan.   *)
LEMMA MissShows ==
  ASSUME ScanInv, NEW v, NEW r, Struck(v, r), ~DeleteFound(v, r)
  PROVE  IndexScansOf!IndexScansNext
<1>1. Missed
  BY StruckMisses
<1>2. /\ AMInv /\ TableIs /\ Idle /\ status = "open" /\ ret = r /\ v = ValueOf[r] /\ r \in RecId /\ v \in Value
      /\ DeleteFails(v, TRUE) \/ DeleteNotFound(v, r)
  BY DEF Struck, ScanInv, AM_DeleteEntry
<1>3. indexed' = indexed /\ Owing' = Owing /\ call' = NoCall
  BY <1>1, OwingSame DEF Missed, Quiet
<1>4. PICK s \in Scan : Held = {s}
  BY DEF Struck
<1>5. Answer' = ret'
  BY <1>3, AnswerOf
<1>6. s \in Held
  BY <1>4
<1>7. Owing[s] # NoScan
  BY <1>2, <1>6, OwingIs
<1>8. CASE DeleteFails(v, TRUE)
  <2>1. ret' = AME_PF \/ ret' = AME_INVALIDATTRLENGTH
    BY <1>8 DEF DeleteFails, SearchFails, Return
  <2>2. ret' = AME_PF
    BY <1>1, <2>1 DEF Missed, AME_PF, AME_NOTFOUND, AME_INVALIDATTRLENGTH
  <2> QED  BY <1>3, <1>5, <1>7, <2>2, FailIs
<1>9. CASE DeleteNotFound(v, r)
  <2>1. PICK A, L, rng : Followed(A, L, rng)
    BY DEF ScanInv
  <2>2. OrderIs(A) /\ Single(A)
    BY <2>1, ArrangedIs DEF Followed
  <2>3. indexed = RecordsFrom(A, Value)
    BY <2>1, FollowedIsOk DEF FollowedOk, ScanInv
  <2>4. r \notin indexed
    <3> SUFFICES ASSUME r \in indexed PROVE FALSE
      OBVIOUS
    <3>1. ~DeleteNotFound(v, r)
      BY <1>2, <2>2, <2>3, RecordIsFound
    <3> QED  BY <1>9, <3>1
  <2>5. s \notin Serves
    <3> SUFFICES ASSUME s \in Serves PROVE FALSE
      OBVIOUS
    <3>1. Served(s, A, L, rng)
      BY <2>1 DEF Followed
    <3>2. Just(s)
      BY <1>2, <1>4 DEF Just
    <3> QED  BY <1>2, <2>4, <3>1, <3>2 DEF Served
  <2>6. Owing[s] = Lost
    BY <1>2, <1>6, <2>5, OwingIs
  <2> QED  BY <1>3, <2>6, UnpromisedIs
<1> QED  BY <1>2, <1>8, <1>9

(* A record that is told and there: no scan has still to tell it. *)
LEMMA StrikeShows ==
  ASSUME ScanInv, NEW v, NEW r, Struck(v, r), DeleteFound(v, r)
  PROVE  IndexScansOf!IndexScansNext
<1>1. TableIs /\ AMInv /\ indexed = Indexed
  BY DEF ScanInv
<1>2. PICK A, L, rng : Followed(A, L, rng)
  BY DEF ScanInv
<1>3. PICK A2 : Strike(A, A2, L, rng, v, r)
  BY <1>2, StruckFollowed
<1>4. AMInv' /\ indexed' = Indexed'
  <2>1. ScanInv'
    BY StruckInv
  <2> QED  BY <2>1 DEF ScanInv
<1>5. indexed = RecordsFrom(A, Value)
  BY <1>1, <1>2, FollowedIsOk DEF FollowedOk
<1>6. indexed' = RecordsFrom(A2, Value)
  <2>1. Followed(A2, L, rng)'
    BY <1>3 DEF Strike
  <2>2. \A B, M, b : Followed(B, M, b)' => (AMInv' => Indexed' = RecordsFrom(B, Value))
    BY FollowedStaysOk DEF FollowedOk, RecordsFrom
  <2> QED  BY <1>4, <2>1, <2>2
<1>7. RecordsFrom(A2, Value) = RecordsFrom(A, Value) \ {r}
  <2>1. PICK q : Lessens(A, A2, v, r, q)
    BY <1>3 DEF Strike
  <2>2. Value \subseteq Value
    OBVIOUS
  <2> QED  BY <2>1, <2>2, LessFrom
<1>8. r \in indexed
  <2>1. r \in Range(A[v]) /\ v \in Value
    BY <1>3 DEF Strike
  <2> QED  BY <1>5, <2>1 DEF RecordsFrom
<1>9. Owing' = Owing
  BY OwingSame DEF Struck
<1>10. Answer' = AME_OK
  <2>1. call' = NoCall /\ ret' = AME_OK
    BY DEF DeleteFound, Return
  <2> QED  BY <2>1, AnswerOf
<1>11. ASSUME NEW s \in IndexScansOf!Held PROVE Owing[s] = Lost \/ r \notin Owing[s]
  <2>1. s \in Held
    BY <1>1, <1>11, HeldSame
  <2>2. s \in Scan
    BY <2>1 DEF Held
  <2>3. CASE s \in Serves
    <3>1. r \notin owed[s]
      BY <1>3, <2>3 DEF Strike
    <3> QED  BY <1>1, <2>2, <2>3, <3>1, OwingIs
  <2>4. CASE s \notin Serves
    BY <1>1, <2>1, <2>2, <2>4, OwingIs
  <2> QED  BY <2>3, <2>4
<1>12. indexed' = indexed \ {r}
  BY <1>5, <1>6, <1>7
<1>13. IndexScansOf!Delete
  BY <1>8, <1>9, <1>10, <1>11, <1>12, CodesAre DEF IndexScansOf!Delete, Answer, Owing
<1> QED  BY <1>13 DEF IndexScansOf!IndexScansNext

(* So a deletion of what was told is one of IndexScans. *)
LEMMA DeleteToldShows ==
  ASSUME ScanInv, DeleteTold
  PROVE  IndexScansOf!IndexScansNext
<1>1. PICK v, r : Struck(v, r)
  BY DeleteToldIs
<1> QED  BY <1>1, MissShows, StrikeShows

(* Other pages, and nothing at all, do not show. *)
LEMMA IdleShows ==
  ASSUME UNCHANGED allvars \/ OtherPages
  PROVE  UNCHANGED IndexScansOf!indexscanvars
<1>1. UNCHANGED <<call, ret, scan, indexed, owed>>
  BY DEF allvars, amvars, scanvars, OtherPages
<1>2. Owing' = Owing /\ Held' = Held
  BY <1>1, OwingSame
<1>3. Answer' = Answer
  BY <1>1 DEF Answer, Idle
<1> QED  BY <1>1, <1>2, <1>3 DEF IndexScansOf!indexscanvars, Owing, Answer

(* That is each step. *)
LEMMA ScanShows ==
  ASSUME FewPerKey
  PROVE  ScanInv /\ [ScanNext]_allvars => [IndexScansOf!IndexScansNext]_(IndexScansOf!indexscanvars)
<1> SUFFICES ASSUME ScanInv, [ScanNext]_allvars
             PROVE  [IndexScansOf!IndexScansNext]_(IndexScansOf!indexscanvars)
  OBVIOUS
<1>1. CASE UpdateIndex
  BY <1>1, UpdateShows
<1>2. CASE OtherPages \/ UNCHANGED allvars
  BY <1>2, IdleShows
<1>3. CASE AM_OpenIndexScan
  BY <1>3, OpenShows
<1>4. CASE \E s \in Scan : AM_FindNextEntry(s)
  BY <1>4, FindNextShows
<1>5. CASE \E s \in Scan : AM_CloseIndexScan(s)
  BY <1>5, CloseShows
<1>6. CASE DeleteTold
  BY <1>6, DeleteToldShows
<1> QED  BY <1>1, <1>2, <1>3, <1>4, <1>5, <1>6 DEF ScanNext

(***************************************************************************)
(* The scans over the tree implement IndexScans: each record that meets    *)
(* the comparison is told once and in the order of the values, splits      *)
(* before the scan and deletions during it notwithstanding, and a call     *)
(* that fails loses no record unless it loses the scan.                    *)
(***************************************************************************)
THEOREM ScansImplementIndexScans ==
  ASSUME FewPerKey
  PROVE  ScanSpec => ImplementsIndexScans
<1>1. ScanSpec => []ScanInv
  BY ScanHolds
<1>2. ScanInit => IndexScansOf!IndexScansInit
  <2> SUFFICES ASSUME ScanInit PROVE IndexScansOf!IndexScansInit
    OBVIOUS
  <2>1. indexed = {} /\ owed = [s \in Scan |-> NoScan] /\ ret = AME_OK
    BY DEF ScanInit, AMInit
  <2>2. Held = {}
    BY <2>1 DEF Held
  <2>3. Owing = [s \in Scan |-> NoScan]
    BY <2>1, <2>2 DEF Owing
  <2>4. Answer = IndexScansOf!OK
    BY <2>1, CodesAre DEF Answer
  <2> QED  BY <2>1, <2>3, <2>4 DEF IndexScansOf!IndexScansInit, Owing, Answer
<1>3. ScanInv /\ [ScanNext]_allvars => [IndexScansOf!IndexScansNext]_(IndexScansOf!indexscanvars)
  BY ScanShows
<1> QED  BY <1>1, <1>2, <1>3, PTL DEF ScanSpec, ImplementsIndexScans, IndexScansOf!IndexScansSpec
=============================================================================
