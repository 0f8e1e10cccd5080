---------------------------- MODULE PFHashProofs ----------------------------
(***************************************************************************)
(* Theorems about the page hash table, for any number of buckets, pages,   *)
(* frames and entries: its links stay sound, a page has one entry, a walk  *)
(* goes down its list, and the chains implement the map of HashTable.      *)
(***************************************************************************)
EXTENDS PFHash, TLAPS

(* An entry that is depth d is followed by the one at depth d - 1 of its   *)
(* bucket, and preceded by the one at d + 1; the table has the deepest.    *)
DepthsCount ==
    /\ \A e \in DOMAIN heap : depth[e] \in 1 .. length[BucketOf(e)]
    /\ \A e, f \in DOMAIN heap :
         BucketOf(e) = BucketOf(f) /\ depth[e] = depth[f] => e = f

NextIsBelow ==
    \A e \in DOMAIN heap :
      LET next == heap[e].nextentry
      IN  IF depth[e] = 1 THEN next = NULL
          ELSE next \in DOMAIN heap /\ BucketOf(next) = BucketOf(e) /\ depth[next] = depth[e] - 1

PrevIsAbove ==
    \A e \in DOMAIN heap :
      LET prev == heap[e].preventry
      IN  IF depth[e] = length[BucketOf(e)] THEN prev = NULL
          ELSE prev \in DOMAIN heap /\ BucketOf(prev) = BucketOf(e) /\ depth[prev] = depth[e] + 1

HeadIsDeepest ==
    \A b \in Bucket :
      LET first == PFhashtbl[b]
      IN  IF length[b] = 0 THEN first = NULL
          ELSE first \in DOMAIN heap /\ BucketOf(first) = b /\ depth[first] = length[b]

(* The walk has not passed an entry of the page it looks for. *)
WalkIsAhead ==
    /\ Idle => entry = NULL
    /\ entry # NULL => entry \in DOMAIN heap /\ BucketOf(entry) = PFhash(call.fd, call.page)
    /\ ~Idle =>
         \A e \in DOMAIN heap : heap[e].fd = call.fd /\ heap[e].page = call.page =>
                                  entry # NULL /\ depth[e] <= depth[entry]

(* The bucket of x when the heap is h. *)
BucketIn(h, x) == PFhash(h[x].fd, h[x].page)

Chained == DepthsCount /\ NextIsBelow /\ PrevIsAbove /\ HeadIsDeepest

HashInv == PFHashTypeOK /\ Chained /\ OneEntryPerPage /\ WalkIsAhead

-----------------------------------------------------------------------------
(* The parts of the state. *)

LEMMA HashType ==
    ASSUME NEW fd \in FD, NEW page \in PageNum
    PROVE  PFhash(fd, page) \in Bucket
  <1>1. fd + page \in Nat
    BY PFHashAssumption
  <1>2. QED
    BY <1>1, PFHashAssumption DEF PFhash, Bucket

LEMMA BucketType ==
    ASSUME PFHashTypeOK, NEW e \in DOMAIN heap
    PROVE  /\ heap[e] \in PFhash_entry
           /\ BucketOf(e) \in Bucket
  <1>1. heap[e] \in PFhash_entry
    BY DEF PFHashTypeOK
  <1>2. QED
    BY <1>1, HashType DEF PFhash_entry, BucketOf

LEMMA CallType ==
    ASSUME PFHashTypeOK, ~Idle
    PROVE  /\ call.fd \in FD /\ call.page \in PageNum
           /\ PFhash(call.fd, call.page) \in Bucket
           /\ call.routine = "PFhashInsert" => call.bpage \in Frame
           /\ call \in Call
  <1>1. call \in Call
    BY DEF PFHashTypeOK, Idle
  <1>2. call.fd \in FD /\ call.page \in PageNum
    BY <1>1 DEF Call
  <1>3. QED
    BY <1>1, <1>2, HashType DEF Call

(* The links of LinksAgree follow from the depths. *)
LEMMA ChainedLinks ==
    ASSUME HashInv
    PROVE  LinksAgree
  <1>1. entry \in DOMAIN heap \cup {NULL}
    BY DEF HashInv, WalkIsAhead
  <1>2. ASSUME NEW b \in Bucket, PFhashtbl[b] # NULL
        PROVE  /\ PFhashtbl[b] \in DOMAIN heap
               /\ BucketOf(PFhashtbl[b]) = b
               /\ heap[PFhashtbl[b]].preventry = NULL
    BY <1>2 DEF HashInv, Chained, HeadIsDeepest, PrevIsAbove
  <1>3. ASSUME NEW e \in DOMAIN heap, heap[e].nextentry # NULL
        PROVE  /\ heap[e].nextentry \in DOMAIN heap
               /\ BucketOf(heap[e].nextentry) = BucketOf(e)
               /\ heap[heap[e].nextentry].preventry = e
    <2> DEFINE n == heap[e].nextentry
    <2>1. n \in DOMAIN heap /\ BucketOf(n) = BucketOf(e) /\ depth[n] = depth[e] - 1
      BY <1>3 DEF HashInv, Chained, NextIsBelow
    <2>2. depth[e] \in 1 .. length[BucketOf(e)] /\ length[BucketOf(e)] \in Nat
      BY BucketType DEF HashInv, Chained, DepthsCount, PFHashTypeOK
    <2>3. depth[n] # length[BucketOf(n)]
      BY <2>1, <2>2
    <2>4. LET p == heap[n].preventry
          IN  p \in DOMAIN heap /\ BucketOf(p) = BucketOf(n) /\ depth[p] = depth[n] + 1
      BY <2>1, <2>3 DEF HashInv, Chained, PrevIsAbove
    <2>5. depth[heap[n].preventry] = depth[e]
      BY <2>1, <2>2, <2>4
    <2>6. QED
      BY <2>1, <2>4, <2>5 DEF HashInv, Chained, DepthsCount
  <1>4. ASSUME NEW e \in DOMAIN heap, heap[e].preventry # NULL
        PROVE  /\ heap[e].preventry \in DOMAIN heap
               /\ heap[heap[e].preventry].nextentry = e
    <2> DEFINE p == heap[e].preventry
    <2>1. p \in DOMAIN heap /\ BucketOf(p) = BucketOf(e) /\ depth[p] = depth[e] + 1
      BY <1>4 DEF HashInv, Chained, PrevIsAbove
    <2>2. depth[e] \in 1 .. length[BucketOf(e)] /\ length[BucketOf(e)] \in Nat
      BY BucketType DEF HashInv, Chained, DepthsCount, PFHashTypeOK
    <2>3. depth[p] # 1
      BY <2>1, <2>2
    <2>4. LET n == heap[p].nextentry
          IN  n \in DOMAIN heap /\ BucketOf(n) = BucketOf(p) /\ depth[n] = depth[p] - 1
      BY <2>1, <2>3 DEF HashInv, Chained, NextIsBelow
    <2>5. depth[heap[p].nextentry] = depth[e]
      BY <2>1, <2>2, <2>4
    <2>6. QED
      BY <2>1, <2>4, <2>5 DEF HashInv, Chained, DepthsCount
  <1>5. ASSUME NEW e \in DOMAIN heap, heap[e].preventry = NULL
        PROVE  PFhashtbl[BucketOf(e)] = e
    <2> DEFINE b == BucketOf(e)
    <2>1. b \in Bucket /\ depth[e] \in 1 .. length[b] /\ length[b] \in Nat
      BY BucketType DEF HashInv, Chained, DepthsCount, PFHashTypeOK
    <2>2. NULL \notin DOMAIN heap
      BY PFHashAssumption DEF HashInv, PFHashTypeOK
    <2>3. depth[e] = length[b]
      BY <1>5, <2>2 DEF HashInv, Chained, PrevIsAbove
    <2>4. LET f == PFhashtbl[b]
          IN  f \in DOMAIN heap /\ BucketOf(f) = b /\ depth[f] = length[b]
      BY <2>1 DEF HashInv, Chained, HeadIsDeepest
    <2>5. QED
      BY <2>3, <2>4 DEF HashInv, Chained, DepthsCount
  <1>6. QED
    BY <1>1, <1>2, <1>3, <1>4, <1>5 DEF LinksAgree

-----------------------------------------------------------------------------
(* The steps that leave the table as it is. *)

LEMMA TableKept ==
    ASSUME UNCHANGED table, HashInv
    PROVE  /\ Chained' /\ OneEntryPerPage'
           /\ PFhashtbl' \in [Bucket -> Entry \cup {NULL}]
           /\ DOMAIN heap' \subseteq Entry
           /\ heap' \in [DOMAIN heap' -> PFhash_entry]
           /\ length' \in [Bucket -> Nat]
           /\ depth' \in [Entry -> Nat]
  BY DEF table, HashInv, Chained, DepthsCount, NextIsBelow, PrevIsAbove, HeadIsDeepest,
         BucketOf, OneEntryPerPage, PFHashTypeOK

LEMMA ReturnKeeps ==
    ASSUME UNCHANGED table, HashInv, NEW code, Return(code),
           code \in Frame \cup {NULL, PFE_OK, PFE_NOMEM, PFE_HASHNOTFOUND, PFE_HASHPAGEEXIST}
    PROVE  HashInv'
  <1>1. PFHashTypeOK'
    BY TableKept DEF PFHashTypeOK, Return
  <1>2. WalkIsAhead'
    BY DEF WalkIsAhead, Return, Idle
  <1>3. QED
    BY <1>1, <1>2, TableKept DEF HashInv

LEMMA BeginKeeps ==
    ASSUME HashInv, NEW c \in Call, Begin(c)
    PROVE  HashInv'
  <1> DEFINE b == PFhash(c.fd, c.page)
  <1>1. UNCHANGED table
    BY DEF Begin
  <1>2. c.fd \in FD /\ c.page \in PageNum
    BY DEF Call
  <1>3. b \in Bucket /\ length[b] \in Nat
    BY <1>2, HashType DEF HashInv, PFHashTypeOK
  <1>4. entry' = PFhashtbl[b] /\ call' = c
    BY DEF Begin
  <1>5. PFHashTypeOK'
    BY <1>1, <1>3, <1>4, TableKept DEF PFHashTypeOK, HashInv, Begin
  <1>6. c # NoCall
    BY DEF Call, NoCall
  <1>7. WalkIsAhead'
    <2>1. heap' = heap /\ depth' = depth
      BY <1>1 DEF table
    <2>2. entry' # NULL => entry' \in DOMAIN heap /\ BucketOf(entry') = b /\ depth[entry'] = length[b]
      BY <1>3, <1>4 DEF HashInv, Chained, HeadIsDeepest
    <2>3. ASSUME NEW e \in DOMAIN heap, heap[e].fd = c.fd, heap[e].page = c.page
          PROVE  entry' # NULL /\ depth[e] <= depth[entry']
      <3>1. BucketOf(e) = b
        BY <2>3 DEF BucketOf
      <3>2. depth[e] \in 1 .. length[b]
        BY <3>1 DEF HashInv, Chained, DepthsCount
      <3>3. length[b] # 0
        BY <1>3, <3>2
      <3>4. entry' \in DOMAIN heap /\ depth[entry'] = length[b]
        BY <1>3, <1>4, <3>3 DEF HashInv, Chained, HeadIsDeepest
      <3>5. entry' # NULL
        BY <3>4, PFHashAssumption DEF HashInv, PFHashTypeOK
      <3>6. QED
        BY <3>2, <3>4, <3>5, <1>3
    <2>4. BucketOf(entry)' = BucketOf(entry')
      BY <2>1 DEF BucketOf
    <2>5. QED
      BY <1>4, <1>6, <2>1, <2>2, <2>3, <2>4 DEF WalkIsAhead, Idle, BucketOf, NoCall
  <1>8. QED
    BY <1>1, <1>5, <1>7, TableKept DEF HashInv

(* The walk goes down one entry, which is not the one it looks for. *)
LEMMA WalkGoesDown ==
    ASSUME HashInv, Walk
    PROVE  /\ entry \in DOMAIN heap
           /\ entry' # NULL =>
                /\ entry' \in DOMAIN heap
                /\ BucketOf(entry') = BucketOf(entry)
                /\ depth[entry'] = depth[entry] - 1
           /\ entry' = NULL => depth[entry] = 1
  <1>1. entry \in DOMAIN heap
    BY DEF HashInv, WalkIsAhead, Walk
  <1>2. entry' = heap[entry].nextentry
    BY DEF Walk, Follow, Next
  <1>3. NULL \notin DOMAIN heap
    BY PFHashAssumption DEF HashInv, PFHashTypeOK
  <1>4. QED
    BY <1>1, <1>2, <1>3 DEF HashInv, Chained, NextIsBelow

LEMMA WalkKeeps ==
    ASSUME HashInv, Walk
    PROVE  HashInv'
  <1>1. UNCHANGED <<table, call, ret>> /\ ~Idle /\ entry # NULL /\ ~Matches
    BY DEF Walk
  <1>2. heap' = heap /\ depth' = depth
    BY <1>1 DEF table
  <1>3. PFHashTypeOK'
    <2>1. entry' \in Entry \cup {NULL}
      BY WalkGoesDown DEF HashInv, PFHashTypeOK
    <2>2. QED
      BY <1>1, <2>1, TableKept DEF PFHashTypeOK, HashInv
  <1>4. WalkIsAhead'
    <2>1. depth[entry] \in Nat
      BY WalkGoesDown DEF HashInv, PFHashTypeOK
    <2>2. ASSUME NEW e \in DOMAIN heap, heap[e].fd = call.fd, heap[e].page = call.page
          PROVE  entry' # NULL /\ depth[e] <= depth[entry']
      <3>1. e # entry
        BY <2>2, <1>1 DEF Matches
      <3>2. depth[e] <= depth[entry]
        BY <2>2, <1>1 DEF HashInv, WalkIsAhead
      <3>3. BucketOf(e) = BucketOf(entry)
        BY <2>2, <1>1 DEF HashInv, WalkIsAhead, BucketOf
      <3>4. depth[e] # depth[entry]
        BY <3>1, <3>3, WalkGoesDown DEF HashInv, Chained, DepthsCount
      <3>5. depth[e] \in 1 .. length[BucketOf(e)] /\ length[BucketOf(e)] \in Nat
        BY BucketType DEF HashInv, Chained, DepthsCount, PFHashTypeOK
      <3>6. QED
        BY <2>1, <3>2, <3>4, <3>5, WalkGoesDown
    <2>3. BucketOf(entry)' = BucketOf(entry')
      BY <1>2 DEF BucketOf
    <2>4. BucketOf(entry) = PFhash(call.fd, call.page)
      BY <1>1 DEF HashInv, WalkIsAhead
    <2>5. QED
      BY <1>1, <1>2, <2>2, <2>3, <2>4, WalkGoesDown DEF WalkIsAhead, Idle, BucketOf
  <1>5. QED
    BY <1>1, <1>3, <1>4, TableKept DEF HashInv

-----------------------------------------------------------------------------
(* Inserting: what the step does to the heap, and that the depths count on. *)

LEMMA InsertHeap ==
    ASSUME HashInv, NotFound("PFhashInsert"), NEW e \in Entry \ DOMAIN heap, InsertEntry(e)
    PROVE  LET b     == PFhash(call.fd, call.page)
               first == PFhashtbl[b]
           IN  /\ b \in Bucket
               /\ DOMAIN heap' = DOMAIN heap \cup {e}
               /\ heap' \in [DOMAIN heap' -> PFhash_entry]
               /\ heap'[e] = NewEntry(first)
               /\ BucketIn(heap', e) = b
               /\ \A x \in DOMAIN heap :
                    /\ heap'[x].fd = heap[x].fd /\ heap'[x].page = heap[x].page
                    /\ heap'[x].bpage = heap[x].bpage
                    /\ heap'[x].nextentry = heap[x].nextentry
                    /\ heap'[x].preventry = IF x = first THEN e ELSE heap[x].preventry
                    /\ BucketIn(heap', x) = BucketOf(x)
  <1> DEFINE b     == PFhash(call.fd, call.page)
             first == PFhashtbl[b]
  <1>1. ~Idle /\ call.routine = "PFhashInsert"
    BY DEF NotFound, Idle, NoCall
  <1>2. b \in Bucket /\ call.fd \in FD /\ call.page \in PageNum /\ call.bpage \in Frame
    BY <1>1, CallType DEF HashInv
  <1>3. first \in Entry \cup {NULL} /\ (first # NULL => first \in DOMAIN heap)
    BY <1>2 DEF HashInv, PFHashTypeOK, Chained, HeadIsDeepest
  <1>4. NewEntry(first) \in PFhash_entry
    BY <1>2, <1>3 DEF NewEntry, PFhash_entry
  <1>5. heap' = [x \in DOMAIN heap \cup {e} |-> IF x = e THEN NewEntry(first)
                                             ELSE SetPrev(heap, first, e)[x]]
    BY DEF InsertEntry, Linked
  <1>6. ASSUME NEW x \in DOMAIN heap
        PROVE  /\ heap[x] \in PFhash_entry
               /\ SetPrev(heap, first, e)[x] = [heap[x] EXCEPT !.preventry = IF x = first THEN e ELSE @]
    <2>1. heap[x] \in PFhash_entry /\ first # NULL => first \in DOMAIN heap
      BY <1>3, BucketType DEF HashInv
    <2>2. heap = [y \in DOMAIN heap |-> heap[y]] /\ heap[x] \in PFhash_entry
      BY BucketType DEF HashInv, PFHashTypeOK
    <2>3. CASE first = NULL
      <3>1. x # first
        BY <2>3, PFHashAssumption DEF HashInv, PFHashTypeOK
      <3>2. QED
        BY <2>2, <2>3, <3>1 DEF SetPrev, PFhash_entry
    <2>4. CASE first # NULL
      BY <2>1, <2>2, <2>4 DEF SetPrev, PFhash_entry
    <2>5. QED
      BY <2>2, <2>3, <2>4
  <1>7. ASSUME NEW x \in DOMAIN heap
        PROVE  /\ heap'[x] \in PFhash_entry
               /\ heap'[x].fd = heap[x].fd /\ heap'[x].page = heap[x].page
               /\ heap'[x].bpage = heap[x].bpage
               /\ heap'[x].nextentry = heap[x].nextentry
               /\ heap'[x].preventry = IF x = first THEN e ELSE heap[x].preventry
               /\ BucketIn(heap', x) = BucketOf(x)
    <2>1. heap'[x] = [heap[x] EXCEPT !.preventry = IF x = first THEN e ELSE @]
      BY <1>5, <1>6
    <2>2. /\ heap'[x] \in PFhash_entry
          /\ heap'[x].fd = heap[x].fd /\ heap'[x].page = heap[x].page
          /\ heap'[x].bpage = heap[x].bpage
          /\ heap'[x].nextentry = heap[x].nextentry
          /\ heap'[x].preventry = IF x = first THEN e ELSE heap[x].preventry
      BY <2>1, <1>6 DEF PFhash_entry
    <2>3. QED
      BY <2>2 DEF BucketOf, BucketIn
  <1>8. DOMAIN heap' = DOMAIN heap \cup {e} /\ heap'[e] = NewEntry(first)
    BY <1>5
  <1>9. BucketIn(heap', e) = b
    BY <1>8 DEF BucketIn, NewEntry
  <1>10. heap' \in [DOMAIN heap' -> PFhash_entry]
    BY <1>4, <1>5, <1>7, <1>8
  <1>11. QED
    BY <1>2, <1>7, <1>8, <1>9, <1>10

LEMMA InsertKeeps ==
    ASSUME HashInv, NotFound("PFhashInsert"), NEW e \in Entry \ DOMAIN heap, InsertEntry(e)
    PROVE  HashInv'
  <1> DEFINE b     == PFhash(call.fd, call.page)
             first == PFhashtbl[b]
  <1>0. PFHashTypeOK /\ Chained /\ OneEntryPerPage /\ WalkIsAhead
    BY DEF HashInv
  <1>1. /\ b \in Bucket
        /\ DOMAIN heap' = DOMAIN heap \cup {e}
        /\ heap' \in [DOMAIN heap' -> PFhash_entry]
        /\ heap'[e] = NewEntry(first)
        /\ BucketIn(heap', e) = b
    BY InsertHeap
  <1>2. \A x \in DOMAIN heap :
           /\ heap'[x].fd = heap[x].fd /\ heap'[x].page = heap[x].page
           /\ heap'[x].nextentry = heap[x].nextentry
           /\ heap'[x].preventry = IF x = first THEN e ELSE heap[x].preventry
           /\ BucketIn(heap', x) = BucketOf(x)
    BY InsertHeap, ZenonT(60)
  <1>3. /\ length' = [length EXCEPT ![b] = @ + 1]
        /\ depth' = [depth EXCEPT ![e] = length[b] + 1]
        /\ PFhashtbl' = [PFhashtbl EXCEPT ![b] = e]
        /\ Return(PFE_OK)
    BY DEF InsertEntry
  <1>4. /\ \A x \in DOMAIN heap : heap[x] \in PFhash_entry /\ BucketOf(x) \in Bucket
        /\ \A x \in DOMAIN heap : x \in Entry /\ depth[x] \in Nat
        /\ \A c \in Bucket : length[c] \in Nat
    BY <1>0, BucketType DEF PFHashTypeOK
  <1>5. \A x \in DOMAIN heap : depth'[x] = depth[x] /\ x # e
    BY <1>0, <1>3, <1>4 DEF PFHashTypeOK
  <1>6. depth'[e] = length[b] + 1 /\ length'[b] = length[b] + 1
    BY <1>0, <1>1, <1>3 DEF PFHashTypeOK
  <1>7. \A c \in Bucket : c # b => length'[c] = length[c]
    BY <1>0, <1>3 DEF PFHashTypeOK
  <1>8. PFHashTypeOK'
    BY <1>0, <1>1, <1>3, <1>4 DEF PFHashTypeOK, Return
  <1>9. \A x \in DOMAIN heap : depth[x] \in 1 .. length[BucketOf(x)]
    BY <1>0 DEF Chained, DepthsCount
  <1>10. DepthsCount'
    <2>1. \A x \in DOMAIN heap' : depth'[x] \in 1 .. length'[BucketIn(heap', x)]
      BY <1>1, <1>2, <1>4, <1>5, <1>6, <1>7, <1>9
    <2>2. ASSUME NEW x \in DOMAIN heap, BucketOf(x) = b
          PROVE  depth'[x] # depth'[e]
      BY <2>2, <1>1, <1>4, <1>5, <1>6, <1>9
    <2>3. ASSUME NEW x \in DOMAIN heap', NEW y \in DOMAIN heap',
                 BucketIn(heap', x) = BucketIn(heap', y), depth'[x] = depth'[y]
          PROVE  x = y
      BY <2>2, <2>3, <1>0, <1>1, <1>2, <1>5 DEF Chained, DepthsCount
    <2>4. QED
      BY <2>1, <2>3 DEF DepthsCount, BucketOf, BucketIn
  <1>11. IF length[b] = 0 THEN first = NULL
         ELSE first \in DOMAIN heap /\ BucketOf(first) = b /\ depth[first] = length[b]
    BY <1>0, <1>1 DEF Chained, HeadIsDeepest
  <1>12. NextIsBelow'
    <2>1. ASSUME NEW x \in DOMAIN heap
          PROVE  heap'[x].nextentry = heap[x].nextentry
      BY <1>2
    <2>2. ASSUME NEW x \in DOMAIN heap
          PROVE  LET n == heap'[x].nextentry
                 IN  IF depth'[x] = 1 THEN n = NULL
                     ELSE n \in DOMAIN heap' /\ BucketIn(heap', n) = BucketIn(heap', x) /\ depth'[n] = depth'[x] - 1
      <3> DEFINE n == heap[x].nextentry
      <3>1. IF depth[x] = 1 THEN n = NULL
            ELSE n \in DOMAIN heap /\ BucketOf(n) = BucketOf(x) /\ depth[n] = depth[x] - 1
        BY <1>0 DEF Chained, NextIsBelow
      <3>2. QED
        BY <2>1, <3>1, <1>1, <1>2, <1>5
    <2>3. heap'[e].nextentry = first
      BY <1>1 DEF NewEntry
    <2>4. LET n == heap'[e].nextentry
          IN  IF depth'[e] = 1 THEN n = NULL
              ELSE n \in DOMAIN heap' /\ BucketIn(heap', n) = BucketIn(heap', e) /\ depth'[n] = depth'[e] - 1
      BY <2>3, <1>1, <1>2, <1>4, <1>5, <1>6, <1>11
    <2>5. QED
      BY <1>1, <2>2, <2>4 DEF NextIsBelow, BucketOf, BucketIn
  <1>13. PrevIsAbove'
    <2>1. ASSUME NEW x \in DOMAIN heap
          PROVE  heap'[x].preventry = IF x = first THEN e ELSE heap[x].preventry
      BY <1>2
    <2>2. ASSUME NEW x \in DOMAIN heap
          PROVE  LET p == heap'[x].preventry
                 IN  IF depth'[x] = length'[BucketIn(heap', x)] THEN p = NULL
                     ELSE p \in DOMAIN heap' /\ BucketIn(heap', p) = BucketIn(heap', x) /\ depth'[p] = depth'[x] + 1
      <3> DEFINE p == heap[x].preventry
      <3>1. IF depth[x] = length[BucketOf(x)] THEN p = NULL
            ELSE p \in DOMAIN heap /\ BucketOf(p) = BucketOf(x) /\ depth[p] = depth[x] + 1
        BY <1>0 DEF Chained, PrevIsAbove
      <3>2. CASE x = first
        <4>1. length[b] # 0
          BY <3>2, <1>4, <1>11, PFHashAssumption
        <4>2. BucketOf(x) = b /\ depth[x] = length[b]
          BY <3>2, <1>11, <4>1
        <4>3. QED
          BY <2>1, <3>2, <4>2, <1>1, <1>2, <1>4, <1>5, <1>6
      <3>3. CASE x # first /\ BucketOf(x) = b
        <4>1. length[b] # 0
          BY <3>3, <1>4, <1>9
        <4>2. depth[x] # length[b]
          BY <4>1, <3>3, <1>0, <1>11 DEF Chained, DepthsCount
        <4>3. depth[x] < length[b] + 1
          BY <3>3, <1>4, <1>9
        <4>4. QED
          BY <2>1, <3>1, <3>3, <4>2, <4>3, <1>1, <1>2, <1>4, <1>5, <1>6
      <3>4. CASE BucketOf(x) # b
        <4>1. x # first
          BY <3>4, <1>4, <1>11, PFHashAssumption
        <4>2. QED
          BY <2>1, <3>1, <3>4, <4>1, <1>1, <1>2, <1>4, <1>5, <1>7
      <3>5. QED
        BY <3>2, <3>3, <3>4
    <2>3. heap'[e].preventry = NULL /\ depth'[e] = length'[BucketIn(heap', e)]
      BY <1>1, <1>6 DEF NewEntry
    <2>4. QED
      BY <1>1, <2>2, <2>3 DEF PrevIsAbove, BucketOf, BucketIn
  <1>14. HeadIsDeepest'
    <2>1. ASSUME NEW c \in Bucket
          PROVE  LET f == PFhashtbl'[c]
                 IN  IF length'[c] = 0 THEN f = NULL
                     ELSE f \in DOMAIN heap' /\ BucketIn(heap', f) = c /\ depth'[f] = length'[c]
      <3>1. CASE c = b
        BY <3>1, <1>0, <1>1, <1>3, <1>4, <1>6 DEF PFHashTypeOK
      <3>2. CASE c # b
        <4>1. PFhashtbl'[c] = PFhashtbl[c]
          BY <3>2, <1>0, <1>3 DEF PFHashTypeOK
        <4>2. LET f == PFhashtbl[c]
              IN  IF length[c] = 0 THEN f = NULL
                  ELSE f \in DOMAIN heap /\ BucketOf(f) = c /\ depth[f] = length[c]
          BY <1>0 DEF Chained, HeadIsDeepest
        <4>3. QED
          BY <3>2, <4>1, <4>2, <1>1, <1>2, <1>5, <1>7
      <3>3. QED
        BY <3>1, <3>2
    <2>2. QED
      BY <2>1 DEF HeadIsDeepest, BucketOf, BucketIn
  <1>15. OneEntryPerPage'
    <2>1. ASSUME NEW x \in DOMAIN heap
          PROVE  /\ ~(heap[x].fd = call.fd /\ heap[x].page = call.page)
                 /\ heap'[x].fd = heap[x].fd /\ heap'[x].page = heap[x].page
      BY <1>0, <1>2, <1>4 DEF WalkIsAhead, NotFound, Idle, NoCall
    <2>2. heap'[e].fd = call.fd /\ heap'[e].page = call.page
      BY <1>1 DEF NewEntry
    <2>3. QED
      BY <1>0, <1>1, <2>1, <2>2 DEF OneEntryPerPage
  <1>16. WalkIsAhead'
    BY <1>3 DEF WalkIsAhead, Return, Idle
  <1>17. QED
    BY <1>8, <1>10, <1>12, <1>13, <1>14, <1>15, <1>16 DEF HashInv, Chained

-----------------------------------------------------------------------------
(* Deleting: the neighbours get each other, and the entries above go down. *)

LEMMA FoundEntry ==
    ASSUME HashInv, Found("PFhashDelete")
    PROVE  LET b == PFhash(call.fd, call.page)
           IN  /\ entry \in DOMAIN heap /\ BucketOf(entry) = b /\ b \in Bucket
               /\ depth[entry] \in 1 .. length[b] /\ length[b] \in Nat
               /\ IF depth[entry] = 1 THEN Next = NULL
                  ELSE Next \in DOMAIN heap /\ BucketOf(Next) = b /\ depth[Next] = depth[entry] - 1
               /\ IF depth[entry] = length[b] THEN Prev = NULL
                  ELSE Prev \in DOMAIN heap /\ BucketOf(Prev) = b /\ depth[Prev] = depth[entry] + 1
  <1>1. ~Idle /\ entry # NULL
    BY DEF Found, Idle, NoCall
  <1>2. entry \in DOMAIN heap /\ BucketOf(entry) = PFhash(call.fd, call.page)
    BY <1>1 DEF HashInv, WalkIsAhead
  <1>3. BucketOf(entry) \in Bucket
    BY <1>2, BucketType DEF HashInv
  <1>4. QED
    BY <1>2, <1>3 DEF HashInv, Chained, DepthsCount, NextIsBelow, PrevIsAbove, PFHashTypeOK, Next, Prev

LEMMA DeleteHeap ==
    ASSUME HashInv, Found("PFhashDelete"), DeleteEntry
    PROVE  /\ DOMAIN heap' = DOMAIN heap \ {entry}
           /\ heap' \in [DOMAIN heap' -> PFhash_entry]
           /\ \A x \in DOMAIN heap \ {entry} :
                /\ heap'[x].fd = heap[x].fd /\ heap'[x].page = heap[x].page
                /\ heap'[x].bpage = heap[x].bpage
                /\ heap'[x].nextentry = IF x = Prev THEN Next ELSE heap[x].nextentry
                /\ heap'[x].preventry = IF x = Next THEN Prev ELSE heap[x].preventry
                /\ BucketIn(heap', x) = BucketOf(x)
  <1> DEFINE h == SetNext(heap, Prev, Next)
  <1>1. heap' = [x \in DOMAIN heap \ {entry} |-> SetPrev(h, Next, Prev)[x]]
    BY DEF DeleteEntry, Unlinked
  <1>2. /\ Next \in DOMAIN heap \cup {NULL} /\ Prev \in DOMAIN heap \cup {NULL}
        /\ NULL \notin DOMAIN heap /\ DOMAIN heap \subseteq Entry
        /\ heap \in [DOMAIN heap -> PFhash_entry]
    BY FoundEntry, PFHashAssumption DEF HashInv, PFHashTypeOK
  <1>3. /\ h \in [DOMAIN heap -> PFhash_entry]
        /\ \A x \in DOMAIN heap :
             /\ h[x].fd = heap[x].fd /\ h[x].page = heap[x].page /\ h[x].bpage = heap[x].bpage
             /\ h[x].nextentry = IF x = Prev THEN Next ELSE heap[x].nextentry
             /\ h[x].preventry = heap[x].preventry
    <2>1. CASE Prev = NULL
      BY <2>1, <1>2 DEF SetNext
    <2>2. CASE Prev # NULL
      <3>1. h = [heap EXCEPT ![Prev].nextentry = Next] /\ Prev \in DOMAIN heap
        BY <2>2, <1>2 DEF SetNext
      <3>2. h = [x \in DOMAIN heap |-> IF x = Prev THEN [heap[x] EXCEPT !.nextentry = Next] ELSE heap[x]]
        BY <3>1, <1>2
      <3>3. \A x \in DOMAIN heap : heap[x] \in PFhash_entry
        BY <1>2
      <3>4. QED
        BY <3>2, <3>3, <1>2 DEF PFhash_entry
    <2>3. QED
      BY <2>1, <2>2
  <1> HIDE DEF h
  <1>4. /\ SetPrev(h, Next, Prev) \in [DOMAIN heap -> PFhash_entry]
        /\ \A x \in DOMAIN heap :
             LET s == SetPrev(h, Next, Prev)[x]
             IN  /\ s.fd = heap[x].fd /\ s.page = heap[x].page /\ s.bpage = heap[x].bpage
                 /\ s.nextentry = h[x].nextentry
                 /\ s.preventry = IF x = Next THEN Prev ELSE heap[x].preventry
    <2>1. CASE Next = NULL
      BY <2>1, <1>2, <1>3 DEF SetPrev
    <2>2. CASE Next # NULL
      <3>1. SetPrev(h, Next, Prev)
              = [x \in DOMAIN heap |-> IF x = Next THEN [h[x] EXCEPT !.preventry = Prev] ELSE h[x]]
        BY <2>2, <1>2, <1>3 DEF SetPrev
      <3>2. \A x \in DOMAIN heap : h[x] \in PFhash_entry
        BY <1>3
      <3>3. QED
        BY <3>1, <3>2, <1>2, <1>3 DEF PFhash_entry
    <2>3. QED
      BY <2>1, <2>2
  <1>5. QED
    BY <1>1, <1>3, <1>4 DEF BucketIn, BucketOf

LEMMA DeleteDepth ==
    ASSUME HashInv, Found("PFhashDelete"), DeleteEntry
    PROVE  LET b == PFhash(call.fd, call.page)
           IN  /\ length' \in [Bucket -> Nat] /\ depth' \in [Entry -> Nat]
               /\ length'[b] = length[b] - 1
               /\ \A c \in Bucket : c # b => length'[c] = length[c]
               /\ \A x \in DOMAIN heap \ {entry} :
                    /\ depth[x] \in 1 .. length[BucketOf(x)] /\ length[BucketOf(x)] \in Nat
                    /\ BucketOf(x) = b => depth[x] # depth[entry]
                    /\ depth'[x] = IF BucketOf(x) = b /\ depth[x] > depth[entry]
                                   THEN depth[x] - 1 ELSE depth[x]
  <1> DEFINE b     == PFhash(call.fd, call.page)
             above == {x \in DOMAIN heap : BucketOf(x) = b /\ depth[x] > depth[entry]}
  <1>1. /\ entry \in DOMAIN heap /\ BucketOf(entry) = b /\ b \in Bucket
        /\ depth[entry] \in 1 .. length[b] /\ length[b] \in Nat
    BY FoundEntry
  <1>2. /\ length' = [length EXCEPT ![b] = @ - 1]
        /\ depth' = [x \in Entry |-> IF x = entry THEN 0
                                     ELSE IF x \in above THEN depth[x] - 1 ELSE depth[x]]
    BY DEF DeleteEntry
  <1>3. length \in [Bucket -> Nat] /\ depth \in [Entry -> Nat] /\ DOMAIN heap \subseteq Entry
    BY DEF HashInv, PFHashTypeOK
  <1>4. /\ length' \in [Bucket -> Nat]
        /\ length'[b] = length[b] - 1
        /\ \A c \in Bucket : c # b => length'[c] = length[c]
    BY <1>1, <1>2, <1>3
  <1>5. ASSUME NEW x \in DOMAIN heap \ {entry}
        PROVE  /\ depth[x] \in 1 .. length[BucketOf(x)] /\ length[BucketOf(x)] \in Nat
               /\ BucketOf(x) = b => depth[x] # depth[entry]
    BY <1>1, BucketType DEF HashInv, PFHashTypeOK, Chained, DepthsCount
  <1>6. depth' \in [Entry -> Nat]
    <2>1. \A x \in above : depth[x] - 1 \in Nat
      BY <1>1, <1>3
    <2>2. QED
      BY <2>1, <1>2, <1>3
  <1>7. ASSUME NEW x \in DOMAIN heap \ {entry}
        PROVE  depth'[x] = IF BucketOf(x) = b /\ depth[x] > depth[entry]
                           THEN depth[x] - 1 ELSE depth[x]
    BY <1>2, <1>3
  <1>8. QED
    BY <1>4, <1>5, <1>6, <1>7

LEMMA DeleteKeeps ==
    ASSUME HashInv, Found("PFhashDelete"), DeleteEntry
    PROVE  HashInv'
  <1> DEFINE b     == PFhash(call.fd, call.page)
             rest  == DOMAIN heap \ {entry}
             first == PFhashtbl[b]
  <1>0. PFHashTypeOK /\ Chained /\ OneEntryPerPage
    BY DEF HashInv
  <1>1. /\ entry \in DOMAIN heap /\ BucketOf(entry) = b /\ b \in Bucket
        /\ depth[entry] \in 1 .. length[b] /\ length[b] \in Nat
    BY FoundEntry
  <1>2. IF depth[entry] = 1 THEN Next = NULL
        ELSE Next \in DOMAIN heap /\ BucketOf(Next) = b /\ depth[Next] = depth[entry] - 1
    BY FoundEntry
  <1>3. IF depth[entry] = length[b] THEN Prev = NULL
        ELSE Prev \in DOMAIN heap /\ BucketOf(Prev) = b /\ depth[Prev] = depth[entry] + 1
    BY FoundEntry
  <1>4. DOMAIN heap' = rest /\ heap' \in [DOMAIN heap' -> PFhash_entry]
    BY DeleteHeap
  <1>5. \A x \in rest :
          /\ heap'[x].fd = heap[x].fd /\ heap'[x].page = heap[x].page
          /\ heap'[x].nextentry = IF x = Prev THEN Next ELSE heap[x].nextentry
          /\ heap'[x].preventry = IF x = Next THEN Prev ELSE heap[x].preventry
          /\ BucketIn(heap', x) = BucketOf(x)
    BY DeleteHeap
  <1>6. /\ length' \in [Bucket -> Nat] /\ depth' \in [Entry -> Nat]
        /\ length'[b] = length[b] - 1
        /\ \A c \in Bucket : c # b => length'[c] = length[c]
    BY DeleteDepth
  <1>7. \A x \in rest :
          /\ depth[x] \in 1 .. length[BucketOf(x)] /\ length[BucketOf(x)] \in Nat
          /\ BucketOf(x) = b => depth[x] # depth[entry]
          /\ depth'[x] = IF BucketOf(x) = b /\ depth[x] > depth[entry]
                         THEN depth[x] - 1 ELSE depth[x]
    BY DeleteDepth
  <1>8. PFhashtbl' = [PFhashtbl EXCEPT ![b] = NewHead(@)] /\ Return(PFE_OK)
    BY DEF DeleteEntry
  <1>9. NULL \notin DOMAIN heap /\ Next \in Entry \cup {NULL}
    BY <1>0, <1>2, PFHashAssumption DEF PFHashTypeOK
  <1>10. \A x, y \in DOMAIN heap : BucketOf(x) = BucketOf(y) /\ depth[x] = depth[y] => x = y
    BY <1>0 DEF Chained, DepthsCount
  <1>11. \A x \in rest : BucketOf(x) \in Bucket
    BY <1>0, BucketType
  <1>12. PFHashTypeOK'
    BY <1>0, <1>1, <1>4, <1>6, <1>8, <1>9 DEF PFHashTypeOK, Return, NewHead
  <1>13. DepthsCount'
    <2>1. ASSUME NEW x \in rest
          PROVE  depth'[x] \in 1 .. length'[BucketIn(heap', x)]
      BY <1>1, <1>5, <1>6, <1>7, <1>11
    <2>2. ASSUME NEW x \in rest, NEW y \in rest,
                 BucketIn(heap', x) = BucketIn(heap', y), depth'[x] = depth'[y]
          PROVE  x = y
      <3>1. BucketOf(x) = BucketOf(y)
        BY <2>2, <1>5
      <3>2. depth[x] = depth[y]
        BY <2>2, <3>1, <1>1, <1>7
      <3>3. QED
        BY <3>1, <3>2, <1>10
    <2>3. QED
      BY <2>1, <2>2, <1>4 DEF DepthsCount, BucketOf, BucketIn
  <1>14. NextIsBelow'
    <2>1. ASSUME NEW x \in rest
          PROVE  LET n == heap'[x].nextentry
                 IN  IF depth'[x] = 1 THEN n = NULL
                     ELSE /\ n \in rest /\ BucketIn(heap', n) = BucketIn(heap', x)
                          /\ depth'[n] = depth'[x] - 1
      <3> DEFINE n == heap[x].nextentry
      <3>1. IF depth[x] = 1 THEN n = NULL
            ELSE n \in DOMAIN heap /\ BucketOf(n) = BucketOf(x) /\ depth[n] = depth[x] - 1
        BY <1>0 DEF Chained, NextIsBelow
      <3>2. CASE x = Prev
        <4>1. BucketOf(x) = b /\ depth[x] = depth[entry] + 1 /\ heap'[x].nextentry = Next
          BY <3>2, <1>3, <1>5, <1>9
        <4>2. depth'[x] = depth[entry]
          BY <4>1, <1>1, <1>7
        <4>3. CASE depth[entry] # 1
          <5>1. Next \in rest /\ BucketOf(Next) = b /\ depth[Next] = depth[entry] - 1
            BY <4>3, <1>1, <1>2
          <5>2. depth'[Next] = depth[entry] - 1
            BY <5>1, <1>1, <1>7
          <5>3. QED
            BY <4>1, <4>2, <4>3, <5>1, <5>2, <1>5
        <4>4. QED
          BY <4>1, <4>2, <4>3, <1>2
      <3>3. CASE x # Prev
        <4>1. heap'[x].nextentry = n
          BY <3>3, <1>5
        <4>2. BucketOf(x) = b => depth[x] # depth[entry] + 1
          BY <3>3, <1>1, <1>3, <1>7, <1>10
        <4>3. depth'[x] = 1 <=> depth[x] = 1
          BY <4>2, <1>1, <1>7
        <4>4. CASE depth[x] # 1
          <5>1. n \in rest /\ BucketOf(n) = BucketOf(x) /\ depth[n] = depth[x] - 1
            BY <3>1, <4>2, <4>4, <1>1, <1>7
          <5>2. depth'[n] = depth'[x] - 1
            BY <5>1, <4>2, <1>1, <1>7
          <5>3. QED
            BY <4>1, <4>3, <4>4, <5>1, <5>2, <1>5
        <4>5. QED
          BY <3>1, <4>1, <4>3, <4>4
      <3>4. QED
        BY <3>2, <3>3
    <2>2. QED
      BY <2>1, <1>4 DEF NextIsBelow, BucketOf, BucketIn
  <1>15. PrevIsAbove'
    <2>1. ASSUME NEW x \in rest
          PROVE  LET p == heap'[x].preventry
                 IN  IF depth'[x] = length'[BucketIn(heap', x)] THEN p = NULL
                     ELSE /\ p \in rest /\ BucketIn(heap', p) = BucketIn(heap', x)
                          /\ depth'[p] = depth'[x] + 1
      <3> DEFINE p == heap[x].preventry
      <3>1. IF depth[x] = length[BucketOf(x)] THEN p = NULL
            ELSE p \in DOMAIN heap /\ BucketOf(p) = BucketOf(x) /\ depth[p] = depth[x] + 1
        BY <1>0 DEF Chained, PrevIsAbove
      <3>2. CASE x = Next
        <4>1. BucketOf(x) = b /\ depth[x] = depth[entry] - 1 /\ heap'[x].preventry = Prev
          BY <3>2, <1>2, <1>5, <1>9
        <4>2. depth'[x] = depth[entry] - 1
          BY <4>1, <1>1, <1>7
        <4>3. CASE depth[entry] # length[b]
          <5>1. Prev \in rest /\ BucketOf(Prev) = b /\ depth[Prev] = depth[entry] + 1
            BY <4>3, <1>1, <1>3
          <5>2. depth'[Prev] = depth[entry]
            BY <5>1, <1>1, <1>7
          <5>3. QED
            BY <4>1, <4>2, <4>3, <5>1, <5>2, <1>1, <1>5, <1>6
        <4>4. CASE depth[entry] = length[b]
          BY <4>1, <4>2, <4>4, <1>1, <1>3, <1>5, <1>6
        <4>5. QED
          BY <4>3, <4>4
      <3>3. CASE x # Next
        <4>1. heap'[x].preventry = p
          BY <3>3, <1>5
        <4>2. BucketOf(x) = b => depth[x] # depth[entry] - 1
          BY <3>3, <1>1, <1>2, <1>7, <1>10
        <4>3. depth'[x] = length'[BucketIn(heap', x)] <=> depth[x] = length[BucketOf(x)]
          BY <4>2, <1>1, <1>5, <1>6, <1>7, <1>11
        <4>4. CASE depth[x] # length[BucketOf(x)]
          <5>1. p \in rest /\ BucketOf(p) = BucketOf(x) /\ depth[p] = depth[x] + 1
            BY <3>1, <4>2, <4>4, <1>1, <1>7
          <5>2. depth'[p] = depth'[x] + 1
            BY <5>1, <4>2, <1>1, <1>7
          <5>3. QED
            BY <4>1, <4>3, <4>4, <5>1, <5>2, <1>5
        <4>5. QED
          BY <3>1, <4>1, <4>3, <4>4
      <3>4. QED
        BY <3>2, <3>3
    <2>2. QED
      BY <2>1, <1>4 DEF PrevIsAbove, BucketOf, BucketIn
  <1>16. HeadIsDeepest'
    <2>1. ASSUME NEW c \in Bucket
          PROVE  LET f == PFhashtbl'[c]
                 IN  IF length'[c] = 0 THEN f = NULL
                     ELSE f \in rest /\ BucketIn(heap', f) = c /\ depth'[f] = length'[c]
      <3>1. LET f == PFhashtbl[c]
            IN  IF length[c] = 0 THEN f = NULL
                ELSE f \in DOMAIN heap /\ BucketOf(f) = c /\ depth[f] = length[c]
        BY <1>0 DEF Chained, HeadIsDeepest
      <3>2. CASE c # b
        <4>1. PFhashtbl'[c] = PFhashtbl[c] /\ length'[c] = length[c]
          BY <3>2, <1>0, <1>6, <1>8 DEF PFHashTypeOK
        <4>2. QED
          BY <3>1, <3>2, <4>1, <1>1, <1>5, <1>7
      <3>3. CASE c = b /\ first = entry
        <4>1. PFhashtbl'[c] = Next /\ depth[entry] = length[b]
          BY <3>1, <3>3, <1>0, <1>1, <1>8 DEF PFHashTypeOK, NewHead
        <4>2. CASE depth[entry] # 1
          <5>1. Next \in rest /\ BucketOf(Next) = b /\ depth[Next] = depth[entry] - 1
            BY <4>2, <1>1, <1>2
          <5>2. depth'[Next] = depth[entry] - 1
            BY <5>1, <1>1, <1>7
          <5>3. QED
            BY <3>3, <4>1, <4>2, <5>1, <5>2, <1>1, <1>5, <1>6
        <4>3. QED
          BY <3>3, <4>1, <4>2, <1>1, <1>2, <1>6
      <3>4. CASE c = b /\ first # entry
        <4>1. PFhashtbl'[c] = first
          BY <3>4, <1>0, <1>1, <1>8 DEF PFHashTypeOK, NewHead
        <4>2. first \in rest /\ BucketOf(first) = b /\ depth[first] = length[b]
          BY <3>1, <3>4, <1>1
        <4>3. depth'[first] = length[b] - 1 /\ length[b] > 1
          BY <4>2, <1>1, <1>7
        <4>4. QED
          BY <3>4, <4>1, <4>2, <4>3, <1>1, <1>5, <1>6
      <3>5. QED
        BY <3>2, <3>3, <3>4
    <2>2. QED
      BY <2>1, <1>4 DEF HeadIsDeepest, BucketOf, BucketIn
  <1>17. OneEntryPerPage'
    BY <1>0, <1>4, <1>5 DEF OneEntryPerPage
  <1>18. WalkIsAhead'
    BY <1>8 DEF WalkIsAhead, Return, Idle
  <1>19. QED
    BY <1>12, <1>13, <1>14, <1>15, <1>16, <1>17, <1>18 DEF HashInv, Chained

-----------------------------------------------------------------------------
(* The invariant, and the theorems. *)

LEMMA HashInit ==
    ASSUME PFhashInit
    PROVE  HashInv
  <1>1. PFHashTypeOK
    BY DEF PFhashInit, PFHashTypeOK, PFE_OK
  <1>2. Chained /\ OneEntryPerPage /\ WalkIsAhead
    BY DEF PFhashInit, Chained, DepthsCount, NextIsBelow, PrevIsAbove, HeadIsDeepest,
           OneEntryPerPage, WalkIsAhead, Idle, NoCall
  <1>3. QED
    BY <1>1, <1>2 DEF HashInv

LEMMA HashStep ==
    ASSUME HashInv, [PFHashNext]_hashvars
    PROVE  HashInv'
  <1>1. CASE UNCHANGED hashvars
    <2>1. UNCHANGED table /\ call' = call /\ entry' = entry /\ ret' = ret
      BY <1>1 DEF hashvars, table
    <2>2. PFHashTypeOK'
      BY <2>1, TableKept DEF PFHashTypeOK, HashInv
    <2>3. WalkIsAhead'
      BY <2>1 DEF HashInv, WalkIsAhead, table, Idle, BucketOf
    <2>4. QED
      BY <2>1, <2>2, <2>3, TableKept DEF HashInv
  <1>2. ASSUME NEW c \in Call, Begin(c)
        PROVE  HashInv'
    BY <1>2, BeginKeeps
  <1>3. CASE Walk
    BY <1>3, WalkKeeps
  <1>4. CASE PFhashFind
    <2>1. CASE Found("PFhashFind") /\ Return(heap[entry].bpage) /\ UNCHANGED table
      <3>1. entry \in DOMAIN heap
        BY <2>1 DEF Found, HashInv, WalkIsAhead
      <3>2. heap[entry].bpage \in Frame
        BY <3>1, BucketType DEF HashInv, PFhash_entry
      <3>3. QED
        BY <2>1, <3>2, ReturnKeeps
    <2>2. CASE NotFound("PFhashFind") /\ Return(NULL) /\ UNCHANGED table
      BY <2>2, ReturnKeeps
    <2>3. QED
      BY <1>4, <2>1, <2>2 DEF PFhashFind
  <1>5. CASE PFhashInsert
    <2>1. CASE UNCHANGED table /\ (Return(PFE_HASHPAGEEXIST) \/ Return(PFE_NOMEM))
      BY <2>1, ReturnKeeps
    <2>2. CASE NotFound("PFhashInsert") /\ \E e \in Entry \ DOMAIN heap : InsertEntry(e)
      BY <2>2, InsertKeeps
    <2>3. QED
      BY <1>5, <2>1, <2>2 DEF PFhashInsert
  <1>6. CASE PFhashDelete
    <2>1. CASE UNCHANGED table /\ Return(PFE_HASHNOTFOUND)
      BY <2>1, ReturnKeeps
    <2>2. CASE Found("PFhashDelete") /\ DeleteEntry
      BY <2>2, DeleteKeeps
    <2>3. QED
      BY <1>6, <2>1, <2>2 DEF PFhashDelete
  <1>7. QED
    BY <1>1, <1>2, <1>3, <1>4, <1>5, <1>6 DEF PFHashNext, Turn

LEMMA HashInvariant == PFHashSpec => []HashInv
  <1>1. PFhashInit => HashInv
    BY HashInit
  <1>2. HashInv /\ [PFHashNext]_hashvars => HashInv'
    BY HashStep
  <1>3. QED
    BY <1>1, <1>2, PTL DEF PFHashSpec

(* Every variable has its type, whatever calls the clients make. *)
THEOREM HashTypeCorrect == PFHashSpec => []PFHashTypeOK
  <1>1. HashInv => PFHashTypeOK
    BY DEF HashInv
  <1>2. QED
    BY <1>1, HashInvariant, PTL

(* The links of hash.c lead to live entries and agree with each other: the *)
(* unlinking of PFhashDelete leaves no pointer to what it frees.           *)
THEOREM LinksAlwaysAgree == PFHashSpec => []LinksAgree
  <1>1. HashInv => LinksAgree
    BY ChainedLinks
  <1>2. QED
    BY <1>1, HashInvariant, PTL

(* A page never has two entries: the walk of PFhashInsert sees its whole   *)
(* bucket before the new entry is made.                                    *)
THEOREM PagesHaveOneEntry == PFHashSpec => []OneEntryPerPage
  <1>1. HashInv => OneEntryPerPage
    BY DEF HashInv
  <1>2. QED
    BY <1>1, HashInvariant, PTL

(* How many entries a pointer has before it. *)
Behind(e) == IF e = NULL THEN 0 ELSE depth[e]

LEMMA WalkLessens ==
    ASSUME HashInv, Walk
    PROVE  Behind(entry)' < Behind(entry)
  <1>1. entry # NULL /\ depth' = depth
    BY DEF Walk, table
  <1>2. depth[entry] \in Nat
    BY WalkGoesDown DEF HashInv, PFHashTypeOK
  <1>3. CASE entry' = NULL
    BY <1>1, <1>2, <1>3, WalkGoesDown DEF Behind
  <1>4. CASE entry' # NULL
    BY <1>1, <1>2, <1>4, WalkGoesDown DEF Behind
  <1>5. QED
    BY <1>3, <1>4

(* Each turn of a walk leaves fewer entries before it, so that no call     *)
(* goes round: the measure behind HashCallsReturn.                         *)
THEOREM WalksGoDown == PFHashSpec => [][Walk => Behind(entry)' < Behind(entry)]_hashvars
  <1>1. HashInv /\ [PFHashNext]_hashvars => [Walk => Behind(entry)' < Behind(entry)]_hashvars
    BY WalkLessens
  <1>2. QED
    BY <1>1, HashInvariant, PTL DEF PFHashSpec

-----------------------------------------------------------------------------
(* The refinement: what the entries say of each page, step by step. *)

FrameIn(h, k) ==
    LET at == {e \in DOMAIN h : <<h[e].fd, h[e].page>> = k}
    IN  IF at = {} THEN NULL ELSE h[CHOOSE e \in at : TRUE].bpage

NoTwins(h) ==
    \A e, f \in DOMAIN h : h[e].fd = h[f].fd /\ h[e].page = h[f].page => e = f

LEMMA FrameOfEntry ==
    ASSUME NEW h, NoTwins(h), NEW e \in DOMAIN h
    PROVE  FrameIn(h, <<h[e].fd, h[e].page>>) = h[e].bpage
  <1> DEFINE at == {f \in DOMAIN h : <<h[f].fd, h[f].page>> = <<h[e].fd, h[e].page>>}
  <1>1. at = {e}
    BY DEF NoTwins
  <1>2. (CHOOSE f \in at : TRUE) = e
    BY <1>1
  <1>3. QED
    BY <1>1, <1>2 DEF FrameIn

LEMMA FrameOfNone ==
    ASSUME NEW h, NEW k, \A e \in DOMAIN h : <<h[e].fd, h[e].page>> # k
    PROVE  FrameIn(h, k) = NULL
  BY DEF FrameIn

(* When the walk has ended, it knows the frame of its page. *)
LEMMA WalkKnows ==
    ASSUME HashInv, ~Idle
    PROVE  LET k == <<call.fd, call.page>>
           IN  /\ k \in FD \X PageNum
               /\ entry # NULL /\ Matches =>
                    /\ entry \in DOMAIN heap
                    /\ FrameIn(heap, k) = heap[entry].bpage /\ FrameIn(heap, k) # NULL
               /\ entry = NULL => FrameIn(heap, k) = NULL
  <1>1. call.fd \in FD /\ call.page \in PageNum
    BY CallType DEF HashInv
  <1>2. NoTwins(heap)
    BY DEF HashInv, OneEntryPerPage, NoTwins
  <1>3. ASSUME entry # NULL, Matches
        PROVE  /\ entry \in DOMAIN heap
               /\ FrameIn(heap, <<call.fd, call.page>>) = heap[entry].bpage
               /\ heap[entry].bpage # NULL
    <2>1. entry \in DOMAIN heap /\ heap[entry].bpage \in Frame
      BY <1>3, BucketType DEF HashInv, WalkIsAhead, PFhash_entry
    <2>2. QED
      BY <1>2, <1>3, <2>1, FrameOfEntry, PFHashAssumption DEF Matches
  <1>4. ASSUME entry = NULL
        PROVE  FrameIn(heap, <<call.fd, call.page>>) = NULL
    BY <1>4, FrameOfNone DEF HashInv, WalkIsAhead
  <1>5. QED
    BY <1>1, <1>3, <1>4

LEMMA InsertFrames ==
    ASSUME HashInv, HashInv', NotFound("PFhashInsert"),
           NEW e \in Entry \ DOMAIN heap, InsertEntry(e), NEW k \in FD \X PageNum
    PROVE  FrameIn(heap', k) = IF k = <<call.fd, call.page>> THEN call.bpage ELSE FrameIn(heap, k)
  <1>1. NoTwins(heap) /\ NoTwins(heap')
    BY DEF HashInv, OneEntryPerPage, NoTwins
  <1>2. DOMAIN heap' = DOMAIN heap \cup {e}
    BY InsertHeap
  <1>3. /\ heap'[e].fd = call.fd /\ heap'[e].page = call.page /\ heap'[e].bpage = call.bpage
    <2>1. heap'[e] = NewEntry(PFhashtbl[PFhash(call.fd, call.page)])
      BY InsertHeap
    <2>2. QED
      BY <2>1 DEF NewEntry
  <1>4. \A x \in DOMAIN heap : /\ heap'[x].fd = heap[x].fd /\ heap'[x].page = heap[x].page
                               /\ heap'[x].bpage = heap[x].bpage
    BY InsertHeap
  <1>5. CASE k = <<call.fd, call.page>>
    BY <1>1, <1>2, <1>3, <1>5, FrameOfEntry
  <1>6. CASE k # <<call.fd, call.page>>
    <2>1. CASE \E x \in DOMAIN heap : <<heap[x].fd, heap[x].page>> = k
      <3>1. PICK x \in DOMAIN heap : <<heap[x].fd, heap[x].page>> = k
        BY <2>1
      <3>2. FrameIn(heap, k) = heap[x].bpage
        BY <1>1, <3>1, FrameOfEntry
      <3>3. FrameIn(heap', <<heap'[x].fd, heap'[x].page>>) = heap'[x].bpage
        BY <1>1, <1>2, FrameOfEntry
      <3>4. QED
        BY <1>4, <1>6, <3>1, <3>2, <3>3
    <2>2. CASE \A x \in DOMAIN heap : <<heap[x].fd, heap[x].page>> # k
      <3>1. \A x \in DOMAIN heap' : <<heap'[x].fd, heap'[x].page>> # k
        BY <1>2, <1>3, <1>4, <1>6, <2>2
      <3>2. QED
        BY <1>6, <2>2, <3>1, FrameOfNone
    <2>3. QED
      BY <2>1, <2>2
  <1>7. QED
    BY <1>5, <1>6

LEMMA DeleteFrames ==
    ASSUME HashInv, HashInv', Found("PFhashDelete"), DeleteEntry, NEW k \in FD \X PageNum
    PROVE  FrameIn(heap', k) = IF k = <<call.fd, call.page>> THEN NULL ELSE FrameIn(heap, k)
  <1>1. NoTwins(heap) /\ NoTwins(heap')
    BY DEF HashInv, OneEntryPerPage, NoTwins
  <1>2. /\ entry \in DOMAIN heap
        /\ heap[entry].fd = call.fd /\ heap[entry].page = call.page
    BY FoundEntry DEF Found, Matches
  <1>3. DOMAIN heap' = DOMAIN heap \ {entry}
    BY DeleteHeap
  <1>4. \A x \in DOMAIN heap \ {entry} :
           /\ heap'[x].fd = heap[x].fd /\ heap'[x].page = heap[x].page
           /\ heap'[x].bpage = heap[x].bpage
    BY DeleteHeap
  <1>5. CASE k = <<call.fd, call.page>>
    <2>1. \A x \in DOMAIN heap' : <<heap'[x].fd, heap'[x].page>> # k
      BY <1>1, <1>2, <1>3, <1>4, <1>5 DEF NoTwins
    <2>2. QED
      BY <1>5, <2>1, FrameOfNone
  <1>6. CASE k # <<call.fd, call.page>>
    <2>1. CASE \E x \in DOMAIN heap : <<heap[x].fd, heap[x].page>> = k
      <3>1. PICK x \in DOMAIN heap : <<heap[x].fd, heap[x].page>> = k
        BY <2>1
      <3>2. x # entry
        BY <1>2, <1>6, <3>1
      <3>3. FrameIn(heap, k) = heap[x].bpage
        BY <1>1, <3>1, FrameOfEntry
      <3>4. FrameIn(heap', <<heap'[x].fd, heap'[x].page>>) = heap'[x].bpage
        BY <1>1, <1>3, <3>2, FrameOfEntry
      <3>5. QED
        BY <1>4, <1>6, <3>1, <3>2, <3>3, <3>4
    <2>2. CASE \A x \in DOMAIN heap : <<heap[x].fd, heap[x].page>> # k
      <3>1. \A x \in DOMAIN heap' : <<heap'[x].fd, heap'[x].page>> # k
        BY <1>3, <1>4, <2>2
      <3>2. QED
        BY <1>6, <2>2, <3>1, FrameOfNone
    <2>3. QED
      BY <2>1, <2>2
  <1>7. QED
    BY <1>5, <1>6

Frames(h) == [k \in FD \X PageNum |-> FrameIn(h, k)]

LEMMA FramesAre ==
    /\ [k \in FD \X PageNum |-> FrameOf(k)] = Frames(heap)
    /\ [k \in FD \X PageNum |-> FrameOf(k)]' = Frames(heap')
  BY DEF Frames, FrameOf, FrameIn

(* A step that changes neither the entries nor the call is a stutter. *)
LEMMA FramesStutter ==
    ASSUME heap' = heap, call' = call, ret' = ret
    PROVE  UNCHANGED TableOf!tablevars
  BY FramesAre DEF TableOf!tablevars

LEMMA FramesStep ==
    ASSUME HashInv, HashInv', [PFHashNext]_hashvars
    PROVE  [TableOf!Request \/ TableOf!Serve]_TableOf!tablevars
  <1> DEFINE k == <<call.fd, call.page>>
  <1>1. CASE UNCHANGED hashvars
    BY <1>1, FramesStutter DEF hashvars
  <1>2. ASSUME NEW c \in Call, Begin(c)
        PROVE  TableOf!Request
    <2>1. heap' = heap /\ ret' = ret /\ call = NoCall /\ call' = c
      BY <1>2 DEF Begin, table, Idle
    <2>2. QED
      BY <2>1, FramesAre DEF TableOf!Request, TableOf!NoRequest, NoCall, Call
  <1>3. CASE Walk
    BY <1>3, FramesStutter DEF Walk, table
  <1>4. CASE PFhashFind
    <2>1. ~Idle /\ call.routine = "PFhashFind" /\ call' = NoCall /\ heap' = heap
      BY <1>4 DEF PFhashFind, Found, NotFound, Return, Idle, NoCall, table
    <2>2. ret' = FrameIn(heap, k) /\ k \in FD \X PageNum
      BY <1>4, <2>1, WalkKnows DEF PFhashFind, Found, NotFound, Return
    <2>3. ret' = Frames(heap)[k]
      BY <2>2 DEF Frames
    <2>4. TableOf!Find
      BY <2>1, <2>3, FramesAre DEF TableOf!Find, TableOf!Key
    <2>5. QED
      BY <2>1, <2>4 DEF TableOf!Serve, TableOf!NoRequest, NoCall
  <1>5. CASE PFhashInsert
    <2>1. ~Idle /\ call.routine = "PFhashInsert" /\ call' = NoCall
      BY <1>5 DEF PFhashInsert, InsertEntry, Found, NotFound, Return, Idle, NoCall
    <2>2. k \in FD \X PageNum /\ Frames(heap)[k] = FrameIn(heap, k)
      BY <2>1, WalkKnows DEF Frames
    <2>3. TableOf!Insert
      <3>1. CASE Found("PFhashInsert") /\ Return(PFE_HASHPAGEEXIST) /\ UNCHANGED table
        <4>1. Frames(heap)[k] # NULL /\ heap' = heap /\ ret' = -19
          BY <3>1, <2>1, <2>2, WalkKnows DEF Found, Return, table, PFE_HASHPAGEEXIST
        <4>2. QED
          BY <4>1, FramesAre DEF TableOf!Insert, TableOf!Key, TableOf!PageExist
      <3>2. CASE NotFound("PFhashInsert") /\ Return(PFE_NOMEM) /\ UNCHANGED table
        <4>1. Frames(heap)[k] = NULL /\ heap' = heap /\ ret' = -1
          BY <3>2, <2>1, <2>2, WalkKnows DEF NotFound, Return, table, PFE_NOMEM
        <4>2. QED
          BY <4>1, FramesAre DEF TableOf!Insert, TableOf!Key, TableOf!NoMemory
      <3>3. CASE NotFound("PFhashInsert") /\ \E e \in Entry \ DOMAIN heap : InsertEntry(e)
        <4>1. PICK e \in Entry \ DOMAIN heap : InsertEntry(e)
          BY <3>3
        <4>2. Frames(heap)[k] = NULL /\ ret' = 0
          BY <3>3, <4>1, <2>1, <2>2, WalkKnows DEF NotFound, InsertEntry, Return, PFE_OK
        <4>3. \A l \in FD \X PageNum :
                 FrameIn(heap', l) = IF l = k THEN call.bpage ELSE FrameIn(heap, l)
          BY <3>3, <4>1, InsertFrames
        <4>4. Frames(heap') = [Frames(heap) EXCEPT ![k] = call.bpage]
          BY <4>3, <2>2 DEF Frames
        <4>5. QED
          BY <4>2, <4>4, FramesAre DEF TableOf!Insert, TableOf!Key, TableOf!OK
      <3>4. QED
        BY <1>5, <3>1, <3>2, <3>3 DEF PFhashInsert
    <2>4. QED
      BY <2>1, <2>3 DEF TableOf!Serve, TableOf!NoRequest, NoCall
  <1>6. CASE PFhashDelete
    <2>1. ~Idle /\ call.routine = "PFhashDelete" /\ call' = NoCall
      BY <1>6 DEF PFhashDelete, DeleteEntry, Found, NotFound, Return, Idle, NoCall
    <2>2. k \in FD \X PageNum /\ Frames(heap)[k] = FrameIn(heap, k)
      BY <2>1, WalkKnows DEF Frames
    <2>3. TableOf!Delete
      <3>1. CASE NotFound("PFhashDelete") /\ Return(PFE_HASHNOTFOUND) /\ UNCHANGED table
        <4>1. Frames(heap)[k] = NULL /\ heap' = heap /\ ret' = -18
          BY <3>1, <2>1, <2>2, WalkKnows DEF NotFound, Return, table, PFE_HASHNOTFOUND
        <4>2. QED
          BY <4>1, FramesAre DEF TableOf!Delete, TableOf!Key, TableOf!Absent
      <3>2. CASE Found("PFhashDelete") /\ DeleteEntry
        <4>1. Frames(heap)[k] # NULL /\ ret' = 0
          BY <3>2, <2>1, <2>2, WalkKnows DEF Found, DeleteEntry, Return, PFE_OK
        <4>2. \A l \in FD \X PageNum :
                 FrameIn(heap', l) = IF l = k THEN NULL ELSE FrameIn(heap, l)
          BY <3>2, DeleteFrames
        <4>3. Frames(heap') = [Frames(heap) EXCEPT ![k] = NULL]
          BY <4>2, <2>2 DEF Frames
        <4>4. QED
          BY <4>1, <4>3, FramesAre DEF TableOf!Delete, TableOf!Key, TableOf!OK
      <3>3. QED
        BY <1>6, <3>1, <3>2 DEF PFhashDelete
    <2>4. QED
      BY <2>1, <2>3 DEF TableOf!Serve, TableOf!NoRequest, NoCall
  <1>7. QED
    BY <1>1, <1>2, <1>3, <1>4, <1>5, <1>6 DEF PFHashNext, Turn

LEMMA FramesInit ==
    ASSUME PFhashInit
    PROVE  TableOf!TableInit
  <1>1. \A k \in FD \X PageNum : FrameIn(heap, k) = NULL
    BY FrameOfNone DEF PFhashInit
  <1>2. QED
    BY <1>1, FramesAre DEF PFhashInit, Frames, TableOf!TableInit, TableOf!NoRequest, TableOf!OK,
                           NoCall, PFE_OK

(* The chains of hash.c are the map that buf.c takes them for: every call  *)
(* answers for its page and changes no other.                              *)
THEOREM HashImplementsTable == PFHashSpec => ImplementsHashTable
  <1>1. PFhashInit => TableOf!TableInit
    BY FramesInit
  <1>2. HashInv /\ HashInv' /\ [PFHashNext]_hashvars
           => [TableOf!Request \/ TableOf!Serve]_TableOf!tablevars
    BY FramesStep
  <1>3. QED
    BY <1>1, <1>2, HashInvariant, PTL DEF PFHashSpec, ImplementsHashTable, TableOf!TableSpec
=============================================================================
