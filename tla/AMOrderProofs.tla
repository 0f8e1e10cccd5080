--------------------------- MODULE AMOrderProofs ---------------------------
(***************************************************************************)
(* The order of the keys: every page has a range of values, its own part   *)
(* of its parent's.  A leaf has all the entries for the values of its      *)
(* range, the chain goes through the leaves in the order of their ranges,  *)
(* and a search for a value passes only pages in whose range it is.  What  *)
(* the leaves hold together is then a sequence of record ids for each      *)
(* value, of which an insertion or a deletion changes one.                 *)
(***************************************************************************)
EXTENDS AMProofs

-----------------------------------------------------------------------------
(* L is the chain of leaves of pg. *)
Linking(pg, np, L) ==
    /\ L \in Seq(PageNum) /\ Len(L) \in 1 .. np
    /\ L[1] = IF pg[0].pageType = "l" THEN 0 ELSE 2
    /\ \A i \in 1 .. Len(L) :
         /\ L[i] \in 0 .. np - 1 /\ pg[L[i]].pageType = "l"
         /\ pg[L[i]].nextLeafPage = IF i = Len(L) THEN AM_NULL_PAGE ELSE L[i + 1]
    /\ \A p \in 0 .. np - 1 : pg[p].pageType = "l" => \E i \in 1 .. Len(L) : L[i] = p

(* The ranges of its leaves ascend and leave out no value. *)
Sorted(L, rng) ==
    /\ rng \in [PageNum -> SUBSET Value]
    /\ \A i, j \in 1 .. Len(L) : i < j =>
         L[i] # L[j] /\ \A v \in rng[L[i]], w \in rng[L[j]] : v < w
    /\ \A v \in Value : \E i \in 1 .. Len(L) : v \in rng[L[i]]

(* A says what the leaves hold together. *)
Holding(pg, L, rng, A) ==
    /\ A \in [Value -> Seq(RecId)]
    /\ \A v \in Value : Len(A[v]) <= MaxPerKey
    /\ \A i \in 1 .. Len(L) : \A v \in Value :
         RecordsIn(pg[L[i]], v) = IF v \in rng[L[i]] THEN A[v] ELSE << >>

Order(pg, np, L, rng, A) == Linking(pg, np, L) /\ Sorted(L, rng) /\ Holding(pg, L, rng, A)

(* The chain from a page on, as long as k pages. *)
ChainUnrolls(h) ==
    /\ h \in [0 .. MaxPages -> [AM_NULL_PAGE .. MaxPages - 1 -> Seq(PageNum)]]
    /\ \A p \in AM_NULL_PAGE .. MaxPages - 1 : h[0][p] = << >>
    /\ \A k \in 1 .. MaxPages : \A p \in AM_NULL_PAGE .. MaxPages - 1 :
         h[k][p] = IF p = AM_NULL_PAGE THEN << >>
                   ELSE IF page[p].pageType = "i" THEN <<p>>
                   ELSE <<p>> \o h[k - 1][page[p].nextLeafPage]
    /\ \A p \in AM_NULL_PAGE .. MaxPages - 1 : ChainFrom(p) = h[MaxPages][p]

LEMMA ChainTurns ==
  ASSUME Nodes(page)
  PROVE  \E h : ChainUnrolls(h)
<1> DEFINE Ptr == AM_NULL_PAGE .. MaxPages - 1
           X == [Ptr -> Seq(PageNum)]
           K == MaxPages
           none == [p \in Ptr |-> << >>]
           next(x) == [p \in Ptr |-> IF p = AM_NULL_PAGE THEN << >>
                                     ELSE IF page[p].pageType = "i" THEN <<p>>
                                     ELSE <<p>> \o x[page[p].nextLeafPage]]
           G == [k \in 1 .. K |-> [x \in X |-> next(x)]]
<1>1. /\ K \in Nat /\ none \in X
      /\ \A p \in Ptr : p # AM_NULL_PAGE => p \in PageNum
      /\ \A p \in PageNum : p \in Ptr /\ p # AM_NULL_PAGE
  BY Constants DEF AM_NULL_PAGE, PageNum
<1>2. \A p \in PageNum : page[p].pageType # "i" => page[p].nextLeafPage \in Ptr
  <2>1. ASSUME NEW p \in PageNum, page[p].pageType # "i"
        PROVE  page[p].nextLeafPage \in Ptr
    <3>1. GoodLeaf(page[p])
      BY <2>1, NodeKinds
    <3> QED  BY <3>1, LeafParts DEF GoodLeaf
  <2> QED  BY <2>1
<1>3. ASSUME NEW x \in X PROVE next(x) \in X
  <2> SUFFICES ASSUME NEW p \in Ptr, p # AM_NULL_PAGE
               PROVE  /\ <<p>> \in Seq(PageNum)
                      /\ page[p].pageType # "i" => <<p>> \o x[page[p].nextLeafPage] \in Seq(PageNum)
    <3> HIDE DEF Ptr
    <3> QED  OBVIOUS
  <2>1. p \in PageNum /\ <<p>> \in Seq(PageNum)
    BY <1>1
  <2>2. page[p].pageType # "i" => x[page[p].nextLeafPage] \in Seq(PageNum)
    BY <1>2, <2>1
  <2> HIDE DEF X
  <2> QED  BY <2>1, <2>2
<1>4. \A k \in 1 .. K : \A x \in X : G[k][x] = next(x) /\ G[k][x] \in X
  <2> HIDE DEF X, K, next
  <2> QED  BY <1>3
<1>5. PICK h : Iterates(h, X, none, G, K)
  <2> HIDE DEF X, K, none, G
  <2> QED  BY <1>1, <1>4, Iteration
<1>6. /\ h \in [0 .. K -> X]
      /\ h[0] = none
      /\ \A k \in 1 .. K : k - 1 \in 0 .. K /\ h[k - 1] \in X /\ h[k] = next(h[k - 1])
  <2>1. \A k \in 1 .. K : k - 1 \in 0 .. K
    <3> HIDE DEF K
    <3> QED  BY <1>1
  <2>2. h \in [0 .. K -> X] /\ h[0] = none /\ \A k \in 1 .. K : h[k] = G[k][h[k - 1]]
    BY <1>5 DEF Iterates
  <2> HIDE DEF X, K, none, G, next
  <2> QED  BY <1>4, <2>1, <2>2
<1>7. \A p \in Ptr : h[0][p] = << >>
  BY <1>6
<1>8. \A k \in 1 .. K : \A p \in Ptr :
        h[k][p] = IF p = AM_NULL_PAGE THEN << >>
                  ELSE IF page[p].pageType = "i" THEN <<p>>
                  ELSE <<p>> \o h[k - 1][page[p].nextLeafPage]
  <2> HIDE DEF X, K, none, G
  <2> QED  BY <1>6, ZenonT(60)
<1> DEFINE P == Ptr \X (0 .. MaxPages)
           Body(f) == [x \in P |-> IF x[1] = AM_NULL_PAGE \/ x[2] = 0 THEN << >>
                                   ELSE IF page[x[1]].pageType = "i" THEN <<x[1]>>
                                   ELSE <<x[1]>> \o f[<<page[x[1]].nextLeafPage, x[2] - 1>>]]
           g == CHOOSE f : f = Body(f)
           f1 == [x \in P |-> h[x[2]][x[1]]]
<1>9. f1 = Body(f1)
  <2> SUFFICES ASSUME NEW x \in P
               PROVE  h[x[2]][x[1]] = IF x[1] = AM_NULL_PAGE \/ x[2] = 0 THEN << >>
                                      ELSE IF page[x[1]].pageType = "i" THEN <<x[1]>>
                                      ELSE <<x[1]>> \o f1[<<page[x[1]].nextLeafPage, x[2] - 1>>]
    OBVIOUS
  <2>1. PICK p \in Ptr, k \in 0 .. MaxPages : x = <<p, k>>
    OBVIOUS
  <2>2. x[1] = p /\ x[2] = k /\ (k # 0 => k \in 1 .. K /\ k - 1 \in 0 .. MaxPages)
    BY <1>1, <2>1
  <2>3. CASE k = 0
    BY <1>7, <2>2, <2>3
  <2>4. CASE k # 0 /\ (p = AM_NULL_PAGE \/ page[p].pageType = "i")
    BY <1>8, <2>2, <2>4
  <2>5. CASE k # 0 /\ p # AM_NULL_PAGE /\ page[p].pageType # "i"
    <3>1. page[p].nextLeafPage \in Ptr /\ k - 1 \in 0 .. MaxPages
      BY <1>1, <1>2, <2>2, <2>5
    <3>2. f1[<<page[p].nextLeafPage, k - 1>>] = h[k - 1][page[p].nextLeafPage]
      BY <3>1
    <3> HIDE DEF f1
    <3> QED  BY <1>8, <2>2, <2>5, <3>2
  <2> QED  BY <2>3, <2>4, <2>5
<1>10. g = Body(g)
  <2> HIDE DEF Body
  <2> QED  BY <1>9
<1>11. \A p \in Ptr : \A k \in 0 .. MaxPages :
         g[<<p, k>>] = IF p = AM_NULL_PAGE \/ k = 0 THEN << >>
                       ELSE IF page[p].pageType = "i" THEN <<p>>
                       ELSE <<p>> \o g[<<page[p].nextLeafPage, k - 1>>]
  <2> SUFFICES ASSUME NEW p \in Ptr, NEW k \in 0 .. MaxPages
               PROVE  g[<<p, k>>] = IF p = AM_NULL_PAGE \/ k = 0 THEN << >>
                       ELSE IF page[p].pageType = "i" THEN <<p>>
                       ELSE <<p>> \o g[<<page[p].nextLeafPage, k - 1>>]
    OBVIOUS
  <2>1. <<p, k>> \in P /\ <<p, k>>[1] = p /\ <<p, k>>[2] = k
    OBVIOUS
  <2> HIDE DEF g, P
  <2> QED  BY <1>10, <2>1
<1> HIDE DEF g, f1
<1> DEFINE T == {k \in Nat : k \in 0 .. MaxPages => \A p \in Ptr : g[<<p, k>>] = h[k][p]}
<1>12. \A k \in Nat : k \in T
  <2>1. 0 \in T
    BY <1>7, <1>11
  <2>2. ASSUME NEW k \in Nat, k \in T
        PROVE  k + 1 \in T
    <3> SUFFICES ASSUME k + 1 \in 0 .. MaxPages, NEW p \in Ptr
                 PROVE  g[<<p, k + 1>>] = h[k + 1][p]
      OBVIOUS
    <3>1. k \in 0 .. MaxPages /\ k + 1 \in 1 .. K /\ (k + 1) - 1 = k /\ k + 1 # 0
      BY <1>1
    <3>2. \A q \in Ptr : g[<<q, k>>] = h[k][q]
      BY <2>2, <3>1
    <3>3. h[k + 1][p] = IF p = AM_NULL_PAGE THEN << >>
                        ELSE IF page[p].pageType = "i" THEN <<p>>
                        ELSE <<p>> \o h[k][page[p].nextLeafPage]
      BY <1>8, <3>1
    <3>4. g[<<p, k + 1>>] = IF p = AM_NULL_PAGE THEN << >>
                            ELSE IF page[p].pageType = "i" THEN <<p>>
                            ELSE <<p>> \o g[<<page[p].nextLeafPage, k>>]
      BY <1>11, <3>1
    <3>5. p # AM_NULL_PAGE /\ page[p].pageType # "i" => page[p].nextLeafPage \in Ptr
      BY <1>1, <1>2
    <3> QED  BY <3>2, <3>3, <3>4, <3>5
  <2> HIDE DEF T
  <2> QED  BY <2>1, <2>2, Induction
<1>13. \A p \in Ptr : ChainFrom(p) = h[MaxPages][p]
  <2>1. MaxPages \in 0 .. MaxPages /\ MaxPages \in Nat
    BY Constants
  <2>2. \A p \in Ptr : g[<<p, MaxPages>>] = h[MaxPages][p]
    BY <1>12, <2>1
  <2>3. \A p \in Ptr : ChainFrom(p) = g[<<p, MaxPages>>]
    BY DEF ChainFrom, g
  <2> QED  BY <2>2, <2>3
<1> QED  BY <1>6, <1>7, <1>8, <1>13 DEF ChainUnrolls

LEMMA ChainsAre ==
  ASSUME Nodes(page), NEW np \in 1 .. MaxPages, NEW L, Linking(page, np, L)
  PROVE  \A i \in 1 .. Len(L) : ChainFrom(L[i]) = SubSeq(L, i, Len(L))
<1>1. PICK h : ChainUnrolls(h)
  BY ChainTurns
<1>2. PICK N \in Nat : N = Len(L) /\ N \in 1 .. np /\ N <= MaxPages
  BY Constants DEF Linking
<1>3. L \in Seq(PageNum) /\ \A i \in 1 .. N : L[i] \in PageNum
  BY <1>2 DEF Linking
<1> DEFINE rest(m) == SubSeq(L, N - m + 1, N)        \* the last m leaves
           T == {m \in Nat : m \in 1 .. N => \A k \in m .. MaxPages : h[k][L[N - m + 1]] = rest(m)}
<1>4. AM_NULL_PAGE \in AM_NULL_PAGE .. MaxPages - 1 /\ PageNum \subseteq AM_NULL_PAGE .. MaxPages - 1
      /\ \A p \in PageNum : p # AM_NULL_PAGE
  BY Constants DEF AM_NULL_PAGE, PageNum
<1>5. \A k \in 0 .. MaxPages : h[k][AM_NULL_PAGE] = << >>
  <2>1. \A k \in 0 .. MaxPages : k = 0 \/ k \in 1 .. MaxPages
    BY Constants
  <2> QED  BY <1>1, <1>4, <2>1 DEF ChainUnrolls
<1>6. ASSUME NEW m \in Nat, m \in T
      PROVE  m + 1 \in T
  <2> SUFFICES ASSUME m + 1 \in 1 .. N, NEW k \in m + 1 .. MaxPages
               PROVE  h[k][L[N - (m + 1) + 1]] = rest(m + 1)
    OBVIOUS
  <2>1. PICK i \in 1 .. N : i = N - (m + 1) + 1 /\ i = N - m
    BY <1>2
  <2>2. k \in 1 .. MaxPages /\ k - 1 \in m .. MaxPages /\ k - 1 \in 0 .. MaxPages
    BY Constants
  <2>3. PICK p \in PageNum : p = L[i]
    BY <1>3
  <2>4. /\ page[p].pageType = "l"
        /\ page[p].nextLeafPage = IF i = N THEN AM_NULL_PAGE ELSE L[i + 1]
    BY <1>2, <2>3 DEF Linking
  <2>5. h[k][p] = <<p>> \o h[k - 1][page[p].nextLeafPage]
    BY <1>1, <1>4, <2>2, <2>4 DEF ChainUnrolls
  <2>6. h[k - 1][page[p].nextLeafPage] = rest(m)
    <3>1. CASE m = 0
      <4>1. i = N
        BY <1>2, <2>1, <3>1
      <4>2. h[k - 1][AM_NULL_PAGE] = << >>
        BY <1>5, <2>2
      <4>3. SubSeq(L, N + 1, N) = << >>
        BY <1>2, <1>3
      <4>4. rest(m) = << >>
        BY <1>2, <3>1, <4>3
      <4> QED  BY <2>4, <4>1, <4>2, <4>4
    <3>2. CASE m # 0
      <4>1. i # N /\ m \in 1 .. N /\ i + 1 = N - m + 1
        BY <1>2, <2>1, <3>2
      <4>2. h[k - 1][L[N - m + 1]] = rest(m)
        BY <1>6, <2>2, <4>1
      <4>3. page[p].nextLeafPage = L[N - m + 1]
        BY <2>4, <4>1
      <4> QED  BY <4>2, <4>3
    <3> QED  BY <3>1, <3>2
  <2>7. <<p>> \o rest(m) = rest(m + 1)
    <3> DEFINE a == rest(m)
               b == rest(m + 1)
               c == <<p>> \o a
    <3>1. a \in Seq(PageNum) /\ Len(a) = m /\ \A j \in 1 .. m : a[j] = L[N - m + j]
      <4>1. N - m + 1 \in 1 .. N + 1 /\ N \in 0 .. Len(L) /\ N - (N - m + 1) + 1 = m
        BY <1>2
      <4>2. \A j \in 1 .. m : N - m + 1 + j - 1 = N - m + j
        BY <1>2
      <4> QED  BY <1>2, <1>3, <4>1, <4>2, SMTT(40)
    <3>2. b \in Seq(PageNum) /\ Len(b) = m + 1 /\ \A j \in 1 .. m + 1 : b[j] = L[N - m - 1 + j]
      <4>1. N - (m + 1) + 1 \in 1 .. N + 1 /\ N - (N - (m + 1) + 1) + 1 = m + 1
        BY <1>2
      <4>2. \A j \in 1 .. m + 1 : N - (m + 1) + 1 + j - 1 = N - m - 1 + j
        BY <1>2
      <4> QED  BY <1>2, <1>3, <4>1, <4>2
    <3> HIDE DEF a, b
    <3>3. /\ c \in Seq(PageNum) /\ Len(c) = 1 + Len(a)
          /\ \A q \in 1 .. 1 : c[q] = <<p>>[q] /\ \A q2 \in 1 .. Len(a) : c[1 + q2] = a[q2]
      <4>1. <<p>> \in Seq(PageNum) /\ Len(<<p>>) = 1
        OBVIOUS
      <4> QED  BY <3>1, <4>1, ConcatIs
    <3>4. 1 \in 1 .. 1 /\ <<p>>[1] = p
      OBVIOUS
    <3> HIDE DEF c
    <3>5. ASSUME NEW j \in 1 .. m + 1
          PROVE  c[j] = b[j]
      <4>1. CASE j = 1
        <5>1. N - m - 1 + 1 = i
          BY <1>2, <2>1
        <5> QED  BY <2>3, <3>2, <3>3, <3>4, <4>1, <5>1
      <4>2. CASE j # 1
        <5>1. PICK e \in 1 .. m : j = 1 + e /\ N - m - 1 + j = N - m + e
          <6>1. j - 1 \in 1 .. m /\ j = 1 + (j - 1) /\ N - m - 1 + j = N - m + (j - 1)
            BY <1>2, <4>2
          <6> QED  BY <6>1
        <5>2. c[1 + e] = a[e]
          BY <3>1, <3>3, <3>4
        <5>3. a[e] = L[N - m + e] /\ b[j] = L[N - m + e]
          BY <3>1, <3>2, <5>1
        <5> QED  BY <5>1, <5>2, <5>3
      <4> QED  BY <4>1, <4>2
    <3>6. Len(c) = m + 1
      BY <3>1, <3>3
    <3>7. c = b
      BY <3>2, <3>3, <3>5, <3>6
    <3> QED  BY <3>7 DEF a, b, c
  <2> HIDE DEF rest
  <2> QED  BY <2>1, <2>3, <2>5, <2>6, <2>7
<1>7. \A m \in Nat : m \in T
  <2>1. 0 \in T
    OBVIOUS
  <2> HIDE DEF T
  <2> QED  BY <1>6, <2>1, Induction
<1>8. ASSUME NEW i \in 1 .. N
      PROVE  ChainFrom(L[i]) = SubSeq(L, i, N)
  <2>1. PICK m \in Nat : m = N - i + 1
    BY <1>2, SMTT(40)
  <2>2. m \in 1 .. N /\ MaxPages \in m .. MaxPages /\ N - m + 1 = i
    BY <1>2, <2>1, Constants
  <2>3. h[MaxPages][L[N - m + 1]] = rest(m)
    BY <1>7, <2>2
  <2>4. rest(m) = SubSeq(L, i, N)
    BY <2>2
  <2> HIDE DEF rest
  <2>5. ChainFrom(L[i]) = h[MaxPages][L[i]]
    BY <1>1, <1>3, <1>4 DEF ChainUnrolls
  <2> QED  BY <2>2, <2>3, <2>4, <2>5
<1> QED  BY <1>2, <1>8

LEMMA ChainIs ==
  ASSUME Nodes(page), NEW np \in 1 .. MaxPages, NEW L, Linking(page, np, L)
  PROVE  Chain = L
<1>1. L \in Seq(PageNum) /\ Len(L) \in Nat /\ 1 \in 1 .. Len(L) /\ L[1] = LeftPageNum
  BY DEF Linking, LeftPageNum, AM_RootPageNum
<1>2. ChainFrom(L[1]) = SubSeq(L, 1, Len(L))
  BY <1>1, ChainsAre
<1>3. SubSeq(L, 1, Len(L)) = L
  BY <1>1
<1> QED  BY <1>1, <1>2, <1>3 DEF Chain

-----------------------------------------------------------------------------
(* What the chain of the leaves shows. *)

LEMMA LeavesCounted ==
  ASSUME NEW L \in Seq(PageNum), \A i, j \in 1 .. Len(L) : i < j => L[i] # L[j],
         NEW S, \A p : p \in S <=> \E i \in 1 .. Len(L) : L[i] = p
  PROVE  IsFiniteSet(S) /\ Cardinality(S) = Len(L)
<1>1. PICK n \in Nat : n = Len(L)
  OBVIOUS
<1>2. L \in [1 .. n -> S]
  BY <1>1
<1>3. \A i, j \in 1 .. n : L[i] = L[j] => i = j
  <2>1. \A i, j \in 1 .. n : i < j \/ i = j \/ j < i
    OBVIOUS
  <2> QED  BY <1>1, <2>1
<1>4. L \in Bijection(1 .. n, S)
  <2>1. L \in Injection(1 .. n, S)
    BY <1>2, <1>3 DEF Injection, IsInjective
  <2>2. L \in Surjection(1 .. n, S)
    BY <1>1, <1>2 DEF Surjection
  <2> QED  BY <2>1, <2>2 DEF Bijection
<1>5. IsFiniteSet(1 .. n) /\ Cardinality(1 .. n) = n
  BY FS_Interval
<1>6. ExistsBijection(1 .. n, S)
  BY <1>4 DEF ExistsBijection
<1> QED  BY <1>1, <1>5, <1>6, FS_Bijection

(* The keys of a leaf are in its range. *)
LEMMA KeysInRange ==
  ASSUME Nodes(page), NEW np \in 1 .. MaxPages, NEW L, NEW rng, NEW A, Order(page, np, L, rng, A),
         NEW i \in 1 .. Len(L)
  PROVE  /\ L[i] \in PageNum /\ GoodLeaf(page[L[i]])
         /\ \A v \in Range(Values(page[L[i]])) : v \in Value /\ v \in rng[L[i]]
<1>1. L[i] \in PageNum /\ page[L[i]].pageType = "l"
  <2>1. L \in Seq(PageNum)
    BY DEF Order, Linking
  <2> QED  BY <2>1 DEF Order, Linking
<1>2. GoodLeaf(page[L[i]])
  BY <1>1, NodeKinds
<1>3. Values(page[L[i]]) \in Seq(Value)
  BY <1>2, ValuesAre DEF GoodLeaf
<1>4. \A v \in Range(Values(page[L[i]])) : v \in Value
  BY <1>3 DEF Range
<1>5. \A v \in Value : v \in Range(Values(page[L[i]])) => RecordsIn(page[L[i]], v) # << >>
  BY <1>2, ContentsHold
<1>6. \A v \in Value : v \notin rng[L[i]] => RecordsIn(page[L[i]], v) = << >>
  BY DEF Order, Holding
<1> QED  BY <1>1, <1>2, <1>4, <1>5, <1>6

(* The keys of all leaves, one leaf after the other, ascend. *)
LEMMA KeysAscend ==
  ASSUME Nodes(page), NEW np \in 1 .. MaxPages, NEW L, NEW rng, NEW A, Order(page, np, L, rng, A),
         NEW keys, keys = FlattenSeq([k \in DOMAIN L |-> Values(page[L[k]])])
  PROVE  \A j \in 1 .. Len(keys) - 1 : keys[j] < keys[j + 1]
<1>1. PICK N \in Nat : N = Len(L)
  BY DEF Order, Linking
<1>2. DOMAIN L = 1 .. N
  BY <1>1 DEF Order, Linking
<1>3. PICK S : S = [k \in 1 .. N |-> Values(page[L[k]])]
  OBVIOUS
<1>4. \A i \in 1 .. N : /\ S[i] = Values(page[L[i]]) /\ S[i] \in Seq(Int) /\ Ascending(S[i])
                        /\ \A k \in 1 .. Len(S[i]) : S[i][k] \in rng[L[i]]
  <2> SUFFICES ASSUME NEW i \in 1 .. N
               PROVE  /\ S[i] = Values(page[L[i]]) /\ S[i] \in Seq(Int) /\ Ascending(S[i])
                      /\ \A k \in 1 .. Len(S[i]) : S[i][k] \in rng[L[i]]
    OBVIOUS
  <2>1. GoodLeaf(page[L[i]]) /\ \A v \in Range(Values(page[L[i]])) : v \in rng[L[i]]
    BY <1>1, KeysInRange
  <2>2. S[i] = Values(page[L[i]])
    BY <1>3
  <2>3. S[i] \in Seq(Int) /\ Ascending(S[i])
    BY <2>1, <2>2, ValuesAre DEF GoodLeaf
  <2>4. \A k \in 1 .. Len(S[i]) : S[i][k] \in Range(S[i])
    BY <2>3 DEF Range
  <2> QED  BY <2>1, <2>2, <2>3, <2>4
<1>5. S \in Seq(Seq(Int)) /\ Len(S) = N
  <2>1. S = [i \in 1 .. N |-> S[i]]
    BY <1>3
  <2>2. S \in [1 .. N -> Seq(Int)]
    BY <1>4, <2>1
  <2> QED  BY <2>2
<1>6. keys = FlattenSeq(S)
  BY <1>2, <1>3
<1>7. PICK off : Offsets(S, off)
  BY <1>5, OffsetsExist
<1>8. keys \in Seq(Int) /\ Flattens(keys, S, N, off)
  BY <1>5, <1>6, <1>7, FlattenIs
<1>9. /\ Len(keys) \in Nat
      /\ \A i \in 1 .. N : \A k \in 1 .. Len(S[i]) : keys[off[i - 1] + k] = S[i][k]
      /\ \A p \in 1 .. Len(keys) : \E i \in 1 .. N : \E k \in 1 .. Len(S[i]) : p = off[i - 1] + k
  <2>1. Len(keys) \in Nat
    BY <1>8
  <2>2. \A i \in 1 .. N : \A k \in 1 .. Len(S[i]) : keys[off[i - 1] + k] = S[i][k]
    BY <1>8 DEF Flattens
  <2>3. \A p \in 1 .. Len(keys) : \E i \in 1 .. N : \E k \in 1 .. Len(S[i]) : p = off[i - 1] + k
    BY <1>8 DEF Flattens
  <2> QED  BY <2>1, <2>2, <2>3
<1>10. /\ \A i \in 1 .. N : off[i - 1] \in Nat /\ off[i] \in Nat /\ off[i] = off[i - 1] + Len(S[i])
       /\ \A i, j \in 1 .. N : i < j => off[i] <= off[j - 1]
  <2>1. \A i \in 1 .. N : i - 1 \in 0 .. N /\ i \in 0 .. N
    BY <1>1
  <2>2. \A i, j \in 1 .. N : i < j => i <= j - 1
    OBVIOUS
  <2> QED  BY <1>5, <1>7, <2>1, <2>2 DEF Offsets
<1> SUFFICES ASSUME NEW j \in 1 .. Len(keys) - 1 PROVE keys[j] < keys[j + 1]
  OBVIOUS
<1>11. j \in 1 .. Len(keys) /\ j + 1 \in 1 .. Len(keys)
  BY <1>9
<1>12. PICK i \in 1 .. N : \E k \in 1 .. Len(S[i]) : j = off[i - 1] + k
  BY <1>9, <1>11
<1>13. PICK k \in 1 .. Len(S[i]) : j = off[i - 1] + k
  BY <1>12
<1>14. PICK i2 \in 1 .. N : \E k2 \in 1 .. Len(S[i2]) : j + 1 = off[i2 - 1] + k2
  BY <1>9, <1>11
<1>15. PICK k2 \in 1 .. Len(S[i2]) : j + 1 = off[i2 - 1] + k2
  BY <1>14
<1>16. keys[j] = S[i][k] /\ keys[j + 1] = S[i2][k2]
  BY <1>9, <1>13, <1>15, ZenonT(60)
<1>17. /\ off[i - 1] \in Nat /\ off[i2 - 1] \in Nat /\ off[i] \in Nat /\ off[i2] \in Nat
       /\ off[i] = off[i - 1] + Len(S[i]) /\ off[i2] = off[i2 - 1] + Len(S[i2])
       /\ Len(S[i]) \in Nat /\ Len(S[i2]) \in Nat
  <2>1. \A e \in 1 .. N : Len(S[e]) \in Nat
    BY <1>4
  <2> QED  BY <1>10, <2>1
<1>18. ~(i2 < i)
  <2> SUFFICES ASSUME i2 < i PROVE FALSE
    OBVIOUS
  <2>1. off[i2] <= off[i - 1]
    BY <1>10
  <2>2. j + 1 <= off[i2]
    BY <1>15, <1>17, SMTT(40)
  <2>3. off[i - 1] < j
    <3>1. k \in Nat /\ 0 < k
      BY <1>17
    <3> QED  BY <1>13, <1>17, <3>1, SMTT(40)
  <2> QED  BY <1>17, <2>1, <2>2, <2>3
<1>19. CASE i = i2
  <2>1. k2 = k + 1 /\ k < k2
    BY <1>13, <1>15, <1>17, <1>19, SMTT(40)
  <2> QED  BY <1>4, <1>16, <1>19, <2>1 DEF Ascending
<1>20. CASE i < i2
  <2>1. S[i][k] \in rng[L[i]] /\ S[i2][k2] \in rng[L[i2]]
    BY <1>4
  <2> QED  BY <1>1, <1>16, <1>20, <2>1 DEF Order, Sorted
<1> QED  BY <1>18, <1>19, <1>20

LEMMA ChainShows ==
  ASSUME Nodes(page), numpages \in 1 .. MaxPages, NEW L, NEW rng, NEW A,
         Order(page, numpages, L, rng, A)
  PROVE  ChainIsWhole
<1>1. Chain = L
  BY ChainIs DEF Order
<1>2. L \in Seq(PageNum) /\ \A i, j \in 1 .. Len(L) : i < j => L[i] # L[j]
  BY DEF Order, Linking, Sorted
<1>3. \A p : p \in LeafPages <=> \E i \in 1 .. Len(L) : L[i] = p
  BY DEF Order, Linking, LeafPages, Pages
<1>4. Cardinality(LeafPages) = Len(L)
  BY <1>2, <1>3, LeavesCounted
<1>5. Range(L) = LeafPages
  <2>1. DOMAIN L = 1 .. Len(L)
    BY <1>2
  <2> QED  BY <1>3, <2>1 DEF Range
<1>6. PICK keys : keys = FlattenSeq([k \in DOMAIN L |-> Values(page[L[k]])])
  OBVIOUS
<1>7. \A j \in 1 .. Len(keys) - 1 : keys[j] < keys[j + 1]
  BY <1>6, KeysAscend
<1> QED  BY <1>1, <1>4, <1>5, <1>6, <1>7 DEF ChainIsWhole

-----------------------------------------------------------------------------
(* Ranges of pages. *)

(* What of range R belongs to child i of node x. *)
Interval(x, R, i) ==
    {v \in R : (i > 1 => x.keys[i - 1] <= v) /\ (i <= Len(x.keys) => v < x.keys[i])}

(* x is an inner node with range R: its children share R out.  To the left *)
(* of its first key there is some value too.                               *)
Routed(x, R, rng, np) ==
    /\ x \in IntNode /\ Len(x.keys) >= 1 /\ Len(x.child) = Len(x.keys) + 1
    /\ Ascending(x.keys)
    /\ \A i \in 1 .. Len(x.keys) : x.keys[i] \in R
    /\ \E w \in R : w < x.keys[1]
    /\ \A i \in 1 .. Len(x.child) : x.child[i] \in 1 .. np - 1 /\ rng[x.child[i]] = Interval(x, R, i)

LEMMA RoutedParts ==
  ASSUME NEW x, NEW R \in SUBSET Value, NEW rng, NEW np, Routed(x, R, rng, np)
  PROVE  /\ x.keys \in Seq(Value) /\ x.keys \in Seq(Int) /\ Len(x.keys) \in Nat /\ x.keys # << >>
         /\ x.child \in Seq(PageNum) /\ Len(x.child) = Len(x.keys) + 1 /\ Len(x.child) \in Nat
         /\ x.pageType = "i" /\ x = [pageType |-> "i", keys |-> x.keys, child |-> x.child]
         /\ \A i \in 1 .. Len(x.keys) : x.keys[i] \in Int /\ x.keys[i] \in Value
         /\ \A v \in R : v \in Value /\ v \in Int
<1>1. x \in IntNode /\ Len(x.keys) >= 1 /\ Len(x.child) = Len(x.keys) + 1
  BY DEF Routed
<1>2. Value \subseteq Int
  BY AMLeafAssumption
<1>3. x.keys \in Seq(Value) /\ x.child \in Seq(PageNum) /\ x.pageType = "i"
      /\ x = [pageType |-> "i", keys |-> x.keys, child |-> x.child]
  BY <1>1 DEF IntNode
<1>4. x.keys \in Seq(Int) /\ Len(x.keys) \in Nat /\ \A i \in 1 .. Len(x.keys) : x.keys[i] \in Value
  BY <1>2, <1>3
<1>5. x.keys # << >>
  BY <1>1, <1>4
<1>6. Len(x.child) \in Nat
  BY <1>3
<1> QED  BY <1>1, <1>2, <1>3, <1>4, <1>5, <1>6

(* No page is twice a child of a node, as each child's range has a value. *)
LEMMA ChildrenDiffer ==
  ASSUME NEW x, NEW R \in SUBSET Value, NEW rng, NEW np, Routed(x, R, rng, np),
         NEW i \in 1 .. Len(x.child), NEW j \in 1 .. Len(x.child), x.child[i] = x.child[j]
  PROVE  i = j
<1>1. /\ Len(x.keys) \in Nat /\ Len(x.child) = Len(x.keys) + 1
      /\ \A k \in 1 .. Len(x.keys) : x.keys[k] \in Int /\ x.keys[k] \in R
      /\ \A k, m \in 1 .. Len(x.keys) : k < m => x.keys[k] < x.keys[m]
      /\ \A v \in R : v \in Int
  <2>1. Len(x.keys) \in Nat /\ Len(x.child) = Len(x.keys) + 1 /\ \A v \in R : v \in Int
    BY RoutedParts
  <2>2. Ascending(x.keys) /\ \A k \in 1 .. Len(x.keys) : x.keys[k] \in R
    BY DEF Routed
  <2> QED  BY <2>1, <2>2 DEF Ascending
<1>2. ASSUME NEW a \in 1 .. Len(x.child), NEW b \in 1 .. Len(x.child), a < b
      PROVE  Interval(x, R, a) # Interval(x, R, b)
  <2>1. a \in 1 .. Len(x.keys) /\ b - 1 \in 1 .. Len(x.keys) /\ b > 1 /\ (a < b - 1 \/ a = b - 1)
    BY <1>1, <1>2
  <2>2. x.keys[a] <= x.keys[b - 1]
    <3>1. x.keys[a] \in Int /\ x.keys[b - 1] \in Int /\ (a < b - 1 => x.keys[a] < x.keys[b - 1])
      BY <1>1, <2>1
    <3> QED  BY <2>1, <3>1
  <2>3. PICK w \in R : w < x.keys[a] /\ (a > 1 => x.keys[a - 1] <= w)
    <3>1. CASE a = 1
      BY <3>1 DEF Routed
    <3>2. CASE a # 1
      <4>1. a - 1 \in 1 .. Len(x.keys) /\ a - 1 < a
        BY <2>1, <3>2
      <4>2. x.keys[a - 1] \in R /\ x.keys[a - 1] \in Int /\ x.keys[a - 1] < x.keys[a]
        BY <1>1, <2>1, <4>1
      <4>3. x.keys[a - 1] <= x.keys[a - 1]
        BY <4>2
      <4> QED  BY <4>2, <4>3
    <3> QED  BY <3>1, <3>2
  <2>4. w \in Interval(x, R, a)
    BY <2>1, <2>3 DEF Interval
  <2>5. w \notin Interval(x, R, b)
    <3>2. x.keys[a] \in Int /\ x.keys[b - 1] \in Int
      BY <1>1, <2>1
    <3>3. w \in Int
      BY <1>1
    <3>1. ~(x.keys[b - 1] <= w)
      BY ONLY <2>2, <2>3, <3>2, <3>3
    <3> QED  BY <2>1, <3>1 DEF Interval
  <2> QED  BY <2>4, <2>5
<1>3. Interval(x, R, i) = Interval(x, R, j)
  BY DEF Routed
<1>4. i < j \/ i = j \/ j < i
  BY <1>1
<1> QED  BY <1>2, <1>3, <1>4

LEMMA RoutedKept ==
  ASSUME NEW x, NEW R, NEW rng, NEW np, Routed(x, R, rng, np), NEW rng2, NEW np2,
         \A i \in 1 .. Len(x.child) : rng2[x.child[i]] = rng[x.child[i]],
         np \in Nat, np2 \in Nat, np <= np2
  PROVE  Routed(x, R, rng2, np2)
<1>1. \A c \in 1 .. np - 1 : c \in 1 .. np2 - 1
  OBVIOUS
<1> QED  BY <1>1 DEF Routed

(* The range of page p shared out to the pages one and two. *)
Divided(rng, p, one, two, key) ==
    [rng EXCEPT ![one] = {w \in rng[p] : w < key}, ![two] = {w \in rng[p] : key <= w}]

(* key parts range R, and in both parts there is some value. *)
Parts(R, key) == key \in R /\ \E w \in R : w < key

(* Child p of x gives a part of its range to page np, of which y has been told. *)
Adding(x, rng, np, o, p, key, rng2, y) ==
    /\ o \in 0 .. Len(x.keys) /\ p = x.child[o + 1] /\ Parts(rng[p], key)
    /\ rng2[p] = {w \in rng[p] : w < key} /\ rng2[np] = {w \in rng[p] : key <= w}
    /\ \A q \in 1 .. np - 1 : q # p => rng2[q] = rng[q]
    /\ y = AM_AddtoIntPage(x, key, np, o)

LEMMA RoutedAdd ==
  ASSUME NEW x, NEW R \in SUBSET Value, NEW rng, NEW np \in PageNum, Routed(x, R, rng, np),
         NEW o, NEW p, NEW key, NEW rng2, NEW y, Adding(x, rng, np, o, p, key, rng2, y)
  PROVE  Routed(y, R, rng2, np + 1) /\ Children(y, x, np)
<1> USE DEF Adding
<1>1. /\ x.keys \in Seq(Value) /\ x.keys \in Seq(Int) /\ Len(x.keys) \in Nat
      /\ x.child \in Seq(PageNum) /\ Len(x.child) = Len(x.keys) + 1
      /\ x = [pageType |-> "i", keys |-> x.keys, child |-> x.child]
      /\ \A i \in 1 .. Len(x.keys) : x.keys[i] \in Int /\ x.keys[i] \in Value
      /\ \A v \in R : v \in Value /\ v \in Int
  BY RoutedParts
<1>2. PICK n \in Nat : n = Len(x.keys) /\ n >= 1
  BY <1>1 DEF Routed
<1>3. /\ \A i, j \in 1 .. n : i < j => x.keys[i] < x.keys[j]
      /\ \A i \in 1 .. n : x.keys[i] \in R
      /\ \E w \in R : w < x.keys[1]
      /\ \A i \in 1 .. n + 1 : x.child[i] \in 1 .. np - 1 /\ rng[x.child[i]] = Interval(x, R, i)
  BY <1>1, <1>2 DEF Routed, Ascending
<1>4. o \in Nat /\ o <= n /\ o + 1 \in 1 .. n + 1 /\ o + 1 \in 1 .. Len(x.keys) + 1
      /\ o + 2 \in 1 .. Len(x.child) + 1
  BY <1>1, <1>2
<1>5. rng[p] = Interval(x, R, o + 1) /\ p \in 1 .. np - 1
  BY <1>3, <1>4
<1>6. key \in R /\ key \in Value /\ key \in Int
  BY <1>1, <1>5 DEF Parts, Interval
<1>7. PICK ks : ks = InsertAt(x.keys, o + 1, key)
  OBVIOUS
<1>8. PICK ch : ch = InsertAt(x.child, o + 2, np)
  OBVIOUS
<1>9. /\ ks \in Seq(Value) /\ Len(ks) = n + 1
      /\ \A q \in 1 .. n + 1 : ks[q] = IF q < o + 1 THEN x.keys[q] ELSE IF q = o + 1 THEN key ELSE x.keys[q - 1]
  <2>1. PICK u \in Seq(Value) : u = x.keys
    BY <1>1
  <2>2. Len(u) + 1 = n + 1 /\ o + 1 \in 1 .. Len(u) + 1 /\ ks = InsertAt(u, o + 1, key)
    BY <1>2, <1>4, <1>7, <2>1
  <2>3. /\ ks \in Seq(Value) /\ Len(ks) = Len(u) + 1
        /\ \A q \in 1 .. Len(u) + 1 : ks[q] = IF q < o + 1 THEN u[q] ELSE IF q = o + 1 THEN key ELSE u[q - 1]
    BY <1>6, <2>2, InsertAtIs
  <2> QED  BY <2>1, <2>2, <2>3
<1>10. /\ ch \in Seq(PageNum) /\ Len(ch) = n + 2
       /\ \A q \in 1 .. n + 2 : ch[q] = IF q < o + 2 THEN x.child[q] ELSE IF q = o + 2 THEN np ELSE x.child[q - 1]
  <2>1. PICK u \in Seq(PageNum) : u = x.child
    BY <1>1
  <2>2. Len(u) + 1 = n + 2 /\ o + 2 \in 1 .. Len(u) + 1 /\ ch = InsertAt(u, o + 2, np)
    BY <1>1, <1>2, <1>4, <1>8, <2>1
  <2>3. /\ ch \in Seq(PageNum) /\ Len(ch) = Len(u) + 1
        /\ \A q \in 1 .. Len(u) + 1 : ch[q] = IF q < o + 2 THEN u[q] ELSE IF q = o + 2 THEN np ELSE u[q - 1]
    BY <2>2, InsertAtIs, SMTT(40)
  <2> QED  BY <2>1, <2>2, <2>3
<1>11. y = [pageType |-> "i", keys |-> ks, child |-> ch]
  <2>1. PICK u, c : u = x.keys /\ c = x.child
    OBVIOUS
  <2>2. x = [pageType |-> "i", keys |-> u, child |-> c]
    BY <1>1, <2>1
  <2>3. y = [x EXCEPT !.keys = InsertAt(x.keys, o + 1, key), !.child = InsertAt(x.child, o + 2, np)]
    BY DEF AM_AddtoIntPage
  <2>4. y = [x EXCEPT !.keys = ks, !.child = ch]
    BY <1>7, <1>8, <2>3
  <2> QED  BY <2>2, <2>4
<1>12. y \in IntNode /\ y.keys = ks /\ y.child = ch
  BY <1>9, <1>10, <1>11 DEF IntNode
<1>13. /\ o >= 1 => o \in 1 .. n /\ x.keys[o] \in Int /\ x.keys[o] < key
       /\ o < n => o + 1 \in 1 .. n /\ x.keys[o + 1] \in Int /\ key < x.keys[o + 1]
  <2>1. PICK w \in rng[p] : w < key
    BY DEF Parts
  <2>2. /\ o + 1 > 1 => x.keys[(o + 1) - 1] <= w
        /\ o + 1 <= Len(x.keys) => key < x.keys[o + 1]
        /\ w \in Int
    BY <1>1, <1>5, <2>1 DEF Interval, Parts
  <2>3. ASSUME o >= 1
        PROVE  o \in 1 .. n /\ x.keys[o] \in Int /\ x.keys[o] < key
    <3>1. o \in 1 .. n /\ (o + 1) - 1 = o /\ o + 1 > 1
      BY <1>4, <2>3
    <3>2. x.keys[o] \in Int /\ x.keys[o] <= w
      BY <1>1, <1>2, <2>2, <3>1
    <3> QED  BY <1>6, <2>1, <2>2, <3>1, <3>2
  <2>4. o < n => o + 1 \in 1 .. n /\ o + 1 <= Len(x.keys)
    BY <1>2, <1>4
  <2> QED  BY <1>1, <1>2, <2>2, <2>3, <2>4
<1>14. \A q \in 1 .. n + 1 : ks[q] \in R /\ ks[q] \in Int
  <2>1. \A q \in 1 .. n + 1 : q < o + 1 => q \in 1 .. n
    BY <1>4
  <2>2. \A q \in 1 .. n + 1 : q > o + 1 => q - 1 \in 1 .. n
    BY <1>4
  <2>3. \A q \in 1 .. n + 1 : q < o + 1 \/ q = o + 1 \/ q > o + 1
    BY <1>4
  <2> QED  BY <1>1, <1>2, <1>3, <1>6, <1>9, <2>1, <2>2, <2>3, ZenonT(60)
<1>15. ASSUME NEW a \in 1 .. n + 1, NEW b \in 1 .. n + 1, a < b
       PROVE  ks[a] < ks[b]
  <2>1. CASE b < o + 1
    <3>1. a \in 1 .. n /\ b \in 1 .. n /\ a < o + 1
      BY <1>4, <1>15, <2>1, SMTT(40)
    <3> QED  BY <1>3, <1>9, <1>15, <2>1, <3>1
  <2>2. CASE b = o + 1
    <3>1. a \in 1 .. n /\ a < o + 1 /\ o \in 1 .. n /\ (a < o \/ a = o) /\ o >= 1
      BY <1>4, <1>15, <2>2
    <3>2. x.keys[a] <= x.keys[o] /\ x.keys[a] \in Int
      BY <1>1, <1>2, <1>3, <3>1, SMTT(40)
    <3>3. x.keys[a] < key
      BY <1>6, <1>13, <3>1, <3>2
    <3>4. ks[a] = x.keys[a] /\ ks[b] = key
      BY <1>4, <1>9, <2>2, <3>1
    <3> QED  BY <3>3, <3>4
  <2>3. CASE b > o + 1 /\ a = o + 1
    <3>1. b - 1 \in 1 .. n /\ o + 1 \in 1 .. n /\ o < n /\ (o + 1 < b - 1 \/ o + 1 = b - 1)
      BY <1>4, <2>3
    <3>2. x.keys[o + 1] <= x.keys[b - 1] /\ x.keys[b - 1] \in Int
      BY <1>1, <1>2, <1>3, <3>1, SMTT(40)
    <3>3. key < x.keys[b - 1]
      BY <1>6, <1>13, <3>1, <3>2
    <3>4. ks[a] = key /\ ks[b] = x.keys[b - 1]
      BY <1>4, <1>9, <2>3, SMTT(40)
    <3> QED  BY <3>3, <3>4
  <2>4. CASE b > o + 1 /\ a > o + 1
    <3>1. a - 1 \in 1 .. n /\ b - 1 \in 1 .. n /\ a - 1 < b - 1
      BY <1>4, <1>15, <2>4
    <3>2. ks[a] = x.keys[a - 1] /\ ks[b] = x.keys[b - 1]
      BY <1>4, <1>9, <2>4
    <3> QED  BY <1>3, <3>1, <3>2
  <2>5. CASE b > o + 1 /\ a < o + 1
    <3>1. a \in 1 .. n /\ b - 1 \in 1 .. n /\ a < b - 1
      BY <1>4, <1>15, <2>5
    <3>2. ks[a] = x.keys[a] /\ ks[b] = x.keys[b - 1]
      BY <1>4, <1>9, <2>5
    <3> QED  BY <1>3, <3>1, <3>2
  <2> QED  BY <1>4, <2>1, <2>2, <2>3, <2>4, <2>5
<1>16. \E w \in R : w < ks[1]
  <2>1. CASE o = 0
    <3>1. ks[1] = key
      BY <1>4, <1>9, <2>1
    <3>2. \A w \in rng[p] : w \in R
      BY <1>5 DEF Interval
    <3> QED  BY <3>1, <3>2 DEF Parts
  <2>2. CASE o # 0
    <3>1. ks[1] = x.keys[1]
      BY <1>4, <1>9, <2>2
    <3> QED  BY <1>3, <3>1
  <2> QED  BY <2>1, <2>2
<1>17. ASSUME NEW i \in 1 .. n + 2
       PROVE  ch[i] \in 1 .. np /\ rng2[ch[i]] = Interval(y, R, i)
  <2>1. \A v : v \in Interval(y, R, i) <=>
          v \in R /\ (i > 1 => ks[i - 1] <= v) /\ (i <= n + 1 => v < ks[i])
    BY <1>9, <1>12 DEF Interval
  <2>2. \A k : \A v : v \in Interval(x, R, k) <=>
          v \in R /\ (k > 1 => x.keys[k - 1] <= v) /\ (k <= n => v < x.keys[k])
    BY <1>2 DEF Interval
  <2>3. \A k \in 1 .. n + 1 : k # o + 1 => rng2[x.child[k]] = Interval(x, R, k)
    <3>1. ASSUME NEW k \in 1 .. n + 1, k # o + 1
          PROVE  x.child[k] # p
      <4>1. k \in 1 .. Len(x.child) /\ o + 1 \in 1 .. Len(x.child)
        BY <1>1, <1>2, <1>4
      <4> QED  BY <3>1, <4>1, ChildrenDiffer
    <3> QED  BY <1>3, <3>1
  <2>4. np \in Nat /\ \A c \in 1 .. np - 1 : c \in 1 .. np
    BY Constants
  <2>5. CASE i <= o
    <3>1. i \in 1 .. n + 1 /\ i # o + 1 /\ i < o + 2 /\ i < o + 1 /\ i <= n /\ i <= n + 1 /\ i \in 1 .. n
      BY <1>4, <2>5
    <3>2. ch[i] = x.child[i] /\ ks[i] = x.keys[i]
      BY <1>9, <1>10, <3>1
    <3>3. i > 1 => ks[i - 1] = x.keys[i - 1]
      <4>1. i > 1 => i - 1 \in 1 .. n + 1 /\ i - 1 < o + 1
        BY <3>1
      <4> QED  BY <1>9, <4>1
    <3>4. Interval(y, R, i) = Interval(x, R, i)
      BY <2>1, <2>2, <3>1, <3>2, <3>3, ZenonT(60)
    <3> QED  BY <1>3, <2>3, <2>4, <3>1, <3>2, <3>4
  <2>6. CASE i = o + 1
    <3>1. i \in 1 .. n + 1 /\ i < o + 2 /\ i <= n + 1
      BY <1>4, <2>6
    <3>2. ch[i] = p /\ ks[i] = key
      BY <1>4, <1>9, <1>10, <2>6, <3>1
    <3>3. i > 1 => ks[i - 1] = x.keys[i - 1]
      <4>1. i > 1 => i - 1 \in 1 .. n + 1 /\ i - 1 < o + 1
        BY <2>6, <3>1
      <4> QED  BY <1>9, <4>1
    <3>4. \A v \in R : v < key /\ i <= n => v < x.keys[i]
      <4>1. i <= n => key < x.keys[i] /\ x.keys[i] \in Int
        BY <1>4, <1>13, <2>6, SMTT(40)
      <4> QED  BY <1>1, <1>6, <4>1, SMTT(40)
    <3>5. Interval(y, R, i) = {w \in Interval(x, R, i) : w < key}
      <4>1. \A v : v \in Interval(y, R, i) <=> v \in Interval(x, R, i) /\ v < key
        BY <2>1, <2>2, <3>1, <3>2, <3>3, <3>4
      <4> QED  BY <4>1
    <3> QED  BY <1>5, <2>4, <2>6, <3>2, <3>5
  <2>7. CASE i = o + 2
    <3>1. i > 1 /\ i - 1 = o + 1 /\ i - 1 \in 1 .. n + 1 /\ ~(i < o + 2) /\ (i <= n + 1 <=> o + 1 <= n)
      BY <1>4, <2>7
    <3>2. ch[i] = np /\ ks[i - 1] = key
      BY <1>4, <1>9, <1>10, <2>7, <3>1
    <3>3. i <= n + 1 => ks[i] = x.keys[i - 1]
      <4>1. i <= n + 1 => i \in 1 .. n + 1 /\ ~(i < o + 1) /\ i # o + 1
        BY <1>4, <2>7
      <4> QED  BY <1>9, <4>1
    <3>4. \A v \in R : key <= v /\ i - 1 > 1 => x.keys[(i - 1) - 1] <= v
      <4>1. i - 1 > 1 => o >= 1 /\ (i - 1) - 1 = o
        BY <1>4, <2>7
      <4> QED  BY <1>1, <1>6, <1>13, <4>1, SMTT(40)
    <3>5. Interval(y, R, i) = {w \in Interval(x, R, o + 1) : key <= w}
      <4>1. \A v : v \in Interval(y, R, i) <=> v \in Interval(x, R, i - 1) /\ key <= v
        BY <2>1, <2>2, <3>1, <3>2, <3>3, <3>4
      <4> QED  BY <3>1, <4>1
    <3>6. np \in 1 .. np
      BY <1>5, <2>4
    <3> QED  BY <1>5, <2>7, <3>2, <3>5, <3>6
  <2>8. CASE i > o + 2
    <3>1. /\ i - 1 \in 1 .. n + 1 /\ i - 1 # o + 1 /\ ~(i < o + 2) /\ i # o + 2
          /\ i > 1 /\ i - 1 > 1 /\ (i <= n + 1 <=> i - 1 <= n)
      BY <1>4, <2>8
    <3>2. ch[i] = x.child[i - 1]
      BY <1>10, <3>1
    <3>3. i <= n + 1 => ks[i] = x.keys[i - 1]
      <4>1. i <= n + 1 => i \in 1 .. n + 1 /\ ~(i < o + 1) /\ i # o + 1
        BY <1>4, <2>8
      <4> QED  BY <1>9, <4>1
    <3>4. ks[i - 1] = x.keys[(i - 1) - 1]
      <4>1. ~(i - 1 < o + 1)
        BY <1>4, <2>8
      <4> QED  BY <1>9, <3>1, <4>1
    <3>5. Interval(y, R, i) = Interval(x, R, i - 1)
      <4>1. \A v : v \in Interval(y, R, i) <=> v \in Interval(x, R, i - 1)
        BY <2>1, <2>2, <3>1, <3>3, <3>4
      <4> QED  BY <4>1 DEF Interval
    <3> QED  BY <1>3, <2>3, <2>4, <3>1, <3>2, <3>5
  <2> QED  BY <1>4, <2>5, <2>6, <2>7, <2>8
<1>18. Routed(y, R, rng2, np + 1)
  <2>1. Len(y.keys) >= 1 /\ Len(y.child) = Len(y.keys) + 1 /\ Len(y.keys) = n + 1 /\ Len(y.child) = n + 2
    BY <1>9, <1>10, <1>12
  <2>2. PICK m \in Nat : m = np + 1 /\ m - 1 = np
    BY Constants
  <2>3. Ascending(y.keys)
    BY <1>12, <1>15, <2>1 DEF Ascending
  <2>4. /\ \A i \in 1 .. Len(y.keys) : y.keys[i] \in R
        /\ \E w \in R : w < y.keys[1]
    BY <1>12, <1>14, <1>16, <2>1
  <2>5. \A i \in 1 .. Len(y.child) : y.child[i] \in 1 .. np /\ rng2[y.child[i]] = Interval(y, R, i)
    BY <1>12, <1>17, <2>1
  <2>6. y \in IntNode /\ Len(y.keys) >= 1 /\ Len(y.child) = Len(y.keys) + 1
    BY <1>12, <2>1
  <2>7. \A i \in 1 .. Len(y.child) : y.child[i] \in 1 .. m - 1 /\ rng2[y.child[i]] = Interval(y, R, i)
    BY <2>2, <2>5
  <2>8. Routed(y, R, rng2, m)
    BY <2>3, <2>4, <2>6, <2>7 DEF Routed
  <2> QED  BY <2>2, <2>8
<1>19. ASSUME NEW j \in 1 .. Len(y.child)
       PROVE  y.child[j] = np \/ \E k \in 1 .. Len(x.child) : y.child[j] = x.child[k]
  <2>1. j \in 1 .. n + 2
    BY <1>10, <1>12
  <2>2. j < o + 2 => j \in 1 .. Len(x.child)
    BY <1>1, <1>2, <1>4, <2>1, SMTT(40)
  <2>3. j > o + 2 => j - 1 \in 1 .. Len(x.child)
    BY <1>1, <1>2, <1>4, <2>1, SMTT(40)
  <2>4. j < o + 2 \/ j = o + 2 \/ j > o + 2
    BY <1>4, <2>1
  <2> QED  BY <1>10, <1>12, <2>1, <2>2, <2>3, <2>4
<1> QED  BY <1>18, <1>19 DEF Children

(* a is the part of y from its child lo to its child hi, with range S. *)
Piece(a, S, y, R, lo, hi) ==
    /\ lo \in Nat /\ hi \in Nat /\ 1 <= lo /\ lo < hi /\ hi <= Len(y.child)
    /\ a \in IntNode /\ a.keys = SubSeq(y.keys, lo, hi - 1) /\ a.child = SubSeq(y.child, lo, hi)
    /\ S = {v \in R : (lo > 1 => y.keys[lo - 1] <= v) /\ (hi <= Len(y.keys) => v < y.keys[hi])}

PieceOf(u, s, lo, hi) ==
    Len(u) = (hi - lo) + 1 /\ \A i \in 1 .. Len(u) : u[i] = s[(lo - 1) + i]

LEMMA RoutedPiece ==
  ASSUME NEW y, NEW R \in SUBSET Value, NEW rng, NEW np, Routed(y, R, rng, np),
         NEW a, NEW S, NEW lo \in Nat, NEW hi \in Nat, Piece(a, S, y, R, lo, hi)
  PROVE  Routed(a, S, rng, np) /\ PieceOf(a.child, y.child, lo, hi)
<1>1. /\ y.keys \in Seq(Value) /\ Len(y.keys) \in Nat
      /\ y.child \in Seq(PageNum) /\ Len(y.child) = Len(y.keys) + 1
      /\ \A i \in 1 .. Len(y.keys) : y.keys[i] \in Int
      /\ \A v \in R : v \in Int
  BY RoutedParts
<1>2. PICK n \in Nat : n = Len(y.keys) /\ n >= 1
  BY <1>1 DEF Routed
<1>3. /\ lo \in Nat /\ hi \in Nat /\ 1 <= lo /\ lo < hi /\ hi <= Len(y.child)
       /\ a \in IntNode /\ a.keys = SubSeq(y.keys, lo, hi - 1) /\ a.child = SubSeq(y.child, lo, hi)
       /\ S = {v \in R : (lo > 1 => y.keys[lo - 1] <= v) /\ (hi <= Len(y.keys) => v < y.keys[hi])}
  BY DEF Piece
<1>4. PICK m \in Nat : m = hi - lo /\ m >= 1 /\ hi = lo + m /\ lo + m <= n + 1
  <2>1. \A x, z, t \in Nat : x < z /\ z <= t => z - x \in Nat /\ z - x >= 1 /\ z = x + (z - x) /\ x + (z - x) <= t
    OBVIOUS
  <2>2. Len(y.child) = n + 1 /\ n + 1 \in Nat
    BY <1>1, <1>2
  <2> QED  BY <1>3, <2>1, <2>2
<1>5. PICK d \in Nat : d = lo - 1 /\ lo = d + 1
  BY <1>3
<1>6. PICK K : K = y.keys
  OBVIOUS
<1>7. /\ \A i \in 1 .. n : K[i] \in Int /\ K[i] \in R
      /\ \A i, j \in 1 .. n : i < j => K[i] < K[j]
      /\ \E w \in R : w < K[1]
      /\ \A i \in 1 .. n + 1 : y.child[i] \in 1 .. np - 1 /\ rng[y.child[i]] = Interval(y, R, i)
  <2>1. \A i \in 1 .. n : K[i] \in Int
    BY <1>1, <1>2, <1>6
  <2>2. \A i \in 1 .. n : K[i] \in R
    BY <1>2, <1>6 DEF Routed
  <2>3. \A i, j \in 1 .. n : i < j => K[i] < K[j]
    BY <1>2, <1>6 DEF Routed, Ascending
  <2>4. \E w \in R : w < K[1]
    BY <1>6 DEF Routed
  <2>5. \A i \in 1 .. n + 1 : y.child[i] \in 1 .. np - 1 /\ rng[y.child[i]] = Interval(y, R, i)
    BY <1>1, <1>2 DEF Routed
  <2> QED  BY <2>1, <2>2, <2>3, <2>4, <2>5
<1>8. \A i, j \in 1 .. n : i <= j => K[i] <= K[j]
  <2> SUFFICES ASSUME NEW i \in 1 .. n, NEW j \in 1 .. n, i <= j
               PROVE  K[i] <= K[j]
    OBVIOUS
  <2>1. K[i] \in Int /\ K[j] \in Int /\ (i < j => K[i] < K[j]) /\ (i = j \/ i < j)
    BY <1>7
  <2> QED  BY <2>1
<1>9. Len(a.keys) = m /\ Len(a.child) = m + 1
  <2>1. hi - 1 <= Len(y.keys) /\ lo <= hi - 1 /\ (hi - 1) - lo + 1 = m /\ (hi - lo) + 1 = m + 1 /\ hi - 1 \in Nat
    BY <1>1, <1>2, <1>4, <1>3
  <2> QED  BY <1>1, <1>3, <2>1
<1>10. \A i \in 1 .. m : a.keys[i] = K[d + i]
  <2>1. \A i \in 1 .. m : i \in 1 .. (hi - 1) - lo + 1 /\ lo + i - 1 = d + i
    BY <1>4, <1>5, <1>3
  <2>2. \A i \in 1 .. (hi - 1) - lo + 1 : a.keys[i] = y.keys[lo + i - 1]
    <3>1. \A i \in 1 .. (hi - 1) - lo + 1 : i \in 1 .. Len(a.keys)
      <4>1. (hi - 1) - lo + 1 = m
        BY <1>4, <1>3
      <4> QED  BY <1>9, <4>1
    <3> QED  BY <1>1, <1>4, <1>9, <1>3, <3>1
  <2> QED  BY <1>6, <2>1, <2>2
<1>11. \A i \in 1 .. m + 1 : a.child[i] = y.child[d + i]
  <2>1. \A i \in 1 .. m + 1 : i \in 1 .. hi - lo + 1 /\ lo + i - 1 = d + i
    BY <1>4, <1>5, <1>3
  <2>2. \A i \in 1 .. hi - lo + 1 : a.child[i] = y.child[lo + i - 1]
    <3>1. \A i \in 1 .. hi - lo + 1 : i \in 1 .. Len(a.child)
      BY <1>4, <1>9, <1>3
    <3> QED  BY <1>1, <1>4, <1>9, <1>3, <3>1
  <2> QED  BY <2>1, <2>2
<1>12. \A v : v \in S <=> v \in R /\ (d > 0 => K[d] <= v) /\ (d + m < n => v < K[d + m + 1])
  <2>1. (lo > 1 <=> d > 0) /\ lo - 1 = d /\ (hi <= n <=> d + m < n) /\ hi = d + m + 1
    BY <1>4, <1>5, <1>3
  <2> QED  BY <1>2, <1>6, <1>3, <2>1
<1>13. \A i \in 1 .. m : d + i \in 1 .. n /\ d < d + i /\ d + i <= d + m
  BY <1>4, <1>5
<1>14. (d > 0 => d \in 1 .. n) /\ (d + m < n => d + m + 1 \in 1 .. n)
  BY <1>4, <1>5
<1>15. \A i \in 1 .. m : a.keys[i] \in S
  <2> SUFFICES ASSUME NEW i \in 1 .. m PROVE K[d + i] \in S
    BY <1>10
  <2>1. d > 0 => K[d] <= K[d + i]
    <3>1. d > 0 => d \in 1 .. n /\ d + i \in 1 .. n /\ d <= d + i
      BY <1>13, <1>14
    <3> QED  BY <1>8, <3>1
  <2>2. d + m < n => K[d + i] < K[d + m + 1]
    <3>1. d + m < n => d + i < d + m + 1
      BY <1>4, <1>13
    <3> QED  BY <1>7, <1>13, <1>14, <3>1
  <2> QED  BY <1>7, <1>12, <1>13, <2>1, <2>2
<1>16. Ascending(a.keys)
  <2>1. ASSUME NEW i \in 1 .. m, NEW j \in 1 .. m, i < j
        PROVE  a.keys[i] < a.keys[j]
    <3>1. d + i < d + j
      BY <2>1, <1>5
    <3> QED  BY <1>7, <1>10, <1>13, <3>1
  <2> QED  BY <1>9, <2>1 DEF Ascending
<1>17. \E w \in S : w < a.keys[1]
  <2>1. a.keys[1] = K[d + 1] /\ d + 1 \in 1 .. n
    <3>1. 1 \in 1 .. m
      BY <1>4
    <3> QED  BY <1>10, <1>13, <3>1
  <2>2. CASE d = 0
    <3>1. PICK w \in R : w < K[1]
      BY <1>7
    <3>2. w \in Int /\ (d + m < n => K[1] \in Int /\ K[d + m + 1] \in Int /\ K[1] <= K[d + m + 1])
      <4>1. 1 \in 1 .. n /\ (d + m < n => 1 <= d + m + 1)
        BY <1>2, <2>2
      <4> QED  BY <1>1, <1>7, <1>8, <1>14, <4>1
    <3>3. d + m < n => w < K[d + m + 1]
      BY <3>1, <3>2
    <3> QED  BY <1>12, <2>1, <2>2, <3>1, <3>3
  <2>3. CASE d > 0
    <3>1. d \in 1 .. n /\ d < d + 1 /\ d < d + m + 1
      BY <1>14, <2>3
    <3>2. K[d] < K[d + 1] /\ K[d] <= K[d] /\ K[d] \in R
      BY <1>7, <1>8, <2>1, <3>1
    <3>3. d + m < n => K[d] < K[d + m + 1]
      BY <1>7, <1>14, <3>1
    <3> QED  BY <1>12, <2>1, <3>2, <3>3
  <2> QED  BY <2>2, <2>3
<1>18. ASSUME NEW i \in 1 .. m + 1
       PROVE  rng[a.child[i]] = Interval(a, S, i) /\ a.child[i] \in 1 .. np - 1
  <2>1. PICK j \in 1 .. n + 1 : j = d + i
    BY <1>4, <1>5
  <2>2. a.child[i] = y.child[j]
    BY <1>11, <2>1
  <2>3. \A v : v \in Interval(y, R, j) <=> v \in R /\ (j > 1 => K[j - 1] <= v) /\ (j <= n => v < K[j])
    BY <1>2, <1>6 DEF Interval
  <2>4. \A v : v \in Interval(a, S, i) <=>
          v \in S /\ (i > 1 => K[j - 1] <= v) /\ (i <= m => v < K[j])
    <3>1. i > 1 => i - 1 \in 1 .. m /\ d + (i - 1) = j - 1
      BY <2>1, <1>4
    <3>2. i <= m => i \in 1 .. m
      OBVIOUS
    <3>3. (i > 1 => a.keys[i - 1] = K[j - 1]) /\ (i <= m => a.keys[i] = K[j])
      BY <1>10, <2>1, <3>1, <3>2
    <3> QED  BY <1>9, <3>3 DEF Interval
  <2>5. ASSUME NEW v \in R
        PROVE  v \in Interval(y, R, j) <=> v \in Interval(a, S, i)
    <3>1. v \in Int
      BY <1>1
    <3>2. i = 1 => j = d + 1 /\ j - 1 = d /\ (j > 1 <=> d > 0)
      BY <2>1
    <3>3. i > 1 => j > 1 /\ j - 1 \in 1 .. n /\ d <= j - 1
      BY <2>1, <1>4
    <3>4. i > m => i = m + 1 /\ j = d + m + 1 /\ (j <= n <=> d + m < n)
      BY <2>1, <1>4
    <3>5. i <= m => j \in 1 .. n /\ j <= n /\ j <= d + m + 1
      BY <2>1, <1>4, <1>5
    <3>6. i > 1 /\ K[j - 1] <= v => (d > 0 => K[d] <= v)
      <4>1. i > 1 /\ d > 0 => K[d] \in Int /\ K[j - 1] \in Int /\ K[d] <= K[j - 1]
        BY <1>7, <1>8, <1>14, <3>3
      <4> QED  BY <3>1, <4>1
    <3>7. i <= m /\ v < K[j] => (d + m < n => v < K[d + m + 1])
      <4>1. i <= m /\ d + m < n => K[j] \in Int /\ K[d + m + 1] \in Int /\ K[j] <= K[d + m + 1]
        BY <1>7, <1>8, <1>14, <3>5
      <4> QED  BY <3>1, <4>1
    <3>8. (i = 1 \/ i > 1) /\ (i <= m \/ i > m)
      BY <1>4
    <3>9. (j > 1 => K[j - 1] <= v) <=> (d > 0 => K[d] <= v) /\ (i > 1 => K[j - 1] <= v)
      <4>1. CASE i = 1
        BY <3>2, <4>1
      <4>2. CASE i > 1
        BY <3>3, <3>6, <4>2
      <4> QED  BY <3>8, <4>1, <4>2
    <3>10. (j <= n => v < K[j]) <=> (d + m < n => v < K[d + m + 1]) /\ (i <= m => v < K[j])
      <4>1. CASE i <= m
        BY <3>5, <3>7, <4>1
      <4>2. CASE i > m
        <5>1. ~(i <= m)
          BY <1>4, <4>2
        <5> QED  BY <3>4, <4>2, <5>1
      <4> QED  BY <3>8, <4>1, <4>2
    <3> QED  BY <1>12, <2>3, <2>4, <3>9, <3>10
  <2>6. Interval(y, R, j) = Interval(a, S, i)
    <3>1. \A v : v \in Interval(y, R, j) <=> v \in Interval(a, S, i)
      BY <1>12, <2>3, <2>4, <2>5
    <3> QED  BY <3>1 DEF Interval
  <2> QED  BY <1>7, <2>2, <2>6
<1>19. Routed(a, S, rng, np)
  <2>1. Len(a.keys) >= 1 /\ Len(a.child) = Len(a.keys) + 1
    BY <1>4, <1>9
  <2>2. \A i \in 1 .. Len(a.keys) : a.keys[i] \in S
    BY <1>9, <1>15
  <2>3. \A i \in 1 .. Len(a.child) : a.child[i] \in 1 .. np - 1 /\ rng[a.child[i]] = Interval(a, S, i)
    BY <1>9, <1>18
  <2> QED  BY <1>16, <1>17, <1>3, <2>1, <2>2, <2>3 DEF Routed
<1>20. PieceOf(a.child, y.child, lo, hi)
  <2>1. Len(a.child) = (hi - lo) + 1
    BY <1>3, <1>4, <1>9
  <2>2. \A i \in 1 .. Len(a.child) : a.child[i] = y.child[(lo - 1) + i]
    BY <1>5, <1>9, <1>11
  <2> QED  BY <2>1, <2>2 DEF PieceOf
<1> QED  BY <1>19, <1>20

(* x and y have no common child; the children of x are children of y. *)
Apart(x, y) == \A i \in 1 .. Len(x.child), j \in 1 .. Len(y.child) : x.child[i] # y.child[j]
From(x, y)  == \A i \in 1 .. Len(x.child) : \E j \in 1 .. Len(y.child) : x.child[i] = y.child[j]

(* Of y the first half of the keys is in a, the rest but for key in b. *)
Cut(y, half, key, a, b) ==
    /\ half \in Nat /\ half >= 1 /\ half + 2 <= Len(y.keys) /\ key = y.keys[half + 1]
    /\ a \in IntNode /\ b \in IntNode
    /\ a.keys = SubSeq(y.keys, 1, half) /\ a.child = SubSeq(y.child, 1, half + 1)
    /\ b.keys = SubSeq(y.keys, half + 2, Len(y.keys))
    /\ b.child = SubSeq(y.child, half + 2, Len(y.keys) + 1)

(* So are its children and its range, R. *)
CutUp(y, R, rng, np, key, a, b) ==
    /\ Parts(R, key) /\ Apart(a, b) /\ From(a, y) /\ From(b, y)
    /\ Routed(a, {v \in R : v < key}, rng, np) /\ Routed(b, {v \in R : key <= v}, rng, np)

LEMMA RoutedSplit ==
  ASSUME NEW y, NEW R \in SUBSET Value, NEW rng, NEW np, Routed(y, R, rng, np),
         NEW half, NEW key, NEW a, NEW b, Cut(y, half, key, a, b)
  PROVE  CutUp(y, R, rng, np, key, a, b)
<1> USE DEF Cut
<1>1. PICK n \in Nat : n = Len(y.keys) /\ Len(y.child) = n + 1
  BY RoutedParts
<1>2. \A v \in R : v \in Int
  BY RoutedParts
<1>3. /\ 1 \in 1 .. n /\ half + 1 \in 1 .. n /\ 1 < half + 1
      /\ y.keys[1] \in R /\ key \in R /\ y.keys[1] < key /\ \E w \in R : w < y.keys[1]
  <2>1. 1 \in 1 .. n /\ half + 1 \in 1 .. n /\ 1 < half + 1
    BY <1>1
  <2>2. \A i, j \in 1 .. n : i < j => y.keys[i] < y.keys[j]
    BY <1>1 DEF Routed, Ascending
  <2>3. (\A i \in 1 .. n : y.keys[i] \in R) /\ \E w \in R : w < y.keys[1]
    BY <1>1 DEF Routed
  <2> QED  BY <2>1, <2>2, <2>3
<1>4. Parts(R, key)
  BY <1>2, <1>3 DEF Parts
<1>5. PICK one \in Nat : one = 1
  OBVIOUS
<1>6. PICK mid \in Nat : mid = half + 1 /\ mid - 1 = half
  OBVIOUS
<1>7. PICK lo \in Nat : lo = half + 2 /\ lo - 1 = half + 1
  OBVIOUS
<1>8. PICK hi \in Nat : hi = n + 1 /\ hi - 1 = n
  OBVIOUS
<1>9. /\ Routed(a, {v \in R : v < key}, rng, np)
      /\ Len(a.child) = (mid - one) + 1
      /\ \A i \in 1 .. Len(a.child) : a.child[i] = y.child[(one - 1) + i]
  <2>1. PICK S : S = {v \in R : v < key}
    OBVIOUS
  <2>2. S = {v \in R : (one > 1 => y.keys[one - 1] <= v) /\ (mid <= Len(y.keys) => v < y.keys[mid])}
    BY <1>1, <1>5, <1>6, <2>1
  <2>3. 1 <= one /\ one < mid /\ mid <= Len(y.child)
    BY <1>1, <1>5, <1>6
  <2>4. a.keys = SubSeq(y.keys, one, mid - 1) /\ a.child = SubSeq(y.child, one, mid)
    BY <1>5, <1>6
  <2>5. Piece(a, S, y, R, one, mid)
    BY <2>2, <2>3, <2>4 DEF Piece
  <2>6. Routed(a, S, rng, np) /\ PieceOf(a.child, y.child, one, mid)
    BY <2>5, RoutedPiece
  <2> QED  BY <2>1, <2>6 DEF PieceOf
<1>10. /\ Routed(b, {v \in R : key <= v}, rng, np)
       /\ Len(b.child) = (hi - lo) + 1
       /\ \A i \in 1 .. Len(b.child) : b.child[i] = y.child[(lo - 1) + i]
  <2>1. PICK S : S = {v \in R : key <= v}
    OBVIOUS
  <2>2. lo > 1 /\ ~(hi <= Len(y.keys))
    BY <1>1, <1>7, <1>8
  <2>3. S = {v \in R : (lo > 1 => y.keys[lo - 1] <= v) /\ (hi <= Len(y.keys) => v < y.keys[hi])}
    BY <1>7, <2>1, <2>2
  <2>4. 1 <= lo /\ lo < hi /\ hi <= Len(y.child)
    BY <1>1, <1>7, <1>8
  <2>5. b.keys = SubSeq(y.keys, lo, hi - 1) /\ b.child = SubSeq(y.child, lo, hi)
    BY <1>1, <1>7, <1>8
  <2>6. Piece(b, S, y, R, lo, hi)
    BY <2>3, <2>4, <2>5 DEF Piece
  <2>7. Routed(b, S, rng, np) /\ PieceOf(b.child, y.child, lo, hi)
    BY <2>6, RoutedPiece
  <2> QED  BY <2>1, <2>7 DEF PieceOf
<1>11. \A i \in 1 .. Len(a.child) :
         i \in 1 .. Len(y.child) /\ i <= half + 1 /\ a.child[i] = y.child[i]
  <2>1. \A i \in 1 .. Len(a.child) : (one - 1) + i = i /\ i <= half + 1 /\ i \in 1 .. Len(y.child)
    BY <1>1, <1>5, <1>6, <1>9
  <2> QED  BY <1>9, <2>1
<1>12. \A i \in 1 .. Len(b.child) :
         (lo - 1) + i \in 1 .. Len(y.child) /\ half + 1 < (lo - 1) + i /\ b.child[i] = y.child[(lo - 1) + i]
  <2>1. \A i \in 1 .. Len(b.child) : (lo - 1) + i \in 1 .. Len(y.child) /\ half + 1 < (lo - 1) + i
    BY <1>1, <1>7, <1>8, <1>10
  <2> QED  BY <1>10, <2>1
<1>13. From(a, y) /\ From(b, y)
  BY <1>11, <1>12 DEF From
<1>14. ASSUME NEW i \in 1 .. Len(a.child), NEW j \in 1 .. Len(b.child), a.child[i] = b.child[j]
       PROVE  FALSE
  <2>1. PICK k : k = (lo - 1) + j
    OBVIOUS
  <2>2. k \in 1 .. Len(y.child) /\ half + 1 < k /\ b.child[j] = y.child[k]
    BY <1>12, <2>1
  <2>3. i \in 1 .. Len(y.child) /\ i <= half + 1 /\ a.child[i] = y.child[i]
    BY <1>11
  <2>4. y.child[i] = y.child[k]
    BY <1>14, <2>2, <2>3
  <2>5. i = k
    BY <2>2, <2>3, <2>4, ChildrenDiffer
  <2> QED  BY <2>2, <2>3, <2>5
<1> QED  BY <1>4, <1>9, <1>10, <1>13, <1>14 DEF Apart, CutUp

(* V is a tree of np pages with these ranges; no page has two parents. *)
Routes(V, np, rng) ==
    /\ rng \in [PageNum -> SUBSET Value] /\ rng[0] = Value
    /\ V[0].pageType = "l" => np = 1
    /\ \A a \in 0 .. np - 1 : V[a].pageType = "i" => Routed(V[a], rng[a], rng, np)
    /\ \A a, b \in 0 .. np - 1 :
         a # b /\ V[a].pageType = "i" /\ V[b].pageType = "i" => Apart(V[a], V[b])

(* The page x with range R in two, parted at key. *)
Parted(x, R, rng, np, one, two, key) ==
    /\ Parts(R, key) /\ one.pageType = x.pageType /\ two.pageType = x.pageType
    /\ x.pageType = "i" =>
         /\ Apart(one, two) /\ From(one, x) /\ From(two, x)
         /\ Routed(one, {v \in R : v < key}, rng, np) /\ Routed(two, {v \in R : key <= v}, rng, np)

(* The children of node x are in np pages and not p. *)
Avoids(x, np, p) == \A i \in 1 .. Len(x.child) : x.child[i] \in 1 .. np - 1 /\ x.child[i] # p

LEMMA RoutedAvoids ==
  ASSUME NEW x, NEW R, NEW rng, NEW np \in Nat, NEW p, Routed(x, R, rng, np), Avoids(x, np, p),
         NEW rng2, NEW np2 \in Nat, np <= np2, \A q \in 1 .. np - 1 : q # p => rng2[q] = rng[q]
  PROVE  Routed(x, R, rng2, np2)
<1>1. \A i \in 1 .. Len(x.child) : rng2[x.child[i]] = rng[x.child[i]]
  BY DEF Avoids
<1> QED  BY <1>1, RoutedKept

IsDivided(rng2, rng, p, one, two, key) ==
    /\ rng2 \in [PageNum -> SUBSET Value]
    /\ rng2[one] = {w \in rng[p] : w < key} /\ rng2[two] = {w \in rng[p] : key <= w}
    /\ \A q \in PageNum : q # one /\ q # two => rng2[q] = rng[q]

LEMMA DividedIs ==
  ASSUME NEW rng \in [PageNum -> SUBSET Value], NEW p \in PageNum, NEW one \in PageNum,
         NEW two \in PageNum, one # two, NEW key, NEW rng2, rng2 = Divided(rng, p, one, two, key)
  PROVE  IsDivided(rng2, rng, p, one, two, key)
<1>1. \A w \in rng[p] : w \in Value
  OBVIOUS
<1>2. {w \in rng[p] : w < key} \in SUBSET Value /\ {w \in rng[p] : key <= w} \in SUBSET Value
  BY <1>1
<1> QED  BY <1>2 DEF Divided, IsDivided

(* Page p is in two, the second of them np, and node g has its child o so. *)
ChildSplit(V, np, p, g, o, key, x1, x2, V2) ==
    /\ np \in PageNum /\ p \in 1 .. np - 1 /\ g \in 0 .. np - 1 /\ g # p
    /\ V[g].pageType = "i" /\ o \in 0 .. Len(V[g].keys) /\ V[g].child[o + 1] = p
    /\ DOMAIN V = PageNum
    /\ V2 = [V EXCEPT ![p] = x1, ![np] = x2, ![g] = AM_AddtoIntPage(V[g], key, np, o)]

LEMMA RouteSplit ==
  ASSUME NEW V, NEW np, NEW rng, Routes(V, np, rng), NEW p, NEW g, NEW o, NEW key, NEW x1, NEW x2,
         NEW V2, ChildSplit(V, np, p, g, o, key, x1, x2, V2),
         Parted(V[p], rng[p], rng, np, x1, x2, key)
  PROVE  Routes(V2, np + 1, Divided(rng, p, p, np, key))
<1>1. /\ np \in Nat /\ np \in PageNum /\ p \in PageNum /\ g \in PageNum
      /\ \A q \in 0 .. np - 1 : q \in PageNum /\ q # np
      /\ p \in 0 .. np - 1 /\ p \in 1 .. np - 1 /\ g \in 0 .. np - 1 /\ p # 0 /\ np # 0 /\ np # 1 /\ g # p
      /\ \A q \in 0 .. (np + 1) - 1 : q = np \/ q \in 0 .. np - 1
      /\ 0 \in 0 .. np - 1
  <2>1. np \in PageNum /\ p \in 1 .. np - 1 /\ g \in 0 .. np - 1 /\ g # p
    BY DEF ChildSplit
  <2> QED  BY <2>1, Constants DEF PageNum
<1>2. PICK y : y = AM_AddtoIntPage(V[g], key, np, o)
  OBVIOUS
<1>3. /\ V2[p] = x1 /\ V2[np] = x2 /\ V2[g] = y
      /\ \A q \in 0 .. np - 1 : q # p /\ q # g => V2[q] = V[q]
  BY <1>1, <1>2 DEF ChildSplit
<1>4. PICK rng2 : rng2 = Divided(rng, p, p, np, key)
  OBVIOUS
<1>5. rng \in [PageNum -> SUBSET Value] /\ rng[0] = Value
  BY DEF Routes
<1>6. /\ rng2 \in [PageNum -> SUBSET Value]
      /\ rng2[p] = {w \in rng[p] : w < key} /\ rng2[np] = {w \in rng[p] : key <= w}
      /\ \A q \in PageNum : q # p /\ q # np => rng2[q] = rng[q]
  <2>1. IsDivided(rng2, rng, p, p, np, key)
    BY <1>1, <1>4, <1>5, DividedIs
  <2> QED  BY <2>1 DEF IsDivided
<1>7. /\ \A q \in 0 .. np - 1 : q # p => rng2[q] = rng[q]
      /\ \A q \in 1 .. np - 1 : q # p => rng2[q] = rng[q]
  <2>1. \A q \in 1 .. np - 1 : q \in 0 .. np - 1
    BY <1>1
  <2> QED  BY <1>1, <1>6, <2>1
<1>8. /\ \A a \in 0 .. np - 1 : V[a].pageType = "i" => Routed(V[a], rng[a], rng, np)
      /\ \A a, b \in 0 .. np - 1 :
           a # b /\ V[a].pageType = "i" /\ V[b].pageType = "i" => Apart(V[a], V[b])
  BY DEF Routes
<1>9. V[g].pageType = "i" /\ o \in 0 .. Len(V[g].keys) /\ V[g].child[o + 1] = p
  BY DEF ChildSplit
<1>10. \A a \in 0 .. np - 1 : a # g /\ V[a].pageType = "i" => Avoids(V[a], np, p)
  <2> SUFFICES ASSUME NEW a \in 0 .. np - 1, a # g, V[a].pageType = "i"
               PROVE  Avoids(V[a], np, p)
    OBVIOUS
  <2>1. o + 1 \in 1 .. Len(V[g].child)
    <3>1. Len(V[g].keys) \in Nat /\ Len(V[g].child) = Len(V[g].keys) + 1
      <4>1. Routed(V[g], rng[g], rng, np) /\ rng[g] \in SUBSET Value
        BY <1>1, <1>5, <1>8, <1>9
      <4> QED  BY <4>1, RoutedParts
    <3> QED  BY <1>9, <3>1
  <2>2. Apart(V[a], V[g])
    BY <1>1, <1>8, <1>9
  <2>3. \A i \in 1 .. Len(V[a].child) : V[a].child[i] # p
    BY <1>9, <2>1, <2>2 DEF Apart
  <2>4. Routed(V[a], rng[a], rng, np)
    BY <1>8
  <2> QED  BY <2>3, <2>4 DEF Avoids, Routed
<1>11. Routed(y, rng[g], rng2, np + 1)
       /\ \A j \in 1 .. Len(y.child) : y.child[j] = np \/ \E k \in 1 .. Len(V[g].child) : y.child[j] = V[g].child[k]
  <2>1. PICK x : x = V[g]
    OBVIOUS
  <2>2. PICK R \in SUBSET Value : R = rng[g]
    BY <1>1, <1>5
  <2>3. Routed(x, R, rng, np) /\ o \in 0 .. Len(x.keys) /\ p = x.child[o + 1] /\ y = AM_AddtoIntPage(x, key, np, o)
    BY <1>1, <1>2, <1>8, <1>9, <2>1, <2>2
  <2>4. Parts(rng[p], key)
    BY DEF Parted
  <2>5. Routed(y, R, rng2, np + 1) /\ Children(y, x, np)
    <3>1. Adding(x, rng, np, o, p, key, rng2, y)
      BY <1>6, <1>7, <2>3, <2>4 DEF Adding
    <3> QED  BY <1>1, <2>3, <3>1, RoutedAdd
  <2> QED  BY <2>1, <2>2, <2>5 DEF Children
<1>12. y.pageType = "i"
  BY <1>11 DEF Routed, IntNode
<1>13. V[p].pageType = "i" =>
         /\ Avoids(x1, np, p) /\ Avoids(x2, np, p)
         /\ Routed(x1, rng2[p], rng2, np + 1) /\ Routed(x2, rng2[np], rng2, np + 1)
  <2> SUFFICES ASSUME V[p].pageType = "i"
               PROVE  /\ Avoids(x1, np, p) /\ Avoids(x2, np, p)
                      /\ Routed(x1, rng2[p], rng2, np + 1) /\ Routed(x2, rng2[np], rng2, np + 1)
    OBVIOUS
  <2>1. /\ From(x1, V[p]) /\ From(x2, V[p])
        /\ Routed(x1, rng2[p], rng, np) /\ Routed(x2, rng2[np], rng, np)
    BY <1>6 DEF Parted
  <2>2. Avoids(V[p], np, p)
    BY <1>1, <1>10
  <2>3. Avoids(x1, np, p) /\ Avoids(x2, np, p)
    BY <2>1, <2>2, ZenonT(60) DEF From, Avoids
  <2>4. np + 1 \in Nat /\ np <= np + 1
    BY <1>1
  <2>5. Routed(x1, rng2[p], rng2, np + 1)
    BY <1>1, <1>7, <2>1, <2>3, <2>4, RoutedAvoids
  <2>6. Routed(x2, rng2[np], rng2, np + 1)
    BY <1>1, <1>7, <2>1, <2>3, <2>4, RoutedAvoids
  <2> QED  BY <2>3, <2>5, <2>6
<1>14. x1.pageType = V[p].pageType /\ x2.pageType = V[p].pageType /\ (V[p].pageType = "i" => Apart(x1, x2))
  BY DEF Parted
<1>15. V2[0].pageType # "l"
  <2>1. CASE g = 0
    BY <1>3, <1>12, <2>1
  <2>2. CASE g # 0
    <3>1. V2[0] = V[0]
      BY <1>1, <1>3, <2>2
    <3>2. V[0].pageType = "l" => np = 1
      BY DEF Routes
    <3> QED  BY <1>1, <3>1, <3>2
  <2> QED  BY <2>1, <2>2
<1>16. ASSUME NEW a \in 0 .. (np + 1) - 1, V2[a].pageType = "i"
       PROVE  Routed(V2[a], rng2[a], rng2, np + 1)
  <2>1. CASE a = np
    BY <1>3, <1>13, <1>14, <1>16, <2>1
  <2>2. CASE a = p
    BY <1>3, <1>13, <1>14, <1>16, <2>2
  <2>3. CASE a = g
    BY <1>1, <1>3, <1>7, <1>11, <2>3
  <2>4. CASE a # np /\ a # p /\ a # g
    <3>1. a \in 0 .. np - 1 /\ V2[a] = V[a] /\ rng2[a] = rng[a]
      BY <1>1, <1>3, <1>7, <2>4
    <3>2. Routed(V[a], rng[a], rng, np) /\ Avoids(V[a], np, p)
      BY <1>8, <1>10, <1>16, <2>4, <3>1
    <3>3. np + 1 \in Nat /\ np <= np + 1
      BY <1>1
    <3>4. Routed(V[a], rng[a], rng2, np + 1)
      BY <1>1, <1>7, <3>2, <3>3, RoutedAvoids
    <3> QED  BY <3>1, <3>4
  <2> QED  BY <2>1, <2>2, <2>3, <2>4
<1> DEFINE src(a) == IF a = np THEN p ELSE a
<1>17. ASSUME NEW a \in 0 .. (np + 1) - 1, V2[a].pageType = "i", NEW i \in 1 .. Len(V2[a].child)
       PROVE  /\ src(a) \in 0 .. np - 1 /\ V[src(a)].pageType = "i"
              /\ \/ a = g /\ V2[a].child[i] = np
                 \/ \E k \in 1 .. Len(V[src(a)].child) : V2[a].child[i] = V[src(a)].child[k]
  <2>1. CASE a = np
    BY <1>1, <1>3, <1>14, <1>17, <2>1 DEF Parted, From
  <2>2. CASE a = p
    BY <1>1, <1>3, <1>14, <1>17, <2>2 DEF Parted, From
  <2>3. CASE a = g
    BY <1>1, <1>3, <1>9, <1>11, <1>17, <2>3
  <2>4. CASE a # np /\ a # p /\ a # g
    BY <1>1, <1>3, <1>17, <2>4
  <2> QED  BY <2>1, <2>2, <2>3, <2>4
<1>18. ASSUME NEW a \in 0 .. np - 1, V[a].pageType = "i"
       PROVE  \A k \in 1 .. Len(V[a].child) : V[a].child[k] # np
  <2>1. Routed(V[a], rng[a], rng, np)
    BY <1>8, <1>18
  <2>2. \A k \in 1 .. Len(V[a].child) : V[a].child[k] \in 1 .. np - 1
    BY <2>1 DEF Routed
  <2>3. \A c \in 1 .. np - 1 : c # np
    BY <1>1
  <2> QED  BY <2>2, <2>3
<1>19. ASSUME NEW a \in 0 .. (np + 1) - 1, NEW b \in 0 .. (np + 1) - 1, a # b,
              V2[a].pageType = "i", V2[b].pageType = "i",
              NEW i \in 1 .. Len(V2[a].child), NEW j \in 1 .. Len(V2[b].child)
       PROVE  V2[a].child[i] # V2[b].child[j]
  <2>1. /\ src(a) \in 0 .. np - 1 /\ V[src(a)].pageType = "i"
        /\ \/ a = g /\ V2[a].child[i] = np
           \/ \E k \in 1 .. Len(V[src(a)].child) : V2[a].child[i] = V[src(a)].child[k]
    BY <1>17, <1>19
  <2>2. /\ src(b) \in 0 .. np - 1 /\ V[src(b)].pageType = "i"
        /\ \/ b = g /\ V2[b].child[j] = np
           \/ \E k \in 1 .. Len(V[src(b)].child) : V2[b].child[j] = V[src(b)].child[k]
    BY <1>17, <1>19
  <2>3. CASE src(a) # src(b)
    <3>1. Apart(V[src(a)], V[src(b)])
      BY <1>8, <2>1, <2>2, <2>3
    <3> HIDE DEF src
    <3> QED  BY <1>18, <1>19, <2>1, <2>2, <3>1 DEF Apart
  <2>4. CASE src(a) = src(b)
    <3>1. (a = np /\ b = p) \/ (a = p /\ b = np)
      BY <1>19, <2>4
    <3>2. V[p].pageType = "i"
      BY <2>1, <2>2, <3>1
    <3> QED  BY <1>3, <1>14, <3>1, <3>2, SMTT(40) DEF Apart
  <2> QED  BY <2>3, <2>4
<1>20. \A a, b \in 0 .. (np + 1) - 1 :
         a # b /\ V2[a].pageType = "i" /\ V2[b].pageType = "i" => Apart(V2[a], V2[b])
  BY <1>19 DEF Apart
<1>21. rng2[0] = Value
  BY <1>1, <1>5, <1>7
<1>22. Routes(V2, np + 1, rng2)
  BY <1>6, <1>15, <1>16, <1>20, <1>21 DEF Routes
<1> QED  BY <1>4, <1>22

(* The root is in two, both of them new pages. *)
LEMMA RouteRoot ==
  ASSUME NEW V, NEW np \in Nat, NEW rng, Routes(V, np, rng), np >= 1, np + 1 \in PageNum,
         NEW key, NEW x1, NEW x2, Parted(V[0], Value, rng, np, x1, x2, key), DOMAIN V = PageNum,
         NEW V2, V2 = [V EXCEPT ![np + 1] = x1, ![np] = x2, ![0] = AM_FillRootPage(np + 1, np, key)]
  PROVE  Routes(V2, np + 2, Divided(rng, 0, np + 1, np, key))
<1>1. /\ np \in PageNum /\ 0 \in PageNum /\ 0 # np /\ np + 1 # np /\ np + 1 # 0
      /\ \A q \in 0 .. np - 1 : q \in PageNum /\ q # np /\ q # np + 1
      /\ \A q \in 0 .. (np + 2) - 1 : q = np + 1 \/ q = np \/ q = 0 \/ (q # 0 /\ q \in 0 .. np - 1)
      /\ 0 \in 0 .. np - 1
      /\ \A q \in 1 .. np - 1 : q # 0 /\ q \in 0 .. np - 1
  BY Constants DEF PageNum
<1>2. PICK y : y = AM_FillRootPage(np + 1, np, key)
  OBVIOUS
<1>3. /\ V2[np + 1] = x1 /\ V2[np] = x2 /\ V2[0] = y
      /\ \A q \in 0 .. np - 1 : q # 0 => V2[q] = V[q]
  BY <1>1, <1>2
<1>4. PICK rng2 : rng2 = Divided(rng, 0, np + 1, np, key)
  OBVIOUS
<1>5. rng \in [PageNum -> SUBSET Value] /\ rng[0] = Value
  BY DEF Routes
<1>6. /\ rng2 \in [PageNum -> SUBSET Value]
      /\ rng2[np + 1] = {w \in Value : w < key} /\ rng2[np] = {w \in Value : key <= w}
      /\ \A q \in PageNum : q # np + 1 /\ q # np => rng2[q] = rng[q]
  <2>1. PICK one \in PageNum : one = np + 1
    OBVIOUS
  <2>2. rng2 = Divided(rng, 0, one, np, key) /\ one # np
    BY <1>1, <1>4, <2>1
  <2>3. IsDivided(rng2, rng, 0, one, np, key)
    BY <1>1, <1>5, <2>2, DividedIs
  <2> QED  BY <1>5, <2>1, <2>3 DEF IsDivided
<1>7. \A q \in 0 .. np - 1 : rng2[q] = rng[q]
  BY <1>1, <1>6
<1>8. /\ \A a \in 0 .. np - 1 : V[a].pageType = "i" => Routed(V[a], rng[a], rng, np)
      /\ \A a, b \in 0 .. np - 1 :
           a # b /\ V[a].pageType = "i" /\ V[b].pageType = "i" => Apart(V[a], V[b])
  BY DEF Routes
<1>9. \A x, R : Routed(x, R, rng, np) => Avoids(x, np, 0) /\ Routed(x, R, rng2, np + 2)
  <2> SUFFICES ASSUME NEW x, NEW R, Routed(x, R, rng, np)
               PROVE  Avoids(x, np, 0) /\ Routed(x, R, rng2, np + 2)
    OBVIOUS
  <2>1. Avoids(x, np, 0)
    BY <1>1 DEF Routed, Avoids
  <2>2. \A q \in 1 .. np - 1 : q # 0 => rng2[q] = rng[q]
    BY <1>1, <1>7
  <2>3. np + 2 \in Nat /\ np <= np + 2
    OBVIOUS
  <2> QED  BY <2>1, <2>2, <2>3, RoutedAvoids
<1>10. Parts(Value, key) /\ key \in Value /\ key \in Int
  BY AMLeafAssumption DEF Parted, Parts
<1>11. /\ y.pageType = "i" /\ y.keys = <<key>> /\ y.child = <<np + 1, np>>
       /\ y.keys \in Seq(Value) /\ y.child \in Seq(PageNum) /\ y \in IntNode
       /\ Len(y.keys) = 1 /\ y.keys[1] = key
       /\ Len(y.child) = 2 /\ y.child[1] = np + 1 /\ y.child[2] = np
  <2>1. y = [pageType |-> "i", keys |-> <<key>>, child |-> <<np + 1, np>>]
    BY <1>2 DEF AM_FillRootPage
  <2>2. <<key>> \in Seq(Value) /\ <<np + 1, np>> \in Seq(PageNum)
    BY <1>1, <1>10
  <2> QED  BY <2>1, <2>2 DEF IntNode
<1>12. Routed(y, rng2[0], rng2, np + 2)
  <2>1. rng2[0] = Value
    BY <1>1, <1>5, <1>7
  <2>2. Ascending(y.keys)
    BY <1>11 DEF Ascending
  <2>3. \A i \in 1 .. Len(y.keys) : y.keys[i] \in Value
    BY <1>11
  <2>4. \E w \in Value : w < y.keys[1]
    BY <1>10, <1>11 DEF Parts
  <2>5. Interval(y, Value, 1) = {w \in Value : w < key}
    <3>1. \A v : v \in Interval(y, Value, 1) <=> v \in Value /\ v < key
      BY <1>11 DEF Interval
    <3> QED  BY <3>1
  <2>6. Interval(y, Value, 2) = {w \in Value : key <= w}
    <3>1. \A v : v \in Interval(y, Value, 2) <=> v \in Value /\ key <= v
      BY <1>11 DEF Interval
    <3> QED  BY <3>1
  <2>7. \A i \in 1 .. Len(y.child) : i = 1 \/ i = 2
    BY <1>11
  <2>8. np \in 1 .. (np + 2) - 1 /\ np + 1 \in 1 .. (np + 2) - 1
    OBVIOUS
  <2>9. \A i \in 1 .. Len(y.child) : y.child[i] \in 1 .. (np + 2) - 1 /\ rng2[y.child[i]] = Interval(y, Value, i)
    BY <1>6, <1>11, <2>5, <2>6, <2>7, <2>8
  <2>10. Len(y.keys) >= 1 /\ Len(y.child) = Len(y.keys) + 1
    BY <1>11
  <2> QED  BY <1>11, <2>1, <2>2, <2>3, <2>4, <2>9, <2>10 DEF Routed
<1>13. V[0].pageType = "i" =>
         /\ Avoids(x1, np, 0) /\ Avoids(x2, np, 0) /\ Apart(x1, x2) /\ From(x1, V[0]) /\ From(x2, V[0])
         /\ Routed(x1, rng2[np + 1], rng2, np + 2) /\ Routed(x2, rng2[np], rng2, np + 2)
  <2>1. V[0].pageType = "i" =>
          /\ Apart(x1, x2) /\ From(x1, V[0]) /\ From(x2, V[0])
          /\ Routed(x1, rng2[np + 1], rng, np) /\ Routed(x2, rng2[np], rng, np)
    BY <1>6 DEF Parted
  <2> QED  BY <1>9, <2>1
<1>14. x1.pageType = V[0].pageType /\ x2.pageType = V[0].pageType
  BY DEF Parted
<1>15. ASSUME NEW a \in 0 .. (np + 2) - 1, V2[a].pageType = "i"
       PROVE  Routed(V2[a], rng2[a], rng2, np + 2)
  <2>1. CASE a = np + 1 \/ a = np
    BY <1>3, <1>13, <1>14, <1>15, <2>1
  <2>2. CASE a = 0
    BY <1>3, <1>12, <2>2
  <2>3. CASE a # 0 /\ a \in 0 .. np - 1
    <3>1. Routed(V[a], rng[a], rng, np)
      BY <1>3, <1>8, <1>15, <2>3
    <3> QED  BY <1>3, <1>7, <1>9, <2>3, <3>1
  <2> QED  BY <1>1, <2>1, <2>2, <2>3
<1> DEFINE src(a) == IF a = np \/ a = np + 1 THEN 0 ELSE a
<1>16. ASSUME NEW a \in 0 .. (np + 2) - 1, V2[a].pageType = "i", a # 0, NEW i \in 1 .. Len(V2[a].child)
       PROVE  /\ src(a) \in 0 .. np - 1 /\ V[src(a)].pageType = "i"
              /\ V2[a].child[i] # np /\ V2[a].child[i] # np + 1
              /\ \E k \in 1 .. Len(V[src(a)].child) : V2[a].child[i] = V[src(a)].child[k]
  <2>1. src(a) \in 0 .. np - 1 /\ V[src(a)].pageType = "i"
        /\ \E k \in 1 .. Len(V[src(a)].child) : V2[a].child[i] = V[src(a)].child[k]
    <3>1. CASE a = np
      BY <1>1, <1>3, <1>13, <1>14, <1>16, <3>1, SMTT(40) DEF From
    <3>2. CASE a = np + 1
      BY <1>1, <1>3, <1>13, <1>14, <1>16, <3>2 DEF From
    <3>3. CASE a \in 0 .. np - 1
      BY <1>1, <1>3, <1>16, <3>3
    <3> QED  BY <1>1, <1>16, <3>1, <3>2, <3>3
  <2>2. PICK x : x = V[src(a)]
    OBVIOUS
  <2>3. Routed(x, rng[src(a)], rng, np)
    BY <1>8, <2>1, <2>2
  <2>4. \A k \in 1 .. Len(x.child) : x.child[k] \in 1 .. np - 1
    BY <2>3 DEF Routed
  <2>5. \A c \in 1 .. np - 1 : c # np /\ c # np + 1
    OBVIOUS
  <2>6. \E k \in 1 .. Len(x.child) : V2[a].child[i] = x.child[k]
    BY <2>1, <2>2
  <2>7. V2[a].child[i] # np /\ V2[a].child[i] # np + 1
    BY <2>4, <2>5, <2>6
  <2> QED  BY <2>1, <2>7
<1>17. \A i \in 1 .. Len(y.child) : y.child[i] = np + 1 \/ y.child[i] = np
  <2>1. \A i \in 1 .. Len(y.child) : i = 1 \/ i = 2
    BY <1>11
  <2> QED  BY <1>11, <2>1
<1>18. ASSUME NEW a \in 0 .. (np + 2) - 1, NEW b \in 0 .. (np + 2) - 1, a # b,
              V2[a].pageType = "i", V2[b].pageType = "i",
              NEW i \in 1 .. Len(V2[a].child), NEW j \in 1 .. Len(V2[b].child)
       PROVE  V2[a].child[i] # V2[b].child[j]
  <2>1. CASE a = 0
    <3>1. V2[b].child[j] # np /\ V2[b].child[j] # np + 1
      BY <1>16, <1>18, <2>1, ZenonT(60)
    <3> QED  BY <1>3, <1>17, <2>1, <3>1, SMTT(40)
  <2>2. CASE b = 0
    <3>1. V2[a].child[i] # np /\ V2[a].child[i] # np + 1
      BY <1>16, <1>18, <2>2, ZenonT(60)
    <3> QED  BY <1>3, <1>17, <2>2, <3>1, ZenonT(60)
  <2>3. CASE a # 0 /\ b # 0
    <3>1. /\ src(a) \in 0 .. np - 1 /\ V[src(a)].pageType = "i"
          /\ \E k \in 1 .. Len(V[src(a)].child) : V2[a].child[i] = V[src(a)].child[k]
      BY <1>16, <1>18, <2>3
    <3>2. /\ src(b) \in 0 .. np - 1 /\ V[src(b)].pageType = "i"
          /\ \E k \in 1 .. Len(V[src(b)].child) : V2[b].child[j] = V[src(b)].child[k]
      BY <1>16, <1>18, <2>3
    <3>3. CASE src(a) # src(b)
      <4>1. Apart(V[src(a)], V[src(b)])
        BY <1>8, <3>1, <3>2, <3>3
      <4> HIDE DEF src
      <4> QED  BY <3>1, <3>2, <4>1 DEF Apart
    <3>4. CASE src(a) = src(b)
      <4>1. (a = np /\ b = np + 1) \/ (a = np + 1 /\ b = np)
        BY <1>18, <2>3, <3>4
      <4>2. V[0].pageType = "i"
        BY <3>1, <3>2, <4>1
      <4> QED  BY <1>3, <1>13, <4>1, <4>2, ZenonT(60) DEF Apart
    <3> QED  BY <3>3, <3>4
  <2> QED  BY <2>1, <2>2, <2>3
<1>19. \A a, b \in 0 .. (np + 2) - 1 :
         a # b /\ V2[a].pageType = "i" /\ V2[b].pageType = "i" => Apart(V2[a], V2[b])
  BY <1>18, ZenonT(60) DEF Apart
<1>20. rng2[0] = Value /\ V2[0].pageType # "l"
  BY <1>1, <1>3, <1>5, <1>7, <1>11
<1>21. Routes(V2, np + 2, rng2)
  BY <1>6, <1>15, <1>19, <1>20 DEF Routes
<1> QED  BY <1>4, <1>21

-----------------------------------------------------------------------------
(* The chain in order after a step. *)

(* The entries change for values of R only. *)
Changed(A, A2, R) ==
    /\ A2 \in [Value -> Seq(RecId)] /\ \A w \in Value : Len(A2[w]) <= MaxPerKey
    /\ \A w \in Value : w \notin R => A2[w] = A[w]

(* x has for the values of R what A says. *)
Stores(x, R, A) == \A w \in Value : RecordsIn(x, w) = IF w \in R THEN A[w] ELSE << >>

(* Page p is at i in the chain and nowhere else, nor is any of its values. *)
IsAt(L, rng, p, i) ==
    /\ i \in 1 .. Len(L) /\ L[i] = p
    /\ \A j \in 1 .. Len(L) : j # i => L[j] # p /\ \A v \in rng[L[j]] : v \notin rng[p]

LEMMA LeafIsAt ==
  ASSUME NEW pg, NEW np, NEW L, NEW rng, NEW A, Order(pg, np, L, rng, A),
         NEW p \in 0 .. np - 1, pg[p].pageType = "l"
  PROVE  \E i : IsAt(L, rng, p, i)
<1>1. L \in Seq(PageNum) /\ \E i \in 1 .. Len(L) : L[i] = p
  BY DEF Order, Linking
<1>2. PICK i \in 1 .. Len(L) : L[i] = p
  BY <1>1
<1>3. /\ \A j \in 1 .. Len(L) : rng[L[j]] \in SUBSET Value
      /\ \A j, k \in 1 .. Len(L) : j < k => L[j] # L[k] /\ \A v \in rng[L[j]], w \in rng[L[k]] : v < w
  <2>1. \A j \in 1 .. Len(L) : L[j] \in PageNum
    BY <1>1
  <2>2. rng \in [PageNum -> SUBSET Value]
    BY DEF Order, Sorted
  <2>3. \A j, k \in 1 .. Len(L) : j < k => L[j] # L[k] /\ \A v \in rng[L[j]], w \in rng[L[k]] : v < w
    BY DEF Order, Sorted
  <2> QED  BY <2>1, <2>2, <2>3
<1>4. \A v \in Value : ~(v < v)
  <2>1. \A v \in Int : ~(v < v)
    OBVIOUS
  <2> QED  BY <2>1, AMLeafAssumption
<1>5. \A j, k \in 1 .. Len(L) : j # k => j < k \/ k < j
  BY <1>1
<1>6. ASSUME NEW j \in 1 .. Len(L), j # i
      PROVE  L[j] # p /\ \A v \in rng[L[j]] : v \notin rng[p]
  <2>1. L[j] # L[i]
    BY <1>3, <1>5, <1>6
  <2>2. ASSUME NEW v, v \in rng[L[j]], v \in rng[L[i]]
        PROVE  FALSE
    <3>1. v \in Value
      BY <1>3, <2>2
    <3>2. v < v
      BY <1>3, <1>5, <1>6, <2>2
    <3> QED  BY <1>4, <3>1, <3>2
  <2> QED  BY <1>2, <2>1, <2>2
<1> QED  BY <1>2, <1>6 DEF IsAt

(* One leaf is written, which stays where it is in the chain. *)
LEMMA OrderWritten ==
  ASSUME NEW pg, NEW np \in 0 .. MaxPages, NEW L, NEW rng, NEW A, Order(pg, np, L, rng, A), DOMAIN pg = PageNum,
         NEW p \in 0 .. np - 1, pg[p].pageType = "l",
         NEW x, x.pageType = "l", x.nextLeafPage = pg[p].nextLeafPage,
         NEW A2, Changed(A, A2, rng[p]), Stores(x, rng[p], A2),
         NEW pg2, pg2 = [pg EXCEPT ![p] = x]
  PROVE  Order(pg2, np, L, rng, A2)
<1>1. PICK i : IsAt(L, rng, p, i)
  BY LeafIsAt
<1>2. L \in Seq(PageNum) /\ \A j \in 1 .. Len(L) : L[j] \in PageNum /\ L[j] \in 0 .. np - 1
  BY DEF Order, Linking
<1>3. /\ p \in PageNum /\ pg2[p] = x /\ \A q \in PageNum : q # p => pg2[q] = pg[q]
      /\ 0 \in PageNum /\ \A q \in 0 .. np - 1 : q \in PageNum
  <2>1. p \in PageNum
    BY <1>1, <1>2 DEF IsAt
  <2>2. 0 \in PageNum /\ \A q \in 0 .. np - 1 : q \in PageNum
    BY Constants DEF PageNum
  <2> QED  BY <2>1, <2>2
<1>4. /\ \A j \in 1 .. Len(L) : pg2[L[j]].pageType = pg[L[j]].pageType
                              /\ pg2[L[j]].nextLeafPage = pg[L[j]].nextLeafPage
      /\ pg2[0].pageType = pg[0].pageType
      /\ \A q \in 0 .. np - 1 : pg2[q].pageType = pg[q].pageType
  <2>1. \A q \in PageNum : pg2[q].pageType = pg[q].pageType /\ pg2[q].nextLeafPage = pg[q].nextLeafPage
    BY <1>3
  <2> QED  BY <1>2, <1>3, <2>1
<1>5. Linking(pg2, np, L)
  <2>1. /\ Len(L) \in 1 .. np
        /\ L[1] = IF pg[0].pageType = "l" THEN 0 ELSE 2
        /\ \A j \in 1 .. Len(L) :
             /\ L[j] \in 0 .. np - 1 /\ pg[L[j]].pageType = "l"
             /\ pg[L[j]].nextLeafPage = IF j = Len(L) THEN AM_NULL_PAGE ELSE L[j + 1]
        /\ \A q \in 0 .. np - 1 : pg[q].pageType = "l" => \E j \in 1 .. Len(L) : L[j] = q
    BY DEF Order, Linking
  <2> QED  BY <1>2, <1>4, <2>1 DEF Linking
<1>6. ASSUME NEW j \in 1 .. Len(L), NEW w \in Value
      PROVE  RecordsIn(pg2[L[j]], w) = IF w \in rng[L[j]] THEN A2[w] ELSE << >>
  <2>1. CASE j = i
    BY <1>1, <1>3, <2>1 DEF IsAt, Stores
  <2>2. CASE j # i
    <3>1. L[j] # p /\ (w \in rng[L[j]] => w \notin rng[p])
      BY <1>1, <2>2 DEF IsAt
    <3>2. w \in rng[L[j]] => A2[w] = A[w]
      BY <3>1 DEF Changed
    <3>3. RecordsIn(pg[L[j]], w) = IF w \in rng[L[j]] THEN A[w] ELSE << >>
      BY DEF Order, Holding
    <3>4. pg2[L[j]] = pg[L[j]]
      BY <1>2, <1>3, <3>1
    <3> QED  BY <3>2, <3>3, <3>4
  <2> QED  BY <2>1, <2>2
<1>7. Holding(pg2, L, rng, A2)
  BY <1>6 DEF Holding, Changed
<1> QED  BY <1>5, <1>7 DEF Order

(* Inner pages change and are added; the leaves keep their contents and ranges. *)
LEMMA OrderKept ==
  ASSUME NEW pg, NEW np \in Nat, NEW L, NEW rng, NEW A, Order(pg, np, L, rng, A),
         NEW np2 \in Nat, np <= np2, NEW pg2, pg2[0].pageType = pg[0].pageType,
         \A q \in 0 .. np2 - 1 : pg2[q].pageType = "l" => q \in 0 .. np - 1 /\ pg[q].pageType = "l",
         \A q \in 0 .. np - 1 : pg[q].pageType = "l" => pg2[q] = pg[q],
         NEW rng2 \in [PageNum -> SUBSET Value],
         \A q \in 0 .. np - 1 : pg[q].pageType = "l" => rng2[q] = rng[q]
  PROVE  Order(pg2, np2, L, rng2, A)
<1>1. /\ L \in Seq(PageNum) /\ Len(L) \in 1 .. np
      /\ L[1] = IF pg[0].pageType = "l" THEN 0 ELSE 2
      /\ \A j \in 1 .. Len(L) :
           /\ L[j] \in 0 .. np - 1 /\ pg[L[j]].pageType = "l"
           /\ pg[L[j]].nextLeafPage = IF j = Len(L) THEN AM_NULL_PAGE ELSE L[j + 1]
      /\ \A q \in 0 .. np - 1 : pg[q].pageType = "l" => \E j \in 1 .. Len(L) : L[j] = q
  BY DEF Order, Linking
<1>2. \A j \in 1 .. Len(L) : pg2[L[j]] = pg[L[j]] /\ rng2[L[j]] = rng[L[j]]
  BY <1>1
<1>3. Len(L) \in 1 .. np2 /\ \A q \in 0 .. np - 1 : q \in 0 .. np2 - 1
  BY <1>1
<1>4. Linking(pg2, np2, L)
  BY <1>1, <1>2, <1>3, ZenonT(60) DEF Linking
<1>5. Sorted(L, rng2)
  BY <1>2, ZenonT(60) DEF Order, Sorted
<1>6. Holding(pg2, L, rng2, A)
  BY <1>2, ZenonT(60) DEF Order, Holding
<1> QED  BY <1>4, <1>5, <1>6 DEF Order

(* The leaf x with range R in two leaves, the second the next of the first, *)
(* which is page q.  Together they have for R what A says.                  *)
LeafParted(x, R, A, x1, x2, q, key) ==
    /\ Parts(R, key)
    /\ x1.pageType = "l" /\ x1.nextLeafPage = q /\ Stores(x1, {w \in R : w < key}, A)
    /\ x2.pageType = "l" /\ x2.nextLeafPage = x.nextLeafPage /\ Stores(x2, {w \in R : key <= w}, A)

(* The chain with page q after its member i. *)
Lengthened(L, i, q, L2) ==
    /\ L2 \in Seq(PageNum) /\ Len(L2) = Len(L) + 1
    /\ \A j \in 1 .. Len(L) + 1 : L2[j] = IF j <= i THEN L[j] ELSE IF j = i + 1 THEN q ELSE L[j - 1]

LEMMA Lengthen ==
  ASSUME NEW L \in Seq(PageNum), NEW i \in 1 .. Len(L), NEW q \in PageNum
  PROVE  \E L2 : Lengthened(L, i, q, L2)
<1>1. i + 1 \in 1 .. Len(L) + 1 /\ Len(L) \in Nat
  OBVIOUS
<1>2. PICK k \in 1 .. Len(L) + 1 : k = i + 1
  BY <1>1
<1>3. PICK u : u = InsertAt(L, k, q)
  OBVIOUS
<1>4. /\ u \in Seq(PageNum) /\ Len(u) = Len(L) + 1
      /\ \A j \in 1 .. Len(u) : u[j] = IF j < k THEN L[j] ELSE IF j = k THEN q ELSE L[j - 1]
  BY <1>3, InsertAtIs
<1>5. \A j \in 1 .. Len(L) + 1 : (j < k <=> j <= i)
  BY <1>1, <1>2
<1>6. \A j \in 1 .. Len(L) + 1 : u[j] = IF j <= i THEN L[j] ELSE IF j = i + 1 THEN q ELSE L[j - 1]
  BY <1>2, <1>4, <1>5
<1>7. Len(u) = Len(L) + 1 /\ Lengthened(L, i, q, u)
  BY <1>4, <1>6 DEF Lengthened
<1> QED  BY <1>7

(* The leaf of page p is split, and the second half gets page np. *)
LEMMA LinkingDivided ==
  ASSUME NEW pg, NEW np \in Nat, np \in PageNum, NEW L, Linking(pg, np, L), DOMAIN pg = PageNum,
         NEW p \in 0 .. np - 1, pg[p].pageType = "l",
         NEW i \in 1 .. Len(L), L[i] = p, \A j \in 1 .. Len(L) : j # i => L[j] # p,
         NEW L2, Lengthened(L, i, np, L2),
         NEW x1, x1.pageType = "l", x1.nextLeafPage = np,
         NEW x2, x2.pageType = "l", x2.nextLeafPage = pg[p].nextLeafPage,
         NEW pg2, pg2 = [pg EXCEPT ![p] = x1, ![np] = x2]
  PROVE  Linking(pg2, np + 1, L2)
<1>1. PICK n \in Nat : n = Len(L) /\ n >= 1 /\ n <= np
  BY DEF Linking
<1>2. /\ L2 \in Seq(PageNum) /\ Len(L2) = n + 1
      /\ \A j \in 1 .. n + 1 : L2[j] = IF j <= i THEN L[j] ELSE IF j = i + 1 THEN np ELSE L[j - 1]
  BY <1>1 DEF Lengthened
<1>3. /\ \A j \in 1 .. n : /\ L[j] \in 0 .. np - 1 /\ pg[L[j]].pageType = "l"
                           /\ pg[L[j]].nextLeafPage = IF j = n THEN AM_NULL_PAGE ELSE L[j + 1]
      /\ \A q \in 0 .. np - 1 : pg[q].pageType = "l" => \E j \in 1 .. n : L[j] = q
      /\ L[1] = IF pg[0].pageType = "l" THEN 0 ELSE 2
      /\ \A j \in 1 .. n : L[j] \in PageNum
  BY <1>1 DEF Linking
<1>4. /\ p \in PageNum /\ p # np /\ pg2[p] = x1 /\ pg2[np] = x2
      /\ \A q \in PageNum : q # p /\ q # np => pg2[q] = pg[q]
  <2>1. p \in PageNum /\ p # np
    BY Constants DEF PageNum
  <2>2. pg2[p] = x1 /\ pg2[np] = x2
    BY <2>1
  <2>3. \A q \in PageNum : q # p /\ q # np => pg2[q] = pg[q]
    BY <2>1
  <2> QED  BY <2>1, <2>2, <2>3
<1>5. i \in 1 .. n /\ i \in 1 .. n + 1 /\ i + 1 \in 1 .. n + 1 /\ 1 <= i
  BY <1>1
<1>6. \A j \in 1 .. n : j # i => L[j] # p /\ L[j] # np /\ pg2[L[j]] = pg[L[j]]
  <2>1. \A j \in 1 .. n : L[j] # np
    BY <1>3
  <2> QED  BY <1>1, <1>3, <1>4, <2>1
<1>7. Len(L2) \in 1 .. np + 1
  BY <1>1, <1>2
<1>8. L2[1] = IF pg2[0].pageType = "l" THEN 0 ELSE 2
  <2>1. L2[1] = L[1]
    BY <1>1, <1>2, <1>5
  <2>2. pg2[0].pageType = pg[0].pageType
    <3>1. CASE p = 0
      BY <1>4, <3>1
    <3>2. CASE p # 0
      <4>1. 0 # np /\ 0 \in PageNum
        BY Constants
      <4> QED  BY <1>4, <3>2, <4>1
    <3> QED  BY <3>1, <3>2
  <2> QED  BY <1>3, <2>1, <2>2
<1>9. ASSUME NEW j \in 1 .. n + 1
      PROVE  /\ L2[j] \in 0 .. (np + 1) - 1 /\ pg2[L2[j]].pageType = "l"
             /\ pg2[L2[j]].nextLeafPage = IF j = n + 1 THEN AM_NULL_PAGE ELSE L2[j + 1]
  <2>1. \A q \in 0 .. np - 1 : q \in 0 .. (np + 1) - 1
    OBVIOUS
  <2>2. CASE j < i
    <3>1. j \in 1 .. n /\ j # i /\ j # n /\ j # n + 1 /\ j <= i /\ j + 1 <= i /\ j + 1 \in 1 .. n + 1
      BY <1>5, <2>2
    <3>2. L2[j] = L[j] /\ L2[j + 1] = L[j + 1] /\ pg2[L[j]] = pg[L[j]]
      BY <1>2, <1>6, <3>1
    <3> QED  BY <1>3, <2>1, <3>1, <3>2, SMTT(40)
  <2>3. CASE j = i
    <3>1. j # n + 1 /\ j + 1 = i + 1 /\ ~(i + 1 <= i)
      BY <1>5, <2>3
    <3>2. L2[j] = p /\ L2[j + 1] = np
      BY <1>2, <1>5, <2>3, <3>1
    <3> QED  BY <1>4, <2>1, <3>1, <3>2
  <2>4. CASE j = i + 1
    <3>1. ~(j <= i) /\ (j = n + 1 <=> i = n)
      BY <1>5, <2>4
    <3>2. L2[j] = np
      BY <1>2, <2>4, <3>1
    <3>3. i # n => L2[j + 1] = L[i + 1]
      <4>1. i # n => j + 1 \in 1 .. n + 1 /\ ~(j + 1 <= i) /\ j + 1 # i + 1 /\ (j + 1) - 1 = i + 1
        BY <1>5, <2>4
      <4> QED  BY <1>2, <4>1
    <3>4. pg[p].nextLeafPage = IF i = n THEN AM_NULL_PAGE ELSE L[i + 1]
      BY <1>3, <1>5
    <3>5. np \in 0 .. (np + 1) - 1
      OBVIOUS
    <3> QED  BY <1>4, <3>1, <3>2, <3>3, <3>4, <3>5
  <2>5. CASE j > i + 1
    <3>1. /\ j - 1 \in 1 .. n /\ j - 1 # i /\ ~(j <= i) /\ j # i + 1 /\ (j = n + 1 <=> j - 1 = n)
          /\ (j - 1) + 1 = j
      BY <1>5, <2>5
    <3>2. L2[j] = L[j - 1] /\ pg2[L[j - 1]] = pg[L[j - 1]]
      BY <1>2, <1>6, <3>1
    <3>3. j # n + 1 => L2[j + 1] = L[j]
      <4>1. j # n + 1 => j + 1 \in 1 .. n + 1 /\ ~(j + 1 <= i) /\ j + 1 # i + 1 /\ (j + 1) - 1 = j
        BY <1>5, <2>5
      <4> QED  BY <1>2, <4>1
    <3>4. /\ L[j - 1] \in 0 .. np - 1 /\ pg[L[j - 1]].pageType = "l"
          /\ pg[L[j - 1]].nextLeafPage = IF j - 1 = n THEN AM_NULL_PAGE ELSE L[j]
      BY <1>3, <3>1
    <3> QED  BY <2>1, <3>1, <3>2, <3>3, <3>4
  <2> QED  BY <1>5, <2>2, <2>3, <2>4, <2>5
<1>10. ASSUME NEW q \in 0 .. (np + 1) - 1, pg2[q].pageType = "l"
       PROVE  \E j \in 1 .. n + 1 : L2[j] = q
  <2>1. CASE q = np
    <3>1. L2[i + 1] = np
      <4>1. ~(i + 1 <= i)
        OBVIOUS
      <4> QED  BY <1>2, <1>5, <4>1
    <3> QED  BY <1>5, <2>1, <3>1
  <2>2. CASE q # np
    <3>1. q \in 0 .. np - 1 /\ pg[q].pageType = "l"
      <4>1. q \in 0 .. np - 1
        BY <2>2
      <4>2. q \in PageNum
        BY <4>1, Constants DEF PageNum
      <4> QED  BY <1>4, <1>10, <2>2, <4>1, <4>2
    <3>2. PICK j \in 1 .. n : L[j] = q
      BY <1>3, <3>1
    <3>3. CASE j <= i
      <4>1. j \in 1 .. n + 1
        OBVIOUS
      <4> QED  BY <1>2, <3>2, <3>3, <4>1
    <3>4. CASE j > i
      <4>1. j + 1 \in 1 .. n + 1 /\ ~(j + 1 <= i) /\ j + 1 # i + 1 /\ (j + 1) - 1 = j
        BY <1>5, <3>4
      <4> QED  BY <1>2, <3>2, <4>1
    <3> QED  BY <1>5, <3>3, <3>4
  <2> QED  BY <2>1, <2>2
<1>11. \A j \in 1 .. Len(L2) :
         /\ L2[j] \in 0 .. (np + 1) - 1 /\ pg2[L2[j]].pageType = "l"
         /\ pg2[L2[j]].nextLeafPage = IF j = Len(L2) THEN AM_NULL_PAGE ELSE L2[j + 1]
  BY <1>2, <1>9, ZenonT(60)
<1>12. \A q \in 0 .. (np + 1) - 1 : pg2[q].pageType = "l" => \E j \in 1 .. Len(L2) : L2[j] = q
  BY <1>2, <1>10
<1> QED  BY <1>2, <1>7, <1>8, <1>11, <1>12 DEF Linking

(* The ranges of the leaves, with that of page p shared by members i and i + 1. *)
InTwo(L2, rng, rng2, p, i, key) ==
    \A j \in 1 .. Len(L2) : rng2[L2[j]] = IF j = i THEN {w \in rng[p] : w < key}
                                         ELSE IF j = i + 1 THEN {w \in rng[p] : key <= w}
                                         ELSE rng[L2[j]]

LEMMA SortedDivided ==
  ASSUME NEW L \in Seq(PageNum), NEW rng, Sorted(L, rng), NEW np \in PageNum,
         \A j \in 1 .. Len(L) : L[j] # np, NEW p, NEW i, IsAt(L, rng, p, i),
         NEW L2, Lengthened(L, i, np, L2), NEW key, Parts(rng[p], key),
         NEW rng2, IsDivided(rng2, rng, p, p, np, key)
  PROVE  Sorted(L2, rng2) /\ InTwo(L2, rng, rng2, p, i, key)
<1>1. PICK n \in Nat : n = Len(L)
  OBVIOUS
<1>2. /\ L2 \in Seq(PageNum) /\ Len(L2) = n + 1
      /\ \A j \in 1 .. n + 1 : L2[j] = IF j <= i THEN L[j] ELSE IF j = i + 1 THEN np ELSE L[j - 1]
  BY <1>1 DEF Lengthened
<1>3. /\ i \in 1 .. n /\ L[i] = p
      /\ \A j \in 1 .. n : j # i => L[j] # p /\ \A v \in rng[L[j]] : v \notin rng[p]
  BY <1>1 DEF IsAt
<1>4. /\ rng \in [PageNum -> SUBSET Value]
      /\ \A j, k \in 1 .. n : j < k => L[j] # L[k] /\ \A v \in rng[L[j]], w \in rng[L[k]] : v < w
      /\ \A v \in Value : \E j \in 1 .. n : v \in rng[L[j]]
  BY <1>1 DEF Sorted
<1>5. /\ rng2 \in [PageNum -> SUBSET Value]
      /\ rng2[p] = {w \in rng[p] : w < key} /\ rng2[np] = {w \in rng[p] : key <= w}
      /\ \A q \in PageNum : q # p /\ q # np => rng2[q] = rng[q]
  BY DEF IsDivided
<1>6. \A j \in 1 .. n : L[j] \in PageNum /\ L[j] # np /\ (j # i => L[j] # p /\ rng2[L[j]] = rng[L[j]])
  BY <1>1, <1>3, <1>5
<1>7. p \in PageNum /\ p # np /\ rng[p] \in SUBSET Value
  BY <1>3, <1>4, <1>6
<1>8. \A v \in Value : v \in Int
  BY AMLeafAssumption
<1>9. key \in rng[p] /\ key \in Int
  BY <1>7, <1>8 DEF Parts
<1> DEFINE old(j) == IF j <= i THEN j ELSE j - 1
<1>10. ASSUME NEW j \in 1 .. n + 1
       PROVE  /\ old(j) \in 1 .. n
              /\ j # i + 1 => L2[j] = L[old(j)]
              /\ j # i /\ j # i + 1 => old(j) # i
  <2>1. old(j) \in 1 .. n /\ (j # i /\ j # i + 1 => old(j) # i)
    BY <1>3
  <2>2. j # i + 1 => L2[j] = L[old(j)]
    BY <1>2
  <2> QED  BY <2>1, <2>2
<1>11. L2[i] = p /\ L2[i + 1] = np /\ i \in 1 .. n + 1 /\ i + 1 \in 1 .. n + 1 /\ i # i + 1
  <2>1. i \in 1 .. n + 1 /\ i + 1 \in 1 .. n + 1 /\ i # i + 1 /\ i <= i /\ ~(i + 1 <= i)
    BY <1>3
  <2> QED  BY <1>2, <1>3, <2>1
<1>12. ASSUME NEW j \in 1 .. n + 1
       PROVE  /\ j = i => rng2[L2[j]] = {w \in rng[p] : w < key}
              /\ j = i + 1 => rng2[L2[j]] = {w \in rng[p] : key <= w}
              /\ j # i /\ j # i + 1 => rng2[L2[j]] = rng[L2[j]] /\ rng2[L2[j]] = rng[L[old(j)]]
  <2> HIDE DEF old
  <2>1. j = i => rng2[L2[j]] = {w \in rng[p] : w < key}
    BY <1>5, <1>11
  <2>2. j = i + 1 => rng2[L2[j]] = {w \in rng[p] : key <= w}
    BY <1>5, <1>11
  <2>3. j # i /\ j # i + 1 => rng2[L2[j]] = rng[L2[j]] /\ rng2[L2[j]] = rng[L[old(j)]]
    BY <1>6, <1>10, SMTT(40)
  <2> QED  BY <2>1, <2>2, <2>3
<1>13. \A j \in 1 .. n + 1 : \A v \in rng2[L2[j]] : v \in rng[L[old(j)]]
  <2> SUFFICES ASSUME NEW j \in 1 .. n + 1, NEW v \in rng2[L2[j]] PROVE v \in rng[L[old(j)]]
    OBVIOUS
  <2>1. old(i) = i /\ old(i + 1) = i
    BY <1>3
  <2> HIDE DEF old
  <2>2. CASE j = i
    BY <1>3, <1>12, <2>1, <2>2
  <2>3. CASE j = i + 1
    BY <1>3, <1>12, <2>1, <2>3
  <2>4. CASE j # i /\ j # i + 1
    BY <1>12, <2>4
  <2> QED  BY <2>2, <2>3, <2>4
<1>14. ASSUME NEW j \in 1 .. n + 1, NEW k \in 1 .. n + 1, j < k
       PROVE  L2[j] # L2[k] /\ \A v \in rng2[L2[j]], w \in rng2[L2[k]] : v < w
  <2>1. CASE j = i /\ k = i + 1
    <3>1. L2[j] # L2[k]
      BY <1>7, <1>11, <2>1
    <3>2. \A v \in rng[p], w \in rng[p] : v < key /\ key <= w => v < w
      <4>1. \A v \in rng[p] : v \in Int
        BY <1>7, <1>8
      <4> QED  BY <1>9, <4>1
    <3>3. rng2[L2[j]] = {w \in rng[p] : w < key} /\ rng2[L2[k]] = {w \in rng[p] : key <= w}
      BY <1>12, <2>1
    <3> QED  BY <3>1, <3>2, <3>3
  <2>2. CASE ~(j = i /\ k = i + 1)
    <3>1. old(j) < old(k)
      BY <1>3, <1>14, <2>2
    <3> HIDE DEF old
    <3>2. /\ old(j) \in 1 .. n /\ old(k) \in 1 .. n
          /\ L[old(j)] # L[old(k)] /\ \A v \in rng[L[old(j)]], w \in rng[L[old(k)]] : v < w
      BY <1>4, <1>10, <3>1
    <3>3. \A v \in rng2[L2[j]], w \in rng2[L2[k]] : v < w
      BY <1>13, <3>2
    <3>4. L2[j] # L2[k]
      <4>1. j = i + 1 => k # i + 1
        BY <1>14
      <4>2. CASE j = i + 1
        BY <1>6, <1>10, <1>11, <3>2, <4>1, <4>2
      <4>3. CASE k = i + 1
        <5>1. j # i + 1
          BY <4>1, <4>3
        <5> QED  BY <1>6, <1>10, <1>11, <3>2, <4>3, <5>1
      <4>4. CASE j # i + 1 /\ k # i + 1
        BY <1>10, <3>2, <4>4
      <4> QED  BY <4>2, <4>3, <4>4
    <3> QED  BY <3>3, <3>4
  <2> QED  BY <2>1, <2>2
<1>15. ASSUME NEW v \in Value
       PROVE  \E j \in 1 .. n + 1 : v \in rng2[L2[j]]
  <2>1. PICK k \in 1 .. n : v \in rng[L[k]]
    BY <1>4
  <2>2. CASE k = i
    <3>1. v < key \/ key <= v
      BY <1>8, <1>9
    <3>2. v \in rng[p]
      BY <1>3, <2>1, <2>2
    <3> QED  BY <1>11, <1>12, <3>1, <3>2
  <2>3. CASE k < i
    <3>1. k \in 1 .. n + 1 /\ k # i /\ k # i + 1 /\ old(k) = k
      BY <1>3, <2>3
    <3> HIDE DEF old
    <3> QED  BY <1>12, <2>1, <3>1
  <2>4. CASE k > i
    <3>1. k + 1 \in 1 .. n + 1 /\ k + 1 # i /\ k + 1 # i + 1 /\ old(k + 1) = k
      BY <1>3, <2>4
    <3> HIDE DEF old
    <3> QED  BY <1>12, <2>1, <3>1
  <2> QED  BY <1>3, <2>2, <2>3, <2>4
<1>16. Sorted(L2, rng2)
  BY <1>2, <1>5, <1>14, <1>15 DEF Sorted
<1>17. InTwo(L2, rng, rng2, p, i, key)
  BY <1>2, <1>12 DEF InTwo
<1> QED  BY <1>16, <1>17

(* L2 and rng2 are the chain L with the range of its member i in two. *)
Grown(L, rng, np, p, i, L2, rng2, key) ==
    /\ L \in Seq(PageNum) /\ np \in PageNum /\ \A j \in 1 .. Len(L) : L[j] # np
    /\ IsAt(L, rng, p, i) /\ Lengthened(L, i, np, L2) /\ InTwo(L2, rng, rng2, p, i, key)

(* Pages p and np are written, and no other. *)
Written(pg, pg2, p, np, x1, x2) ==
    pg2[p] = x1 /\ pg2[np] = x2 /\ \A q \in PageNum : q # p /\ q # np => pg2[q] = pg[q]

LEMMA HoldingDivided ==
  ASSUME NEW pg, NEW L, NEW rng, NEW A, Holding(pg, L, rng, A),
         NEW np \in Nat, NEW p \in 0 .. np - 1, NEW i, NEW L2, NEW rng2, NEW key,
         Grown(L, rng, np, p, i, L2, rng2, key), NEW A2, Changed(A, A2, rng[p]),
         NEW x1, NEW x2, LeafParted(pg[p], rng[p], A2, x1, x2, np, key),
         NEW pg2, Written(pg, pg2, p, np, x1, x2)
  PROVE  Holding(pg2, L2, rng2, A2)
<1>1. PICK n \in Nat : n = Len(L)
  BY DEF Grown
<1>2. /\ Len(L2) = n + 1
      /\ \A j \in 1 .. n + 1 : L2[j] = IF j <= i THEN L[j] ELSE IF j = i + 1 THEN np ELSE L[j - 1]
  BY <1>1 DEF Grown, Lengthened
<1>3. /\ i \in 1 .. n /\ L[i] = p
      /\ \A j \in 1 .. n : j # i => L[j] # p /\ \A v \in rng[L[j]] : v \notin rng[p]
  BY <1>1 DEF Grown, IsAt
<1>4. p \in PageNum /\ p # np /\ \A j \in 1 .. n : L[j] \in PageNum /\ L[j] # np
  BY <1>1, <1>3 DEF Grown
<1>5. pg2[p] = x1 /\ pg2[np] = x2 /\ \A j \in 1 .. n : j # i => pg2[L[j]] = pg[L[j]]
  BY <1>3, <1>4 DEF Written
<1>6. \A j \in 1 .. n + 1 : rng2[L2[j]] = IF j = i THEN {w \in rng[p] : w < key}
                                          ELSE IF j = i + 1 THEN {w \in rng[p] : key <= w}
                                          ELSE rng[L2[j]]
  BY <1>2 DEF Grown, InTwo
<1>7. L2[i] = p /\ L2[i + 1] = np /\ i \in 1 .. n + 1 /\ i + 1 \in 1 .. n + 1 /\ i # i + 1
  <2>1. i \in 1 .. n + 1 /\ i + 1 \in 1 .. n + 1 /\ i # i + 1 /\ i <= i /\ ~(i + 1 <= i)
    BY <1>3
  <2> QED  BY <1>2, <1>3, <2>1
<1>8. ASSUME NEW j \in 1 .. n, j # i, NEW w \in Value
      PROVE  RecordsIn(pg2[L[j]], w) = IF w \in rng[L[j]] THEN A2[w] ELSE << >>
  <2>1. RecordsIn(pg[L[j]], w) = IF w \in rng[L[j]] THEN A[w] ELSE << >>
    BY <1>1 DEF Holding
  <2>2. w \in rng[L[j]] => A2[w] = A[w]
    BY <1>3, <1>8 DEF Changed
  <2> QED  BY <1>5, <1>8, <2>1, <2>2
<1>9. ASSUME NEW j \in 1 .. n + 1, NEW w \in Value
      PROVE  RecordsIn(pg2[L2[j]], w) = IF w \in rng2[L2[j]] THEN A2[w] ELSE << >>
  <2>1. CASE j = i
    BY <1>5, <1>6, <1>7, <2>1 DEF LeafParted, Stores
  <2>2. CASE j = i + 1
    BY <1>5, <1>6, <1>7, <2>2, ZenonT(60) DEF LeafParted, Stores
  <2>3. CASE j # i /\ j # i + 1
    <3>1. j < i => j \in 1 .. n /\ j <= i
      BY <1>3
    <3>2. ~(j < i) => j - 1 \in 1 .. n /\ j - 1 # i /\ ~(j <= i)
      BY <1>3, <2>3
    <3>3. PICK k \in 1 .. n : L2[j] = L[k] /\ k # i
      BY <1>2, <2>3, <3>1, <3>2
    <3> QED  BY <1>6, <1>8, <2>3, <3>3, ZenonT(60)
  <2> QED  BY <2>1, <2>2, <2>3
<1>10. \A j \in 1 .. Len(L2) : \A w \in Value :
         RecordsIn(pg2[L2[j]], w) = IF w \in rng2[L2[j]] THEN A2[w] ELSE << >>
  BY <1>2, <1>9
<1> QED  BY <1>10 DEF Holding, Changed

LEMMA OrderDivided ==
  ASSUME NEW pg, NEW np \in Nat, np \in PageNum, NEW L, NEW rng, NEW A, Order(pg, np, L, rng, A),
         DOMAIN pg = PageNum, NEW p \in 0 .. np - 1, pg[p].pageType = "l",
         NEW x1, NEW x2, NEW key, NEW A2, Changed(A, A2, rng[p]),
         LeafParted(pg[p], rng[p], A2, x1, x2, np, key),
         NEW pg2, pg2 = [pg EXCEPT ![p] = x1, ![np] = x2]
  PROVE  \E L2 : Order(pg2, np + 1, L2, Divided(rng, p, p, np, key), A2)
<1>1. PICK i : IsAt(L, rng, p, i)
  BY LeafIsAt
<1>2. i \in 1 .. Len(L) /\ L[i] = p /\ \A j \in 1 .. Len(L) : j # i => L[j] # p
  BY <1>1 DEF IsAt
<1>3. Linking(pg, np, L) /\ Sorted(L, rng) /\ Holding(pg, L, rng, A)
  BY DEF Order
<1>4. L \in Seq(PageNum) /\ \A j \in 1 .. Len(L) : L[j] # np
  BY <1>3 DEF Linking
<1>5. PICK L2 : Lengthened(L, i, np, L2)
  BY <1>2, <1>4, Lengthen
<1>6. /\ Parts(rng[p], key) /\ x1.pageType = "l" /\ x1.nextLeafPage = np
      /\ x2.pageType = "l" /\ x2.nextLeafPage = pg[p].nextLeafPage
      /\ Stores(x1, {w \in rng[p] : w < key}, A2) /\ Stores(x2, {w \in rng[p] : key <= w}, A2)
  BY DEF LeafParted
<1>7. Linking(pg2, np + 1, L2)
  BY <1>2, <1>3, <1>5, <1>6, LinkingDivided
<1>8. PICK rng2 : rng2 = Divided(rng, p, p, np, key)
  OBVIOUS
<1>9. IsDivided(rng2, rng, p, p, np, key)
  <2>1. rng \in [PageNum -> SUBSET Value]
    BY <1>3 DEF Sorted
  <2>2. p \in PageNum /\ p # np
    BY <1>2, <1>4
  <2> QED  BY <1>8, <2>1, <2>2, DividedIs
<1>10. Sorted(L2, rng2) /\ InTwo(L2, rng, rng2, p, i, key)
  BY <1>1, <1>3, <1>4, <1>5, <1>6, <1>9, SortedDivided
<1>11. Holding(pg2, L2, rng2, A2)
  <2>1. Grown(L, rng, np, p, i, L2, rng2, key)
    BY <1>1, <1>4, <1>5, <1>10 DEF Grown
  <2>2. Written(pg, pg2, p, np, x1, x2)
    <3>1. p \in PageNum /\ p # np
      BY <1>2, <1>4
    <3> QED  BY <3>1 DEF Written
  <2> QED  BY <1>3, <2>1, <2>2, HoldingDivided
<1>12. Order(pg2, np + 1, L2, rng2, A2)
  BY <1>7, <1>10, <1>11 DEF Order
<1> QED  BY <1>8, <1>12

(* A leaf that is the root is split, and both halves get new pages. *)
LEMMA OrderRoot ==
  ASSUME NEW pg, NEW L, NEW rng, NEW A, Order(pg, 1, L, rng, A), DOMAIN pg = PageNum,
         2 \in PageNum, pg[0].pageType = "l", rng[0] = Value,
         NEW x1, NEW x2, NEW key, NEW A2, Changed(A, A2, Value),
         LeafParted(pg[0], Value, A2, x1, x2, 1, key),
         NEW y, y.pageType = "i", NEW pg2, pg2 = [pg EXCEPT ![2] = x1, ![1] = x2, ![0] = y]
  PROVE  \E L2 : Order(pg2, 3, L2, Divided(rng, 0, 2, 1, key), A2)
<1>1. 0 \in PageNum /\ 1 \in PageNum
  BY Constants DEF PageNum
<1>2. /\ Parts(Value, key) /\ x1.pageType = "l" /\ x1.nextLeafPage = 1
      /\ x2.pageType = "l" /\ x2.nextLeafPage = pg[0].nextLeafPage
      /\ Stores(x1, {w \in Value : w < key}, A2) /\ Stores(x2, {w \in Value : key <= w}, A2)
  BY DEF LeafParted
<1>3. pg2[2] = x1 /\ pg2[1] = x2 /\ pg2[0] = y
  BY <1>1
<1>4. pg[0].nextLeafPage = AM_NULL_PAGE
  <2>1. Len(L) \in 1 .. 1 /\ L[1] = 0 /\ \A i \in 1 .. Len(L) :
          pg[L[i]].nextLeafPage = IF i = Len(L) THEN AM_NULL_PAGE ELSE L[i + 1]
    BY DEF Order, Linking
  <2>2. 1 \in 1 .. Len(L) /\ 1 = Len(L)
    <3>1. \A x \in 1 .. 1 : x = 1 /\ 1 \in 1 .. x
      OBVIOUS
    <3> QED  BY <2>1, <3>1
  <2> QED  BY <2>1, <2>2
<1>5. PICK L2 : L2 = <<2, 1>>
  OBVIOUS
<1>6. /\ L2 \in Seq(PageNum) /\ Len(L2) = 2 /\ L2[1] = 2 /\ L2[2] = 1
      /\ \A j \in 1 .. Len(L2) : j = 1 \/ j = 2
  BY <1>1, <1>5
<1>7. Linking(pg2, 3, L2)
  <2>1. Len(L2) \in 1 .. 3 /\ 2 \in 0 .. 3 - 1 /\ 1 \in 0 .. 3 - 1
    BY <1>6
  <2>2. L2[1] = IF pg2[0].pageType = "l" THEN 0 ELSE 2
    BY <1>3, <1>6
  <2>3. ASSUME NEW j \in 1 .. Len(L2)
        PROVE  /\ L2[j] \in 0 .. 3 - 1 /\ pg2[L2[j]].pageType = "l"
               /\ pg2[L2[j]].nextLeafPage = IF j = Len(L2) THEN AM_NULL_PAGE ELSE L2[j + 1]
    <3>1. CASE j = 1
      BY <1>2, <1>3, <1>6, <2>1, <3>1
    <3>2. CASE j = 2
      BY <1>2, <1>3, <1>4, <1>6, <2>1, <3>2
    <3> QED  BY <1>6, <3>1, <3>2
  <2>4. ASSUME NEW q \in 0 .. 3 - 1, pg2[q].pageType = "l"
        PROVE  \E j \in 1 .. Len(L2) : L2[j] = q
    <3>1. q = 0 \/ q = 1 \/ q = 2
      OBVIOUS
    <3>2. q # 0
      BY <1>3, <2>4
    <3>3. 1 \in 1 .. Len(L2) /\ 2 \in 1 .. Len(L2)
      BY <1>6
    <3> QED  BY <1>6, <3>1, <3>2, <3>3
  <2> QED  BY <1>6, <2>1, <2>2, <2>3, <2>4 DEF Linking
<1>8. PICK rng2 : rng2 = Divided(rng, 0, 2, 1, key)
  OBVIOUS
<1>9. IsDivided(rng2, rng, 0, 2, 1, key)
  <2>1. rng \in [PageNum -> SUBSET Value] /\ 2 # 1
    BY DEF Order, Sorted
  <2> QED  BY <1>1, <1>8, <2>1, DividedIs
<1>10. /\ rng2 \in [PageNum -> SUBSET Value]
       /\ rng2[2] = {w \in Value : w < key} /\ rng2[1] = {w \in Value : key <= w}
  BY <1>9 DEF IsDivided
<1>11. key \in Int /\ \A v \in Value : v \in Int
  BY <1>2, AMLeafAssumption DEF Parts
<1>12. Sorted(L2, rng2)
  <2>1. ASSUME NEW i \in 1 .. Len(L2), NEW j \in 1 .. Len(L2), i < j
        PROVE  L2[i] # L2[j] /\ \A v \in rng2[L2[i]], w \in rng2[L2[j]] : v < w
    <3>1. i = 1 /\ j = 2
      <4>1. ~(1 < 1) /\ ~(2 < 1) /\ ~(2 < 2)
        OBVIOUS
      <4> QED  BY <1>6, <2>1, <4>1
    <3>2. \A v, w \in Value : v < key /\ key <= w => v < w
      BY <1>11
    <3> QED  BY <1>6, <1>10, <3>1, <3>2
  <2>2. ASSUME NEW v \in Value
        PROVE  \E i \in 1 .. Len(L2) : v \in rng2[L2[i]]
    <3>1. v < key \/ key <= v
      BY <1>11
    <3>2. 1 \in 1 .. Len(L2) /\ 2 \in 1 .. Len(L2)
      BY <1>6
    <3> QED  BY <1>6, <1>10, <3>1, <3>2
  <2> QED  BY <1>10, <2>1, <2>2 DEF Sorted
<1>13. Holding(pg2, L2, rng2, A2)
  <2>1. ASSUME NEW j \in 1 .. Len(L2), NEW w \in Value
        PROVE  RecordsIn(pg2[L2[j]], w) = IF w \in rng2[L2[j]] THEN A2[w] ELSE << >>
    <3>1. CASE j = 1
      BY <1>2, <1>3, <1>6, <1>10, <3>1 DEF Stores
    <3>2. CASE j = 2
      BY <1>2, <1>3, <1>6, <1>10, <3>2 DEF Stores
    <3> QED  BY <1>6, <3>1, <3>2
  <2> QED  BY <2>1 DEF Holding, Changed
<1>14. Order(pg2, 3, L2, rng2, A2)
  BY <1>7, <1>12, <1>13 DEF Order
<1> QED  BY <1>8, <1>14

-----------------------------------------------------------------------------
(* A search keeps to the pages in whose range its value is. *)

LEMMA ChildInRange ==
  ASSUME NEW p, NEW R \in SUBSET Value, NEW rng, NEW np, Routed(page[p], R, rng, np), NEW v \in R
  PROVE  /\ AM_BinSearch(page[p].keys, v) \in 0 .. Len(page[p].keys)
         /\ Child(p, v) \in 1 .. np - 1 /\ v \in rng[Child(p, v)]
<1>1. PICK x : x = page[p]
  OBVIOUS
<1>2. /\ x.keys \in Seq(Int) /\ Len(x.keys) \in Nat /\ x.keys # << >>
      /\ Len(x.child) = Len(x.keys) + 1 /\ v \in Int
      /\ \A i \in 1 .. Len(x.keys) : x.keys[i] \in Int
  <2>1. Routed(x, R, rng, np)
    BY <1>1
  <2> QED  BY <2>1, RoutedParts
<1>3. PICK o : o = AM_BinSearch(x.keys, v)
  OBVIOUS
<1>4. Ascending(x.keys) /\ \A i \in 1 .. Len(x.child) : x.child[i] \in 1 .. np - 1 /\ rng[x.child[i]] = Interval(x, R, i)
  BY <1>1 DEF Routed
<1>5. o \in 0 .. Len(x.keys) /\ \A j \in 1 .. Len(x.keys) : j <= o <=> x.keys[j] <= v
  BY <1>2, <1>3, <1>4, BinSearchIs
<1>6. o + 1 \in 1 .. Len(x.child)
  BY <1>2, <1>5
<1>7. o + 1 > 1 => x.keys[(o + 1) - 1] <= v
  <2>1. o + 1 > 1 => o \in 1 .. Len(x.keys) /\ (o + 1) - 1 = o /\ o <= o
    BY <1>2, <1>5
  <2> QED  BY <1>5, <2>1
<1>8. o + 1 <= Len(x.keys) => v < x.keys[o + 1]
  <2>1. o + 1 <= Len(x.keys) => o + 1 \in 1 .. Len(x.keys) /\ ~(o + 1 <= o)
    BY <1>2, <1>5
  <2>2. o + 1 <= Len(x.keys) => ~(x.keys[o + 1] <= v) /\ x.keys[o + 1] \in Int
    BY <1>2, <1>5, <2>1
  <2> QED  BY <1>2, <2>2
<1>9. v \in Interval(x, R, o + 1)
  BY <1>7, <1>8 DEF Interval
<1>10. Child(p, v) = x.child[o + 1]
  BY <1>1, <1>3 DEF Child
<1>11. x.child[o + 1] \in 1 .. np - 1 /\ v \in rng[x.child[o + 1]]
  BY <1>4, <1>6, <1>9
<1> QED  BY <1>1, <1>3, <1>5, <1>10, <1>11

LEMMA PathInRange ==
  ASSUME NEW rng, Routes(page, numpages, rng), NEW v \in Value, NEW h, Arrives(h, v)
  PROVE  v \in rng[Last(PathTo(v))]
<1>1. PICK s : s = PathTo(v)
  OBVIOUS
<1>2. PICK n \in Nat : n = h[0]
  BY DEF Arrives
<1>3. /\ Len(s) = n + 1 /\ s[1] = 0 /\ Last(s) = s[Len(s)]
      /\ \A k \in 1 .. n + 1 : s[k] \in 0 .. numpages - 1
      /\ \A k \in 1 .. n : page[s[k]].pageType = "i" /\ s[k + 1] = Child(s[k], v)
      /\ numpages \in 1 .. MaxPages
  <2>1. PathIs(h, s, v) /\ numpages \in 1 .. MaxPages
    BY <1>1 DEF Arrives
  <2>2. Walk(h, s, v, n) /\ Last(s) = s[Len(s)]
    BY <1>2, <2>1 DEF PathIs
  <2> QED  BY <2>1, <2>2 DEF Walk, Pages
<1>4. /\ rng \in [PageNum -> SUBSET Value] /\ rng[0] = Value
      /\ \A a \in 0 .. numpages - 1 : page[a].pageType = "i" => Routed(page[a], rng[a], rng, numpages)
  BY DEF Routes
<1>5. \A q \in 0 .. numpages - 1 : q \in PageNum
  BY <1>3, Constants DEF PageNum
<1> DEFINE T == {k \in Nat : k <= n => v \in rng[s[k + 1]]}
<1>6. 0 \in T
  BY <1>3, <1>4
<1>7. \A k \in Nat : k \in T => k + 1 \in T
  <2> SUFFICES ASSUME NEW k \in Nat, k + 1 <= n, v \in rng[s[k + 1]]
               PROVE  v \in rng[s[(k + 1) + 1]]
    OBVIOUS
  <2>1. k + 1 \in 1 .. n /\ k + 1 \in 1 .. n + 1
    OBVIOUS
  <2>2. PICK p : p = s[k + 1]
    OBVIOUS
  <2>3. p \in 0 .. numpages - 1 /\ page[p].pageType = "i" /\ s[(k + 1) + 1] = Child(p, v)
    BY <1>3, <2>1, <2>2
  <2>4. PICK R \in SUBSET Value : R = rng[p]
    BY <1>4, <1>5, <2>3
  <2>5. Routed(page[p], R, rng, numpages) /\ v \in R
    BY <1>4, <2>2, <2>3, <2>4
  <2>6. v \in rng[Child(p, v)]
    BY <2>5, ChildInRange
  <2> QED  BY <2>3, <2>6
<1>8. n \in T
  <2> HIDE DEF T
  <2> QED  BY <1>6, <1>7, Induction
<1>9. v \in rng[s[n + 1]]
  <2>1. n <= n
    OBVIOUS
  <2> QED  BY <1>8, <2>1
<1> QED  BY <1>1, <1>3, <1>9

-----------------------------------------------------------------------------
(* The invariant. *)

(* The pages as they are when AM_AddtoParent has entered into the parent    *)
(* what it was called with.                                                 *)
Told(pg, st, cl) ==
    IF cl = NoCall THEN pg
    ELSE [pg EXCEPT ![Last(st).pageNumber] =
            AM_AddtoIntPage(pg[Last(st).pageNumber], cl.key, cl.pageNum, Last(st).offset)]

(* The entry e of the stack says which child of its page page c is. *)
Leads(pg, e, c) == pg[e.pageNumber].child[e.offset + 1] = c

(* From its top to the root each entry of the stack is about the page above. *)
StackLeads(pg, st) ==
    \A k \in 1 .. Len(st) - 1 :
      (\A j \in 1 .. k : st[Len(st) + 1 - j].pageNumber # 0) =>
         Leads(pg, st[Len(st) - k], st[Len(st) + 1 - k].pageNumber)

(* In an index without pages page 0 is as AM_CreateIndex writes it. *)
Size(np) == IF np = 0 THEN 1 ELSE np

Ordered(pg, np, fixed, st, cl, A) ==
    /\ np = 0 => pg[0] = EmptyLeaf
    /\ cl # NoCall => 0 \notin fixed /\ StackLeads(pg, st)
    /\ \E L, rng : /\ Order(pg, Size(np), L, rng, A)
                   /\ 0 \notin fixed => Routes(Told(pg, st, cl), Size(np), rng)

OrderIs(A) == Ordered(page, numpages, pinned, stack, call, A)

LEMMA OrderParts ==
  ASSUME NEW A, OrderIs(A), numpages \in 1 .. MaxPages
  PROVE  \E L, rng : /\ Order(page, numpages, L, rng, A)
                     /\ 0 \notin pinned => Routes(Told(page, stack, call), numpages, rng)
                     /\ 0 \notin pinned /\ Idle => Routes(page, numpages, rng)
<1>1. Size(numpages) = numpages
  BY DEF Size
<1>2. Idle => Told(page, stack, call) = page
  BY DEF Idle, Told
<1> QED  BY <1>1, <1>2 DEF OrderIs, Ordered

(* An index of one leaf that is empty. *)
LEMMA OrderEmpty ==
  ASSUME NEW pg, pg[0] = EmptyLeaf, NEW np \in 0 .. 1, NEW fixed, NEW st
  PROVE  Ordered(pg, np, fixed, st, NoCall, [w \in Value |-> << >>])
<1>1. 0 \in PageNum
  BY Constants
<1>2. PICK L : L = <<0>>
  OBVIOUS
<1>3. L \in Seq(PageNum) /\ Len(L) = 1 /\ L[1] = 0 /\ \A i \in 1 .. Len(L) : i = 1
  BY <1>1, <1>2
<1>4. PICK rng : rng = [p \in PageNum |-> IF p = 0 THEN Value ELSE {}]
  OBVIOUS
<1>5. rng \in [PageNum -> SUBSET Value] /\ rng[0] = Value
  BY <1>1, <1>4
<1>6. PICK A : A = [w \in Value |-> << >>]
  OBVIOUS
<1>7. pg[0].pageType = "l" /\ pg[0].nextLeafPage = AM_NULL_PAGE
  <2>1. GoodLeaf(EmptyLeaf) /\ EmptyLeaf.nextLeafPage = AM_NULL_PAGE
    BY EmptyGood
  <2>2. EmptyLeaf.pageType = "l"
    BY <2>1, LeafParts DEF GoodLeaf
  <2> QED  BY <2>1, <2>2
<1>8. \A w \in Value : RecordsIn(pg[0], w) = << >>
  BY EmptyContents DEF Contents
<1>9. \A q \in 0 .. 1 - 1 : q = 0
  OBVIOUS
<1>10. Linking(pg, 1, L)
  <2>1. Len(L) \in 1 .. 1 /\ 0 \in 0 .. 1 - 1 /\ 1 \in 1 .. Len(L)
    BY <1>3
  <2> QED  BY <1>3, <1>7, <1>9, <2>1 DEF Linking
<1>11. Sorted(L, rng)
  <2>1. \A i, j \in 1 .. Len(L) : ~(i < j)
    BY <1>3
  <2>2. 1 \in 1 .. Len(L)
    BY <1>3
  <2> QED  BY <1>3, <1>5, <2>1, <2>2 DEF Sorted
<1>12. Holding(pg, L, rng, A)
  <2>1. A \in [Value -> Seq(RecId)]
    BY <1>6
  <2>2. \A w \in Value : Len(A[w]) <= MaxPerKey
    <3>1. Len(<< >>) <= MaxPerKey
      BY AMAssumption
    <3> QED  BY <1>6, <3>1
  <2> QED  BY <1>3, <1>5, <1>6, <1>8, <2>1, <2>2 DEF Holding
<1>13. Routes(pg, 1, rng)
  BY <1>5, <1>7, <1>9 DEF Routes
<1>14. Size(np) = 1
  BY DEF Size
<1>15. Told(pg, st, NoCall) = pg
  BY DEF Told
<1> QED  BY <1>6, <1>10, <1>11, <1>12, <1>13, <1>14, <1>15 DEF Ordered, Order

-----------------------------------------------------------------------------
(* Steps that write leaves. *)

LEMMA OrderUnchanged ==
  ASSUME NEW A, OrderIs(A), Idle, call' = NoCall, UNCHANGED <<numpages, page>>, pinned \subseteq pinned'
  PROVE  OrderIs(A)'
<1>1. call = NoCall
  BY DEF Idle
<1>2. Told(page', stack', call') = page /\ Told(page, stack, call) = page
  BY <1>1 DEF Told
<1>3. PICK L, rng : /\ Order(page, Size(numpages), L, rng, A)
                    /\ 0 \notin pinned => Routes(Told(page, stack, call), Size(numpages), rng)
  BY DEF OrderIs, Ordered
<1>4. numpages = 0 => page[0] = EmptyLeaf
  BY DEF OrderIs, Ordered
<1>5. /\ Order(page', Size(numpages'), L, rng, A)
      /\ 0 \notin pinned' => Routes(Told(page', stack', call'), Size(numpages'), rng)
  BY <1>2, <1>3
<1> QED  BY <1>4, <1>5 DEF OrderIs, Ordered

LEMMA RoutesWritten ==
  ASSUME NEW V, NEW np \in 1 .. MaxPages, NEW rng, Routes(V, np, rng), DOMAIN V = PageNum,
         NEW p \in 0 .. np - 1, V[p].pageType = "l", NEW x, x.pageType = "l",
         NEW V2, V2 = [V EXCEPT ![p] = x]
  PROVE  Routes(V2, np, rng)
<1>1. 0 \in PageNum /\ p \in PageNum /\ \A q \in 0 .. np - 1 : q \in PageNum
  BY Constants DEF PageNum
<1>2. \A q \in PageNum : V2[q].pageType = V[q].pageType /\ (V[q].pageType = "i" => V2[q] = V[q])
  <2>1. V2[p] = x /\ \A q \in PageNum : q # p => V2[q] = V[q]
    BY <1>1
  <2> QED  BY <2>1
<1> QED  BY <1>1, <1>2 DEF Routes

(* The search for v comes to a leaf with all the record ids of v. *)
LEMMA SearchFinds ==
  ASSUME NEW A, OrderIs(A), Idle, 0 \notin pinned, NEW v \in Value, NEW h, Arrives(h, v),
         NEW p, p = Last(PathTo(v))
  PROVE  \E L, rng : /\ Order(page, numpages, L, rng, A) /\ Routes(page, numpages, rng)
                     /\ v \in rng[p] /\ Stores(page[p], rng[p], A)
<1>1. /\ numpages \in 1 .. MaxPages /\ p \in 0 .. numpages - 1 /\ GoodLeaf(page[p])
  BY DEF Arrives
<1>2. page[p].pageType = "l"
  BY <1>1, LeafParts DEF GoodLeaf
<1>3. PICK L, rng : Order(page, numpages, L, rng, A) /\ Routes(page, numpages, rng)
  BY <1>1, OrderParts
<1>4. v \in rng[p]
  BY <1>3, PathInRange
<1>5. PICK i : IsAt(L, rng, p, i)
  BY <1>1, <1>2, <1>3, LeafIsAt
<1>6. Stores(page[p], rng[p], A)
  BY <1>3, <1>5 DEF Order, Holding, Stores, IsAt
<1> QED  BY <1>3, <1>4, <1>6

LEMMA StoresChanged ==
  ASSUME NEW y, NEW R, NEW A, A \in [Value -> Seq(RecId)], Stores(y, R, A), NEW v \in Value, v \in R,
         NEW C, NEW x, Contents(x) = [Contents(y) EXCEPT ![v] = C]
  PROVE  Stores(x, R, [A EXCEPT ![v] = C])
<1> SUFFICES ASSUME NEW w \in Value
             PROVE  RecordsIn(x, w) = IF w \in R THEN [A EXCEPT ![v] = C][w] ELSE << >>
  BY DEF Stores
<1>1. RecordsIn(x, w) = Contents(x)[w] /\ RecordsIn(y, w) = Contents(y)[w] /\ DOMAIN Contents(y) = Value
  BY DEF Contents
<1>2. Contents(x)[w] = IF w = v THEN C ELSE Contents(y)[w]
  BY <1>1
<1>3. RecordsIn(y, w) = IF w \in R THEN A[w] ELSE << >>
  BY DEF Stores
<1> QED  BY <1>1, <1>2, <1>3

LEMMA ChangedAt ==
  ASSUME NEW A, A \in [Value -> Seq(RecId)], \A w \in Value : Len(A[w]) <= MaxPerKey,
         NEW v \in Value, NEW C \in Seq(RecId), Len(C) <= MaxPerKey, NEW R, v \in R
  PROVE  Changed(A, [A EXCEPT ![v] = C], R)
<1>1. PICK A2 : A2 = [A EXCEPT ![v] = C]
  OBVIOUS
<1>2. A2 \in [Value -> Seq(RecId)] /\ \A w \in Value : A2[w] = IF w = v THEN C ELSE A[w]
  BY <1>1
<1>3. Changed(A, A2, R)
  BY <1>2 DEF Changed
<1> QED  BY <1>1, <1>3

(* The leaf for v is written, with C for v and else what it had. *)
(* Whatever leaves hold A now, the same hold A2 then. *)
Keeping(A, A2) ==
    \A L, rng : Order(page, numpages, L, rng, A) /\ Routes(page, numpages, rng) =>
                   Order(page', numpages', L, rng, A2) /\ Routes(page', numpages', rng)

LEMMA OrderLeafWritten ==
  ASSUME NEW A, OrderIs(A), AMInv, Idle, 0 \notin pinned, NEW v \in Value, NEW h, Arrives(h, v),
         NEW p, p = Last(PathTo(v)), NEW C \in Seq(RecId), Len(C) <= MaxPerKey,
         NEW x, x.pageType = "l", x.nextLeafPage = page[p].nextLeafPage,
         Contents(x) = [Contents(page[p]) EXCEPT ![v] = C],
         page' = [page EXCEPT ![p] = x], UNCHANGED <<numpages, pinned>>, call' = NoCall
  PROVE  OrderIs([A EXCEPT ![v] = C])' /\ Keeping(A, [A EXCEPT ![v] = C])
<1>1. /\ numpages \in 1 .. MaxPages /\ p \in 0 .. numpages - 1 /\ GoodLeaf(page[p])
  BY DEF Arrives
<1>2. page[p].pageType = "l" /\ DOMAIN page = PageNum
  <2>1. page[p].pageType = "l"
    BY <1>1, LeafParts DEF GoodLeaf
  <2>2. DOMAIN page = PageNum
    BY DEF AMInv, Tree, Nodes
  <2> QED  BY <2>1, <2>2
<1>3. PICK A2 : A2 = [A EXCEPT ![v] = C]
  OBVIOUS
<1>4. PICK pg2 : pg2 = page'
  OBVIOUS
<1>5. numpages \in 0 .. MaxPages /\ pg2 = [page EXCEPT ![p] = x]
  BY <1>1, <1>4
<1>6. ASSUME NEW L, NEW rng, Order(page, numpages, L, rng, A), Routes(page, numpages, rng)
      PROVE  Order(pg2, numpages, L, rng, A2) /\ Routes(pg2, numpages, rng)
  <2>1. v \in rng[p]
    BY <1>6, PathInRange
  <2>2. PICK i : IsAt(L, rng, p, i)
    BY <1>1, <1>2, <1>6, LeafIsAt
  <2>3. Stores(page[p], rng[p], A)
    BY <1>6, <2>2 DEF Order, Holding, Stores, IsAt
  <2>4. A \in [Value -> Seq(RecId)] /\ \A w \in Value : Len(A[w]) <= MaxPerKey
    BY <1>6 DEF Order, Holding
  <2>5. Changed(A, A2, rng[p])
    BY <1>3, <2>1, <2>4, ChangedAt
  <2>6. Stores(x, rng[p], A2)
    BY <1>3, <2>1, <2>3, <2>4, StoresChanged
  <2>7. Order(pg2, numpages, L, rng, A2)
    BY <1>1, <1>2, <1>5, <1>6, <2>5, <2>6, OrderWritten
  <2>8. Routes(pg2, numpages, rng)
    BY <1>1, <1>2, <1>5, <1>6, RoutesWritten
  <2> QED  BY <2>7, <2>8
<1>7. Keeping(A, A2)
  BY <1>4, <1>6 DEF Keeping
<1>8. PICK L, rng : /\ Order(page, numpages, L, rng, A) /\ Routes(page, numpages, rng)
                    /\ v \in rng[p] /\ Stores(page[p], rng[p], A)
  BY SearchFinds
<1>9. Order(pg2, numpages, L, rng, A2) /\ Routes(pg2, numpages, rng)
  BY <1>6, <1>8
<1>10. Size(numpages') = numpages /\ numpages' # 0
  BY <1>1 DEF Size
<1>11. Told(page', stack', call') = pg2
  BY <1>4 DEF Told
<1>12. Ordered(page', numpages', pinned', stack', call', A2)
  BY <1>4, <1>9, <1>10, <1>11, SMTT(40) DEF Ordered
<1> QED  BY <1>3, <1>7, <1>12 DEF OrderIs

(* A leaf that is split shares what it stores with the new entry. *)
LEMMA HalvesPart ==
  ASSUME FewPerKey, NEW y, GoodLeaf(y), NEW v \in Value, NEW r \in RecId,
         NEW q \in AM_NULL_PAGE .. MaxPages - 1, NEW h, h = Halves(y, v, r, q),
         ~Fits(y, Found(Values(y), v)), NEW R, R \in SUBSET Value, v \in R, NEW A,
         A \in [Value -> Seq(RecId)], \A w \in Value : Len(A[w]) <= MaxPerKey, Stores(y, R, A)
  PROVE  /\ LeafParted(y, R, [A EXCEPT ![v] = <<r>> \o @], h.first, h.second, q, h.second.keys[1].value)
         /\ GoodLeaf(h.first) /\ GoodLeaf(h.second) /\ h.second.keys[1].value \in Value
<1>1. PICK A2 : A2 = [A EXCEPT ![v] = <<r>> \o @]
  OBVIOUS
<1>2. PICK D : D = [Contents(y) EXCEPT ![v] = <<r>> \o @]
  OBVIOUS
<1>3. PICK key : key = h.second.keys[1].value
  OBVIOUS
<1>4. \A w \in Value : RecordsIn(y, w) = IF w \in R THEN A[w] ELSE << >>
  BY DEF Stores
<1>5. \A w \in Value : Len(RecordsIn(y, w)) <= MaxPerKey
  <2>1. Len(<< >>) <= MaxPerKey
    BY AMAssumption
  <2> QED  BY <1>4, <2>1
<1>6. Shares(D, key, h.first, h.second)
  BY <1>2, <1>3, <1>5, HalvesHold
<1>7. \A w \in Value : D[w] = IF w \in R THEN A2[w] ELSE << >>
  <2> SUFFICES ASSUME NEW w \in Value PROVE D[w] = IF w \in R THEN A2[w] ELSE << >>
    OBVIOUS
  <2>1. DOMAIN Contents(y) = Value /\ Contents(y)[w] = RecordsIn(y, w) /\ Contents(y)[v] = RecordsIn(y, v)
    BY DEF Contents
  <2>2. D[w] = IF w = v THEN <<r>> \o RecordsIn(y, v) ELSE RecordsIn(y, w)
    BY <1>2, <2>1
  <2>3. A2[w] = IF w = v THEN <<r>> \o A[v] ELSE A[w]
    BY <1>1
  <2> QED  BY <1>4, <2>2, <2>3
<1>8. /\ key \in Value /\ D[key] # << >> /\ \E w \in Value : w < key /\ D[w] # << >>
      /\ \A w \in Value : /\ RecordsIn(h.first, w) = IF w < key THEN D[w] ELSE << >>
                          /\ RecordsIn(h.second, w) = IF w < key THEN << >> ELSE D[w]
  BY <1>6 DEF Shares, Contents
<1>9. \A w \in Value : ~(w < key) <=> key <= w
  <2>1. \A a, b \in Int : ~(a < b) <=> b <= a
    OBVIOUS
  <2> QED  BY <1>8, <2>1, AMLeafAssumption
<1>10. Parts(R, key)
  BY <1>7, <1>8 DEF Parts
<1>11. Stores(h.first, {w \in R : w < key}, A2) /\ Stores(h.second, {w \in R : key <= w}, A2)
  BY <1>7, <1>8, <1>9 DEF Stores
<1>12. Split(y, h, q)
  BY HalvesGood
<1>13. /\ GoodLeaf(h.first) /\ h.first.nextLeafPage = q
       /\ GoodLeaf(h.second) /\ h.second.nextLeafPage = y.nextLeafPage
  BY <1>12 DEF Split
<1>14. h.first.pageType = "l" /\ h.second.pageType = "l"
  BY <1>13, LeafParts DEF GoodLeaf
<1>15. LeafParted(y, R, A2, h.first, h.second, q, key)
  BY <1>10, <1>11, <1>13, <1>14 DEF LeafParted
<1> QED  BY <1>1, <1>3, <1>8, <1>13, <1>15

(* A search that gets its whole path has found the root unfixed. *)
LEMMA GotUnpinned ==
  ASSUME NEW v \in Value, NEW h, Arrives(h, v), NEW s, s = PathTo(v), Got(s) = Len(s)
  PROVE  0 \notin pinned
<1> SUFFICES ASSUME 0 \in pinned PROVE FALSE
  OBVIOUS
<1>1. Walk(h, s, v, h[0]) /\ Len(s) = h[0] + 1 /\ h[0] \in Nat
  BY DEF Arrives, PathIs
<1>2. s \in Seq(PageNum) /\ s[1] = 0 /\ Len(s) \in Nat /\ Len(s) >= 1
  BY <1>1 DEF Walk
<1> DEFINE S == {k \in DOMAIN s : s[k] \in pinned} \cup {Len(s) + 1}
<1>3. CASE PoolIsFull(pinned)
  BY <1>2, <1>3 DEF Got
<1>4. CASE ~PoolIsFull(pinned)
  <2>1. S \in SUBSET Nat /\ 1 \in S
    BY <1>2
  <2>2. Got(s) = Min(S) - 1
    BY <1>4 DEF Got
  <2> HIDE DEF S
  <2>3. Min(S) \in S /\ Min(S) <= 1
    BY <2>1, LeastNumber
  <2>4. PICK m \in Nat : m = Min(S) /\ m <= 1
    BY <2>1, <2>3
  <2>5. Got(s) = m - 1
    BY <2>2, <2>4
  <2> QED  BY <1>2, <2>4, <2>5
<1> QED  BY <1>3, <1>4

(* What a leaf stores for the value that led to it. *)
LEMMA LeafHas ==
  ASSUME NEW A, OrderIs(A), Idle, 0 \notin pinned, NEW v \in Value, NEW h, Arrives(h, v),
         NEW p, p = Last(PathTo(v))
  PROVE  /\ RecordsIn(page[p], v) = A[v] /\ Contents(page[p])[v] = A[v]
         /\ A \in [Value -> Seq(RecId)] /\ Len(A[v]) <= MaxPerKey
<1>1. PICK L, rng : Order(page, numpages, L, rng, A) /\ v \in rng[p] /\ Stores(page[p], rng[p], A)
  BY SearchFinds
<1>2. RecordsIn(page[p], v) = A[v]
  BY <1>1 DEF Stores
<1> QED  BY <1>1, <1>2 DEF Contents, Order, Holding

LEMMA InsertFitsOrder ==
  ASSUME NEW A, OrderIs(A), AMInv, Idle, NEW v \in Value, NEW r \in RecId, NEW h, Arrives(h, v),
         Len(RecordsIn(page[Last(PathTo(v))], v)) < MaxPerKey, InsertFits(v, r)
  PROVE  OrderIs([A EXCEPT ![v] = <<r>> \o @])'
<1>1. PICK p : p = Last(PathTo(v))
  OBVIOUS
<1>2. PICK i, found : i = AM_SearchLeaf(Values(page[p]), v) /\ found = Found(Values(page[p]), v)
  OBVIOUS
<1>3. PICK x : x = AM_InsertintoLeaf(page[p], v, r, i, found)
  OBVIOUS
<1>4. GoodLeaf(page[p])
  BY <1>1 DEF Arrives
<1>5. /\ page' = [page EXCEPT ![p] = x] /\ UNCHANGED <<numpages, pinned>> /\ call' = NoCall
      /\ Fits(page[p], found) /\ Got(PathTo(v)) = Len(PathTo(v))
  BY <1>1, <1>2, <1>3 DEF InsertFits, Return
<1>6. 0 \notin pinned
  BY <1>5, GotUnpinned
<1>7. FoundAt(page[p], v, i, found)
  BY <1>2, <1>4, FoundIs
<1>8. GoodLeaf(x) /\ x.nextLeafPage = page[p].nextLeafPage /\ x.pageType = "l"
  <2>1. GoodLeaf(x) /\ x.nextLeafPage = page[p].nextLeafPage
    BY <1>3, <1>4, <1>7, InsertintoLeafGood
  <2> QED  BY <2>1, LeafParts DEF GoodLeaf
<1>9. PICK D : D = [Contents(page[p]) EXCEPT ![v] = <<r>> \o @]
  OBVIOUS
<1>10. Contents(x) = D
  <2>1. Holds(page[p], Contents(page[p]))
    BY <1>4, ContentsHold
  <2>2. PICK C : C = Contents(page[p])
    OBVIOUS
  <2>3. Holds(x, [C EXCEPT ![v] = <<r>> \o @])
    BY <1>3, <1>4, <1>5, <1>7, <2>1, <2>2, InsertContents
  <2>4. Holds(x, D)
    BY <1>9, <2>2, <2>3
  <2> QED  BY <1>8, <2>4, HoldsIs
<1>11. RecordsIn(page[p], v) = A[v] /\ Contents(page[p])[v] = A[v] /\ A \in [Value -> Seq(RecId)]
  BY <1>1, <1>6, LeafHas
<1>12. PICK B : B = <<r>> \o A[v]
  OBVIOUS
<1>13. B \in Seq(RecId) /\ Len(B) <= MaxPerKey
  <2>1. A[v] \in Seq(RecId) /\ <<r>> \in Seq(RecId) /\ Len(<<r>>) = 1
    BY <1>11
  <2>2. B \in Seq(RecId) /\ Len(B) = Len(<<r>>) + Len(A[v]) /\ Len(A[v]) \in Nat
    BY <1>12, <2>1, ConcatIs
  <2>3. Len(A[v]) < MaxPerKey
    BY <1>1, <1>11
  <2>4. Len(B) <= MaxPerKey
    BY <2>1, <2>2, <2>3, AMAssumption
  <2> QED  BY <2>2, <2>4
<1>14. Contents(x) = [Contents(page[p]) EXCEPT ![v] = B]
  BY <1>9, <1>10, <1>11, <1>12
<1>15. OrderIs([A EXCEPT ![v] = B])'
  BY <1>1, <1>5, <1>6, <1>8, <1>13, <1>14, OrderLeafWritten
<1>16. [A EXCEPT ![v] = B] = [A EXCEPT ![v] = <<r>> \o @]
  BY <1>12
<1> QED  BY <1>15, <1>16

LEMMA DeleteFoundOrder ==
  ASSUME NEW A, OrderIs(A), AMInv, Idle, NEW v \in Value, NEW r \in RecId, NEW h, Arrives(h, v),
         DeleteFound(v, r)
  PROVE  /\ r \in Range(A[v]) /\ A[v] \in Seq(RecId)
         /\ OrderIs([A EXCEPT ![v] = RemoveAt(@, FirstOf(@, r))])'
         /\ Keeping(A, [A EXCEPT ![v] = RemoveAt(@, FirstOf(@, r))])
<1>1. PICK p : p = Last(PathTo(v))
  OBVIOUS
<1>2. PICK x : x = DeleteFromLeaf(page[p], AM_SearchLeaf(Values(page[p]), v), r)
  OBVIOUS
<1>3. /\ page' = [page EXCEPT ![p] = x] /\ UNCHANGED <<numpages, pinned>> /\ call' = NoCall
      /\ Contains(RecordsIn(page[p], v), r) /\ Got(PathTo(v)) = Len(PathTo(v))
  BY <1>1, <1>2 DEF DeleteFound, Return
<1>4. GoodLeaf(page[p])
  BY <1>1 DEF Arrives
<1>5. 0 \notin pinned
  BY <1>3, GotUnpinned
<1>6. /\ GoodLeaf(x)
      /\ Contents(x) = [Contents(page[p]) EXCEPT ![v] = RemoveAt(@, FirstOf(@, r))]
  BY <1>2, <1>3, <1>4, DeleteContents
<1>7. x.nextLeafPage = page[p].nextLeafPage /\ x.pageType = "l"
  <2>1. PICK i : i = AM_SearchLeaf(Values(page[p]), v)
    OBVIOUS
  <2>2. i \in 1 .. Len(page[p].keys) /\ r \in Range(RecIds(page[p], i))
    BY <1>3, <1>4, <2>1, RecordIn
  <2>3. x.nextLeafPage = page[p].nextLeafPage
    BY <1>2, <1>4, <2>1, <2>2, DeleteGood
  <2> QED  BY <1>6, <2>3, LeafParts DEF GoodLeaf
<1>8. /\ RecordsIn(page[p], v) = A[v] /\ Contents(page[p])[v] = A[v] /\ A \in [Value -> Seq(RecId)]
      /\ Len(A[v]) <= MaxPerKey
  BY <1>1, <1>5, LeafHas
<1>9. PICK s \in Seq(RecId) : s = A[v]
  BY <1>8
<1>10. r \in Range(s)
  BY <1>3, <1>8, <1>9 DEF Contains, Range
<1>11. PICK k \in 1 .. Len(s) : k = FirstOf(s, r)
  BY <1>10, FirstIs
<1>12. PICK B : B = RemoveAt(s, k)
  OBVIOUS
<1>13. B \in Seq(RecId) /\ Len(B) <= MaxPerKey
  <2>1. B \in Seq(RecId) /\ Len(B) = Len(s) - 1
    BY <1>12, RemoveAtIs
  <2>2. Len(s) \in Nat /\ Len(s) <= MaxPerKey
    BY <1>8, <1>9
  <2>3. \A a, b \in Nat : a <= b => a - 1 <= b
    OBVIOUS
  <2> QED  BY <2>1, <2>2, <2>3, AMAssumption
<1>14. Contents(x) = [Contents(page[p]) EXCEPT ![v] = B]
  BY <1>6, <1>8, <1>9, <1>11, <1>12
<1>15. OrderIs([A EXCEPT ![v] = B])' /\ Keeping(A, [A EXCEPT ![v] = B])
  BY <1>1, <1>3, <1>5, <1>7, <1>13, <1>14, OrderLeafWritten
<1>16. [A EXCEPT ![v] = B] = [A EXCEPT ![v] = RemoveAt(@, FirstOf(@, r))]
  BY <1>9, <1>11, <1>12
<1> QED  BY <1>8, <1>9, <1>10, <1>15, <1>16

-----------------------------------------------------------------------------
(* AM_InsertEntry splits a leaf. *)

(* Leaf p parts into the halves y, with one entry more. *)
Splits(p, y, A, A2, L, rng) ==
    /\ Order(page, numpages, L, rng, A) /\ Routes(page, numpages, rng)
    /\ rng[p] \in SUBSET Value /\ Changed(A, A2, rng[p])
    /\ LeafParted(page[p], rng[p], A2, y.first, y.second, numpages, y.second.keys[1].value)
    /\ page[p].pageType = "l"

LEMMA LeafIsSplit ==
  ASSUME FewPerKey, NEW A, OrderIs(A), AMInv, Idle, NEW v \in Value, NEW r \in RecId,
         NEW h, Arrives(h, v), NEW p, p = Last(PathTo(v)), numpages < MaxPages,
         Got(PathTo(v)) = Len(PathTo(v)), Len(RecordsIn(page[p], v)) < MaxPerKey,
         ~Fits(page[p], Found(Values(page[p]), v)), NEW y, y = Halves(page[p], v, r, numpages)
  PROVE  \E L, rng : Splits(p, y, A, [A EXCEPT ![v] = <<r>> \o @], L, rng)
<1>1. PICK A2 : A2 = [A EXCEPT ![v] = <<r>> \o @]
  OBVIOUS
<1>2. 0 \notin pinned
  BY GotUnpinned
<1>3. PICK L, rng : /\ Order(page, numpages, L, rng, A) /\ Routes(page, numpages, rng)
                    /\ v \in rng[p] /\ Stores(page[p], rng[p], A)
  BY <1>2, SearchFinds
<1>4. GoodLeaf(page[p]) /\ p \in PageNum /\ numpages \in AM_NULL_PAGE .. MaxPages - 1
  <2>1. GoodLeaf(page[p]) /\ p \in PageNum /\ numpages \in 1 .. MaxPages
    BY DEF Arrives
  <2> QED  BY <2>1, Constants DEF AM_NULL_PAGE
<1>5. page[p].pageType = "l"
  BY <1>4, LeafParts DEF GoodLeaf
<1>6. PICK R \in SUBSET Value : R = rng[p]
  BY <1>3, <1>4 DEF Routes
<1>7. A \in [Value -> Seq(RecId)] /\ \A w \in Value : Len(A[w]) <= MaxPerKey
  BY <1>3 DEF Order, Holding
<1>8. RecordsIn(page[p], v) = A[v]
  BY <1>3 DEF Stores
<1>9. PICK B : B = <<r>> \o A[v]
  OBVIOUS
<1>10. B \in Seq(RecId) /\ Len(B) <= MaxPerKey
  <2>1. A[v] \in Seq(RecId) /\ <<r>> \in Seq(RecId) /\ Len(<<r>>) = 1
    BY <1>7
  <2>2. B \in Seq(RecId) /\ Len(B) = Len(<<r>>) + Len(A[v]) /\ Len(A[v]) \in Nat
    BY <1>9, <2>1, ConcatIs
  <2>3. Len(A[v]) < MaxPerKey
    BY <1>8
  <2>4. Len(B) <= MaxPerKey
    BY <2>1, <2>2, <2>3, AMAssumption
  <2> QED  BY <2>2, <2>4
<1>11. Changed(A, A2, R)
  <2>1. A2 = [A EXCEPT ![v] = B]
    BY <1>1, <1>9
  <2>2. Changed(A, [A EXCEPT ![v] = B], R)
    BY <1>3, <1>6, <1>7, <1>10, ChangedAt
  <2> QED  BY <2>1, <2>2
<1>12. PICK key : key = y.second.keys[1].value
  OBVIOUS
<1>13. LeafParted(page[p], R, A2, y.first, y.second, numpages, key)
  <2>1. Stores(page[p], R, A) /\ v \in R
    BY <1>3, <1>6
  <2>2. LeafParted(page[p], R, [A EXCEPT ![v] = <<r>> \o @], y.first, y.second, numpages,
                   y.second.keys[1].value)
    BY <1>4, <1>6, <1>7, <2>1, HalvesPart
  <2> QED  BY <1>1, <1>12, <2>2
<1>14. Splits(p, y, A, A2, L, rng)
  BY <1>3, <1>5, <1>6, <1>11, <1>12, <1>13 DEF Splits
<1> QED  BY <1>1, <1>14

(* Page p is split, and the entry e on top of the stack leads to it. *)
IsSplit(pg, np, p, x1, x2, key, st, e, pg2, cl) ==
    /\ DOMAIN pg = PageNum /\ np \in PageNum /\ p \in 1 .. np - 1
    /\ e = Last(st) /\ e.pageNumber \in 0 .. np - 1 /\ e.pageNumber # p
    /\ pg[e.pageNumber].pageType = "i" /\ e.offset \in 0 .. Len(pg[e.pageNumber].keys)
    /\ Leads(pg, e, p)
    /\ pg2 = [pg EXCEPT ![p] = x1, ![np] = x2]
    /\ cl = [pageNum |-> np, key |-> key]

LEMMA ToldSplit ==
  ASSUME NEW pg, NEW np, NEW p, NEW x1, NEW x2, NEW key, NEW st, NEW e, NEW pg2, NEW cl,
         IsSplit(pg, np, p, x1, x2, key, st, e, pg2, cl),
         NEW z, NEW V, V \in {pg, [pg EXCEPT ![p] = z]}, V[p] = z, NEW rng, Routes(V, np, rng),
         Parted(z, rng[p], rng, np, x1, x2, key)
  PROVE  cl # NoCall /\ Routes(Told(pg2, st, cl), np + 1, Divided(rng, p, p, np, key))
<1>1. PICK g, o : g = e.pageNumber /\ o = e.offset
  OBVIOUS
<1>2. /\ DOMAIN pg = PageNum /\ np \in PageNum /\ p \in 1 .. np - 1
      /\ e = Last(st) /\ g \in 0 .. np - 1 /\ g # p
      /\ pg[g].pageType = "i" /\ o \in 0 .. Len(pg[g].keys) /\ pg[g].child[o + 1] = p
      /\ pg2 = [pg EXCEPT ![p] = x1, ![np] = x2] /\ cl = [pageNum |-> np, key |-> key]
  BY <1>1 DEF IsSplit, Leads
<1>3. np \in Nat /\ p \in PageNum /\ g \in PageNum /\ g # np /\ p # np
  BY <1>2, Constants, SMTT(40) DEF PageNum
<1>4. cl # NoCall
  <2>1. cl.pageNum = np /\ NoCall.pageNum = AM_NULL_PAGE
    BY <1>2 DEF NoCall
  <2>2. np # AM_NULL_PAGE
    BY <1>3 DEF AM_NULL_PAGE
  <2> QED  BY <2>1, <2>2
<1>5. pg2[g] = pg[g] /\ V[g] = pg[g] /\ V[p] = z /\ DOMAIN V = PageNum
  BY <1>2, <1>3
<1>6. PICK y : y = AM_AddtoIntPage(V[g], key, np, o)
  OBVIOUS
<1>7. PICK V2 : V2 = Told(pg2, st, cl)
  OBVIOUS
<1>8. V2 = [pg2 EXCEPT ![g] = y]
  BY <1>1, <1>2, <1>4, <1>5, <1>6, <1>7 DEF Told
<1>9. V2 = [V EXCEPT ![p] = x1, ![np] = x2, ![g] = y]
  BY <1>2, <1>3, <1>8
<1>10. ChildSplit(V, np, p, g, o, key, x1, x2, V2)
  BY <1>2, <1>5, <1>6, <1>9 DEF ChildSplit
<1>11. Routes(V2, np + 1, Divided(rng, p, p, np, key))
  <2>1. Parted(V[p], rng[p], rng, np, x1, x2, key)
    BY <1>5
  <2> QED  BY <1>10, <2>1, RouteSplit
<1> QED  BY <1>4, <1>7, <1>11

(* The stack a search leaves leads to the page where it ended, and does   *)
(* when that leaf is split.                                                *)
LEMMA PathLeads ==
  ASSUME AMInv, NEW v \in Value, NEW h, Arrives(h, v), NEW s, s = PathTo(v), Got(s) = Len(s),
         NEW st, st = Pushed(s, v), NEW p, p = Last(s), p # 0, numpages < MaxPages,
         NEW x1, NEW x2, NEW key, NEW pg2, pg2 = [page EXCEPT ![p] = x1, ![numpages] = x2],
         NEW cl, cl = [pageNum |-> numpages, key |-> key]
  PROVE  StackLeads(pg2, st) /\ \E e : IsSplit(page, numpages, p, x1, x2, key, st, e, pg2, cl)
<1>1. PICK H \in Nat : H = h[0]
  BY DEF Arrives
<1>2. /\ st \in Seq(StackEntry) /\ st = stack \o [k \in 1 .. H |-> Pushing(s[k], v)]
      /\ OnPath(h, v, s, H)
  BY <1>1, PushedIs
<1>3. H \in 1 .. Len(st)
  BY <1>1, PathUpwards
<1>4. PICK e : e = [k \in 1 .. H |-> Pushing(s[k], v)]
  OBVIOUS
<1>5. e \in Seq(StackEntry) /\ Len(e) = H /\ \A k \in 1 .. H : e[k] = Pushing(s[k], v)
  <2>1. e \in [1 .. H -> StackEntry]
    BY <1>2, <1>4 DEF OnPath
  <2> QED  BY <1>4, <2>1
<1>6. PICK n \in Nat : n = Len(stack) /\ stack \in Seq(StackEntry)
  BY DEF AMInv
<1>7. Len(st) = n + H /\ \A k \in 1 .. H : st[n + k] = Pushing(s[k], v)
  BY <1>2, <1>4, <1>5, <1>6
<1>8. /\ Len(s) = H + 1 /\ s[1] = 0 /\ p = s[H + 1]
      /\ \A k \in 1 .. H : s[k + 1] = Child(s[k], v)
      /\ numpages \in 1 .. MaxPages /\ p \in 0 .. numpages - 1 /\ page[p].pageType = "l"
      /\ DOMAIN page = PageNum
  <2>1. PathIs(h, s, v) /\ Len(s) = h[0] + 1 /\ numpages \in 1 .. MaxPages /\ p \in 0 .. numpages - 1
    BY DEF Arrives
  <2>2. Walk(h, s, v, H) /\ page[p].pageType = "l" /\ p = s[Len(s)]
    BY <1>1, <2>1 DEF PathIs
  <2>3. DOMAIN page = PageNum
    BY DEF AMInv, Tree, Nodes
  <2> QED  BY <1>1, <2>1, <2>2, <2>3 DEF Walk
<1>9. numpages \in PageNum /\ p \in PageNum /\ \A q \in 0 .. numpages - 1 : q \in PageNum /\ q # numpages
  BY <1>8, Constants DEF PageNum
<1>10. \A q \in 0 .. numpages - 1 : page[q].pageType = "i" => q # p /\ pg2[q] = page[q]
  BY <1>8, <1>9
<1>11. ASSUME NEW k \in 1 .. H
       PROVE  /\ s[k] \in 0 .. numpages - 1 /\ page[s[k]].pageType = "i"
              /\ Pushing(s[k], v).pageNumber = s[k]
              /\ Pushing(s[k], v).offset \in 0 .. Len(page[s[k]].keys)
              /\ Leads(page, Pushing(s[k], v), s[k + 1]) /\ Leads(pg2, Pushing(s[k], v), s[k + 1])
  <2>1. /\ s[k] \in 0 .. numpages - 1 /\ page[s[k]].pageType = "i"
        /\ Pushing(s[k], v).offset \in 0 .. Len(page[s[k]].keys)
    BY <1>2 DEF OnPath
  <2>2. Pushing(s[k], v).pageNumber = s[k]
    BY DEF Pushing
  <2>3. Leads(page, Pushing(s[k], v), s[k + 1])
    BY <1>8 DEF Leads, Pushing, Child
  <2>4. Leads(pg2, Pushing(s[k], v), s[k + 1])
    BY <1>10, <2>1, <2>2, <2>3 DEF Leads
  <2> QED  BY <2>1, <2>2, <2>3, <2>4
<1>12. ASSUME NEW k \in 1 .. Len(st) - 1, \A j \in 1 .. k : st[Len(st) + 1 - j].pageNumber # 0
       PROVE  Leads(pg2, st[Len(st) - k], st[Len(st) + 1 - k].pageNumber)
  <2>1. k < H
    <3>1. ASSUME H <= k PROVE FALSE
      <4>1. H \in 1 .. k /\ Len(st) + 1 - H = n + 1 /\ 1 \in 1 .. H
        BY <1>3, <1>6, <1>7, <3>1
      <4>2. st[n + 1].pageNumber = 0
        BY <1>7, <1>8, <1>11, <4>1, ZenonT(60)
      <4>3. st[Len(st) + 1 - H].pageNumber # 0
        BY <1>12, <4>1
      <4> QED  BY <4>1, <4>2, <4>3
    <3>2. \A a, b \in Nat : ~(a <= b) => b < a
      OBVIOUS
    <3> QED  BY <3>1, <3>2
  <2>2. PICK i \in 1 .. H : i = H - k
    BY <2>1
  <2>3. i + 1 \in 1 .. H /\ Len(st) - k = n + i /\ Len(st) + 1 - k = n + (i + 1)
    BY <1>6, <1>7, <2>1, <2>2
  <2>4. st[n + i] = Pushing(s[i], v) /\ st[n + (i + 1)].pageNumber = s[i + 1]
    BY <1>7, <1>11, <2>3
  <2>5. Leads(pg2, Pushing(s[i], v), s[i + 1])
    BY <1>11
  <2> QED  BY <2>3, <2>4, <2>5
<1>13. StackLeads(pg2, st)
  BY <1>12 DEF StackLeads
<1>14. PICK f : f = Pushing(s[H], v)
  OBVIOUS
<1>15. H \in 1 .. H /\ f = Last(st)
  <2>1. H \in 1 .. H
    BY <1>3
  <2> QED  BY <1>7, <1>14, <2>1 DEF Last
<1>16. p \in 1 .. numpages - 1
  BY <1>8
<1>17. IsSplit(page, numpages, p, x1, x2, key, st, f, pg2, cl)
  <2>1. /\ f.pageNumber = s[H] /\ s[H] \in 0 .. numpages - 1 /\ page[s[H]].pageType = "i"
        /\ f.offset \in 0 .. Len(page[s[H]].keys) /\ Leads(page, f, s[H + 1])
    BY <1>11, <1>14, <1>15
  <2>2. s[H] # p
    BY <1>10, <2>1
  <2> QED  BY <1>8, <1>9, <1>15, <1>16, <2>1, <2>2 DEF IsSplit
<1> QED  BY <1>13, <1>17

(* A leaf in two, of which the parent is to be told. *)
LEMMA SplitBelowOrder ==
  ASSUME NEW A, NEW A2, AMInv, NEW v \in Value, NEW h, Arrives(h, v), NEW s, s = PathTo(v),
         Got(s) = Len(s), NEW p, p = Last(s), numpages < MaxPages, NEW y, NEW L, NEW rng,
         Splits(p, y, A, A2, L, rng),
         SplitBelow(p, y, y.second.keys[1].value), stack' = Pushed(s, v)
  PROVE  OrderIs(A2)'
<1>1. PICK key : key = y.second.keys[1].value
  OBVIOUS
<1>2. PICK x1, x2 : x1 = y.first /\ x2 = y.second
  OBVIOUS
<1>3. PICK pg2, cl, st : pg2 = page' /\ cl = call' /\ st = stack'
  OBVIOUS
<1>4. /\ p # 0 /\ pg2 = [page EXCEPT ![p] = x1, ![numpages] = x2]
      /\ numpages' = numpages + 1 /\ cl = [pageNum |-> numpages, key |-> key] /\ pinned' = pinned
  BY <1>1, <1>2, <1>3 DEF SplitBelow, AM_RootPageNum
<1>5. StackLeads(pg2, st) /\ \E e : IsSplit(page, numpages, p, x1, x2, key, st, e, pg2, cl)
  <2>1. st = Pushed(s, v)
    BY <1>3
  <2> QED  BY <1>4, <2>1, PathLeads
<1>6. PICK e : IsSplit(page, numpages, p, x1, x2, key, st, e, pg2, cl)
  BY <1>5
<1>7. /\ Order(page, numpages, L, rng, A) /\ Routes(page, numpages, rng)
      /\ Changed(A, A2, rng[p]) /\ LeafParted(page[p], rng[p], A2, x1, x2, numpages, key)
      /\ page[p].pageType = "l"
  BY <1>1, <1>2 DEF Splits
<1>8. Parted(page[p], rng[p], rng, numpages, x1, x2, key)
  BY <1>7 DEF Parted, LeafParted
<1>9. /\ DOMAIN page = PageNum /\ numpages \in Nat /\ numpages \in PageNum
      /\ p \in 0 .. numpages - 1 /\ p \in PageNum /\ numpages + 1 # 0
  <2>1. DOMAIN page = PageNum
    BY DEF AMInv, Tree, Nodes
  <2>2. numpages \in 1 .. MaxPages /\ p \in 0 .. numpages - 1 /\ p \in PageNum
    BY DEF Arrives
  <2> QED  BY <2>1, <2>2, Constants DEF PageNum
<1>10. PICK rng2 : rng2 = Divided(rng, p, p, numpages, key)
  OBVIOUS
<1>11. cl # NoCall /\ Routes(Told(pg2, st, cl), numpages + 1, rng2)
  <2>1. PICK V, z : V = page /\ z = page[p]
    OBVIOUS
  <2>2. V \in {page, [page EXCEPT ![p] = z]} /\ V[p] = z
    BY <2>1
  <2>3. Routes(V, numpages, rng) /\ Parted(z, rng[p], rng, numpages, x1, x2, key)
    BY <1>7, <1>8, <2>1
  <2> QED  BY <1>6, <1>10, <2>2, <2>3, ToldSplit
<1>12. PICK L2 : Order(pg2, numpages + 1, L2, rng2, A2)
  <2>1. \E L2 : Order(pg2, numpages + 1, L2, Divided(rng, p, p, numpages, key), A2)
    BY <1>4, <1>7, <1>9, OrderDivided
  <2> QED  BY <1>10, <2>1
<1>13. Size(numpages') = numpages + 1 /\ numpages' # 0
  BY <1>4, <1>9 DEF Size
<1>14. 0 \notin pinned
  BY GotUnpinned
<1>15. Ordered(page', numpages', pinned', stack', call', A2)
  BY <1>3, <1>4, <1>5, <1>11, <1>12, <1>13, <1>14, ZenonT(60) DEF Ordered
<1> QED  BY <1>15 DEF OrderIs

(* The root is a leaf, and in two. *)
LEMMA SplitRootOrder ==
  ASSUME NEW A, NEW A2, AMInv, NEW v \in Value, NEW h, Arrives(h, v), numpages + 2 <= MaxPages,
         NEW y, NEW L, NEW rng, Splits(0, y, A, A2, L, rng), SplitRoot(0, y, y.second.keys[1].value)
  PROVE  OrderIs(A2)'
<1>1. PICK key : key = y.second.keys[1].value
  OBVIOUS
<1>2. PICK x1, x2 : x1 = y.first /\ x2 = y.second
  OBVIOUS
<1>3. PICK pg2 : pg2 = page'
  OBVIOUS
<1>4. /\ Order(page, numpages, L, rng, A) /\ Routes(page, numpages, rng)
      /\ Changed(A, A2, rng[0]) /\ LeafParted(page[0], rng[0], A2, x1, x2, numpages, key)
      /\ page[0].pageType = "l"
  BY <1>1, <1>2 DEF Splits
<1>5. rng[0] = Value /\ numpages = 1
  BY <1>4 DEF Routes
<1>6. PICK z : z = AM_FillRootPage(2, 1, key)
  OBVIOUS
<1>7. /\ pg2 = [page EXCEPT ![2] = x1, ![1] = x2, ![0] = z]
      /\ numpages' = 3 /\ call' = NoCall /\ pinned' = pinned
  BY <1>1, <1>2, <1>3, <1>5, <1>6 DEF SplitRoot, AM_RootPageNum, Return
<1>8. DOMAIN page = PageNum /\ 2 \in PageNum
  <2>1. DOMAIN page = PageNum
    BY DEF AMInv, Tree, Nodes
  <2>2. 2 \in PageNum
    BY <1>5, Constants DEF PageNum
  <2> QED  BY <2>1, <2>2
<1>9. z.pageType = "i"
  BY <1>6 DEF AM_FillRootPage
<1>10. PICK rng2 : rng2 = Divided(rng, 0, 2, 1, key)
  OBVIOUS
<1>11. PICK L2 : Order(pg2, 3, L2, rng2, A2)
  <2>1. Order(page, 1, L, rng, A) /\ Changed(A, A2, Value) /\ LeafParted(page[0], Value, A2, x1, x2, 1, key)
    BY <1>4, <1>5
  <2>2. \E L2 : Order(pg2, 3, L2, Divided(rng, 0, 2, 1, key), A2)
    BY <1>4, <1>5, <1>7, <1>8, <1>9, <2>1, OrderRoot
  <2> QED  BY <1>10, <2>2
<1>12. Routes(pg2, 3, rng2)
  <2>1. PICK np \in Nat : np = 1
    OBVIOUS
  <2>2. np + 1 = 2 /\ np + 2 = 3 /\ np >= 1
    BY <2>1
  <2>3. Parted(page[0], Value, rng, np, x1, x2, key)
    BY <1>4, <1>5 DEF Parted, LeafParted
  <2>4. pg2 = [page EXCEPT ![np + 1] = x1, ![np] = x2, ![0] = AM_FillRootPage(np + 1, np, key)]
    BY <1>6, <1>7, <2>1, <2>2
  <2>5. Routes(page, np, rng) /\ np + 1 \in PageNum
    BY <1>4, <1>5, <1>8, <2>1, <2>2
  <2>6. Routes(pg2, np + 2, Divided(rng, 0, np + 1, np, key))
    BY <1>8, <2>2, <2>3, <2>4, <2>5, RouteRoot
  <2> QED  BY <1>10, <2>1, <2>2, <2>6
<1>13. Size(numpages') = 3 /\ numpages' # 0
  BY <1>7 DEF Size
<1>14. Told(page', stack', call') = pg2
  BY <1>3, <1>7 DEF Told
<1>15. Ordered(page', numpages', pinned', stack', call', A2)
  BY <1>3, <1>7, <1>11, <1>12, <1>13, <1>14 DEF Ordered
<1> QED  BY <1>15 DEF OrderIs

(* The root's second half is in the chain, though in no inner node. *)
LEMMA NoNewRootOrder ==
  ASSUME NEW A, NEW A2, AMInv, NEW v \in Value, NEW h, Arrives(h, v), numpages < MaxPages,
         NEW y, NEW L, NEW rng, Splits(0, y, A, A2, L, rng), NoNewRoot(0, y)
  PROVE  OrderIs(A2)'
<1>1. PICK key : key = y.second.keys[1].value
  OBVIOUS
<1>2. PICK x1, x2 : x1 = y.first /\ x2 = y.second
  OBVIOUS
<1>3. PICK pg2 : pg2 = page'
  OBVIOUS
<1>4. /\ Order(page, numpages, L, rng, A) /\ Changed(A, A2, rng[0]) /\ page[0].pageType = "l"
      /\ LeafParted(page[0], rng[0], A2, x1, x2, numpages, key)
  BY <1>1, <1>2 DEF Splits
<1>5. /\ pg2 = [page EXCEPT ![0] = x1, ![numpages] = x2]
      /\ numpages' = numpages + 1 /\ call' = NoCall /\ pinned' = pinned \cup {0, numpages}
  BY <1>2, <1>3 DEF NoNewRoot, AM_RootPageNum, Return
<1>6. /\ DOMAIN page = PageNum /\ numpages \in Nat /\ numpages \in PageNum
      /\ 0 \in 0 .. numpages - 1 /\ numpages + 1 # 0
  <2>1. DOMAIN page = PageNum
    BY DEF AMInv, Tree, Nodes
  <2>2. numpages \in 1 .. MaxPages
    BY DEF Arrives
  <2> QED  BY <2>1, <2>2, Constants DEF PageNum
<1>7. PICK L2 : Order(pg2, numpages + 1, L2, Divided(rng, 0, 0, numpages, key), A2)
  <2>1. \E L2 : Order(pg2, numpages + 1, L2, Divided(rng, 0, 0, numpages, key), A2)
    BY <1>4, <1>5, <1>6, OrderDivided
  <2> QED  BY <2>1
<1>8. Size(numpages') = numpages + 1 /\ numpages' # 0
  BY <1>5, <1>6 DEF Size
<1>9. Ordered(page', numpages', pinned', stack', call', A2)
  BY <1>3, <1>5, <1>7, <1>8, SMTT(40) DEF Ordered
<1> QED  BY <1>9 DEF OrderIs

-----------------------------------------------------------------------------
(* AM_AddtoParent *)

(* The parent p, as it is with the page it is to be told of, is z. *)
Telling(p, x, z, V, A, L, rng) ==
    /\ 0 \notin pinned /\ StackLeads(page, stack)
    /\ Order(page, numpages, L, rng, A) /\ Routes(V, numpages, rng)
    /\ V = Told(page, stack, call) /\ V = [page EXCEPT ![p] = z] /\ V[p] = z
    /\ DOMAIN page = PageNum /\ p \in PageNum /\ x = page[p] /\ x.pageType = "i" /\ z.pageType = "i"
    /\ rng[p] \in SUBSET Value /\ Routed(z, rng[p], rng, numpages)

LEMMA ParentTold ==
  ASSUME NEW A, OrderIs(A), AMInv, ~Idle, NEW h, NEW p, NEW x, NEW c, NEW off, NEW d,
         ParentIs(h, p, x, c, off, d), NEW z, z = AM_AddtoIntPage(x, call.key, c, off)
  PROVE  \E V, L, rng : Telling(p, x, z, V, A, L, rng)
<1>1. /\ numpages \in 1 .. MaxPages /\ p \in 0 .. numpages - 1 /\ x = page[p] /\ GoodNode(x)
      /\ p = Last(stack).pageNumber /\ off = Last(stack).offset /\ c = call.pageNum
      /\ c \in PageNum /\ off \in 0 .. Len(x.keys) /\ call.key \in Value
  BY DEF ParentIs, Parent
<1>2. DOMAIN page = PageNum /\ p \in PageNum
  <2>1. DOMAIN page = PageNum
    BY DEF AMInv, Tree, Nodes
  <2> QED  BY <1>1, <2>1, Constants DEF PageNum
<1>3. x.pageType = "i" /\ z.pageType = "i"
  <2>1. x.pageType = "i"
    BY <1>1, NodeParts
  <2>2. z.pageType = "i"
    BY <1>1, AddtoIntPageIs
  <2> QED  BY <2>1, <2>2
<1>4. PICK L, rng : /\ Order(page, numpages, L, rng, A)
                    /\ 0 \notin pinned => Routes(Told(page, stack, call), numpages, rng)
  BY <1>1, OrderParts
<1>5. 0 \notin pinned /\ StackLeads(page, stack) /\ call # NoCall
  BY DEF OrderIs, Ordered, Idle
<1>6. PICK V : V = Told(page, stack, call)
  OBVIOUS
<1>7. V = [page EXCEPT ![p] = z]
  BY <1>1, <1>5, <1>6 DEF Told
<1>8. V[p] = z
  BY <1>2, <1>7
<1>9. Routes(V, numpages, rng)
  BY <1>4, <1>5, <1>6
<1>10. rng[p] \in SUBSET Value /\ Routed(z, rng[p], rng, numpages)
  BY <1>1, <1>2, <1>3, <1>8, <1>9 DEF Routes
<1> QED  BY <1>1, <1>2, <1>3, <1>4, <1>5, <1>6, <1>7, <1>8, <1>9, <1>10 DEF Telling

(* AM_SplitIntNode shares the range out, and the children. *)
LEMMA NodeParted ==
  ASSUME NEW x, GoodNode(x), Len(x.keys) = MaxKeys, NEW key \in Value, NEW c \in PageNum,
         NEW off \in 0 .. Len(x.keys), NEW z, z = AM_AddtoIntPage(x, key, c, off),
         NEW y, y = AM_SplitIntNode(x, key, c, off),
         NEW R \in SUBSET Value, NEW rng, NEW np, Routed(z, R, rng, np)
  PROVE  /\ Parted(z, R, rng, np, y.first, y.second, y.middle)
         /\ y.first.pageType = "i" /\ y.second.pageType = "i"
<1>1. PICK half \in Nat : half = MaxKeys \div 2 /\ MaxKeys = 2 * half /\ half >= 1
  <2>1. MaxKeys \in Nat \ {0} /\ MaxKeys % 2 = 0
    BY AMAssumption
  <2>2. MaxKeys \div 2 \in Nat /\ MaxKeys = 2 * (MaxKeys \div 2) /\ MaxKeys \div 2 >= 1
    BY <2>1
  <2> QED  BY <2>2
<1>2. PICK n \in Nat : n = Len(z.keys) /\ n = 2 * half + 1
  <2>1. Len(z.keys) = Len(x.keys) + 1
    BY AddtoIntPageIs
  <2>2. Len(z.keys) = 2 * half + 1
    BY <1>1, <2>1
  <2>3. 2 * half + 1 \in Nat
    OBVIOUS
  <2> QED  BY <2>2, <2>3
<1>3. NodeSplit(y, x, c)
  BY SplitIntNodeGood
<1>4. /\ y.first \in IntNode /\ y.second \in IntNode
      /\ y.first.pageType = "i" /\ y.second.pageType = "i"
  BY <1>3, NodeParts DEF NodeSplit, GoodNode
<1>5. x \in IntNode
  BY DEF GoodNode
<1>6. /\ y.middle = z.keys[half + 1]
      /\ y.first.keys = SubSeq(z.keys, 1, half) /\ y.first.child = SubSeq(z.child, 1, half + 1)
      /\ y.second.keys = SubSeq(z.keys, half + 2, Len(z.keys))
      /\ y.second.child = SubSeq(z.child, half + 2, Len(z.keys) + 1)
  <2>1. PICK k1, c1 : k1 = SubSeq(z.keys, 1, half) /\ c1 = SubSeq(z.child, 1, half + 1)
    OBVIOUS
  <2>2. PICK k2, c2 : /\ k2 = SubSeq(z.keys, half + 2, Len(z.keys))
                      /\ c2 = SubSeq(z.child, half + 2, Len(z.keys) + 1)
    OBVIOUS
  <2>3. y.middle = z.keys[half + 1]
    BY <1>1 DEF AM_SplitIntNode
  <2>4. y.first = [x EXCEPT !.keys = k1, !.child = c1]
    BY <1>1, <2>1 DEF AM_SplitIntNode
  <2>5. y.second = [x EXCEPT !.keys = k2, !.child = c2]
    BY <1>1, <2>2 DEF AM_SplitIntNode
  <2>6. y.first.keys = k1 /\ y.first.child = c1 /\ y.second.keys = k2 /\ y.second.child = c2
    BY <1>5, <2>4, <2>5 DEF IntNode
  <2> QED  BY <2>1, <2>2, <2>3, <2>6
<1>7. half + 2 <= Len(z.keys)
  BY <1>1, <1>2
<1>8. PICK key2, a, b : key2 = y.middle /\ a = y.first /\ b = y.second
  OBVIOUS
<1>9. CutUp(z, R, rng, np, key2, a, b)
  <2>1. a \in IntNode /\ b \in IntNode /\ key2 = z.keys[half + 1]
    BY <1>4, <1>6, <1>8
  <2>2. a.keys = SubSeq(z.keys, 1, half) /\ a.child = SubSeq(z.child, 1, half + 1)
    BY <1>6, <1>8
  <2>3. /\ b.keys = SubSeq(z.keys, half + 2, Len(z.keys))
        /\ b.child = SubSeq(z.child, half + 2, Len(z.keys) + 1)
    BY <1>6, <1>8
  <2>4. Cut(z, half, key2, a, b)
    BY <1>1, <1>7, <2>1, <2>2, <2>3 DEF Cut
  <2> QED  BY <2>4, RoutedSplit
<1>10. z.pageType = "i"
  BY AddtoIntPageIs
<1> QED  BY <1>4, <1>8, <1>9, <1>10 DEF Parted, CutUp

(* The leaves stay as they are. *)
LEMMA OrderInner ==
  ASSUME NEW p, NEW x, NEW z, NEW V, NEW A, NEW L, NEW rng, Telling(p, x, z, V, A, L, rng),
         NEW np2 \in Nat, numpages \in 1 .. MaxPages, numpages <= np2, np2 <= MaxPages, NEW pg2,
         \A q \in PageNum : IF q = p \/ (numpages <= q /\ q < np2) THEN pg2[q].pageType = "i"
                            ELSE pg2[q] = page[q],
         NEW rng2 \in [PageNum -> SUBSET Value],
         \A q \in PageNum : q < numpages /\ q # p => rng2[q] = rng[q]
  PROVE  Order(pg2, np2, L, rng2, A)
<1>1. /\ Order(page, numpages, L, rng, A) /\ p \in PageNum /\ page[p].pageType = "i"
      /\ numpages \in Nat /\ 0 \in PageNum
  BY Constants DEF Telling
<1>2. \A q \in 0 .. np2 - 1 : q \in PageNum /\ (q \in 0 .. numpages - 1 \/ numpages <= q) /\ q < np2
  BY <1>1, Constants DEF PageNum
<1>3. \A q \in 0 .. numpages - 1 : q \in PageNum /\ q < numpages /\ ~(numpages <= q)
  BY <1>1, Constants DEF PageNum
<1>4. \A q \in 0 .. np2 - 1 : pg2[q].pageType = "l" => q \in 0 .. numpages - 1 /\ page[q].pageType = "l"
  BY <1>2, <1>3
<1>5. \A q \in 0 .. numpages - 1 : page[q].pageType = "l" => pg2[q] = page[q] /\ rng2[q] = rng[q]
  BY <1>1, <1>3
<1>6. pg2[0].pageType = page[0].pageType
  <2>1. 0 \in 0 .. numpages - 1
    BY <1>1
  <2> QED  BY <1>1, <1>3, <2>1
<1> QED  BY <1>1, <1>4, <1>5, <1>6, OrderKept

LEMMA AddFitsOrder ==
  ASSUME NEW A, OrderIs(A), AMInv, ~Idle, NEW h, NEW p, NEW x, NEW c, NEW off, NEW d,
         ParentIs(h, p, x, c, off, d), AddFits
  PROVE  OrderIs(A)'
<1>1. PICK z : z = AM_AddtoIntPage(x, call.key, c, off)
  OBVIOUS
<1>2. PICK pg2 : pg2 = page'
  OBVIOUS
<1>3. /\ pg2 = [page EXCEPT ![p] = z] /\ call' = NoCall /\ numpages' = numpages /\ pinned' = pinned
      /\ numpages \in 1 .. MaxPages
  <2>1. x = page[p] /\ p = Parent.pageNumber /\ c = call.pageNum /\ off = Parent.offset
        /\ numpages \in 1 .. MaxPages
    BY DEF ParentIs
  <2> QED  BY <1>1, <1>2, <2>1 DEF AddFits, Return
<1>4. PICK V, L, rng : Telling(p, x, z, V, A, L, rng)
  BY <1>1, ParentTold
<1>5. /\ Routes(V, numpages, rng) /\ V = [page EXCEPT ![p] = z] /\ V[p] = z /\ z.pageType = "i"
      /\ DOMAIN page = PageNum /\ rng \in [PageNum -> SUBSET Value]
  BY <1>4 DEF Telling, Routes
<1>6. \A q \in PageNum : IF q = p \/ (numpages <= q /\ q < numpages) THEN pg2[q].pageType = "i"
                         ELSE pg2[q] = page[q]
  <2>1. \A q \in PageNum : ~(numpages <= q /\ q < numpages)
    BY <1>3, Constants
  <2>2. pg2[p].pageType = "i" /\ \A q \in PageNum : q # p => pg2[q] = page[q]
    BY <1>3, <1>5
  <2> QED  BY <2>1, <2>2
<1>7. Order(pg2, numpages, L, rng, A)
  <2>1. PICK np \in Nat : np = numpages /\ numpages <= np /\ np <= MaxPages
    BY <1>3, Constants
  <2>2. Order(pg2, np, L, rng, A)
    BY <1>3, <1>4, <1>5, <1>6, <2>1, OrderInner
  <2> QED  BY <2>1, <2>2
<1>8. Size(numpages') = numpages /\ numpages' # 0
  BY <1>3 DEF Size
<1>9. Told(page', stack', call') = pg2
  BY <1>2, <1>3 DEF Told
<1>10. Routes(pg2, numpages, rng)
  BY <1>3, <1>5
<1>11. Ordered(page', numpages', pinned', stack', call', A)
  BY <1>2, <1>3, <1>7, <1>8, <1>9, <1>10 DEF Ordered
<1> QED  BY <1>11 DEF OrderIs

(* Above the parent, p, the stack leads on, and does when p is split. *)
LEMMA FrontLeads ==
  ASSUME AMInv, NEW h, NEW p, NEW x, NEW c, NEW off, NEW d, ParentIs(h, p, x, c, off, d), p # 0,
         StackLeads(page, stack), NEW st, st = Front(stack),
         NEW x1, NEW x2, NEW key, NEW pg2, pg2 = [page EXCEPT ![p] = x1, ![numpages] = x2],
         NEW cl, cl = [pageNum |-> numpages, key |-> key]
  PROVE  StackLeads(pg2, st) /\ \E e : IsSplit(page, numpages, p, x1, x2, key, st, e, pg2, cl)
<1>1. PICK b : b = d - 1
  OBVIOUS
<1>2. /\ st \in Seq(StackEntry) /\ b \in 1 .. Len(st) /\ (numpages + 1) + b + 1 <= MaxPages
      /\ Upwards(h, page, numpages, st, p, b)
  BY <1>1, FrontUpwards
<1>3. /\ p \in 0 .. numpages - 1 /\ p = stack[Len(stack)].pageNumber /\ numpages \in 1 .. MaxPages
      /\ d \in 1 .. Len(stack) /\ Level(h, page, numpages) /\ Nodes(page)
  BY DEF ParentIs, Parent, Last
<1>4. PICK n \in Nat : n = Len(stack) /\ stack \in Seq(StackEntry)
  BY DEF AMInv
<1>5. Len(st) = n - 1 /\ n > 1 /\ \A k \in 1 .. n - 1 : st[k] = stack[k]
  <2>1. n > 0
    BY <1>3, <1>4
  <2>2. Len(st) = n - 1 /\ \A k \in 1 .. n - 1 : st[k] = stack[k]
    BY <1>4, <2>1 DEF Front
  <2>3. n > 1
    BY <1>2, <1>4, <2>2
  <2> QED  BY <2>2, <2>3
<1>6. PICK B \in Nat : B = b /\ B >= 1 /\ B <= n - 1
  BY <1>2, <1>4, <1>5
<1>7. p \in 1 .. numpages - 1 /\ p \in PageNum /\ h[p] \in Nat /\ DOMAIN page = PageNum
  <2>1. p \in 1 .. numpages - 1 /\ p \in PageNum
    BY <1>3, Constants DEF PageNum
  <2> QED  BY <1>3, <2>1 DEF Level, Nodes
<1>8. numpages \in PageNum /\ \A q \in 0 .. numpages - 1 : q \in PageNum /\ q # numpages
  <2>1. numpages \in Nat /\ numpages < MaxPages
    BY <1>2, <1>3, <1>6, Constants, SMTT(40)
  <2> QED  BY <2>1, Constants DEF PageNum
<1>9. ASSUME NEW k \in 1 .. B, NEW e, e = st[n - k]
      PROVE  /\ e.pageNumber \in 0 .. numpages - 1 /\ page[e.pageNumber].pageType = "i"
             /\ e.offset \in 0 .. Len(page[e.pageNumber].keys)
             /\ e.pageNumber # p /\ (k = B => e.pageNumber = 0)
             /\ pg2[e.pageNumber] = page[e.pageNumber]
  <2>1. k \in 1 .. b /\ Len(st) + 1 - k = n - k
    BY <1>5, <1>6
  <2>2. Above(h, page, numpages, e, p, k, b)
    <3>1. Above(h, page, numpages, st[Len(st) + 1 - k], p, k, b)
      BY <1>2, <2>1 DEF Upwards
    <3> QED  BY <1>9, <2>1, <3>1
  <2>3. h[e.pageNumber] = h[p] + k /\ k \in Nat /\ k # 0
    BY <2>2 DEF Above
  <2>4. h[e.pageNumber] # h[p]
    BY <1>7, <2>3
  <2>5. /\ e.pageNumber \in 0 .. numpages - 1 /\ page[e.pageNumber].pageType = "i"
        /\ e.offset \in 0 .. Len(page[e.pageNumber].keys) /\ (k = b => e.pageNumber = 0)
    BY <2>2 DEF Above, AM_RootPageNum
  <2>6. e.pageNumber # p
    BY <2>4
  <2> QED  BY <1>6, <1>7, <1>8, <2>5, <2>6
<1>10. ASSUME NEW k \in 1 .. Len(st) - 1, \A j \in 1 .. k : st[Len(st) + 1 - j].pageNumber # 0
       PROVE  Leads(pg2, st[Len(st) - k], st[Len(st) + 1 - k].pageNumber)
  <2>1. k \in Nat /\ k >= 1 /\ k <= n - 2
    BY <1>5
  <2>2. k < B
    <3>1. ASSUME B <= k PROVE FALSE
      <4>1. B \in 1 .. k /\ B \in 1 .. B /\ Len(st) + 1 - B = n - B
        BY <1>5, <1>6, <2>1, <3>1
      <4>2. st[n - B].pageNumber = 0
        BY <1>9, <4>1
      <4>3. st[Len(st) + 1 - B].pageNumber # 0
        BY <1>10, <4>1
      <4> QED  BY <4>1, <4>2, <4>3
    <3>2. \A i, j \in Nat : ~(i <= j) => j < i
      OBVIOUS
    <3> QED  BY <1>6, <2>1, <3>1, <3>2
  <2>3. PICK m \in 1 .. n - 1 : m = k + 1
    BY <2>1
  <2>4. ASSUME NEW j \in 1 .. m PROVE stack[n + 1 - j].pageNumber # 0
    <3>1. CASE j = 1
      BY <1>3, <1>4, <3>1
    <3>2. CASE j # 1
      <4>1. PICK i \in 1 .. k : i = j - 1
        BY <2>1, <2>3, <3>2
      <4>2. n + 1 - j = Len(st) + 1 - i /\ n + 1 - j \in 1 .. n - 1
        BY <1>5, <2>1, <2>3, <3>2, <4>1
      <4>3. st[Len(st) + 1 - i].pageNumber # 0
        BY <1>10
      <4> QED  BY <1>5, <4>2, <4>3
    <3> QED  BY <3>1, <3>2
  <2>5. Leads(page, stack[n - m], stack[n + 1 - m].pageNumber)
    BY <1>4, <2>4 DEF StackLeads
  <2>6. PICK i \in 1 .. n - 1 : i = Len(st) - k /\ i = n - m
    BY <1>5, <2>1, <2>3
  <2>7. PICK j \in 1 .. n - 1 : j = Len(st) + 1 - k /\ j = n + 1 - m
    BY <1>5, <2>1, <2>3
  <2>8. PICK e : e = st[i]
    OBVIOUS
  <2>9. e = stack[i] /\ st[j] = stack[j]
    BY <1>5, <2>8
  <2>10. pg2[e.pageNumber] = page[e.pageNumber]
    <3>1. m \in 1 .. B /\ e = st[n - m]
      BY <1>6, <2>2, <2>1, <2>3, <2>6, <2>8
    <3> QED  BY <1>9, <3>1
  <2>11. Leads(page, e, st[j].pageNumber)
    BY <2>5, <2>6, <2>7, <2>9
  <2>12. Leads(pg2, e, st[j].pageNumber)
    BY <2>10, <2>11 DEF Leads
  <2> QED  BY <2>6, <2>7, <2>8, <2>12
<1>11. StackLeads(pg2, st)
  BY <1>10 DEF StackLeads
<1>12. PICK e : e = st[n - 1]
  OBVIOUS
<1>13. Leads(page, e, p)
  <2>1. 1 \in 1 .. n - 1 /\ n + 1 - 1 = n /\ n - 1 \in 1 .. n - 1 /\ \A j \in 1 .. 1 : j = 1
    BY <1>5
  <2>2. \A j \in 1 .. 1 : stack[n + 1 - j].pageNumber # 0
    BY <1>3, <1>4, <2>1
  <2>3. Leads(page, stack[n - 1], stack[n + 1 - 1].pageNumber)
    BY <1>4, <2>1, <2>2 DEF StackLeads
  <2> QED  BY <1>3, <1>4, <1>5, <1>12, <2>1, <2>3
<1>14. /\ e.pageNumber \in 0 .. numpages - 1 /\ page[e.pageNumber].pageType = "i"
       /\ e.offset \in 0 .. Len(page[e.pageNumber].keys) /\ e.pageNumber # p
  <2>1. 1 \in 1 .. B
    BY <1>6
  <2> QED  BY <1>9, <1>12, <2>1
<1>15. e = Last(st)
  BY <1>5, <1>12 DEF Last
<1>16. IsSplit(page, numpages, p, x1, x2, key, st, e, pg2, cl)
  BY <1>7, <1>8, <1>13, <1>14, <1>15 DEF IsSplit
<1> QED  BY <1>11, <1>16

LEMMA AddBelowOrder ==
  ASSUME NEW A, OrderIs(A), AMInv, ~Idle, NEW h, NEW p, NEW x, NEW c, NEW off, NEW d,
         ParentIs(h, p, x, c, off, d), Len(x.keys) = MaxKeys,
         NEW y, y = AM_SplitIntNode(x, call.key, c, off), AddBelow(p, y)
  PROVE  OrderIs(A)'
<1>1. PICK z : z = AM_AddtoIntPage(x, call.key, c, off)
  OBVIOUS
<1>2. PICK key, x1, x2 : key = y.middle /\ x1 = y.first /\ x2 = y.second
  OBVIOUS
<1>3. PICK pg2, st, cl : pg2 = page' /\ st = stack' /\ cl = call'
  OBVIOUS
<1>4. /\ p # 0 /\ pg2 = [page EXCEPT ![p] = x1, ![numpages] = x2] /\ numpages' = numpages + 1
      /\ cl = [pageNum |-> numpages, key |-> key] /\ st = Front(stack) /\ pinned' = pinned
  BY <1>2, <1>3 DEF AddBelow, AM_RootPageNum
<1>5. /\ GoodNode(x) /\ call.key \in Value /\ c \in PageNum /\ off \in 0 .. Len(x.keys)
      /\ numpages \in 1 .. MaxPages
  BY DEF ParentIs
<1>6. PICK V, L, rng : Telling(p, x, z, V, A, L, rng)
  BY <1>1, ParentTold
<1>7. /\ 0 \notin pinned /\ StackLeads(page, stack) /\ Routes(V, numpages, rng)
      /\ V = [page EXCEPT ![p] = z] /\ V[p] = z /\ DOMAIN page = PageNum /\ p \in PageNum
      /\ rng[p] \in SUBSET Value /\ Routed(z, rng[p], rng, numpages)
      /\ rng \in [PageNum -> SUBSET Value]
  BY <1>6 DEF Telling, Routes
<1>8. /\ Parted(z, rng[p], rng, numpages, x1, x2, key)
      /\ x1.pageType = "i" /\ x2.pageType = "i"
  <2>1. PICK R \in SUBSET Value : R = rng[p]
    BY <1>7
  <2>2. Routed(z, R, rng, numpages)
    BY <1>7, <2>1
  <2>3. /\ Parted(z, R, rng, numpages, y.first, y.second, y.middle)
        /\ y.first.pageType = "i" /\ y.second.pageType = "i"
    BY <1>1, <1>5, <2>2, NodeParted
  <2> QED  BY <1>2, <2>1, <2>3
<1>9. StackLeads(pg2, st) /\ \E e : IsSplit(page, numpages, p, x1, x2, key, st, e, pg2, cl)
  BY <1>4, <1>7, FrontLeads
<1>10. PICK e : IsSplit(page, numpages, p, x1, x2, key, st, e, pg2, cl)
  BY <1>9
<1>11. PICK rng2 : rng2 = Divided(rng, p, p, numpages, key)
  OBVIOUS
<1>12. cl # NoCall /\ Routes(Told(pg2, st, cl), numpages + 1, rng2)
  <2>1. V \in {page, [page EXCEPT ![p] = z]}
    BY <1>7
  <2> QED  BY <1>7, <1>8, <1>10, <1>11, <2>1, ToldSplit, ZenonT(60)
<1>13. PICK np2 \in Nat : np2 = numpages + 1 /\ numpages <= np2 /\ np2 <= MaxPages /\ numpages \in PageNum
  <2>1. numpages \in PageNum
    BY <1>10 DEF IsSplit
  <2>2. numpages \in Nat /\ numpages + 1 <= MaxPages
    BY <2>1, Constants DEF PageNum
  <2> QED  BY <2>1, <2>2
<1>14. p # numpages
  <2>1. p \in 1 .. numpages - 1
    BY <1>10 DEF IsSplit
  <2> QED  BY <1>5, <2>1, Constants
<1>15. \A q \in PageNum : IF q = p \/ (numpages <= q /\ q < np2) THEN pg2[q].pageType = "i"
                          ELSE pg2[q] = page[q]
  <2>1. \A q \in PageNum : (numpages <= q /\ q < np2) <=> q = numpages
    BY <1>13, Constants DEF PageNum
  <2>2. pg2[p] = x1 /\ pg2[numpages] = x2 /\ \A q \in PageNum : q # p /\ q # numpages => pg2[q] = page[q]
    BY <1>4, <1>7, <1>13, <1>14
  <2> QED  BY <1>8, <2>1, <2>2
<1>16. IsDivided(rng2, rng, p, p, numpages, key)
  BY <1>7, <1>11, <1>13, <1>14, DividedIs
<1>17. rng2 \in [PageNum -> SUBSET Value] /\ \A q \in PageNum : q < numpages /\ q # p => rng2[q] = rng[q]
  <2>1. \A q \in PageNum : q < numpages => q # numpages
    BY <1>13, Constants DEF PageNum
  <2> QED  BY <1>16, <2>1 DEF IsDivided
<1>18. Order(pg2, np2, L, rng2, A)
  BY <1>5, <1>6, <1>13, <1>15, <1>17, OrderInner
<1>19. Size(numpages') = np2 /\ numpages' # 0
  BY <1>4, <1>5, <1>13, Constants DEF Size
<1>20. Ordered(page', numpages', pinned', stack', call', A)
  <2>1. Routes(Told(page', stack', call'), np2, rng2) /\ StackLeads(page', stack')
    BY <1>3, <1>9, <1>12, <1>13
  <2>2. 0 \notin pinned' /\ Order(page', np2, L, rng2, A)
    BY <1>3, <1>4, <1>7, <1>18
  <2> QED  BY <1>19, <2>1, <2>2 DEF Ordered
<1> QED  BY <1>20 DEF OrderIs

(* The root is split into two new pages. *)
LEMMA AddAtRootOrder ==
  ASSUME NEW A, OrderIs(A), AMInv, ~Idle, NEW h, NEW p, NEW x, NEW c, NEW off, NEW d,
         ParentIs(h, p, x, c, off, d), Len(x.keys) = MaxKeys, numpages + 2 <= MaxPages,
         NEW y, y = AM_SplitIntNode(x, call.key, c, off), AddAtRoot(p, y)
  PROVE  OrderIs(A)'
<1>1. PICK z : z = AM_AddtoIntPage(x, call.key, c, off)
  OBVIOUS
<1>2. PICK key, x1, x2 : key = y.middle /\ x1 = y.first /\ x2 = y.second
  OBVIOUS
<1>3. PICK pg2 : pg2 = page'
  OBVIOUS
<1>4. PICK np \in Nat : np = numpages /\ np >= 1 /\ np + 2 <= MaxPages
  <2>1. numpages \in 1 .. MaxPages
    BY DEF ParentIs
  <2> QED  BY <2>1, Constants
<1>5. PICK w : w = AM_FillRootPage(np + 1, np, key)
  OBVIOUS
<1>6. /\ p = 0 /\ pg2 = [page EXCEPT ![np + 1] = x1, ![np] = x2, ![0] = w] /\ numpages' = np + 2
      /\ call' = NoCall /\ pinned' = pinned
  BY <1>2, <1>3, <1>4, <1>5 DEF AddAtRoot, AM_RootPageNum, Return
<1>7. GoodNode(x) /\ call.key \in Value /\ c \in PageNum /\ off \in 0 .. Len(x.keys)
  BY DEF ParentIs
<1>8. PICK V, L, rng : Telling(p, x, z, V, A, L, rng)
  BY <1>1, ParentTold
<1>9. /\ Routes(V, np, rng) /\ V = [page EXCEPT ![0] = z] /\ V[0] = z /\ DOMAIN page = PageNum
      /\ Routed(z, Value, rng, np) /\ rng \in [PageNum -> SUBSET Value] /\ rng[0] = Value
  BY <1>4, <1>6, <1>8 DEF Telling, Routes
<1>10. /\ Parted(z, Value, rng, np, x1, x2, key)
       /\ x1.pageType = "i" /\ x2.pageType = "i"
  <2>1. PICK R \in SUBSET Value : R = Value
    OBVIOUS
  <2>2. Routed(z, R, rng, np)
    BY <1>9, <2>1
  <2>3. /\ Parted(z, R, rng, np, y.first, y.second, y.middle)
        /\ y.first.pageType = "i" /\ y.second.pageType = "i"
    BY <1>1, <1>7, <2>2, NodeParted
  <2> QED  BY <1>2, <2>1, <2>3
<1>11. np \in PageNum /\ np + 1 \in PageNum /\ 0 \in PageNum /\ np + 1 # np /\ np # 0 /\ np + 1 # 0
  BY <1>4, Constants DEF PageNum
<1>12. PICK rng2 : rng2 = Divided(rng, 0, np + 1, np, key)
  OBVIOUS
<1>13. Routes(pg2, np + 2, rng2)
  <2>1. DOMAIN V = PageNum
    BY <1>9
  <2>2. pg2 = [V EXCEPT ![np + 1] = x1, ![np] = x2, ![0] = AM_FillRootPage(np + 1, np, key)]
    BY <1>5, <1>6, <1>9, <1>11
  <2>3. Parted(V[0], Value, rng, np, x1, x2, key)
    BY <1>9, <1>10
  <2>4. Routes(pg2, np + 2, Divided(rng, 0, np + 1, np, key))
    BY <1>4, <1>9, <1>11, <2>1, <2>2, <2>3, RouteRoot
  <2> QED  BY <1>12, <2>4
<1>14. PICK np2 \in Nat : np2 = np + 2 /\ np <= np2 /\ np2 <= MaxPages
  BY <1>4
<1>15. w.pageType = "i"
  BY <1>5 DEF AM_FillRootPage
<1>16. \A q \in PageNum : IF q = p \/ (numpages <= q /\ q < np2) THEN pg2[q].pageType = "i"
                          ELSE pg2[q] = page[q]
  <2>1. \A q \in PageNum : (numpages <= q /\ q < np2) <=> q = np \/ q = np + 1
    BY <1>4, <1>14, Constants DEF PageNum
  <2>2. /\ pg2[0] = w /\ pg2[np] = x2 /\ pg2[np + 1] = x1
        /\ \A q \in PageNum : q # 0 /\ q # np /\ q # np + 1 => pg2[q] = page[q]
    BY <1>6, <1>9, <1>11
  <2> QED  BY <1>6, <1>10, <1>15, <2>1, <2>2
<1>17. IsDivided(rng2, rng, 0, np + 1, np, key)
  <2>1. PICK one \in PageNum : one = np + 1
    BY <1>11
  <2> QED  BY <1>9, <1>11, <1>12, <2>1, DividedIs
<1>18. rng2 \in [PageNum -> SUBSET Value] /\ \A q \in PageNum : q < numpages /\ q # p => rng2[q] = rng[q]
  <2>1. \A q \in PageNum : q < numpages => q # np /\ q # np + 1
    BY <1>4, Constants DEF PageNum
  <2> QED  BY <1>17, <2>1 DEF IsDivided
<1>19. Order(pg2, np2, L, rng2, A)
  <2>1. numpages \in 1 .. MaxPages /\ numpages <= np2
    BY <1>4, <1>14, Constants
  <2> QED  BY <1>8, <1>14, <1>16, <1>18, <2>1, OrderInner
<1>20. Size(numpages') = np2 /\ numpages' # 0
  BY <1>4, <1>6, <1>14 DEF Size
<1>21. Told(page', stack', call') = pg2
  BY <1>3, <1>6 DEF Told
<1>22. Ordered(page', numpages', pinned', stack', call', A)
  BY <1>3, <1>6, <1>13, <1>14, <1>19, <1>20, <1>21 DEF Ordered
<1> QED  BY <1>22 DEF OrderIs

(* The root is fixed and is as it was; no leaf has changed. *)
LEMMA AddFailsOrder ==
  ASSUME NEW A, OrderIs(A), AMInv, ~Idle, NEW h, NEW p, NEW x, NEW c, NEW off, NEW d,
         ParentIs(h, p, x, c, off, d), Len(x.keys) = MaxKeys, numpages + 2 <= MaxPages,
         NEW y, y = AM_SplitIntNode(x, call.key, c, off), AddFails(p, y)
  PROVE  OrderIs(A)'
<1>1. PICK z : z = AM_AddtoIntPage(x, call.key, c, off)
  OBVIOUS
<1>2. PICK pg2 : pg2 = page'
  OBVIOUS
<1>3. PICK np \in Nat : np = numpages /\ np >= 1 /\ np + 2 <= MaxPages
  <2>1. numpages \in 1 .. MaxPages
    BY DEF ParentIs
  <2> QED  BY <2>1, Constants
<1>4. /\ p = 0 /\ pg2 = [page EXCEPT ![np] = y.second] /\ numpages' = np + 1
      /\ call' = NoCall /\ pinned' = pinned \cup {0, np}
  BY <1>2, <1>3 DEF AddFails, AM_RootPageNum, Return
<1>5. GoodNode(x) /\ call.key \in Value /\ c \in PageNum /\ off \in 0 .. Len(x.keys) /\ x = page[p]
  BY DEF ParentIs
<1>6. y.second.pageType = "i" /\ page[0].pageType = "i"
  <2>1. NodeSplit(y, x, c)
    BY <1>5, SplitIntNodeGood
  <2>2. y.second.pageType = "i"
    BY <2>1, NodeParts DEF NodeSplit
  <2>3. x.pageType = "i"
    BY <1>5, NodeParts
  <2> QED  BY <1>4, <1>5, <2>2, <2>3
<1>7. PICK V, L, rng : Telling(p, x, z, V, A, L, rng)
  BY <1>1, ParentTold
<1>8. DOMAIN page = PageNum /\ rng \in [PageNum -> SUBSET Value]
  BY <1>7 DEF Telling, Routes
<1>9. np \in PageNum /\ 0 \in PageNum /\ np # 0
  BY <1>3, Constants DEF PageNum
<1>10. PICK np2 \in Nat : np2 = np + 1 /\ np <= np2 /\ np2 <= MaxPages
  BY <1>3, Constants
<1>11. \A q \in PageNum : IF q = p \/ (numpages <= q /\ q < np2) THEN pg2[q].pageType = "i"
                          ELSE pg2[q] = page[q]
  <2>1. \A q \in PageNum : (numpages <= q /\ q < np2) <=> q = np
    BY <1>3, <1>10, Constants DEF PageNum
  <2>2. pg2[np] = y.second /\ \A q \in PageNum : q # np => pg2[q] = page[q]
    BY <1>4, <1>8, <1>9
  <2> QED  BY <1>4, <1>6, <1>9, <2>1, <2>2
<1>12. Order(pg2, np2, L, rng, A)
  <2>1. numpages \in 1 .. MaxPages /\ numpages <= np2
    BY <1>3, <1>10, Constants
  <2> QED  BY <1>7, <1>8, <1>10, <1>11, <2>1, OrderInner
<1>13. Size(numpages') = np2 /\ numpages' # 0
  BY <1>4, <1>10 DEF Size
<1>14. Ordered(page', numpages', pinned', stack', call', A)
  BY <1>2, <1>4, <1>12, <1>13 DEF Ordered
<1> QED  BY <1>14 DEF OrderIs

LEMMA AddtoParentOrder ==
  ASSUME NEW A, OrderIs(A), AMInv, AM_AddtoParent
  PROVE  OrderIs(A)'
<1>1. ~Idle
  BY DEF AM_AddtoParent
<1>2. PICK h, p, x, c, off, d : ParentIs(h, p, x, c, off, d)
  BY <1>1, ParentOnStack
<1>3. PICK y : y = AM_SplitIntNode(x, call.key, c, off)
  OBVIOUS
<1>4. p = Parent.pageNumber /\ x = page[p] /\ c = call.pageNum /\ off = Parent.offset
  BY <1>2 DEF ParentIs
<1>5. numpages + 2 <= MaxPages
  <2>1. d \in 1 .. Len(stack) /\ numpages + d + 1 <= MaxPages /\ numpages \in 1 .. MaxPages
    BY <1>2 DEF ParentIs
  <2>2. d \in Nat /\ d > 0
    BY <2>1 DEF AMInv
  <2> QED  BY <2>1, <2>2, Constants
<1>6. \/ AddFits
      \/ Len(x.keys) = MaxKeys /\ (AddBelow(p, y) \/ AddAtRoot(p, y) \/ AddFails(p, y))
  BY <1>3, <1>4 DEF AM_AddtoParent
<1>7. CASE AddFits
  BY <1>1, <1>2, <1>7, AddFitsOrder
<1>8. CASE Len(x.keys) = MaxKeys /\ AddBelow(p, y)
  BY <1>1, <1>2, <1>3, <1>8, AddBelowOrder
<1>9. CASE Len(x.keys) = MaxKeys /\ AddAtRoot(p, y)
  BY <1>1, <1>2, <1>3, <1>5, <1>9, AddAtRootOrder
<1>10. CASE Len(x.keys) = MaxKeys /\ AddFails(p, y)
  BY <1>1, <1>2, <1>3, <1>5, <1>10, AddFailsOrder
<1> QED  BY <1>6, <1>7, <1>8, <1>9, <1>10

-----------------------------------------------------------------------------
(* Every step. *)

NoEntries        == [w \in Value |-> << >>]
With(A, v, r)    == [A EXCEPT ![v] = <<r>> \o @]
Without(A, v, r) == [A EXCEPT ![v] = RemoveAt(@, FirstOf(@, r))]

(* What clients have been told. *)
Answer == IF Idle THEN ret ELSE AME_OK
Errors == {AME_PF, AME_INVALIDATTRLENGTH}

(* What a step does, from the entries A to the entries A2. *)
Happens(A, A2) ==
    \/ A2 = A /\ (Answer' \in {AME_OK} \cup Errors \/ Answer' = Answer)
    \/ A2 = A /\ Answer' = AME_NOTFOUND /\ \E v \in Value, r \in RecId : r \notin Range(A[v])
    \/ A2 = NoEntries /\ Answer' = AME_OK
    \/ \E v \in Value, r \in RecId : A2 = With(A, v, r) /\ Answer' \in {AME_OK} \cup Errors
    \/ \E v \in Value, r \in RecId : A2 = Without(A, v, r) /\ Answer' = AME_OK /\ r \in Range(A[v])

LEMMA NoPages ==
  ASSUME NEW A, OrderIs(A), numpages = 0
  PROVE  A = NoEntries
<1>1. PICK L, rng : Order(page, 1, L, rng, A) /\ page[0] = EmptyLeaf
  BY DEF OrderIs, Ordered, Size
<1>2. \A i \in 1 .. Len(L) : L[i] = 0
  <2>1. \A i \in 1 .. Len(L) : L[i] \in 0 .. 1 - 1
    BY <1>1 DEF Order, Linking
  <2>2. \A q \in 0 .. 1 - 1 : q = 0
    OBVIOUS
  <2> QED  BY <2>1, <2>2
<1>3. A \in [Value -> Seq(RecId)]
  BY <1>1 DEF Order, Holding
<1>4. ASSUME NEW v \in Value PROVE A[v] = << >>
  <2>1. PICK i \in 1 .. Len(L) : v \in rng[L[i]]
    BY <1>1 DEF Order, Sorted
  <2>2. RecordsIn(page[L[i]], v) = A[v]
    BY <1>1, <2>1 DEF Order, Holding
  <2>3. RecordsIn(EmptyLeaf, v) = << >>
    BY EmptyContents DEF Contents
  <2> QED  BY <1>1, <1>2, <2>2, <2>3
<1> QED  BY <1>3, <1>4 DEF NoEntries

LEMMA FileOrder ==
  ASSUME NEW A, OrderIs(A), AMInv, status = "none" => numpages = 0,
         AM_CreateIndex \/ AM_DestroyIndex \/ PF_OpenFile \/ PF_CloseFile \/ OtherFiles
  PROVE  \E A2 \in {A, NoEntries} : OrderIs(A2)' /\ Happens(A, A2)
<1>1. Idle
  BY DEF AM_CreateIndex, AM_DestroyIndex, PF_OpenFile, PF_CloseFile, OtherFiles
<1>2. ASSUME UNCHANGED <<numpages, page, pinned>>, call' = NoCall, ret' \in {AME_OK, AME_PF, ret}
      PROVE  OrderIs(A)' /\ Happens(A, A)
  <2>1. OrderIs(A)'
    BY <1>1, <1>2, OrderUnchanged
  <2>2. Answer' = ret' /\ Answer = ret
    BY <1>1, <1>2 DEF Answer, Idle
  <2> QED  BY <1>2, <2>1, <2>2 DEF Happens, Errors
<1>3. CASE PF_OpenFile \/ PF_CloseFile \/ OtherFiles
  BY <1>2, <1>3 DEF PF_OpenFile, PF_CloseFile, OtherFiles, Return, Idle, file
<1>4. CASE AM_CreateIndex
  <2>1. CASE UNCHANGED <<numpages, page>>
    BY <1>2, <1>4, <2>1 DEF AM_CreateIndex, Return
  <2>2. CASE ~UNCHANGED <<numpages, page>>
    <3>1. /\ numpages = 0 /\ numpages' = 1 /\ page' = [page EXCEPT ![0] = EmptyLeaf]
          /\ call' = NoCall /\ ret' = AME_OK
      BY <1>4, <2>2 DEF AM_CreateIndex, Return, file, AM_RootPageNum
    <3>2. page'[0] = EmptyLeaf
      <4>1. DOMAIN page = PageNum
        BY DEF AMInv, Tree, Nodes
      <4> QED  BY <3>1, <4>1, Constants
    <3>3. PICK pg, fixed, st : pg = page' /\ fixed = pinned' /\ st = stack'
      OBVIOUS
    <3>4. PICK np \in 0 .. 1 : np = numpages'
      BY <3>1
    <3>5. OrderIs(NoEntries)'
      <4>1. Ordered(pg, np, fixed, st, NoCall, NoEntries)
        BY <3>2, <3>3, OrderEmpty DEF NoEntries
      <4> QED  BY <3>1, <3>3, <3>4, <4>1 DEF OrderIs
    <3>6. A = NoEntries
      BY <3>1, NoPages
    <3>7. Answer' = AME_OK
      BY <3>1 DEF Answer, Idle
    <3> QED  BY <3>5, <3>6, <3>7 DEF Happens
  <2> QED  BY <2>1, <2>2
<1>5. CASE AM_DestroyIndex
  <2>1. CASE UNCHANGED <<numpages, page>>
    BY <1>2, <1>5, <2>1 DEF AM_DestroyIndex, Return
  <2>2. CASE ~UNCHANGED <<numpages, page>>
    <3>1. /\ numpages' = 0 /\ page' = [p \in PageNum |-> EmptyLeaf]
          /\ call' = NoCall /\ ret' = AME_OK
      BY <1>5, <2>2 DEF AM_DestroyIndex, Return, file
    <3>2. page'[0] = EmptyLeaf
      BY <3>1, Constants
    <3>3. PICK pg, fixed, st : pg = page' /\ fixed = pinned' /\ st = stack'
      OBVIOUS
    <3>4. PICK np \in 0 .. 1 : np = numpages'
      BY <3>1
    <3>5. OrderIs(NoEntries)'
      <4>1. Ordered(pg, np, fixed, st, NoCall, NoEntries)
        BY <3>2, <3>3, OrderEmpty DEF NoEntries
      <4> QED  BY <3>1, <3>3, <3>4, <4>1 DEF OrderIs
    <3>6. Answer' = AME_OK
      BY <3>1 DEF Answer, Idle
    <3> QED  BY <3>5, <3>6 DEF Happens
  <2> QED  BY <2>1, <2>2
<1> QED  BY <1>3, <1>4, <1>5

LEMMA DeleteOrder ==
  ASSUME NEW A, OrderIs(A), AMInv, NEW v \in Value, NEW r \in RecId, NEW known \in BOOLEAN,
         AM_DeleteEntry(v, r, known)
  PROVE  \E A2 : OrderIs(A2)' /\ Happens(A, A2)
<1>1. Idle /\ status = "open"
  BY DEF AM_DeleteEntry, MaySearch
<1>2. PICK h : Arrives(h, v)
  BY <1>1, SearchReaches
<1>3. CASE DeleteFails(v, known)
  <2>1. /\ pinned \subseteq pinned' /\ call' = NoCall /\ ret' \in Errors /\ UNCHANGED <<numpages, page>>
    BY <1>3 DEF DeleteFails, SearchFails, Return, Errors, file
  <2>2. OrderIs(A)'
    BY <1>1, <2>1, OrderUnchanged
  <2>3. Answer' = ret'
    BY <2>1 DEF Answer, Idle
  <2> QED  BY <2>1, <2>2, <2>3 DEF Happens
<1>4. CASE DeleteNotFound(v, r)
  <2>1. PICK p : p = Last(PathTo(v))
    OBVIOUS
  <2>2. /\ pinned \subseteq pinned' /\ call' = NoCall /\ ret' = AME_NOTFOUND /\ UNCHANGED <<numpages, page>>
        /\ Got(PathTo(v)) = Len(PathTo(v)) /\ ~Contains(RecordsIn(page[p], v), r)
    BY <1>4, <2>1 DEF DeleteNotFound, Return, file
  <2>3. OrderIs(A)'
    BY <1>1, <2>2, OrderUnchanged
  <2>4. 0 \notin pinned
    BY <1>2, <2>2, GotUnpinned
  <2>5. RecordsIn(page[p], v) = A[v] /\ A[v] \in Seq(RecId)
    BY <1>1, <1>2, <2>1, <2>4, LeafHas
  <2>6. r \notin Range(A[v])
    BY <2>2, <2>5 DEF Contains, Range
  <2>7. Answer' = AME_NOTFOUND
    BY <2>2 DEF Answer, Idle
  <2> QED  BY <2>3, <2>6, <2>7 DEF Happens
<1>5. CASE DeleteFound(v, r)
  <2>1. OrderIs(Without(A, v, r))' /\ r \in Range(A[v])
    BY <1>1, <1>2, <1>5, DeleteFoundOrder DEF Without
  <2>2. Answer' = AME_OK
    BY <1>5 DEF DeleteFound, Return, Answer, Idle
  <2> QED  BY <2>1, <2>2 DEF Happens
<1> QED  BY <1>3, <1>4, <1>5 DEF AM_DeleteEntry

(* An insertion inserts its entry, unless it fails. *)
LEMMA InsertOrder ==
  ASSUME FewPerKey, NEW A, OrderIs(A), AMInv, NEW v \in Value, NEW r \in RecId, NEW known \in BOOLEAN,
         AM_InsertEntry(v, r, known)
  PROVE  \/ OrderIs(A)' /\ Idle' /\ ret' \in Errors
         \/ OrderIs(With(A, v, r))' /\ Answer' \in {AME_OK} \cup Errors
<1>1. Idle /\ status = "open" /\ numpages + Len(PathTo(v)) + 1 <= MaxPages
  BY DEF AM_InsertEntry, MaySearch
<1>2. PICK h : Arrives(h, v)
  BY <1>1, SearchReaches
<1>3. PICK p : p = Last(PathTo(v))
  OBVIOUS
<1>4. Len(RecordsIn(page[p], v)) < MaxPerKey
  BY <1>3 DEF AM_InsertEntry
<1>5. ASSUME UNCHANGED <<numpages, page>>, pinned \subseteq pinned', call' = NoCall, ret' \in Errors
      PROVE  OrderIs(A)' /\ Idle' /\ ret' \in Errors
  BY <1>1, <1>5, OrderUnchanged DEF Idle
<1>6. CASE InsertFails(v, known)
  <2>1. UNCHANGED <<numpages, page>> /\ pinned \subseteq pinned' /\ call' = NoCall /\ ret' \in Errors
    BY <1>6 DEF InsertFails, SearchFails, Return, Errors, file
  <2> QED  BY <1>5, <2>1
<1>7. CASE InsertFits(v, r)
  <2>1. OrderIs(With(A, v, r))'
    BY <1>1, <1>2, <1>3, <1>4, <1>7, InsertFitsOrder DEF With
  <2>2. Answer' = AME_OK
    BY <1>7 DEF InsertFits, Return, Answer, Idle
  <2> QED  BY <2>1, <2>2
<1>8. CASE InsertSplits(v, r)
  <2>1. PICK s : s = PathTo(v)
    OBVIOUS
  <2>2. PICK y : y = Halves(page[p], v, r, numpages)
    OBVIOUS
  <2>3. PICK key : key = y.second.keys[1].value
    OBVIOUS
  <2>4. /\ Got(s) = Len(s) /\ ~Fits(page[p], Found(Values(page[p]), v)) /\ p = Last(s)
        /\ \/ SplitBelow(p, y, key) /\ stack' = Pushed(s, v)
           \/ SplitRoot(p, y, key)
           \/ NoNewLeaf(p)
           \/ NoNewRoot(p, y)
    BY <1>3, <1>8, <2>1, <2>2, <2>3 DEF InsertSplits
  <2>5. numpages < MaxPages /\ numpages + 2 <= MaxPages
    <3>1. numpages \in 1 .. MaxPages /\ h[0] \in Nat /\ Len(PathTo(v)) = h[0] + 1
      BY <1>2 DEF Arrives
    <3>2. PICK H \in Nat : H = h[0]
      BY <3>1
    <3>3. numpages + (H + 1) + 1 <= MaxPages
      BY <1>1, <3>1, <3>2
    <3> QED  BY <3>1, <3>2, <3>3, Constants, SMTT(40)
  <2>6. PICK L, rng : Splits(p, y, A, With(A, v, r), L, rng)
    <3>1. \E L, rng : Splits(p, y, A, [A EXCEPT ![v] = <<r>> \o @], L, rng)
      BY <1>1, <1>2, <1>3, <1>4, <2>1, <2>2, <2>4, <2>5, LeafIsSplit
    <3> QED  BY <3>1 DEF With
  <2>7. CASE SplitBelow(p, y, key) /\ stack' = Pushed(s, v)
    <3>1. OrderIs(With(A, v, r))'
      BY <1>2, <2>1, <2>3, <2>4, <2>5, <2>6, <2>7, SplitBelowOrder
    <3>2. call'.pageNum = numpages
      BY <2>7 DEF SplitBelow
    <3>3. ~Idle'
      <4>1. numpages # AM_NULL_PAGE
        BY <1>2, Constants DEF AM_NULL_PAGE, Arrives
      <4> QED  BY <3>2, <4>1 DEF Idle, NoCall
    <3> QED  BY <3>1, <3>3 DEF Answer
  <2>8. CASE SplitRoot(p, y, key)
    <3>1. p = 0 /\ call' = NoCall /\ ret' = AME_OK
      BY <2>8 DEF SplitRoot, AM_RootPageNum, Return
    <3>2. OrderIs(With(A, v, r))'
      BY <1>2, <2>3, <2>5, <2>6, <2>8, <3>1, SplitRootOrder
    <3> QED  BY <3>1, <3>2 DEF Answer, Idle
  <2>9. CASE NoNewLeaf(p)
    <3>1. UNCHANGED <<numpages, page>> /\ pinned \subseteq pinned' /\ call' = NoCall /\ ret' \in Errors
      BY <2>9 DEF NoNewLeaf, Return, Errors
    <3> QED  BY <1>5, <3>1
  <2>10. CASE NoNewRoot(p, y)
    <3>1. p = 0 /\ call' = NoCall /\ ret' = AME_PF
      BY <2>10 DEF NoNewRoot, AM_RootPageNum, Return
    <3>2. OrderIs(With(A, v, r))'
      BY <1>2, <2>5, <2>6, <2>10, <3>1, NoNewRootOrder
    <3> QED  BY <3>1, <3>2 DEF Answer, Idle, Errors
  <2> QED  BY <2>4, <2>7, <2>8, <2>9, <2>10
<1> QED  BY <1>6, <1>7, <1>8 DEF AM_InsertEntry

LEMMA NextOrder ==
  ASSUME FewPerKey, NEW A, OrderIs(A), AMInv, status = "none" => numpages = 0, AMNext
  PROVE  \E A2 : OrderIs(A2)' /\ Happens(A, A2)
<1>1. CASE AM_CreateIndex \/ AM_DestroyIndex \/ PF_OpenFile \/ PF_CloseFile \/ OtherFiles
  BY <1>1, FileOrder
<1>2. CASE \E v \in Value, r \in RecId, known \in BOOLEAN : AM_InsertEntry(v, r, known)
  <2>1. PICK v \in Value, r \in RecId, known \in BOOLEAN : AM_InsertEntry(v, r, known)
    BY <1>2
  <2>2. CASE OrderIs(A)' /\ Idle' /\ ret' \in Errors
    <3>1. Answer' \in Errors
      BY <2>2 DEF Answer
    <3> QED  BY <2>2, <3>1 DEF Happens
  <2>3. CASE OrderIs(With(A, v, r))' /\ Answer' \in {AME_OK} \cup Errors
    BY <2>3 DEF Happens
  <2> QED  BY <2>1, <2>2, <2>3, InsertOrder
<1>3. CASE \E v \in Value, r \in RecId, known \in BOOLEAN : AM_DeleteEntry(v, r, known)
  BY <1>3, DeleteOrder
<1>4. CASE AM_AddtoParent
  <2>1. OrderIs(A)'
    BY <1>4, AddtoParentOrder
  <2>2. Answer' \in {AME_OK} \cup Errors
    <3>1. Idle' => ret' \in {AME_OK} \cup Errors
      <4>1. (call' = NoCall /\ ret' \in {AME_OK, AME_PF}) \/ call' # NoCall
        <5>1. CASE AddFits
          BY <5>1 DEF AddFits, Return
        <5>2. ASSUME NEW p, NEW y, AddBelow(p, y) PROVE call' # NoCall
          <6>1. call'.pageNum = numpages
            BY <5>2 DEF AddBelow
          <6>2. numpages # AM_NULL_PAGE
            BY Constants DEF AMInv, AM_NULL_PAGE
          <6> QED  BY <6>1, <6>2 DEF NoCall
        <5>3. ASSUME NEW p, NEW y, AddAtRoot(p, y) \/ AddFails(p, y)
              PROVE  call' = NoCall /\ ret' \in {AME_OK, AME_PF}
          BY <5>3 DEF AddAtRoot, AddFails, Return
        <5> QED  BY <1>4, <5>1, <5>2, <5>3 DEF AM_AddtoParent
      <4> QED  BY <4>1 DEF Idle, Errors
    <3> QED  BY <3>1 DEF Answer
  <2> QED  BY <2>1, <2>2 DEF Happens
<1> QED  BY <1>1, <1>2, <1>3, <1>4 DEF AMNext

-----------------------------------------------------------------------------
(* The inductive invariant. *)

NoFile == status \in {"none", "lost"} => numpages = 0

OrderInv == AMInv /\ NoFile /\ \E A : OrderIs(A)

LEMMA InitOrder == AMInit => OrderInv
<1> SUFFICES ASSUME AMInit PROVE OrderInv
  OBVIOUS
<1>1. AMInv
  BY InitInv
<1>2. NoFile
  BY DEF AMInit, NoFile
<1>3. page[0] = EmptyLeaf
  BY Constants DEF AMInit
<1>4. PICK pg, fixed, st : pg = page /\ fixed = pinned /\ st = stack
  OBVIOUS
<1>5. PICK np \in 0 .. 1 : np = numpages
  BY DEF AMInit
<1>6. Ordered(pg, np, fixed, st, NoCall, NoEntries)
  BY <1>3, <1>4, OrderEmpty DEF NoEntries
<1>7. OrderIs(NoEntries)
  BY <1>4, <1>5, <1>6 DEF OrderIs, AMInit
<1> QED  BY <1>1, <1>2, <1>7 DEF OrderInv

LEMMA NoFileKept ==
  ASSUME AMInv, NoFile, AMNext
  PROVE  NoFile'
<1>1. CASE AM_CreateIndex \/ AM_DestroyIndex
  BY <1>1 DEF AM_CreateIndex, AM_DestroyIndex, file, NoFile
<1>2. CASE PF_OpenFile \/ PF_CloseFile \/ OtherFiles
  BY <1>2 DEF PF_OpenFile, PF_CloseFile, OtherFiles, file, NoFile
<1>3. ASSUME status = "open", status' = status PROVE NoFile'
  BY <1>3 DEF NoFile
<1>4. ASSUME NEW v \in Value, NEW r \in RecId, NEW known \in BOOLEAN, AM_InsertEntry(v, r, known)
      PROVE  NoFile'
  <2>1. status = "open"
    BY <1>4 DEF AM_InsertEntry, MaySearch
  <2>2. CASE InsertFails(v, known)
    BY <2>2 DEF InsertFails, SearchFails, file, NoFile
  <2>3. CASE InsertFits(v, r)
    BY <1>3, <2>1, <2>3 DEF InsertFits
  <2>4. CASE InsertSplits(v, r)
    BY <1>3, <2>1, <2>4 DEF InsertSplits
  <2> QED  BY <1>4, <2>2, <2>3, <2>4 DEF AM_InsertEntry
<1>5. ASSUME NEW v \in Value, NEW r \in RecId, NEW known \in BOOLEAN, AM_DeleteEntry(v, r, known)
      PROVE  NoFile'
  <2>1. status = "open"
    BY <1>5 DEF AM_DeleteEntry, MaySearch
  <2>2. CASE DeleteFails(v, known)
    BY <2>2 DEF DeleteFails, SearchFails, file, NoFile
  <2>3. CASE DeleteNotFound(v, r)
    BY <2>3 DEF DeleteNotFound, file, NoFile
  <2>4. CASE DeleteFound(v, r)
    BY <1>3, <2>1, <2>4 DEF DeleteFound
  <2> QED  BY <1>5, <2>2, <2>3, <2>4 DEF AM_DeleteEntry
<1>6. CASE AM_AddtoParent
  <2>1. status = "open"
    BY <1>6 DEF AM_AddtoParent, AMInv
  <2>2. status' = status
    BY <1>6 DEF AM_AddtoParent
  <2> QED  BY <1>3, <2>1, <2>2
<1> QED  BY <1>1, <1>2, <1>4, <1>5, <1>6 DEF AMNext

LEMMA OrderInductive ==
  ASSUME FewPerKey
  PROVE  OrderInv /\ [AMNext]_amvars => OrderInv'
<1> SUFFICES ASSUME OrderInv, [AMNext]_amvars PROVE OrderInv'
  OBVIOUS
<1>1. AMInv'
  BY AMInvInductive DEF OrderInv
<1>2. PICK A : OrderIs(A)
  BY DEF OrderInv
<1>3. CASE AMNext
  <2>1. NoFile'
    BY <1>3, NoFileKept DEF OrderInv
  <2>2. status = "none" => numpages = 0
    BY DEF OrderInv, NoFile
  <2>3. PICK A2 : OrderIs(A2)'
    BY <1>2, <1>3, <2>2, NextOrder DEF OrderInv
  <2> QED  BY <1>1, <2>1, <2>3 DEF OrderInv
<1>4. CASE UNCHANGED amvars
  <2>1. NoFile'
    BY <1>4 DEF OrderInv, NoFile, amvars
  <2>2. OrderIs(A)'
    BY <1>2, <1>4 DEF OrderIs, amvars
  <2> QED  BY <1>1, <2>1, <2>2 DEF OrderInv
<1> QED  BY <1>3, <1>4

LEMMA OrderHolds ==
  ASSUME FewPerKey
  PROVE  AMSpec => []OrderInv
<1>1. AMInit => OrderInv
  BY InitOrder
<1>2. OrderInv /\ [AMNext]_amvars => OrderInv'
  BY OrderInductive
<1> QED  BY <1>1, <1>2, PTL DEF AMSpec

(* However leaves split, and whatever calls fail half-way: from page 2, or *)
(* from the root while it is a leaf, the chain that amscan.c:504 follows   *)
(* comes to every leaf once and to every key in order.                     *)
THEOREM ChainStaysWhole ==
  ASSUME FewPerKey
  PROVE  AMSpec => []ChainIsWhole
<1>1. OrderInv => ChainIsWhole
  <2> SUFFICES ASSUME OrderInv PROVE ChainIsWhole
    OBVIOUS
  <2>1. PICK A : OrderIs(A)
    BY DEF OrderInv
  <2>2. numpages \in 0 .. MaxPages /\ Nodes(page)
    BY DEF OrderInv, AMInv, Tree
  <2>3. CASE numpages = 0
    <3>1. ~(numpages > 0)
      BY <2>3
    <3> QED  BY <3>1 DEF ChainIsWhole
  <2>4. CASE numpages # 0
    <3>1. numpages \in 1 .. MaxPages
      BY <2>2, <2>4, Constants
    <3>2. PICK L, rng : Order(page, numpages, L, rng, A)
      BY <2>1, <3>1, OrderParts
    <3> QED  BY <2>2, <3>1, <3>2, ChainShows
  <2> QED  BY <2>3, <2>4
<1> QED  BY <1>1, OrderHolds, PTL

(* A leaf finds the values that it has. *)
LEMMA FindsItsOwn ==
  ASSUME NEW l, GoodLeaf(l), NEW v \in Value, v \in Range(Values(l))
  PROVE  Found(Values(l), v)
<1>1. PICK i : FoundAt(l, v, i, Found(Values(l), v))
  BY FoundIs
<1>2. i \in 1 .. Len(l.keys) + 1 /\ Len(l.keys) \in Nat
  BY <1>1, LeafParts DEF FoundAt, Place, GoodLeaf
<1>3. /\ Values(l) \in Seq(Int) /\ Len(Values(l)) = Len(l.keys)
      /\ \A j \in 1 .. Len(l.keys) : Values(l)[j] = l.keys[j].value
  BY ValuesAre DEF GoodLeaf
<1>4. PICK k \in 1 .. Len(l.keys) : l.keys[k].value = v
  BY <1>2, <1>3, SMTT(40) DEF Range
<1>5. \A j \in 1 .. Len(l.keys) : l.keys[j].value \in Int
  BY <1>2, <1>3
<1>6. v \in Int
  BY <1>4, <1>5
<1>7. \A j \in 1 .. Len(l.keys) : IF j < i THEN l.keys[j].value < v ELSE v <= l.keys[j].value
  BY <1>1 DEF FoundAt, Place
<1>8. ~(k < i)
  BY <1>4, <1>6, <1>7
<1>9. i \in 1 .. Len(l.keys) /\ i <= k
  BY <1>2, <1>8
<1>10. v <= l.keys[i].value
  BY <1>7, <1>9
<1>11. l.keys[i].value <= v
  <2>1. CASE i = k
    BY <1>4, <1>6, <2>1
  <2>2. CASE i < k
    <3>1. Values(l)[i] < Values(l)[k]
      BY <1>2, <1>3, <1>9, <2>2 DEF GoodLeaf, Ascending
    <3> QED  BY <1>3, <1>4, <1>5, <1>6, <1>9, <3>1
  <2> QED  BY <1>2, <1>9, <2>1, <2>2
<1>12. l.keys[i].value = v
  BY <1>5, <1>6, <1>9, <1>10, <1>11
<1> QED  BY <1>1, <1>9, <1>12 DEF FoundAt

(* Between calls a search for a value that is in some leaf comes to that   *)
(* leaf and finds it there, unless a call that failed has left a page of   *)
(* its path fixed.                                                         *)
THEOREM SearchesFindAll ==
  ASSUME FewPerKey
  PROVE  AMSpec => []SearchFindsAll
<1>1. OrderInv => SearchFindsAll
  <2> SUFFICES ASSUME OrderInv, Idle, NEW p \in LeafPages, NEW v \in Range(Values(page[p]))
               PROVE  \/ Last(PathTo(v)) = p /\ Found(Values(page[p]), v)
                      \/ Range(PathTo(v)) \cap pinned # {}
    BY DEF SearchFindsAll
  <2>1. PICK A : OrderIs(A)
    BY DEF OrderInv
  <2>2. p \in 0 .. numpages - 1 /\ page[p].pageType = "l"
    BY DEF LeafPages, Pages
  <2>3. numpages \in 1 .. MaxPages /\ numpages # 0 /\ Nodes(page)
    BY <2>2, Constants DEF OrderInv, AMInv, Tree
  <2>4. PICK L0, rng0 : Order(page, numpages, L0, rng0, A)
    BY <2>1, <2>3, OrderParts
  <2>5. PICK i0 : IsAt(L0, rng0, p, i0)
    BY <2>2, <2>4, LeafIsAt
  <2>6. GoodLeaf(page[p]) /\ v \in Value
    BY <2>3, <2>4, <2>5, KeysInRange DEF IsAt
  <2>7. PICK h : Arrives(h, v)
    BY <2>3, <2>6, PathReaches DEF OrderInv
  <2>8. CASE 0 \in pinned
    <3>1. Walk(h, PathTo(v), v, h[0]) /\ h[0] \in Nat
      BY <2>7 DEF Arrives, PathIs
    <3>2. PathTo(v)[1] = 0 /\ 1 \in DOMAIN PathTo(v)
      BY <3>1 DEF Walk
    <3> QED  BY <2>8, <3>2 DEF Range
  <2>9. CASE 0 \notin pinned
    <3>1. PICK q : q = Last(PathTo(v))
      OBVIOUS
    <3>2. PICK L, rng : Order(page, numpages, L, rng, A) /\ Routes(page, numpages, rng) /\ v \in rng[q]
      BY <2>1, <2>6, <2>7, <2>9, <3>1, SearchFinds
    <3>3. q \in 0 .. numpages - 1 /\ page[q].pageType = "l"
      BY <2>7, <3>1 DEF Arrives, PathIs
    <3>4. PICK i : IsAt(L, rng, p, i)
      BY <2>2, <3>2, LeafIsAt
    <3>5. PICK j : IsAt(L, rng, q, j)
      BY <3>2, <3>3, LeafIsAt
    <3>6. v \in rng[p]
      BY <2>3, <3>2, <3>4, KeysInRange DEF IsAt
    <3>7. i = j
      BY <3>2, <3>4, <3>5, <3>6 DEF IsAt
    <3>8. q = p
      BY <3>4, <3>5, <3>7 DEF IsAt
    <3> QED  BY <2>6, <3>1, <3>8, FindsItsOwn
  <2> QED  BY <2>8, <2>9
<1> QED  BY <1>1, OrderHolds, PTL

(* How often r is in C. *)
Times(C, r) == {k \in 1 .. Len(C) : C[k] = r}

(* How often the entries A have each entry. *)
Counts(A) == [e \in Value \X RecId |-> Cardinality(Times(A[e[1]], e[2]))]

(* Sets between which there is a bijection are as large. *)
LEMMA AsLarge ==
  ASSUME NEW S, IsFiniteSet(S), NEW T, NEW f, DOMAIN f = S, f = [k \in S |-> f[k]],
         \A k \in S : f[k] \in T, \A j, k \in S : f[j] = f[k] => j = k,
         \A t \in T : \E k \in S : f[k] = t
  PROVE  IsFiniteSet(T) /\ Cardinality(T) = Cardinality(S)
<1>1. f \in [S -> T]
  OBVIOUS
<1>2. f \in Injection(S, T)
  BY <1>1 DEF Injection, IsInjective
<1>3. f \in Surjection(S, T)
  BY <1>1 DEF Surjection
<1>4. ExistsBijection(S, T)
  BY <1>2, <1>3 DEF Bijection, ExistsBijection
<1> QED  BY <1>4, FS_Bijection

LEMMA TimesFinite ==
  ASSUME NEW C \in Seq(RecId), NEW r
  PROVE  /\ IsFiniteSet(Times(C, r)) /\ Cardinality(Times(C, r)) \in Nat
         /\ Cardinality(Times(C, r)) = 0 <=> r \notin Range(C)
<1>1. IsFiniteSet(1 .. Len(C))
  BY FS_Interval
<1>2. Times(C, r) \in SUBSET (1 .. Len(C))
  BY DEF Times
<1>3. IsFiniteSet(Times(C, r))
  BY <1>1, <1>2, FS_Subset
<1>4. Times(C, r) = {} <=> r \notin Range(C)
  BY DEF Times, Range
<1> QED  BY <1>3, <1>4, FS_CardinalityType, FS_EmptySet

(* Without the record id at one place each is there as often, but that one. *)
LEMMA TimesRemoved ==
  ASSUME NEW C \in Seq(RecId), NEW i \in 1 .. Len(C), NEW u, u = RemoveAt(C, i), NEW r
  PROVE  Cardinality(Times(u, r)) = IF r = C[i] THEN Cardinality(Times(C, r)) - 1
                                    ELSE Cardinality(Times(C, r))
<1>1. /\ u \in Seq(RecId) /\ Len(u) = Len(C) - 1
      /\ \A p \in 1 .. Len(u) : u[p] = IF p < i THEN C[p] ELSE C[p + 1]
  BY RemoveAtIs
<1>2. PICK n \in Nat : n = Len(u)
  BY <1>1
<1>3. Len(C) = n + 1 /\ i \in 1 .. n + 1
  BY <1>1, <1>2
<1> DEFINE S == Times(u, r)
           f == [k \in S |-> IF k < i THEN k ELSE k + 1]
           T == Times(C, r) \ {i}
<1>4. IsFiniteSet(S) /\ IsFiniteSet(Times(C, r))
  BY <1>1, TimesFinite
<1>5. \A k \in S : k \in 1 .. n /\ u[k] = r /\ f[k] = IF k < i THEN k ELSE k + 1
  BY <1>2 DEF Times
<1>6. \A k \in S : f[k] \in T
  <2> SUFFICES ASSUME NEW k \in S PROVE f[k] \in 1 .. n + 1 /\ C[f[k]] = r /\ f[k] # i
    BY <1>3 DEF Times
  <2>1. k \in 1 .. n /\ u[k] = r /\ u[k] = IF k < i THEN C[k] ELSE C[k + 1]
    BY <1>1, <1>2, <1>5
  <2> QED  BY <1>3, <1>5, <2>1
<1>7. \A j, k \in S : f[j] = f[k] => j = k
  <2> HIDE DEF S, f
  <2> QED  BY <1>3, <1>5
<1>8. \A t \in T : \E k \in S : f[k] = t
  <2> SUFFICES ASSUME NEW t \in T PROVE \E k \in S : f[k] = t
    OBVIOUS
  <2>1. t \in 1 .. n + 1 /\ C[t] = r /\ t # i
    BY <1>3 DEF Times
  <2>2. CASE t < i
    <3>1. t \in 1 .. n
      BY <1>3, <2>1, <2>2
    <3>2. t \in S
      BY <1>1, <1>2, <2>1, <2>2, <3>1 DEF Times
    <3> QED  BY <1>5, <2>2, <3>2
  <2>3. CASE t > i
    <3>1. t - 1 \in 1 .. n /\ ~(t - 1 < i) /\ (t - 1) + 1 = t
      BY <1>3, <2>1, <2>3
    <3>2. t - 1 \in S
      BY <1>1, <1>2, <2>1, <3>1 DEF Times
    <3> QED  BY <1>5, <3>1, <3>2
  <2> QED  BY <1>3, <2>1, <2>2, <2>3
<1>9. Cardinality(T) = Cardinality(S)
  <2>1. DOMAIN f = S /\ f = [k \in S |-> f[k]]
    OBVIOUS
  <2> HIDE DEF S, T, f
  <2> QED  BY <1>4, <1>6, <1>7, <1>8, <2>1, AsLarge
<1>10. i \in Times(C, r) <=> r = C[i]
  BY DEF Times
<1>11. Cardinality(T) = IF i \in Times(C, r) THEN Cardinality(Times(C, r)) - 1
                        ELSE Cardinality(Times(C, r))
  BY <1>4, FS_RemoveElement
<1> QED  BY <1>9, <1>10, <1>11

Fronted(u, r, C) ==
    u \in Seq(RecId) /\ Len(u) = Len(C) + 1 /\ u[1] = r /\ \A p \in 1 .. Len(C) : u[p + 1] = C[p]

LEMMA FrontRemoved ==
  ASSUME NEW C \in Seq(RecId), NEW u \in Seq(RecId), NEW r, Fronted(u, r, C)
  PROVE  1 \in 1 .. Len(u) /\ RemoveAt(u, 1) = C
<1>1. Len(u) = Len(C) + 1 /\ \A p \in 1 .. Len(C) : u[p + 1] = C[p]
  BY DEF Fronted
<1>2. PICK c : c = RemoveAt(u, 1)
  OBVIOUS
<1>3. 1 \in 1 .. Len(u)
  BY <1>1
<1>4. /\ c \in Seq(RecId) /\ Len(c) = Len(u) - 1
      /\ \A p \in 1 .. Len(c) : c[p] = IF p < 1 THEN u[p] ELSE u[p + 1]
  BY <1>2, <1>3, RemoveAtIs
<1>5. c = C
  BY <1>1, <1>4
<1> QED  BY <1>2, <1>3, <1>5

(* One more in front. *)
LEMMA TimesAdded ==
  ASSUME NEW C \in Seq(RecId), NEW u \in Seq(RecId), NEW r, Fronted(u, r, C), NEW x
  PROVE  Cardinality(Times(u, x)) = IF x = r THEN Cardinality(Times(C, x)) + 1
                                    ELSE Cardinality(Times(C, x))
<1>1. 1 \in 1 .. Len(u) /\ RemoveAt(u, 1) = C
  BY FrontRemoved
<1>2. Cardinality(Times(C, x)) = IF x = u[1] THEN Cardinality(Times(u, x)) - 1
                                 ELSE Cardinality(Times(u, x))
  BY <1>1, TimesRemoved
<1>3. Cardinality(Times(u, x)) \in Nat
  BY TimesFinite
<1>4. u[1] = r
  BY DEF Fronted
<1> QED  BY <1>2, <1>3, <1>4

(* What an insertion and a deletion do to the counts. *)
LEMMA CountsChanged ==
  ASSUME NEW A \in [Value -> Seq(RecId)], NEW v \in Value, NEW r \in RecId
  PROVE  /\ Counts(With(A, v, r)) = [Counts(A) EXCEPT ![<<v, r>>] = @ + 1]
         /\ r \in Range(A[v]) =>
              Counts(Without(A, v, r)) = [Counts(A) EXCEPT ![<<v, r>>] = @ - 1]
<1>1. \A e \in Value \X RecId : e = <<e[1], e[2]>> /\ e[1] \in Value /\ e[2] \in RecId
  OBVIOUS
<1>2. Counts(With(A, v, r)) = [Counts(A) EXCEPT ![<<v, r>>] = @ + 1]
  <2>1. PICK u : u = <<r>> \o A[v]
    OBVIOUS
  <2>2. \A w \in Value : With(A, v, r)[w] = IF w = v THEN u ELSE A[w]
    BY <2>1 DEF With
  <2>3. \A x : Cardinality(Times(u, x)) = IF x = r THEN Cardinality(Times(A[v], x)) + 1
                                          ELSE Cardinality(Times(A[v], x))
    <3>1. PICK C \in Seq(RecId) : C = A[v]
      OBVIOUS
    <3>2. u \in Seq(RecId) /\ Fronted(u, r, C)
      BY <2>1, <3>1 DEF Fronted
    <3> QED  BY <3>1, <3>2, TimesAdded
  <2>4. \A e \in Value \X RecId : Counts(With(A, v, r))[e] = [Counts(A) EXCEPT ![<<v, r>>] = @ + 1][e]
    BY <1>1, <2>2, <2>3 DEF Counts
  <2> QED  BY <2>4 DEF Counts
<1>3. ASSUME r \in Range(A[v])
      PROVE  Counts(Without(A, v, r)) = [Counts(A) EXCEPT ![<<v, r>>] = @ - 1]
  <2>1. PICK k : k = FirstOf(A[v], r)
    OBVIOUS
  <2>2. k \in 1 .. Len(A[v]) /\ A[v][k] = r
    BY <1>3, <2>1, FirstIs
  <2>3. PICK u : u = RemoveAt(A[v], k)
    OBVIOUS
  <2>4. \A w \in Value : Without(A, v, r)[w] = IF w = v THEN u ELSE A[w]
    BY <2>1, <2>3 DEF Without
  <2>5. \A x : Cardinality(Times(u, x)) = IF x = r THEN Cardinality(Times(A[v], x)) - 1
                                          ELSE Cardinality(Times(A[v], x))
    BY <2>2, <2>3, TimesRemoved
  <2>6. \A e \in Value \X RecId : Counts(Without(A, v, r))[e] = [Counts(A) EXCEPT ![<<v, r>>] = @ - 1][e]
    BY <1>1, <2>4, <2>5 DEF Counts
  <2> QED  BY <2>6 DEF Counts
<1> QED  BY <1>2, <1>3

EntryAt(p, v, r, c) == [value |-> v, recId |-> r, cell |-> <<p, c>>]

LEMMA EntryIn ==
  ASSUME NEW p, NEW x
  PROVE  x \in EntriesIn(p) <=> \E i \in DOMAIN page[p].keys : \E c \in Range(KeyCells(page[p], i)) :
                                  x = EntryAt(p, page[p].keys[i].value, page[p].recId[c], c)
BY DEF EntriesIn, EntryAt

(* The entries for v in leaf p are in the cells s. *)
Lays(p, v, C, s) ==
    /\ \A j, k \in 1 .. Len(C) : s[j] = s[k] => j = k
    /\ \A x : x \in EntriesIn(p) /\ x.value = v <=> \E k \in 1 .. Len(C) : x = EntryAt(p, v, C[k], s[k])

LEMMA LeafLays ==
  ASSUME NEW p, GoodLeaf(page[p]), NEW v \in Value, NEW C, C = RecordsIn(page[p], v)
  PROVE  \E s : Lays(p, v, C, s)
<1>1. PICK l : l = page[p]
  OBVIOUS
<1>2. /\ l \in Leaf /\ Len(l.keys) \in Nat /\ DOMAIN l.keys = 1 .. Len(l.keys)
      /\ \A j, k \in 1 .. Len(l.keys) : l.keys[j].value = l.keys[k].value => j = k
  <2>1. l \in Leaf
    BY <1>1 DEF GoodLeaf
  <2> QED  BY <1>1, <2>1, LeafParts, ButForGood, ButForParts
<1>3. PICK L : Owns(l, L)
  <2>1. \E o, d : Lists(l, o, d)
    BY <1>1 DEF GoodLeaf
  <2> QED  BY <1>2, <2>1, OwnsItsLists
<1>4. ASSUME NEW i \in 1 .. Len(l.keys)
      PROVE  /\ Linked(l, L[i]) /\ KeyCells(l, i) = L[i] /\ Len(RecIds(l, i)) = Len(L[i])
             /\ \A k \in 1 .. Len(L[i]) : RecIds(l, i)[k] = l.recId[L[i][k]]
  <2>1. i \in 0 .. Len(l.keys) /\ i # 0
    BY <1>2
  <2>2. PICK s : s = L[i]
    OBVIOUS
  <2>3. Linked(l, s) /\ s = ListOf(l, i) /\ HeadOf(l, i) = FirstCell(s)
    BY <1>3, <2>1, <2>2 DEF Owns
  <2>4. KeyCells(l, i) = ListOf(l, i)
    BY <2>1 DEF KeyCells, ListOf, HeadOf
  <2> QED  BY <1>2, <2>2, <2>3, <2>4, RecIdsOf
<1>5. Holds(l, Contents(l)) /\ Contents(l)[v] = C
  BY <1>1, ContentsHold DEF Contents
<1>6. CASE \A i \in 1 .. Len(l.keys) : l.keys[i].value # v
  <2>1. C = << >>
    BY <1>5, <1>6 DEF Holds
  <2>2. ASSUME NEW x, x \in EntriesIn(p), x.value = v PROVE FALSE
    <3>1. PICK i \in 1 .. Len(l.keys) : \E c : x = EntryAt(p, l.keys[i].value, l.recId[c], c)
      BY <1>1, <1>2, <2>2, EntryIn
    <3> QED  BY <1>6, <2>2, <3>1 DEF EntryAt
  <2>3. Lays(p, v, C, << >>)
    BY <2>1, <2>2 DEF Lays
  <2> QED  BY <2>3
<1>7. ASSUME NEW i \in 1 .. Len(l.keys), l.keys[i].value = v PROVE \E s : Lays(p, v, C, s)
  <2>1. C = RecIds(l, i)
    BY <1>5, <1>7 DEF Holds
  <2>2. PICK s : s = L[i]
    OBVIOUS
  <2>3. /\ s \in Seq(Cell) /\ KeyCells(l, i) = s /\ Len(C) = Len(s)
        /\ \A k \in 1 .. Len(s) : C[k] = l.recId[s[k]]
        /\ \A j, k \in 1 .. Len(s) : s[j] = s[k] => j = k
    BY <1>4, <2>1, <2>2 DEF Linked
  <2>4. ASSUME NEW x, x \in EntriesIn(p), x.value = v
        PROVE  \E k \in 1 .. Len(C) : x = EntryAt(p, v, C[k], s[k])
    <3>0. PICK j \in 1 .. Len(l.keys) : \E c \in Range(KeyCells(l, j)) :
            x = EntryAt(p, l.keys[j].value, l.recId[c], c)
      BY <1>1, <1>2, <2>4, EntryIn
    <3>1. PICK c \in Range(KeyCells(l, j)) : x = EntryAt(p, l.keys[j].value, l.recId[c], c)
      BY <3>0
    <3>2. l.keys[j].value = v
      BY <2>4, <3>1 DEF EntryAt
    <3>3. j = i
      BY <1>2, <1>7, <3>2
    <3>4. PICK k \in 1 .. Len(s) : c = s[k]
      BY <2>3, <3>1, <3>3 DEF Range
    <3> QED  BY <2>3, <3>1, <3>2, <3>4
  <2>5. ASSUME NEW k \in 1 .. Len(C), NEW x, x = EntryAt(p, v, C[k], s[k])
        PROVE  x \in EntriesIn(p) /\ x.value = v
    <3>1. s[k] \in Range(KeyCells(l, i)) /\ C[k] = l.recId[s[k]]
      BY <2>3, <2>5 DEF Range
    <3>2. x \in EntriesIn(p)
      BY <1>1, <1>2, <1>7, <2>5, <3>1, EntryIn
    <3> QED  BY <2>5, <3>2 DEF EntryAt
  <2>6. Lays(p, v, C, s)
    BY <2>3, <2>4, <2>5 DEF Lays
  <2> QED  BY <2>6
<1> QED  BY <1>6, <1>7

(* The entries of an index, as a scan finds them, are those that its pages *)
(* hold in their order.                                                    *)
LEMMA EntriesAre ==
  ASSUME NEW A, OrderIs(A), Nodes(page), numpages \in 0 .. MaxPages
  PROVE  Entries = Counts(A) /\ A \in [Value -> Seq(RecId)]
<1>1. PICK np \in 1 .. MaxPages : np = Size(numpages)
  BY Constants DEF Size
<1>2. PICK L, rng : Order(page, np, L, rng, A)
  BY <1>1 DEF OrderIs, Ordered
<1>3. Chain = L
  BY <1>2, ChainIs DEF Order
<1>4. A \in [Value -> Seq(RecId)]
  BY <1>2 DEF Order, Holding
<1> DEFINE all == UNION {EntriesIn(p) : p \in Range(Chain)}
<1>5. ASSUME NEW v \in Value, NEW r \in RecId
      PROVE  Cardinality({x \in all : <<x.value, x.recId>> = <<v, r>>}) = Cardinality(Times(A[v], r))
  <2>1. PICK i \in 1 .. Len(L) : v \in rng[L[i]]
    BY <1>2 DEF Order, Sorted
  <2>2. PICK C \in Seq(RecId) : C = A[v]
    BY <1>4
  <2>3. ASSUME NEW j \in 1 .. Len(L)
        PROVE  GoodLeaf(page[L[j]]) /\ RecordsIn(page[L[j]], v) = IF v \in rng[L[j]] THEN C ELSE << >>
    BY <1>2, <2>2, KeysInRange DEF Order, Holding
  <2>4. PICK s : Lays(L[i], v, C, s)
    BY <2>1, <2>3, LeafLays
  <2>5. ASSUME NEW j \in 1 .. Len(L), j # i PROVE v \notin rng[L[j]]
    <3>1. Len(L) \in Nat /\ v \in Int
      BY <1>2, AMLeafAssumption DEF Order, Linking
    <3>2. i < j \/ j < i
      BY <2>5, <3>1
    <3>3. \A a, b \in 1 .. Len(L) : a < b => \A x \in rng[L[a]], y \in rng[L[b]] : x < y
      BY <1>2 DEF Order, Sorted
    <3>4. ~(v < v)
      BY <3>1
    <3> QED  BY <2>1, <3>2, <3>3, <3>4
  <2>6. ASSUME NEW x, x \in all, x.value = v PROVE x \in EntriesIn(L[i])
    <3>1. PICK j \in 1 .. Len(L) : x \in EntriesIn(L[j])
      BY <1>2, <1>3, <2>6, SMTT(40) DEF Range, Order, Linking
    <3>2. CASE j # i
      <4>1. RecordsIn(page[L[j]], v) = << >> /\ GoodLeaf(page[L[j]])
        BY <2>3, <2>5, <3>2
      <4>2. PICK t : Lays(L[j], v, << >>, t)
        BY <4>1, LeafLays
      <4> QED  BY <2>6, <3>1, <4>2 DEF Lays
    <3> QED  BY <3>1, <3>2
  <2>7. EntriesIn(L[i]) \subseteq all
    BY <1>2, <1>3, <2>1 DEF Range, Order, Linking
  <2> DEFINE T == {x \in all : <<x.value, x.recId>> = <<v, r>>}
             S == Times(C, r)
             f == [k \in S |-> EntryAt(L[i], v, r, s[k])]
  <2> HIDE DEF all
  <2>8. IsFiniteSet(S)
    BY TimesFinite
  <2>9. \A k \in S : k \in 1 .. Len(C) /\ C[k] = r /\ f[k] = EntryAt(L[i], v, r, s[k])
    BY DEF Times
  <2>10. \A k \in S : f[k] \in T
    <3> SUFFICES ASSUME NEW k \in S PROVE f[k] \in T
      OBVIOUS
    <3>1. PICK x : x = EntryAt(L[i], v, r, s[k])
      OBVIOUS
    <3>2. x \in EntriesIn(L[i])
      BY <2>4, <2>9, <3>1 DEF Lays
    <3>3. x.value = v /\ x.recId = r
      BY <3>1 DEF EntryAt
    <3> QED  BY <2>7, <2>9, <3>1, <3>2, <3>3
  <2>11. \A j, k \in S : f[j] = f[k] => j = k
    <3> SUFFICES ASSUME NEW j \in S, NEW k \in S, f[j] = f[k] PROVE j = k
      OBVIOUS
    <3>1. s[j] = s[k]
      BY <2>9 DEF EntryAt
    <3> QED  BY <2>4, <2>9, <3>1 DEF Lays
  <2>12. \A t \in T : \E k \in S : f[k] = t
    <3> SUFFICES ASSUME NEW t \in T PROVE \E k \in S : f[k] = t
      OBVIOUS
    <3>1. t \in all /\ t.value = v /\ t.recId = r
      OBVIOUS
    <3>2. PICK k \in 1 .. Len(C) : t = EntryAt(L[i], v, C[k], s[k])
      BY <2>4, <2>6, <3>1 DEF Lays
    <3>3. C[k] = r
      BY <3>1, <3>2 DEF EntryAt
    <3>4. k \in S
      BY <3>3 DEF Times
    <3> QED  BY <2>9, <3>2, <3>3, <3>4
  <2>13. DOMAIN f = S /\ f = [k \in S |-> f[k]]
    OBVIOUS
  <2> HIDE DEF T, S, f
  <2>14. Cardinality(T) = Cardinality(S)
    BY <2>8, <2>10, <2>11, <2>12, <2>13, AsLarge
  <2> QED  BY <2>2, <2>14 DEF T, S
<1>6. \A e \in Value \X RecId :
        Cardinality({x \in all : <<x.value, x.recId>> = e}) = Cardinality(Times(A[e[1]], e[2]))
  <2> SUFFICES ASSUME NEW e \in Value \X RecId
               PROVE  Cardinality({x \in all : <<x.value, x.recId>> = e}) = Cardinality(Times(A[e[1]], e[2]))
    OBVIOUS
  <2>1. PICK v \in Value, r \in RecId : e = <<v, r>>
    OBVIOUS
  <2>2. e[1] = v /\ e[2] = r
    BY <2>1
  <2> QED  BY <1>5, <2>1, <2>2
<1> QED  BY <1>4, <1>6 DEF Entries, Counts

EntriesOk == \A A : OrderIs(A) => Entries = Counts(A) /\ A \in [Value -> Seq(RecId)]

LEMMA EntriesHold == OrderInv => EntriesOk
<1> SUFFICES ASSUME OrderInv, NEW A, OrderIs(A)
             PROVE  Entries = Counts(A) /\ A \in [Value -> Seq(RecId)]
  BY DEF EntriesOk
<1>1. Nodes(page) /\ numpages \in 0 .. MaxPages
  BY DEF OrderInv, AMInv, Tree
<1> QED  BY <1>1, EntriesAre

LEMMA NoCounts == Counts(NoEntries) = [e \in Value \X RecId |-> 0]
<1>1. \A e \in Value \X RecId : NoEntries[e[1]] = << >>
  BY DEF NoEntries
<1>2. \A r : Cardinality(Times(<< >>, r)) = 0
  BY FS_EmptySet DEF Times
<1> QED  BY <1>1, <1>2 DEF Counts

(* Every step is one of Index, or does not show. *)
LEMMA StepIndexes ==
  ASSUME FewPerKey, OrderInv, EntriesOk, EntriesOk', [AMNext]_amvars
  PROVE  [IndexOf!IndexNext]_(IndexOf!indexvars)
<1>1. PICK A : OrderIs(A)
  BY DEF OrderInv
<1>2. Entries = Counts(A) /\ A \in [Value -> Seq(RecId)]
  BY <1>1 DEF EntriesOk
<1>3. \E A2 : OrderIs(A2)' /\ Happens(A, A2)
  <2>1. CASE AMNext
    <3>1. status = "none" => numpages = 0
      BY DEF OrderInv, NoFile
    <3> QED  BY <1>1, <2>1, <3>1, NextOrder DEF OrderInv
  <2>2. CASE UNCHANGED amvars
    <3>1. OrderIs(A)'
      BY <1>1, <2>2 DEF OrderIs, amvars
    <3>2. Answer' = Answer
      BY <2>2 DEF Answer, Idle, amvars
    <3> QED  BY <3>1, <3>2 DEF Happens
  <2> QED  BY <2>1, <2>2
<1>4. PICK A2 : OrderIs(A2)' /\ Happens(A, A2)
  BY <1>3
<1>5. Entries' = Counts(A2)
  BY <1>4 DEF EntriesOk
<1>6. AME_OK = IndexOf!OK /\ AME_NOTFOUND = IndexOf!NotFound /\ Errors = IndexOf!Errors
  BY DEF AME_OK, AME_NOTFOUND, Errors, AME_PF, AME_INVALIDATTRLENGTH, IndexOf!OK, IndexOf!NotFound,
         IndexOf!Errors
<1>7. CASE A2 = A /\ Answer' = Answer
  <2>1. Entries' = Entries
    BY <1>2, <1>5, <1>7
  <2> QED  BY <1>7, <2>1 DEF IndexOf!indexvars, Answer
<1>8. CASE A2 = A /\ Answer' \in {AME_OK} \cup Errors
  <2>1. Entries' = Entries
    BY <1>2, <1>5, <1>8
  <2>2. IndexOf!NoEntry
    BY <1>6, <1>8, <2>1 DEF IndexOf!NoEntry, Answer
  <2> QED  BY <2>2 DEF IndexOf!IndexNext
<1>9. ASSUME NEW v \in Value, NEW r \in RecId, A2 = A, Answer' = AME_NOTFOUND, r \notin Range(A[v])
      PROVE  IndexOf!IndexNext
  <2>1. Entries' = Entries
    BY <1>2, <1>5, <1>9
  <2>2. Entries[<<v, r>>] = 0
    <3>1. Entries[<<v, r>>] = Cardinality(Times(A[v], r))
      BY <1>2 DEF Counts
    <3> QED  BY <1>2, <1>9, <3>1, TimesFinite
  <2>3. IndexOf!Absent(<<v, r>>)
    BY <1>6, <1>9, <2>1, <2>2 DEF IndexOf!Absent, Answer
  <2> QED  BY <2>3 DEF IndexOf!IndexNext
<1>10. CASE A2 = NoEntries /\ Answer' = AME_OK
  <2>1. Entries' = [e \in Value \X RecId |-> 0]
    BY <1>5, <1>10, NoCounts
  <2>2. IndexOf!Destroy
    BY <1>6, <1>10, <2>1 DEF IndexOf!Destroy, Answer
  <2> QED  BY <2>2 DEF IndexOf!IndexNext
<1>11. ASSUME NEW v \in Value, NEW r \in RecId, A2 = With(A, v, r), Answer' \in {AME_OK} \cup Errors
       PROVE  IndexOf!IndexNext
  <2>1. Entries' = [Entries EXCEPT ![<<v, r>>] = @ + 1]
    BY <1>2, <1>5, <1>11, CountsChanged
  <2>2. IndexOf!Insert(<<v, r>>)
    BY <1>6, <1>11, <2>1 DEF IndexOf!Insert, Answer
  <2> QED  BY <2>2 DEF IndexOf!IndexNext
<1>12. ASSUME NEW v \in Value, NEW r \in RecId, A2 = Without(A, v, r), Answer' = AME_OK,
              r \in Range(A[v])
       PROVE  IndexOf!IndexNext
  <2>1. Entries' = [Entries EXCEPT ![<<v, r>>] = @ - 1]
    BY <1>2, <1>5, <1>12, CountsChanged
  <2>2. Entries[<<v, r>>] > 0
    <3>1. Entries[<<v, r>>] = Cardinality(Times(A[v], r))
      BY <1>2 DEF Counts
    <3>2. Cardinality(Times(A[v], r)) \in Nat /\ Cardinality(Times(A[v], r)) # 0
      BY <1>2, <1>12, TimesFinite
    <3> QED  BY <3>1, <3>2
  <2>3. IndexOf!Delete(<<v, r>>)
    BY <1>6, <1>12, <2>1, <2>2 DEF IndexOf!Delete, Answer
  <2> QED  BY <2>3 DEF IndexOf!IndexNext
<1> QED  BY <1>4, <1>7, <1>8, <1>9, <1>10, <1>11, <1>12 DEF Happens

(***************************************************************************)
(* The access method implements Index: splits, compactions and pages got   *)
(* in vain do not show, an entry is not found only if there is none, and a *)
(* call that fails half-way loses no entry.                                *)
(***************************************************************************)
THEOREM TreeImplementsIndex ==
  ASSUME FewPerKey
  PROVE  AMSpec => ImplementsIndex
<1>1. AMSpec => []OrderInv
  BY OrderHolds
<1>2. OrderInv => EntriesOk
  BY EntriesHold
<1>3. AMInit => IndexOf!IndexInit
  <2> SUFFICES ASSUME AMInit PROVE IndexOf!IndexInit
    OBVIOUS
  <2>1. OrderInv /\ EntriesOk
    BY InitOrder, EntriesHold
  <2>2. PICK A : OrderIs(A)
    BY <2>1 DEF OrderInv
  <2>3. A = NoEntries
    BY <2>2, NoPages DEF AMInit
  <2>4. Entries = [e \in Value \X RecId |-> 0]
    BY <2>1, <2>2, <2>3, NoCounts DEF EntriesOk
  <2> QED  BY <2>4 DEF IndexOf!IndexInit, IndexOf!OK, AMInit, Idle, AME_OK
<1>4. OrderInv /\ EntriesOk /\ EntriesOk' /\ [AMNext]_amvars => [IndexOf!IndexNext]_(IndexOf!indexvars)
  BY StepIndexes
<1> QED  BY <1>1, <1>2, <1>3, <1>4, PTL DEF AMSpec, ImplementsIndex, IndexOf!IndexSpec

(***************************************************************************)
(* An AM_InsertEntry that is to return AME_OK has put its pair there once  *)
(* more and changed nothing else, whether it splits no leaf, the root, or  *)
(* a leaf below it and returns through AM_AddtoParent: amfns.c:254.        *)
(***************************************************************************)
THEOREM InsertionsInsert ==
  ASSUME FewPerKey
  PROVE  AMSpec => InsertsThePair
<1> DEFINE Inserted == \A v \in Value, r \in RecId :
                         AM_InsertEntry(v, r, TRUE) /\ (Idle' => ret' = AME_OK) =>
                           Entries' = [Entries EXCEPT ![<<v, r>>] = @ + 1]
           NoneMoves == AM_AddtoParent => Entries' = Entries
           Inserts == /\ \A v \in Value, r \in RecId :
                           AM_InsertEntry(v, r, TRUE) /\ (Idle' => ret' = AME_OK) =>
                             Entries' = [Entries EXCEPT ![<<v, r>>] = @ + 1]
                      /\ AM_AddtoParent => Entries' = Entries
<1>1. AMSpec => []OrderInv
  BY OrderHolds
<1>2. OrderInv => EntriesOk
  BY EntriesHold
<1>3. OrderInv /\ EntriesOk /\ EntriesOk' => Inserted
  <2> SUFFICES ASSUME OrderInv, EntriesOk, EntriesOk', NEW v \in Value, NEW r \in RecId,
                      AM_InsertEntry(v, r, TRUE), Idle' => ret' = AME_OK
               PROVE  Entries' = [Entries EXCEPT ![<<v, r>>] = @ + 1]
    OBVIOUS
  <2>1. PICK A : OrderIs(A)
    BY DEF OrderInv
  <2>2. Entries = Counts(A) /\ A \in [Value -> Seq(RecId)]
    BY <2>1 DEF EntriesOk
  <2>3. ~(Idle' /\ ret' \in Errors)
    BY DEF Errors, AME_OK, AME_PF, AME_INVALIDATTRLENGTH
  <2>4. OrderIs(With(A, v, r))'
    BY <2>1, <2>3, InsertOrder DEF OrderInv
  <2>5. Entries' = Counts(With(A, v, r))
    BY <2>4 DEF EntriesOk
  <2> QED  BY <2>2, <2>5, CountsChanged
<1>4. OrderInv /\ EntriesOk /\ EntriesOk' => NoneMoves
  <2> SUFFICES ASSUME OrderInv, EntriesOk, EntriesOk', AM_AddtoParent
               PROVE  Entries' = Entries
    OBVIOUS
  <2>1. PICK A : OrderIs(A)
    BY DEF OrderInv
  <2>2. OrderIs(A)'
    BY <2>1, AddtoParentOrder DEF OrderInv
  <2> QED  BY <2>1, <2>2 DEF EntriesOk
<1>5. Inserted /\ NoneMoves => Inserts
  OBVIOUS
<1>6. AMSpec => [][Inserts]_amvars
  <2> HIDE DEF Inserted, NoneMoves, Inserts
  <2> QED  BY <1>1, <1>2, <1>3, <1>4, <1>5, PTL DEF AMSpec
<1> QED  BY <1>6 DEF InsertsThePair

-----------------------------------------------------------------------------
(* The order of the leaves, as scans walk them.                            *)

RecordsFrom(A, S) == UNION {Range(A[v]) : v \in S}
Upward(A, x)      == RecordsFrom(A, {w \in Value : w >= x})
Greater(A, x)     == RecordsFrom(A, {w \in Value : w > x})
Rest(A, x, m)     == {A[x][j] : j \in {k \in 1 .. Len(A[x]) : k >= m}}

(* The records of leaf i and those after it. *)
Onward(A, L, rng, i) ==
    RecordsFrom(A, {v \in Value : \E j \in 1 .. Len(L) : i <= j /\ v \in rng[L[j]]})

(* The leaves L hold what A says, in order. *)
Rows(A, L, rng) ==
    /\ Len(L) \in Nat /\ 1 \in 1 .. Len(L) /\ A \in [Value -> Seq(RecId)]
    /\ \A i \in 1 .. Len(L) :
         /\ L[i] \in PageNum /\ GoodLeaf(page[L[i]]) /\ Len(page[L[i]].keys) \in Nat
         /\ page[L[i]].nextLeafPage = IF i = Len(L) THEN AM_NULL_PAGE ELSE L[i + 1]
         /\ \A t \in 1 .. Len(page[L[i]].keys) :
              /\ page[L[i]].keys[t].value \in Value /\ page[L[i]].keys[t].value \in Int
              /\ page[L[i]].keys[t].value \in rng[L[i]]
              /\ A[page[L[i]].keys[t].value] = RecIds(page[L[i]], t)
              /\ \A u \in 1 .. Len(page[L[i]].keys) :
                   t < u => page[L[i]].keys[t].value < page[L[i]].keys[u].value
         /\ \A v \in Value : A[v] # << >> /\ v \in rng[L[i]] =>
              \E t \in 1 .. Len(page[L[i]].keys) : page[L[i]].keys[t].value = v
    /\ \A i, j \in 1 .. Len(L) : i < j =>
         L[i] # L[j] /\ \A v \in rng[L[i]], w \in rng[L[j]] : v < w
    /\ \A v \in Value : v \in Int /\ \E i \in 1 .. Len(L) : v \in rng[L[i]]
    /\ \A p \in PageNum : rng[p] \subseteq Value

(* The order of the leaves says all that. *)
LEMMA OrderRows ==
  ASSUME Nodes(page), NEW np \in 1 .. MaxPages, NEW L, NEW rng, NEW A, Order(page, np, L, rng, A)
  PROVE  Rows(A, L, rng)
<1>1. /\ L \in Seq(PageNum) /\ Len(L) \in 1 .. np
      /\ \A i \in 1 .. Len(L) :
           page[L[i]].nextLeafPage = IF i = Len(L) THEN AM_NULL_PAGE ELSE L[i + 1]
  BY DEF Order, Linking
<1>2. Len(L) \in Nat /\ 1 \in 1 .. Len(L)
  BY <1>1
<1>3. /\ A \in [Value -> Seq(RecId)]
      /\ \A i \in 1 .. Len(L) : \A v \in Value :
           RecordsIn(page[L[i]], v) = IF v \in rng[L[i]] THEN A[v] ELSE << >>
  BY DEF Order, Holding
<1>4. /\ \A i, j \in 1 .. Len(L) : i < j =>
           L[i] # L[j] /\ \A v \in rng[L[i]], w \in rng[L[j]] : v < w
      /\ \A v \in Value : \E i \in 1 .. Len(L) : v \in rng[L[i]]
      /\ \A p \in PageNum : rng[p] \subseteq Value
  BY DEF Order, Sorted
<1>5. \A v \in Value : v \in Int
  BY AMLeafAssumption, SMTT(40)
<1>6. ASSUME NEW i \in 1 .. Len(L)
      PROVE  /\ L[i] \in PageNum /\ GoodLeaf(page[L[i]]) /\ Len(page[L[i]].keys) \in Nat
             /\ \A t \in 1 .. Len(page[L[i]].keys) :
                  /\ page[L[i]].keys[t].value \in Value /\ page[L[i]].keys[t].value \in Int
                  /\ page[L[i]].keys[t].value \in rng[L[i]]
                  /\ A[page[L[i]].keys[t].value] = RecIds(page[L[i]], t)
                  /\ \A u \in 1 .. Len(page[L[i]].keys) :
                       t < u => page[L[i]].keys[t].value < page[L[i]].keys[u].value
             /\ \A v \in Value : A[v] # << >> /\ v \in rng[L[i]] =>
                  \E t \in 1 .. Len(page[L[i]].keys) : page[L[i]].keys[t].value = v
  <2>1. /\ L[i] \in PageNum /\ GoodLeaf(page[L[i]])
        /\ \A v \in Range(Values(page[L[i]])) : v \in Value /\ v \in rng[L[i]]
    BY KeysInRange
  <2>2. PICK l : l = page[L[i]]
    OBVIOUS
  <2>3. /\ Len(l.keys) \in Nat
        /\ \A j \in 1 .. Len(l.keys) : l.keys[j].value \in Value
        /\ \A w \in Value : Contents(l)[w] # << >> => \E j \in 1 .. Len(l.keys) : l.keys[j].value = w
        /\ \A j, k \in 1 .. Len(l.keys) : j < k => l.keys[j].value < l.keys[k].value
    BY <2>1, <2>2, KeysOnly
  <2>4. \A v \in Value : Contents(l)[v] = IF v \in rng[L[i]] THEN A[v] ELSE << >>
    BY <1>3, <2>2 DEF Contents
  <2>5. ASSUME NEW t \in 1 .. Len(l.keys)
        PROVE  l.keys[t].value \in rng[L[i]] /\ A[l.keys[t].value] = RecIds(l, t)
    <3>1. l.keys[t].value \in Range(Values(l))
      <4>1. l \in Leaf
        BY <2>1, <2>2 DEF GoodLeaf
      <4>2. Values(l) \in Seq(Value) /\ Len(Values(l)) = Len(l.keys) /\ Values(l)[t] = l.keys[t].value
        BY <4>1, ValuesAre
      <4> QED  BY <4>2 DEF Range
    <3>2. Contents(l)[l.keys[t].value] = RecIds(l, t)
      BY <2>1, <2>2, ContentsHold DEF Holds
    <3> QED  BY <2>1, <2>2, <2>3, <2>4, <3>1, <3>2
  <2> QED  BY <1>5, <2>1, <2>2, <2>3, <2>4, <2>5
<1> QED  BY <1>1, <1>2, <1>3, <1>4, <1>5, <1>6 DEF Rows

(* Values without records do not count. *)
LEMMA SameRecords ==
  ASSUME NEW A, NEW S, NEW T, S \subseteq Value, T \subseteq Value,
         \A v \in Value : A[v] # << >> => (v \in S <=> v \in T),
         A \in [Value -> Seq(RecId)]
  PROVE  RecordsFrom(A, S) = RecordsFrom(A, T)
<1>1. ASSUME NEW P \in SUBSET Value, NEW r
      PROVE  r \in RecordsFrom(A, P) <=> \E v \in Value : v \in P /\ A[v] # << >> /\ r \in Range(A[v])
  <2>1. r \in RecordsFrom(A, P) <=> \E v \in P : r \in Range(A[v])
    BY DEF RecordsFrom
  <2>2. ASSUME NEW v \in P, r \in Range(A[v]) PROVE A[v] # << >>
    BY <2>2 DEF Range
  <2> QED  BY <2>1, <2>2
<1>2. \A r : r \in RecordsFrom(A, S) <=> r \in RecordsFrom(A, T)
  BY <1>1
<1> QED  BY <1>2

(* Each of the records is at some place in the sequence of a value. *)
LEMMA RecordAt ==
  ASSUME NEW A \in [Value -> Seq(RecId)], NEW S \in SUBSET Value, NEW r
  PROVE  r \in RecordsFrom(A, S) <=> \E v \in S : \E k \in 1 .. Len(A[v]) : r = A[v][k]
<1>1. \A v \in S : r \in Range(A[v]) <=> \E k \in 1 .. Len(A[v]) : r = A[v][k]
  <2> SUFFICES ASSUME NEW v \in S
               PROVE  r \in Range(A[v]) <=> \E k \in 1 .. Len(A[v]) : r = A[v][k]
    OBVIOUS
  <2>1. A[v] \in Seq(RecId)
    OBVIOUS
  <2> QED  BY <2>1 DEF Range
<1> QED  BY <1>1 DEF RecordsFrom

(* A value that has records is a key of the leaf in whose range it is. *)
LEMMA IsKey ==
  ASSUME NEW A, NEW L, NEW rng, Rows(A, L, rng), NEW v \in Value, A[v] # << >>
  PROVE  \E j \in 1 .. Len(L) : /\ v \in rng[L[j]]
                                /\ \E t \in 1 .. Len(page[L[j]].keys) : page[L[j]].keys[t].value = v
<1>1. PICK j \in 1 .. Len(L) : v \in rng[L[j]]
  BY DEF Rows
<1> QED  BY <1>1 DEF Rows

(* The records from a leaf on are those from its first key on. *)
LEMMA FromFirstKey ==
  ASSUME NEW A, NEW L, NEW rng, Rows(A, L, rng), NEW i \in 1 .. Len(L),
         NEW x, 1 \in 1 .. Len(page[L[i]].keys), x = page[L[i]].keys[1].value
  PROVE  Onward(A, L, rng, i) = Upward(A, x)
<1>1. /\ A \in [Value -> Seq(RecId)] /\ Len(L) \in Nat /\ x \in Int /\ x \in rng[L[i]]
      /\ \A v \in Value : v \in Int
      /\ Len(page[L[i]].keys) \in Nat
  BY DEF Rows
<1> DEFINE S == {v \in Value : \E j \in 1 .. Len(L) : i <= j /\ v \in rng[L[j]]}
           T == {w \in Value : w >= x}
<1>2. ASSUME NEW v \in Value, A[v] # << >> PROVE v \in S <=> v \in T
  <2>1. PICK j \in 1 .. Len(L) : /\ v \in rng[L[j]]
                                 /\ \E t \in 1 .. Len(page[L[j]].keys) : page[L[j]].keys[t].value = v
    BY <1>2, IsKey
  <2>2. PICK t \in 1 .. Len(page[L[j]].keys) : page[L[j]].keys[t].value = v
    BY <2>1
  <2>3. \A a, b \in 1 .. Len(L) : a < b => \A y \in rng[L[a]], w \in rng[L[b]] : y < w
    BY DEF Rows
  <2>4. CASE j < i
    <3>1. v < x
      BY <1>1, <2>1, <2>3, <2>4
    <3>2. \A k \in 1 .. Len(L) : i <= k => v \notin rng[L[k]]
      <4> SUFFICES ASSUME NEW k \in 1 .. Len(L), i <= k, v \in rng[L[k]] PROVE FALSE
        OBVIOUS
      <4>1. j < k
        BY <1>1, <2>4
      <4>2. v < v
        BY <2>1, <2>3, <4>1
      <4> QED  BY <1>1, <4>2
    <3> QED  BY <1>1, <3>1, <3>2, SMTT(40)
  <2>5. CASE i < j
    <3>1. x < v
      BY <1>1, <2>1, <2>3, <2>5
    <3> QED  BY <1>1, <2>1, <2>5, <3>1, SMTT(40)
  <2>6. CASE i = j
    <3>1. t = 1 \/ 1 < t
      BY <1>1, <2>6
    <3>2. 1 < t => x < v
      BY <2>2, <2>6 DEF Rows
    <3> QED  BY <1>1, <2>1, <2>2, <2>6, <3>1, <3>2, SMTT(40)
  <2> QED  BY <1>1, <2>4, <2>5, <2>6
<1> HIDE DEF S, T
<1>3. S \subseteq Value /\ T \subseteq Value
  BY DEF S, T
<1>4. RecordsFrom(A, S) = RecordsFrom(A, T)
  BY <1>1, <1>2, <1>3, SameRecords, SMTT(40)
<1> QED  BY <1>4 DEF Onward, Upward, S, T

(* Those of the values above a key are those from the next key on. *)
LEMMA FromNextKey ==
  ASSUME NEW A, NEW L, NEW rng, Rows(A, L, rng), NEW i \in 1 .. Len(L),
         NEW t \in 1 .. Len(page[L[i]].keys), NEW u \in 1 .. Len(page[L[i]].keys), u = t + 1,
         NEW x, x = page[L[i]].keys[t].value, NEW y, y = page[L[i]].keys[u].value
  PROVE  Greater(A, x) = Upward(A, y)
<1>1. /\ A \in [Value -> Seq(RecId)] /\ Len(L) \in Nat
      /\ x \in Int /\ x \in rng[L[i]] /\ y \in Int /\ y \in rng[L[i]]
      /\ \A v \in Value : v \in Int
      /\ Len(page[L[i]].keys) \in Nat
      /\ \A a, b \in 1 .. Len(L) : a < b => \A e \in rng[L[a]], w \in rng[L[b]] : e < w
      /\ \A a, b \in 1 .. Len(page[L[i]].keys) :
           a < b => page[L[i]].keys[a].value < page[L[i]].keys[b].value
  BY DEF Rows
<1> DEFINE S == {w \in Value : w > x}
           T == {w \in Value : w >= y}
<1>2. x < y
  BY <1>1, SMTT(40)
<1>3. ASSUME NEW v \in Value, A[v] # << >> PROVE v \in S <=> v \in T
  <2>0. v \in Int /\ A[v] # << >> /\ (v \in S <=> v > x) /\ (v \in T <=> v >= y)
    <3>1. v \in Int
      BY <1>1
    <3>2. (v \in S <=> v > x) /\ (v \in T <=> v >= y)
      OBVIOUS
    <3> QED  BY ONLY <1>3, <3>1, <3>2
  <2> HIDE DEF S, T
  <2>1. PICK j \in 1 .. Len(L) : /\ v \in rng[L[j]]
                                 /\ \E k \in 1 .. Len(page[L[j]].keys) : page[L[j]].keys[k].value = v
    BY <2>0, IsKey
  <2>2. CASE j < i
    <3>1. v < x
      BY <1>1, <2>1, <2>2
    <3> QED  BY ONLY <1>1, <1>2, <2>0, <3>1, SMTT(40)
  <2>3. CASE i < j
    <3>1. y < v
      BY <1>1, <2>1, <2>3
    <3> QED  BY ONLY <1>1, <1>2, <2>0, <3>1
  <2>4. CASE i = j
    <3>1. PICK k \in 1 .. Len(page[L[i]].keys) : page[L[i]].keys[k].value = v
      BY <2>1, <2>4, SMTT(40)
    <3>2. k < t \/ k = t \/ k = u \/ u < k
      BY <1>1
    <3>3. k < t => v < x
      BY <1>1, <3>1
    <3>4. u < k => y < v
      BY <1>1, <3>1
    <3>5. (k = t => v = x) /\ (k = u => v = y)
      BY <3>1
    <3> QED  BY ONLY <1>1, <1>2, <2>0, <3>2, <3>3, <3>4, <3>5
  <2>5. j \in Nat /\ i \in Nat
    OBVIOUS
  <2>6. j < i \/ i < j \/ i = j
    BY ONLY <2>5
  <2> QED  BY ONLY <2>2, <2>3, <2>4, <2>6
<1> HIDE DEF S, T
<1>4. S \subseteq Value /\ T \subseteq Value
  BY DEF S, T
<1>5. RecordsFrom(A, S) = RecordsFrom(A, T)
  BY <1>1, <1>3, <1>4, SameRecords
<1> QED  BY <1>5, SMTT(40) DEF Greater, Upward, S, T

(* Of the values above the last key of a leaf, those from the next leaf on. *)
LEMMA FromNextLeaf ==
  ASSUME NEW A, NEW L, NEW rng, Rows(A, L, rng), NEW i \in 1 .. Len(L),
         NEW t \in 1 .. Len(page[L[i]].keys), t = Len(page[L[i]].keys),
         NEW x, x = page[L[i]].keys[t].value
  PROVE  Greater(A, x) = Onward(A, L, rng, i + 1)
<1>1. /\ A \in [Value -> Seq(RecId)] /\ Len(L) \in Nat /\ x \in Int /\ x \in rng[L[i]]
      /\ \A v \in Value : v \in Int
      /\ Len(page[L[i]].keys) \in Nat
      /\ \A a, b \in 1 .. Len(L) : a < b => \A e \in rng[L[a]], w \in rng[L[b]] : e < w
      /\ \A a, b \in 1 .. Len(page[L[i]].keys) :
           a < b => page[L[i]].keys[a].value < page[L[i]].keys[b].value
  BY DEF Rows
<1> DEFINE S == {w \in Value : w > x}
           T == {v \in Value : \E j \in 1 .. Len(L) : i + 1 <= j /\ v \in rng[L[j]]}
<1>2. ASSUME NEW v \in Value, A[v] # << >> PROVE v \in S <=> v \in T
  <2>1. PICK j \in 1 .. Len(L) : /\ v \in rng[L[j]]
                                 /\ \E k \in 1 .. Len(page[L[j]].keys) : page[L[j]].keys[k].value = v
    BY <1>2, IsKey, SMTT(40)
  <2>2. CASE j < i + 1
    <3>1. v <= x
      <4>1. j < i => v < x
        BY <1>1, <2>1
      <4>2. CASE j = i
        <5>1. PICK k \in 1 .. Len(page[L[i]].keys) : page[L[i]].keys[k].value = v
          BY <2>1, <4>2
        <5>2. k < t \/ k = t
          BY <1>1
        <5>3. k < t => v < x
          BY <1>1, <5>1
        <5> QED  BY <1>1, <5>1, <5>2, <5>3, SMTT(40)
      <4> QED  BY <1>1, <2>2, <4>1, <4>2
    <3>2. \A k \in 1 .. Len(L) : i + 1 <= k => v \notin rng[L[k]]
      <4> SUFFICES ASSUME NEW k \in 1 .. Len(L), i + 1 <= k, v \in rng[L[k]] PROVE FALSE
        OBVIOUS
      <4>1. j < k
        BY <1>1, <2>2
      <4>2. v < v
        BY <1>1, <2>1, <4>1
      <4> QED  BY <1>1, <4>2
    <3> QED  BY <1>1, <3>1, <3>2, SMTT(40)
  <2>3. CASE ~(j < i + 1)
    <3>1. i < j /\ i + 1 <= j
      BY <1>1, <2>3
    <3>2. x < v
      BY <1>1, <2>1, <3>1
    <3> QED  BY <1>1, <2>1, <3>1, <3>2
  <2> QED  BY <2>2, <2>3
<1> HIDE DEF S, T
<1>3. S \subseteq Value /\ T \subseteq Value
  BY DEF S, T
<1>4. RecordsFrom(A, S) = RecordsFrom(A, T)
  BY <1>1, <1>2, <1>3, SameRecords
<1> QED  BY <1>4 DEF Onward, Greater, S, T

(* From an empty leaf on there is what there is from the next one on;      *)
(* behind the last there is nothing, and the first has all before it.      *)
LEMMA FromEmptyLeaf ==
  ASSUME NEW A, NEW L, NEW rng, Rows(A, L, rng)
  PROVE  /\ \A i \in 1 .. Len(L) : Len(page[L[i]].keys) = 0 =>
              Onward(A, L, rng, i) = Onward(A, L, rng, i + 1)
         /\ Onward(A, L, rng, Len(L) + 1) = {}
         /\ Onward(A, L, rng, 1) = RecordsFrom(A, Value)
<1>1. A \in [Value -> Seq(RecId)] /\ Len(L) \in Nat
  BY DEF Rows
<1> DEFINE S(i) == {v \in Value : \E j \in 1 .. Len(L) : i <= j /\ v \in rng[L[j]]}
<1>2. ASSUME NEW i \in 1 .. Len(L), Len(page[L[i]].keys) = 0
      PROVE  Onward(A, L, rng, i) = Onward(A, L, rng, i + 1)
  <2>1. ASSUME NEW v \in Value, A[v] # << >> PROVE v \in S(i) <=> v \in S(i + 1)
    <3>1. \A t \in 1 .. Len(page[L[i]].keys) : FALSE
      BY <1>2
    <3>2. v \notin rng[L[i]]
      BY <2>1, <3>1 DEF Rows
    <3>3. \A j \in 1 .. Len(L) : i <= j <=> i = j \/ i + 1 <= j
      BY <1>1
    <3> QED  BY <3>2, <3>3
  <2>2. PICK P, Q : P = S(i) /\ Q = S(i + 1)
    OBVIOUS
  <2>3. P \subseteq Value /\ Q \subseteq Value
    BY <2>2
  <2>4. \A v \in Value : A[v] # << >> => (v \in P <=> v \in Q)
    BY <2>1, <2>2
  <2> HIDE DEF S
  <2>5. RecordsFrom(A, P) = RecordsFrom(A, Q)
    BY <1>1, <2>3, <2>4, SameRecords
  <2> QED  BY <2>2, <2>5 DEF Onward, S
<1>3. S(Len(L) + 1) = {}
  <2>1. \A j \in 1 .. Len(L) : ~(Len(L) + 1 <= j)
    BY <1>1
  <2> QED  BY <2>1
<1>4. S(1) = Value
  <2>1. \A j \in 1 .. Len(L) : 1 <= j
    BY <1>1
  <2>2. \A v \in Value : \E j \in 1 .. Len(L) : v \in rng[L[j]]
    BY DEF Rows
  <2> QED  BY <2>1, <2>2
<1> QED  BY <1>2, <1>3, <1>4 DEF Onward, RecordsFrom

(* The place of a value in its leaf, and the records from the value on. *)
LEMMA FromPlace ==
  ASSUME NEW A, NEW L, NEW rng, Rows(A, L, rng), NEW i \in 1 .. Len(L),
         NEW v \in Value, v \in rng[L[i]], NEW t, Place(page[L[i]], v, t)
  PROVE  /\ t \in 1 .. Len(page[L[i]].keys) => Upward(A, v) = Upward(A, page[L[i]].keys[t].value)
         /\ t = Len(page[L[i]].keys) + 1 => Upward(A, v) = Onward(A, L, rng, i + 1)
         /\ A[v] # << >> <=> t \in 1 .. Len(page[L[i]].keys) /\ page[L[i]].keys[t].value = v
         /\ A[v] = << >> => Greater(A, v) = Upward(A, v)
<1>1. /\ A \in [Value -> Seq(RecId)] /\ Len(L) \in Nat /\ v \in Int
      /\ \A w \in Value : w \in Int
      /\ Len(page[L[i]].keys) \in Nat
      /\ \A a, b \in 1 .. Len(L) : a < b => \A e \in rng[L[a]], w \in rng[L[b]] : e < w
      /\ \A a \in 1 .. Len(page[L[i]].keys) :
           page[L[i]].keys[a].value \in Int /\ page[L[i]].keys[a].value \in rng[L[i]]
      /\ \A a, b \in 1 .. Len(page[L[i]].keys) :
           a < b => page[L[i]].keys[a].value < page[L[i]].keys[b].value
  BY DEF Rows
<1>2. /\ t \in 1 .. Len(page[L[i]].keys) + 1
      /\ \A j \in 1 .. Len(page[L[i]].keys) :
           IF j < t THEN page[L[i]].keys[j].value < v ELSE v <= page[L[i]].keys[j].value
  BY DEF Place
<1>3. ASSUME NEW w \in Value, A[w] # << >>
      PROVE  \E j \in 1 .. Len(L) :
               /\ w \in rng[L[j]]
               /\ \E k \in 1 .. Len(page[L[j]].keys) : page[L[j]].keys[k].value = w
               /\ j < i => w < v
               /\ i < j => v < w
  <2>1. A[w] # << >>
    BY <1>3
  <2>2. PICK j \in 1 .. Len(L) : /\ w \in rng[L[j]]
                                 /\ \E k \in 1 .. Len(page[L[j]].keys) : page[L[j]].keys[k].value = w
    BY <2>1, IsKey
  <2>3. (j < i => w < v) /\ (i < j => v < w)
    BY <1>1, <2>2
  <2> QED  BY <2>2, <2>3
<1>4. ASSUME t \in 1 .. Len(page[L[i]].keys)
      PROVE  Upward(A, v) = Upward(A, page[L[i]].keys[t].value)
  <2>1. PICK x : x = page[L[i]].keys[t].value
    OBVIOUS
  <2>2. x \in Int /\ x \in rng[L[i]] /\ v <= x
    <3>1. ~(t < t)
      BY <1>4
    <3> QED  BY <1>1, <1>2, <1>4, <2>1, <3>1
  <2> DEFINE S == {w \in Value : w >= v}
             T == {w \in Value : w >= x}
  <2>3. ASSUME NEW w \in Value, A[w] # << >> PROVE w \in S <=> w \in T
    <3>0. w \in Int /\ v \in Int /\ (w \in S <=> w >= v) /\ (w \in T <=> w >= x)
      BY <1>1, <2>3
    <3> HIDE DEF S, T
    <3>1. PICK j \in 1 .. Len(L) :
               /\ w \in rng[L[j]]
               /\ \E k \in 1 .. Len(page[L[j]].keys) : page[L[j]].keys[k].value = w
               /\ j < i => w < v
               /\ i < j => v < w
      BY <1>3, <2>3
    <3>2. i < j => x < w
      BY <1>1, <2>2, <3>1
    <3>3. CASE i = j
      <4>1. PICK k \in 1 .. Len(page[L[i]].keys) : page[L[i]].keys[k].value = w
        BY <3>1, <3>3
      <4>2. k < t => w < v
        BY <1>2, <4>1
      <4>3. t < k => x < w
        BY <1>1, <1>4, <2>1, <4>1
      <4>4. k < t \/ k = t \/ t < k
        BY <1>1, <1>4
      <4>5. k = t => w = x
        BY <2>1, <4>1
      <4> QED  BY ONLY <2>2, <3>0, <4>2, <4>3, <4>4, <4>5
    <3>4. CASE j < i
      <4>1. w < v
        BY <3>1, <3>4
      <4> QED  BY ONLY <2>2, <3>0, <4>1
    <3>5. CASE i < j
      <4>1. x < w
        BY <3>2, <3>5
      <4> QED  BY ONLY <2>2, <3>0, <4>1
    <3>6. i \in Nat /\ j \in Nat
      OBVIOUS
    <3>7. j < i \/ i < j \/ i = j
      BY ONLY <3>6
    <3> QED  BY ONLY <3>3, <3>4, <3>5, <3>7
  <2> HIDE DEF S, T
  <2>4. S \subseteq Value /\ T \subseteq Value
    BY DEF S, T
  <2>5. RecordsFrom(A, S) = RecordsFrom(A, T)
    BY <1>1, <2>3, <2>4, SameRecords
  <2> QED  BY <2>1, <2>5 DEF Upward, S, T
<1>5. ASSUME t = Len(page[L[i]].keys) + 1
      PROVE  Upward(A, v) = Onward(A, L, rng, i + 1)
  <2> DEFINE S == {w \in Value : w >= v}
             T == {w \in Value : \E j \in 1 .. Len(L) : i + 1 <= j /\ w \in rng[L[j]]}
  <2>1. ASSUME NEW w \in Value, A[w] # << >> PROVE w \in S <=> w \in T
    <3>1. PICK j \in 1 .. Len(L) :
               /\ w \in rng[L[j]]
               /\ \E k \in 1 .. Len(page[L[j]].keys) : page[L[j]].keys[k].value = w
               /\ j < i => w < v
               /\ i < j => v < w
      BY <1>3, <2>1
    <3>2. CASE i < j
      <4>1. i + 1 <= j
        BY <1>1, <3>2
      <4> QED  BY <1>1, <3>1, <3>2, <4>1
    <3>3. CASE ~(i < j)
      <4>1. w < v
        <5>1. CASE i = j
          <6>1. PICK k \in 1 .. Len(page[L[i]].keys) : page[L[i]].keys[k].value = w
            BY <3>1, <5>1
          <6>2. k < t
            BY <1>1, <1>5
          <6> QED  BY <1>2, <6>1, <6>2
        <5> QED  BY <1>1, <3>1, <3>3, <5>1
      <4>2. \A k \in 1 .. Len(L) : i + 1 <= k => w \notin rng[L[k]]
        <5> SUFFICES ASSUME NEW k \in 1 .. Len(L), i + 1 <= k, w \in rng[L[k]] PROVE FALSE
          OBVIOUS
        <5>1. j < k
          BY <1>1, <3>3
        <5>2. w < w
          BY <1>1, <3>1, <5>1
        <5> QED  BY <1>1, <5>2
      <4> QED  BY <1>1, <4>1, <4>2
    <3> QED  BY <3>2, <3>3
  <2> HIDE DEF S, T
  <2>2. S \subseteq Value /\ T \subseteq Value
    BY DEF S, T
  <2>3. RecordsFrom(A, S) = RecordsFrom(A, T)
    BY <1>1, <2>1, <2>2, SameRecords
  <2> QED  BY <2>3 DEF Upward, Onward, S, T
<1>6. ASSUME A[v] # << >>
      PROVE  t \in 1 .. Len(page[L[i]].keys) /\ page[L[i]].keys[t].value = v
  <2>1. PICK k \in 1 .. Len(page[L[i]].keys) : page[L[i]].keys[k].value = v
    BY <1>6, ZenonT(60) DEF Rows
  <2>2. ~(k < t)
    BY <1>1, <1>2, <2>1, SMTT(40)
  <2>3. t \in 1 .. Len(page[L[i]].keys)
    BY <1>1, <1>2, <2>2
  <2>4. v <= page[L[i]].keys[t].value
    <3>1. ~(t < t)
      BY <2>3
    <3> QED  BY <1>2, <2>3, <3>1
  <2>5. ~(t < k)
    BY <1>1, <2>1, <2>3, <2>4, SMTT(40)
  <2>6. t = k
    BY <2>2, <2>3, <2>5
  <2> QED  BY <2>1, <2>6
<1>7. ASSUME t \in 1 .. Len(page[L[i]].keys), page[L[i]].keys[t].value = v
      PROVE  A[v] # << >>
  <2>1. PICK l : l = page[L[i]]
    OBVIOUS
  <2>2. GoodLeaf(l) /\ A[v] = RecIds(l, t)
    BY <1>7, <2>1 DEF Rows
  <2>3. PICK s : Listed(l, t, s)
    BY <1>7, <2>1, <2>2, KeyHasList
  <2>4. RecIds(l, t) \in Seq(RecId) /\ Len(RecIds(l, t)) = Len(s) /\ 1 \in 1 .. Len(s)
    BY <2>3 DEF Listed
  <2> QED  BY <2>2, <2>4
<1>8. ASSUME A[v] = << >> PROVE Greater(A, v) = Upward(A, v)
  <2> DEFINE S == {w \in Value : w > v}
             T == {w \in Value : w >= v}
  <2>1. ASSUME NEW w \in Value, A[w] # << >> PROVE w \in S <=> w \in T
    <3>1. w # v
      BY <1>8, <2>1
    <3> QED  BY <1>1, <3>1
  <2> HIDE DEF S, T
  <2>2. S \subseteq Value /\ T \subseteq Value
    BY DEF S, T
  <2>3. RecordsFrom(A, S) = RecordsFrom(A, T)
    BY <1>1, <2>1, <2>2, SameRecords
  <2> QED  BY <2>3 DEF Upward, Greater, S, T
<1> QED  BY <1>4, <1>5, <1>6, <1>7, <1>8, SMTT(40)
=============================================================================
