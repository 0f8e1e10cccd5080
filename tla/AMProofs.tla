------------------------------ MODULE AMProofs ------------------------------
(***************************************************************************)
(* The tree stays one: its leaves are sound and all equally deep, whatever *)
(* splits, and a call that cannot fail leaves nothing behind.              *)
(***************************************************************************)
EXTENDS AMProps, AMLeafProofs

-----------------------------------------------------------------------------
(* Nodes. *)

GoodNode(x) ==
    /\ x \in IntNode
    /\ Len(x.keys) \in 1 .. MaxKeys
    /\ Len(x.child) = Len(x.keys) + 1

Nodes(pg) ==
    /\ DOMAIN pg = PageNum
    /\ \A p \in PageNum : GoodLeaf(pg[p]) \/ GoodNode(pg[p])

LEMMA Constants ==
  /\ MaxPages \in Nat /\ MaxPages > 0 /\ MaxPages - 1 \in Nat /\ 0 \in PageNum
  /\ MaxKeys \in Nat /\ MaxKeys > 0
  /\ PageNum \subseteq Nat
<1>1. MaxPages \in Nat /\ MaxPages > 0
  BY AMLeafAssumption
<1>2. MaxKeys \in Nat /\ MaxKeys > 0
  BY AMAssumption
<1> QED  BY <1>1, <1>2 DEF PageNum

LEMMA NodeParts ==
  ASSUME NEW x, GoodNode(x)
  PROVE  /\ x.pageType = "i"
         /\ x.keys \in Seq(Value) /\ x.keys \in Seq(Int) /\ x.keys # << >>
         /\ Len(x.keys) \in Nat /\ Len(x.keys) \in 1 .. MaxKeys
         /\ x.child \in Seq(PageNum) /\ Len(x.child) = Len(x.keys) + 1
         /\ \A k \in 1 .. Len(x.child) : x.child[k] \in PageNum
<1>1. x.pageType = "i" /\ x.keys \in Seq(Value) /\ x.child \in Seq(PageNum)
  BY DEF GoodNode, IntNode
<1>2. x.keys \in Seq(Int)
  <2>1. Value \subseteq Int
    BY AMLeafAssumption
  <2>2. PICK n \in Nat : n = Len(x.keys)
    BY <1>1
  <2>3. x.keys \in [1 .. n -> Value]
    BY <1>1, <2>2
  <2>4. x.keys \in [1 .. n -> Int]
    BY <2>1, <2>3
  <2> QED  BY <2>4
<1>3. Len(x.keys) \in 1 .. MaxKeys /\ Len(x.child) = Len(x.keys) + 1
  BY DEF GoodNode
<1>4. Len(x.keys) \in Nat /\ x.keys # << >>
  BY <1>2, <1>3
<1>5. \A k \in 1 .. Len(x.child) : x.child[k] \in PageNum
  BY <1>1
<1> QED  BY <1>1, <1>2, <1>3, <1>4, <1>5

LEMMA NodeKinds ==
  ASSUME NEW pg, Nodes(pg), NEW p \in PageNum
  PROVE  /\ pg[p].pageType = "l" <=> GoodLeaf(pg[p])
         /\ pg[p].pageType = "i" <=> GoodNode(pg[p])
         /\ pg[p].pageType = "l" \/ pg[p].pageType = "i"
<1>1. GoodLeaf(pg[p]) => pg[p].pageType = "l"
  BY LeafParts DEF GoodLeaf
<1>2. GoodNode(pg[p]) => pg[p].pageType = "i"
  BY NodeParts
<1>3. GoodLeaf(pg[p]) \/ GoodNode(pg[p])
  BY DEF Nodes
<1>4. "l" # "i"
  OBVIOUS
<1> QED  BY <1>1, <1>2, <1>3, <1>4

(* The child of an inner node that a search for v goes to. *)
LEMMA ChildIs ==
  ASSUME Nodes(page), NEW p \in PageNum, page[p].pageType = "i", NEW v \in Value
  PROVE  /\ AM_BinSearch(page[p].keys, v) \in 0 .. Len(page[p].keys)
         /\ AM_BinSearch(page[p].keys, v) \in 0 .. MaxKeys
         /\ \E k \in 1 .. Len(page[p].child) : Child(p, v) = page[p].child[k]
         /\ Child(p, v) \in PageNum
<1> DEFINE x == page[p]
           b == AM_BinSearch(x.keys, v)
<1>1. GoodNode(x)
  BY NodeKinds
<1>2. /\ x.keys \in Seq(Int) /\ x.keys # << >>
      /\ Len(x.keys) \in Nat /\ Len(x.keys) \in 1 .. MaxKeys
      /\ Len(x.child) = Len(x.keys) + 1
      /\ \A k \in 1 .. Len(x.child) : x.child[k] \in PageNum
  <2> HIDE DEF x
  <2> QED  BY <1>1, NodeParts
<1>3. v \in Int
  BY AMLeafAssumption
<1>4. b \in 0 .. Len(x.keys)
  <2> HIDE DEF x
  <2> QED  BY <1>2, <1>3, BinSearchIs
<1>5. Child(p, v) = x.child[b + 1]
  BY DEF Child
<1> HIDE DEF x, b
<1>6. b + 1 \in 1 .. Len(x.child) /\ b \in 0 .. MaxKeys
  BY <1>2, <1>4, Constants
<1> QED  BY <1>2, <1>4, <1>5, <1>6 DEF x, b

-----------------------------------------------------------------------------
(* The tree.  h[p] is the height of page p above the leaves. *)

Below(h, pg, np, p) ==
    /\ pg[p].pageType = "l" => h[p] = 0
    /\ pg[p].pageType = "i" => \A k \in 1 .. Len(pg[p].child) :
         pg[p].child[k] \in 1 .. np - 1 /\ h[p] = h[pg[p].child[k]] + 1

Level(h, pg, np) ==
    /\ h \in [PageNum -> Nat]
    /\ \A p \in 0 .. np - 1 : Below(h, pg, np, p)
    /\ np > 0 => h[0] < np

(* The first pages, at most n more, of a search for v from the root. *)
Walk(h, s, v, n) ==
    /\ s \in Seq(PageNum) /\ Len(s) = n + 1 /\ s[1] = 0
    /\ \A k \in 1 .. n + 1 : s[k] \in Pages /\ h[s[k]] = h[0] + 1 - k
    /\ \A k \in 1 .. n : page[s[k]].pageType = "i" /\ s[k + 1] = Child(s[k], v)

LEMMA WalkOn ==
  ASSUME Nodes(page), numpages \in 0 .. MaxPages, NEW h, Level(h, page, numpages),
         NEW v \in Value, NEW n \in Nat, n < h[0], NEW s, Walk(h, s, v, n)
  PROVE  page[Last(s)].pageType = "i" /\ Walk(h, Append(s, Child(Last(s), v)), v, n + 1)
<1> DEFINE p == s[n + 1]
           c == Child(p, v)
           t == Append(s, c)
<1>1. /\ s \in Seq(PageNum) /\ Len(s) = n + 1 /\ s[1] = 0
      /\ \A k \in 1 .. n + 1 : s[k] \in Pages /\ h[s[k]] = h[0] + 1 - k
      /\ \A k \in 1 .. n : page[s[k]].pageType = "i" /\ s[k + 1] = Child(s[k], v)
  BY DEF Walk
<1>2. n + 1 \in 1 .. n + 1 /\ n + 2 \in Nat
  OBVIOUS
<1>3. p \in Pages /\ p \in PageNum /\ h[p] = h[0] - n /\ h[0] \in Nat /\ h \in [PageNum -> Nat]
  <2>1. h \in [PageNum -> Nat] /\ h[0] \in Nat
    BY Constants DEF Level
  <2>2. p \in Pages /\ h[p] = h[0] + 1 - (n + 1)
    BY <1>1, <1>2
  <2>3. Pages \subseteq PageNum
    BY Constants DEF Pages, PageNum
  <2> HIDE DEF p
  <2> QED  BY <2>1, <2>2, <2>3
<1>4. Last(s) = p
  BY <1>1 DEF Last
<1> HIDE DEF p
<1>5. Below(h, page, numpages, p)
  BY <1>3 DEF Level, Pages
<1>6. page[p].pageType = "i"
  <2>1. page[p].pageType # "l"
    BY <1>3, <1>5 DEF Below
  <2> QED  BY <1>3, <2>1, NodeKinds
<1>7. c \in PageNum /\ c \in Pages /\ h[p] = h[c] + 1 /\ h[c] \in Nat
  <2>1. c \in PageNum /\ \E k \in 1 .. Len(page[p].child) : c = page[p].child[k]
    BY <1>3, <1>6, ChildIs
  <2> HIDE DEF c
  <2>2. c \in 1 .. numpages - 1 /\ h[p] = h[c] + 1
    BY <1>5, <1>6, <2>1 DEF Below
  <2> QED  BY <1>3, <2>1, <2>2, SMTT(40) DEF Pages
<1>8. h[c] = h[0] + 1 - (n + 2)
  <2> HIDE DEF c
  <2> QED  BY <1>3, <1>7
<1>9. /\ t \in Seq(PageNum) /\ Len(t) = n + 2 /\ t[n + 2] = c
      /\ \A k \in 1 .. n + 1 : t[k] = s[k]
  <2> HIDE DEF c
  <2> QED  BY <1>1, <1>7
<1>10. c = Child(p, v) /\ t[n + 1] = p
  BY <1>2, <1>9 DEF p
<1> HIDE DEF c, t
<1>11. ASSUME NEW k \in 1 .. n + 2 PROVE t[k] \in Pages /\ h[t[k]] = h[0] + 1 - k
  <2>1. CASE k = n + 2
    BY <1>7, <1>8, <1>9, <2>1
  <2>2. CASE k # n + 2
    <3>1. k \in 1 .. n + 1
      BY <2>2
    <3> QED  BY <1>1, <1>9, <3>1
  <2> QED  BY <2>1, <2>2
<1>12. ASSUME NEW k \in 1 .. n + 1
       PROVE  page[t[k]].pageType = "i" /\ t[k + 1] = Child(t[k], v)
  <2>1. CASE k = n + 1
    <3>1. k + 1 = n + 2
      BY <2>1
    <3> QED  BY <1>6, <1>9, <1>10, <2>1, <3>1
  <2>2. CASE k # n + 1
    <3>1. k \in 1 .. n /\ k + 1 \in 1 .. n + 1
      BY <2>2
    <3> QED  BY <1>1, <1>9, <3>1
  <2> QED  BY <2>1, <2>2
<1>13. t[1] = 0
  <2>1. 1 \in 1 .. n + 1
    OBVIOUS
  <2> QED  BY <1>1, <1>9, <2>1
<1>14. (n + 1) + 1 = n + 2
  OBVIOUS
<1>15. Walk(h, t, v, n + 1)
  BY <1>9, <1>11, <1>12, <1>13, <1>14 DEF Walk
<1> QED  BY <1>4, <1>6, <1>15 DEF t, c

(* A turn of the search, and the path as what all turns make. *)
Step(s, v) == IF page[Last(s)].pageType = "l" THEN s ELSE Append(s, Child(Last(s), v))

LEMMA PathTurns ==
  ASSUME Nodes(page), NEW v \in Value
  PROVE  \E f : /\ PathTo(v) = f[MaxPages - 1]
                /\ f[0] = <<AM_RootPageNum>>
                /\ \A n \in 1 .. MaxPages - 1 : f[n] = Step(f[n - 1], v)
<1> DEFINE K == MaxPages - 1
           X == Seq(PageNum) \ {<< >>}
           start == <<AM_RootPageNum>>
           G == [n \in 1 .. K |-> [s \in X |-> Step(s, v)]]
           Body(f) == [n \in 0 .. K |-> IF n = 0 THEN <<AM_RootPageNum>>
                                        ELSE LET s == f[n - 1]
                                             IN  IF page[Last(s)].pageType = "l" THEN s
                                                 ELSE Append(s, Child(Last(s), v))]
           g == CHOOSE f : f = Body(f)
<1>1. K \in Nat /\ start \in X
  <2>1. AM_RootPageNum \in PageNum
    BY Constants DEF AM_RootPageNum
  <2>2. <<AM_RootPageNum>> \in Seq(PageNum) /\ <<AM_RootPageNum>> # << >>
    BY <2>1
  <2> QED  BY <2>2, Constants
<1>2. ASSUME NEW s \in X PROVE Step(s, v) \in X
  <2>1. s \in Seq(PageNum) /\ s # << >>
    OBVIOUS
  <2>2. Last(s) \in PageNum
    BY <2>1 DEF Last
  <2>3. CASE page[Last(s)].pageType = "l"
    BY <2>3 DEF Step
  <2>4. CASE page[Last(s)].pageType # "l"
    <3>1. Child(Last(s), v) \in PageNum
      BY <2>2, <2>4, NodeKinds, ChildIs
    <3>2. PICK c \in PageNum : c = Child(Last(s), v)
      BY <3>1
    <3>3. Append(s, c) \in Seq(PageNum) /\ Append(s, c) # << >>
      BY <2>1
    <3>4. Step(s, v) = Append(s, c)
      BY <2>4, <3>2 DEF Step
    <3> QED  BY <3>3, <3>4
  <2> QED  BY <2>3, <2>4
<1>3. \A n \in 1 .. K : \A s \in X : G[n][s] = Step(s, v) /\ G[n][s] \in X
  <2> HIDE DEF X
  <2> QED  BY <1>2
<1>4. PICK f : /\ f \in [0 .. K -> X] /\ f[0] = start
               /\ \A n \in 1 .. K : f[n] = G[n][f[n - 1]]
  <2> HIDE DEF G, X, K, start
  <2>1. PICK f : Iterates(f, X, start, G, K)
    BY <1>1, <1>3, Iteration
  <2> QED  BY <2>1 DEF Iterates
<1>5. \A n \in 1 .. K : f[n] = Step(f[n - 1], v)
  <2> SUFFICES ASSUME NEW n \in 1 .. K PROVE f[n] = Step(f[n - 1], v)
    OBVIOUS
  <2>1. n - 1 \in 0 .. K
    BY <1>1
  <2> HIDE DEF G, X, K
  <2>2. f[n - 1] \in X
    BY <1>4, <2>1
  <2> QED  BY <1>3, <1>4, <2>2
<1>6. f = Body(f)
  <2>1. f[0] = <<AM_RootPageNum>> /\ f \in [0 .. K -> X]
    BY <1>4
  <2> HIDE DEF X, G
  <2>2. \A n \in 0 .. K : n = 0 \/ n \in 1 .. K
    BY <1>1
  <2>3. \A n \in 0 .. K : f[n] = Body(f)[n]
    <3> SUFFICES ASSUME NEW n \in 0 .. K PROVE f[n] = Body(f)[n]
      OBVIOUS
    <3> HIDE DEF K
    <3>1. CASE n = 0
      BY <2>1, <3>1
    <3>2. CASE n # 0
      BY <1>5, <2>2, <3>2 DEF Step
    <3> QED  BY <3>1, <3>2
  <2> HIDE DEF K
  <2> QED  BY <2>1, <2>3
<1>7. g = Body(g)
  <2> HIDE DEF Body
  <2> QED  BY <1>6
<1>8. PathTo(v) = g[MaxPages - 1]
  BY DEF PathTo
<1>9. g[0] = <<AM_RootPageNum>>
  <2>1. 0 \in 0 .. K
    BY <1>1
  <2>2. Body(g)[0] = <<AM_RootPageNum>>
    <3> HIDE DEF g, K
    <3> QED  BY <2>1
  <2> HIDE DEF Body, g
  <2> QED  BY <1>7, <2>2
<1>10. ASSUME NEW n \in 1 .. K PROVE g[n] = Step(g[n - 1], v)
  <2>1. n \in 0 .. K /\ n # 0
    BY <1>1
  <2>2. Body(g)[n] = Step(g[n - 1], v)
    <3> HIDE DEF g, K
    <3> QED  BY <2>1 DEF Step
  <2> HIDE DEF Body, g
  <2> QED  BY <1>7, <2>2
<1> HIDE DEF g
<1> QED  BY <1>8, <1>9, <1>10

(* The path goes from the root down to a leaf. *)
PathIs(h, s, v) ==
    /\ Walk(h, s, v, h[0])
    /\ page[Last(s)].pageType = "l" /\ Last(s) \in Pages /\ Last(s) = s[Len(s)]

LEMMA PathToIs ==
  ASSUME Nodes(page), numpages \in 1 .. MaxPages, NEW h, Level(h, page, numpages), NEW v \in Value
  PROVE  PathIs(h, PathTo(v), v)
<1>1. PICK f : /\ PathTo(v) = f[MaxPages - 1]
               /\ f[0] = <<AM_RootPageNum>>
               /\ \A n \in 1 .. MaxPages - 1 : f[n] = Step(f[n - 1], v)
  BY PathTurns
<1>2. PICK H \in Nat : H = h[0] /\ H <= MaxPages - 1
  BY Constants DEF Level
<1>3. MaxPages - 1 \in Nat /\ numpages \in 0 .. MaxPages /\ h \in [PageNum -> Nat]
  BY Constants DEF Level
<1>4. Walk(h, <<0>>, v, 0)
  <2>1. <<0>> \in Seq(PageNum) /\ Len(<<0>>) = 0 + 1 /\ <<0>>[1] = 0
    BY Constants
  <2>2. 0 \in Pages
    BY DEF Pages
  <2>3. \A k \in 1 .. 0 + 1 : k = 1
    OBVIOUS
  <2>4. h[0] = h[0] + 1 - 1
    BY <1>2
  <2>5. \A k \in 1 .. 0 : FALSE
    OBVIOUS
  <2> QED  BY <2>1, <2>2, <2>3, <2>4, <2>5 DEF Walk
<1> DEFINE T == {n \in Nat : n <= H => Walk(h, f[n], v, n)}
<1>5. 0 \in T
  BY <1>1, <1>4 DEF AM_RootPageNum
<1>6. \A n \in Nat : n \in T => n + 1 \in T
  <2> SUFFICES ASSUME NEW n \in Nat, n + 1 <= H, Walk(h, f[n], v, n)
               PROVE  Walk(h, f[n + 1], v, n + 1)
    BY <1>2
  <2>1. n < h[0] /\ n + 1 \in 1 .. MaxPages - 1 /\ (n + 1) - 1 = n
    BY <1>2, <1>3
  <2>2. page[Last(f[n])].pageType = "i" /\ Walk(h, Append(f[n], Child(Last(f[n]), v)), v, n + 1)
    BY <1>3, <2>1, WalkOn
  <2>3. f[n + 1] = Step(f[n], v)
    BY <1>1, <2>1
  <2> QED  BY <2>2, <2>3 DEF Step
<1>7. H \in T
  <2> HIDE DEF T
  <2> QED  BY <1>5, <1>6, Induction
<1>8. Walk(h, f[H], v, H)
  BY <1>2, <1>7
<1> HIDE DEF T
<1>9. /\ f[H] \in Seq(PageNum) /\ Len(f[H]) = H + 1
      /\ f[H][H + 1] \in Pages /\ h[f[H][H + 1]] = 0 /\ Last(f[H]) = f[H][H + 1]
  <2>1. f[H] \in Seq(PageNum) /\ Len(f[H]) = H + 1 /\ H + 1 \in 1 .. H + 1
    BY <1>8 DEF Walk
  <2>2. f[H][H + 1] \in Pages /\ h[f[H][H + 1]] = h[0] + 1 - (H + 1)
    BY <1>8, <2>1 DEF Walk
  <2> QED  BY <1>2, <2>1, <2>2 DEF Last
<1>10. page[Last(f[H])].pageType = "l"
  <2>1. PICK p \in Pages : p = Last(f[H]) /\ h[p] = 0
    BY <1>9
  <2>2. p \in PageNum
    BY <1>3, Constants DEF Pages, PageNum
  <2>3. Below(h, page, numpages, p)
    BY DEF Level, Pages
  <2>4. ASSUME page[p].pageType = "i" PROVE FALSE
    <3>1. GoodNode(page[p])
      BY <2>2, <2>4, NodeKinds
    <3>2. 1 \in 1 .. Len(page[p].child)
      BY <3>1, NodeParts
    <3>3. page[p].child[1] \in 1 .. numpages - 1 /\ h[p] = h[page[p].child[1]] + 1
      BY <2>3, <2>4, <3>2 DEF Below
    <3>4. page[p].child[1] \in PageNum
      BY <1>3, <3>3, Constants DEF PageNum
    <3>5. h[page[p].child[1]] \in Nat
      BY <1>3, <3>4
    <3> QED  BY <2>1, <3>3, <3>5
  <2> QED  BY <2>1, <2>2, <2>4, NodeKinds
<1> DEFINE U == {n \in Nat : H + n <= MaxPages - 1 => f[H + n] = f[H]}
<1>11. 0 \in U
  BY <1>2
<1>12. \A n \in Nat : n \in U => n + 1 \in U
  <2> SUFFICES ASSUME NEW n \in Nat, H + (n + 1) <= MaxPages - 1, f[H + n] = f[H]
               PROVE  f[H + (n + 1)] = f[H]
    BY <1>2, <1>3
  <2>1. H + (n + 1) \in 1 .. MaxPages - 1 /\ (H + (n + 1)) - 1 = H + n
    BY <1>2, <1>3
  <2>2. f[H + (n + 1)] = Step(f[H + n], v)
    BY <1>1, <2>1
  <2> QED  BY <1>10, <2>2 DEF Step
<1>13. \A n \in Nat : n \in U
  <2> HIDE DEF U
  <2> QED  BY <1>11, <1>12, Induction
<1>14. f[MaxPages - 1] = f[H]
  <2>1. PICK n \in Nat : H + n = MaxPages - 1
    <3>1. (MaxPages - 1) - H \in Nat /\ H + ((MaxPages - 1) - H) = MaxPages - 1
      BY <1>2, <1>3
    <3> QED  BY <3>1
  <2>2. n \in U
    BY <1>13
  <2> QED  BY <1>3, <2>1, <2>2
<1> QED  BY <1>1, <1>2, <1>8, <1>9, <1>10, <1>14 DEF PathIs

-----------------------------------------------------------------------------
(* Inner nodes that take a child, or are split. *)

(* The children of node y are those of x, and p. *)
Children(y, x, p) ==
    \A j \in 1 .. Len(y.child) :
      y.child[j] = p \/ \E k \in 1 .. Len(x.child) : y.child[j] = x.child[k]

LEMMA AddtoIntPageIs ==
  ASSUME NEW x, GoodNode(x), NEW key \in Value, NEW p \in PageNum, NEW off \in 0 .. Len(x.keys),
         NEW y, y = AM_AddtoIntPage(x, key, p, off)
  PROVE  /\ y \in IntNode /\ y.pageType = "i"
         /\ y.keys \in Seq(Value) /\ Len(y.keys) = Len(x.keys) + 1
         /\ y.child \in Seq(PageNum) /\ Len(y.child) = Len(y.keys) + 1
         /\ Children(y, x, p)
<1>1. /\ x.pageType = "i" /\ x.keys \in Seq(Value) /\ x.child \in Seq(PageNum)
      /\ Len(x.keys) \in Nat /\ Len(x.child) = Len(x.keys) + 1 /\ x \in IntNode
  BY NodeParts DEF GoodNode
<1>2. PICK ks : ks = InsertAt(x.keys, off + 1, key)
  OBVIOUS
<1>3. PICK cs : cs = InsertAt(x.child, off + 2, p)
  OBVIOUS
<1>4. ks \in Seq(Value) /\ Len(ks) = Len(x.keys) + 1
  <2>1. PICK i \in 1 .. Len(x.keys) + 1 : i = off + 1
    BY <1>1
  <2> QED  BY <1>1, <1>2, <2>1, InsertAtIs
<1>5. PICK i \in 1 .. Len(x.child) + 1 : i = off + 2
  BY <1>1
<1>6. /\ cs \in Seq(PageNum) /\ Len(cs) = Len(x.child) + 1
      /\ \A j \in 1 .. Len(cs) : cs[j] = IF j < i THEN x.child[j] ELSE IF j = i THEN p ELSE x.child[j - 1]
  <2>1. cs = InsertAt(x.child, i, p)
    BY <1>3, <1>5
  <2>2. cs \in Seq(PageNum) /\ Len(cs) = Len(x.child) + 1
    BY <1>1, <1>5, <2>1, InsertAtIs
  <2>3. \A j \in 1 .. Len(cs) :
          cs[j] = IF j < i THEN x.child[j] ELSE IF j = i THEN p ELSE x.child[j - 1]
    BY <1>1, <1>5, <2>1, InsertAtIs, SMTT(40)
  <2> QED  BY <2>2, <2>3
<1>7. y = [x EXCEPT !.keys = ks, !.child = cs]
  BY <1>2, <1>3 DEF AM_AddtoIntPage
<1>8. y \in IntNode /\ y.pageType = "i" /\ y.keys = ks /\ y.child = cs
  BY <1>1, <1>4, <1>6, <1>7 DEF IntNode
<1>9. ASSUME NEW j \in 1 .. Len(cs)
      PROVE  cs[j] = p \/ \E k \in 1 .. Len(x.child) : cs[j] = x.child[k]
  <2>1. CASE j < i
    <3>1. j \in 1 .. Len(x.child)
      BY <1>1, <1>6, <2>1
    <3> QED  BY <1>6, <2>1, <3>1
  <2>2. CASE j = i
    <3>1. ~(j < i)
      BY <2>2
    <3> QED  BY <1>6, <2>2, <3>1
  <2>3. CASE j > i
    <3>1. j - 1 \in 1 .. Len(x.child) /\ ~(j < i) /\ j # i
      BY <1>1, <1>6, <2>3
    <3> QED  BY <1>6, <3>1
  <2> QED  BY <1>5, <2>1, <2>2, <2>3
<1>10. Children(y, x, p)
  BY <1>8, <1>9 DEF Children
<1>11. Len(cs) = Len(ks) + 1
  BY <1>1, <1>4, <1>6
<1> QED  BY <1>4, <1>6, <1>8, <1>10, <1>11

(* AM_AddtoIntPage, when there is room. *)
LEMMA AddFitsGood ==
  ASSUME NEW x, GoodNode(x), Len(x.keys) < MaxKeys,
         NEW key \in Value, NEW p \in PageNum, NEW off \in 0 .. Len(x.keys),
         NEW y, y = AM_AddtoIntPage(x, key, p, off)
  PROVE  GoodNode(y) /\ Children(y, x, p)
<1>1. /\ y \in IntNode /\ Len(y.keys) = Len(x.keys) + 1
      /\ Len(y.child) = Len(y.keys) + 1 /\ Children(y, x, p)
  BY AddtoIntPageIs
<1>2. Len(y.keys) \in 1 .. MaxKeys
  BY <1>1, NodeParts, Constants
<1> QED  BY <1>1, <1>2 DEF GoodNode

(* AM_SplitIntNode *)
NodeSplit(h, x, p) ==
    /\ GoodNode(h.first) /\ Children(h.first, x, p)
    /\ GoodNode(h.second) /\ Children(h.second, x, p)
    /\ h.middle \in Value

LEMMA SplitIntNodeGood ==
  ASSUME NEW x, GoodNode(x), Len(x.keys) = MaxKeys,
         NEW key \in Value, NEW p \in PageNum, NEW off \in 0 .. Len(x.keys),
         NEW h, h = AM_SplitIntNode(x, key, p, off)
  PROVE  NodeSplit(h, x, p)
<1>1. PICK all : all = AM_AddtoIntPage(x, key, p, off)
  OBVIOUS
<1>2. /\ all.keys \in Seq(Value) /\ Len(all.keys) = Len(x.keys) + 1
      /\ all.child \in Seq(PageNum) /\ Len(all.child) = Len(all.keys) + 1
      /\ Children(all, x, p)
  BY <1>1, AddtoIntPageIs
<1>3. PICK a \in Nat : a = MaxKeys \div 2 /\ MaxKeys = 2 * a /\ a > 0
  <2>1. MaxKeys \in Nat \ {0} /\ MaxKeys % 2 = 0
    BY AMAssumption
  <2>2. MaxKeys \div 2 \in Nat /\ MaxKeys = 2 * (MaxKeys \div 2) /\ MaxKeys \div 2 > 0
    BY <2>1
  <2> QED  BY <2>2
<1>4. PICK n \in Nat : n = Len(all.keys) /\ n = 2 * a + 1
  BY <1>2, <1>3
<1>5. Len(all.child) = n + 1
  BY <1>2, <1>4
<1> DEFINE k1 == SubSeq(all.keys, 1, a)
           c1 == SubSeq(all.child, 1, a + 1)
           k2 == SubSeq(all.keys, a + 2, n)
           c2 == SubSeq(all.child, a + 2, n + 1)
<1>6. /\ h.first = [x EXCEPT !.keys = k1, !.child = c1]
      /\ h.middle = all.keys[a + 1]
      /\ h.second = [x EXCEPT !.keys = k2, !.child = c2]
  BY <1>1, <1>3, <1>4 DEF AM_SplitIntNode
<1>7. k1 \in Seq(Value) /\ Len(k1) = a /\ k2 \in Seq(Value) /\ Len(k2) = a
  <2>1. k1 \in Seq(Value) /\ Len(k1) = a
    BY <1>2, <1>4
  <2>2. k2 \in Seq(Value) /\ Len(k2) = n - (a + 2) + 1
    BY <1>2, <1>4
  <2> HIDE DEF k1, k2
  <2> QED  BY <1>4, <2>1, <2>2
<1>8. /\ c1 \in Seq(PageNum) /\ Len(c1) = a + 1 /\ \A j \in 1 .. a + 1 : c1[j] = all.child[j]
  <2>1. c1 \in Seq(PageNum) /\ Len(c1) = a + 1
    BY <1>2, <1>4, <1>5
  <2>2. \A j \in 1 .. a + 1 : c1[j] = all.child[1 + j - 1] /\ 1 + j - 1 = j
    <3>1. 1 <= Len(all.child) + 1 /\ a + 1 \in 0 .. Len(all.child)
      BY <1>4, <1>5
    <3> QED  BY <1>2, <3>1
  <2> HIDE DEF c1
  <2> QED  BY <2>1, <2>2
<1>9. /\ c2 \in Seq(PageNum) /\ Len(c2) = a + 1
      /\ \A j \in 1 .. a + 1 : c2[j] = all.child[a + 1 + j]
  <2>1. c2 \in Seq(PageNum) /\ Len(c2) = (n + 1) - (a + 2) + 1
    BY <1>2, <1>4, <1>5
  <2>2. \A j \in 1 .. (n + 1) - (a + 2) + 1 : c2[j] = all.child[(a + 2) + j - 1]
    BY <1>2, <1>4, <1>5
  <2>3. (n + 1) - (a + 2) + 1 = a + 1 /\ \A j \in 1 .. a + 1 : (a + 2) + j - 1 = a + 1 + j
    BY <1>4
  <2> HIDE DEF c2
  <2> QED  BY <2>1, <2>2, <2>3
<1> HIDE DEF k1, k2, c1, c2
<1>10. x \in IntNode
  BY DEF GoodNode
<1>11. /\ h.first \in IntNode /\ h.first.keys = k1 /\ h.first.child = c1
       /\ h.second \in IntNode /\ h.second.keys = k2 /\ h.second.child = c2
  BY <1>6, <1>7, <1>8, <1>9, <1>10 DEF IntNode
<1>12. a \in 1 .. MaxKeys
  BY <1>3
<1>13. GoodNode(h.first) /\ GoodNode(h.second)
  BY <1>7, <1>8, <1>9, <1>11, <1>12 DEF GoodNode
<1>14. Children(h.first, x, p)
  <2>1. \A j \in 1 .. a + 1 : j \in 1 .. Len(all.child)
    BY <1>4, <1>5
  <2> QED  BY <1>2, <1>8, <1>11, <2>1, ZenonT(60) DEF Children
<1>15. Children(h.second, x, p)
  <2>1. ASSUME NEW j \in 1 .. a + 1
        PROVE  c2[j] = p \/ \E k \in 1 .. Len(x.child) : c2[j] = x.child[k]
    <3>1. PICK e \in 1 .. Len(all.child) : e = a + 1 + j
      BY <1>4, <1>5
    <3>2. c2[j] = all.child[e]
      BY <1>9, <3>1
    <3> QED  BY <1>2, <3>2 DEF Children
  <2> QED  BY <1>9, <1>11, <2>1 DEF Children
<1>16. h.middle \in Value
  <2>1. a + 1 \in 1 .. Len(all.keys)
    BY <1>4
  <2> QED  BY <1>2, <1>6, <2>1
<1> QED  BY <1>13, <1>14, <1>15, <1>16 DEF NodeSplit

LEMMA FillRootIs ==
  ASSUME NEW p1 \in PageNum, NEW p2 \in PageNum, NEW key \in Value,
         NEW x, x = AM_FillRootPage(p1, p2, key)
  PROVE  GoodNode(x) /\ Len(x.child) = 2 /\ x.child[1] = p1 /\ x.child[2] = p2
<1>1. /\ x.pageType = "i" /\ x.keys = <<key>> /\ x.child = <<p1, p2>>
      /\ x \in [pageType : {"i"}, keys : {<<key>>}, child : {<<p1, p2>>}]
  BY DEF AM_FillRootPage
<1>2. <<key>> \in Seq(Value) /\ Len(<<key>>) = 1
  OBVIOUS
<1>3. <<p1, p2>> \in Seq(PageNum) /\ Len(<<p1, p2>>) = 2 /\ <<p1, p2>>[1] = p1 /\ <<p1, p2>>[2] = p2
  OBVIOUS
<1>4. x \in IntNode
  BY <1>1, <1>2, <1>3 DEF IntNode
<1>5. 1 \in 1 .. MaxKeys
  BY Constants
<1> QED  BY <1>1, <1>2, <1>3, <1>4, <1>5 DEF GoodNode

-----------------------------------------------------------------------------
(* Writing nodes to the tree. *)

(* Node x can be at height n of a tree with np pages. *)
FitsAt(h, np, x, n) ==
    \/ GoodLeaf(x) /\ n = 0
    \/ /\ GoodNode(x)
       /\ \A k \in 1 .. Len(x.child) : x.child[k] \in 1 .. np - 1 /\ n = h[x.child[k]] + 1

(* The heights of the pages other than the root are kept. *)
Agree(h, h2, np, np2) ==
    np \in Nat /\ np2 \in Nat /\ np <= np2 /\ \A q \in 1 .. np - 1 : h2[q] = h[q]

LEMMA FitsBelow ==
  ASSUME NEW np, NEW np2, NEW h, NEW h2, NEW pg2, NEW p,
         Agree(h, h2, np, np2), FitsAt(h, np, pg2[p], h2[p])
  PROVE  Below(h2, pg2, np2, p)
<1> USE DEF Agree
<1>1. CASE GoodLeaf(pg2[p]) /\ h2[p] = 0
  <2>1. pg2[p].pageType = "l" /\ "l" # "i"
    BY <1>1, LeafParts DEF GoodLeaf
  <2> QED  BY <1>1, <2>1 DEF Below
<1>2. CASE /\ GoodNode(pg2[p])
           /\ \A k \in 1 .. Len(pg2[p].child) :
                pg2[p].child[k] \in 1 .. np - 1 /\ h2[p] = h[pg2[p].child[k]] + 1
  <2>1. pg2[p].pageType = "i" /\ "l" # "i"
    BY <1>2, NodeParts
  <2>2. \A q \in 1 .. np - 1 : q \in 1 .. np2 - 1
    OBVIOUS
  <2>3. \A k \in 1 .. Len(pg2[p].child) :
          pg2[p].child[k] \in 1 .. np2 - 1 /\ h2[p] = h2[pg2[p].child[k]] + 1
    BY <1>2, <2>2
  <2> QED  BY <2>1, <2>3 DEF Below
<1> QED  BY <1>1, <1>2 DEF FitsAt

(* The pages are as they were, or fit. *)
Kept(h, h2, pg, pg2, np, np2) ==
    \A p \in 0 .. np2 - 1 : \/ p \in 0 .. np - 1 /\ pg2[p] = pg[p] /\ h2[p] = h[p]
                            \/ FitsAt(h, np, pg2[p], h2[p])

LEMMA LevelKept ==
  ASSUME NEW np, NEW np2, NEW h, NEW h2, NEW pg, NEW pg2,
         Level(h, pg, np), h2 \in [PageNum -> Nat], h2[0] < np2,
         Agree(h, h2, np, np2), Kept(h, h2, pg, pg2, np, np2)
  PROVE  Level(h2, pg2, np2)
<1>1. ASSUME NEW p \in 0 .. np - 1, pg2[p] = pg[p], h2[p] = h[p] PROVE Below(h2, pg2, np2, p)
  <2>1. Below(h, pg, np, p)
    BY DEF Level
  <2>2. /\ \A q \in 1 .. np - 1 : q \in 1 .. np2 - 1
        /\ \A q \in 1 .. np - 1 : h2[q] = h[q]
    BY DEF Agree
  <2>3. pg2[p].pageType = "l" => h2[p] = 0
    BY <1>1, <2>1 DEF Below
  <2>4. ASSUME pg2[p].pageType = "i", NEW k \in 1 .. Len(pg2[p].child)
        PROVE  pg2[p].child[k] \in 1 .. np2 - 1 /\ h2[p] = h2[pg2[p].child[k]] + 1
    <3>1. pg[p].child[k] \in 1 .. np - 1 /\ h[p] = h[pg[p].child[k]] + 1
      BY <1>1, <2>1, <2>4 DEF Below
    <3> QED  BY <1>1, <2>2, <3>1
  <2> QED  BY <2>3, <2>4 DEF Below
<1>2. ASSUME NEW p \in 0 .. np2 - 1 PROVE Below(h2, pg2, np2, p)
  <2>1. CASE p \in 0 .. np - 1 /\ pg2[p] = pg[p] /\ h2[p] = h[p]
    BY <1>1, <2>1
  <2>2. CASE FitsAt(h, np, pg2[p], h2[p])
    BY <2>2, FitsBelow
  <2> QED  BY <2>1, <2>2 DEF Kept
<1> QED  BY <1>2 DEF Level

(* A node of the tree is written again. *)
LEMMA NodeWritten ==
  ASSUME NEW pg, NEW np \in 1 .. MaxPages, NEW h, Nodes(pg), Level(h, pg, np),
         NEW p \in 0 .. np - 1, NEW x, FitsAt(h, np, x, h[p]),
         NEW pg2, pg2 = [pg EXCEPT ![p] = x]
  PROVE  Nodes(pg2) /\ Level(h, pg2, np)
<1>1. DOMAIN pg = PageNum /\ p \in PageNum /\ np \in Nat
  BY Constants DEF Nodes, PageNum
<1>2. /\ DOMAIN pg2 = PageNum
      /\ \A q \in PageNum : pg2[q] = IF q = p THEN x ELSE pg[q]
  BY <1>1
<1>3. Nodes(pg2)
  BY <1>2 DEF Nodes, FitsAt
<1>4. \A q \in 0 .. np - 1 : q \in PageNum
  BY Constants DEF PageNum
<1>5. \A q \in 0 .. np - 1 : \/ q \in 0 .. np - 1 /\ pg2[q] = pg[q] /\ h[q] = h[q]
                             \/ FitsAt(h, np, pg2[q], h[q])
  BY <1>2, <1>4
<1>6. h \in [PageNum -> Nat] /\ h[0] < np
  BY DEF Level
<1>7. Level(h, pg2, np)
  <2>1. Agree(h, h, np, np)
    BY <1>1 DEF Agree
  <2>2. Kept(h, h, pg, pg2, np, np)
    BY <1>5 DEF Kept
  <2> QED  BY <1>6, <2>1, <2>2, LevelKept
<1> QED  BY <1>3, <1>7

(* A node is split: its second half goes to a new page. *)
Extends(h2, h, np, n) == h2[np] = n /\ \A q \in 0 .. np - 1 : h2[q] = h[q]

LEMMA NodeAdded ==
  ASSUME NEW pg, NEW np \in 1 .. MaxPages, np < MaxPages, NEW h, Nodes(pg), Level(h, pg, np),
         NEW p \in 0 .. np - 1, NEW x, FitsAt(h, np, x, h[p]),
         NEW y, FitsAt(h, np, y, h[p]),
         NEW pg2, pg2 = [pg EXCEPT ![p] = x, ![np] = y]
  PROVE  Nodes(pg2) /\ \E h2 : Level(h2, pg2, np + 1) /\ Extends(h2, h, np, h[p])
<1>1. DOMAIN pg = PageNum /\ p \in PageNum /\ np \in PageNum /\ np \in Nat /\ p # np
  BY Constants DEF Nodes, PageNum
<1>2. /\ DOMAIN pg2 = PageNum
      /\ \A q \in PageNum : pg2[q] = IF q = np THEN y ELSE IF q = p THEN x ELSE pg[q]
  BY <1>1
<1>3. Nodes(pg2)
  BY <1>2 DEF Nodes, FitsAt
<1>4. h \in [PageNum -> Nat] /\ h[0] < np /\ h[0] \in Nat
  BY Constants DEF Level
<1>5. PICK n \in Nat : n = h[p]
  BY <1>1, <1>4
<1>6. PICK h2 : h2 = [h EXCEPT ![np] = n]
  OBVIOUS
<1>7. /\ h2 \in [PageNum -> Nat] /\ h2[np] = n
      /\ \A q \in PageNum : q # np => h2[q] = h[q]
  BY <1>1, <1>4, <1>6
<1>8. \A q \in 0 .. np : q \in PageNum /\ (q # np => q \in 0 .. np - 1)
  BY <1>1, Constants DEF PageNum
<1>9. \A q \in 0 .. np - 1 : h2[q] = h[q] /\ q # np /\ q \in 0 .. np
  <2>1. \A q \in 0 .. np - 1 : q # np /\ q \in 0 .. np
    BY <1>1
  <2> QED  BY <1>7, <1>8, <2>1
<1>10. ASSUME NEW q \in 0 .. np
       PROVE  \/ q \in 0 .. np - 1 /\ pg2[q] = pg[q] /\ h2[q] = h[q]
              \/ FitsAt(h, np, pg2[q], h2[q])
  <2>1. CASE q = np
    <3>1. pg2[q] = y /\ h2[q] = h[p]
      BY <1>1, <1>2, <1>5, <1>7, <2>1
    <3> QED  BY <3>1
  <2>2. CASE q = p
    <3>1. pg2[q] = x /\ h2[q] = h[p]
      BY <1>1, <1>2, <1>7, <2>2
    <3> QED  BY <3>1
  <2>3. CASE q # np /\ q # p
    BY <1>2, <1>7, <1>8, <2>3
  <2> QED  BY <2>1, <2>2, <2>3
<1>11. Level(h2, pg2, np + 1)
  <2>1. PICK m \in Nat : m = np + 1 /\ m - 1 = np /\ np <= m
    BY <1>1
  <2>2. h2[0] < m
    <3>1. 0 \in 0 .. np - 1
      OBVIOUS
    <3>2. h2[0] = h[0]
      BY <1>9, <3>1
    <3> QED  BY <1>1, <1>4, <2>1, <3>2
  <2>3. \A q \in 0 .. m - 1 : \/ q \in 0 .. np - 1 /\ pg2[q] = pg[q] /\ h2[q] = h[q]
                              \/ FitsAt(h, np, pg2[q], h2[q])
    BY <1>10, <2>1
  <2>4. \A q \in 1 .. np - 1 : h2[q] = h[q]
    <3>1. \A q \in 1 .. np - 1 : q \in 0 .. np - 1
      OBVIOUS
    <3> QED  BY <1>9, <3>1
  <2>5. Level(h2, pg2, m)
    <3>1. Agree(h, h2, np, m)
      BY <1>1, <2>1, <2>4 DEF Agree
    <3>2. Kept(h, h2, pg, pg2, np, m)
      BY <2>3 DEF Kept
    <3> QED  BY <1>7, <2>2, <3>1, <3>2, LevelKept
  <2> QED  BY <2>1, <2>5
<1>12. Extends(h2, h, np, h[p])
  BY <1>5, <1>7, <1>9 DEF Extends
<1> QED  BY <1>3, <1>11, <1>12

(* The root is split: it is now above both its halves. *)
LEMMA RootSplit ==
  ASSUME NEW pg, NEW np \in 1 .. MaxPages, np + 2 <= MaxPages, NEW h, Nodes(pg), Level(h, pg, np),
         NEW x, FitsAt(h, np, x, h[0]), NEW y, FitsAt(h, np, y, h[0]), NEW key \in Value,
         NEW pg2, pg2 = [pg EXCEPT ![np + 1] = x, ![np] = y, ![0] = AM_FillRootPage(np + 1, np, key)]
  PROVE  Nodes(pg2) /\ \E h2 : Level(h2, pg2, np + 2)
<1>1. PICK a \in Nat : a = np + 1
  OBVIOUS
<1>2. /\ DOMAIN pg = PageNum /\ 0 \in PageNum /\ np \in PageNum /\ a \in PageNum /\ np \in Nat
      /\ np # 0 /\ a # 0 /\ a # np
  BY <1>1, Constants DEF Nodes, PageNum
<1>3. PICK r : r = AM_FillRootPage(a, np, key)
  OBVIOUS
<1>4. GoodNode(r) /\ Len(r.child) = 2 /\ r.child[1] = a /\ r.child[2] = np
  BY <1>2, <1>3, FillRootIs
<1>5. /\ DOMAIN pg2 = PageNum
      /\ \A q \in PageNum : pg2[q] = IF q = 0 THEN r ELSE IF q = np THEN y ELSE IF q = a THEN x ELSE pg[q]
  <2>1. pg2 = [pg EXCEPT ![a] = x, ![np] = y, ![0] = r]
    BY <1>1, <1>3
  <2> QED  BY <1>2, <2>1
<1>6. Nodes(pg2)
  BY <1>4, <1>5 DEF Nodes, FitsAt
<1>7. h \in [PageNum -> Nat] /\ h[0] < np /\ h[0] \in Nat
  BY Constants DEF Level
<1>8. PICK n \in Nat : n = h[0]
  BY <1>7
<1>9. PICK h2 : h2 = [h EXCEPT ![a] = n, ![np] = n, ![0] = n + 1]
  OBVIOUS
<1>10. /\ h2 \in [PageNum -> Nat] /\ h2[0] = n + 1 /\ h2[np] = n /\ h2[a] = n
       /\ \A q \in PageNum : q # 0 /\ q # np /\ q # a => h2[q] = h[q]
  BY <1>2, <1>7, <1>8, <1>9
<1>11. \A q \in 1 .. np - 1 : q \in PageNum /\ q # 0 /\ q # np /\ q # a
  BY <1>1, <1>2, Constants DEF PageNum
<1>12. \A q \in 1 .. np - 1 : h2[q] = h[q]
  BY <1>10, <1>11
<1>13. PICK m \in Nat : m = np + 2 /\ np <= m
  BY <1>2
<1>14. \A q \in 0 .. m - 1 : q = 0 \/ q = np \/ q = a \/ q \in 1 .. np - 1
  BY <1>1, <1>2, <1>13
<1>15. Below(h2, pg2, m, 0)
  <2>1. pg2[0] = r
    BY <1>2, <1>5
  <2>2. r.pageType = "i" /\ "i" # "l"
    BY <1>4, NodeParts
  <2>3. ASSUME NEW k \in 1 .. 2 PROVE r.child[k] \in 1 .. m - 1 /\ h2[0] = h2[r.child[k]] + 1
    <3>1. k = 1 \/ k = 2
      OBVIOUS
    <3>2. a \in 1 .. m - 1 /\ np \in 1 .. m - 1
      BY <1>1, <1>2, <1>13
    <3> QED  BY <1>4, <1>10, <3>1, <3>2
  <2> QED  BY <1>4, <2>1, <2>2, <2>3 DEF Below
<1>16. Below(h2, pg2, m, np) /\ Below(h2, pg2, m, a)
  <2>1. pg2[np] = y /\ pg2[a] = x
    BY <1>2, <1>5
  <2>2. FitsAt(h, np, pg2[np], h2[np]) /\ FitsAt(h, np, pg2[a], h2[a])
    BY <1>8, <1>10, <2>1
  <2>3. Agree(h, h2, np, m)
    BY <1>2, <1>12, <1>13 DEF Agree
  <2>4. Below(h2, pg2, m, np)
    BY <2>2, <2>3, FitsBelow
  <2>5. Below(h2, pg2, m, a)
    BY <2>2, <2>3, FitsBelow
  <2> QED  BY <2>4, <2>5
<1>17. ASSUME NEW q \in 1 .. np - 1 PROVE Below(h2, pg2, m, q)
  <2>1. pg2[q] = pg[q] /\ h2[q] = h[q]
    BY <1>5, <1>11, <1>12
  <2>2. Below(h, pg, np, q)
    <3>1. q \in 0 .. np - 1
      OBVIOUS
    <3> QED  BY <3>1 DEF Level
  <2>3. \A c \in 1 .. np - 1 : c \in 1 .. m - 1
    BY <1>2, <1>13
  <2>4. pg2[q].pageType = "l" => h2[q] = 0
    BY <2>1, <2>2 DEF Below
  <2>5. ASSUME pg2[q].pageType = "i", NEW k \in 1 .. Len(pg2[q].child)
        PROVE  pg2[q].child[k] \in 1 .. m - 1 /\ h2[q] = h2[pg2[q].child[k]] + 1
    <3>1. pg[q].child[k] \in 1 .. np - 1 /\ h[q] = h[pg[q].child[k]] + 1
      BY <2>1, <2>2, <2>5 DEF Below
    <3> QED  BY <1>12, <2>1, <2>3, <3>1
  <2> QED  BY <2>4, <2>5 DEF Below
<1>18. h2[0] < m
  BY <1>2, <1>7, <1>8, <1>10, <1>13
<1>19. Level(h2, pg2, m)
  <2>1. \A q \in 0 .. m - 1 : Below(h2, pg2, m, q)
    BY <1>14, <1>15, <1>16, <1>17
  <2> QED  BY <1>10, <1>18, <2>1 DEF Level
<1> QED  BY <1>6, <1>13, <1>19

(* The halves of an inner node that has got a child below it. *)
LEMMA ChildrenFit ==
  ASSUME NEW pg, NEW np \in Nat, NEW h, Level(h, pg, np),
         NEW p \in 0 .. np - 1, pg[p].pageType = "i", NEW c \in 1 .. np - 1, h[p] = h[c] + 1,
         NEW y, GoodNode(y), Children(y, pg[p], c)
  PROVE  FitsAt(h, np, y, h[p])
<1>1. \A k \in 1 .. Len(pg[p].child) : pg[p].child[k] \in 1 .. np - 1 /\ h[p] = h[pg[p].child[k]] + 1
  BY DEF Level, Below
<1>2. ASSUME NEW j \in 1 .. Len(y.child)
      PROVE  y.child[j] \in 1 .. np - 1 /\ h[p] = h[y.child[j]] + 1
  <2>1. y.child[j] = c \/ \E k \in 1 .. Len(pg[p].child) : y.child[j] = pg[p].child[k]
    BY DEF Children
  <2> QED  BY <1>1, <2>1
<1> QED  BY <1>2 DEF FitsAt

-----------------------------------------------------------------------------
(* The inductive invariant. *)

StackEntry == [pageNumber : PageNum, offset : 0 .. MaxKeys]

(* Entry e of the stack is k levels above page c; the d-th is the root. *)
Above(h, pg, np, e, c, k, d) ==
    /\ e.pageNumber \in 0 .. np - 1
    /\ pg[e.pageNumber].pageType = "i"
    /\ e.offset \in 0 .. Len(pg[e.pageNumber].keys)
    /\ h[e.pageNumber] = h[c] + k
    /\ e.pageNumber = AM_RootPageNum <=> k = d

Upwards(h, pg, np, st, c, d) ==
    \A k \in 1 .. d : Above(h, pg, np, st[Len(st) + 1 - k], c, k, d)

(* AM_AddtoParent is to be called for a page that was split off: the stack *)
(* leads from its parent to the root, and should they all be split too the *)
(* file has room.                                                          *)
Pending(h, pg, np, st, cl) ==
    /\ cl \in [pageNum : PageNum, key : Value]
    /\ cl.pageNum \in 1 .. np - 1
    /\ \E d \in 1 .. Len(st) : np + d + 1 <= MaxPages /\ Upwards(h, pg, np, st, cl.pageNum, d)

Tree(pg, np, st, cl) ==
    /\ Nodes(pg)
    /\ \E h : Level(h, pg, np) /\ (cl = NoCall \/ Pending(h, pg, np, st, cl))

AMInv ==
    /\ status \in {"none", "closed", "open", "lost"}
    /\ numpages \in 0 .. MaxPages
    /\ status \in {"closed", "open"} => numpages > 0
    /\ pinned \subseteq Pages
    /\ status # "open" => pinned = {}
    /\ stack \in Seq(StackEntry)
    /\ Idle \/ status = "open"
    /\ Tree(page, numpages, stack, call)

(* And of the rest: it has no part in what happens to the tree. *)
Coded ==
    /\ others \in 0 .. MaxOthers
    /\ ret \in {AME_OK, AME_INVALIDATTRLENGTH, AME_NOTFOUND, AME_PF}

LEMMA AMInvTypeOK ==
  ASSUME AMInv, Coded
  PROVE  AMTypeOK
<1>1. \A p \in PageNum :
         \/ page[p] \in Leaf
         \/ /\ page[p] \in IntNode
            /\ Len(page[p].keys) \in 1 .. MaxKeys
            /\ Len(page[p].child) = Len(page[p].keys) + 1
  BY DEF AMInv, Tree, Nodes, GoodLeaf, GoodNode
<1>2. call \in {NoCall} \cup [pageNum : PageNum, key : Value]
  BY DEF AMInv, Tree, Pending
<1>3. DOMAIN page = PageNum
  BY DEF AMInv, Tree, Nodes
<1> QED  BY <1>1, <1>2, <1>3 DEF AMInv, Coded, AMTypeOK, StackEntry

(* While no call is under way the stack is not looked at. *)
LEMMA TreeStays ==
  ASSUME NEW pg, NEW np, NEW st, Tree(pg, np, st, NoCall), NEW st2
  PROVE  Tree(pg, np, st2, NoCall)
BY DEF Tree

-----------------------------------------------------------------------------
(* Searches. *)

(* What a search comes to. *)
Arrives(h, v) ==
    /\ Level(h, page, numpages) /\ numpages \in 1 .. MaxPages
    /\ PathIs(h, PathTo(v), v)
    /\ h[0] \in Nat /\ Len(PathTo(v)) = h[0] + 1
    /\ Last(PathTo(v)) \in 0 .. numpages - 1 /\ Last(PathTo(v)) \in PageNum
    /\ GoodLeaf(page[Last(PathTo(v))]) /\ h[Last(PathTo(v))] = 0

LEMMA PathReaches ==
  ASSUME AMInv, numpages # 0, NEW v \in Value
  PROVE  \E h : Arrives(h, v)
<1>1. numpages \in 1 .. MaxPages /\ Nodes(page)
  BY Constants DEF AMInv, Tree
<1>2. PICK h : Level(h, page, numpages)
  BY DEF AMInv, Tree
<1>3. PathIs(h, PathTo(v), v)
  BY <1>1, <1>2, PathToIs
<1>4. PICK p : p = Last(PathTo(v))
  OBVIOUS
<1>5. page[p].pageType = "l" /\ p \in Pages
  BY <1>3, <1>4 DEF PathIs
<1>6. p \in 0 .. numpages - 1 /\ p \in PageNum
  BY <1>1, <1>5, Constants DEF Pages, PageNum
<1>7. GoodLeaf(page[p])
  BY <1>1, <1>5, <1>6, NodeKinds
<1>8. h[p] = 0
  BY <1>2, <1>5, <1>6 DEF Level, Below
<1>9. Walk(h, PathTo(v), v, h[0])
  BY <1>3 DEF PathIs
<1>10. h[0] \in Nat /\ Len(PathTo(v)) = h[0] + 1
  BY <1>2, <1>9, Constants DEF Level, Walk
<1> QED  BY <1>1, <1>2, <1>3, <1>4, <1>6, <1>7, <1>8, <1>10 DEF Arrives

LEMMA SearchReaches ==
  ASSUME AMInv, status = "open", NEW v \in Value
  PROVE  \E h : Arrives(h, v)
<1>1. numpages # 0
  BY DEF AMInv
<1> QED  BY <1>1, PathReaches

LEMMA MinOfTwo ==
  ASSUME NEW a \in Nat, NEW b \in Nat
  PROVE  Min({a, b}) = IF a <= b THEN a ELSE b
<1> DEFINE m == IF a <= b THEN a ELSE b
<1>1. m \in {a, b} /\ m \in Nat /\ \A y \in {a, b} : m <= y
  OBVIOUS
<1>2. \A x \in {a, b} : (\A y \in {a, b} : x <= y) => x = m
  OBVIOUS
<1> HIDE DEF m
<1>3. (CHOOSE x \in {a, b} : \A y \in {a, b} : x <= y) = m
  BY <1>1, <1>2
<1> QED  BY <1>3 DEF Min, m

LEMMA GotIs ==
  ASSUME NEW s \in Seq(PageNum)
  PROVE  Got(s) \in 0 .. Len(s)
<1> DEFINE S == {k \in DOMAIN s : s[k] \in pinned} \cup {Len(s) + 1}
<1>1. CASE PoolIsFull(pinned)
  BY <1>1 DEF Got
<1>2. CASE ~PoolIsFull(pinned)
  <2>1. S \subseteq 1 .. Len(s) + 1 /\ Len(s) + 1 \in S /\ Len(s) \in Nat
    OBVIOUS
  <2> HIDE DEF S
  <2>2. Min(S) \in S
    <3>1. S \in SUBSET Nat /\ S # {}
      BY <2>1
    <3> QED  BY <3>1, LeastNumber
  <2>3. PICK m \in 1 .. Len(s) + 1 : m = Min(S)
    BY <2>1, <2>2
  <2>4. m - 1 \in 0 .. Len(s)
    BY <2>1
  <2>5. Min(S) - 1 \in 0 .. Len(s)
    BY <2>3, <2>4
  <2> QED  BY <1>2, <2>5 DEF Got, S
<1> QED  BY <1>1, <1>2

(* The entry that a search for v pushes for page p. *)
Pushing(p, v) == [pageNumber |-> p, offset |-> AM_BinSearch(page[p].keys, v)]

OnPath(h, v, s, n) ==
    \A k \in 1 .. n : /\ s[k] \in 0 .. numpages - 1 /\ page[s[k]].pageType = "i"
                      /\ Pushing(s[k], v) \in StackEntry
                      /\ Pushing(s[k], v).offset \in 0 .. Len(page[s[k]].keys)
                      /\ h[s[k]] = n + 1 - k
                      /\ s[k] = 0 <=> k = 1

LEMMA PushedIs ==
  ASSUME AMInv, NEW v \in Value, NEW h, Arrives(h, v), NEW s, s = PathTo(v)
  PROVE  /\ Pushed(s, v) \in Seq(StackEntry)
         /\ Got(s) = Len(s) => Pushed(s, v) = stack \o [k \in 1 .. h[0] |-> Pushing(s[k], v)]
         /\ OnPath(h, v, s, h[0])
<1>1. Walk(h, s, v, h[0]) /\ Len(s) = h[0] + 1 /\ h[0] \in Nat
  BY DEF Arrives, PathIs
<1>2. s \in Seq(PageNum)
  BY <1>1 DEF Walk
<1>3. stack \in Seq(StackEntry) /\ Nodes(page)
  BY DEF AMInv, Tree
<1>4. ASSUME NEW k \in 1 .. h[0]
      PROVE  /\ s[k] \in 0 .. numpages - 1 /\ s[k] \in PageNum /\ page[s[k]].pageType = "i"
             /\ h[s[k]] = h[0] + 1 - k
  <2>1. k \in 1 .. h[0] + 1
    BY <1>1
  <2>2. s[k] \in Pages /\ h[s[k]] = h[0] + 1 - k /\ page[s[k]].pageType = "i"
    BY <1>1, <2>1 DEF Walk
  <2>3. s[k] \in PageNum
    BY <1>1, <1>2, <2>1
  <2> QED  BY <2>2, <2>3 DEF Pages
<1>5. ASSUME NEW k \in 1 .. h[0]
      PROVE  /\ Pushing(s[k], v) \in StackEntry
             /\ Pushing(s[k], v).offset \in 0 .. Len(page[s[k]].keys)
  <2>1. PICK p \in PageNum : p = s[k]
    BY <1>4
  <2>2. page[p].pageType = "i"
    BY <1>4, <2>1
  <2>3. AM_BinSearch(page[p].keys, v) \in 0 .. Len(page[p].keys)
    BY <1>3, <2>2, ChildIs
  <2>4. AM_BinSearch(page[p].keys, v) \in 0 .. MaxKeys
    BY <1>3, <2>2, ChildIs
  <2> QED  BY <2>1, <2>3, <2>4 DEF Pushing, StackEntry
<1>6. ASSUME NEW k \in 1 .. h[0] PROVE s[k] = 0 <=> k = 1
  <2>1. s[1] = 0
    BY <1>1 DEF Walk
  <2>2. s[k] = 0 => h[0] = h[0] + 1 - k
    BY <1>4
  <2> QED  BY <1>1, <2>1, <2>2
<1>7. PICK g \in 0 .. Len(s) : g = Got(s)
  BY <1>2, GotIs
<1>8. PICK m \in 0 .. h[0] : m = Min({Got(s), Len(s) - 1}) /\ (g = Len(s) => m = h[0])
  <2>1. g \in Nat /\ Len(s) - 1 = h[0] /\ h[0] \in Nat
    BY <1>1, <1>7
  <2>2. Min({g, h[0]}) = IF g <= h[0] THEN g ELSE h[0]
    BY <2>1, MinOfTwo
  <2> DEFINE m == IF g <= h[0] THEN g ELSE h[0]
  <2>3. m \in 0 .. h[0] /\ (g = Len(s) => m = h[0])
    BY <1>1, <1>7
  <2>4. m = Min({Got(s), Len(s) - 1})
    BY <1>7, <2>1, <2>2
  <2> HIDE DEF m
  <2> QED  BY <2>3, <2>4
<1>9. Pushed(s, v) = stack \o [k \in 1 .. m |-> Pushing(s[k], v)]
  BY <1>8 DEF Pushed, Pushing
<1>10. Pushed(s, v) \in Seq(StackEntry)
  <2> DEFINE e == [k \in 1 .. m |-> Pushing(s[k], v)]
  <2>1. \A k \in 1 .. m : k \in 1 .. h[0]
    BY <1>1, <1>8
  <2>2. \A k \in 1 .. m : Pushing(s[k], v) \in StackEntry
    BY <1>5, <2>1
  <2>3. e \in Seq(StackEntry)
    <3>1. m \in Nat
      BY <1>1, <1>8
    <3>2. e \in [1 .. m -> StackEntry]
      BY <2>2
    <3> HIDE DEF e
    <3> QED  BY <3>1, <3>2
  <2> HIDE DEF e
  <2>4. stack \o e \in Seq(StackEntry)
    BY <1>3, <2>3
  <2> QED  BY <1>9, <2>4 DEF e
<1>11. OnPath(h, v, s, h[0])
  BY <1>4, <1>5, <1>6 DEF OnPath
<1>12. Got(s) = Len(s) => Pushed(s, v) = stack \o [k \in 1 .. h[0] |-> Pushing(s[k], v)]
  BY <1>7, <1>8, <1>9
<1> QED  BY <1>10, <1>11, <1>12

-----------------------------------------------------------------------------
(* The steps on the index as a file. *)

(* A file of no page, or of one leaf. *)
LEMMA FlatTree ==
  ASSUME NEW pg, Nodes(pg), NEW np \in 0 .. 1, np = 1 => GoodLeaf(pg[0]), NEW st
  PROVE  Tree(pg, np, st, NoCall)
<1>1. PICK h : h = [p \in PageNum |-> 0]
  OBVIOUS
<1>2. h \in [PageNum -> Nat] /\ h[0] = 0 /\ 0 \in PageNum
  BY <1>1, Constants
<1>3. \A p \in 0 .. np - 1 : p = 0 /\ np = 1
  OBVIOUS
<1>4. ASSUME NEW p \in 0 .. np - 1 PROVE Below(h, pg, np, p)
  <2>1. p = 0 /\ GoodLeaf(pg[0])
    BY <1>3
  <2>2. pg[p].pageType = "l" /\ "l" # "i"
    BY <1>2, <2>1, NodeKinds
  <2> QED  BY <1>2, <2>1, <2>2 DEF Below
<1>5. Level(h, pg, np)
  BY <1>2, <1>4 DEF Level
<1> QED  BY <1>5 DEF Tree

LEMMA InitInv == AMInit => AMInv
<1> SUFFICES ASSUME AMInit PROVE AMInv
  OBVIOUS
<1>1. Nodes(page)
  BY EmptyGood DEF AMInit, Nodes
<1>2. Tree(page, 0, stack, NoCall)
  BY <1>1, FlatTree
<1>3. 0 \in 0 .. MaxPages /\ 0 \in 0 .. MaxOthers
  BY Constants, AMAssumption
<1> QED  BY <1>2, <1>3 DEF AMInit, AMInv, Idle

LEMMA CreateIndexInv == AMInv /\ AM_CreateIndex => AMInv'
<1> SUFFICES ASSUME AMInv, AM_CreateIndex PROVE AMInv'
  OBVIOUS
<1>1. pinned' = pinned /\ others' = others /\ stack' = stack /\ call' = NoCall
  BY DEF AM_CreateIndex, Return
<1>2. CASE /\ status = "none" /\ status' = "closed" /\ numpages' = 1 /\ ret' = AME_OK
           /\ page' = [page EXCEPT ![AM_RootPageNum] = EmptyLeaf]
  <2>1. Nodes(page)
    BY DEF AMInv, Tree
  <2>2. Nodes(page') /\ GoodLeaf(page'[0])
    BY <1>2, <2>1, EmptyGood, Constants DEF Nodes, AM_RootPageNum
  <2>3. Tree(page', 1, stack', NoCall)
    BY <2>2, FlatTree
  <2>4. pinned = {} /\ 1 \in 0 .. MaxPages
    BY <1>2, Constants DEF AMInv
  <2> QED  BY <1>1, <1>2, <2>3, <2>4 DEF AMInv, Idle
<1>3. CASE /\ status = "none" /\ status' = "lost" /\ ret' = AME_PF
           /\ numpages' = numpages /\ page' = page
  <2>1. Tree(page', numpages', stack', NoCall)
    BY <1>1, <1>3 DEF AMInv, AM_CreateIndex, Idle
  <2>2. pinned' = {}
    BY <1>1, <1>3 DEF AMInv
  <2> QED  BY <1>1, <1>3, <2>1, <2>2 DEF AMInv, Idle
<1>4. CASE ret' = AME_PF /\ UNCHANGED file
  BY <1>1, <1>4 DEF AMInv, AM_CreateIndex, Idle, file, Pages
<1> QED  BY <1>2, <1>3, <1>4 DEF AM_CreateIndex, Return

LEMMA DestroyIndexInv == AMInv /\ AM_DestroyIndex => AMInv'
<1> SUFFICES ASSUME AMInv, AM_DestroyIndex PROVE AMInv'
  OBVIOUS
<1>1. pinned' = pinned /\ others' = others /\ stack' = stack /\ call' = NoCall
  BY DEF AM_DestroyIndex, Return
<1>2. CASE /\ status = "closed" /\ status' = "none" /\ numpages' = 0 /\ ret' = AME_OK
           /\ page' = [p \in PageNum |-> EmptyLeaf]
  <2>1. Nodes(page')
    BY <1>2, EmptyGood DEF Nodes
  <2>2. Tree(page', 0, stack', NoCall)
    BY <2>1, FlatTree
  <2>3. pinned' = {} /\ 0 \in 0 .. MaxPages
    BY <1>1, <1>2, Constants DEF AMInv
  <2> QED  BY <1>1, <1>2, <2>2, <2>3 DEF AMInv, Idle
<1>3. CASE ret' = AME_PF /\ UNCHANGED file
  BY <1>1, <1>3 DEF AMInv, AM_DestroyIndex, Idle, file, Pages
<1> QED  BY <1>2, <1>3 DEF AM_DestroyIndex, Return

LEMMA OpenCloseInv == AMInv /\ (PF_OpenFile \/ PF_CloseFile) => AMInv'
<1> SUFFICES ASSUME AMInv, PF_OpenFile \/ PF_CloseFile PROVE AMInv'
  OBVIOUS
<1>1. /\ Idle /\ call' = NoCall /\ Idle'
      /\ pinned' = pinned /\ others' = others /\ stack' = stack
      /\ numpages' = numpages /\ page' = page
  BY DEF PF_OpenFile, PF_CloseFile, Return, Idle
<1>2. Tree(page', numpages', stack', call')
  BY <1>1 DEF AMInv, Idle
<1>3. /\ status' \in {"closed", "open"} /\ ret' \in {AME_OK, AME_PF} /\ numpages > 0
      /\ status' # "open" => pinned = {}
  BY DEF PF_OpenFile, PF_CloseFile, Return, AMInv
<1> QED  BY <1>1, <1>2, <1>3 DEF AMInv, Pages

LEMMA OtherFilesInv == AMInv /\ OtherFiles => AMInv'
<1> SUFFICES ASSUME AMInv, OtherFiles PROVE AMInv'
  OBVIOUS
<1>1. others' \in 0 .. MaxOthers /\ UNCHANGED <<status, numpages, page, pinned, stack, call, ret>>
  BY DEF OtherFiles, file
<1> QED  BY <1>1 DEF AMInv, Idle, Pages

-----------------------------------------------------------------------------
(* The calls that split no leaf. *)

(* A call returns. *)
CallEnds ==
    /\ status' = status /\ others' = others
    /\ numpages' \in 1 .. MaxPages
    /\ pinned' \subseteq 0 .. numpages' - 1
    /\ stack' \in Seq(StackEntry)
    /\ call' = NoCall /\ ret' \in {AME_OK, AME_INVALIDATTRLENGTH, AME_NOTFOUND, AME_PF}
    /\ Tree(page', numpages', stack', NoCall)

LEMMA EndedInv ==
  ASSUME AMInv, status = "open", CallEnds
  PROVE  AMInv'
<1>1. status' = "open" /\ pinned' \subseteq Pages'
  BY DEF AMInv, CallEnds, Pages
<1>2. numpages' \in 0 .. MaxPages /\ numpages' > 0
  BY Constants DEF CallEnds
<1>3. Tree(page', numpages', stack', call') /\ Idle'
  BY DEF CallEnds, Idle
<1> QED  BY <1>1, <1>2, <1>3 DEF AMInv, CallEnds

(* A call that changed no page returns, with page p fixed or not. *)
LEMMA EndedUnchanged ==
  ASSUME AMInv, status = "open", UNCHANGED <<file, others>>, stack' \in Seq(StackEntry),
         NEW p \in 0 .. numpages - 1, pinned' \in {pinned, pinned \cup {p}},
         call' = NoCall, ret' \in {AME_OK, AME_INVALIDATTRLENGTH, AME_NOTFOUND, AME_PF},
         Idle
  PROVE  CallEnds
<1>1. numpages' = numpages /\ page' = page /\ status' = status /\ others' = others
  BY DEF file
<1>2. numpages' \in 1 .. MaxPages
  BY <1>1, Constants DEF AMInv
<1>3. pinned' \subseteq 0 .. numpages' - 1
  BY <1>1 DEF AMInv, Pages
<1>4. Tree(page, numpages, stack, NoCall)
  BY DEF AMInv, Idle
<1>5. Tree(page', numpages', stack', NoCall)
  BY <1>1, <1>4, TreeStays
<1> QED  BY <1>1, <1>2, <1>3, <1>5 DEF CallEnds

LEMMA SearchFailsIs ==
  ASSUME NEW v, NEW known, SearchFails(v, known)
  PROVE  /\ pinned' \in {pinned, pinned \cup {0}}
         /\ call' = NoCall /\ ret' \in {AME_OK, AME_INVALIDATTRLENGTH, AME_NOTFOUND, AME_PF}
BY DEF SearchFails, Return, AM_RootPageNum

(* A leaf is written. *)
LEMMA LeafWritten ==
  ASSUME AMInv, status = "open", NEW v \in Value, NEW h, Arrives(h, v), NEW x, GoodLeaf(x),
         NEW p, p = Last(PathTo(v)), Idle,
         page' = [page EXCEPT ![p] = x], UNCHANGED <<status, numpages, pinned, others>>,
         stack' = << >>, call' = NoCall, ret' = AME_OK
  PROVE  CallEnds
<1>1. /\ Level(h, page, numpages) /\ numpages \in 1 .. MaxPages
      /\ p \in 0 .. numpages - 1 /\ h[p] = 0
  BY DEF Arrives
<1>2. FitsAt(h, numpages, x, h[p])
  BY <1>1 DEF FitsAt
<1>3. Nodes(page)
  BY DEF AMInv, Tree
<1>4. Nodes(page') /\ Level(h, page', numpages)
  BY <1>1, <1>2, <1>3, NodeWritten
<1>5. Tree(page', numpages', stack', NoCall)
  BY <1>4 DEF Tree
<1>6. stack' \in Seq(StackEntry)
  OBVIOUS
<1> QED  BY <1>1, <1>5, <1>6 DEF CallEnds, AMInv, Pages

LEMMA DeleteInv ==
  ASSUME AMInv, NEW v \in Value, NEW r \in RecId, NEW known \in BOOLEAN,
         AM_DeleteEntry(v, r, known)
  PROVE  AMInv'
<1>1. Idle /\ status = "open"
  BY DEF AM_DeleteEntry, MaySearch
<1>2. PICK h : Arrives(h, v)
  BY <1>1, SearchReaches
<1>3. PICK p : p = Last(PathTo(v))
  OBVIOUS
<1>4. GoodLeaf(page[p]) /\ p \in 0 .. numpages - 1 /\ 0 \in 0 .. numpages - 1
  BY <1>2, <1>3, Constants DEF Arrives
<1>5. Pushed(PathTo(v), v) \in Seq(StackEntry)
  BY <1>2, PushedIs
<1>6. CASE DeleteFails(v, known)
  <2>1. /\ pinned' \in {pinned, pinned \cup {0}}
        /\ call' = NoCall /\ ret' \in {AME_OK, AME_INVALIDATTRLENGTH, AME_NOTFOUND, AME_PF}
    BY <1>6, SearchFailsIs DEF DeleteFails
  <2>2. stack' \in Seq(StackEntry) /\ UNCHANGED <<file, others>>
    BY <1>5, <1>6 DEF DeleteFails, AMInv
  <2>3. CallEnds
    BY <1>1, <1>4, <2>1, <2>2, EndedUnchanged
  <2> QED  BY <1>1, <2>3, EndedInv
<1>7. CASE DeleteNotFound(v, r)
  <2>1. /\ pinned' = pinned \cup {p} /\ stack' \in Seq(StackEntry) /\ UNCHANGED <<file, others>>
        /\ call' = NoCall /\ ret' = AME_NOTFOUND
    BY <1>3, <1>5, <1>7 DEF DeleteNotFound, Return
  <2>2. CallEnds
    BY <1>1, <1>4, <2>1, EndedUnchanged
  <2> QED  BY <1>1, <2>2, EndedInv
<1>8. CASE DeleteFound(v, r)
  <2>1. PICK i : i = AM_SearchLeaf(Values(page[p]), v)
    OBVIOUS
  <2>2. PICK x : x = DeleteFromLeaf(page[p], i, r)
    OBVIOUS
  <2>3. Contains(RecordsIn(page[p], v), r)
    BY <1>3, <1>8 DEF DeleteFound
  <2>4. GoodLeaf(x)
    <3>1. i \in 1 .. Len(page[p].keys) /\ r \in Range(RecIds(page[p], i))
      BY <1>4, <2>1, <2>3, RecordIn
    <3> QED  BY <1>4, <2>2, <3>1, DeleteGood
  <2>5. /\ page' = [page EXCEPT ![p] = x] /\ UNCHANGED <<status, numpages, pinned, others>>
        /\ stack' = << >> /\ call' = NoCall /\ ret' = AME_OK
    BY <1>3, <1>8, <2>1, <2>2 DEF DeleteFound, Return
  <2>6. CallEnds
    BY <1>1, <1>2, <1>3, <2>4, <2>5, LeafWritten
  <2> QED  BY <1>1, <2>6, EndedInv
<1> QED  BY <1>6, <1>7, <1>8 DEF AM_DeleteEntry

-----------------------------------------------------------------------------
(* AM_InsertEntry *)

(* The halves of a leaf are where it was, and on a new page. *)
LEMMA HalvesFit ==
  ASSUME NEW v \in Value, NEW r \in RecId, NEW h, Arrives(h, v), numpages + 1 <= MaxPages,
         NEW p, p = Last(PathTo(v)), NEW y, y = Halves(page[p], v, r, numpages)
  PROVE  /\ FitsAt(h, numpages, y.first, h[p]) /\ FitsAt(h, numpages, y.second, h[p])
         /\ y.second.keys[1].value \in Value
<1>1. GoodLeaf(page[p]) /\ h[p] = 0
  BY DEF Arrives
<1>2. numpages \in AM_NULL_PAGE .. MaxPages - 1
  BY Constants DEF Arrives, AM_NULL_PAGE
<1>3. Split(page[p], y, numpages)
  BY <1>1, <1>2, HalvesGood
<1>4. GoodLeaf(y.first) /\ GoodLeaf(y.second) /\ Len(y.second.keys) > 0
  BY <1>3 DEF Split
<1>5. y.second \in Leaf
  BY <1>4 DEF GoodLeaf
<1>6. 1 \in 1 .. Len(y.second.keys)
  BY <1>4, <1>5, LeafParts
<1>7. y.second.keys[1].value \in Value
  BY <1>5, <1>6, LeafParts
<1> QED  BY <1>1, <1>4, <1>7 DEF FitsAt

(* A page is split in two and its parent is not told: the tree is one      *)
(* still, to which the new page does not belong.                           *)
LEMMA SplitAlone ==
  ASSUME NEW pg, NEW np \in 1 .. MaxPages, np < MaxPages, NEW h, Nodes(pg), Level(h, pg, np),
         NEW p \in 0 .. np - 1, NEW x, FitsAt(h, np, x, h[p]), NEW y, FitsAt(h, np, y, h[p]),
         NEW pg2, pg2 = [pg EXCEPT ![p] = x, ![np] = y], NEW st
  PROVE  Tree(pg2, np + 1, st, NoCall)
<1>1. Nodes(pg2) /\ \E h2 : Level(h2, pg2, np + 1)
  BY NodeAdded
<1> QED  BY <1>1 DEF Tree

LEMMA RootSplitTree ==
  ASSUME NEW pg, NEW np \in 1 .. MaxPages, np + 2 <= MaxPages, NEW h, Nodes(pg), Level(h, pg, np),
         NEW x, FitsAt(h, np, x, h[0]), NEW y, FitsAt(h, np, y, h[0]), NEW key \in Value,
         NEW pg2, pg2 = [pg EXCEPT ![np + 1] = x, ![np] = y, ![0] = AM_FillRootPage(np + 1, np, key)],
         NEW st
  PROVE  Tree(pg2, np + 2, st, NoCall)
<1>1. Nodes(pg2) /\ \E h2 : Level(h2, pg2, np + 2)
  BY RootSplit
<1> QED  BY <1>1 DEF Tree

(* Its parent is to be told: the entries of the stack above it are still   *)
(* right when it has been split.                                           *)
LEMMA SplitPending ==
  ASSUME NEW pg, NEW np \in 1 .. MaxPages, np < MaxPages, NEW h, Nodes(pg), Level(h, pg, np),
         NEW p \in 0 .. np - 1, NEW x, FitsAt(h, np, x, h[p]), NEW y, FitsAt(h, np, y, h[p]),
         NEW pg2, pg2 = [pg EXCEPT ![p] = x, ![np] = y],
         NEW st \in Seq(StackEntry), NEW d \in 1 .. Len(st), (np + 1) + d + 1 <= MaxPages,
         Upwards(h, pg, np, st, p, d),
         NEW key \in Value, NEW cl, cl = [pageNum |-> np, key |-> key]
  PROVE  Tree(pg2, np + 1, st, cl)
<1>1. PICK h2 : Nodes(pg2) /\ Level(h2, pg2, np + 1) /\ Extends(h2, h, np, h[p])
  BY NodeAdded
<1>2. h2[np] = h[p] /\ \A q \in 0 .. np - 1 : h2[q] = h[q]
  BY <1>1 DEF Extends
<1>3. DOMAIN pg = PageNum /\ np \in PageNum /\ p \in PageNum /\ np \in Nat /\ np # p
  BY Constants DEF Nodes, PageNum
<1>4. \A q \in 0 .. np - 1 : q # p => pg2[q] = pg[q]
  <2>1. \A q \in 0 .. np - 1 : q \in PageNum /\ q # np
    BY <1>3, Constants DEF PageNum
  <2> QED  BY <1>3, <2>1
<1>5. h[p] \in Nat
  BY <1>3 DEF Level
<1>6. ASSUME NEW k \in 1 .. d PROVE Above(h2, pg2, np + 1, st[Len(st) + 1 - k], np, k, d)
  <2>1. PICK e : e = st[Len(st) + 1 - k]
    OBVIOUS
  <2>2. Above(h, pg, np, e, p, k, d)
    BY <2>1 DEF Upwards
  <2>3. PICK q \in 0 .. np - 1 : q = e.pageNumber /\ h[q] = h[p] + k
    BY <2>2 DEF Above
  <2>4. q # p
    BY <1>5, <2>3
  <2>5. pg2[q] = pg[q] /\ h2[q] = h2[np] + k /\ q \in 0 .. (np + 1) - 1
    <3>1. pg2[q] = pg[q]
      BY <1>4, <2>3, <2>4
    <3>2. h2[q] = h[q] /\ h2[np] = h[p]
      BY <1>2, <2>3
    <3>3. q \in 0 .. (np + 1) - 1
      BY <1>3
    <3> QED  BY <2>3, <3>1, <3>2, <3>3
  <2>6. Above(h2, pg2, np + 1, e, np, k, d)
    BY <2>2, <2>3, <2>5 DEF Above
  <2> QED  BY <2>1, <2>6
<1>7. Upwards(h2, pg2, np + 1, st, np, d)
  BY <1>6 DEF Upwards
<1>8. np \in 1 .. (np + 1) - 1 /\ cl \in [pageNum : PageNum, key : Value] /\ cl.pageNum = np
  BY <1>3
<1>9. Pending(h2, pg2, np + 1, st, cl)
  BY <1>7, <1>8 DEF Pending
<1> QED  BY <1>1, <1>9 DEF Tree

(* The stack behind a search leads upwards from its leaf. *)
LEMMA PathUpwards ==
  ASSUME AMInv, NEW v \in Value, NEW h, Arrives(h, v), NEW s, s = PathTo(v), Got(s) = Len(s),
         NEW st, st = Pushed(s, v), NEW p, p = Last(s), p # 0
  PROVE  /\ st \in Seq(StackEntry) /\ h[0] \in 1 .. Len(st)
         /\ Upwards(h, page, numpages, st, p, h[0])
<1>1. PICK H \in Nat : H = h[0]
  BY DEF Arrives
<1>2. /\ st \in Seq(StackEntry) /\ st = stack \o [k \in 1 .. H |-> Pushing(s[k], v)]
      /\ OnPath(h, v, s, H)
  BY <1>1, PushedIs
<1>3. h[p] = 0 /\ h[p] \in Nat
  BY DEF Arrives
<1>4. H # 0
  <2>1. ASSUME H = 0 PROVE FALSE
    <3>1. Walk(h, s, v, h[0]) /\ p = s[Len(s)] /\ Len(s) = h[0] + 1
      BY DEF Arrives, PathIs
    <3>2. s[1] = 0
      BY <3>1 DEF Walk
    <3>3. Len(s) = 1
      <4>1. Len(s) = H + 1
        BY <1>1, <3>1
      <4> QED  BY <2>1, <4>1
    <3>4. p = 0
      BY <3>1, <3>2, <3>3
    <3> QED  BY <3>4
  <2> QED  BY <2>1
<1>5. PICK e : e = [k \in 1 .. H |-> Pushing(s[k], v)]
  OBVIOUS
<1>6. e \in Seq(StackEntry) /\ Len(e) = H /\ \A k \in 1 .. H : e[k] = Pushing(s[k], v)
  <2>1. e \in [1 .. H -> StackEntry]
    BY <1>2, <1>5 DEF OnPath
  <2> QED  BY <1>5, <2>1
<1>7. PICK n \in Nat : n = Len(stack) /\ stack \in Seq(StackEntry)
  BY DEF AMInv
<1>8. Len(st) = n + H /\ \A k \in 1 .. H : st[n + k] = e[k]
  BY <1>2, <1>5, <1>6, <1>7
<1>9. H \in 1 .. Len(st)
  BY <1>4, <1>7, <1>8
<1>10. ASSUME NEW k \in 1 .. H PROVE Above(h, page, numpages, st[Len(st) + 1 - k], p, k, H)
  <2>1. PICK j \in 1 .. H : j = H + 1 - k
    OBVIOUS
  <2>2. Len(st) + 1 - k = n + j
    BY <1>7, <1>8, <2>1
  <2>3. st[Len(st) + 1 - k] = Pushing(s[j], v)
    BY <1>6, <1>8, <2>2
  <2>4. PICK g : g = Pushing(s[j], v)
    OBVIOUS
  <2>5. g.pageNumber = s[j]
    BY <2>4 DEF Pushing
  <2>6. h[s[j]] = h[p] + k
    BY <1>2, <1>3, <2>1 DEF OnPath
  <2>7. s[j] = 0 <=> k = H
    BY <1>2, <2>1, SMTT(40) DEF OnPath
  <2>8. Above(h, page, numpages, g, p, k, H)
    BY <1>2, <2>4, <2>5, <2>6, <2>7 DEF Above, AM_RootPageNum, OnPath
  <2> QED  BY <2>3, <2>4, <2>8
<1>11. Upwards(h, page, numpages, st, p, H)
  BY <1>10 DEF Upwards
<1> QED  BY <1>1, <1>2, <1>9, <1>11

LEMMA InsertFitsEnds ==
  ASSUME AMInv, Idle, status = "open", NEW v \in Value, NEW r \in RecId, NEW h, Arrives(h, v),
         InsertFits(v, r)
  PROVE  CallEnds
<1>1. PICK p : p = Last(PathTo(v))
  OBVIOUS
<1>2. PICK i, found : i = AM_SearchLeaf(Values(page[p]), v) /\ found = Found(Values(page[p]), v)
  OBVIOUS
<1>3. PICK x : x = AM_InsertintoLeaf(page[p], v, r, i, found)
  OBVIOUS
<1>4. GoodLeaf(page[p])
  BY <1>1 DEF Arrives
<1>5. GoodLeaf(x)
  <2>1. FoundAt(page[p], v, i, found)
    BY <1>2, <1>4, FoundIs
  <2> QED  BY <1>3, <1>4, <2>1, InsertintoLeafGood
<1>6. /\ page' = [page EXCEPT ![p] = x] /\ UNCHANGED <<status, numpages, pinned, others>>
      /\ stack' = << >> /\ call' = NoCall /\ ret' = AME_OK
  BY <1>1, <1>2, <1>3 DEF InsertFits, Return
<1> QED  BY <1>1, <1>5, <1>6, LeafWritten

(* A leaf is split, and what follows. *)
LEMMA InsertSplitsInv ==
  ASSUME AMInv, Idle, status = "open", NEW v \in Value, NEW r \in RecId, NEW h, Arrives(h, v),
         numpages + Len(PathTo(v)) + 1 <= MaxPages, InsertSplits(v, r)
  PROVE  AMInv'
<1>1. PICK s : s = PathTo(v)
  OBVIOUS
<1>2. PICK p : p = Last(s)
  OBVIOUS
<1>3. PICK y : y = Halves(page[p], v, r, numpages)
  OBVIOUS
<1>4. PICK key : key = y.second.keys[1].value
  OBVIOUS
<1>5. /\ Level(h, page, numpages) /\ numpages \in 1 .. MaxPages /\ p \in 0 .. numpages - 1
      /\ Nodes(page)
  BY <1>1, <1>2 DEF Arrives, AMInv, Tree
<1>6. PICK H \in Nat : H = h[0] /\ numpages + H + 2 <= MaxPages
  <2>1. PICK H \in Nat : H = h[0]
    BY DEF Arrives
  <2>2. Len(PathTo(v)) = H + 1
    BY <2>1 DEF Arrives
  <2>3. numpages + (H + 1) + 1 <= MaxPages
    BY <2>2
  <2>4. numpages + H + 2 <= MaxPages
    BY <1>5, <2>3, Constants
  <2> QED  BY <2>1, <2>4
<1>7. numpages < MaxPages /\ numpages + 1 <= MaxPages /\ numpages + 2 <= MaxPages
  BY <1>5, <1>6, Constants
<1>8. /\ FitsAt(h, numpages, y.first, h[p]) /\ FitsAt(h, numpages, y.second, h[p])
      /\ key \in Value
  BY <1>1, <1>2, <1>3, <1>4, <1>7, HalvesFit
<1>9. Got(s) = Len(s) /\ status' = status /\ others' = others
  BY <1>1 DEF InsertSplits
<1>10. \/ SplitBelow(p, y, key) /\ stack' = Pushed(s, v)
       \/ SplitRoot(p, y, key) /\ stack' = << >>
       \/ NoNewLeaf(p) /\ stack' = << >>
       \/ NoNewRoot(p, y) /\ stack' = << >>
  BY <1>1, <1>2, <1>3, <1>4 DEF InsertSplits
<1>11. pinned \subseteq 0 .. numpages - 1
  BY DEF AMInv, Pages
<1>12. << >> \in Seq(StackEntry)
  OBVIOUS
<1>13. CASE SplitBelow(p, y, key) /\ stack' = Pushed(s, v)
  <2>1. /\ p # 0 /\ page' = [page EXCEPT ![p] = y.first, ![numpages] = y.second]
        /\ numpages' = numpages + 1 /\ call' = [pageNum |-> numpages, key |-> key]
        /\ pinned' = pinned /\ ret' = ret
    BY <1>13 DEF SplitBelow, AM_RootPageNum
  <2>2. /\ stack' \in Seq(StackEntry) /\ H \in 1 .. Len(stack')
        /\ Upwards(h, page, numpages, stack', p, H)
    BY <1>1, <1>2, <1>6, <1>9, <1>13, <2>1, PathUpwards
  <2>3. (numpages + 1) + H + 1 <= MaxPages
    BY <1>5, <1>6, SMTT(40)
  <2>4. Tree(page', numpages + 1, stack', call')
    BY <1>5, <1>7, <1>8, <2>1, <2>2, <2>3, SplitPending
  <2>5. numpages + 1 \in 0 .. MaxPages /\ numpages + 1 > 0 /\ pinned \subseteq 0 .. (numpages + 1) - 1
    BY <1>5, <1>7, <1>11, Constants
  <2> QED  BY <1>9, <2>1, <2>2, <2>4, <2>5 DEF AMInv, Pages
<1>14. CASE SplitRoot(p, y, key) /\ stack' = << >>
  <2>1. /\ p = 0
        /\ page' = [page EXCEPT ![numpages + 1] = y.first, ![numpages] = y.second,
                                ![0] = AM_FillRootPage(numpages + 1, numpages, key)]
        /\ numpages' = numpages + 2 /\ call' = NoCall /\ ret' = AME_OK /\ pinned' = pinned
    BY <1>14 DEF SplitRoot, AM_RootPageNum, Return
  <2>2. Tree(page', numpages + 2, stack', NoCall)
    BY <1>5, <1>7, <1>8, <2>1, RootSplitTree
  <2>3. numpages + 2 \in 1 .. MaxPages /\ pinned \subseteq 0 .. (numpages + 2) - 1
    BY <1>5, <1>7, <1>11, Constants
  <2>4. CallEnds
    BY <1>9, <1>12, <1>14, <2>1, <2>2, <2>3 DEF CallEnds
  <2> QED  BY <2>4, EndedInv
<1>15. CASE NoNewLeaf(p) /\ stack' = << >>
  <2>1. /\ pinned' = pinned \cup {p} /\ call' = NoCall /\ ret' = AME_PF
        /\ UNCHANGED <<file, others>>
    BY <1>9, <1>15 DEF NoNewLeaf, Return, file
  <2>2. CallEnds
    BY <1>5, <1>12, <1>15, <2>1, EndedUnchanged
  <2> QED  BY <2>2, EndedInv
<1>16. CASE NoNewRoot(p, y) /\ stack' = << >>
  <2>1. /\ page' = [page EXCEPT ![p] = y.first, ![numpages] = y.second]
        /\ numpages' = numpages + 1 /\ call' = NoCall /\ ret' = AME_PF
        /\ pinned' = pinned \cup {p, numpages}
    BY <1>16 DEF NoNewRoot, Return
  <2>2. Tree(page', numpages + 1, stack', NoCall)
    BY <1>5, <1>7, <1>8, <2>1, SplitAlone
  <2>3. numpages + 1 \in 1 .. MaxPages /\ pinned' \subseteq 0 .. (numpages + 1) - 1
    <3>1. numpages + 1 \in 1 .. MaxPages
      BY <1>5, <1>7, Constants
    <3>2. \A q \in 0 .. numpages - 1 : q \in 0 .. (numpages + 1) - 1
      BY <1>5
    <3>3. p \in 0 .. (numpages + 1) - 1 /\ numpages \in 0 .. (numpages + 1) - 1
      BY <1>5
    <3> QED  BY <1>11, <2>1, <3>1, <3>2, <3>3
  <2>4. CallEnds
    BY <1>9, <1>12, <1>16, <2>1, <2>2, <2>3 DEF CallEnds
  <2> QED  BY <2>4, EndedInv
<1> QED  BY <1>10, <1>13, <1>14, <1>15, <1>16

LEMMA InsertInv ==
  ASSUME AMInv, NEW v \in Value, NEW r \in RecId, NEW known \in BOOLEAN,
         AM_InsertEntry(v, r, known)
  PROVE  AMInv'
<1>1. Idle /\ status = "open" /\ numpages + Len(PathTo(v)) + 1 <= MaxPages
  BY DEF AM_InsertEntry, MaySearch
<1>2. PICK h : Arrives(h, v)
  BY <1>1, SearchReaches
<1>3. CASE InsertFails(v, known)
  <2>1. /\ pinned' \in {pinned, pinned \cup {0}}
        /\ call' = NoCall /\ ret' \in {AME_OK, AME_INVALIDATTRLENGTH, AME_NOTFOUND, AME_PF}
    BY <1>3, SearchFailsIs DEF InsertFails
  <2>2. stack' \in Seq(StackEntry) /\ UNCHANGED <<file, others>>
    BY <1>3 DEF InsertFails
  <2>3. 0 \in 0 .. numpages - 1
    BY <1>2, Constants DEF Arrives
  <2>4. CallEnds
    BY <1>1, <2>1, <2>2, <2>3, EndedUnchanged
  <2> QED  BY <1>1, <2>4, EndedInv
<1>4. CASE InsertFits(v, r)
  BY <1>1, <1>2, <1>4, InsertFitsEnds, EndedInv
<1>5. CASE InsertSplits(v, r)
  BY <1>1, <1>2, <1>5, InsertSplitsInv
<1> QED  BY <1>3, <1>4, <1>5 DEF AM_InsertEntry

-----------------------------------------------------------------------------
(* AM_AddtoParent *)

(* The parent that is on the stack: it is above the page, and may take it. *)
ParentIs(h, p, x, c, off, d) ==
    /\ Level(h, page, numpages) /\ numpages \in 1 .. MaxPages /\ Nodes(page)
    /\ p = Parent.pageNumber /\ p \in 0 .. numpages - 1
    /\ x = page[p] /\ GoodNode(x)
    /\ c = call.pageNum /\ c \in 1 .. numpages - 1 /\ c \in PageNum /\ h[p] = h[c] + 1
    /\ off = Parent.offset /\ off \in 0 .. Len(x.keys)
    /\ call.key \in Value
    /\ d \in 1 .. Len(stack) /\ numpages + d + 1 <= MaxPages
    /\ p = 0 <=> d = 1
    /\ Upwards(h, page, numpages, stack, c, d)

LEMMA ParentOnStack ==
  ASSUME AMInv, ~Idle
  PROVE  \E h, p, x, c, off, d : ParentIs(h, p, x, c, off, d)
<1>1. PICK h : Level(h, page, numpages) /\ Pending(h, page, numpages, stack, call)
  BY DEF AMInv, Tree, Idle
<1>2. PICK c : c = call.pageNum /\ c \in 1 .. numpages - 1 /\ c \in PageNum /\ call.key \in Value
  BY <1>1 DEF Pending
<1>3. PICK d \in 1 .. Len(stack) :
        numpages + d + 1 <= MaxPages /\ Upwards(h, page, numpages, stack, c, d)
  BY <1>1, <1>2 DEF Pending
<1>4. numpages \in 1 .. MaxPages /\ Nodes(page)
  BY Constants DEF AMInv, Tree
<1>5. PICK n \in Nat : n = Len(stack) /\ n > 0
  BY <1>3 DEF AMInv
<1>6. PICK e : e = stack[n]
  OBVIOUS
<1>7. Parent = e
  BY <1>5, <1>6 DEF Parent, Last
<1>8. Above(h, page, numpages, e, c, 1, d)
  <2>1. 1 \in 1 .. d /\ n + 1 - 1 = n
    BY <1>3, <1>5
  <2>2. Above(h, page, numpages, stack[Len(stack) + 1 - 1], c, 1, d)
    BY <1>3, <2>1 DEF Upwards
  <2> QED  BY <1>5, <1>6, <2>1, <2>2
<1>9. PICK p \in 0 .. numpages - 1 : p = e.pageNumber
  BY <1>8 DEF Above
<1>10. page[p].pageType = "i" /\ e.offset \in 0 .. Len(page[p].keys) /\ h[p] = h[c] + 1 /\ (p = 0 <=> d = 1)
  BY <1>8, <1>9 DEF Above, AM_RootPageNum
<1>11. p \in PageNum
  BY <1>4, Constants DEF PageNum
<1>12. GoodNode(page[p])
  BY <1>4, <1>10, <1>11, NodeKinds
<1>13. ParentIs(h, p, page[p], c, e.offset, d)
  BY <1>1, <1>2, <1>3, <1>4, <1>7, <1>9, <1>10, <1>12 DEF ParentIs
<1> QED  BY <1>13

(* A node with the children of the parent, and the new one, fits there. *)
LEMMA ParentFits ==
  ASSUME NEW h, NEW p, NEW x, NEW c, NEW off, NEW d, ParentIs(h, p, x, c, off, d),
         NEW y, GoodNode(y), Children(y, x, c)
  PROVE  FitsAt(h, numpages, y, h[p])
<1>1. /\ Level(h, page, numpages) /\ numpages \in Nat /\ p \in 0 .. numpages - 1 /\ x = page[p]
      /\ c \in 1 .. numpages - 1 /\ h[p] = h[c] + 1 /\ GoodNode(x)
  BY DEF ParentIs
<1>2. page[p].pageType = "i"
  BY <1>1, NodeParts
<1> QED  BY <1>1, <1>2, ChildrenFit

(* Above the parent the stack leads on. *)
LEMMA FrontUpwards ==
  ASSUME AMInv, NEW h, NEW p, NEW x, NEW c, NEW off, NEW d, ParentIs(h, p, x, c, off, d), p # 0
  PROVE  /\ Front(stack) \in Seq(StackEntry) /\ d - 1 \in 1 .. Len(Front(stack))
         /\ (numpages + 1) + (d - 1) + 1 <= MaxPages
         /\ Upwards(h, page, numpages, Front(stack), p, d - 1)
<1>1. /\ d \in 1 .. Len(stack) /\ d # 1 /\ numpages + d + 1 <= MaxPages /\ h[p] = h[c] + 1
      /\ Upwards(h, page, numpages, stack, c, d) /\ numpages \in 1 .. MaxPages
      /\ Level(h, page, numpages) /\ c \in PageNum
  BY DEF ParentIs
<1>2. PICK n \in Nat : n = Len(stack) /\ stack \in Seq(StackEntry)
  BY DEF AMInv
<1>3. n > 1 /\ d \in 2 .. n
  BY <1>1, <1>2
<1>4. PICK st : st = Front(stack)
  OBVIOUS
<1>5. st \in Seq(StackEntry) /\ Len(st) = n - 1 /\ \A k \in 1 .. n - 1 : st[k] = stack[k]
  BY <1>2, <1>3, <1>4 DEF Front
<1>6. PICK b \in 1 .. n - 1 : b = d - 1 /\ d = b + 1
  BY <1>3
<1>7. h[c] \in Nat
  BY <1>1 DEF Level
<1>8. ASSUME NEW k \in 1 .. b PROVE Above(h, page, numpages, st[Len(st) + 1 - k], p, k, b)
  <2>1. PICK j \in 1 .. d : j = k + 1
    BY <1>6
  <2>2. PICK i \in 1 .. n - 1 : i = n - k
    <3>1. k \in Nat /\ k > 0 /\ k <= n - 1
      OBVIOUS
    <3>2. n - k \in 1 .. n - 1
      BY <3>1
    <3> QED  BY <3>2
  <2>3. Len(st) + 1 - k = i /\ n + 1 - j = i
    BY <1>2, <1>5, <2>1, <2>2
  <2>4. PICK e : e = stack[i]
    OBVIOUS
  <2>5. Above(h, page, numpages, e, c, j, d)
    <3>1. Above(h, page, numpages, stack[Len(stack) + 1 - j], c, j, d)
      BY <1>1 DEF Upwards
    <3> QED  BY <1>2, <2>3, <2>4, <3>1
  <2>6. h[c] + j = h[p] + k
    BY <1>1, <1>7, <2>1
  <2>7. j = d <=> k = b
    BY <1>6, <2>1
  <2>8. Above(h, page, numpages, e, p, k, b)
    BY <2>5, <2>6, <2>7 DEF Above
  <2> QED  BY <1>5, <2>2, <2>3, <2>4, <2>8
<1>9. Upwards(h, page, numpages, st, p, b)
  BY <1>8 DEF Upwards
<1>10. b \in 1 .. Len(st)
  BY <1>5, <1>6
<1>11. (numpages + 1) + b + 1 <= MaxPages
  BY <1>1, <1>6, Constants
<1> QED  BY <1>4, <1>5, <1>6, <1>9, <1>10, <1>11

LEMMA AddtoParentInv ==
  ASSUME AMInv, AM_AddtoParent
  PROVE  AMInv'
<1>1. PICK h, p, x, c, off, d : ParentIs(h, p, x, c, off, d)
  BY ParentOnStack DEF AM_AddtoParent
<1>2. PICK y : y = AM_SplitIntNode(x, call.key, c, off)
  OBVIOUS
<1>3. /\ Level(h, page, numpages) /\ numpages \in 1 .. MaxPages /\ Nodes(page)
      /\ p \in 0 .. numpages - 1 /\ x = page[p] /\ GoodNode(x) /\ c \in PageNum
      /\ off \in 0 .. Len(x.keys) /\ call.key \in Value
      /\ p = Parent.pageNumber /\ c = call.pageNum /\ off = Parent.offset
  BY <1>1 DEF ParentIs
<1>4. numpages < MaxPages /\ numpages + 2 <= MaxPages
  <2>1. d \in 1 .. Len(stack) /\ numpages + d + 1 <= MaxPages
    BY <1>1 DEF ParentIs
  <2>2. d \in Nat /\ d > 0
    BY <2>1 DEF AMInv
  <2> QED  BY <1>3, <2>1, <2>2, Constants
<1>5. status = "open" /\ status' = status /\ others' = others
  BY DEF AMInv, AM_AddtoParent
<1>6. /\ pinned \subseteq 0 .. numpages - 1
      /\ \A q \in 0 .. numpages - 1 : q \in 0 .. (numpages + 1) - 1 /\ q \in 0 .. (numpages + 2) - 1
  BY <1>3 DEF AMInv, Pages
<1>7. /\ numpages + 1 \in 1 .. MaxPages /\ numpages + 2 \in 1 .. MaxPages
      /\ numpages \in 0 .. (numpages + 1) - 1 /\ p \in 0 .. (numpages + 1) - 1
  BY <1>3, <1>4, Constants
<1>8. << >> \in Seq(StackEntry)
  OBVIOUS
<1>9. CASE AddFits
  <2>1. PICK z : z = AM_AddtoIntPage(x, call.key, c, off)
    OBVIOUS
  <2>2. /\ Len(x.keys) < MaxKeys /\ page' = [page EXCEPT ![p] = z] /\ stack' = << >>
        /\ call' = NoCall /\ ret' = AME_OK /\ numpages' = numpages /\ pinned' = pinned
    BY <1>3, <1>9, <2>1 DEF AddFits, Return
  <2>3. GoodNode(z) /\ Children(z, x, c)
    BY <1>3, <2>1, <2>2, AddFitsGood
  <2>4. FitsAt(h, numpages, z, h[p])
    BY <1>1, <2>3, ParentFits
  <2>5. Nodes(page') /\ Level(h, page', numpages)
    BY <1>3, <2>2, <2>4, NodeWritten
  <2>6. Tree(page', numpages', stack', NoCall)
    BY <2>2, <2>5 DEF Tree
  <2>7. CallEnds
    BY <1>3, <1>5, <1>6, <1>8, <2>2, <2>6 DEF CallEnds
  <2> QED  BY <1>5, <2>7, EndedInv
<1>10. ASSUME Len(x.keys) = MaxKeys
       PROVE  /\ FitsAt(h, numpages, y.first, h[p]) /\ FitsAt(h, numpages, y.second, h[p])
              /\ y.middle \in Value
  <2>1. NodeSplit(y, x, c)
    BY <1>2, <1>3, <1>10, SplitIntNodeGood
  <2>2. GoodNode(y.first) /\ Children(y.first, x, c)
    BY <2>1 DEF NodeSplit
  <2>3. GoodNode(y.second) /\ Children(y.second, x, c)
    BY <2>1 DEF NodeSplit
  <2>4. FitsAt(h, numpages, y.first, h[p])
    BY <1>1, <2>2, ParentFits
  <2>5. FitsAt(h, numpages, y.second, h[p])
    BY <1>1, <2>3, ParentFits
  <2> QED  BY <2>1, <2>4, <2>5 DEF NodeSplit
<1>11. CASE Len(x.keys) = MaxKeys /\ AddBelow(p, y)
  <2>1. /\ p # 0 /\ page' = [page EXCEPT ![p] = y.first, ![numpages] = y.second]
        /\ numpages' = numpages + 1 /\ call' = [pageNum |-> numpages, key |-> y.middle]
        /\ stack' = Front(stack) /\ pinned' = pinned /\ ret' = ret
    BY <1>11 DEF AddBelow, AM_RootPageNum
  <2>2. PICK b : b = d - 1
    OBVIOUS
  <2>3. /\ stack' \in Seq(StackEntry) /\ b \in 1 .. Len(stack')
        /\ (numpages + 1) + b + 1 <= MaxPages
        /\ Upwards(h, page, numpages, stack', p, b)
    BY <1>1, <2>1, <2>2, FrontUpwards
  <2>4. Tree(page', numpages + 1, stack', call')
    BY <1>3, <1>4, <1>10, <1>11, <2>1, <2>3, SplitPending
  <2>5. numpages + 1 \in 0 .. MaxPages /\ numpages + 1 > 0 /\ pinned \subseteq 0 .. (numpages + 1) - 1
    BY <1>3, <1>6, <1>7, Constants
  <2> QED  BY <1>5, <2>1, <2>3, <2>4, <2>5 DEF AMInv, Pages
<1>12. CASE Len(x.keys) = MaxKeys /\ AddAtRoot(p, y)
  <2>1. /\ p = 0
        /\ page' = [page EXCEPT ![numpages + 1] = y.first, ![numpages] = y.second,
                                ![0] = AM_FillRootPage(numpages + 1, numpages, y.middle)]
        /\ numpages' = numpages + 2 /\ call' = NoCall /\ ret' = AME_OK /\ pinned' = pinned
        /\ stack' = << >>
    BY <1>12 DEF AddAtRoot, AM_RootPageNum, Return
  <2>2. Tree(page', numpages + 2, stack', NoCall)
    BY <1>3, <1>4, <1>10, <1>12, <2>1, RootSplitTree
  <2>3. CallEnds
    BY <1>5, <1>6, <1>7, <1>8, <2>1, <2>2 DEF CallEnds
  <2> QED  BY <1>5, <2>3, EndedInv
<1>13. CASE Len(x.keys) = MaxKeys /\ AddFails(p, y)
  <2>1. /\ page' = [page EXCEPT ![numpages] = y.second]
        /\ numpages' = numpages + 1 /\ call' = NoCall /\ ret' = AME_PF
        /\ pinned' = pinned \cup {p, numpages} /\ stack' = << >>
    BY <1>13 DEF AddFails, Return
  <2>2. page' = [page EXCEPT ![p] = x, ![numpages] = y.second]
    BY <1>3, <2>1 DEF Nodes
  <2>3. FitsAt(h, numpages, x, h[p])
    <3>1. Children(x, x, c)
      BY DEF Children
    <3> QED  BY <1>1, <1>3, <3>1, ParentFits
  <2>4. Tree(page', numpages + 1, stack', NoCall)
    BY <1>3, <1>4, <1>10, <1>13, <2>2, <2>3, SplitAlone
  <2>5. pinned' \subseteq 0 .. (numpages + 1) - 1
    BY <1>6, <1>7, <2>1
  <2>6. CallEnds
    BY <1>5, <1>7, <1>8, <2>1, <2>4, <2>5 DEF CallEnds
  <2> QED  BY <1>5, <2>6, EndedInv
<1>14. AddFits \/ (Len(x.keys) = MaxKeys /\ (AddBelow(p, y) \/ AddAtRoot(p, y) \/ AddFails(p, y)))
  BY <1>2, <1>3 DEF AM_AddtoParent
<1> QED  BY <1>9, <1>11, <1>12, <1>13, <1>14

-----------------------------------------------------------------------------
(* The theorems. *)

LEMMA AMInvInductive == AMInv /\ [AMNext]_amvars => AMInv'
<1> SUFFICES ASSUME AMInv, [AMNext]_amvars PROVE AMInv'
  OBVIOUS
<1>1. CASE AM_CreateIndex
  BY <1>1, CreateIndexInv
<1>2. CASE AM_DestroyIndex
  BY <1>2, DestroyIndexInv
<1>3. CASE PF_OpenFile \/ PF_CloseFile
  BY <1>3, OpenCloseInv
<1>4. CASE OtherFiles
  BY <1>4, OtherFilesInv
<1>5. CASE \E v \in Value, r \in RecId, known \in BOOLEAN : AM_InsertEntry(v, r, known)
  BY <1>5, InsertInv
<1>6. CASE \E v \in Value, r \in RecId, known \in BOOLEAN : AM_DeleteEntry(v, r, known)
  BY <1>6, DeleteInv
<1>7. CASE AM_AddtoParent
  BY <1>7, AddtoParentInv
<1>8. CASE UNCHANGED amvars
  BY <1>8 DEF amvars, AMInv, Idle, Pages
<1> QED  BY <1>1, <1>2, <1>3, <1>4, <1>5, <1>6, <1>7, <1>8 DEF AMNext

LEMMA CodedKept == Coded /\ [AMNext]_amvars => Coded'
<1> SUFFICES ASSUME Coded, [AMNext]_amvars PROVE Coded'
  OBVIOUS
<1>1. CASE AM_CreateIndex \/ AM_DestroyIndex \/ PF_OpenFile \/ PF_CloseFile \/ OtherFiles
  BY <1>1 DEF Coded, AM_CreateIndex, AM_DestroyIndex, PF_OpenFile, PF_CloseFile, OtherFiles, Return
<1>2. ASSUME NEW v, NEW known, SearchFails(v, known)
      PROVE  ret' \in {AME_PF, AME_INVALIDATTRLENGTH}
  BY <1>2 DEF SearchFails, Return
<1>3. ASSUME NEW v \in Value, NEW r \in RecId, NEW known \in BOOLEAN, AM_InsertEntry(v, r, known)
      PROVE  Coded'
  <2>1. CASE InsertFails(v, known)
    BY <1>2, <2>1 DEF InsertFails, Coded
  <2>2. CASE InsertFits(v, r)
    BY <2>2 DEF InsertFits, Return, Coded
  <2>3. CASE InsertSplits(v, r)
    <3>1. others' = others
      BY <2>3 DEF InsertSplits
    <3>2. PICK p, y, key : \/ SplitBelow(p, y, key) \/ SplitRoot(p, y, key)
                           \/ NoNewLeaf(p) \/ NoNewRoot(p, y)
      BY <2>3 DEF InsertSplits
    <3>3. ret' \in {ret, AME_OK, AME_PF}
      BY <3>2 DEF SplitBelow, SplitRoot, NoNewLeaf, NoNewRoot, Return
    <3> QED  BY <3>1, <3>3 DEF Coded
  <2> QED  BY <1>3, <2>1, <2>2, <2>3 DEF AM_InsertEntry
<1>4. ASSUME NEW v \in Value, NEW r \in RecId, NEW known \in BOOLEAN, AM_DeleteEntry(v, r, known)
      PROVE  Coded'
  <2>1. CASE DeleteFails(v, known)
    BY <1>2, <2>1 DEF DeleteFails, Coded
  <2>2. CASE DeleteNotFound(v, r) \/ DeleteFound(v, r)
    BY <2>2 DEF DeleteNotFound, DeleteFound, Return, Coded
  <2> QED  BY <1>4, <2>1, <2>2 DEF AM_DeleteEntry
<1>5. CASE AM_AddtoParent
  <2>1. PICK p, y : AddFits \/ AddBelow(p, y) \/ AddAtRoot(p, y) \/ AddFails(p, y)
    BY <1>5 DEF AM_AddtoParent
  <2>2. others' = others
    BY <1>5 DEF AM_AddtoParent
  <2>3. ret' \in {ret, AME_OK, AME_PF}
    BY <2>1 DEF AddFits, AddBelow, AddAtRoot, AddFails, Return
  <2> QED  BY <2>2, <2>3 DEF Coded
<1>6. CASE UNCHANGED amvars
  BY <1>6 DEF amvars, Coded
<1> QED  BY <1>1, <1>3, <1>4, <1>5, <1>6 DEF AMNext

LEMMA CodedHolds == AMSpec => []Coded
<1>1. AMInit => Coded
  BY AMAssumption DEF AMInit, Coded
<1> QED  BY <1>1, CodedKept, PTL DEF AMSpec

LEMMA AMInvHolds == AMSpec => []AMInv
<1>1. AMInit => AMInv
  BY InitInv
<1>2. AMInv /\ [AMNext]_amvars => AMInv'
  BY AMInvInductive
<1> QED  BY <1>1, <1>2, PTL DEF AMSpec

(* Every variable of the access method has its type: in particular every   *)
(* node has one child more than keys, as many keys as it takes at most, and *)
(* no call that fails leaves a page fixed that the index does not have.    *)
THEOREM AMTypesHold == AMSpec => []AMTypeOK
<1>1. AMInv /\ Coded => AMTypeOK
  BY AMInvTypeOK
<1> QED  BY <1>1, AMInvHolds, CodedHolds, PTL

(* Whatever is inserted, deleted, compacted or split, and whatever call    *)
(* fails half-way, within every leaf the lists of the keys and the free    *)
(* list share out the cells that were taken, every one once.               *)
THEOREM LeavesStaySound == AMSpec => []LeavesAreSound
<1>1. AMInv => LeavesAreSound
  <2> SUFFICES ASSUME AMInv, NEW p \in LeafPages PROVE LeafSound(page[p])
    BY DEF LeavesAreSound
  <2>1. p \in PageNum /\ page[p].pageType = "l"
    BY Constants DEF LeafPages, Pages, AMInv, PageNum
  <2>2. GoodLeaf(page[p])
    BY <2>1, NodeKinds DEF AMInv, Tree
  <2> QED  BY <2>2, GoodIsSound
<1> QED  BY <1>1, AMInvHolds, PTL

(* All leaves that searches come to are equally deep, while splits go up   *)
(* the tree page by page and when there is no buffer for a new root.       *)
THEOREM TreeStaysBalanced == AMSpec => []TreeIsBalanced
<1>1. AMInv => TreeIsBalanced
  <2> SUFFICES ASSUME AMInv, numpages > 0
               PROVE  Cardinality({Len(PathTo(v)) : v \in Value}) = 1
    BY DEF TreeIsBalanced
  <2>1. numpages \in 1 .. MaxPages /\ Nodes(page)
    BY Constants DEF AMInv, Tree
  <2>2. PICK h : Level(h, page, numpages)
    BY DEF AMInv, Tree
  <2>3. PICK n : n = h[0] + 1
    OBVIOUS
  <2>4. \A v \in Value : Len(PathTo(v)) = n
    <3> SUFFICES ASSUME NEW v \in Value PROVE Len(PathTo(v)) = n
      OBVIOUS
    <3>1. PathIs(h, PathTo(v), v)
      BY <2>1, <2>2, PathToIs
    <3>2. Walk(h, PathTo(v), v, h[0])
      BY <3>1 DEF PathIs
    <3> QED  BY <2>3, <3>2 DEF Walk
  <2>5. {Len(PathTo(v)) : v \in Value} = {n}
    <3>1. PICK v \in Value : TRUE
      BY AMLeafAssumption
    <3> QED  BY <2>4, <3>1
  <2> QED  BY <2>5, FS_Singleton
<1> QED  BY <1>1, AMInvHolds, PTL

-----------------------------------------------------------------------------
(* A call with buffers enough. *)

LEMMA FewAreFixed ==
  ASSUME NEW a, NEW b
  PROVE  /\ Cardinality({}) \in Nat /\ Cardinality({}) <= 2
         /\ Cardinality({a}) \in Nat /\ Cardinality({a}) <= 2
         /\ Cardinality({a, b}) \in Nat /\ Cardinality({a, b}) <= 2
<1>1. Cardinality({}) = 0
  BY FS_EmptySet
<1>2. IsFiniteSet({a}) /\ Cardinality({a}) = 1 /\ Cardinality({b}) = 1
  BY FS_Singleton
<1>3. CASE a = b
  <2>1. {a, b} = {a}
    BY <1>3
  <2> QED  BY <1>1, <1>2, <2>1
<1>4. CASE a # b
  <2>1. {a, b} = {a} \cup {b} /\ b \notin {a}
    BY <1>4
  <2>2. Cardinality({a} \cup {b}) = Cardinality({a}) + 1
    BY <1>2, <2>1, FS_AddElement
  <2> QED  BY <1>1, <1>2, <2>1, <2>2
<1> QED  BY <1>3, <1>4

(* No call holds more than two pages, and the pool takes them. *)
LEMMA PoolNotFull ==
  ASSUME others \in 0 .. MaxOthers, MaxOthers + 3 <= PF_MAX_BUFS, NEW a, NEW b
  PROVE  ~PoolIsFull({}) /\ ~PoolIsFull({a}) /\ ~PoolIsFull({a, b})
<1>1. PICK f \in Nat : f = PF_MAX_BUFS
  BY AMAssumption
<1>2. PICK m \in Nat : m = MaxOthers
  BY AMAssumption
<1>3. PICK o \in Nat : o = others /\ o <= m
  BY <1>2
<1>4. m + 3 <= f
  BY <1>1, <1>2
<1>5. ASSUME NEW n \in Nat, n <= 2 PROVE ~(n + o >= f)
  <2>1. n + o <= m + 2
    BY <1>3, <1>5
  <2>2. m + 2 < f
    BY <1>4
  <2> QED  BY <2>1, <2>2
<1>6. \A n \in Nat : n <= 2 => ~(n + others >= PF_MAX_BUFS)
  BY <1>1, <1>3, <1>5
<1> QED  BY <1>6, FewAreFixed DEF PoolIsFull

(* Nothing is fixed, and nothing on the stack but for a pending call. *)
Unfixed == pinned = {} /\ (Idle => stack = << >>)

LEMMA SearchSucceeds ==
  ASSUME pinned = {}, ~PoolIsFull({}), NEW s \in Seq(PageNum)
  PROVE  Got(s) = Len(s)
<1>1. {k \in DOMAIN s : s[k] \in pinned} \cup {Len(s) + 1} = {Len(s) + 1}
  OBVIOUS
<1>2. PICK n \in Nat : n = Len(s)
  OBVIOUS
<1>3. Min({n + 1}) = n + 1
  BY DEF Min
<1>4. (n + 1) - 1 = n
  OBVIOUS
<1> QED  BY <1>1, <1>2, <1>3, <1>4 DEF Got

LEMMA UnfixedKept ==
  ASSUME AMInv, Coded, Unfixed, Careful, MaxOthers + 3 <= PF_MAX_BUFS, [AMNext]_amvars
  PROVE  Unfixed'
<1>1. \A a, b : ~PoolIsFull({}) /\ ~PoolIsFull({a}) /\ ~PoolIsFull({a, b})
  BY PoolNotFull DEF Coded
<1>2. /\ pinned = {} /\ \A a, b : pinned \cup {a, b} = {a, b} /\ pinned \cup {a} = {a}
      /\ \A a : ~PoolIsFull(pinned \cup {a, numpages})
  <2>1. pinned = {} /\ \A a, b : pinned \cup {a, b} = {a, b} /\ pinned \cup {a} = {a}
    BY DEF Unfixed
  <2>2. ASSUME NEW a PROVE ~PoolIsFull(pinned \cup {a, numpages})
    <3>1. pinned \cup {a, numpages} = {a, numpages}
      BY <2>1
    <3> QED  BY <1>1, <3>1
  <2> QED  BY <2>1, <2>2
<1>3. CASE AM_CreateIndex \/ AM_DestroyIndex \/ PF_OpenFile \/ PF_CloseFile \/ OtherFiles
  BY <1>3 DEF Unfixed, Idle, AM_CreateIndex, AM_DestroyIndex, PF_OpenFile, PF_CloseFile, OtherFiles
<1>4. ASSUME NEW v \in Value, status = "open" PROVE Got(PathTo(v)) = Len(PathTo(v)) /\ Len(PathTo(v)) > 0
  <2>1. PICK h : Arrives(h, v)
    BY <1>4, SearchReaches
  <2>2. PathTo(v) \in Seq(PageNum)
    BY <2>1 DEF Arrives, PathIs, Walk
  <2>3. Len(PathTo(v)) > 0
    BY <2>1 DEF Arrives
  <2> QED  BY <1>1, <1>2, <2>2, <2>3, SearchSucceeds
<1>5. ASSUME NEW v \in Value, status = "open" PROVE ~SearchFails(v, TRUE)
  <2>1. PICK n \in Nat : n = Len(PathTo(v)) /\ n = Got(PathTo(v))
    <3>1. PICK h : Arrives(h, v)
      BY <1>5, SearchReaches
    <3>2. Len(PathTo(v)) \in Nat
      BY <3>1 DEF Arrives
    <3> QED  BY <1>4, <1>5, <3>2
  <2> QED  BY <2>1 DEF SearchFails
<1>6. ASSUME NEW v \in Value, NEW r \in RecId, NEW known \in BOOLEAN, AM_InsertEntry(v, r, known)
      PROVE  Unfixed'
  <2>1. status = "open" /\ known = TRUE
    BY <1>6 DEF AM_InsertEntry, MaySearch
  <2>2. ~InsertFails(v, known)
    BY <1>5, <2>1 DEF InsertFails
  <2>3. CASE InsertFits(v, r)
    BY <1>2, <2>3 DEF InsertFits, Unfixed
  <2>4. CASE InsertSplits(v, r)
    <3>1. PICK p, y, key : \/ SplitBelow(p, y, key)
                           \/ SplitRoot(p, y, key) /\ stack' = << >>
                           \/ NoNewLeaf(p)
                           \/ NoNewRoot(p, y)
      BY <2>4 DEF InsertSplits
    <3>2. ~NoNewLeaf(p)
      <4>1. pinned \cup {p} = {p}
        BY <1>2
      <4> QED  BY <1>1, <4>1 DEF NoNewLeaf
    <3>3. ~NoNewRoot(p, y)
      BY <1>1, <1>2 DEF NoNewRoot
    <3>4. CASE SplitBelow(p, y, key)
      <4>1. pinned' = {} /\ call' = [pageNum |-> numpages, key |-> key]
        BY <1>2, <3>4 DEF SplitBelow
      <4>2. numpages \in 0 .. MaxPages
        BY DEF AMInv
      <4>3. call' # NoCall
        <5>1. numpages # AM_NULL_PAGE
          BY <4>2, Constants DEF AM_NULL_PAGE
        <5>2. call'.pageNum = numpages /\ NoCall.pageNum = AM_NULL_PAGE
          BY <4>1 DEF NoCall
        <5> QED  BY <5>1, <5>2
      <4> QED  BY <4>1, <4>3 DEF Unfixed, Idle
    <3>5. CASE SplitRoot(p, y, key) /\ stack' = << >>
      BY <1>2, <3>5 DEF SplitRoot, Unfixed
    <3> QED  BY <3>1, <3>2, <3>3, <3>4, <3>5
  <2> QED  BY <1>6, <2>2, <2>3, <2>4 DEF AM_InsertEntry
<1>7. ASSUME NEW v \in Value, NEW r \in RecId, NEW known \in BOOLEAN, AM_DeleteEntry(v, r, known)
      PROVE  Unfixed'
  <2>1. status = "open" /\ known = TRUE
    BY <1>7 DEF AM_DeleteEntry, MaySearch
  <2>2. ~DeleteFails(v, known)
    BY <1>5, <2>1 DEF DeleteFails
  <2>3. ~DeleteNotFound(v, r)
    BY DEF DeleteNotFound
  <2>4. CASE DeleteFound(v, r)
    BY <1>2, <2>4 DEF DeleteFound, Unfixed
  <2> QED  BY <1>7, <2>2, <2>3, <2>4 DEF AM_DeleteEntry
<1>8. CASE AM_AddtoParent
  <2>1. PICK p, y : AddFits \/ AddBelow(p, y) \/ AddAtRoot(p, y) \/ AddFails(p, y)
    BY <1>8 DEF AM_AddtoParent
  <2>2. ~AddFails(p, y)
    BY <1>1, <1>2 DEF AddFails
  <2>3. CASE AddFits \/ AddAtRoot(p, y)
    BY <1>2, <2>3 DEF AddFits, AddAtRoot, Unfixed
  <2>4. CASE AddBelow(p, y)
    <3>1. pinned' = {} /\ call' = [pageNum |-> numpages, key |-> y.middle]
      BY <1>2, <2>4 DEF AddBelow
    <3>2. numpages \in 0 .. MaxPages
      BY DEF AMInv
    <3>3. call' # NoCall
      <4>1. numpages # AM_NULL_PAGE
        BY <3>2, Constants DEF AM_NULL_PAGE
      <4>2. call'.pageNum = numpages /\ NoCall.pageNum = AM_NULL_PAGE
        BY <3>1 DEF NoCall
      <4> QED  BY <4>1, <4>2
    <3> QED  BY <3>1, <3>3 DEF Unfixed, Idle
  <2> QED  BY <2>1, <2>2, <2>3, <2>4
<1>9. CASE UNCHANGED amvars
  BY <1>9 DEF amvars, Unfixed, Idle
<1> QED  BY <1>3, <1>6, <1>7, <1>8, <1>9 DEF AMNext

(* When clients are careful and two buffers are always left for the index, *)
(* besides the one that a page is read into, no call can fail, and each    *)
(* returns with its pages unfixed and the stack empty: amfns.c:239.        *)
THEOREM NothingStaysBehind ==
  ASSUME Careful, MaxOthers + 3 <= PF_MAX_BUFS
  PROVE  AMSpec => []NothingLeftBehind
<1>1. AMInit => Unfixed
  BY DEF AMInit, Unfixed
<1>2. AMInv /\ Coded /\ Unfixed /\ [AMNext]_amvars => Unfixed'
  BY UnfixedKept
<1>3. Unfixed => NothingLeftBehind
  BY DEF Unfixed, NothingLeftBehind
<1> QED  BY <1>1, <1>2, <1>3, AMInvHolds, CodedHolds, PTL DEF AMSpec
=============================================================================
