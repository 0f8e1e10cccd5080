---------------------------- MODULE AMLeafProofs ----------------------------
(***************************************************************************)
(* The leaf of the B+ tree: the searches find a value's place, and every   *)
(* operation keeps a sound leaf sound.                                     *)
(***************************************************************************)
EXTENDS AM, SequenceTheorems, FiniteSetTheorems, WellFoundedInduction, TLAPS

-----------------------------------------------------------------------------
(* Numbers. *)

(* A set of numbers that is not empty has a least one. *)
LEMMA LeastNumber ==
  ASSUME NEW S \in SUBSET Nat, S # {}
  PROVE  /\ Min(S) \in S
         /\ \A y \in S : Min(S) <= y
<1> DEFINE R == OpToRel(<, Nat)
<1>1. PICK x \in S : \A y \in S : <<y, x>> \notin R
  <2>1. IsWellFoundedOn(R, Nat)
    BY NatLessThanWellFounded
  <2> HIDE DEF R
  <2> QED  BY <2>1, WFMin
<1>2. \A y \in S : x <= y
  <2> SUFFICES ASSUME NEW y \in S PROVE x <= y
    OBVIOUS
  <2>1. (<<y, x>> \in R) <=> (y < x)
    BY DEF OpToRel
  <2> HIDE DEF R
  <2>2. ~(y < x)
    BY <1>1, <2>1
  <2> QED  BY <2>2
<1> QED  BY <1>2 DEF Min

(* What holds of 0, and of n + 1 if of n, holds of every number: of those  *)
(* for which it does not there would be a least.                           *)
LEMMA Induction ==
  ASSUME NEW S, 0 \in S, \A n \in Nat : n \in S => n + 1 \in S
  PROVE  \A n \in Nat : n \in S
<1> SUFFICES ASSUME NEW m \in Nat, m \notin S PROVE FALSE
  OBVIOUS
<1> DEFINE T == {n \in Nat : n \notin S}
<1>1. PICK x \in T : \A y \in T : x <= y
  <2>1. T \in SUBSET Nat /\ T # {}
    OBVIOUS
  <2> HIDE DEF T
  <2> QED  BY <2>1, LeastNumber
<1>2. x # 0
  BY <1>1
<1>3. x - 1 \in Nat /\ x - 1 \notin T
  BY <1>1, <1>2
<1>4. x - 1 \in S /\ (x - 1) + 1 = x
  BY <1>3
<1> QED  BY <1>4, <1>3

(* f[k] is what G makes of a in k turns. *)
Iterates(f, X, a, G, K) ==
    /\ f \in [0 .. K -> X]
    /\ f[0] = a
    /\ \A k \in 1 .. K : f[k] = G[k][f[k - 1]]

(* A function can be applied again and again: what a loop computes, or a   *)
(* recursive function.                                                     *)
LEMMA Iteration ==
  ASSUME NEW X, NEW a \in X, NEW G, NEW K \in Nat,
         \A k \in 1 .. K : \A x \in X : G[k][x] \in X
  PROVE  \E f : Iterates(f, X, a, G, K)
<1> DEFINE S == {m \in Nat : m <= K => \E f : Iterates(f, X, a, G, m)}
<1>1. 0 \in S
  <2> DEFINE f == [k \in 0 .. 0 |-> a]
  <2>1. Iterates(f, X, a, G, 0)
    BY DEF Iterates
  <2> QED  BY <2>1
<1>2. \A n \in Nat : n \in S => n + 1 \in S
  <2> SUFFICES ASSUME NEW n \in Nat, n \in S, n + 1 <= K
               PROVE  \E f : Iterates(f, X, a, G, n + 1)
    OBVIOUS
  <2>1. PICK f : Iterates(f, X, a, G, n)
    OBVIOUS
  <2> DEFINE g == [k \in 0 .. n + 1 |-> IF k = n + 1 THEN G[n + 1][f[n]] ELSE f[k]]
  <2>2. g \in [0 .. n + 1 -> X]
    BY <2>1 DEF Iterates
  <2>3. g[0] = a
    BY <2>1 DEF Iterates
  <2>4. \A k \in 1 .. n + 1 : g[k] = G[k][g[k - 1]]
    BY <2>1 DEF Iterates
  <2> HIDE DEF g
  <2>5. Iterates(g, X, a, G, n + 1)
    BY <2>2, <2>3, <2>4 DEF Iterates
  <2> QED  BY <2>5
<1> HIDE DEF S
<1>3. K \in S
  BY <1>1, <1>2, Induction
<1> QED  BY <1>3 DEF S

-----------------------------------------------------------------------------
(* The searches. *)

Ascending(ks) == \A i, j \in 1 .. Len(ks) : i < j => ks[i] < ks[j]

(* Where v can be if it is not left of low and not right of high. *)
Between(ks, v, low, high) ==
    /\ \A j \in 1 .. Len(ks) : j < low => ks[j] < v
    /\ \A j \in 1 .. Len(ks) : j > high => v < ks[j]

(* The binary search is the iteration of its turns. *)
LEMMA NarrowTurns ==
  ASSUME NEW ks \in Seq(Int), NEW v \in Int
  PROVE  \E f : /\ Narrow(ks, v) = f[Len(ks)][1] .. f[Len(ks)][2]
                /\ f[0] = <<1, Len(ks)>>
                /\ \A k \in 1 .. Len(ks) : f[k] = Halved(ks, v, f[k - 1])
<1> DEFINE n == Len(ks)
           X == Int \X Int
           start == <<1, n>>
           G == [k \in 1 .. n |-> [b \in X |-> Halved(ks, v, b)]]
           Body(f) == [k \in 0 .. n |-> IF k = 0 THEN <<1, n>> ELSE Halved(ks, v, f[k - 1])]
           g == CHOOSE f : f = Body(f)
<1>1. n \in Nat
  OBVIOUS
<1>2. \A k \in 1 .. n : \A b \in X : G[k][b] \in X
  <2> SUFFICES ASSUME NEW b \in X PROVE Halved(ks, v, b) \in X
    BY <1>1
  <2>1. PICK low \in Int : low = b[1]
    OBVIOUS
  <2>2. PICK high \in Int : high = b[2]
    OBVIOUS
  <2>3. PICK mid \in Int : mid = (low + high) \div 2
    OBVIOUS
  <2>4. <<low, mid - 1>> \in X /\ <<mid + 1, high>> \in X /\ <<mid, mid>> \in X
    <3>1. \A a, c \in Int : <<a, c>> \in X
      OBVIOUS
    <3>2. mid - 1 \in Int /\ mid + 1 \in Int
      OBVIOUS
    <3> HIDE DEF X
    <3> QED  BY <3>1, <3>2
  <2> HIDE DEF X
  <2>5. \/ Halved(ks, v, b) = b \/ Halved(ks, v, b) = <<low, mid - 1>>
        \/ Halved(ks, v, b) = <<mid + 1, high>> \/ Halved(ks, v, b) = <<mid, mid>>
    BY <2>1, <2>2, <2>3 DEF Halved
  <2> QED  BY <2>4, <2>5
<1>3. start \in X
  BY <1>1
<1>4. PICK f \in [0 .. n -> X] : f[0] = start /\ \A k \in 1 .. n : f[k] = G[k][f[k - 1]]
  <2> HIDE DEF G, X, n, start
  <2>1. PICK f : Iterates(f, X, start, G, n)
    BY <1>1, <1>2, <1>3, Iteration
  <2> QED  BY <2>1 DEF Iterates
<1>5. \A k \in 1 .. n : f[k] = Halved(ks, v, f[k - 1])
  <2> SUFFICES ASSUME NEW k \in 1 .. n PROVE f[k] = Halved(ks, v, f[k - 1])
    OBVIOUS
  <2>1. f[k - 1] \in X
    <3>1. k - 1 \in 0 .. n
      BY <1>1
    <3> HIDE DEF X, n, G, start
    <3> QED  BY <3>1
  <2>2. k \in Nat /\ f[k] = G[k][f[k - 1]]
    BY <1>1, <1>4
  <2> QED  BY <2>1, <2>2
<1>6. f = Body(f)
  <2>1. f[0] = <<1, n>> /\ DOMAIN f = 0 .. n
    BY <1>4
  <2> HIDE DEF n, G, X, start
  <2> QED  BY <1>1, <2>1, <1>5, SMTT(40)
<1>7. g = Body(g)
  <2> HIDE DEF Body
  <2> QED  BY <1>6
<1>8. Narrow(ks, v) = g[n][1] .. g[n][2]
  BY DEF Narrow
<1>9. g[0] = <<1, n>> /\ \A k \in 1 .. n : g[k] = Halved(ks, v, g[k - 1])
  <2>1. g[0] = <<1, n>>
    BY <1>1, <1>7, SMTT(40)
  <2>2. ASSUME NEW k \in 1 .. n PROVE g[k] = Halved(ks, v, g[k - 1])
    <3>1. k \in 0 .. n /\ k # 0
      BY <1>1
    <3>2. Body(g)[k] = Halved(ks, v, g[k - 1])
      <4> HIDE DEF g, n
      <4> QED  BY <3>1
    <3> HIDE DEF Body
    <3> QED  BY <3>2, <1>7
  <2> HIDE DEF g
  <2> QED  BY <2>1, <2>2
<1> HIDE DEF g
<1> QED  BY <1>8, <1>9

(* What the turns keep, and how near to the end they are.                  *)
LEMMA HalvedNarrows ==
  ASSUME NEW ks \in Seq(Int), NEW v \in Int,
         NEW low \in Int, NEW high \in Int, 1 <= low, low <= high, high <= Len(ks),
         NEW b, b = Halved(ks, v, <<low, high>>)
  PROVE  /\ b[1] \in Int /\ b[2] \in Int /\ 1 <= b[1] /\ b[1] <= b[2] /\ b[2] <= Len(ks)
         /\ b[2] - b[1] <= 1 \/ b[2] - b[1] < high - low
         /\ Ascending(ks) /\ Between(ks, v, low, high) => Between(ks, v, b[1], b[2])
<1> DEFINE mid == (low + high) \div 2
<1>1. low \in Int /\ high \in Int /\ Len(ks) \in Nat
  OBVIOUS
<1>2. CASE high - low <= 1
  BY <1>1, <1>2 DEF Halved
<1>3. CASE ~(high - low <= 1)
  <2>1. mid \in Int /\ low < mid /\ mid < high
    BY <1>1, <1>3
  <2> HIDE DEF mid
  <2>2. mid \in 1 .. Len(ks) /\ ks[mid] \in Int
    BY <1>1, <2>1, SMTT(40)
  <2>3. b = IF v < ks[mid] THEN <<low, mid - 1>>
            ELSE IF v > ks[mid] THEN <<mid + 1, high>> ELSE <<mid, mid>>
    BY <1>3 DEF Halved, mid
  <2>4. CASE v < ks[mid]
    <3>1. b[1] = low /\ b[2] = mid - 1
      BY <2>3, <2>4
    <3>2. Ascending(ks) => \A j \in 1 .. Len(ks) : j > mid - 1 => v < ks[j]
      BY <2>1, <2>2, <2>4, SMTT(40) DEF Ascending
    <3>3. Ascending(ks) /\ Between(ks, v, low, high) => Between(ks, v, b[1], b[2])
      BY <3>1, <3>2 DEF Between
    <3>4. /\ b[1] \in Int /\ b[2] \in Int /\ 1 <= b[1] /\ b[1] <= b[2] /\ b[2] <= Len(ks)
          /\ b[2] - b[1] < high - low
      BY <1>1, <2>1, <3>1, SMTT(40)
    <3> QED  BY <3>3, <3>4
  <2>5. CASE v > ks[mid]
    <3>1. b[1] = mid + 1 /\ b[2] = high
      BY <2>2, <2>3, <2>5
    <3>2. Ascending(ks) => \A j \in 1 .. Len(ks) : j < mid + 1 => ks[j] < v
      BY <2>1, <2>2, <2>5, SMTT(40) DEF Ascending
    <3>3. Ascending(ks) /\ Between(ks, v, low, high) => Between(ks, v, b[1], b[2])
      BY <3>1, <3>2 DEF Between
    <3>4. /\ b[1] \in Int /\ b[2] \in Int /\ 1 <= b[1] /\ b[1] <= b[2] /\ b[2] <= Len(ks)
          /\ b[2] - b[1] < high - low
      BY <1>1, <2>1, <3>1, SMTT(40)
    <3> QED  BY <3>3, <3>4
  <2>6. CASE ~(v < ks[mid]) /\ ~(v > ks[mid])
    <3>1. b[1] = mid /\ b[2] = mid /\ v = ks[mid]
      BY <2>2, <2>3, <2>6
    <3>3. Ascending(ks) => Between(ks, v, b[1], b[2])
      BY <2>2, <3>1 DEF Between, Ascending
    <3>4. /\ b[1] \in Int /\ b[2] \in Int /\ 1 <= b[1] /\ b[1] <= b[2] /\ b[2] <= Len(ks)
          /\ b[2] - b[1] <= 1
      BY <1>1, <2>1, <3>1, SMTT(40)
    <3> QED  BY <3>3, <3>4
  <2> QED  BY <2>4, <2>5, <2>6
<1> QED  BY <1>2, <1>3

(* The search leaves one or two positions; in a node whose keys ascend, v  *)
(* is right of all keys to the left of them and left of all to the right.  *)
LEMMA NarrowIs ==
  ASSUME NEW ks \in Seq(Int), NEW v \in Int, ks # << >>
  PROVE  \E low \in 1 .. Len(ks), high \in 1 .. Len(ks) :
           /\ Narrow(ks, v) = low .. high
           /\ low <= high /\ high <= low + 1
           /\ Ascending(ks) => Between(ks, v, low, high)
<1> DEFINE n == Len(ks)
           Good(b, k) == /\ b[1] \in Int /\ b[2] \in Int
                         /\ 1 <= b[1] /\ b[1] <= b[2] /\ b[2] <= n
                         /\ b = <<b[1], b[2]>>
                         /\ b[2] - b[1] <= 1 \/ b[2] - b[1] < n - k
                         /\ Ascending(ks) => Between(ks, v, b[1], b[2])
<1>1. n \in Nat /\ n >= 1
  OBVIOUS
<1>2. PICK f : /\ Narrow(ks, v) = f[n][1] .. f[n][2]
               /\ f[0] = <<1, n>>
               /\ \A k \in 1 .. n : f[k] = Halved(ks, v, f[k - 1])
  BY NarrowTurns
<1> DEFINE S == {k \in Nat : k <= n => Good(f[k], k)}
<1>3. 0 \in S
  <2>1. Good(<<1, n>>, 0)
    BY <1>1 DEF Between
  <2> HIDE DEF Good
  <2> QED  BY <1>2, <2>1
<1>4. \A k \in Nat : k \in S => k + 1 \in S
  <2> SUFFICES ASSUME NEW k \in Nat, Good(f[k], k), k + 1 <= n PROVE Good(f[k + 1], k + 1)
    BY <1>1
  <2> DEFINE low == f[k][1]
             high == f[k][2]
             b == f[k + 1]
  <2>1. /\ low \in Int /\ high \in Int /\ 1 <= low /\ low <= high /\ high <= n
        /\ f[k] = <<low, high>>
    OBVIOUS
  <2>2. b = Halved(ks, v, <<low, high>>)
    <3>1. k + 1 \in 1 .. n /\ (k + 1) - 1 = k
      BY <1>1, SMTT(40)
    <3> QED  BY <1>2, <2>1, <3>1
  <2>3. /\ b[1] \in Int /\ b[2] \in Int /\ 1 <= b[1] /\ b[1] <= b[2] /\ b[2] <= n
        /\ b[2] - b[1] <= 1 \/ b[2] - b[1] < high - low
        /\ Ascending(ks) /\ Between(ks, v, low, high) => Between(ks, v, b[1], b[2])
    <3> HIDE DEF b, low, high, Good
    <3> QED  BY <2>1, <2>2, HalvedNarrows
  <2>4. Ascending(ks) => Between(ks, v, b[1], b[2])
    BY <2>3
  <2>5. b = <<b[1], b[2]>>
    <3> HIDE DEF b, low, high, Good
    <3> QED  BY <2>2 DEF Halved
  <2>6. high - low <= 1 \/ high - low < n - k
    OBVIOUS
  <2>7. high - low <= 1 => b[2] - b[1] <= 1
    <3> HIDE DEF b, low, high, Good
    <3> QED  BY <2>1, <2>2, <2>3, SMTT(40)
  <2>8. b[2] - b[1] <= 1 \/ b[2] - b[1] < n - (k + 1)
    <3> DEFINE x == b[2] - b[1]
               y == high - low
    <3>1. x \in Int /\ y \in Int /\ n \in Int
      <4>1. b[1] \in Int /\ b[2] \in Int /\ low \in Int /\ high \in Int
        BY <2>1, <2>3
      <4> HIDE DEF b, low, high, Good
      <4> QED  BY <4>1, <1>1
    <3>2. (x <= 1 \/ x < y) /\ (y <= 1 \/ y < n - k) /\ (y <= 1 => x <= 1)
      BY <2>3, <2>6, <2>7
    <3>3. x <= 1 \/ x < n - (k + 1)
      <4> HIDE DEF x, y, n
      <4> QED  BY <3>1, <3>2
    <3> QED  BY <3>3
  <2> HIDE DEF b, low, high, n
  <2>9. Good(b, k + 1)
    BY <2>3, <2>4, <2>5, <2>8
  <2> HIDE DEF Good
  <2> QED  BY <2>9 DEF b
<1>5. n \in S
  <2> HIDE DEF S, n
  <2> QED  BY <1>1, <1>3, <1>4, Induction
<1>6. Good(f[n], n)
  BY <1>1, <1>5
<1>7. /\ f[n][1] \in 1 .. n /\ f[n][2] \in 1 .. n
      /\ f[n][1] <= f[n][2] /\ f[n][2] <= f[n][1] + 1
  BY <1>1, <1>6, SMTT(40)
<1> QED  BY <1>1, <1>2, <1>6, <1>7

(* Max of the positions left, and Min of those that qualify and one more.  *)
LEMMA MaxOfInterval ==
  ASSUME NEW low \in Int, NEW high \in Int, low <= high
  PROVE  Max(low .. high) = high
BY DEF Max

LEMMA MinOfInterval ==
  ASSUME NEW low \in Int, NEW high \in Int, low <= high
  PROVE  Min(low .. high) = low
BY DEF Min

(* AM_SearchLeaf finds v's place: what is left of it is smaller, and what  *)
(* is not is v or greater.                                                 *)
LEMMA SearchLeafIs ==
  ASSUME NEW ks \in Seq(Int), NEW v \in Int
  PROVE  /\ AM_SearchLeaf(ks, v) \in 1 .. Len(ks) + 1
         /\ Ascending(ks) => \A j \in 1 .. Len(ks) :
              IF j < AM_SearchLeaf(ks, v) THEN ks[j] < v ELSE v <= ks[j]
<1> DEFINE n == Len(ks)
           i == AM_SearchLeaf(ks, v)
<1>1. CASE ks = << >>
  <2>1. Narrow(ks, v) = {}
    <3>1. PICK f : /\ Narrow(ks, v) = f[n][1] .. f[n][2]
                   /\ f[0] = <<1, n>>
      BY NarrowTurns
    <3> QED  BY <1>1, <3>1
  <2> QED  BY <1>1, <2>1 DEF AM_SearchLeaf
<1>2. CASE ks # << >>
  <2>1. PICK low \in 1 .. n, high \in 1 .. n :
           /\ Narrow(ks, v) = low .. high
           /\ low <= high /\ high <= low + 1
           /\ Ascending(ks) => Between(ks, v, low, high)
    BY <1>2, NarrowIs
  <2> DEFINE S == {j \in low .. high : v <= ks[j]} \cup {high + 1}
  <2>2. i = Min(S)
    <3>1. low .. high # {} /\ Max(low .. high) = high
      <4>1. low \in Int /\ high \in Int /\ low <= high
        BY <2>1
      <4>2. Max(low .. high) = high
        BY <4>1, MaxOfInterval
      <4>3. low \in low .. high
        BY <4>1
      <4> QED  BY <4>2, <4>3
    <3> QED  BY <2>1, <3>1 DEF AM_SearchLeaf
  <2>3. Min(S) \in S /\ \A y \in S : Min(S) <= y
    <3>1. S \in SUBSET Nat /\ S # {}
      BY <2>1
    <3> HIDE DEF S
    <3> QED  BY <3>1, LeastNumber
  <2>4. i \in 1 .. n + 1
    BY <2>1, <2>2, <2>3
  <2> HIDE DEF i
  <2>5. ASSUME Ascending(ks), NEW j \in 1 .. n PROVE IF j < i THEN ks[j] < v ELSE v <= ks[j]
    <3>1. ks[j] \in Int /\ i \in Int
      BY <2>4
    <3>2. j < low => ks[j] < v
      BY <2>1, <2>5 DEF Between
    <3>3. j > high => v < ks[j]
      BY <2>1, <2>5 DEF Between
    <3>4. j \in low .. high /\ v <= ks[j] => i <= j
      BY <2>2, <2>3
    <3>5. low <= i
      BY <2>1, <2>2, <2>3
    <3>6. i <= j /\ j \in low .. high => v <= ks[j]
      <4> SUFFICES ASSUME i <= j, j \in low .. high PROVE v <= ks[j]
        OBVIOUS
      <4>1. i \in low .. high /\ v <= ks[i]
        BY <2>1, <2>2, <2>3
      <4>2. i \in 1 .. n /\ ks[i] \in Int /\ (i < j => ks[i] < ks[j])
        BY <2>1, <2>5, <4>1, SMTT(40) DEF Ascending
      <4> QED  BY <3>1, <4>1, <4>2, SMTT(40)
    <3>7. low \in Int /\ high \in Int /\ j \in Int /\ i <= high + 1
      BY <2>1, <2>2, <2>3
    <3>8. j < low \/ j > high \/ j \in low .. high
      BY <3>7
    <3>9. CASE j < low
      BY <3>1, <3>2, <3>5, <3>7, <3>9
    <3>10. CASE j > high
      BY <3>1, <3>3, <3>7, <3>10
    <3>11. CASE j \in low .. high
      BY <3>1, <3>4, <3>6, <3>7, <3>11
    <3> QED  BY <3>8, <3>9, <3>10, <3>11
  <2> QED  BY <2>4, <2>5 DEF i
<1> QED  BY <1>1, <1>2

(* AM_BinSearch counts the keys that are not greater than v. *)
LEMMA BinSearchIs ==
  ASSUME NEW ks \in Seq(Int), NEW v \in Int, ks # << >>
  PROVE  /\ AM_BinSearch(ks, v) \in 0 .. Len(ks)
         /\ Ascending(ks) => \A j \in 1 .. Len(ks) : j <= AM_BinSearch(ks, v) <=> ks[j] <= v
<1> DEFINE n == Len(ks)
           i == AM_BinSearch(ks, v)
<1>1. PICK low \in 1 .. n, high \in 1 .. n :
           /\ Narrow(ks, v) = low .. high
           /\ low <= high /\ high <= low + 1
           /\ Ascending(ks) => Between(ks, v, low, high)
  BY NarrowIs
<1> DEFINE S == {j \in low .. high : ks[j] <= v} \cup {low - 1}
<1>2. i = Max(S)
  <2>1. Min(low .. high) = low
    BY <1>1, MinOfInterval
  <2> QED  BY <1>1, <2>1 DEF AM_BinSearch
<1>3. Max(S) \in S /\ \A y \in S : Max(S) >= y
  <2>1. CASE high \in S
    <3>1. high \in S /\ \A y \in S : high >= y
      BY <1>1, <2>1
    <3> HIDE DEF S
    <3> QED  BY <3>1 DEF Max
  <2>2. CASE high \notin S /\ low \in S
    <3>1. low \in S /\ \A y \in S : low >= y
      BY <1>1, <2>2
    <3> HIDE DEF S
    <3> QED  BY <3>1 DEF Max
  <2>3. CASE high \notin S /\ low \notin S
    <3>1. low - 1 \in S /\ \A y \in S : low - 1 >= y
      BY <1>1, <2>3, SMTT(40)
    <3> HIDE DEF S
    <3> QED  BY <3>1 DEF Max
  <2> QED  BY <2>1, <2>2, <2>3
<1>4. i \in 0 .. n
  BY <1>1, <1>2, <1>3, SMTT(40)
<1> HIDE DEF i
<1>5. ASSUME Ascending(ks), NEW j \in 1 .. n PROVE j <= i <=> ks[j] <= v
  <2>1. ks[j] \in Int /\ i \in Int
    BY <1>4
  <2>2. j < low => ks[j] < v
    BY <1>1, <1>5 DEF Between
  <2>3. j > high => v < ks[j]
    BY <1>1, <1>5 DEF Between
  <2>4. j \in low .. high /\ ks[j] <= v => j <= i
    BY <1>2, <1>3, <1>4
  <2>5. low - 1 <= i /\ i <= high
    BY <1>1, <1>2, <1>3
  <2>6. j <= i /\ j \in low .. high => ks[j] <= v
    <3> SUFFICES ASSUME j <= i, j \in low .. high PROVE ks[j] <= v
      OBVIOUS
    <3>1. i \in low .. high /\ ks[i] <= v
      BY <1>1, <1>2, <1>3, <1>4
    <3>2. i \in 1 .. n /\ ks[i] \in Int /\ (j < i => ks[j] < ks[i])
      BY <1>1, <1>5, <3>1, SMTT(40) DEF Ascending
    <3> QED  BY <2>1, <3>1, <3>2, SMTT(40)
  <2> QED  BY <1>1, <2>1, <2>2, <2>3, <2>4, <2>5, <2>6
<1> QED  BY <1>4, <1>5 DEF i

-----------------------------------------------------------------------------
(* Sequences of sequences. *)

(* off[i] is how many elements the first i sequences of S have. *)
Offsets(S, off) ==
    /\ \A i \in 0 .. Len(S) : off[i] \in Nat
    /\ off[0] = 0
    /\ \A i \in 1 .. Len(S) : off[i] = off[i - 1] + Len(S[i])
    /\ \A i, j \in 0 .. Len(S) : i <= j => off[i] <= off[j]

(* F has the elements of the first m sequences of S, one after the other. *)
Flattens(F, S, m, off) ==
    /\ Len(F) = off[m]
    /\ \A i \in 1 .. m : \A k \in 1 .. Len(S[i]) :
         off[i - 1] + k \in 1 .. Len(F) /\ F[off[i - 1] + k] = S[i][k]
    /\ \A p \in 1 .. Len(F) : \E i \in 1 .. m : \E k \in 1 .. Len(S[i]) : p = off[i - 1] + k

LEMMA OffsetsExist ==
  ASSUME NEW Y, NEW S \in Seq(Seq(Y))
  PROVE  \E off : Offsets(S, off)
<1> DEFINE n == Len(S)
           G == [k \in 1 .. n |-> [x \in Nat |-> x + Len(S[k])]]
<1>1. n \in Nat /\ \A k \in 1 .. n : S[k] \in Seq(Y) /\ Len(S[k]) \in Nat
  OBVIOUS
<1>2. \A k \in 1 .. n : \A x \in Nat : G[k][x] = x + Len(S[k]) /\ G[k][x] \in Nat
  <2> SUFFICES ASSUME NEW k \in 1 .. n, NEW x \in Nat
               PROVE  G[k][x] = x + Len(S[k]) /\ G[k][x] \in Nat
    OBVIOUS
  <2>1. k \in Nat /\ Len(S[k]) \in Nat
    BY <1>1
  <2>2. x + Len(S[k]) \in Nat
    BY <2>1
  <2> HIDE DEF n
  <2> QED  BY <2>1, <2>2
<1>3. PICK off : Iterates(off, Nat, 0, G, n)
  <2> HIDE DEF G, n
  <2> QED  BY <1>1, <1>2, Iteration
<1>4. off \in [0 .. n -> Nat] /\ off[0] = 0
  BY <1>3 DEF Iterates
<1>5. \A i \in 1 .. n : i - 1 \in 0 .. n /\ i \in 0 .. n
  <2> HIDE DEF n
  <2> QED  BY <1>1
<1>6. \A i \in 1 .. n : off[i] = off[i - 1] + Len(S[i])
  <2> SUFFICES ASSUME NEW i \in 1 .. n PROVE off[i] = off[i - 1] + Len(S[i])
    OBVIOUS
  <2>1. off[i - 1] \in Nat
    <3> HIDE DEF n
    <3> QED  BY <1>4, <1>5
  <2>2. off[i] = G[i][off[i - 1]]
    BY <1>3 DEF Iterates
  <2> HIDE DEF G
  <2> QED  BY <1>2, <2>1, <2>2
<1> DEFINE T == {j \in Nat : j <= n => \A i \in 0 .. j : off[i] <= off[j]}
<1>7. 0 \in T
  BY <1>4
<1>8. \A j \in Nat : j \in T => j + 1 \in T
  <2> SUFFICES ASSUME NEW j \in Nat, j \in T, j + 1 <= n
               PROVE  \A i \in 0 .. j + 1 : off[i] <= off[j + 1]
    <3> HIDE DEF n
    <3> QED  BY DEF T
  <2> SUFFICES ASSUME NEW i \in 0 .. j + 1 PROVE off[i] <= off[j + 1]
    OBVIOUS
  <2>1. j + 1 \in 1 .. n /\ (j + 1) - 1 = j /\ j \in 0 .. n /\ j <= n
    BY <1>1
  <2>2. off[j + 1] = off[j] + Len(S[j + 1]) /\ Len(S[j + 1]) \in Nat /\ off[j] \in Nat
    BY <1>1, <1>4, <1>6, <2>1
  <2>3. CASE i = j + 1
    BY <2>2, <2>3
  <2>4. CASE i \in 0 .. j
    <3>1. off[i] <= off[j]
      BY <2>1, <2>4
    <3>2. i \in 0 .. n
      BY <2>1, <2>4
    <3>3. off[i] \in Nat
      <4> HIDE DEF n
      <4> QED  BY <1>4, <3>2
    <3> HIDE DEF n, T
    <3> QED  BY <2>2, <3>1, <3>3
  <2> QED  BY <2>3, <2>4
<1>9. \A j \in Nat : j \in T
  <2> HIDE DEF T
  <2> QED  BY <1>7, <1>8, Induction
<1>10. \A i, j \in 0 .. n : i <= j => off[i] <= off[j]
  <2> SUFFICES ASSUME NEW i \in 0 .. n, NEW j \in 0 .. n, i <= j PROVE off[i] <= off[j]
    OBVIOUS
  <2>1. j \in T /\ j <= n /\ i \in 0 .. j
    BY <1>1, <1>9
  <2> QED  BY <2>1
<1> QED  BY <1>4, <1>6, <1>10 DEF Offsets

(* Places in the second of two sequences that follow each other. *)
LEMMA Shifted ==
  ASSUME NEW a \in Nat, NEW b \in Nat
  PROVE  /\ \A k \in 1 .. b : a + k \in 1 .. a + b
         /\ \A p \in 1 .. a + b : p > a => p - a \in 1 .. b /\ p = a + (p - a)
         /\ \A p \in 1 .. a : p \in 1 .. a + b
OBVIOUS

(* Two sequences, one after the other. *)
LEMMA ConcatIs ==
  ASSUME NEW Y, NEW s \in Seq(Y), NEW t \in Seq(Y), NEW u, u = s \o t
  PROVE  /\ u \in Seq(Y) /\ Len(u) = Len(s) + Len(t)
         /\ Len(s) \in Nat /\ Len(t) \in Nat
         /\ \A p \in 1 .. Len(s) : u[p] = s[p]
         /\ \A k \in 1 .. Len(t) : u[Len(s) + k] = t[k]
OBVIOUS

(* One more sequence. *)
LEMMA FlattenOneMore ==
  ASSUME NEW Y, NEW S \in Seq(Seq(Y)), NEW off, Offsets(S, off),
         NEW i \in Nat, 1 <= i, i + 1 <= Len(S),
         NEW F \in Seq(Y), Flattens(F, S, i, off)
  PROVE  F \o S[i + 1] \in Seq(Y) /\ Flattens(F \o S[i + 1], S, i + 1, off)
<1> DEFINE t == S[i + 1]
           u == F \o t
<1>1. t \in Seq(Y) /\ i + 1 \in 1 .. Len(S) /\ i \in 0 .. Len(S) /\ (i + 1) - 1 = i
  OBVIOUS
<1>2. off[i + 1] = off[i] + Len(t) /\ off[i] \in Nat /\ Len(F) = off[i]
  BY <1>1 DEF Offsets, Flattens
<1>3. /\ u \in Seq(Y) /\ Len(u) = off[i] + Len(t) /\ Len(u) = off[i + 1] /\ Len(t) \in Nat
      /\ \A p \in 1 .. off[i] : u[p] = F[p]
      /\ \A k \in 1 .. Len(t) : u[off[i] + k] = t[k]
  <2> HIDE DEF t, u
  <2>1. /\ u \in Seq(Y) /\ Len(u) = Len(F) + Len(t) /\ Len(t) \in Nat
        /\ \A p \in 1 .. Len(F) : u[p] = F[p]
        /\ \A k \in 1 .. Len(t) : u[Len(F) + k] = t[k]
    BY <1>1, ConcatIs, SMTT(40) DEF u
  <2> QED  BY <1>2, <2>1
<1> HIDE DEF u
<1>4. ASSUME NEW m \in 1 .. i + 1, NEW k \in 1 .. Len(S[m])
      PROVE  off[m - 1] + k \in 1 .. Len(u) /\ u[off[m - 1] + k] = S[m][k]
  <2>1. CASE m = i + 1
    <3>1. k \in 1 .. Len(t) /\ off[m - 1] = off[i]
      BY <1>1, <2>1
    <3> HIDE DEF t
    <3>2. off[i] + k \in 1 .. Len(u)
      BY <1>2, <1>3, <3>1, Shifted
    <3>3. u[off[i] + k] = t[k]
      BY <1>3, <3>1
    <3> QED  BY <2>1, <3>1, <3>2, <3>3 DEF t
  <2>2. CASE m # i + 1
    <3>1. m \in 1 .. i
      BY <2>2
    <3>2. off[m - 1] + k \in 1 .. off[i] /\ F[off[m - 1] + k] = S[m][k]
      BY <1>2, <3>1 DEF Flattens
    <3>3. off[m - 1] + k \in 1 .. Len(u)
      <4> HIDE DEF t
      <4> QED  BY <1>2, <1>3, <3>2, Shifted
    <3> QED  BY <1>3, <3>2, <3>3
  <2> QED  BY <2>1, <2>2
<1>5. ASSUME NEW p \in 1 .. Len(u)
      PROVE  \E m \in 1 .. i + 1 : \E k \in 1 .. Len(S[m]) : p = off[m - 1] + k
  <2> HIDE DEF t
  <2>1. CASE p <= off[i]
    <3>1. p \in 1 .. Len(F)
      BY <1>2, <1>3, <2>1
    <3>2. PICK m \in 1 .. i : \E k \in 1 .. Len(S[m]) : p = off[m - 1] + k
      BY <3>1 DEF Flattens
    <3>3. m \in 1 .. i + 1
      OBVIOUS
    <3> QED  BY <3>2, <3>3
  <2>2. CASE ~(p <= off[i])
    <3>1. p \in 1 .. off[i] + Len(t) /\ p > off[i]
      BY <1>2, <1>3, <2>2, SMTT(40)
    <3>2. PICK k \in 1 .. Len(t) : p = off[i] + k
      BY <1>2, <1>3, <3>1, Shifted
    <3>3. i + 1 \in 1 .. i + 1 /\ off[(i + 1) - 1] = off[i]
      BY <1>1
    <3> QED  BY <3>2, <3>3 DEF t
  <2> QED  BY <2>1, <2>2
<1>6. u \in Seq(Y) /\ Flattens(u, S, i + 1, off)
  BY <1>3, <1>4, <1>5 DEF Flattens
<1> QED  BY <1>6 DEF u

(* FlattenSeq has them all. *)
LEMMA FlattenIs ==
  ASSUME NEW Y, NEW S \in Seq(Seq(Y)), NEW off, Offsets(S, off)
  PROVE  FlattenSeq(S) \in Seq(Y) /\ Flattens(FlattenSeq(S), S, Len(S), off)
<1> DEFINE n == Len(S)
<1>1. /\ n \in Nat
      /\ \A k \in 1 .. n : S[k] \in Seq(Y) /\ Len(S[k]) \in Nat
  OBVIOUS
<1>2. CASE n = 0
  <2>1. FlattenSeq(S) = S /\ S = << >>
    BY <1>2 DEF FlattenSeq
  <2> QED  BY <1>2, <2>1 DEF Offsets, Flattens
<1>3. CASE n # 0
  <2> DEFINE Body(f) == [i \in 1 .. n |-> IF i = 1 THEN S[i] ELSE f[i - 1] \o S[i]]
             g == CHOOSE f : f = Body(f)
             G == [k \in 1 .. n |-> [x \in Seq(Y) |-> x \o S[k]]]
  <2>1. \A k \in 1 .. n : \A x \in Seq(Y) : G[k][x] = x \o S[k] /\ G[k][x] \in Seq(Y)
    <3> SUFFICES ASSUME NEW k \in 1 .. n, NEW x \in Seq(Y)
                 PROVE  G[k][x] = x \o S[k] /\ G[k][x] \in Seq(Y)
      OBVIOUS
    <3>1. S[k] \in Seq(Y)
      BY <1>1
    <3>2. x \o S[k] \in Seq(Y)
      BY <3>1
    <3> HIDE DEF n
    <3> QED  BY <3>2
  <2>2. << >> \in Seq(Y)
    OBVIOUS
  <2>3. PICK h : Iterates(h, Seq(Y), << >>, G, n)
    <3> HIDE DEF G, n
    <3> QED  BY <1>1, <2>1, <2>2, Iteration
  <2>4. h[0] = << >> /\ \A k \in 1 .. n : h[k] = h[k - 1] \o S[k]
    <3>1. h[0] = << >> /\ h \in [0 .. n -> Seq(Y)]
      BY <2>3 DEF Iterates
    <3>2. ASSUME NEW k \in 1 .. n PROVE h[k] = h[k - 1] \o S[k]
      <4>1. h[k - 1] \in Seq(Y)
        <5>1. k - 1 \in 0 .. n
          BY <1>1
        <5> HIDE DEF n
        <5> QED  BY <5>1, <3>1
      <4>2. h[k] = G[k][h[k - 1]]
        BY <2>3 DEF Iterates
      <4> HIDE DEF G
      <4> QED  BY <2>1, <4>1, <4>2
    <3> QED  BY <3>1, <3>2
  <2> DEFINE f1 == [i \in 1 .. n |-> h[i]]
  <2>5. f1 = Body(f1)
    <3>1. \A i \in 1 .. n : f1[i] = IF i = 1 THEN S[i] ELSE f1[i - 1] \o S[i]
      <4> SUFFICES ASSUME NEW i \in 1 .. n
                   PROVE  h[i] = IF i = 1 THEN S[i] ELSE f1[i - 1] \o S[i]
        OBVIOUS
      <4>1. S[i] \in Seq(Y) /\ h[i] = h[i - 1] \o S[i] /\ h[0] = << >>
        BY <1>1, <2>4
      <4>2. CASE i = 1
        <5>1. h[i - 1] = << >>
          BY <4>1, <4>2
        <5>2. << >> \o S[i] = S[i]
          BY <4>1
        <5> HIDE DEF n, f1
        <5> QED  BY <4>1, <4>2, <5>1, <5>2
      <4>3. CASE i # 1
        <5>1. i - 1 \in 1 .. n
          BY <1>1, <4>3
        <5> QED  BY <4>1, <4>3, <5>1
      <4> QED  BY <4>2, <4>3
    <3> QED  BY <3>1
  <2>6. g = Body(g)
    <3> HIDE DEF Body, f1
    <3> QED  BY <2>5
  <2>7. FlattenSeq(S) = g[n]
    BY <1>3 DEF FlattenSeq
  <2>8. g[1] = S[1] /\ \A i \in 2 .. n : g[i] = g[i - 1] \o S[i]
    <3>1. 1 \in 1 .. n
      BY <1>1, <1>3
    <3>2. Body(g)[1] = S[1]
      <4> HIDE DEF g, n
      <4> QED  BY <3>1
    <3>3. ASSUME NEW i \in 2 .. n PROVE Body(g)[i] = g[i - 1] \o S[i]
      <4>1. i \in 1 .. n /\ i # 1
        BY <1>1
      <4> HIDE DEF g, n
      <4> QED  BY <4>1
    <3> HIDE DEF Body
    <3> QED  BY <2>6, <3>2, <3>3
  <2> HIDE DEF g
  <2> DEFINE Good(i) == g[i] \in Seq(Y) /\ Flattens(g[i], S, i, off)
             T == {i \in Nat : i + 1 <= n => Good(i + 1)}
  <2>9. 0 \in T
    <3>1. /\ off[1] = off[0] + Len(S[1]) /\ off[0] = 0 /\ 1 \in 1 .. n
          /\ g[1] \in Seq(Y) /\ g[1] = S[1] /\ Len(S[1]) \in Nat
      <4>1. 1 \in 1 .. n
        BY <1>1, <1>3
      <4>2. off[1] = off[1 - 1] + Len(S[1])
        BY <4>1 DEF Offsets
      <4> QED  BY <1>1, <2>8, <4>1, <4>2 DEF Offsets
    <3>2. off[1] = Len(g[1])
      BY <3>1
    <3>3. \A m \in 1 .. 1 : m = 1 /\ off[m - 1] = 0
      BY <3>1
    <3> HIDE DEF n
    <3>4. Flattens(g[1], S, 1, off)
      BY <3>1, <3>2, <3>3 DEF Flattens
    <3> QED  BY <3>1, <3>4
  <2>10. \A i \in Nat : i \in T => i + 1 \in T
    <3> SUFFICES ASSUME NEW j \in Nat, Good(j + 1), (j + 1) + 1 <= n PROVE Good((j + 1) + 1)
      BY <1>1
    <3>1. PICK i \in Nat : i = j + 1 /\ 1 <= i
      OBVIOUS
    <3>2. i + 1 \in 2 .. n /\ (i + 1) - 1 = i /\ i + 1 <= Len(S)
      BY <1>1, <3>1
    <3>3. g[i + 1] = g[i] \o S[i + 1]
      BY <2>8, <3>2
    <3>4. g[i] \in Seq(Y) /\ Flattens(g[i], S, i, off)
      BY <3>1
    <3>5. g[i] \o S[i + 1] \in Seq(Y) /\ Flattens(g[i] \o S[i + 1], S, i + 1, off)
      BY <3>1, <3>2, <3>4, FlattenOneMore
    <3>6. Good(i + 1)
      BY <3>3, <3>5
    <3> HIDE DEF Good
    <3> QED  BY <3>1, <3>6
  <2>11. n - 1 \in T
    <3>1. n - 1 \in Nat
      BY <1>1, <1>3
    <3> HIDE DEF T, n
    <3> QED  BY <2>9, <2>10, <3>1, Induction
  <2>12. Good(n)
    <3>1. (n - 1) + 1 = n /\ n <= n /\ n - 1 \in Nat
      BY <1>1, <1>3
    <3>2. (n - 1) + 1 <= n => Good((n - 1) + 1)
      BY <2>11
    <3> HIDE DEF Good, n
    <3> QED  BY <3>1, <3>2
  <2> QED  BY <2>7, <2>12
<1> QED  BY <1>2, <1>3

(* A sequence with one element more, or one less. *)
LEMMA InsertAtIs ==
  ASSUME NEW Y, NEW s \in Seq(Y), NEW e \in Y, NEW i \in 1 .. Len(s) + 1,
         NEW u, u = InsertAt(s, i, e)
  PROVE  /\ u \in Seq(Y) /\ Len(u) = Len(s) + 1
         /\ \A p \in 1 .. Len(u) : u[p] = IF p < i THEN s[p] ELSE IF p = i THEN e ELSE s[p - 1]
<1> DEFINE a == SubSeq(s, 1, i - 1)
           b == SubSeq(s, i, Len(s))
           ae == a \o <<e>>
<1>1. /\ a \in Seq(Y) /\ Len(a) = i - 1 /\ \A p \in 1 .. i - 1 : a[p] = s[p]
      /\ b \in Seq(Y) /\ Len(b) = Len(s) - i + 1
      /\ \A p \in 1 .. Len(s) - i + 1 : b[p] = s[i + p - 1]
  OBVIOUS
<1>2. <<e>> \in Seq(Y) /\ Len(<<e>>) = 1 /\ <<e>>[1] = e
  OBVIOUS
<1> HIDE DEF a, b
<1>3. /\ ae \in Seq(Y) /\ Len(ae) = i /\ ae[i] = e /\ \A p \in 1 .. i - 1 : ae[p] = s[p]
  BY <1>1, <1>2, SMTT(40)
<1>4. u = ae \o b
  BY DEF InsertAt, a, b
<1> HIDE DEF ae
<1>5. /\ u \in Seq(Y) /\ Len(u) = Len(s) + 1
      /\ \A p \in 1 .. i : u[p] = ae[p]
      /\ \A k \in 1 .. Len(s) - i + 1 : u[i + k] = b[k]
  <2>1. /\ u \in Seq(Y) /\ Len(u) = Len(ae) + Len(b)
        /\ \A p \in 1 .. Len(ae) : u[p] = ae[p]
        /\ \A k \in 1 .. Len(b) : u[Len(ae) + k] = b[k]
    BY <1>1, <1>3, <1>4, ConcatIs, SMTT(40)
  <2>2. i + (Len(s) - i + 1) = Len(s) + 1
    OBVIOUS
  <2> QED  BY <1>1, <1>3, <2>1, <2>2
<1>6. ASSUME NEW p \in 1 .. Len(u), p > i PROVE u[p] = s[p - 1]
  <2>1. PICK k \in Int : k = p - i
    OBVIOUS
  <2>2. k \in 1 .. Len(s) - i + 1 /\ p = i + k /\ i + k - 1 = p - 1
    BY <1>5, <1>6, <2>1
  <2> QED  BY <1>1, <1>5, <2>2
<1> QED  BY <1>3, <1>5, <1>6

LEMMA RemoveAtIs ==
  ASSUME NEW Y, NEW s \in Seq(Y), NEW i \in 1 .. Len(s), NEW u, u = RemoveAt(s, i)
  PROVE  /\ u \in Seq(Y) /\ Len(u) = Len(s) - 1
         /\ \A p \in 1 .. Len(u) : u[p] = IF p < i THEN s[p] ELSE s[p + 1]
<1> DEFINE a == SubSeq(s, 1, i - 1)
           b == SubSeq(s, i + 1, Len(s))
<1>1. /\ a \in Seq(Y) /\ Len(a) = i - 1 /\ \A p \in 1 .. i - 1 : a[p] = s[p]
      /\ b \in Seq(Y) /\ Len(b) = Len(s) - i
      /\ \A p \in 1 .. Len(s) - i : b[p] = s[i + p]
  OBVIOUS
<1>4. u = a \o b
  BY DEF RemoveAt
<1> HIDE DEF a, b
<1>5. /\ u \in Seq(Y) /\ Len(u) = Len(s) - 1
      /\ \A p \in 1 .. i - 1 : u[p] = a[p]
      /\ \A k \in 1 .. Len(s) - i : u[(i - 1) + k] = b[k]
  <2>1. /\ u \in Seq(Y) /\ Len(u) = Len(a) + Len(b)
        /\ \A p \in 1 .. Len(a) : u[p] = a[p]
        /\ \A k \in 1 .. Len(b) : u[Len(a) + k] = b[k]
    <3>1. a \in Seq(Y) /\ b \in Seq(Y)
      BY <1>1
    <3> QED  BY <3>1, <1>4, ConcatIs
  <2>2. (i - 1) + (Len(s) - i) = Len(s) - 1
    OBVIOUS
  <2> QED  BY <1>1, <2>1, <2>2
<1>6. ASSUME NEW p \in 1 .. Len(u), p >= i PROVE u[p] = s[p + 1]
  <2>1. PICK k \in Int : k = p - i + 1
    OBVIOUS
  <2>2. k \in 1 .. Len(s) - i /\ p = (i - 1) + k /\ i + k = p + 1
    BY <1>5, <1>6, <2>1
  <2> QED  BY <1>1, <1>5, <2>2
<1>7. ASSUME NEW p \in 1 .. Len(u), p < i PROVE u[p] = s[p]
  BY <1>1, <1>5, <1>7, SMTT(40)
<1>8. \A p \in 1 .. Len(u) : u[p] = IF p < i THEN s[p] ELSE s[p + 1]
  BY <1>5, <1>6, <1>7
<1> QED  BY <1>5, <1>8

(* Numbers up to a that map to different numbers up to b. *)
LEMMA NoMoreThan ==
  ASSUME NEW a \in Nat, NEW b \in Nat, NEW f \in [1 .. a -> 1 .. b],
         \A x, y \in 1 .. a : f[x] = f[y] => x = y
  PROVE  a <= b
<1>1. /\ IsFiniteSet(1 .. a) /\ Cardinality(1 .. a) = a
      /\ IsFiniteSet(1 .. b) /\ Cardinality(1 .. b) = b
  <2>1. \A n \in Nat : IsFiniteSet(1 .. n) /\ Cardinality(1 .. n) = IF 1 > n THEN 0 ELSE n - 1 + 1
    BY FS_Interval
  <2>2. \A n \in Nat : (IF 1 > n THEN 0 ELSE n - 1 + 1) = n
    OBVIOUS
  <2> QED  BY <2>1, <2>2
<1>2. CASE b < a
  <2>1. \E x, y \in 1 .. a : x # y /\ f[x] = f[y]
    BY <1>1, <1>2, FS_PigeonHole
  <2> QED  BY <2>1
<1> QED  BY <1>2

-----------------------------------------------------------------------------
(* Lists of cells. *)

LEMMA CellNumbers == MaxCell \in Nat /\ CellPtr = 0 .. MaxCell /\ Cell = 1 .. MaxCell
<1>1. MaxCell \in Nat
  BY AMLeafAssumption DEF MaxCell
<1> QED  BY <1>1 DEF CellPtr, Cell

(* h[k][c] is the list from cell c on, k cells of it at most. *)
Unrolls(h, l) ==
    /\ h \in [0 .. MaxCell + 1 -> [CellPtr -> Seq(Cell)]]
    /\ \A c \in CellPtr : h[0][c] = << >>
    /\ \A k \in 1 .. MaxCell + 1 : \A c \in CellPtr :
         h[k][c] = IF c = AM_NULL THEN << >> ELSE <<c>> \o h[k - 1][l.link[c]]
    /\ \A c \in CellPtr : ListFrom(l, c) = h[MaxCell][c]

LEMMA ListTurns ==
  ASSUME NEW l, l.link \in [Cell -> CellPtr]
  PROVE  \E h : Unrolls(h, l)
<1> DEFINE X == [CellPtr -> Seq(Cell)]
           K == MaxCell + 1
           none == [c \in CellPtr |-> << >>]
           next(x) == [c \in CellPtr |-> IF c = AM_NULL THEN << >> ELSE <<c>> \o x[l.link[c]]]
           G == [k \in 1 .. K |-> [x \in X |-> next(x)]]
<1>1. /\ MaxCell \in Nat /\ K \in Nat /\ none \in X
      /\ \A c \in CellPtr : c # AM_NULL => c \in Cell /\ l.link[c] \in CellPtr
  BY CellNumbers DEF AM_NULL
<1>2. \A x \in X : next(x) \in X
  <2> SUFFICES ASSUME NEW x \in X, NEW c \in CellPtr, c # AM_NULL
               PROVE  <<c>> \o x[l.link[c]] \in Seq(Cell)
    OBVIOUS
  <2>1. <<c>> \in Seq(Cell) /\ x[l.link[c]] \in Seq(Cell)
    BY <1>1
  <2> HIDE DEF X
  <2> QED  BY <2>1
<1>3. \A k \in 1 .. K : \A x \in X : G[k][x] = next(x) /\ G[k][x] \in X
  <2> HIDE DEF X, K, next
  <2> QED  BY <1>2
<1>4. PICK h : Iterates(h, X, none, G, K)
  <2> HIDE DEF X, K, none, G
  <2> QED  BY <1>1, <1>3, Iteration
<1>5. /\ h \in [0 .. K -> X]
      /\ h[0] = none
      /\ \A k \in 1 .. K : k - 1 \in 0 .. K /\ h[k - 1] \in X /\ h[k] = next(h[k - 1])
  <2>1. \A k \in 1 .. K : k - 1 \in 0 .. K
    <3> HIDE DEF K
    <3> QED  BY <1>1
  <2>2. h \in [0 .. K -> X] /\ h[0] = none /\ \A k \in 1 .. K : h[k] = G[k][h[k - 1]]
    BY <1>4 DEF Iterates
  <2> HIDE DEF X, K, none, G, next
  <2> QED  BY <1>3, <2>1, <2>2
<1>6. \A c \in CellPtr : h[0][c] = << >>
  BY <1>5
<1>7. \A k \in 1 .. K : \A c \in CellPtr :
        h[k][c] = IF c = AM_NULL THEN << >> ELSE <<c>> \o h[k - 1][l.link[c]]
  <2> HIDE DEF X, K, none, G
  <2> QED  BY <1>5, ZenonT(60)
<1> DEFINE P == CellPtr \X CellPtr
           Body(f) == [x \in P |-> IF x[1] = AM_NULL \/ x[2] = 0 THEN << >>
                                   ELSE <<x[1]>> \o f[<<l.link[x[1]], x[2] - 1>>]]
           g == CHOOSE f : f = Body(f)
           f1 == [x \in P |-> h[x[2]][x[1]]]
<1>8. f1 = Body(f1)
  <2> SUFFICES ASSUME NEW x \in P
               PROVE  h[x[2]][x[1]] = IF x[1] = AM_NULL \/ x[2] = 0 THEN << >>
                                      ELSE <<x[1]>> \o f1[<<l.link[x[1]], x[2] - 1>>]
    OBVIOUS
  <2>1. PICK c \in CellPtr, k \in CellPtr : x = <<c, k>>
    OBVIOUS
  <2>2. x[1] = c /\ x[2] = k /\ k \in Nat /\ (k # 0 => k \in 1 .. K /\ k - 1 \in CellPtr)
    BY <2>1, CellNumbers
  <2>3. CASE k = 0
    BY <1>6, <2>2, <2>3
  <2>4. CASE k # 0 /\ c = AM_NULL
    BY <1>7, <2>2, <2>4
  <2>5. CASE k # 0 /\ c # AM_NULL
    <3>1. l.link[c] \in CellPtr /\ k - 1 \in CellPtr
      BY <1>1, <2>2, <2>5
    <3>2. f1[<<l.link[c], k - 1>>] = h[k - 1][l.link[c]]
      <4>1. PICK y : y = <<l.link[c], k - 1>>
        OBVIOUS
      <4>2. y \in P /\ y[1] = l.link[c] /\ y[2] = k - 1
        BY <3>1, <4>1
      <4>3. f1[y] = h[y[2]][y[1]]
        BY <4>2
      <4> QED  BY <4>1, <4>2, <4>3
    <3>3. h[k][c] = <<c>> \o h[k - 1][l.link[c]]
      BY <1>7, <2>2, <2>5
    <3> HIDE DEF f1
    <3> QED  BY <2>2, <2>5, <3>2, <3>3
  <2> QED  BY <2>3, <2>4, <2>5
<1>9. g = Body(g)
  <2> HIDE DEF Body, f1
  <2> QED  BY <1>8
<1>10. \A c \in CellPtr : ListFrom(l, c) = g[<<c, MaxCell>>]
  BY DEF ListFrom
<1>11. \A c \in CellPtr, k \in CellPtr :
         g[<<c, k>>] = IF c = AM_NULL \/ k = 0 THEN << >> ELSE <<c>> \o g[<<l.link[c], k - 1>>]
  <2> SUFFICES ASSUME NEW c \in CellPtr, NEW k \in CellPtr
               PROVE  g[<<c, k>>] = IF c = AM_NULL \/ k = 0 THEN << >>
                                    ELSE <<c>> \o g[<<l.link[c], k - 1>>]
    OBVIOUS
  <2>1. PICK x : x = <<c, k>>
    OBVIOUS
  <2>2. x \in P /\ x[1] = c /\ x[2] = k
    BY <2>1
  <2>3. Body(g)[x] = IF x[1] = AM_NULL \/ x[2] = 0 THEN << >>
                     ELSE <<x[1]>> \o g[<<l.link[x[1]], x[2] - 1>>]
    <3> HIDE DEF g, P
    <3> QED  BY <2>2
  <2>4. g[x] = Body(g)[x]
    <3> HIDE DEF Body, g
    <3> QED  BY <1>9
  <2> HIDE DEF Body, g
  <2> QED  BY <2>1, <2>2, <2>3, <2>4
<1> HIDE DEF g, Body, f1, G
<1> DEFINE T == {k \in Nat : k <= MaxCell => \A c \in CellPtr : g[<<c, k>>] = h[k][c]}
<1>12. 0 \in T
  <2>1. 0 \in CellPtr
    BY CellNumbers
  <2>2. \A c \in CellPtr : g[<<c, 0>>] = << >>
    BY <1>11, <2>1
  <2>3. \A c \in CellPtr : g[<<c, 0>>] = h[0][c]
    BY <1>6, <2>2
  <2> QED  BY <2>3
<1>13. \A k \in Nat : k \in T => k + 1 \in T
  <2> SUFFICES ASSUME NEW k \in Nat, \A c \in CellPtr : g[<<c, k>>] = h[k][c],
                      k + 1 <= MaxCell, NEW c \in CellPtr
               PROVE  g[<<c, k + 1>>] = h[k + 1][c]
    BY <1>1
  <2>1. k + 1 \in CellPtr /\ k + 1 # 0 /\ (k + 1) - 1 = k /\ k + 1 \in 1 .. K
    BY <1>1, CellNumbers
  <2>2. g[<<c, k + 1>>] = IF c = AM_NULL THEN << >> ELSE <<c>> \o g[<<l.link[c], k>>]
    BY <1>11, <2>1
  <2>3. h[k + 1][c] = IF c = AM_NULL THEN << >> ELSE <<c>> \o h[k][l.link[c]]
    BY <1>7, <2>1
  <2> QED  BY <1>1, <2>2, <2>3
<1>14. \A k \in Nat : k \in T
  <2> HIDE DEF T
  <2> QED  BY <1>12, <1>13, Induction
<1>15. \A c \in CellPtr : ListFrom(l, c) = h[MaxCell][c]
  <2>1. MaxCell \in T /\ MaxCell <= MaxCell
    BY <1>1, <1>14
  <2>2. \A c \in CellPtr : g[<<c, MaxCell>>] = h[MaxCell][c]
    BY <2>1
  <2> HIDE DEF T
  <2> QED  BY <1>10, <2>2
<1> QED  BY <1>5, <1>6, <1>7, <1>15 DEF Unrolls

(* The list of key i begins here, the free list as that of key 0. *)
HeadOf(l, i) == IF i = 0 THEN l.freeListPtr ELSE l.keys[i].head

Taken(l) == 1 .. l.recIdPtr

(* The cells of leaf l: o[c] is the key in whose list cell c is, d[c] the  *)
(* number of cells that follow it there.                                   *)
Lists(l, o, d) ==
    /\ o \in [Cell -> Nat] /\ d \in [Cell -> Nat]
    /\ \A c \in Taken(l) :
         /\ o[c] <= Len(l.keys)
         /\ HeadOf(l, o[c]) # AM_NULL /\ d[c] <= d[HeadOf(l, o[c])]
         /\ l.link[c] = AM_NULL => d[c] = 0
         /\ l.link[c] # AM_NULL =>
              l.link[c] \in Taken(l) /\ o[l.link[c]] = o[c] /\ d[c] = d[l.link[c]] + 1
    /\ \A i \in 0 .. Len(l.keys) :
         HeadOf(l, i) # AM_NULL => HeadOf(l, i) \in Taken(l) /\ o[HeadOf(l, i)] = i
    /\ \A b, c \in Taken(l) : o[b] = o[c] /\ d[b] = d[c] => b = c

(* s is the list from c on. *)
IsList(l, o, d, c, s) ==
    /\ s \in Seq(Cell) /\ Len(s) = d[c] + 1
    /\ \A k \in 1 .. Len(s) : s[k] \in Taken(l) /\ o[s[k]] = o[c] /\ d[s[k]] = d[c] + 1 - k

LEMMA ListIs ==
  ASSUME NEW l, l.link \in [Cell -> CellPtr], l.recIdPtr \in CellPtr,
         NEW o, NEW d, Lists(l, o, d), NEW c \in Taken(l)
  PROVE  IsList(l, o, d, c, ListFrom(l, c)) /\ d[c] + 1 <= l.recIdPtr
<1> DEFINE K == MaxCell + 1
           Part(k, b, s) ==
             /\ s \in Seq(Cell) /\ Len(s) = IF k <= d[b] THEN k ELSE d[b] + 1
             /\ \A j \in 1 .. Len(s) : s[j] \in Taken(l) /\ o[s[j]] = o[b] /\ d[s[j]] = d[b] + 1 - j
<1>1. /\ MaxCell \in Nat /\ K \in Nat /\ l.recIdPtr \in 0 .. MaxCell
      /\ \A b \in Taken(l) : b \in Cell /\ b \in CellPtr /\ b # AM_NULL /\ d[b] \in Nat /\ o[b] \in Nat
  <2>1. MaxCell \in Nat /\ K \in Nat /\ l.recIdPtr \in 0 .. MaxCell
    BY CellNumbers
  <2>2. ASSUME NEW b \in Taken(l)
        PROVE  b \in Cell /\ b \in CellPtr /\ b # AM_NULL
    BY <2>1, CellNumbers DEF Taken, AM_NULL
  <2>3. o \in [Cell -> Nat] /\ d \in [Cell -> Nat]
    BY DEF Lists
  <2> QED  BY <2>1, <2>2, <2>3
<1>2. PICK h : Unrolls(h, l)
  BY ListTurns
<1> DEFINE T == {k \in Nat : k <= K => \A b \in Taken(l) : Part(k, b, h[k][b])}
<1>3. 0 \in T
  <2>1. \A b \in Taken(l) : h[0][b] = << >>
    BY <1>1, <1>2 DEF Unrolls
  <2>2. \A b \in Taken(l) : Part(0, b, << >>)
    BY <1>1
  <2> HIDE DEF Part
  <2> QED  BY <2>1, <2>2
<1>4. \A k \in Nat : k \in T => k + 1 \in T
  <2> SUFFICES ASSUME NEW k \in Nat, \A b \in Taken(l) : Part(k, b, h[k][b]), k + 1 <= K
               PROVE  \A b \in Taken(l) : Part(k + 1, b, h[k + 1][b])
    <3> HIDE DEF Part, K
    <3> QED  BY <1>1
  <2> SUFFICES ASSUME NEW b \in Taken(l) PROVE Part(k + 1, b, h[k + 1][b])
    BY SMTT(40)
  <2>1. h[k + 1][b] = <<b>> \o h[k][l.link[b]] /\ k \in 0 .. K
    <3>1. k + 1 \in 1 .. MaxCell + 1 /\ (k + 1) - 1 = k /\ b \in CellPtr /\ b # AM_NULL
      BY <1>1
    <3>2. h[k + 1][b] = IF b = AM_NULL THEN << >> ELSE <<b>> \o h[(k + 1) - 1][l.link[b]]
      BY <1>2, <3>1 DEF Unrolls
    <3>3. k \in 0 .. K
      BY <1>1
    <3> QED  BY <3>1, <3>2, <3>3
  <2>2. CASE l.link[b] = AM_NULL
    <3>1. d[b] = 0
      BY <2>2 DEF Lists
    <3>2. h[k][l.link[b]] = << >>
      <4>1. CASE k = 0
        BY <1>2, <2>2, <4>1, CellNumbers DEF Unrolls, AM_NULL
      <4>2. CASE k # 0
        <5>1. k \in 1 .. MaxCell + 1 /\ AM_NULL \in CellPtr
          BY <1>1, <4>2, CellNumbers, SMTT(40) DEF AM_NULL
        <5> QED  BY <1>2, <2>2, <5>1, ZenonT(60) DEF Unrolls
      <4> QED  BY <4>1, <4>2
    <3>3. h[k + 1][b] = <<b>>
      BY <2>1, <3>2
    <3>4. Part(k + 1, b, <<b>>)
      BY <1>1, <3>1
    <3> HIDE DEF Part
    <3> QED  BY <3>3, <3>4
  <2>3. CASE l.link[b] # AM_NULL
    <3> DEFINE e == l.link[b]
               t == h[k][e]
    <3>1. e \in Taken(l) /\ o[e] = o[b] /\ d[b] = d[e] + 1
      BY <2>3 DEF Lists
    <3>2. Part(k, e, t)
      BY <3>1
    <3> HIDE DEF t, e
    <3>3. Part(k + 1, b, <<b>> \o t)
      <4> DEFINE u == <<b>> \o t
      <4>1. t \in Seq(Cell) /\ <<b>> \in Seq(Cell) /\ Len(<<b>>) = 1 /\ <<b>>[1] = b
        BY <1>1, <3>2
      <4>2. /\ u \in Seq(Cell) /\ Len(u) = Len(t) + 1 /\ u[1] = b /\ Len(t) \in Nat
            /\ \A j \in 1 .. Len(t) : u[1 + j] = t[j]
        BY <4>1
      <4> HIDE DEF u
      <4>3. d[b] \in Nat /\ d[e] \in Nat
        BY <1>1, <3>1
      <4>4. Len(u) = IF k + 1 <= d[b] THEN k + 1 ELSE d[b] + 1
        BY <3>1, <3>2, <4>2, <4>3
      <4>5. ASSUME NEW j \in 1 .. Len(u)
            PROVE  u[j] \in Taken(l) /\ o[u[j]] = o[b] /\ d[u[j]] = d[b] + 1 - j
        <5>1. CASE j = 1
          BY <4>2, <4>3, <5>1
        <5>2. CASE j # 1
          <6>1. PICK i \in Int : i = j - 1
            OBVIOUS
          <6>2. i \in 1 .. Len(t) /\ j = 1 + i
            BY <4>2, <5>2, <6>1
          <6>3. u[j] = t[i] /\ t[i] \in Taken(l) /\ o[t[i]] = o[e] /\ d[t[i]] = d[e] + 1 - i
            BY <3>2, <4>2, <6>2
          <6> QED  BY <3>1, <4>3, <6>2, <6>3, SMTT(40)
        <5> QED  BY <5>1, <5>2
      <4>6. Part(k + 1, b, u)
        BY <4>2, <4>4, <4>5
      <4> QED  BY <4>6 DEF u
    <3>4. h[k + 1][b] = <<b>> \o t
      BY <2>1 DEF t, e
    <3> HIDE DEF Part
    <3> QED  BY <3>3, <3>4
  <2> QED  BY <2>2, <2>3
<1>5. \A k \in Nat : k \in T
  <2> HIDE DEF T
  <2> QED  BY <1>3, <1>4, Induction
<1>6. Part(K, c, h[K][c]) /\ Part(MaxCell, c, h[MaxCell][c])
  <2>1. K \in T /\ MaxCell \in T /\ K <= K /\ MaxCell <= K
    BY <1>1, <1>5
  <2> HIDE DEF Part, K
  <2> QED  BY <2>1
<1>7. Len(h[K][c]) <= l.recIdPtr
  <2> DEFINE s == h[K][c]
             f == [k \in 1 .. Len(s) |-> s[k]]
  <2>1. Len(s) \in Nat
    BY <1>6
  <2>2. ASSUME NEW k \in 1 .. Len(s)
        PROVE  s[k] \in 1 .. l.recIdPtr /\ d[s[k]] = d[c] + 1 - k
    BY <1>6 DEF Taken
  <2>3. d[c] \in Nat
    BY <1>1
  <2> HIDE DEF s
  <2>4. f \in [1 .. Len(s) -> 1 .. l.recIdPtr]
    BY <2>2
  <2>5. \A x, y \in 1 .. Len(s) : f[x] = f[y] => x = y
    <3> SUFFICES ASSUME NEW x \in 1 .. Len(s), NEW y \in 1 .. Len(s), s[x] = s[y] PROVE x = y
      OBVIOUS
    <3>1. d[c] + 1 - x = d[c] + 1 - y
      BY <2>2
    <3> QED  BY <2>1, <2>3, <3>1
  <2>6. l.recIdPtr \in Nat
    BY <1>1
  <2> HIDE DEF f
  <2>7. Len(s) <= l.recIdPtr
    BY <2>1, <2>4, <2>5, <2>6, NoMoreThan
  <2> QED  BY <2>7 DEF s
<1>8. d[c] + 1 <= l.recIdPtr /\ d[c] + 1 <= MaxCell
  <2>1. Len(h[K][c]) = IF K <= d[c] THEN K ELSE d[c] + 1
    BY <1>6
  <2> QED  BY <1>1, <1>7, <2>1
<1>9. ListFrom(l, c) = h[MaxCell][c]
  BY <1>1, <1>2 DEF Unrolls
<1>10. IsList(l, o, d, c, h[MaxCell][c])
  BY <1>1, <1>6, <1>8 DEF IsList
<1> QED  BY <1>8, <1>9, <1>10

LEMMA NoList ==
  ASSUME NEW l, l.link \in [Cell -> CellPtr]
  PROVE  ListFrom(l, AM_NULL) = << >>
<1>1. PICK h : Unrolls(h, l)
  BY ListTurns
<1>2. MaxCell \in Nat /\ AM_NULL \in CellPtr
  BY CellNumbers DEF AM_NULL
<1>3. CASE MaxCell = 0
  BY <1>1, <1>2, <1>3 DEF Unrolls
<1>4. CASE MaxCell # 0
  <2>1. MaxCell \in 1 .. MaxCell + 1
    BY <1>2, <1>4
  <2> QED  BY <1>1, <1>2, <2>1 DEF Unrolls
<1> QED  BY <1>3, <1>4

(* Sequences of numbers up to N, with a number at one place at most, and   *)
(* with each at one: so it is where they are put one after the other.      *)
Within(S, N) == \A i \in 1 .. Len(S) : \A k \in 1 .. Len(S[i]) : S[i][k] \in 1 .. N

Once(S) ==
    \A i, j \in 1 .. Len(S) : \A k \in 1 .. Len(S[i]), m \in 1 .. Len(S[j]) :
      S[i][k] = S[j][m] => i = j /\ k = m

Everywhere(S, N) ==
    \A c \in 1 .. N : \E i \in 1 .. Len(S) : \E k \in 1 .. Len(S[i]) : S[i][k] = c

LEMMA FlattenCells ==
  ASSUME NEW S \in Seq(Seq(Cell)), NEW N \in Nat, NEW F, F = FlattenSeq(S),
         Within(S, N), Once(S)
  PROVE  /\ F \in Seq(Cell) /\ Len(F) <= N
         /\ Everywhere(S, N) => Len(F) = N /\ Range(F) = 1 .. N
<1>1. PICK off : Offsets(S, off)
  BY OffsetsExist
<1>2. F \in Seq(Cell) /\ Flattens(F, S, Len(S), off) /\ Len(F) \in Nat
  BY <1>1, FlattenIs
<1>3. \A p \in 1 .. Len(F) : F[p] \in 1 .. N
  <2> SUFFICES ASSUME NEW p \in 1 .. Len(F) PROVE F[p] \in 1 .. N
    OBVIOUS
  <2>1. PICK i \in 1 .. Len(S) : \E k \in 1 .. Len(S[i]) : p = off[i - 1] + k
    BY <1>2 DEF Flattens
  <2>2. PICK k \in 1 .. Len(S[i]) : p = off[i - 1] + k
    BY <2>1
  <2>3. F[p] = S[i][k]
    BY <1>2, <2>2 DEF Flattens
  <2> QED  BY <2>3 DEF Within
<1>4. \A p, q \in 1 .. Len(F) : F[p] = F[q] => p = q
  <2> SUFFICES ASSUME NEW p \in 1 .. Len(F), NEW q \in 1 .. Len(F), F[p] = F[q] PROVE p = q
    OBVIOUS
  <2>1. PICK i \in 1 .. Len(S) : \E k \in 1 .. Len(S[i]) : p = off[i - 1] + k
    BY <1>2 DEF Flattens
  <2>2. PICK k \in 1 .. Len(S[i]) : p = off[i - 1] + k
    BY <2>1
  <2>3. PICK j \in 1 .. Len(S) : \E m \in 1 .. Len(S[j]) : q = off[j - 1] + m
    BY <1>2 DEF Flattens
  <2>4. PICK m \in 1 .. Len(S[j]) : q = off[j - 1] + m
    BY <2>3
  <2>5. F[p] = S[i][k]
    BY <1>2, <2>2 DEF Flattens
  <2>6. F[q] = S[j][m]
    BY <1>2, <2>4 DEF Flattens
  <2>7. S[i][k] = S[j][m]
    BY <2>5, <2>6
  <2>8. i = j /\ k = m
    BY <2>7, SMTT(40) DEF Once
  <2> QED  BY <2>2, <2>4, <2>8
<1>5. Len(F) <= N
  <2> DEFINE f == [p \in 1 .. Len(F) |-> F[p]]
  <2>1. f \in [1 .. Len(F) -> 1 .. N]
    BY <1>3
  <2>2. \A p, q \in 1 .. Len(F) : f[p] = f[q] => p = q
    BY <1>4
  <2> HIDE DEF f
  <2> QED  BY <1>2, <2>1, <2>2, NoMoreThan
<1>6. ASSUME Everywhere(S, N)
      PROVE  Len(F) = N /\ Range(F) = 1 .. N
  <2>1. \A c \in 1 .. N : \E p \in 1 .. Len(F) : F[p] = c
    <3> SUFFICES ASSUME NEW c \in 1 .. N PROVE \E p \in 1 .. Len(F) : F[p] = c
      OBVIOUS
    <3>1. PICK i \in 1 .. Len(S) : \E k \in 1 .. Len(S[i]) : S[i][k] = c
      BY <1>6 DEF Everywhere
    <3>2. PICK k \in 1 .. Len(S[i]) : S[i][k] = c
      BY <3>1
    <3>3. off[i - 1] + k \in 1 .. Len(F) /\ F[off[i - 1] + k] = S[i][k]
      BY <1>2 DEF Flattens
    <3> QED  BY <3>2, <3>3
  <2> DEFINE g == [c \in 1 .. N |-> CHOOSE p \in 1 .. Len(F) : F[p] = c]
  <2>2. \A c \in 1 .. N : g[c] \in 1 .. Len(F) /\ F[g[c]] = c
    BY <2>1
  <2>3. g \in [1 .. N -> 1 .. Len(F)]
    BY <2>2
  <2> HIDE DEF g
  <2>4. \A b, c \in 1 .. N : g[b] = g[c] => b = c
    BY <2>2
  <2>5. N <= Len(F)
    BY <1>2, <2>3, <2>4, NoMoreThan
  <2>6. Len(F) = N
    BY <1>2, <1>5, <2>5
  <2>7. Range(F) = 1 .. N
    <3>1. DOMAIN F = 1 .. Len(F)
      BY <1>2
    <3> QED  BY <1>3, <2>1, <3>1, ZenonT(60) DEF Range
  <2> QED  BY <2>6, <2>7
<1> QED  BY <1>2, <1>5, <1>6

-----------------------------------------------------------------------------
(* A good leaf. *)

FreeCounted(l, d) ==
    l.numinfreeList = IF l.freeListPtr = AM_NULL THEN 0 ELSE d[l.freeListPtr] + 1

GoodLeaf(l) ==
    /\ l \in Leaf
    /\ Ascending(Values(l))
    /\ \A i \in 1 .. Len(l.keys) : l.keys[i].head # AM_NULL
    /\ \E o, d : Lists(l, o, d) /\ FreeCounted(l, d)
    /\ Gap(l) >= 0

(* The types of a leaf's parts. *)
LEMMA LeafParts ==
  ASSUME NEW l \in Leaf
  PROVE  /\ l.keys \in Seq(Entry) /\ Len(l.keys) \in Nat /\ DOMAIN l.keys = 1 .. Len(l.keys)
         /\ \A i \in 1 .. Len(l.keys) :
              l.keys[i] \in Entry /\ l.keys[i].value \in Value /\ l.keys[i].head \in CellPtr
         /\ l.recIdPtr \in CellPtr /\ l.recIdPtr \in Nat /\ l.recIdPtr <= MaxCell
         /\ l.freeListPtr \in CellPtr /\ l.numinfreeList \in CellPtr
         /\ l.numinfreeList \in Nat
         /\ l.recId \in [Cell -> RecId] /\ l.link \in [Cell -> CellPtr]
         /\ l.pageType = "l" /\ l.nextLeafPage \in AM_NULL_PAGE .. MaxPages - 1
         /\ Taken(l) \subseteq Cell
<1>1. l.keys \in Seq(Entry) /\ l.recIdPtr \in CellPtr
  BY DEF Leaf
<1>2. l.freeListPtr \in CellPtr /\ l.numinfreeList \in CellPtr
  BY DEF Leaf
<1>3. l.recId \in [Cell -> RecId] /\ l.link \in [Cell -> CellPtr]
  BY DEF Leaf
<1>4. l.pageType = "l" /\ l.nextLeafPage \in AM_NULL_PAGE .. MaxPages - 1
  BY DEF Leaf
<1>5. Len(l.keys) \in Nat /\ DOMAIN l.keys = 1 .. Len(l.keys)
  BY <1>1
<1>6. \A i \in 1 .. Len(l.keys) :
        l.keys[i] \in Entry /\ l.keys[i].value \in Value /\ l.keys[i].head \in CellPtr
  <2> SUFFICES ASSUME NEW i \in 1 .. Len(l.keys)
               PROVE  l.keys[i] \in Entry /\ l.keys[i].value \in Value /\ l.keys[i].head \in CellPtr
    OBVIOUS
  <2>1. l.keys[i] \in Entry
    BY <1>1, <1>5
  <2> QED  BY <2>1 DEF Entry
<1>7. l.recIdPtr \in Nat /\ l.recIdPtr <= MaxCell
  BY <1>1, CellNumbers
<1>8. l.numinfreeList \in Nat
  BY <1>2, CellNumbers
<1>9. Taken(l) \subseteq Cell
  BY <1>7, CellNumbers DEF Taken
<1> QED  BY <1>1, <1>2, <1>3, <1>4, <1>5, <1>6, <1>7, <1>8, <1>9

LEMMA ValuesAre ==
  ASSUME NEW l \in Leaf
  PROVE  /\ Values(l) \in Seq(Value) /\ Values(l) \in Seq(Int) /\ Len(Values(l)) = Len(l.keys)
         /\ \A i \in 1 .. Len(l.keys) : Values(l)[i] = l.keys[i].value
<1>1. /\ Len(l.keys) \in Nat /\ DOMAIN l.keys = 1 .. Len(l.keys)
      /\ \A i \in 1 .. Len(l.keys) : l.keys[i].value \in Value
  BY LeafParts
<1>2. Value \subseteq Int
  BY AMLeafAssumption
<1>3. Values(l) = [i \in 1 .. Len(l.keys) |-> l.keys[i].value]
  BY <1>1 DEF Values
<1>4. PICK n \in Nat : n = Len(l.keys)
  BY <1>1
<1>5. Values(l) \in [1 .. n -> Value]
  BY <1>1, <1>3, <1>4
<1>6. Values(l) \in Seq(Value) /\ Len(Values(l)) = n
  BY <1>5, <1>4
<1>7. Values(l) \in Seq(Int)
  <2>1. Values(l) \in [1 .. n -> Int]
    BY <1>2, <1>5
  <2> QED  BY <2>1, <1>4
<1> QED  BY <1>3, <1>4, <1>6, <1>7

(* The lists of the keys and, with the number 0, the free list. *)
ListOf(l, i) == ListFrom(l, HeadOf(l, i))

LEMMA ListOfIs ==
  ASSUME NEW l \in Leaf, NEW o, NEW d, Lists(l, o, d), NEW i \in 0 .. Len(l.keys)
  PROVE  /\ ListOf(l, i) \in Seq(Cell)
         /\ HeadOf(l, i) = AM_NULL => ListOf(l, i) = << >>
         /\ HeadOf(l, i) # AM_NULL => /\ Len(ListOf(l, i)) = d[HeadOf(l, i)] + 1
                                      /\ Len(ListOf(l, i)) <= l.recIdPtr
         /\ \A k \in 1 .. Len(ListOf(l, i)) :
              /\ ListOf(l, i)[k] \in Taken(l)
              /\ o[ListOf(l, i)[k]] = i
              /\ d[ListOf(l, i)[k]] = Len(ListOf(l, i)) - k
<1>1. l.link \in [Cell -> CellPtr] /\ l.recIdPtr \in CellPtr /\ d \in [Cell -> Nat] /\ Taken(l) \subseteq Cell
  BY LeafParts DEF Lists
<1>2. CASE HeadOf(l, i) = AM_NULL
  <2>1. ListOf(l, i) = << >>
    BY <1>1, <1>2, NoList DEF ListOf
  <2> QED  BY <1>2, <2>1
<1>3. CASE HeadOf(l, i) # AM_NULL
  <2> DEFINE c == HeadOf(l, i)
             s == ListOf(l, i)
  <2>1. c \in Taken(l) /\ o[c] = i
    BY <1>3 DEF Lists
  <2>2. d[c] \in Nat
    BY <1>1, <2>1
  <2> HIDE DEF c
  <2>3. IsList(l, o, d, c, ListFrom(l, c)) /\ d[c] + 1 <= l.recIdPtr
    BY <1>1, <2>1, ListIs
  <2>4. s = ListFrom(l, c)
    BY DEF ListOf, c
  <2> HIDE DEF s
  <2>5. s \in Seq(Cell) /\ Len(s) = d[c] + 1 /\ Len(s) <= l.recIdPtr
    BY <2>3, <2>4 DEF IsList
  <2>6. ASSUME NEW k \in 1 .. Len(s) PROVE s[k] \in Taken(l) /\ o[s[k]] = i /\ d[s[k]] = Len(s) - k
    <3>1. s[k] \in Taken(l) /\ o[s[k]] = o[c] /\ d[s[k]] = d[c] + 1 - k
      BY <2>3, <2>4 DEF IsList
    <3> QED  BY <2>1, <2>2, <2>5, <3>1
  <2> QED  BY <1>3, <2>5, <2>6 DEF s, c
<1> QED  BY <1>2, <1>3

LEMMA GoodIsSound ==
  ASSUME NEW l, GoodLeaf(l)
  PROVE  LeafSound(l)
<1>1. PICK o, d : Lists(l, o, d) /\ FreeCounted(l, d)
  BY DEF GoodLeaf
<1>2. l \in Leaf
  BY DEF GoodLeaf
<1> DEFINE n == Len(l.keys)
           lists == [i \in DOMAIN l.keys |-> KeyCells(l, i)]
           S == Append(lists, FreeCells(l))
           key(i) == IF i = n + 1 THEN 0 ELSE i
<1>3. n \in Nat /\ DOMAIN l.keys = 1 .. n /\ l.recIdPtr \in Nat
  BY <1>2, LeafParts
<1>4. \A i \in 1 .. n : KeyCells(l, i) = ListOf(l, i) /\ i \in 0 .. n
  BY <1>3 DEF KeyCells, ListOf, HeadOf
<1>5. FreeCells(l) = ListOf(l, 0) /\ 0 \in 0 .. n
  BY <1>3 DEF FreeCells, ListOf, HeadOf
<1>6. \A i \in 0 .. n : ListOf(l, i) \in Seq(Cell)
  BY <1>1, <1>2, ListOfIs
<1>7. lists \in Seq(Seq(Cell)) /\ Len(lists) = n /\ \A i \in 1 .. n : lists[i] = ListOf(l, i)
  <2>1. lists = [i \in 1 .. n |-> KeyCells(l, i)]
    BY <1>3
  <2>2. \A i \in 1 .. n : lists[i] = ListOf(l, i) /\ lists[i] \in Seq(Cell)
    BY <2>1, <1>4, <1>6
  <2>3. lists \in [1 .. n -> Seq(Cell)]
    BY <2>1, <2>2
  <2> HIDE DEF lists, n
  <2> QED  BY <1>3, <2>2, <2>3
<1>8. S \in Seq(Seq(Cell)) /\ Len(S) = n + 1 /\ \A i \in 1 .. n + 1 : S[i] = ListOf(l, key(i)) /\ key(i) \in 0 .. n
  <2>1. ListOf(l, 0) \in Seq(Cell)
    BY <1>5, <1>6
  <2>2. S = Append(lists, ListOf(l, 0))
    BY <1>5
  <2> HIDE DEF lists, n, S
  <2>3. S \in Seq(Seq(Cell)) /\ Len(S) = n + 1 /\ S[n + 1] = ListOf(l, 0)
    BY <1>3, <1>7, <2>1, <2>2
  <2>4. \A i \in 1 .. n : S[i] = lists[i]
    BY <1>3, <1>7, <2>1, <2>2
  <2>5. \A i \in 1 .. n + 1 : i # n + 1 => i \in 1 .. n
    BY <1>3
  <2> QED  BY <1>3, <1>4, <1>5, <1>7, <2>3, <2>4, <2>5
<1> HIDE DEF S
<1>9. \A i \in 1 .. Len(S) : \A k \in 1 .. Len(S[i]) :
        S[i][k] \in Taken(l) /\ o[S[i][k]] = key(i) /\ d[S[i][k]] = Len(S[i]) - k
  <2> SUFFICES ASSUME NEW i \in 1 .. Len(S)
               PROVE  \A k \in 1 .. Len(S[i]) :
                        S[i][k] \in Taken(l) /\ o[S[i][k]] = key(i) /\ d[S[i][k]] = Len(S[i]) - k
    OBVIOUS
  <2>1. S[i] = ListOf(l, key(i)) /\ key(i) \in 0 .. n
    BY <1>8
  <2>2. PICK j \in 0 .. Len(l.keys) : j = key(i)
    BY <2>1
  <2>3. \A k \in 1 .. Len(ListOf(l, j)) :
          /\ ListOf(l, j)[k] \in Taken(l) /\ o[ListOf(l, j)[k]] = j
          /\ d[ListOf(l, j)[k]] = Len(ListOf(l, j)) - k
    BY <1>1, <1>2, ListOfIs
  <2> HIDE DEF key, n
  <2> QED  BY <2>1, <2>2, <2>3
<1>10. \A i, j \in 1 .. Len(S) : key(i) = key(j) => i = j
  BY <1>3, <1>8
<1>11. \A i \in 1 .. Len(S) : Len(S[i]) \in Nat
  BY <1>8
<1>12. Once(S)
  <2> SUFFICES ASSUME NEW i \in 1 .. Len(S), NEW j \in 1 .. Len(S),
                      NEW k \in 1 .. Len(S[i]), NEW m \in 1 .. Len(S[j]), S[i][k] = S[j][m]
               PROVE  i = j /\ k = m
    BY DEF Once
  <2>1. key(i) = key(j)
    <3>1. o[S[i][k]] = key(i) /\ o[S[j][m]] = key(j)
      BY <1>9
    <3> HIDE DEF key
    <3> QED  BY <3>1
  <2>2. i = j
    BY <1>10, <2>1
  <2>3. Len(S[i]) - k = Len(S[i]) - m
    <3>1. d[S[i][k]] = Len(S[i]) - k
      BY <1>9
    <3>2. d[S[j][m]] = Len(S[j]) - m
      BY <1>9
    <3> QED  BY <2>2, <3>1, <3>2
  <2> QED  BY <1>11, <2>2, <2>3
<1>13. Everywhere(S, l.recIdPtr)
  <2> SUFFICES ASSUME NEW c \in 1 .. l.recIdPtr
               PROVE  \E i \in 1 .. Len(S) : \E k \in 1 .. Len(S[i]) : S[i][k] = c
    BY DEF Everywhere
  <2>1. c \in Taken(l) /\ c \in Cell
    BY <1>2, LeafParts DEF Taken
  <2>2. /\ o[c] \in 0 .. n /\ HeadOf(l, o[c]) # AM_NULL /\ d[c] <= d[HeadOf(l, o[c])]
        /\ d[c] \in Nat /\ HeadOf(l, o[c]) \in Taken(l)
    <3>1. o \in [Cell -> Nat] /\ d \in [Cell -> Nat]
      BY <1>1 DEF Lists
    <3>2. o[c] \in 0 .. n
      <4>1. \A b \in Taken(l) : o[b] <= Len(l.keys)
        BY <1>1 DEF Lists
      <4>2. o[c] \in Nat
        BY <2>1, <3>1
      <4>3. o[c] <= n
        BY <2>1, <4>1
      <4> HIDE DEF n
      <4> QED  BY <1>3, <4>2, <4>3
    <3>3. HeadOf(l, o[c]) # AM_NULL /\ d[c] <= d[HeadOf(l, o[c])]
      BY <1>1, <2>1 DEF Lists
    <3>4. HeadOf(l, o[c]) \in Taken(l)
      BY <1>1, <3>2, <3>3 DEF Lists
    <3> QED  BY <2>1, <3>1, <3>2, <3>3, <3>4
  <2>3. PICK i \in 1 .. Len(S) : key(i) = o[c]
    <3>1. CASE o[c] = 0
      BY <1>3, <1>8, <3>1
    <3>2. CASE o[c] # 0
      <4>1. o[c] \in 1 .. n /\ o[c] # n + 1
        BY <1>3, <2>2, <3>2
      <4> QED  BY <1>3, <1>8, <4>1, SMTT(40)
    <3> QED  BY <3>1, <3>2
  <2>4. S[i] = ListOf(l, o[c])
    BY <1>8, <2>3
  <2> HIDE DEF key, n
  <2>5. Len(S[i]) = d[HeadOf(l, o[c])] + 1 /\ d[HeadOf(l, o[c])] \in Nat
    <3>1. d \in [Cell -> Nat] /\ Taken(l) \subseteq Cell
      BY <1>1, <1>2, LeafParts DEF Lists
    <3>2. Len(ListOf(l, o[c])) = d[HeadOf(l, o[c])] + 1
      BY <1>1, <1>2, <2>2, ListOfIs DEF n
    <3> QED  BY <2>2, <2>4, <3>1, <3>2
  <2>6. PICK k \in 1 .. Len(S[i]) : k = Len(S[i]) - d[c]
    <3>1. Len(S[i]) - d[c] \in 1 .. Len(S[i])
      BY <2>2, <2>5, SMTT(40)
    <3> QED  BY <3>1
  <2>7. S[i][k] \in Taken(l) /\ o[S[i][k]] = o[c] /\ d[S[i][k]] = d[c]
    <3>1. S[i][k] \in Taken(l) /\ o[S[i][k]] = key(i) /\ d[S[i][k]] = Len(S[i]) - k
      BY <1>9
    <3> QED  BY <2>2, <2>3, <2>5, <2>6, <3>1, SMTT(40)
  <2>8. S[i][k] = c
    BY <1>1, <2>1, <2>7 DEF Lists
  <2> QED  BY <2>8
<1> DEFINE all == FlattenSeq(S)
<1>14. Len(all) = l.recIdPtr /\ Range(all) = 1 .. l.recIdPtr
  <2>1. Within(S, l.recIdPtr)
    BY <1>9 DEF Taken, Within
  <2>2. S \in Seq(Seq(Cell)) /\ l.recIdPtr \in Nat
    BY <1>3, <1>8
  <2> HIDE DEF key, n, lists
  <2>3. \A F : F = FlattenSeq(S) => Len(F) = l.recIdPtr /\ Range(F) = 1 .. l.recIdPtr
    BY <1>12, <1>13, <2>1, <2>2, FlattenCells
  <2> QED  BY <2>3
<1>15. \A i \in 1 .. n - 1 : l.keys[i].value < l.keys[i + 1].value
  <2> SUFFICES ASSUME NEW i \in 1 .. n - 1 PROVE l.keys[i].value < l.keys[i + 1].value
    OBVIOUS
  <2>1. i \in 1 .. n /\ i + 1 \in 1 .. n /\ i < i + 1
    BY <1>3
  <2>2. Ascending(Values(l)) /\ Len(Values(l)) = n
    BY <1>2, ValuesAre DEF GoodLeaf
  <2>3. Values(l)[i] < Values(l)[i + 1]
    BY <2>1, <2>2 DEF Ascending
  <2> QED  BY <1>2, <2>1, <2>3, ValuesAre
<1>16. \A i \in DOMAIN lists : lists[i] # << >>
  <2> SUFFICES ASSUME NEW i \in 1 .. n PROVE lists[i] # << >>
    BY <1>3
  <2>1. HeadOf(l, i) # AM_NULL /\ i \in 0 .. n
    BY <1>3, <1>4 DEF GoodLeaf, HeadOf
  <2>2. Len(ListOf(l, i)) = d[HeadOf(l, i)] + 1
    BY <1>1, <1>2, <2>1, ListOfIs
  <2>3. d[HeadOf(l, i)] \in Nat
    <3>1. HeadOf(l, i) \in Taken(l) /\ d \in [Cell -> Nat] /\ Taken(l) \subseteq Cell
      BY <1>1, <1>2, <2>1, LeafParts DEF Lists
    <3> QED  BY <3>1
  <2>4. ListOf(l, i) # << >>
    BY <2>2, <2>3
  <2> HIDE DEF lists
  <2> QED  BY <1>7, <2>4
<1>17. l.numinfreeList = Len(FreeCells(l))
  <2>1. HeadOf(l, 0) = l.freeListPtr
    BY DEF HeadOf
  <2>2. l.freeListPtr = AM_NULL => ListOf(l, 0) = << >>
    BY <1>1, <1>2, <1>5, <2>1, ListOfIs
  <2>3. l.freeListPtr # AM_NULL => Len(ListOf(l, 0)) = d[l.freeListPtr] + 1
    BY <1>1, <1>2, <1>5, <2>1, ListOfIs
  <2> QED  BY <1>1, <1>5, <2>2, <2>3 DEF FreeCounted
<1>18. Gap(l) >= 0
  BY DEF GoodLeaf
<1> HIDE DEF lists, n
<1> QED  BY <1>14, <1>15, <1>16, <1>17, <1>18 DEF LeafSound, lists, n, S

-----------------------------------------------------------------------------
(* Cells change lists. *)

(* A cell that was never taken goes to the head of key i's list. *)
TakesNew(l, m, o, d, i, c) ==
    /\ Lists(l, o, d) /\ l.link \in [Cell -> CellPtr]
    /\ Len(l.keys) \in Nat /\ Len(m.keys) = Len(l.keys) /\ i \in 1 .. Len(l.keys)
    /\ l.recIdPtr \in Nat /\ Taken(l) \subseteq Cell
    /\ c \in Cell /\ c = l.recIdPtr + 1 /\ m.recIdPtr = c
    /\ m.link = [l.link EXCEPT ![c] = HeadOf(l, i)]
    /\ HeadOf(m, i) = c
    /\ \A j \in 0 .. Len(l.keys) : j # i => HeadOf(m, j) = HeadOf(l, j)

LEMMA TakeNew ==
  ASSUME NEW l, NEW m, NEW o, NEW d, NEW i, NEW c, TakesNew(l, m, o, d, i, c)
  PROVE  \E o2, d2 : Lists(m, o2, d2) /\ \A b \in Taken(l) : d2[b] = d[b]
<1> DEFINE h == HeadOf(l, i)
           o2 == [o EXCEPT ![c] = i]
           d2 == [d EXCEPT ![c] = IF HeadOf(l, i) = AM_NULL THEN 0 ELSE d[HeadOf(l, i)] + 1]
<1>0. PICK n \in Nat : n = Len(l.keys) /\ n = Len(m.keys)
  BY DEF TakesNew
<1>00. /\ Lists(l, o, d) /\ l.link \in [Cell -> CellPtr] /\ i \in 1 .. n
       /\ l.recIdPtr \in Nat /\ Taken(l) \subseteq Cell
       /\ c \in Cell /\ c = l.recIdPtr + 1 /\ m.recIdPtr = c
       /\ m.link = [l.link EXCEPT ![c] = HeadOf(l, i)]
       /\ HeadOf(m, i) = c /\ \A j \in 0 .. n : j # i => HeadOf(m, j) = HeadOf(l, j)
  BY <1>0 DEF TakesNew
<1> USE <1>0, <1>00
<1>1. o \in [Cell -> Nat] /\ d \in [Cell -> Nat] /\ i \in 0 .. n /\ i \in Nat
  BY DEF Lists
<1>2. /\ \A b \in Taken(m) : b = c \/ b \in Taken(l)
      /\ c \notin Taken(l) /\ c \in Taken(m) /\ \A b \in Taken(l) : b \in Taken(m)
      /\ c # AM_NULL
  BY CellNumbers DEF Taken, AM_NULL
<1>3. h # AM_NULL => h \in Taken(l) /\ o[h] = i /\ d[h] \in Nat
  BY <1>1 DEF Lists
<1>4. /\ o2 \in [Cell -> Nat] /\ d2 \in [Cell -> Nat]
      /\ o2[c] = i /\ d2[c] = IF h = AM_NULL THEN 0 ELSE d[h] + 1
      /\ \A b \in Taken(l) : o2[b] = o[b] /\ d2[b] = d[b] /\ m.link[b] = l.link[b]
      /\ m.link[c] = h
  <2>1. (IF h = AM_NULL THEN 0 ELSE d[h] + 1) \in Nat
    BY <1>3
  <2>2. o2 \in [Cell -> Nat] /\ o2[c] = i /\ \A b \in Taken(l) : o2[b] = o[b]
    BY <1>1, <1>2
  <2>3. /\ d2 \in [Cell -> Nat] /\ d2[c] = IF h = AM_NULL THEN 0 ELSE d[h] + 1
        /\ \A b \in Taken(l) : d2[b] = d[b]
    BY <1>1, <1>2, <2>1
  <2>4. m.link[c] = h /\ \A b \in Taken(l) : m.link[b] = l.link[b]
    BY <1>2
  <2> QED  BY <2>2, <2>3, <2>4
<1>5. \A b \in Taken(l) : o[b] = i => h # AM_NULL /\ d[b] <= d[h] /\ d[b] \in Nat
  BY <1>1 DEF Lists
<1> HIDE DEF h, o2, d2
<1>6. ASSUME NEW b \in Taken(m)
      PROVE  /\ o2[b] <= n
             /\ HeadOf(m, o2[b]) # AM_NULL /\ d2[b] <= d2[HeadOf(m, o2[b])]
             /\ m.link[b] = AM_NULL => d2[b] = 0
             /\ m.link[b] # AM_NULL =>
                  m.link[b] \in Taken(m) /\ o2[m.link[b]] = o2[b] /\ d2[b] = d2[m.link[b]] + 1
  <2>1. CASE b = c
    <3>1. o2[b] <= n /\ HeadOf(m, o2[b]) = c /\ m.link[b] = h
      BY <1>4, <2>1
    <3>2. d2[b] \in Nat
      BY <1>4, <2>1
    <3>3. h # AM_NULL => h \in Taken(m) /\ o2[h] = i /\ d2[h] = d[h]
      BY <1>2, <1>3, <1>4
    <3> QED  BY <1>2, <1>3, <1>4, <2>1, <3>1, <3>2, <3>3
  <2>2. CASE b \in Taken(l)
    <3>1. o2[b] = o[b] /\ d2[b] = d[b] /\ m.link[b] = l.link[b] /\ o[b] \in 0 .. n
      <4>1. o[b] <= n
        BY <2>2 DEF Lists
      <4>2. o[b] \in Nat
        BY <1>1, <2>2
      <4> QED  BY <1>4, <2>2, <4>1, <4>2
    <3>2. HeadOf(m, o2[b]) # AM_NULL /\ d2[b] <= d2[HeadOf(m, o2[b])]
      <4>1. CASE o[b] = i
        BY <1>2, <1>3, <1>4, <1>5, <2>2, <3>1, <4>1
      <4>2. CASE o[b] # i
        <5>1. HeadOf(m, o[b]) = HeadOf(l, o[b])
          BY <3>1, <4>2
        <5>2. HeadOf(l, o[b]) # AM_NULL /\ d[b] <= d[HeadOf(l, o[b])]
          BY <2>2 DEF Lists
        <5>3. HeadOf(l, o[b]) \in Taken(l)
          BY <3>1, <5>2 DEF Lists
        <5> QED  BY <1>4, <3>1, <5>1, <5>2, <5>3
      <4> QED  BY <4>1, <4>2
    <3>3. m.link[b] = AM_NULL => d2[b] = 0
      BY <2>2, <3>1 DEF Lists
    <3>4. m.link[b] # AM_NULL =>
            m.link[b] \in Taken(m) /\ o2[m.link[b]] = o2[b] /\ d2[b] = d2[m.link[b]] + 1
      <4>1. l.link[b] # AM_NULL =>
              l.link[b] \in Taken(l) /\ o[l.link[b]] = o[b] /\ d[b] = d[l.link[b]] + 1
        BY <2>2 DEF Lists
      <4>2. l.link[b] # AM_NULL =>
              /\ l.link[b] \in Taken(m) /\ o2[l.link[b]] = o[l.link[b]]
              /\ d2[l.link[b]] = d[l.link[b]]
        BY <1>2, <1>4, <4>1
      <4> QED  BY <3>1, <4>1, <4>2
    <3> QED  BY <3>1, <3>2, <3>3, <3>4
  <2> QED  BY <1>2, <2>1, <2>2
<1>7. ASSUME NEW j \in 0 .. n, HeadOf(m, j) # AM_NULL
      PROVE  HeadOf(m, j) \in Taken(m) /\ o2[HeadOf(m, j)] = j
  <2>1. CASE j = i
    BY <1>2, <1>4, <2>1
  <2>2. CASE j # i
    <3>1. HeadOf(l, j) \in Taken(l) /\ o[HeadOf(l, j)] = j /\ HeadOf(m, j) = HeadOf(l, j)
      BY <1>7, <2>2 DEF Lists
    <3> QED  BY <1>2, <1>4, <3>1
  <2> QED  BY <2>1, <2>2
<1>8. ASSUME NEW a \in Taken(m), NEW b \in Taken(m), o2[a] = o2[b], d2[a] = d2[b]
      PROVE  a = b
  <2>1. \A e \in Taken(l) : o[e] = i => d[e] # d2[c]
    BY <1>3, <1>4, <1>5
  <2>2. CASE a = c \/ b = c
    BY <1>2, <1>4, <1>8, <2>1, <2>2
  <2>3. CASE a \in Taken(l) /\ b \in Taken(l)
    BY <1>4, <1>8, <2>3 DEF Lists
  <2> QED  BY <1>2, <2>2, <2>3
<1>9. Lists(m, o2, d2)
  BY <1>4, <1>6, <1>7, <1>8, SMTT(40) DEF Lists
<1> QED  BY <1>4, <1>9

(* Cell c goes from the list of key i to the head of that of key j. *)
Moves(l, m, o, d, i, j, c) ==
    /\ Lists(l, o, d)
    /\ Len(l.keys) \in Nat /\ Len(m.keys) = Len(l.keys)
    /\ i \in 0 .. Len(l.keys) /\ j \in 0 .. Len(l.keys) /\ i # j
    /\ c \in Taken(l) /\ o[c] = i
    /\ l.recIdPtr \in Nat /\ Taken(l) \subseteq Cell /\ m.recIdPtr = l.recIdPtr
    /\ m.link[c] = HeadOf(l, j)
    /\ \A b \in Taken(l) : b # c => m.link[b] = IF l.link[b] = c THEN l.link[c] ELSE l.link[b]
    /\ HeadOf(m, j) = c
    /\ HeadOf(m, i) = IF HeadOf(l, i) = c THEN l.link[c] ELSE HeadOf(l, i)
    /\ \A k \in 0 .. Len(l.keys) : k # i /\ k # j => HeadOf(m, k) = HeadOf(l, k)

DepthMoved(l, o, d, c, j) ==
    [b \in Cell |->
       IF b = c THEN IF HeadOf(l, j) = AM_NULL THEN 0 ELSE d[HeadOf(l, j)] + 1
       ELSE IF b \in Taken(l) /\ o[b] = o[c] /\ d[b] > d[c] THEN d[b] - 1
       ELSE d[b]]

LEMMA MoveCell ==
  ASSUME NEW l, NEW m, NEW o, NEW d, NEW i, NEW j, NEW c, Moves(l, m, o, d, i, j, c)
  PROVE  \E o2, d2 :
           /\ Lists(m, o2, d2)
           /\ d2[c] = IF HeadOf(l, j) = AM_NULL THEN 0 ELSE d[HeadOf(l, j)] + 1
           /\ \A b \in Taken(l) : b # c /\ d[b] <= d[c] => d2[b] = d[b]
<1> DEFINE o2 == [o EXCEPT ![c] = j]
           d2 == DepthMoved(l, o, d, c, j)
<1>0. PICK n \in Nat : n = Len(l.keys) /\ n = Len(m.keys)
  BY DEF Moves
<1>00. /\ Lists(l, o, d)
       /\ i \in 0 .. n /\ j \in 0 .. n /\ i # j
       /\ c \in Taken(l) /\ o[c] = i
       /\ l.recIdPtr \in Nat /\ Taken(l) \subseteq Cell /\ m.recIdPtr = l.recIdPtr
       /\ m.link[c] = HeadOf(l, j)
       /\ \A b \in Taken(l) : b # c => m.link[b] = IF l.link[b] = c THEN l.link[c] ELSE l.link[b]
       /\ HeadOf(m, j) = c
       /\ HeadOf(m, i) = IF HeadOf(l, i) = c THEN l.link[c] ELSE HeadOf(l, i)
       /\ \A k \in 0 .. n : k # i /\ k # j => HeadOf(m, k) = HeadOf(l, k)
  BY <1>0 DEF Moves
<1> USE <1>0, <1>00
<1> DEFINE h == HeadOf(l, j)
           g == HeadOf(l, i)
           e == l.link[c]
<1>1. o \in [Cell -> Nat] /\ d \in [Cell -> Nat] /\ i \in Nat /\ j \in Nat
  BY DEF Lists
<1>2. Taken(m) = Taken(l) /\ c \in Cell /\ c # AM_NULL /\ \A b \in Taken(l) : b # AM_NULL
  BY CellNumbers DEF Taken, AM_NULL
<1>3. \A b \in Taken(l) : b \in Cell /\ o[b] \in Nat /\ d[b] \in Nat /\ o[b] \in 0 .. n
  <2> SUFFICES ASSUME NEW b \in Taken(l)
               PROVE  b \in Cell /\ o[b] \in Nat /\ d[b] \in Nat /\ o[b] \in 0 .. n
    OBVIOUS
  <2>1. b \in Cell /\ o[b] \in Nat /\ d[b] \in Nat
    BY <1>1
  <2>2. o[b] <= n
    BY SMTT(40) DEF Lists
  <2> QED  BY <2>1, <2>2
<1>4. h # AM_NULL => h \in Taken(l) /\ o[h] = j /\ h # c
  BY DEF Lists
<1>5. g # AM_NULL /\ g \in Taken(l) /\ o[g] = i /\ d[c] <= d[g]
  BY DEF Lists
<1>6. \A b \in Taken(l) : /\ l.link[b] = AM_NULL => d[b] = 0
                          /\ l.link[b] # AM_NULL => /\ l.link[b] \in Taken(l)
                                                    /\ o[l.link[b]] = o[b]
                                                    /\ d[b] = d[l.link[b]] + 1
  BY DEF Lists
<1>7. \A a, b \in Taken(l) : o[a] = o[b] /\ d[a] = d[b] => a = b
  BY DEF Lists
<1>8. \A b \in Taken(l) : /\ HeadOf(l, o[b]) # AM_NULL /\ HeadOf(l, o[b]) \in Taken(l)
                          /\ d[b] <= d[HeadOf(l, o[b])] /\ o[HeadOf(l, o[b])] = o[b]
  BY <1>3 DEF Lists
<1>9. \A k \in 0 .. n : HeadOf(l, k) # AM_NULL =>
        HeadOf(l, k) \in Taken(l) /\ o[HeadOf(l, k)] = k
  BY DEF Lists
<1>10. /\ o2 \in [Cell -> Nat] /\ o2[c] = j /\ \A b \in Taken(l) : b # c => o2[b] = o[b]
  BY <1>1, <1>2
<1>11. (IF h = AM_NULL THEN 0 ELSE d[h] + 1) \in Nat
  BY <1>3, <1>4
<1>12. /\ d2[c] = IF h = AM_NULL THEN 0 ELSE d[h] + 1
       /\ \A b \in Taken(l) : b # c => d2[b] = IF o[b] = i /\ d[b] > d[c] THEN d[b] - 1 ELSE d[b]
  BY <1>2, <1>3 DEF DepthMoved
<1>13. d2 \in [Cell -> Nat]
  <2> SUFFICES ASSUME NEW b \in Cell
               PROVE  (IF b = c THEN IF h = AM_NULL THEN 0 ELSE d[h] + 1
                       ELSE IF b \in Taken(l) /\ o[b] = o[c] /\ d[b] > d[c] THEN d[b] - 1
                       ELSE d[b]) \in Nat
    BY DEF DepthMoved
  <2>1. d[b] \in Nat /\ d[c] \in Nat
    BY <1>1, <1>2
  <2>2. d[b] > d[c] => d[b] - 1 \in Nat
    BY <2>1
  <2> HIDE DEF h
  <2> QED  BY <1>11, <2>1, <2>2
<1>14. e # AM_NULL => e \in Taken(l) /\ o[e] = i /\ d[c] = d[e] + 1 /\ e # c
  <2>1. e # AM_NULL => e \in Taken(l) /\ o[e] = i /\ d[c] = d[e] + 1
    BY <1>6
  <2>2. d[c] \in Nat
    BY <1>3
  <2> HIDE DEF e
  <2> QED  BY <2>1, <2>2
<1>15. e = AM_NULL => d[c] = 0
  BY <1>6
<1>16. \A b \in Taken(l) : l.link[b] = c => o[b] = i /\ d[b] = d[c] + 1 /\ b # c
  <2> SUFFICES ASSUME NEW b \in Taken(l), l.link[b] = c PROVE o[b] = i /\ d[b] = d[c] + 1 /\ b # c
    OBVIOUS
  <2>1. o[b] = i /\ d[b] = d[c] + 1 /\ d[c] \in Nat
    BY <1>2, <1>3, <1>6
  <2>2. d[b] # d[c]
    BY <2>1
  <2> QED  BY <2>1, <2>2
<1> HIDE DEF h, g, e, o2, d2
<1>17. ASSUME NEW b \in Taken(l)
       PROVE  /\ o2[b] <= n
              /\ HeadOf(m, o2[b]) # AM_NULL /\ d2[b] <= d2[HeadOf(m, o2[b])]
  <2>1. CASE b = c
    <3>1. d2[c] \in Nat
      BY <1>2, <1>13
    <3> QED  BY <1>2, <1>10, <2>1, <3>1
  <2>2. CASE b # c /\ o[b] = i
    <3>1. o2[b] = i /\ d[b] <= d[g] /\ d[b] \in Nat /\ d[c] \in Nat /\ d[g] \in Nat /\ d[b] # d[c]
      BY <1>3, <1>5, <1>7, <1>8, <1>10, <2>2 DEF g
    <3>2. d2[b] = IF d[b] > d[c] THEN d[b] - 1 ELSE d[b]
      BY <1>12, <2>2
    <3>3. CASE g = c
      <4>1. d[b] < d[c]
        BY <3>1, <3>3
      <4>2. e # AM_NULL /\ e \in Taken(l) /\ o[e] = i /\ d[c] = d[e] + 1 /\ e # c /\ d[e] \in Nat
        BY <1>3, <1>14, <1>15, <3>1, <4>1
      <4>3. HeadOf(m, i) = e
        BY <3>3 DEF g, e
      <4>4. d2[e] = d[e] /\ d2[b] = d[b]
        <5>1. ~(d[e] > d[c]) /\ ~(d[b] > d[c])
          BY <3>1, <4>1, <4>2
        <5> QED  BY <1>12, <3>2, <4>2, <5>1
      <4> QED  BY <3>1, <4>1, <4>2, <4>3, <4>4
    <3>4. CASE g # c
      <4>1. HeadOf(m, i) = g
        BY <3>4 DEF g
      <4>2. d[g] # d[c]
        BY <1>5, <1>7, <3>4
      <4>3. d[g] > d[c]
        BY <1>5, <3>1, <4>2
      <4>4. d2[g] = d[g] - 1
        BY <1>5, <1>12, <3>4, <4>3
      <4>5. d2[b] <= d2[g]
        BY <3>1, <3>2, <4>3, <4>4
      <4> QED  BY <1>5, <3>1, <4>1, <4>5
    <3> QED  BY <3>3, <3>4
  <2>3. CASE b # c /\ o[b] # i
    <3>1. o2[b] = o[b] /\ d2[b] = d[b] /\ o[b] \in 0 .. n /\ d[b] \in Nat
      BY <1>3, <1>10, <1>12, <2>3
    <3>2. CASE o[b] = j
      <4>1. h # AM_NULL /\ d[b] <= d[h] /\ h \in Taken(l)
        BY <1>8, <3>2 DEF h
      <4>2. HeadOf(m, o2[b]) = c /\ d2[c] = d[h] + 1 /\ d[h] \in Nat
        BY <1>3, <1>12, <3>1, <3>2, <4>1
      <4> QED  BY <1>2, <3>1, <4>1, <4>2
    <3>3. CASE o[b] # j
      <4>1. HeadOf(m, o2[b]) = HeadOf(l, o[b])
        BY <2>3, <3>1, <3>3
      <4>2. /\ HeadOf(l, o[b]) # AM_NULL /\ HeadOf(l, o[b]) \in Taken(l)
            /\ d[b] <= d[HeadOf(l, o[b])] /\ o[HeadOf(l, o[b])] = o[b]
        BY <1>8
      <4>3. d2[HeadOf(l, o[b])] = d[HeadOf(l, o[b])]
        BY <1>12, <2>3, <4>2
      <4> QED  BY <3>1, <4>1, <4>2, <4>3
    <3> QED  BY <3>2, <3>3
  <2> QED  BY <2>1, <2>2, <2>3
<1>18. ASSUME NEW b \in Taken(l)
       PROVE  /\ m.link[b] = AM_NULL => d2[b] = 0
              /\ m.link[b] # AM_NULL =>
                   m.link[b] \in Taken(l) /\ o2[m.link[b]] = o2[b] /\ d2[b] = d2[m.link[b]] + 1
  <2>1. CASE b = c
    <3>1. m.link[b] = h
      BY <2>1 DEF h
    <3>2. CASE h = AM_NULL
      BY <1>12, <2>1, <3>1, <3>2
    <3>3. CASE h # AM_NULL
      <4>1. h \in Taken(l) /\ o2[h] = j /\ d2[h] = d[h] /\ d2[c] = d[h] + 1
        BY <1>4, <1>10, <1>12, <3>3
      <4> QED  BY <1>10, <2>1, <3>1, <3>3, <4>1
    <3> QED  BY <3>2, <3>3
  <2>2. CASE b # c /\ l.link[b] = c
    <3>1. m.link[b] = e /\ o[b] = i /\ o2[b] = i /\ d[b] = d[c] + 1 /\ d[c] \in Nat
      BY <1>3, <1>10, <1>16, <2>2 DEF e
    <3>2. d2[b] = d[c]
      BY <1>12, <2>2, <3>1, SMTT(40)
    <3>3. CASE e = AM_NULL
      BY <1>15, <3>1, <3>2, <3>3
    <3>4. CASE e # AM_NULL
      <4>1. e \in Taken(l) /\ o2[e] = i /\ d[c] = d[e] + 1 /\ e # c /\ d[e] \in Nat
        BY <1>3, <1>10, <1>14, <3>4
      <4>2. ~(d[e] > d[c])
        BY <4>1
      <4>3. d2[e] = d[e]
        BY <1>12, <4>1, <4>2
      <4> QED  BY <3>1, <3>2, <3>4, <4>1, <4>3
    <3> QED  BY <3>3, <3>4
  <2>3. CASE b # c /\ l.link[b] # c
    <3> DEFINE f == l.link[b]
    <3>1. m.link[b] = f /\ o2[b] = o[b] /\ d[b] \in Nat /\ d[c] \in Nat
      BY <1>3, <1>10, <2>3
    <3>2. d2[b] = IF o[b] = i /\ d[b] > d[c] THEN d[b] - 1 ELSE d[b]
      BY <1>12, <2>3
    <3>3. CASE f = AM_NULL
      <4>1. d[b] = 0
        BY <1>6, <3>3
      <4> QED  BY <3>1, <3>2, <3>3, <4>1
    <3>4. CASE f # AM_NULL
      <4>1. f \in Taken(l) /\ o[f] = o[b] /\ d[b] = d[f] + 1 /\ f # c
        BY <1>6, <2>3, <3>4
      <4> HIDE DEF f
      <4>2. d2[f] = IF o[f] = i /\ d[f] > d[c] THEN d[f] - 1 ELSE d[f]
        BY <1>12, <4>1
      <4>3. d[f] \in Nat /\ (o[f] = i => d[f] # d[c])
        BY <1>3, <1>7, <4>1
      <4>4. d2[b] = d2[f] + 1
        BY <3>1, <3>2, <4>1, <4>2, <4>3
      <4>5. o2[f] = o2[b]
        BY <1>10, <3>1, <4>1
      <4> QED  BY <3>1, <3>4, <4>1, <4>4, <4>5
    <3> QED  BY <3>3, <3>4
  <2> QED  BY <2>1, <2>2, <2>3
<1>19. ASSUME NEW k \in 0 .. n, HeadOf(m, k) # AM_NULL
       PROVE  HeadOf(m, k) \in Taken(l) /\ o2[HeadOf(m, k)] = k
  <2>1. CASE k = j
    BY <1>10, <2>1
  <2>2. CASE k = i
    <3>1. HeadOf(m, k) = IF g = c THEN e ELSE g
      BY <2>2 DEF g, e
    <3> QED  BY <1>5, <1>10, <1>14, <1>19, <2>2, <3>1
  <2>3. CASE k # i /\ k # j
    <3>1. HeadOf(m, k) = HeadOf(l, k)
      BY <2>3
    <3>2. HeadOf(l, k) \in Taken(l) /\ o[HeadOf(l, k)] = k
      BY <1>9, <1>19, <3>1
    <3> QED  BY <1>10, <2>3, <3>1, <3>2
  <2> QED  BY <2>1, <2>2, <2>3
<1>20. ASSUME NEW a \in Taken(l), NEW b \in Taken(l), o2[a] = o2[b], d2[a] = d2[b]
       PROVE  a = b
  <2>1. ASSUME NEW b1 \in Taken(l), b1 # c, o2[b1] = j PROVE d2[b1] # d2[c]
    <3>1. o[b1] = j /\ d2[b1] = d[b1] /\ d[b1] \in Nat
      BY <1>3, <1>10, <1>12, <2>1
    <3>2. h # AM_NULL /\ d[b1] <= d[h] /\ h \in Taken(l)
      BY <1>8, <3>1 DEF h
    <3>3. d2[c] = d[h] + 1 /\ d[h] \in Nat
      BY <1>3, <1>12, <3>2
    <3> QED  BY <3>1, <3>2, <3>3
  <2>2. CASE a = c \/ b = c
    BY <1>10, <1>20, <2>1, <2>2
  <2>3. CASE a # c /\ b # c
    <3>1. o[a] = o[b]
      BY <1>10, <1>20, <2>3
    <3>2. CASE o[a] # i
      BY <1>7, <1>12, <1>20, <2>3, <3>1, <3>2
    <3>3. CASE o[a] = i
      <4>1. /\ d[a] # d[c] /\ d[b] # d[c] /\ d[a] \in Nat /\ d[b] \in Nat /\ d[c] \in Nat
        BY <1>3, <1>7, <2>3, <3>1, <3>3
      <4>2. /\ d2[a] = IF d[a] > d[c] THEN d[a] - 1 ELSE d[a]
            /\ d2[b] = IF d[b] > d[c] THEN d[b] - 1 ELSE d[b]
        BY <1>12, <2>3, <3>1, <3>3
      <4>3. \A x, y, z \in Nat : /\ x # z /\ y # z
                                 /\ (IF x > z THEN x - 1 ELSE x) = (IF y > z THEN y - 1 ELSE y)
                                 => x = y
        OBVIOUS
      <4>4. (IF d[a] > d[c] THEN d[a] - 1 ELSE d[a]) = (IF d[b] > d[c] THEN d[b] - 1 ELSE d[b])
        BY <1>20, <4>2
      <4>5. d[a] = d[b]
        BY <4>1, <4>3, <4>4
      <4> QED  BY <1>7, <3>1, <4>5
    <3> QED  BY <3>2, <3>3
  <2> QED  BY <2>2, <2>3
<1>21. Lists(m, o2, d2)
  BY <1>2, <1>10, <1>13, <1>17, <1>18, <1>19, <1>20, SMTT(40) DEF Lists
<1>22. \A b \in Taken(l) : b # c /\ d[b] <= d[c] => d2[b] = d[b]
  <2> SUFFICES ASSUME NEW b \in Taken(l), b # c, d[b] <= d[c] PROVE d2[b] = d[b]
    OBVIOUS
  <2>1. ~(d[b] > d[c])
    BY <1>3
  <2> QED  BY <1>12, <2>1
<1> QED  BY <1>12, <1>21, <1>22 DEF h

(* The keys get other numbers: key j the number at[j], if it has a list. *)
Renumbers(l, m, o, d, at) ==
    /\ Lists(l, o, d) /\ Taken(l) \subseteq Cell
    /\ Len(l.keys) \in Nat /\ Len(m.keys) \in Nat
    /\ m.recIdPtr = l.recIdPtr /\ m.link = l.link
    /\ \A j \in 0 .. Len(l.keys) : HeadOf(l, j) # AM_NULL =>
         at[j] \in 0 .. Len(m.keys) /\ HeadOf(m, at[j]) = HeadOf(l, j)
    /\ \A k \in 0 .. Len(m.keys) : HeadOf(m, k) # AM_NULL =>
         \E j \in 0 .. Len(l.keys) : at[j] = k /\ HeadOf(l, j) = HeadOf(m, k)

LEMMA Renumber ==
  ASSUME NEW l, NEW m, NEW o, NEW d, NEW at, Renumbers(l, m, o, d, at)
  PROVE  \E o2 : Lists(m, o2, d)
<1> DEFINE o2 == [c \in Cell |-> IF c \in Taken(l) THEN at[o[c]] ELSE 0]
<1>0. /\ Lists(l, o, d) /\ Taken(l) \subseteq Cell
      /\ Len(l.keys) \in Nat /\ Len(m.keys) \in Nat
      /\ m.recIdPtr = l.recIdPtr /\ m.link = l.link
      /\ \A j \in 0 .. Len(l.keys) : HeadOf(l, j) # AM_NULL =>
           at[j] \in 0 .. Len(m.keys) /\ HeadOf(m, at[j]) = HeadOf(l, j)
      /\ \A k \in 0 .. Len(m.keys) : HeadOf(m, k) # AM_NULL =>
           \E j \in 0 .. Len(l.keys) : at[j] = k /\ HeadOf(l, j) = HeadOf(m, k)
  BY DEF Renumbers
<1> USE <1>0
<1>1. o \in [Cell -> Nat] /\ d \in [Cell -> Nat] /\ Taken(m) = Taken(l)
  BY DEF Lists, Taken
<1>2. \A c \in Taken(l) : /\ o[c] \in 0 .. Len(l.keys) /\ HeadOf(l, o[c]) # AM_NULL
                          /\ d[c] <= d[HeadOf(l, o[c])] /\ HeadOf(l, o[c]) \in Taken(l)
                          /\ o[HeadOf(l, o[c])] = o[c]
  <2> SUFFICES ASSUME NEW c \in Taken(l)
               PROVE  /\ o[c] \in 0 .. Len(l.keys) /\ HeadOf(l, o[c]) # AM_NULL
                      /\ d[c] <= d[HeadOf(l, o[c])] /\ HeadOf(l, o[c]) \in Taken(l)
                      /\ o[HeadOf(l, o[c])] = o[c]
    OBVIOUS
  <2>1. o[c] <= Len(l.keys) /\ HeadOf(l, o[c]) # AM_NULL /\ d[c] <= d[HeadOf(l, o[c])]
    BY DEF Lists
  <2>2. o[c] \in Nat
    BY <1>1
  <2>3. o[c] \in 0 .. Len(l.keys)
    BY <2>1, <2>2
  <2> QED  BY <2>1, <2>3 DEF Lists
<1>3. \A c \in Taken(l) : /\ o2[c] = at[o[c]] /\ o2[c] \in 0 .. Len(m.keys)
                          /\ HeadOf(m, o2[c]) = HeadOf(l, o[c])
  BY <1>2
<1>4. o2 \in [Cell -> Nat]
  <2>1. ASSUME NEW c \in Taken(l) PROVE at[o[c]] \in Nat
    <3>1. at[o[c]] \in 0 .. Len(m.keys)
      BY <1>3
    <3> QED  BY <3>1
  <2> QED  BY <2>1
<1>5. ASSUME NEW c \in Taken(l)
      PROVE  /\ o2[c] <= Len(m.keys)
             /\ HeadOf(m, o2[c]) # AM_NULL /\ d[c] <= d[HeadOf(m, o2[c])]
             /\ m.link[c] = AM_NULL => d[c] = 0
             /\ m.link[c] # AM_NULL =>
                  m.link[c] \in Taken(l) /\ o2[m.link[c]] = o2[c] /\ d[c] = d[m.link[c]] + 1
  <2>1. o2[c] <= Len(m.keys)
    BY <1>3
  <2>2. HeadOf(m, o2[c]) # AM_NULL /\ d[c] <= d[HeadOf(m, o2[c])]
    BY <1>2, <1>3
  <2>3. /\ l.link[c] = AM_NULL => d[c] = 0
        /\ l.link[c] # AM_NULL =>
             l.link[c] \in Taken(l) /\ o[l.link[c]] = o[c] /\ d[c] = d[l.link[c]] + 1
    BY DEF Lists
  <2>4. l.link[c] # AM_NULL => o2[l.link[c]] = o2[c]
    BY <1>3, <2>3
  <2> QED  BY <2>1, <2>2, <2>3, <2>4
<1>6. ASSUME NEW k \in 0 .. Len(m.keys), HeadOf(m, k) # AM_NULL
      PROVE  HeadOf(m, k) \in Taken(l) /\ o2[HeadOf(m, k)] = k
  <2>1. PICK j \in 0 .. Len(l.keys) : at[j] = k /\ HeadOf(l, j) = HeadOf(m, k)
    BY <1>6
  <2>2. HeadOf(l, j) \in Taken(l) /\ o[HeadOf(l, j)] = j
    BY <1>6, <2>1 DEF Lists
  <2> QED  BY <1>3, <2>1, <2>2
<1>7. ASSUME NEW a \in Taken(l), NEW b \in Taken(l), o2[a] = o2[b], d[a] = d[b]
      PROVE  a = b
  <2>1. HeadOf(l, o[a]) = HeadOf(l, o[b])
    BY <1>3, <1>7, ZenonT(60)
  <2>2. o[a] = o[b]
    BY <1>2, <2>1
  <2> QED  BY <1>7, <2>2 DEF Lists
<1>8. Lists(m, o2, d)
  BY <1>1, <1>4, <1>5, <1>6, <1>7 DEF Lists
<1> QED  BY <1>8

-----------------------------------------------------------------------------
(* Inserting in a leaf. *)

(* A good leaf, but that key i may be without a list. *)
GoodButFor(l, i) ==
    /\ l \in Leaf
    /\ Ascending(Values(l))
    /\ \A j \in 1 .. Len(l.keys) : j # i => l.keys[j].head # AM_NULL
    /\ \E o, d : Lists(l, o, d) /\ FreeCounted(l, d)
    /\ Gap(l) >= 0

(* The bytes of things of a size, counted in two parts. *)
LEMMA BytesAdd ==
  ASSUME NEW a \in Nat, NEW b \in Nat, NEW c \in Nat
  PROVE  (a + b) * c = a * c + b * c
OBVIOUS

(* More things of a size take no fewer bytes. *)
LEMMA BytesGrow ==
  ASSUME NEW a \in Nat, NEW b \in Nat, a <= b, NEW c \in Nat
  PROVE  a * c <= b * c
<1>1. PICK d \in Nat : b = a + d
  <2>1. b - a \in Nat /\ b = a + (b - a)
    OBVIOUS
  <2> QED  BY <2>1
<1>2. (a + d) * c = a * c + d * c
  BY BytesAdd
<1>3. d * c \in Nat /\ a * c \in Nat
  OBVIOUS
<1>4. \A x, y \in Nat : x <= x + y
  OBVIOUS
<1> QED  BY <1>1, <1>2, <1>3, <1>4

(* The bytes that n keys take, or n cells. *)
LEMMA Bytes ==
  ASSUME NEW n \in Nat
  PROVE  /\ n * EntrySize \in Nat /\ (n + 1) * EntrySize = n * EntrySize + EntrySize
         /\ n * CellSize \in Nat /\ (n + 1) * CellSize = n * CellSize + CellSize
<1>1. EntrySize \in Nat /\ CellSize \in Nat
  BY AMLeafAssumption
<1> QED  BY <1>1

(* Cells that do not meet the keys are on the page. *)
LEMMA CellFits ==
  ASSUME NEW n \in Nat, NEW a \in Nat, LeafSpace - n * EntrySize - a * CellSize >= CellSize
  PROVE  a + 1 \in Cell /\ LeafSpace - n * EntrySize - (a + 1) * CellSize >= 0
<1> DEFINE x == n * EntrySize
           y == a * CellSize
<1>1. x \in Nat /\ y \in Nat /\ (a + 1) * CellSize = y + CellSize
  BY AMLeafAssumption
<1>2. LeafSpace \in Nat /\ CellSize \in Nat /\ CellSize > 0
  BY AMLeafAssumption
<1> HIDE DEF x, y
<1>3. LeafSpace - x - y >= CellSize
  BY DEF x, y
<1>4. (a + 1) * CellSize <= LeafSpace
  BY <1>1, <1>2, <1>3
<1>5. LeafSpace - x - (a + 1) * CellSize >= 0
  BY <1>1, <1>2, <1>3
<1>6. a + 1 <= MaxCell
  <2>1. PICK q \in Nat : q = MaxCell
    BY CellNumbers
  <2>2. LeafSpace < (q + 1) * CellSize
    BY <1>2, <2>1 DEF MaxCell
  <2>3. CASE q < a + 1
    <3>1. (q + 1) * CellSize <= (a + 1) * CellSize
      BY <1>2, <2>3, BytesGrow
    <3>2. (q + 1) * CellSize \in Nat /\ (a + 1) * CellSize \in Nat
      BY <1>2
    <3> QED  BY <1>2, <1>4, <2>2, <3>1, <3>2
  <2> QED  BY <2>1, <2>3
<1> QED  BY <1>5, <1>6, CellNumbers DEF x

(* What AM_InsertToLeafFound changes. *)
InsertedFound(l, m, i, r, c) ==
    /\ m \in Leaf
    /\ m.nextLeafPage = l.nextLeafPage
    /\ m.recIdPtr = IF l.freeListPtr = AM_NULL THEN c ELSE l.recIdPtr
    /\ m.freeListPtr = IF l.freeListPtr = AM_NULL THEN AM_NULL ELSE l.link[c]
    /\ m.numinfreeList = IF l.freeListPtr = AM_NULL THEN l.numinfreeList ELSE l.numinfreeList - 1
    /\ m.recId = [l.recId EXCEPT ![c] = r]
    /\ m.link = [l.link EXCEPT ![c] = l.keys[i].head]
    /\ Len(m.keys) = Len(l.keys)
    /\ \A j \in 1 .. Len(l.keys) : /\ m.keys[j].value = l.keys[j].value
                                   /\ m.keys[j].head = IF j = i THEN c ELSE l.keys[j].head

LEMMA InsertFoundIs ==
  ASSUME NEW l \in Leaf, NEW i \in 1 .. Len(l.keys), NEW r \in RecId,
         NEW c \in Cell, c = IF l.freeListPtr = AM_NULL THEN l.recIdPtr + 1 ELSE l.freeListPtr,
         l.freeListPtr # AM_NULL => l.numinfreeList > 0,
         NEW m, m = AM_InsertToLeafFound(l, r, i)
  PROVE  InsertedFound(l, m, i, r, c)
<1>1. m = [l EXCEPT !.recIdPtr = IF l.freeListPtr = AM_NULL THEN c ELSE @,
                    !.freeListPtr = IF l.freeListPtr = AM_NULL THEN @ ELSE l.link[c],
                    !.numinfreeList = IF l.freeListPtr = AM_NULL THEN @ ELSE @ - 1,
                    !.recId[c] = r,
                    !.link[c] = l.keys[i].head,
                    !.keys[i].head = c]
  BY DEF AM_InsertToLeafFound
<1>2. /\ m.nextLeafPage = l.nextLeafPage /\ m.pageType = l.pageType
      /\ m.recIdPtr = IF l.freeListPtr = AM_NULL THEN c ELSE l.recIdPtr
      /\ m.freeListPtr = IF l.freeListPtr = AM_NULL THEN l.freeListPtr ELSE l.link[c]
      /\ m.numinfreeList = IF l.freeListPtr = AM_NULL THEN l.numinfreeList ELSE l.numinfreeList - 1
      /\ m.recId = [l.recId EXCEPT ![c] = r]
      /\ m.link = [l.link EXCEPT ![c] = l.keys[i].head]
      /\ m.keys = [l.keys EXCEPT ![i] = [l.keys[i] EXCEPT !.head = c]]
  BY <1>1 DEF Leaf
<1>3. /\ l.keys \in Seq(Entry) /\ Len(l.keys) \in Nat
      /\ l.recId \in [Cell -> RecId] /\ l.link \in [Cell -> CellPtr]
      /\ l.keys[i] \in Entry /\ l.keys[i].head \in CellPtr /\ l.keys[i].value \in Value
      /\ l.numinfreeList \in Nat /\ l.numinfreeList <= MaxCell
      /\ l.recIdPtr \in CellPtr /\ l.freeListPtr \in CellPtr
  BY LeafParts, CellNumbers, SMTT(40)
<1>4. c \in CellPtr
  BY CellNumbers
<1>5. /\ [l.keys[i] EXCEPT !.head = c] \in Entry
      /\ [l.keys[i] EXCEPT !.head = c].head = c
      /\ [l.keys[i] EXCEPT !.head = c].value = l.keys[i].value
  BY <1>3, <1>4 DEF Entry
<1>6. /\ m.keys \in Seq(Entry) /\ Len(m.keys) = Len(l.keys)
      /\ \A j \in 1 .. Len(l.keys) :
           m.keys[j] = IF j = i THEN [l.keys[i] EXCEPT !.head = c] ELSE l.keys[j]
  BY <1>2, <1>3, <1>5
<1>7. /\ m.recId \in [Cell -> RecId] /\ m.link \in [Cell -> CellPtr]
  BY <1>2, <1>3
<1>8. m.recIdPtr \in CellPtr /\ m.freeListPtr \in CellPtr /\ m.numinfreeList \in CellPtr
  <2>1. m.recIdPtr \in CellPtr
    BY <1>2, <1>3, <1>4
  <2>2. m.freeListPtr \in CellPtr
    BY <1>2, <1>3
  <2>3. m.numinfreeList \in CellPtr
    BY <1>2, <1>3, CellNumbers, SMTT(40)
  <2> QED  BY <2>1, <2>2, <2>3
<1>9. m \in Leaf
  BY <1>1, <1>2, <1>6, <1>7, <1>8 DEF Leaf
<1>10. \A j \in 1 .. Len(l.keys) : /\ m.keys[j].value = l.keys[j].value
                                   /\ m.keys[j].head = IF j = i THEN c ELSE l.keys[j].head
  BY <1>5, <1>6
<1> QED  BY <1>2, <1>6, <1>9, <1>10 DEF InsertedFound

LEMMA SameValues ==
  ASSUME NEW l \in Leaf, NEW m \in Leaf, Len(m.keys) = Len(l.keys),
         \A j \in 1 .. Len(l.keys) : m.keys[j].value = l.keys[j].value
  PROVE  Values(m) = Values(l)
<1>1. DOMAIN l.keys = 1 .. Len(l.keys) /\ DOMAIN m.keys = 1 .. Len(l.keys)
  BY LeafParts
<1> QED  BY <1>1 DEF Values

LEMMA InsertFoundGood ==
  ASSUME NEW l, NEW i \in 1 .. Len(l.keys), GoodButFor(l, i), NEW r \in RecId,
         l.freeListPtr # AM_NULL \/ Gap(l) >= CellSize,
         NEW m, m = AM_InsertToLeafFound(l, r, i)
  PROVE  GoodLeaf(m) /\ m.nextLeafPage = l.nextLeafPage /\ Values(m) = Values(l)
<1> DEFINE new == l.freeListPtr = AM_NULL
           c == IF l.freeListPtr = AM_NULL THEN l.recIdPtr + 1 ELSE l.freeListPtr
           n == Len(l.keys)
           h == l.keys[i].head
<1>1. PICK o, d : Lists(l, o, d) /\ FreeCounted(l, d)
  BY DEF GoodButFor
<1>2. l \in Leaf /\ Gap(l) >= 0
  BY DEF GoodButFor
<1>3. /\ n \in Nat /\ l.recIdPtr \in Nat /\ l.link \in [Cell -> CellPtr] /\ Taken(l) \subseteq Cell
      /\ o \in [Cell -> Nat] /\ d \in [Cell -> Nat] /\ l.numinfreeList \in Nat
      /\ l.freeListPtr \in CellPtr
  BY <1>1, <1>2, LeafParts DEF Lists
<1>4. HeadOf(l, 0) = l.freeListPtr /\ HeadOf(l, i) = h /\ 0 \in 0 .. n /\ i \in 0 .. n /\ i # 0
  BY <1>3 DEF HeadOf
<1>5. ~new => c \in Taken(l) /\ o[c] = 0 /\ l.numinfreeList = d[c] + 1 /\ d[c] \in Nat
  <2>1. ~new => c \in Taken(l) /\ o[c] = 0
    BY <1>1, <1>4 DEF Lists
  <2>2. ~new => l.numinfreeList = d[c] + 1
    BY <1>1 DEF FreeCounted
  <2> QED  BY <1>3, <2>1, <2>2
<1>6. new => l.recIdPtr + 1 \in Cell /\ LeafSpace - n * EntrySize - (l.recIdPtr + 1) * CellSize >= 0
  BY <1>3, CellFits DEF Gap
<1>7. c \in Cell
  BY <1>3, <1>5, <1>6
<1>8. new \/ l.numinfreeList > 0
  BY <1>5
<1> HIDE DEF c, new
<1>9. /\ m \in Leaf
      /\ m.nextLeafPage = l.nextLeafPage
      /\ m.recIdPtr = IF new THEN c ELSE l.recIdPtr
      /\ m.freeListPtr = IF new THEN AM_NULL ELSE l.link[c]
      /\ m.numinfreeList = IF new THEN l.numinfreeList ELSE l.numinfreeList - 1
      /\ m.link = [l.link EXCEPT ![c] = h]
      /\ Len(m.keys) = n
      /\ \A j \in 1 .. n : /\ m.keys[j].value = l.keys[j].value
                           /\ m.keys[j].head = IF j = i THEN c ELSE l.keys[j].head
  <2>1. c = IF l.freeListPtr = AM_NULL THEN l.recIdPtr + 1 ELSE l.freeListPtr
    BY DEF c
  <2>2. l.freeListPtr # AM_NULL => l.numinfreeList > 0
    BY <1>8 DEF new
  <2>3. InsertedFound(l, m, i, r, c)
    BY <1>2, <1>7, <2>1, <2>2, InsertFoundIs
  <2> QED  BY <2>3 DEF new, InsertedFound
<1>10. Values(m) = Values(l)
  BY <1>2, <1>9, SameValues
<1>11. c # AM_NULL
  BY <1>7, CellNumbers DEF AM_NULL
<1>12. HeadOf(m, i) = c /\ \A j \in 1 .. n : j # i => HeadOf(m, j) = HeadOf(l, j)
  BY <1>9 DEF HeadOf
<1>13. HeadOf(m, 0) = IF new THEN AM_NULL ELSE l.link[c]
  BY <1>9 DEF HeadOf
<1>14. Gap(m) >= 0 /\ \E o2, d2 : Lists(m, o2, d2) /\ FreeCounted(m, d2)
  <2>1. CASE new
    <3>1. Gap(m) >= 0
      <4>1. m.recIdPtr = l.recIdPtr + 1 /\ Len(m.keys) = n
        BY <1>9, <2>1 DEF c, new
      <4> HIDE DEF n
      <4>2. LeafSpace - n * EntrySize - (l.recIdPtr + 1) * CellSize >= 0
        BY <1>6, <2>1
      <4> QED  BY <4>1, <4>2 DEF Gap
    <3>2. \A j \in 0 .. n : j # i => HeadOf(m, j) = HeadOf(l, j)
      <4>1. HeadOf(m, 0) = HeadOf(l, 0)
        BY <1>4, <1>13, <2>1 DEF new
      <4>2. \A j \in 0 .. n : j = 0 \/ j \in 1 .. n
        BY <1>3
      <4> QED  BY <1>12, <4>1, <4>2
    <3>3. /\ c = l.recIdPtr + 1 /\ m.recIdPtr = c
          /\ m.link = [l.link EXCEPT ![c] = HeadOf(l, i)]
      BY <1>4, <1>9, <2>1 DEF c, new
    <3> HIDE DEF n
    <3>4. TakesNew(l, m, o, d, i, c)
      BY <1>1, <1>3, <1>7, <1>9, <1>12, <3>2, <3>3 DEF TakesNew, n
    <3>5. PICK o2, d2 : Lists(m, o2, d2)
      BY <3>4, TakeNew
    <3>6. FreeCounted(m, d2)
      <4>1. m.freeListPtr = AM_NULL /\ m.numinfreeList = l.numinfreeList
        BY <1>9, <2>1
      <4>2. l.numinfreeList = 0
        BY <1>1, <2>1 DEF FreeCounted, new
      <4> QED  BY <4>1, <4>2 DEF FreeCounted
    <3> QED  BY <3>1, <3>5, <3>6
  <2>2. CASE ~new
    <3>1. Gap(m) >= 0
      <4>1. m.recIdPtr = l.recIdPtr /\ Len(m.keys) = Len(l.keys)
        BY <1>9, <2>2
      <4> QED  BY <1>2, <4>1 DEF Gap
    <3>2. c \in Taken(l) /\ o[c] = 0 /\ c = HeadOf(l, 0) /\ d[c] \in Nat /\ l.numinfreeList = d[c] + 1
      BY <1>4, <1>5, <2>2 DEF c, new
    <3>3. m.link[c] = HeadOf(l, i)
      BY <1>3, <1>4, <1>7, <1>9
    <3>4. \A b \in Taken(l) : l.link[b] # c
      <4> SUFFICES ASSUME NEW b \in Taken(l), l.link[b] = c PROVE FALSE
        OBVIOUS
      <4>1. o[b] = 0 /\ d[b] = d[c] + 1
        BY <1>1, <1>11, <3>2 DEF Lists
      <4>2. d[b] <= d[HeadOf(l, o[b])]
        BY <1>1 DEF Lists
      <4> QED  BY <3>2, <4>1, <4>2
    <3>5. \A b \in Taken(l) : b # c => m.link[b] = IF l.link[b] = c THEN l.link[c] ELSE l.link[b]
      BY <1>3, <1>7, <1>9, <3>4
    <3>6. HeadOf(m, 0) = IF HeadOf(l, 0) = c THEN l.link[c] ELSE HeadOf(l, 0)
      BY <1>13, <2>2, <3>2
    <3>7. \A k \in 0 .. n : k # 0 /\ k # i => HeadOf(m, k) = HeadOf(l, k)
      <4>1. \A k \in 0 .. n : k = 0 \/ k \in 1 .. n
        BY <1>3
      <4> QED  BY <1>12, <4>1
    <3> HIDE DEF n
    <3>8. Moves(l, m, o, d, 0, i, c)
      BY <1>1, <1>3, <1>4, <1>9, <1>12, <2>2, <3>2, <3>3, <3>5, <3>6, <3>7 DEF Moves, n
    <3>9. PICK o2, d2 : /\ Lists(m, o2, d2)
                        /\ \A b \in Taken(l) : b # c /\ d[b] <= d[c] => d2[b] = d[b]
      BY <3>8, MoveCell
    <3>10. FreeCounted(m, d2)
      <4>1. m.freeListPtr = l.link[c] /\ m.numinfreeList = d[c]
        BY <1>9, <2>2, <3>2
      <4>2. l.link[c] = AM_NULL => d[c] = 0
        BY <1>1, <3>2 DEF Lists
      <4>3. l.link[c] # AM_NULL => l.link[c] \in Taken(l) /\ d[c] = d[l.link[c]] + 1
        BY <1>1, <3>2 DEF Lists
      <4>4. l.link[c] # AM_NULL => d2[l.link[c]] = d[l.link[c]]
        <5> SUFFICES ASSUME l.link[c] # AM_NULL PROVE d2[l.link[c]] = d[l.link[c]]
          OBVIOUS
        <5>1. d[l.link[c]] \in Nat /\ l.link[c] # c
          BY <1>3, <3>2, <3>4, <4>3
        <5>2. d[l.link[c]] <= d[c]
          BY <4>3, <5>1
        <5> QED  BY <3>9, <4>3, <5>1, <5>2
      <4> QED  BY <4>1, <4>2, <4>3, <4>4 DEF FreeCounted
    <3> QED  BY <3>1, <3>9, <3>10
  <2> QED  BY <2>1, <2>2
<1>15. \A j \in 1 .. n : m.keys[j].head # AM_NULL
  <2>1. \A j \in 1 .. n : j # i => l.keys[j].head # AM_NULL
    BY DEF GoodButFor
  <2> QED  BY <1>9, <1>11, <2>1
<1>16. Ascending(Values(m))
  BY <1>10 DEF GoodButFor
<1> QED  BY <1>9, <1>10, <1>14, <1>15, <1>16 DEF GoodLeaf

(* v's place in a leaf: what is left of it is smaller. *)
Place(l, v, i) ==
    /\ i \in 1 .. Len(l.keys) + 1
    /\ \A j \in 1 .. Len(l.keys) : IF j < i THEN l.keys[j].value < v ELSE v <= l.keys[j].value

LEMMA PlaceIs ==
  ASSUME NEW l \in Leaf, Ascending(Values(l)), NEW v \in Value
  PROVE  Place(l, v, AM_SearchLeaf(Values(l), v))
<1> DEFINE i == AM_SearchLeaf(Values(l), v)
<1>1. v \in Int
  BY AMLeafAssumption
<1>2. /\ Values(l) \in Seq(Int) /\ Len(Values(l)) = Len(l.keys)
      /\ \A j \in 1 .. Len(l.keys) : Values(l)[j] = l.keys[j].value
  BY ValuesAre
<1>3. /\ i \in 1 .. Len(Values(l)) + 1
      /\ \A j \in 1 .. Len(Values(l)) : IF j < i THEN Values(l)[j] < v ELSE v <= Values(l)[j]
  BY <1>1, <1>2, SearchLeafIs
<1> HIDE DEF i
<1>4. Place(l, v, i)
  BY <1>2, <1>3 DEF Place
<1> QED  BY <1>4 DEF i

(* A new key, still without a list. *)
KeyAdded(l, m, v, i) ==
    /\ GoodButFor(m, i) /\ i \in 1 .. Len(m.keys)
    /\ m.nextLeafPage = l.nextLeafPage /\ Len(m.keys) = Len(l.keys) + 1
    /\ m.keys[i].value = v /\ Gap(m) = Gap(l) - EntrySize
    /\ m.freeListPtr = l.freeListPtr
    /\ \A j \in 1 .. Len(l.keys) : m.keys[IF j < i THEN j ELSE j + 1] = l.keys[j]

LEMMA NewKeyGood ==
  ASSUME NEW l, GoodLeaf(l), NEW v \in Value, NEW i, Place(l, v, i),
         i <= Len(l.keys) => l.keys[i].value # v,
         Gap(l) >= EntrySize,
         NEW m, m = [l EXCEPT !.keys = InsertAt(@, i, [value |-> v, head |-> AM_NULL])]
  PROVE  KeyAdded(l, m, v, i)
<1> DEFINE n == Len(l.keys)
           e == [value |-> v, head |-> AM_NULL]
           ks == InsertAt(l.keys, i, e)
<1>1. l \in Leaf /\ n \in Nat /\ l.keys \in Seq(Entry)
  BY LeafParts DEF GoodLeaf
<1>2. i \in 1 .. n + 1 /\ i \in Nat
  BY <1>1 DEF Place
<1>3. e \in Entry /\ e.value = v /\ e.head = AM_NULL
  BY CellNumbers DEF Entry, AM_NULL
<1> HIDE DEF e
<1>4. /\ ks \in Seq(Entry) /\ Len(ks) = n + 1
      /\ \A p \in 1 .. Len(ks) : ks[p] = IF p < i THEN l.keys[p] ELSE IF p = i THEN e ELSE l.keys[p - 1]
  BY <1>1, <1>2, <1>3, InsertAtIs, SMTT(40)
<1>5. /\ m.keys = ks /\ m.link = l.link /\ m.recIdPtr = l.recIdPtr
      /\ m.freeListPtr = l.freeListPtr /\ m.numinfreeList = l.numinfreeList
      /\ m.nextLeafPage = l.nextLeafPage
  BY <1>1 DEF Leaf, e
<1> HIDE DEF ks
<1>6. m \in Leaf
  BY <1>1, <1>4, <1>5 DEF Leaf, ks, e
<1>7. \A j \in 1 .. n : /\ j < i => m.keys[j] = l.keys[j]
                        /\ ~(j < i) => m.keys[j + 1] = l.keys[j]
  <2> SUFFICES ASSUME NEW j \in 1 .. n
               PROVE  /\ j < i => m.keys[j] = l.keys[j]
                      /\ ~(j < i) => m.keys[j + 1] = l.keys[j]
    OBVIOUS
  <2>1. j \in 1 .. n + 1 /\ j + 1 \in 1 .. n + 1 /\ (j + 1) - 1 = j
    BY <1>1
  <2>2. ~(j < i) => ~(j + 1 < i) /\ j + 1 # i
    BY <1>1, <1>2
  <2> QED  BY <1>4, <1>5, <2>1, <2>2
<1>8. m.keys[i] = e /\ Len(m.keys) = n + 1
  BY <1>2, <1>4, <1>5
<1>9. Gap(m) = Gap(l) - EntrySize /\ Gap(m) >= 0
  <2>0. l.recIdPtr \in Nat
    BY <1>1, LeafParts
  <2>1. PICK x \in Nat, y \in Nat : /\ x = n * EntrySize /\ y = l.recIdPtr * CellSize
                                   /\ (n + 1) * EntrySize = x + EntrySize
    BY <1>1, <2>0, Bytes
  <2>2. LeafSpace \in Nat /\ EntrySize \in Nat
    BY AMLeafAssumption
  <2>3. Gap(m) = LeafSpace - (x + EntrySize) - y
    BY <1>5, <1>8, <2>1 DEF Gap
  <2>4. Gap(l) = LeafSpace - x - y
    BY <2>1 DEF Gap
  <2> QED  BY <2>2, <2>3, <2>4
<1>10. \A p \in 1 .. n + 1 : p # i => \E j \in 1 .. n : p = IF j < i THEN j ELSE j + 1
  <2> SUFFICES ASSUME NEW p \in 1 .. n + 1, p # i
               PROVE  \E j \in 1 .. n : p = IF j < i THEN j ELSE j + 1
    OBVIOUS
  <2>1. CASE p < i
    <3>1. p \in 1 .. n
      BY <1>1, <1>2, <2>1
    <3> QED  BY <2>1, <3>1
  <2>2. CASE p > i
    <3>1. p - 1 \in 1 .. n /\ ~(p - 1 < i) /\ p = (p - 1) + 1
      BY <1>1, <1>2, <2>2
    <3> QED  BY <3>1
  <2> QED  BY <1>1, <1>2, <2>1, <2>2
<1>11. \A j \in 1 .. n : m.keys[IF j < i THEN j ELSE j + 1] = l.keys[j]
  BY <1>7
<1>12. \A p \in 1 .. n + 1 : p # i => m.keys[p].head # AM_NULL
  <2> SUFFICES ASSUME NEW p \in 1 .. n + 1, p # i PROVE m.keys[p].head # AM_NULL
    OBVIOUS
  <2>1. PICK j \in 1 .. n : p = IF j < i THEN j ELSE j + 1
    BY <1>10
  <2>2. m.keys[p] = l.keys[j]
    BY <1>11, <2>1
  <2> QED  BY <2>2 DEF GoodLeaf
<1>13. \E o, d : Lists(m, o, d) /\ FreeCounted(m, d)
  <2>1. PICK o, d : Lists(l, o, d) /\ FreeCounted(l, d)
    BY DEF GoodLeaf
  <2> DEFINE at == [j \in 0 .. n |-> IF j < i THEN j ELSE j + 1]
  <2>2. ASSUME NEW j \in 0 .. n
        PROVE  at[j] \in 0 .. n + 1 /\ HeadOf(m, at[j]) = HeadOf(l, j)
    <3>1. CASE j = 0
      <4>1. at[j] = 0
        BY <1>1, <1>2, <3>1
      <4> HIDE DEF at
      <4> QED  BY <1>1, <1>5, <3>1, <4>1 DEF HeadOf
    <3>2. CASE j # 0
      <4>1. j \in 1 .. n /\ at[j] = IF j < i THEN j ELSE j + 1
        BY <1>1, <3>2
      <4> HIDE DEF at
      <4>2. at[j] \in 0 .. n + 1 /\ at[j] # 0
        BY <1>1, <4>1
      <4>3. m.keys[at[j]] = l.keys[j]
        BY <1>11, <4>1
      <4> QED  BY <3>2, <4>2, <4>3 DEF HeadOf
    <3> QED  BY <3>1, <3>2
  <2>3. ASSUME NEW k \in 0 .. n + 1, HeadOf(m, k) # AM_NULL
        PROVE  \E j \in 0 .. n : at[j] = k /\ HeadOf(l, j) = HeadOf(m, k)
    <3>1. CASE k = 0
      <4>1. 0 \in 0 .. n /\ at[0] = 0
        BY <1>1, <1>2
      <4> HIDE DEF at
      <4> QED  BY <1>5, <3>1, <4>1 DEF HeadOf
    <3>2. CASE k # 0
      <4>1. k # i
        BY <1>3, <1>8, <2>3, <3>2 DEF HeadOf
      <4>2. k \in 1 .. n + 1
        BY <1>1, <3>2
      <4>3. PICK j \in 1 .. n : k = IF j < i THEN j ELSE j + 1
        BY <1>10, <4>1, <4>2
      <4>4. j \in 0 .. n /\ at[j] = k
        BY <1>1, <4>3
      <4> HIDE DEF at
      <4> QED  BY <2>2, <4>4
    <3> QED  BY <3>1, <3>2
  <2> HIDE DEF at
  <2>4. Renumbers(l, m, o, d, at)
    <3>1. Taken(l) \subseteq Cell /\ Len(l.keys) \in Nat /\ Len(m.keys) \in Nat
      BY <1>1, <1>6, LeafParts
    <3> QED  BY <1>5, <1>8, <2>1, <2>2, <2>3, <3>1 DEF Renumbers
  <2>5. PICK o2 : Lists(m, o2, d)
    BY <2>4, Renumber
  <2>6. FreeCounted(m, d)
    BY <1>5, <2>1 DEF FreeCounted
  <2> QED  BY <2>5, <2>6
<1>14. Ascending(Values(m))
  <2>1. \A j \in 1 .. n : l.keys[j].value \in Int
    BY <1>1, LeafParts, AMLeafAssumption
  <2>2. \A j, k \in 1 .. n : j < k => l.keys[j].value < l.keys[k].value
    <3>1. Ascending(Values(l))
      BY DEF GoodLeaf
    <3> QED  BY <1>1, <3>1, ValuesAre DEF Ascending
  <2>3. \A j \in 1 .. n : IF j < i THEN l.keys[j].value < v ELSE v < l.keys[j].value
    <3> SUFFICES ASSUME NEW j \in 1 .. n
                 PROVE  IF j < i THEN l.keys[j].value < v ELSE v < l.keys[j].value
      OBVIOUS
    <3>1. IF j < i THEN l.keys[j].value < v ELSE v <= l.keys[j].value
      BY DEF Place
    <3>2. CASE j < i
      BY <3>1, <3>2
    <3>3. CASE ~(j < i)
      <4>1. i \in 1 .. n /\ v <= l.keys[i].value /\ l.keys[i].value # v
        BY <1>1, <1>2, <3>3 DEF Place
      <4>2. v \in Int /\ l.keys[i].value \in Int /\ l.keys[j].value \in Int
        BY <2>1, <4>1, AMLeafAssumption
      <4>3. i = j \/ l.keys[i].value < l.keys[j].value
        BY <1>1, <1>2, <2>2, <3>3, <4>1
      <4> QED  BY <3>3, <4>1, <4>2, <4>3
    <3> QED  BY <3>2, <3>3
  <2>4. ASSUME NEW p \in 1 .. n + 1, NEW q \in 1 .. n + 1, p < q
        PROVE  m.keys[p].value < m.keys[q].value
    <3>1. CASE p = i
      <4>1. PICK k \in 1 .. n : q = IF k < i THEN k ELSE k + 1
        BY <1>2, <1>10, <2>4, <3>1
      <4>2. ~(k < i)
        BY <1>2, <2>4, <3>1, <4>1
      <4>3. m.keys[q] = l.keys[k]
        BY <1>11, <4>1
      <4>4. v < l.keys[k].value
        BY <2>3, <4>2
      <4> QED  BY <1>3, <1>8, <3>1, <4>3, <4>4
    <3>2. CASE q = i
      <4>1. PICK j \in 1 .. n : p = IF j < i THEN j ELSE j + 1
        BY <1>2, <1>10, <2>4, <3>2
      <4>2. j < i
        BY <1>2, <2>4, <3>2, <4>1
      <4>3. m.keys[p] = l.keys[j]
        BY <1>11, <4>1
      <4>4. l.keys[j].value < v
        BY <2>3, <4>2
      <4> QED  BY <1>3, <1>8, <3>2, <4>3, <4>4
    <3>3. CASE p # i /\ q # i
      <4>1. PICK j \in 1 .. n : p = IF j < i THEN j ELSE j + 1
        BY <1>10, <3>3
      <4>2. PICK k \in 1 .. n : q = IF k < i THEN k ELSE k + 1
        BY <1>10, <3>3
      <4>3. j < k
        BY <1>2, <2>4, <4>1, <4>2
      <4>4. m.keys[p] = l.keys[j] /\ m.keys[q] = l.keys[k]
        BY <1>11, <4>1, <4>2
      <4> QED  BY <2>2, <4>3, <4>4
    <3> QED  BY <3>1, <3>2, <3>3
  <2>5. /\ Len(Values(m)) = n + 1
        /\ \A p \in 1 .. n + 1 : Values(m)[p] = m.keys[p].value
    BY <1>6, <1>8, ValuesAre
  <2> QED  BY <2>4, <2>5 DEF Ascending
<1>15. GoodButFor(m, i)
  BY <1>6, <1>8, <1>9, <1>12, <1>13, <1>14 DEF GoodButFor
<1> QED  BY <1>2, <1>3, <1>5, <1>8, <1>9, <1>11, <1>15 DEF KeyAdded

-----------------------------------------------------------------------------
(* Compacting a leaf. *)

(* The lists in cells taken one after the other: that of key j in those    *)
(* from off[j - 1] + 1 up to off[j].                                       *)
InARow(m, N, off) ==
    /\ N \in Nat /\ Len(m.keys) = N
    /\ \A j \in 0 .. N : off[j] \in Nat
    /\ off[0] = 0 /\ \A j \in 1 .. N : off[j - 1] < off[j]
    /\ \A i, j \in 0 .. N : i <= j => off[i] <= off[j]
    /\ off[N] <= MaxCell
    /\ m.recIdPtr = off[N] /\ m.freeListPtr = AM_NULL
    /\ \A j \in 1 .. N : m.keys[j].head = off[j - 1] + 1
    /\ \A c \in 1 .. off[N] : m.link[c] = IF \E j \in 1 .. N : c = off[j] THEN AM_NULL ELSE c + 1

LEMMA RowIsLists ==
  ASSUME NEW m, NEW N, NEW off, InARow(m, N, off)
  PROVE  \E o, d : Lists(m, o, d)
<1>0. /\ N \in Nat /\ Len(m.keys) = N
      /\ \A j \in 0 .. N : off[j] \in Nat
      /\ off[0] = 0 /\ \A j \in 1 .. N : off[j - 1] < off[j]
      /\ \A i, j \in 0 .. N : i <= j => off[i] <= off[j]
      /\ off[N] <= MaxCell /\ off[N] \in Nat /\ MaxCell \in Nat
      /\ m.recIdPtr = off[N] /\ m.freeListPtr = AM_NULL
      /\ \A j \in 1 .. N : m.keys[j].head = off[j - 1] + 1
  BY CellNumbers DEF InARow
<1>1. \A c \in 1 .. off[N] : m.link[c] = IF \E j \in 1 .. N : c = off[j] THEN AM_NULL ELSE c + 1
  BY DEF InARow
<1>2. \A j \in 1 .. N : /\ j \in 0 .. N /\ j - 1 \in 0 .. N
                        /\ off[j] \in Nat /\ off[j - 1] \in Nat
                        /\ off[j - 1] < off[j] /\ off[j] <= off[N]
  <2> SUFFICES ASSUME NEW j \in 1 .. N
               PROVE  /\ j \in 0 .. N /\ j - 1 \in 0 .. N
                      /\ off[j] \in Nat /\ off[j - 1] \in Nat
                      /\ off[j - 1] < off[j] /\ off[j] <= off[N]
    OBVIOUS
  <2>1. j \in 0 .. N /\ j - 1 \in 0 .. N /\ N \in 0 .. N /\ j <= N
    BY <1>0
  <2> QED  BY <1>0, <2>1
<1> DEFINE In(c, j) == off[j - 1] < c /\ c <= off[j]
<1>3. ASSUME NEW c \in 1 .. off[N] PROVE \E j \in 1 .. N : In(c, j)
  <2> DEFINE J == {j \in 1 .. N : c <= off[j]}
  <2>1. N \in 1 .. N
    <3>1. N # 0
      BY <1>0
    <3> QED  BY <1>0, <3>1
  <2>2. J \in SUBSET Nat /\ J # {}
    <3>1. N \in J
      BY <2>1
    <3> QED  BY <3>1
  <2>3. PICK j \in J : \A k \in J : j <= k
    <3> HIDE DEF J
    <3> QED  BY <2>2, LeastNumber
  <2>4. CASE j = 1
    BY <1>0, <2>4
  <2>5. CASE j # 1
    <3>1. j - 1 \in 1 .. N /\ j - 1 \notin J
      BY <1>0, <2>3, <2>5, SMTT(40)
    <3>2. ~(c <= off[j - 1])
      BY <3>1
    <3>3. off[j - 1] \in Nat
      BY <1>2
    <3> QED  BY <3>2, <3>3
  <2> QED  BY <2>4, <2>5
<1>4. ASSUME NEW c \in 1 .. off[N], NEW i \in 1 .. N, NEW j \in 1 .. N, In(c, i), In(c, j)
      PROVE  i = j
  <2>1. ASSUME NEW a \in 1 .. N, NEW b \in 1 .. N, a < b, In(c, a), In(c, b) PROVE FALSE
    <3>1. a <= b - 1 /\ a \in 0 .. N /\ b - 1 \in 0 .. N
      BY <1>0, <2>1
    <3>2. off[a] <= off[b - 1]
      BY <1>0, <3>1
    <3>3. off[a] \in Nat /\ off[b - 1] \in Nat
      BY <1>2
    <3> QED  BY <2>1, <3>2, <3>3
  <2>2. ~(i < j) /\ ~(j < i)
    BY <1>4, <2>1
  <2> QED  BY <1>0, <2>2
<1> HIDE DEF In
<1> DEFINE o == [c \in Cell |-> IF c \in 1 .. off[N] THEN CHOOSE j \in 1 .. N : In(c, j) ELSE 0]
           d == [c \in Cell |-> IF c \in 1 .. off[N] THEN off[o[c]] - c ELSE 0]
<1>5. \A c \in 1 .. off[N] : c \in Cell
  BY <1>0, CellNumbers
<1>6. \A c \in 1 .. off[N] : o[c] \in 1 .. N /\ In(c, o[c])
  <2> SUFFICES ASSUME NEW c \in 1 .. off[N] PROVE o[c] \in 1 .. N /\ In(c, o[c])
    OBVIOUS
  <2>1. o[c] = CHOOSE j \in 1 .. N : In(c, j)
    BY <1>5
  <2> HIDE DEF o
  <2> QED  BY <1>3, <2>1
<1>7. o \in [Cell -> Nat]
  <2>1. \A c \in 1 .. off[N] : (CHOOSE j \in 1 .. N : In(c, j)) \in Nat
    BY <1>3
  <2> QED  BY <2>1
<1> HIDE DEF o
<1>8. \A c \in 1 .. off[N] : /\ d[c] = off[o[c]] - c /\ d[c] \in Nat
                             /\ off[o[c]] \in Nat /\ off[o[c] - 1] \in Nat
                             /\ off[o[c] - 1] < c /\ c <= off[o[c]]
  <2> SUFFICES ASSUME NEW c \in 1 .. off[N]
               PROVE  /\ d[c] = off[o[c]] - c /\ d[c] \in Nat
                      /\ off[o[c]] \in Nat /\ off[o[c] - 1] \in Nat
                      /\ off[o[c] - 1] < c /\ c <= off[o[c]]
    OBVIOUS
  <2>1. d[c] = off[o[c]] - c
    BY <1>5
  <2> HIDE DEF d
  <2>2. off[o[c]] \in Nat /\ off[o[c] - 1] \in Nat
    BY <1>2, <1>6
  <2>3. off[o[c] - 1] < c /\ c <= off[o[c]]
    BY <1>6 DEF In
  <2>4. off[o[c]] - c \in Nat
    BY <2>2, <2>3
  <2> QED  BY <2>1, <2>2, <2>3, <2>4
<1>9. d \in [Cell -> Nat]
  <2>1. \A c \in 1 .. off[N] : off[o[c]] - c \in Nat
    BY <1>8
  <2> HIDE DEF o
  <2> QED  BY <2>1
<1> HIDE DEF d
<1>10. \A c \in 1 .. off[N], j \in 1 .. N : off[j - 1] < c /\ c <= off[j] => o[c] = j
  BY <1>4, <1>6 DEF In
<1>11. Taken(m) = 1 .. off[N] /\ \A c \in 1 .. off[N] : c # AM_NULL
  BY <1>0 DEF Taken, AM_NULL
<1>12. HeadOf(m, 0) = AM_NULL /\ \A j \in 1 .. N : HeadOf(m, j) = off[j - 1] + 1
  BY <1>0 DEF HeadOf
<1>13. \A j \in 1 .. N : /\ HeadOf(m, j) \in 1 .. off[N] /\ o[HeadOf(m, j)] = j
                         /\ d[HeadOf(m, j)] = off[j] - (off[j - 1] + 1)
  <2> SUFFICES ASSUME NEW j \in 1 .. N
               PROVE  /\ HeadOf(m, j) \in 1 .. off[N] /\ o[HeadOf(m, j)] = j
                      /\ d[HeadOf(m, j)] = off[j] - (off[j - 1] + 1)
    OBVIOUS
  <2>1. HeadOf(m, j) = off[j - 1] + 1
    BY <1>12
  <2>2. /\ off[j] \in Nat /\ off[j - 1] \in Nat /\ off[N] \in Nat
        /\ off[j - 1] < off[j] /\ off[j] <= off[N]
    BY <1>0, <1>2
  <2>3. PICK h \in Nat : h = off[j - 1] + 1
    BY <2>2
  <2>4. h \in 1 .. off[N] /\ off[j - 1] < h /\ h <= off[j]
    BY <2>2, <2>3
  <2>5. o[h] = j
    BY <1>10, <2>4
  <2>6. d[h] = off[j] - h
    BY <1>8, <2>4, <2>5
  <2> QED  BY <2>1, <2>3, <2>4, <2>5, <2>6
<1>14. ASSUME NEW c \in 1 .. off[N]
       PROVE  /\ o[c] <= N /\ HeadOf(m, o[c]) # AM_NULL /\ d[c] <= d[HeadOf(m, o[c])]
              /\ m.link[c] = AM_NULL => d[c] = 0
              /\ m.link[c] # AM_NULL =>
                   m.link[c] \in 1 .. off[N] /\ o[m.link[c]] = o[c] /\ d[c] = d[m.link[c]] + 1
  <2>1. /\ o[c] \in 1 .. N /\ d[c] = off[o[c]] - c /\ d[c] \in Nat
        /\ off[o[c]] \in Nat /\ off[o[c] - 1] \in Nat /\ off[o[c]] <= off[N]
        /\ off[o[c] - 1] < c /\ c <= off[o[c]]
    BY <1>2, <1>6, <1>8
  <2>2. HeadOf(m, o[c]) # AM_NULL /\ d[HeadOf(m, o[c])] = off[o[c]] - (off[o[c] - 1] + 1)
    BY <1>11, <1>13, <2>1
  <2>3. d[c] <= d[HeadOf(m, o[c])]
    BY <2>1, <2>2
  <2>4. CASE \E j \in 1 .. N : c = off[j]
    <3>1. PICK j \in 1 .. N : c = off[j]
      BY <2>4
    <3>2. o[c] = j
      BY <1>2, <1>10, <3>1
    <3>3. d[c] = 0
      BY <2>1, <3>1, <3>2
    <3>4. m.link[c] = AM_NULL
      BY <1>1, <2>4
    <3> QED  BY <1>0, <2>1, <2>2, <2>3, <3>3, <3>4
  <2>5. CASE ~ \E j \in 1 .. N : c = off[j]
    <3>1. m.link[c] = c + 1 /\ c # off[o[c]]
      BY <1>1, <2>1, <2>5
    <3>2. PICK e \in Nat : e = c + 1
      OBVIOUS
    <3>a. \A x, y, z \in Nat : y < c /\ c <= x /\ c # x /\ x <= z
                                => c + 1 \in 1 .. z /\ y < c + 1 /\ c + 1 <= x
      <4>1. c \in Nat
        BY <2>1
      <4> HIDE DEF In
      <4> QED  BY <4>1
    <3>3. e \in 1 .. off[N] /\ off[o[c] - 1] < e /\ e <= off[o[c]]
      <4>1. off[N] \in Nat
        BY <1>0, <1>2
      <4> QED  BY <2>1, <3>1, <3>2, <3>a, <4>1
    <3>4. o[e] = o[c]
      BY <1>10, <2>1, <3>3
    <3>5. d[e] = off[o[c]] - e
      BY <1>8, <3>3, <3>4
    <3>6. d[c] = d[e] + 1 /\ e # AM_NULL
      BY <2>1, <3>2, <3>5 DEF AM_NULL
    <3> QED  BY <1>0, <2>1, <2>2, <2>3, <3>1, <3>2, <3>3, <3>4, <3>6
  <2> QED  BY <2>4, <2>5
<1>15. ASSUME NEW a \in 1 .. off[N], NEW b \in 1 .. off[N], o[a] = o[b], d[a] = d[b]
       PROVE  a = b
  <2>1. off[o[a]] - a = off[o[a]] - b /\ off[o[a]] \in Nat
    BY <1>8, <1>15
  <2> QED  BY <2>1
<1>16. ASSUME NEW j \in 0 .. N, HeadOf(m, j) # AM_NULL
       PROVE  HeadOf(m, j) \in 1 .. off[N] /\ o[HeadOf(m, j)] = j
  <2>1. j \in 1 .. N
    BY <1>0, <1>12, <1>16
  <2> QED  BY <1>13, <2>1
<1>17. Lists(m, o, d)
  BY <1>0, <1>7, <1>9, <1>11, <1>14, <1>15, <1>16, ZenonT(60) DEF Lists
<1> QED  BY <1>17
(* What the first lists of a sequence make together. *)
LEMMA PrefixLength ==
  ASSUME NEW Y, NEW S \in Seq(Seq(Y)), NEW off, Offsets(S, off), NEW j \in 0 .. Len(S)
  PROVE  Len(FlattenSeq(SubSeq(S, 1, j))) = off[j]
<1> DEFINE P == SubSeq(S, 1, j)
<1>1. Len(S) \in Nat /\ j \in Nat /\ j <= Len(S)
  OBVIOUS
<1>2. P \in Seq(Seq(Y)) /\ Len(P) = j /\ \A i \in 1 .. j : P[i] = S[i]
  BY <1>1
<1> HIDE DEF P
<1>3. Offsets(P, off)
  <2>1. /\ \A i \in 0 .. Len(S) : off[i] \in Nat
        /\ off[0] = 0
        /\ \A i \in 1 .. Len(S) : off[i] = off[i - 1] + Len(S[i])
        /\ \A i, k \in 0 .. Len(S) : i <= k => off[i] <= off[k]
    BY DEF Offsets
  <2>2. /\ \A i \in 0 .. j : i \in 0 .. Len(S)
        /\ \A i \in 1 .. j : i \in 1 .. Len(S)
    BY <1>1
  <2>3. \A i \in 1 .. j : off[i] = off[i - 1] + Len(P[i])
    BY <1>2, <2>1, <2>2
  <2>4. /\ \A i \in 0 .. j : off[i] \in Nat
        /\ \A i, k \in 0 .. j : i <= k => off[i] <= off[k]
    BY <2>1, <2>2
  <2> QED  BY <1>2, <2>1, <2>3, <2>4 DEF Offsets
<1>4. Flattens(FlattenSeq(P), P, Len(P), off)
  BY <1>2, <1>3, FlattenIs
<1>5. Len(FlattenSeq(P)) = off[j]
  BY <1>2, <1>4 DEF Flattens
<1> QED  BY <1>5 DEF P

(* The lists of n keys from low on; together with the free list they have  *)
(* no more cells than were taken.                                          *)
KeyLists(l, low, n) == [j \in 1 .. n |-> ListOf(l, low + j - 1)]

Room(l, low, n, off) ==
    /\ KeyLists(l, low, n) \in Seq(Seq(Cell)) /\ Len(KeyLists(l, low, n)) = n
    /\ Offsets(KeyLists(l, low, n), off)
    /\ \A j \in 1 .. n : off[j - 1] < off[j]
    /\ off[n] + l.numinfreeList <= l.recIdPtr

LEMMA KeysHaveRoom ==
  ASSUME NEW l, GoodLeaf(l), NEW low \in Nat, low # 0, NEW n \in Nat, low + n <= Len(l.keys) + 1
  PROVE  \E off : Room(l, low, n, off)
<1>1. PICK o, d : Lists(l, o, d) /\ FreeCounted(l, d)
  BY DEF GoodLeaf
<1>2. l \in Leaf /\ Len(l.keys) \in Nat /\ l.recIdPtr \in Nat /\ l.numinfreeList \in Nat
  BY LeafParts DEF GoodLeaf
<1> DEFINE L == KeyLists(l, low, n)
           S == Append(L, ListOf(l, 0))
           key(i) == IF i = n + 1 THEN 0 ELSE low + i - 1
<1>3. \A i \in 1 .. n + 1 : key(i) \in 0 .. Len(l.keys)
  BY <1>2
<1>4. \A i \in 0 .. Len(l.keys) : ListOf(l, i) \in Seq(Cell)
  BY <1>1, <1>2, ListOfIs
<1>5. L \in Seq(Seq(Cell)) /\ Len(L) = n /\ \A i \in 1 .. n : L[i] = ListOf(l, key(i))
  <2>1. \A i \in 1 .. n : i \in 1 .. n + 1 /\ key(i) = low + i - 1
    OBVIOUS
  <2>2. \A i \in 1 .. n : ListOf(l, low + i - 1) \in Seq(Cell)
    <3> HIDE DEF key
    <3> QED  BY <1>3, <1>4, <2>1
  <2>3. L \in [1 .. n -> Seq(Cell)]
    BY <2>2 DEF KeyLists
  <2>4. \A i \in 1 .. n : L[i] = ListOf(l, key(i))
    <3> HIDE DEF key
    <3> QED  BY <2>1 DEF KeyLists
  <2> HIDE DEF L
  <2> QED  BY <2>3, <2>4
<1>6. /\ S \in Seq(Seq(Cell)) /\ Len(S) = n + 1
      /\ \A i \in 1 .. n : S[i] = L[i]
      /\ \A i \in 1 .. n + 1 : S[i] = ListOf(l, key(i))
  <2>1. ListOf(l, 0) \in Seq(Cell)
    BY <1>2, <1>4
  <2> HIDE DEF L
  <2>2. S \in Seq(Seq(Cell)) /\ Len(S) = n + 1 /\ S[n + 1] = ListOf(l, 0)
    BY <1>5, <2>1
  <2>3. \A i \in 1 .. n : S[i] = L[i]
    BY <1>5, <2>1
  <2>4. \A i \in 1 .. n + 1 : i # n + 1 => i \in 1 .. n
    OBVIOUS
  <2> HIDE DEF S
  <2>5. key(n + 1) = 0
    OBVIOUS
  <2> HIDE DEF key
  <2> QED  BY <1>5, <2>2, <2>3, <2>4, <2>5
<1> HIDE DEF L, S
<1>7. \A i \in 1 .. Len(S) : Len(S[i]) \in Nat /\ \A k \in 1 .. Len(S[i]) :
        S[i][k] \in Taken(l) /\ o[S[i][k]] = key(i) /\ d[S[i][k]] = Len(S[i]) - k
  <2> HIDE DEF key
  <2>1. \A q \in 0 .. Len(l.keys) :
          /\ ListOf(l, q) \in Seq(Cell)
          /\ \A k \in 1 .. Len(ListOf(l, q)) :
               /\ ListOf(l, q)[k] \in Taken(l)
               /\ o[ListOf(l, q)[k]] = q
               /\ d[ListOf(l, q)[k]] = Len(ListOf(l, q)) - k
    BY <1>1, <1>2, ListOfIs
  <2>2. \A i \in 1 .. Len(S) : key(i) \in 0 .. Len(l.keys) /\ S[i] = ListOf(l, key(i))
    BY <1>3, <1>6
  <2>3. ASSUME NEW i \in 1 .. Len(S)
        PROVE  Len(S[i]) \in Nat /\ \A k \in 1 .. Len(S[i]) :
                 S[i][k] \in Taken(l) /\ o[S[i][k]] = key(i) /\ d[S[i][k]] = Len(S[i]) - k
    <3>1. PICK q \in 0 .. Len(l.keys) : q = key(i) /\ S[i] = ListOf(l, q)
      BY <2>2
    <3>2. Len(ListOf(l, q)) \in Nat
      BY <2>1
    <3> QED  BY <2>1, <3>1, <3>2
  <2> QED  BY <2>3
<1>8. \A i, j \in 1 .. n + 1 : key(i) = key(j) => i = j
  OBVIOUS
<1>9. Once(S)
  <2> SUFFICES ASSUME NEW i \in 1 .. Len(S), NEW j \in 1 .. Len(S),
                      NEW k \in 1 .. Len(S[i]), NEW m \in 1 .. Len(S[j]), S[i][k] = S[j][m]
               PROVE  i = j /\ k = m
    BY DEF Once
  <2>1. key(i) = key(j) /\ Len(S[i]) - k = Len(S[j]) - m
    <3>1. o[S[i][k]] = key(i) /\ o[S[j][m]] = key(j)
      BY <1>7
    <3>2. d[S[i][k]] = Len(S[i]) - k /\ d[S[j][m]] = Len(S[j]) - m
      BY <1>7
    <3> HIDE DEF key
    <3> QED  BY <3>1, <3>2
  <2>2. i = j
    BY <1>6, <1>8, <2>1
  <2>3. Len(S[i]) \in Nat /\ Len(S[i]) - k = Len(S[i]) - m
    BY <1>7, <2>1, <2>2
  <2> QED  BY <2>2, <2>3
<1>10. Within(S, l.recIdPtr)
  BY <1>7 DEF Taken, Within
<1> HIDE DEF key
<1>11. PICK off : Offsets(S, off)
  BY <1>6, OffsetsExist
<1>12. Len(FlattenSeq(S)) = off[n + 1] /\ Len(FlattenSeq(S)) <= l.recIdPtr
  <2>1. Flattens(FlattenSeq(S), S, n + 1, off)
    BY <1>6, <1>11, FlattenIs
  <2>2. \A F : F = FlattenSeq(S) => Len(F) <= l.recIdPtr
    BY <1>2, <1>6, <1>9, <1>10, FlattenCells
  <2> QED  BY <2>1, <2>2 DEF Flattens
<1>13. /\ \A i \in 0 .. n + 1 : off[i] \in Nat
       /\ off[0] = 0
       /\ \A i \in 1 .. n + 1 : off[i] = off[i - 1] + Len(S[i])
       /\ \A i, j \in 0 .. n + 1 : i <= j => off[i] <= off[j]
  BY <1>6, <1>11 DEF Offsets
<1>14. /\ \A i \in 0 .. n : i \in 0 .. n + 1
       /\ \A i \in 1 .. n : i \in 1 .. n + 1 /\ i - 1 \in 0 .. n + 1
       /\ n + 1 \in 1 .. n + 1 /\ (n + 1) - 1 = n /\ n \in 0 .. n + 1
  OBVIOUS
<1>15. Offsets(L, off)
  <2>1. \A i \in 1 .. n : off[i] = off[i - 1] + Len(L[i])
    BY <1>6, <1>13, <1>14
  <2>2. /\ \A i \in 0 .. n : off[i] \in Nat
        /\ \A i, j \in 0 .. n : i <= j => off[i] <= off[j]
    BY <1>13, <1>14
  <2> QED  BY <1>5, <1>13, <2>1, <2>2 DEF Offsets
<1>16. Len(S[n + 1]) = l.numinfreeList
  <2>1. S[n + 1] = ListOf(l, 0) /\ 0 \in 0 .. Len(l.keys)
    BY <1>2, <1>6, <1>14 DEF key
  <2>2. HeadOf(l, 0) = l.freeListPtr
    BY DEF HeadOf
  <2>3. l.freeListPtr = AM_NULL => ListOf(l, 0) = << >>
    BY <1>1, <1>2, <2>1, <2>2, ListOfIs
  <2>4. l.freeListPtr # AM_NULL => Len(ListOf(l, 0)) = d[l.freeListPtr] + 1
    BY <1>1, <1>2, <2>1, <2>2, ListOfIs
  <2>5. Len(<< >>) = 0
    OBVIOUS
  <2> QED  BY <1>1, <2>1, <2>3, <2>4, <2>5 DEF FreeCounted
<1>17. off[n] + l.numinfreeList <= l.recIdPtr
  <2>1. off[n + 1] = off[n] + Len(S[n + 1])
    BY <1>13, <1>14
  <2> QED  BY <1>12, <1>16, <2>1
<1>18. ASSUME NEW j \in 1 .. n PROVE off[j - 1] < off[j]
  <2>1. S[j] = ListOf(l, low + j - 1) /\ low + j - 1 \in 1 .. Len(l.keys)
    BY <1>2, <1>6, <1>14, SMTT(40) DEF key
  <2>2. PICK i \in 1 .. Len(l.keys) : i = low + j - 1
    BY <2>1
  <2>3. HeadOf(l, i) # AM_NULL /\ i \in 0 .. Len(l.keys)
    BY <1>2 DEF HeadOf, GoodLeaf
  <2>4. HeadOf(l, i) \in Taken(l) /\ d[HeadOf(l, i)] \in Nat
    <3>1. HeadOf(l, i) \in Taken(l)
      BY <1>1, <2>3 DEF Lists
    <3>2. d \in [Cell -> Nat] /\ Taken(l) \subseteq Cell
      BY <1>1, <1>2, LeafParts DEF Lists
    <3> QED  BY <3>1, <3>2
  <2>5. Len(ListOf(l, i)) = d[HeadOf(l, i)] + 1
    BY <1>1, <1>2, <2>3, ListOfIs
  <2>6. Len(S[j]) > 0 /\ Len(S[j]) \in Nat
    BY <2>1, <2>2, <2>4, <2>5
  <2>7. off[j] = off[j - 1] + Len(S[j]) /\ off[j - 1] \in Nat
    BY <1>13, <1>14
  <2> QED  BY <2>6, <2>7
<1>19. Room(l, low, n, off)
  BY <1>5, <1>15, <1>17, <1>18 DEF Room, L
<1> QED  BY <1>19
(* The record ids of a key are those in the cells of its list. *)
LEMMA RecIdsAre ==
  ASSUME NEW l \in Leaf, NEW i \in 1 .. Len(l.keys), ListOf(l, i) \in Seq(Cell)
  PROVE  /\ RecIds(l, i) \in Seq(RecId) /\ Len(RecIds(l, i)) = Len(ListOf(l, i))
         /\ \A k \in 1 .. Len(ListOf(l, i)) : RecIds(l, i)[k] = l.recId[ListOf(l, i)[k]]
<1> DEFINE s == ListOf(l, i)
<1>1. KeyCells(l, i) = s
  BY DEF KeyCells, ListOf, HeadOf
<1>2. l.recId \in [Cell -> RecId]
  BY LeafParts
<1> HIDE DEF s
<1>3. s \in Seq(Cell)
  BY DEF s
<1>4. RecIds(l, i) = [k \in 1 .. Len(s) |-> l.recId[s[k]]]
  BY <1>1, <1>3 DEF RecIds
<1>5. \A k \in 1 .. Len(s) : l.recId[s[k]] \in RecId
  BY <1>2, <1>3
<1>6. RecIds(l, i) \in [1 .. Len(s) -> RecId] /\ Len(s) \in Nat
  BY <1>3, <1>4, <1>5
<1>7. RecIds(l, i) \in Seq(RecId) /\ Len(RecIds(l, i)) = Len(s)
  BY <1>6
<1>8. \A k \in 1 .. Len(s) : RecIds(l, i)[k] = l.recId[s[k]]
  BY <1>4
<1> QED  BY <1>7, <1>8 DEF s

(* What AM_Compact makes of a leaf. *)
Compacted(l, m, low, n, off) ==
    /\ m \in Leaf
    /\ m.nextLeafPage = l.nextLeafPage
    /\ Len(m.keys) = n
    /\ \A j \in 1 .. n : m.keys[j].value = l.keys[low + j - 1].value
    /\ m.numinfreeList = 0
    /\ InARow(m, n, off)
    /\ \A j \in 1 .. n :
         /\ off[j] = off[j - 1] + Len(RecIds(l, low + j - 1))
         /\ \A k \in 1 .. Len(RecIds(l, low + j - 1)) :
              m.recId[off[j - 1] + k] = RecIds(l, low + j - 1)[k]

LEMMA CompactIs ==
  ASSUME NEW l, GoodLeaf(l), NEW low \in Nat, low # 0, NEW n \in Nat, low + n <= Len(l.keys) + 1,
         NEW high, high = low + n - 1, NEW off, Room(l, low, n, off),
         NEW m, m = AM_Compact(l, low, high)
  PROVE  Compacted(l, m, low, n, off)
<1>1. /\ l \in Leaf /\ Len(l.keys) \in Nat /\ l.recIdPtr \in Nat /\ l.recIdPtr <= MaxCell
      /\ l.numinfreeList \in Nat /\ MaxCell \in Nat /\ high - low + 1 = n
      /\ l.recId \in [Cell -> RecId] /\ l.link \in [Cell -> CellPtr]
  BY LeafParts, CellNumbers DEF GoodLeaf
<1> DEFINE L == KeyLists(l, low, n)
           R == [j \in 1 .. n |-> RecIds(l, low + j - 1)]
           recs == FlattenSeq(R)
           upTo(j) == Len(FlattenSeq(SubSeq(R, 1, j)))
           last == {upTo(j) : j \in 1 .. n}
<1>2. /\ L \in Seq(Seq(Cell)) /\ Len(L) = n /\ Offsets(L, off)
      /\ \A j \in 1 .. n : off[j - 1] < off[j]
      /\ off[n] + l.numinfreeList <= l.recIdPtr
  BY DEF Room
<1>3. \A j \in 1 .. n : /\ low + j - 1 \in 1 .. Len(l.keys)
                        /\ L[j] = ListOf(l, low + j - 1) /\ L[j] \in Seq(Cell)
  <2>1. \A j \in 1 .. n : low + j - 1 \in 1 .. Len(l.keys)
    BY <1>1, SMTT(40)
  <2>2. \A j \in 1 .. n : L[j] = ListOf(l, low + j - 1)
    BY DEF KeyLists
  <2> HIDE DEF L
  <2> QED  BY <1>2, <2>1, <2>2
<1> HIDE DEF L
<1>4. \A j \in 1 .. n : RecIds(l, low + j - 1) \in Seq(RecId) /\ Len(RecIds(l, low + j - 1)) = Len(L[j])
  <2> SUFFICES ASSUME NEW j \in 1 .. n
               PROVE  /\ RecIds(l, low + j - 1) \in Seq(RecId)
                      /\ Len(RecIds(l, low + j - 1)) = Len(L[j])
    OBVIOUS
  <2>1. PICK i \in 1 .. Len(l.keys) : i = low + j - 1
    BY <1>3
  <2>2. L[j] = ListOf(l, i) /\ ListOf(l, i) \in Seq(Cell)
    BY <1>3, <2>1
  <2>3. RecIds(l, i) \in Seq(RecId) /\ Len(RecIds(l, i)) = Len(ListOf(l, i))
    BY <1>1, <2>2, RecIdsAre
  <2> QED  BY <2>1, <2>2, <2>3
<1>5. R \in Seq(Seq(RecId)) /\ Len(R) = n /\ \A j \in 1 .. n : Len(R[j]) = Len(L[j])
  <2>1. R \in [1 .. n -> Seq(RecId)] /\ \A j \in 1 .. n : Len(R[j]) = Len(L[j])
    BY <1>4
  <2> HIDE DEF R
  <2> QED  BY <2>1
<1> HIDE DEF R
<1>6. /\ \A j \in 0 .. n : off[j] \in Nat
      /\ off[0] = 0
      /\ \A j \in 1 .. n : off[j] = off[j - 1] + Len(L[j])
      /\ \A i, j \in 0 .. n : i <= j => off[i] <= off[j]
  BY <1>2 DEF Offsets
<1>7. Offsets(R, off)
  <2>1. \A j \in 1 .. n : off[j] = off[j - 1] + Len(R[j])
    BY <1>5, <1>6
  <2> QED  BY <1>5, <1>6, <2>1 DEF Offsets
<1>8. recs \in Seq(RecId) /\ Len(recs) = off[n] /\ Flattens(recs, R, n, off)
  <2>1. recs \in Seq(RecId) /\ Flattens(recs, R, n, off)
    BY <1>5, <1>7, FlattenIs
  <2> QED  BY <2>1 DEF Flattens
<1>9. \A j \in 0 .. n : upTo(j) = off[j]
  <2> SUFFICES ASSUME NEW j \in 0 .. n PROVE Len(FlattenSeq(SubSeq(R, 1, j))) = off[j]
    OBVIOUS
  <2> QED  BY <1>5, <1>7, PrefixLength
<1> HIDE DEF upTo, recs
<1> DEFINE keys == [j \in 1 .. n |-> [value |-> l.keys[low + j - 1].value, head |-> upTo(j - 1) + 1]]
           recId == [c \in Cell |-> IF c <= Len(recs) THEN recs[c] ELSE l.recId[c]]
           link == [c \in Cell |-> IF c >= Len(recs) \/ c \in last THEN AM_NULL ELSE c + 1]
<1>10. /\ m.keys = keys /\ m.recIdPtr = Len(recs) /\ m.recId = recId /\ m.link = link
       /\ m.freeListPtr = AM_NULL /\ m.numinfreeList = 0
       /\ m.nextLeafPage = l.nextLeafPage /\ m.pageType = l.pageType
       /\ m = [pageType |-> m.pageType, nextLeafPage |-> m.nextLeafPage, keys |-> m.keys,
               recIdPtr |-> m.recIdPtr, freeListPtr |-> m.freeListPtr,
               numinfreeList |-> m.numinfreeList, recId |-> m.recId, link |-> m.link]
  <2>1. Packed(l, low, high) = [l EXCEPT !.keys = keys, !.recIdPtr = Len(recs),
                                         !.recId = recId, !.link = link]
    BY <1>1 DEF Packed, recs, upTo, R
  <2>2. PICK p : p = Packed(l, low, high)
    OBVIOUS
  <2> HIDE DEF keys, recId, link
  <2>3. /\ p.keys = keys /\ p.recIdPtr = Len(recs) /\ p.recId = recId /\ p.link = link
        /\ p.nextLeafPage = l.nextLeafPage /\ p.pageType = l.pageType
        /\ p = [pageType |-> p.pageType, nextLeafPage |-> p.nextLeafPage, keys |-> p.keys,
                recIdPtr |-> p.recIdPtr, freeListPtr |-> p.freeListPtr,
                numinfreeList |-> p.numinfreeList, recId |-> p.recId, link |-> p.link]
    BY <1>1, <2>1, <2>2 DEF Leaf
  <2>4. m = [p EXCEPT !.freeListPtr = AM_NULL, !.numinfreeList = 0]
    BY <2>2 DEF AM_Compact
  <2> QED  BY <2>3, <2>4
<1>11. off[n] \in 0 .. MaxCell /\ off[n] \in Nat
  <2>1. off[n] \in Nat
    BY <1>6
  <2> QED  BY <1>1, <1>2, <2>1
<1>12. /\ m.keys \in Seq(Entry) /\ Len(m.keys) = n
       /\ \A j \in 1 .. n : /\ m.keys[j].value = l.keys[low + j - 1].value
                            /\ m.keys[j].head = off[j - 1] + 1
  <2>1. ASSUME NEW j \in 1 .. n
        PROVE  /\ keys[j] \in Entry
               /\ keys[j].value = l.keys[low + j - 1].value
               /\ keys[j].head = off[j - 1] + 1
    <3>1. j - 1 \in 0 .. n /\ j \in 0 .. n
      OBVIOUS
    <3>2. upTo(j - 1) = off[j - 1] /\ off[j - 1] \in Nat /\ off[j] <= off[n] /\ off[j - 1] < off[j] /\ off[j] \in Nat
      BY <1>2, <1>6, <1>9, <3>1
    <3>3. off[j - 1] + 1 \in CellPtr
      BY <1>11, <3>2, CellNumbers, SMTT(40)
    <3>4. l.keys[low + j - 1].value \in Value
      <4>1. PICK i \in 1 .. Len(l.keys) : i = low + j - 1
        BY <1>3
      <4> QED  BY <1>1, <4>1, LeafParts
    <3>5. keys[j] = [value |-> l.keys[low + j - 1].value, head |-> off[j - 1] + 1]
      BY <3>2
    <3> HIDE DEF keys
    <3> QED  BY <3>3, <3>4, <3>5 DEF Entry
  <2>2. keys \in [1 .. n -> Entry]
    <3>1. \A j \in 1 .. n : [value |-> l.keys[low + j - 1].value, head |-> upTo(j - 1) + 1] \in Entry
      BY <2>1
    <3> QED  BY <3>1
  <2> HIDE DEF keys
  <2>3. keys \in Seq(Entry) /\ Len(keys) = n
    BY <2>2
  <2> QED  BY <1>10, <2>1, <2>3
<1>13. m.recId \in [Cell -> RecId]
  <2>1. \A c \in Cell : c <= Len(recs) => recs[c] \in RecId
    BY <1>8, <1>11, CellNumbers
  <2>2. \A c \in Cell : l.recId[c] \in RecId
    BY <1>1
  <2>3. \A c \in Cell : (IF c <= Len(recs) THEN recs[c] ELSE l.recId[c]) \in RecId
    BY <2>1, <2>2
  <2>4. recId \in [Cell -> RecId]
    BY <2>3
  <2> HIDE DEF recId
  <2> QED  BY <1>10, <2>4
<1>14. m.link \in [Cell -> CellPtr]
  <2>1. \A c \in Cell : ~(c >= Len(recs)) => c + 1 \in CellPtr
    BY <1>1, <1>8, <1>11, CellNumbers
  <2>2. AM_NULL \in CellPtr
    BY CellNumbers DEF AM_NULL
  <2> HIDE DEF last
  <2> QED  BY <1>10, <2>1, <2>2
<1>15. m \in Leaf
  <2>1. m.pageType \in {"l"} /\ m.nextLeafPage \in AM_NULL_PAGE .. MaxPages - 1
    BY <1>1, <1>10, LeafParts
  <2>2. m.recIdPtr \in CellPtr /\ m.freeListPtr \in CellPtr /\ m.numinfreeList \in CellPtr
    BY <1>8, <1>10, <1>11, CellNumbers DEF AM_NULL
  <2> HIDE DEF keys, recId, link
  <2> QED  BY <1>10, <1>12, <1>13, <1>14, <2>1, <2>2 DEF Leaf
<1>16. ASSUME NEW c \in 1 .. off[n]
       PROVE  m.link[c] = IF \E j \in 1 .. n : c = off[j] THEN AM_NULL ELSE c + 1
  <2>1. c \in Cell
    BY <1>11, CellNumbers
  <2>2. c \in last <=> \E j \in 1 .. n : c = off[j]
    <3>1. \A j \in 1 .. n : j \in 0 .. n
      OBVIOUS
    <3> QED  BY <1>9, <3>1
  <2>3. c >= Len(recs) => c \in last
    <3>1. c >= Len(recs) => c = off[n]
      BY <1>8, <1>11
    <3>2. n # 0
      BY <1>6
    <3>3. n \in 1 .. n
      BY <3>2
    <3> HIDE DEF last
    <3> QED  BY <2>2, <3>1, <3>3
  <2> HIDE DEF last
  <2> QED  BY <1>10, <2>1, <2>2, <2>3
<1>17. InARow(m, n, off)
  <2>1. off[n] <= MaxCell
    BY <1>1, <1>11
  <2> HIDE DEF link, keys, recId, last
  <2> QED  BY <1>2, <1>6, <1>8, <1>10, <1>12, <1>16, <2>1 DEF InARow
<1>18. ASSUME NEW j \in 1 .. n
       PROVE  /\ off[j] = off[j - 1] + Len(RecIds(l, low + j - 1))
              /\ \A k \in 1 .. Len(RecIds(l, low + j - 1)) :
                   m.recId[off[j - 1] + k] = RecIds(l, low + j - 1)[k]
  <2>1. R[j] = RecIds(l, low + j - 1)
    BY DEF R
  <2>2. off[j] = off[j - 1] + Len(R[j])
    BY <1>5, <1>6
  <2>3. ASSUME NEW k \in 1 .. Len(R[j])
        PROVE  m.recId[off[j - 1] + k] = R[j][k]
    <3>1. PICK c : c = off[j - 1] + k
      OBVIOUS
    <3>2. c \in 1 .. Len(recs) /\ recs[c] = R[j][k]
      BY <1>8, <3>1 DEF Flattens
    <3>3. c \in Cell /\ c <= Len(recs)
      BY <1>8, <1>11, <3>2, CellNumbers, SMTT(40)
    <3> QED  BY <1>10, <3>1, <3>2, <3>3
  <2> QED  BY <2>1, <2>2, <2>3
<1> QED  BY <1>10, <1>12, <1>15, <1>17, <1>18 DEF Compacted
(* Fewer keys and fewer cells leave more room. *)
LEMMA GapGrows ==
  ASSUME NEW l, NEW m, Len(l.keys) \in Nat, Len(m.keys) \in Nat, Len(m.keys) <= Len(l.keys),
         l.recIdPtr \in Nat, m.recIdPtr \in Nat, NEW f \in Nat, m.recIdPtr + f <= l.recIdPtr
  PROVE  /\ Gap(l) \in Int /\ Gap(m) \in Int /\ f * CellSize \in Nat
         /\ Gap(m) >= Gap(l) + f * CellSize
<1>1. /\ LeafSpace \in Nat /\ EntrySize \in Nat /\ CellSize \in Nat
  BY AMLeafAssumption
<1>2. PICK a \in Nat, b \in Nat : a = Len(m.keys) * EntrySize /\ b = Len(l.keys) * EntrySize
  BY <1>1
<1>3. a <= b
  BY <1>1, <1>2, BytesGrow
<1>4. PICK c \in Nat, e \in Nat, g \in Nat :
        c = m.recIdPtr * CellSize /\ e = l.recIdPtr * CellSize /\ g = f * CellSize
  BY <1>1, SMTT(40)
<1>5. c + g <= e
  <2>1. (m.recIdPtr + f) * CellSize <= l.recIdPtr * CellSize
    BY <1>1, BytesGrow
  <2>2. (m.recIdPtr + f) * CellSize = m.recIdPtr * CellSize + f * CellSize
    BY <1>1, BytesAdd
  <2> QED  BY <1>4, <2>1, <2>2
<1>6. Gap(l) = LeafSpace - b - e /\ Gap(m) = LeafSpace - a - c
  BY <1>2, <1>4 DEF Gap
<1>7. f * CellSize = g
  BY <1>4
<1>8. ASSUME NEW x \in Int, NEW y \in Int, x = LeafSpace - b - e, y = LeafSpace - a - c
      PROVE  y >= x + g
  BY <1>1, <1>3, <1>5, <1>8
<1>9. LeafSpace - b - e \in Int /\ LeafSpace - a - c \in Int
  BY <1>1
<1>10. LeafSpace - a - c >= (LeafSpace - b - e) + g
  BY <1>8, <1>9
<1> QED  BY <1>6, <1>7, <1>9, <1>10

(* AM_Compact keeps a leaf good, and it has the room of its free cells. *)
CompactedGood(l, m, low, n) ==
    /\ GoodLeaf(m) /\ m.nextLeafPage = l.nextLeafPage /\ m.freeListPtr = AM_NULL
    /\ Len(m.keys) = n /\ \A j \in 1 .. n : m.keys[j].value = l.keys[low + j - 1].value
    /\ Gap(m) >= Gap(l) + l.numinfreeList * CellSize

LEMMA CompactGood ==
  ASSUME NEW l, GoodLeaf(l), NEW low \in Nat, low # 0, NEW n \in Nat, low + n <= Len(l.keys) + 1,
         NEW high, high = low + n - 1, NEW m, m = AM_Compact(l, low, high)
  PROVE  CompactedGood(l, m, low, n)
<1>1. l \in Leaf /\ Len(l.keys) \in Nat /\ l.recIdPtr \in Nat /\ l.numinfreeList \in Nat /\ Gap(l) >= 0
  BY LeafParts DEF GoodLeaf
<1>2. PICK off : Room(l, low, n, off)
  BY KeysHaveRoom
<1>3. Compacted(l, m, low, n, off)
  BY <1>2, CompactIs
<1>4. /\ m \in Leaf /\ m.nextLeafPage = l.nextLeafPage /\ Len(m.keys) = n
      /\ \A j \in 1 .. n : m.keys[j].value = l.keys[low + j - 1].value
      /\ m.numinfreeList = 0 /\ InARow(m, n, off)
  BY <1>3 DEF Compacted
<1>5. m.freeListPtr = AM_NULL /\ m.recIdPtr = off[n] /\ off[n] \in Nat
  BY <1>4 DEF InARow
<1>6. Gap(m) >= Gap(l) + l.numinfreeList * CellSize /\ Gap(m) >= 0
  <2>1. m.recIdPtr + l.numinfreeList <= l.recIdPtr
    BY <1>2, <1>5 DEF Room
  <2>2. n <= Len(l.keys)
    BY <1>1
  <2>3. /\ Gap(l) \in Int /\ Gap(m) \in Int /\ l.numinfreeList * CellSize \in Nat
        /\ Gap(m) >= Gap(l) + l.numinfreeList * CellSize
    BY <1>1, <1>4, <1>5, <2>1, <2>2, GapGrows
  <2>4. \A x, y \in Int : \A z \in Nat : x >= 0 /\ y >= x + z => y >= 0
    OBVIOUS
  <2> QED  BY <1>1, <2>3, <2>4
<1>7. \E o, d : Lists(m, o, d) /\ FreeCounted(m, d)
  <2>1. PICK o, d : Lists(m, o, d)
    BY <1>4, RowIsLists
  <2> QED  BY <1>4, <1>5, <2>1 DEF FreeCounted
<1>8. ASSUME NEW j \in 1 .. n PROVE m.keys[j].head # AM_NULL
  <2>1. m.keys[j].head = off[j - 1] + 1 /\ off[j - 1] \in Nat
    <3>1. j - 1 \in 0 .. n
      OBVIOUS
    <3> QED  BY <1>4, <3>1 DEF InARow
  <2> QED  BY <2>1 DEF AM_NULL
<1>9. Ascending(Values(m))
  <2>1. /\ Len(Values(m)) = n /\ \A j \in 1 .. n : Values(m)[j] = l.keys[low + j - 1].value
    BY <1>4, ValuesAre, ZenonT(60)
  <2>2. /\ Ascending(Values(l)) /\ Len(Values(l)) = Len(l.keys)
        /\ \A j \in 1 .. Len(l.keys) : Values(l)[j] = l.keys[j].value
    BY <1>1, ValuesAre DEF GoodLeaf
  <2>3. ASSUME NEW i \in 1 .. n, NEW j \in 1 .. n, i < j PROVE Values(m)[i] < Values(m)[j]
    <3>1. PICK a \in 1 .. Len(l.keys), b \in 1 .. Len(l.keys) : a = low + i - 1 /\ b = low + j - 1
      BY <1>1
    <3>2. a < b
      BY <2>3, <3>1
    <3>3. Values(l)[a] < Values(l)[b]
      BY <2>2, <3>2 DEF Ascending
    <3> QED  BY <2>1, <2>2, <3>1, <3>3
  <2> QED  BY <2>1, <2>3 DEF Ascending
<1> QED  BY <1>4, <1>5, <1>6, <1>7, <1>8, <1>9 DEF GoodLeaf, CompactedGood

-----------------------------------------------------------------------------
(* Inserting. *)

(* AM_InsertToLeafNotFound keeps a leaf with room good. *)
LEMMA InsertNotFoundGood ==
  ASSUME NEW l, GoodLeaf(l), NEW v \in Value, NEW i, Place(l, v, i),
         i <= Len(l.keys) => l.keys[i].value # v, NEW r \in RecId,
         Gap(l) >= EntrySize, l.freeListPtr # AM_NULL \/ Gap(l) >= EntrySize + CellSize,
         NEW m, m = AM_InsertToLeafNotFound(l, v, r, i)
  PROVE  /\ GoodLeaf(m) /\ m.nextLeafPage = l.nextLeafPage
         /\ Len(m.keys) = Len(l.keys) + 1 /\ m.keys[i].value = v
         /\ \A j \in 1 .. Len(l.keys) : m.keys[IF j < i THEN j ELSE j + 1].value = l.keys[j].value
<1>1. PICK e : e = [l EXCEPT !.keys = InsertAt(@, i, [value |-> v, head |-> AM_NULL])]
  OBVIOUS
<1>2. /\ GoodButFor(e, i) /\ i \in 1 .. Len(e.keys)
      /\ e.nextLeafPage = l.nextLeafPage /\ Len(e.keys) = Len(l.keys) + 1
      /\ e.keys[i].value = v /\ Gap(e) = Gap(l) - EntrySize
      /\ e.freeListPtr = l.freeListPtr
      /\ \A j \in 1 .. Len(l.keys) : e.keys[IF j < i THEN j ELSE j + 1] = l.keys[j]
  <2>1. KeyAdded(l, e, v, i)
    BY <1>1, NewKeyGood
  <2> QED  BY <2>1 DEF KeyAdded
<1>3. l \in Leaf /\ e \in Leaf /\ Len(l.keys) \in Nat /\ i \in 1 .. Len(l.keys) + 1
  BY <1>2, LeafParts DEF GoodLeaf, GoodButFor, Place
<1>4. Gap(l) \in Int /\ EntrySize \in Nat /\ CellSize \in Nat
  <2>1. l.recIdPtr \in Nat /\ l.recIdPtr + 0 <= l.recIdPtr
    BY <1>3, LeafParts
  <2>2. Gap(l) \in Int
    BY <1>3, <2>1, GapGrows
  <2> QED  BY <2>2, AMLeafAssumption
<1>5. e.freeListPtr # AM_NULL \/ Gap(e) >= CellSize
  BY <1>2, <1>4
<1>6. m = AM_InsertToLeafFound(e, r, i)
  BY <1>1 DEF AM_InsertToLeafNotFound
<1>7. GoodLeaf(m) /\ m.nextLeafPage = e.nextLeafPage /\ Values(m) = Values(e)
  BY <1>2, <1>5, <1>6, InsertFoundGood
<1>8. /\ Len(m.keys) = Len(e.keys)
      /\ \A j \in 1 .. Len(e.keys) : m.keys[j].value = e.keys[j].value
  <2>1. m \in Leaf
    BY <1>7 DEF GoodLeaf
  <2> QED  BY <1>3, <1>7, <2>1, ValuesAre
<1>9. ASSUME NEW j \in 1 .. Len(l.keys)
      PROVE  m.keys[IF j < i THEN j ELSE j + 1].value = l.keys[j].value
  <2>1. PICK p : p = IF j < i THEN j ELSE j + 1
    OBVIOUS
  <2>2. p \in 1 .. Len(e.keys)
    BY <1>2, <1>3, <2>1
  <2>3. e.keys[p] = l.keys[j]
    BY <1>2, <2>1
  <2> QED  BY <1>8, <2>1, <2>2, <2>3
<1> QED  BY <1>2, <1>7, <1>8, <1>9

(* Where i is v's place in a leaf, and found whether v is there. *)
FoundAt(l, v, i, found) ==
    /\ Place(l, v, i)
    /\ found <=> i <= Len(l.keys) /\ l.keys[i].value = v

(* AM_InsertintoLeaf keeps a leaf good. *)
LEMMA InsertintoLeafGood ==
  ASSUME NEW l, GoodLeaf(l), NEW v \in Value, NEW r \in RecId, NEW i, NEW found,
         FoundAt(l, v, i, found), NEW m, m = AM_InsertintoLeaf(l, v, r, i, found)
  PROVE  /\ GoodLeaf(m) /\ m.nextLeafPage = l.nextLeafPage
         /\ Len(m.keys) \in Nat /\ Len(m.keys) >= Len(l.keys)
         /\ Fits(l, found) => Len(m.keys) > 0
<1>1. /\ l \in Leaf /\ Len(l.keys) \in Nat /\ i \in 1 .. Len(l.keys) + 1
      /\ l.recIdPtr \in Nat /\ l.numinfreeList \in Nat
  BY LeafParts DEF GoodLeaf, FoundAt, Place
<1>2. PICK x \in Nat : x = l.numinfreeList * CellSize
  BY <1>1, Bytes
<1>3. Gap(l) \in Int /\ EntrySize \in Nat /\ CellSize \in Nat
  <2>1. l.recIdPtr + 0 <= l.recIdPtr
    BY <1>1
  <2>2. Gap(l) \in Int
    BY <1>1, <2>1, GapGrows
  <2> QED  BY <2>2, AMLeafAssumption
<1>4. CASE ~Fits(l, found)
  BY <1>1, <1>4 DEF AM_InsertintoLeaf
<1>5. CASE Fits(l, found) /\ found
  <2>1. m = AM_InsertToLeafFound(l, r, i)
    BY <1>5 DEF AM_InsertintoLeaf
  <2>2. l.freeListPtr # AM_NULL \/ Gap(l) >= CellSize
    BY <1>5 DEF Fits
  <2>3. i \in 1 .. Len(l.keys)
    BY <1>1, <1>5 DEF FoundAt
  <2>4. GoodButFor(l, i)
    BY DEF GoodLeaf, GoodButFor
  <2>5. GoodLeaf(m) /\ m.nextLeafPage = l.nextLeafPage /\ Values(m) = Values(l)
    BY <2>1, <2>2, <2>3, <2>4, InsertFoundGood
  <2>6. m \in Leaf
    BY <2>5 DEF GoodLeaf
  <2>7. Len(m.keys) = Len(l.keys)
    BY <1>1, <2>5, <2>6, ValuesAre
  <2> QED  BY <1>1, <2>3, <2>5, <2>7
<1>6. CASE Fits(l, found) /\ ~found
  <2>1. Place(l, v, i) /\ (i <= Len(l.keys) => l.keys[i].value # v)
    BY <1>6 DEF FoundAt
  <2>2. CASE l.freeListPtr = AM_NULL
    <3>1. m = AM_InsertToLeafNotFound(l, v, r, i)
      BY <1>6, <2>2 DEF AM_InsertintoLeaf
    <3>2. Gap(l) >= CellSize + EntrySize
      BY <1>6, <2>2 DEF Fits
    <3>3. Gap(l) >= EntrySize /\ Gap(l) >= EntrySize + CellSize
      BY <1>3, <3>2
    <3>4. GoodLeaf(m) /\ m.nextLeafPage = l.nextLeafPage /\ Len(m.keys) = Len(l.keys) + 1
      BY <2>1, <3>1, <3>3, InsertNotFoundGood
    <3> QED  BY <1>1, <3>4
  <2>3. CASE l.freeListPtr # AM_NULL /\ Gap(l) > EntrySize
    <3>1. m = AM_InsertToLeafNotFound(l, v, r, i)
      <4>1. ~(Gap(l) <= EntrySize)
        BY <1>3, <2>3
      <4> QED  BY <1>6, <4>1 DEF AM_InsertintoLeaf
    <3>2. Gap(l) >= EntrySize
      BY <1>3, <2>3
    <3>3. GoodLeaf(m) /\ m.nextLeafPage = l.nextLeafPage /\ Len(m.keys) = Len(l.keys) + 1
      BY <2>1, <2>3, <3>1, <3>2, InsertNotFoundGood
    <3> QED  BY <1>1, <3>3
  <2>4. CASE l.freeListPtr # AM_NULL /\ ~(Gap(l) > EntrySize)
    <3>1. PICK c : c = AM_Compact(l, 1, Len(l.keys))
      OBVIOUS
    <3>2. /\ GoodLeaf(c) /\ c.nextLeafPage = l.nextLeafPage /\ c.freeListPtr = AM_NULL
          /\ Len(c.keys) = Len(l.keys)
          /\ \A j \in 1 .. Len(l.keys) : c.keys[j].value = l.keys[1 + j - 1].value
          /\ Gap(c) >= Gap(l) + x
      <4>1. 1 + Len(l.keys) <= Len(l.keys) + 1 /\ Len(l.keys) = 1 + Len(l.keys) - 1
        BY <1>1
      <4>2. CompactedGood(l, c, 1, Len(l.keys))
        BY <1>1, <3>1, <4>1, CompactGood
      <4> QED  BY <1>2, <4>2 DEF CompactedGood
    <3>3. \A j \in 1 .. Len(l.keys) : c.keys[j].value = l.keys[j].value
      <4>1. \A j \in 1 .. Len(l.keys) : 1 + j - 1 = j
        BY <1>1
      <4> QED  BY <3>2, <4>1
    <3>4. Place(c, v, i) /\ (i <= Len(c.keys) => c.keys[i].value # v)
      <4>1. Place(c, v, i)
        BY <2>1, <3>2, <3>3 DEF Place
      <4>2. i <= Len(l.keys) => i \in 1 .. Len(l.keys)
        BY <1>1
      <4> QED  BY <2>1, <3>2, <3>3, <4>1, <4>2
    <3>5. m = AM_InsertToLeafNotFound(c, v, r, i)
      <4>1. Gap(l) <= EntrySize
        BY <1>3, <2>4
      <4> QED  BY <1>6, <2>4, <3>1, <4>1 DEF AM_InsertintoLeaf
    <3>6. x + Gap(l) > EntrySize + CellSize
      BY <1>2, <1>6, <2>4 DEF Fits
    <3>7. Gap(c) >= EntrySize /\ Gap(c) >= EntrySize + CellSize
      <4>1. Gap(c) \in Int
        <5>1. c \in Leaf
          BY <3>2 DEF GoodLeaf
        <5>2. Len(c.keys) \in Nat /\ c.recIdPtr \in Nat
          BY <5>1, LeafParts
        <5>3. c.recIdPtr + 0 <= c.recIdPtr /\ Len(c.keys) <= Len(c.keys)
          BY <5>2
        <5> QED  BY <5>2, <5>3, GapGrows
      <4> QED  BY <1>3, <3>2, <3>6, <4>1
    <3>8. GoodLeaf(m) /\ m.nextLeafPage = c.nextLeafPage /\ Len(m.keys) = Len(c.keys) + 1
      BY <3>2, <3>4, <3>5, <3>7, InsertNotFoundGood
    <3> QED  BY <1>1, <3>2, <3>8
  <2> QED  BY <2>2, <2>3, <2>4
<1> QED  BY <1>4, <1>5, <1>6
-----------------------------------------------------------------------------
(* Deleting. *)

(* The first place of an element that a sequence has. *)
FirstOf(s, r) == SelectInSeq(s, LAMBDA x : x = r)

LEMMA FirstIs ==
  ASSUME NEW Y, NEW s \in Seq(Y), NEW r, r \in Range(s), NEW k, k = FirstOf(s, r)
  PROVE  k \in 1 .. Len(s) /\ s[k] = r
<1> DEFINE I == {i \in 1 .. Len(s) : s[i] = r}
<1>1. I # {} /\ I \in SUBSET Nat
  BY DEF Range
<1>2. k = Min(I)
  BY <1>1 DEF FirstOf, SelectInSeq
<1>3. Min(I) \in I
  <2> HIDE DEF I
  <2> QED  BY <1>1, LeastNumber
<1> QED  BY <1>2, <1>3

(* What FreeRecord changes: cell c leaves the list of key i. *)
Freed(l, m, i, c) ==
    /\ m.nextLeafPage = l.nextLeafPage /\ m.pageType = l.pageType
    /\ m.recIdPtr = l.recIdPtr /\ m.recId = l.recId
    /\ m.freeListPtr = c /\ m.numinfreeList = l.numinfreeList + 1
    /\ m.link \in [Cell -> CellPtr] /\ m.link[c] = l.freeListPtr
    /\ \A b \in Taken(l) : b # c => m.link[b] = IF l.link[b] = c THEN l.link[c] ELSE l.link[b]
    /\ m.keys \in Seq(Entry) /\ Len(m.keys) = Len(l.keys)
    /\ \A j \in 1 .. Len(l.keys) :
         /\ m.keys[j].value = l.keys[j].value
         /\ m.keys[j].head = IF j = i /\ l.keys[i].head = c THEN l.link[c] ELSE l.keys[j].head
    /\ m = [pageType |-> m.pageType, nextLeafPage |-> m.nextLeafPage, keys |-> m.keys,
            recIdPtr |-> m.recIdPtr, freeListPtr |-> m.freeListPtr,
            numinfreeList |-> m.numinfreeList, recId |-> m.recId, link |-> m.link]

LEMMA FreeRecordIs ==
  ASSUME NEW l \in Leaf, NEW o, NEW d, Lists(l, o, d), NEW i \in 1 .. Len(l.keys),
         NEW r, r \in Range(RecIds(l, i)), NEW m, m = FreeRecord(l, i, r)
  PROVE  \E c \in Taken(l) : /\ o[c] = i /\ Freed(l, m, i, c)
                             /\ c = ListOf(l, i)[FirstOf(RecIds(l, i), r)]
<1> DEFINE s == ListOf(l, i)
           h == l.keys[i].head
<1>1. /\ Len(l.keys) \in Nat /\ i \in 0 .. Len(l.keys) /\ HeadOf(l, i) = h
      /\ l.keys \in Seq(Entry) /\ l.keys[i] \in Entry /\ h \in CellPtr
      /\ l.link \in [Cell -> CellPtr] /\ l.freeListPtr \in CellPtr /\ Taken(l) \subseteq Cell
      /\ o \in [Cell -> Nat] /\ d \in [Cell -> Nat]
  <2>1. Len(l.keys) \in Nat
    BY LeafParts
  <2>2. i \in 0 .. Len(l.keys) /\ HeadOf(l, i) = h
    BY <2>1 DEF HeadOf
  <2> QED  BY <2>1, <2>2, LeafParts DEF Lists
<1>2. /\ s \in Seq(Cell)
      /\ h = AM_NULL => s = << >>
      /\ h # AM_NULL => Len(s) = d[h] + 1
      /\ \A k \in 1 .. Len(s) : s[k] \in Taken(l) /\ o[s[k]] = i /\ d[s[k]] = Len(s) - k
  <2>1. PICK j \in 0 .. Len(l.keys) : j = i
    BY <1>1
  <2>2. /\ ListOf(l, j) \in Seq(Cell)
        /\ HeadOf(l, j) = AM_NULL => ListOf(l, j) = << >>
        /\ HeadOf(l, j) # AM_NULL => Len(ListOf(l, j)) = d[HeadOf(l, j)] + 1
        /\ \A k \in 1 .. Len(ListOf(l, j)) :
             /\ ListOf(l, j)[k] \in Taken(l) /\ o[ListOf(l, j)[k]] = j
             /\ d[ListOf(l, j)[k]] = Len(ListOf(l, j)) - k
    BY ListOfIs
  <2> QED  BY <1>1, <2>1, <2>2
<1>3. KeyCells(l, i) = s
  BY DEF KeyCells, ListOf, HeadOf
<1>4. RecIds(l, i) \in Seq(RecId) /\ Len(RecIds(l, i)) = Len(s)
  BY <1>2, RecIdsAre
<1>5. PICK k : k = FirstOf(RecIds(l, i), r)
  OBVIOUS
<1>6. k \in 1 .. Len(s)
  <2>1. k \in 1 .. Len(RecIds(l, i))
    BY <1>4, <1>5, FirstIs
  <2> QED  BY <1>4, <2>1
<1> HIDE DEF s
<1>7. PICK c \in Taken(l) : c = s[k] /\ o[c] = i /\ d[c] = Len(s) - k
  BY <1>2, <1>6
<1>8. c \in Cell /\ l.link[c] \in CellPtr /\ d[c] \in Nat /\ c \in CellPtr
  <2>1. c \in Cell
    BY <1>1, <1>7
  <2>2. c \in CellPtr
    BY <2>1, CellNumbers
  <2> QED  BY <1>1, <2>1, <2>2
<1>9. Len(s) \in Nat /\ h # AM_NULL /\ h \in Taken(l) /\ o[h] = i /\ Len(s) = d[h] + 1 /\ d[h] \in Nat
  <2>1. Len(s) \in Nat /\ s # << >>
    BY <1>2, <1>6
  <2>2. h # AM_NULL
    BY <1>2, <2>1
  <2>3. h \in Taken(l) /\ o[h] = i
    BY <1>1, <2>2 DEF Lists
  <2> QED  BY <1>1, <1>2, <2>1, <2>2, <2>3
<1>10. \A a, b \in Taken(l) : o[a] = o[b] /\ d[a] = d[b] => a = b
  BY DEF Lists
<1>11. k = 1 <=> h = c
  <2>1. k = 1 => d[c] = d[h]
    BY <1>7, <1>8, <1>9
  <2>2. k = 1 => h = c
    BY <1>7, <1>9, <1>10, <2>1
  <2>3. h = c => k = 1
    BY <1>6, <1>7, <1>8, <1>9, SMTT(40)
  <2> QED  BY <2>2, <2>3
<1>12. \A b \in Taken(l) : l.link[b] = c => o[b] = i /\ d[b] = d[c] + 1
  <2>1. c # AM_NULL
    BY <1>8, CellNumbers DEF AM_NULL
  <2> QED  BY <1>7, <2>1 DEF Lists
<1>13. CASE k = 1
  <2>1. m = [[l EXCEPT !.keys[i].head = l.link[c]] EXCEPT
               !.link[c] = l.freeListPtr, !.freeListPtr = c, !.numinfreeList = @ + 1]
    BY <1>3, <1>5, <1>7, <1>13 DEF FreeRecord, FirstOf
  <2>2. /\ m.nextLeafPage = l.nextLeafPage /\ m.pageType = l.pageType
        /\ m.recIdPtr = l.recIdPtr /\ m.recId = l.recId
        /\ m.freeListPtr = c /\ m.numinfreeList = l.numinfreeList + 1
        /\ m.link = [l.link EXCEPT ![c] = l.freeListPtr]
        /\ m.keys = [l.keys EXCEPT ![i] = [l.keys[i] EXCEPT !.head = l.link[c]]]
        /\ m = [pageType |-> m.pageType, nextLeafPage |-> m.nextLeafPage, keys |-> m.keys,
                recIdPtr |-> m.recIdPtr, freeListPtr |-> m.freeListPtr,
                numinfreeList |-> m.numinfreeList, recId |-> m.recId, link |-> m.link]
    BY <2>1 DEF Leaf
  <2>3. PICK e : e = [l.keys[i] EXCEPT !.head = l.link[c]]
    OBVIOUS
  <2>4. e \in Entry /\ e.head = l.link[c] /\ e.value = l.keys[i].value
    BY <1>1, <1>8, <2>3 DEF Entry
  <2>5. /\ m.keys \in Seq(Entry) /\ Len(m.keys) = Len(l.keys)
        /\ \A j \in 1 .. Len(l.keys) : m.keys[j] = IF j = i THEN e ELSE l.keys[j]
    BY <1>1, <2>2, <2>3, <2>4
  <2>6. \A j \in 1 .. Len(l.keys) :
          /\ m.keys[j].value = l.keys[j].value
          /\ m.keys[j].head = IF j = i /\ h = c THEN l.link[c] ELSE l.keys[j].head
    BY <1>11, <1>13, <2>4, <2>5
  <2>7. m.link \in [Cell -> CellPtr] /\ m.link[c] = l.freeListPtr
    BY <1>1, <1>8, <2>2
  <2>8. \A b \in Taken(l) : l.link[b] # c
    <3> SUFFICES ASSUME NEW b \in Taken(l), l.link[b] = c PROVE FALSE
      OBVIOUS
    <3>1. o[b] = i /\ d[b] = d[h] + 1
      BY <1>11, <1>12, <1>13
    <3>2. d[b] <= d[HeadOf(l, o[b])]
      BY DEF Lists
    <3> QED  BY <1>1, <1>9, <3>1, <3>2, SMTT(40)
  <2>9. \A b \in Taken(l) : b # c => m.link[b] = IF l.link[b] = c THEN l.link[c] ELSE l.link[b]
    BY <1>1, <1>8, <2>2, <2>8
  <2>10. Freed(l, m, i, c)
    BY <2>2, <2>5, <2>6, <2>7, <2>9 DEF Freed
  <2> QED  BY <1>5, <1>7, <2>10 DEF s
<1>14. CASE k # 1
  <2>1. PICK p : p = s[k - 1]
    OBVIOUS
  <2>2. p \in Taken(l) /\ o[p] = i /\ d[p] = d[c] + 1
    <3>1. k - 1 \in 1 .. Len(s)
      BY <1>6, <1>14
    <3>2. s[k - 1] \in Taken(l) /\ o[s[k - 1]] = i /\ d[s[k - 1]] = Len(s) - (k - 1)
      BY <1>2, <3>1
    <3> QED  BY <1>6, <1>7, <1>9, <2>1, <3>2
  <2>3. m = [[l EXCEPT !.link[p] = l.link[c]] EXCEPT
               !.link[c] = l.freeListPtr, !.freeListPtr = c, !.numinfreeList = @ + 1]
    BY <1>3, <1>5, <1>7, <1>14, <2>1 DEF FreeRecord, FirstOf
  <2>4. /\ m.nextLeafPage = l.nextLeafPage /\ m.pageType = l.pageType
        /\ m.recIdPtr = l.recIdPtr /\ m.recId = l.recId
        /\ m.freeListPtr = c /\ m.numinfreeList = l.numinfreeList + 1
        /\ m.link = [[l.link EXCEPT ![p] = l.link[c]] EXCEPT ![c] = l.freeListPtr]
        /\ m.keys = l.keys
        /\ m = [pageType |-> m.pageType, nextLeafPage |-> m.nextLeafPage, keys |-> m.keys,
                recIdPtr |-> m.recIdPtr, freeListPtr |-> m.freeListPtr,
                numinfreeList |-> m.numinfreeList, recId |-> m.recId, link |-> m.link]
    BY <2>3 DEF Leaf
  <2>5. p # c /\ p \in Cell
    BY <1>1, <1>8, <2>2
  <2>6. /\ m.link \in [Cell -> CellPtr] /\ m.link[c] = l.freeListPtr
        /\ \A b \in Cell : b # c => m.link[b] = IF b = p THEN l.link[c] ELSE l.link[b]
    BY <1>1, <1>8, <2>4, <2>5, ZenonT(60)
  <2>7. \A b \in Taken(l) : l.link[b] = c <=> b = p
    <3>1. \A b \in Taken(l) : l.link[b] = c => b = p
      BY <1>10, <1>12, <2>2
    <3>2. l.link[p] = c
      <4>1. l.link[p] # AM_NULL
        <5>1. l.link[p] = AM_NULL => d[p] = 0
          BY <2>2 DEF Lists
        <5> QED  BY <1>8, <2>2, <5>1
      <4>2. l.link[p] \in Taken(l) /\ o[l.link[p]] = o[p] /\ d[p] = d[l.link[p]] + 1
        BY <2>2, <4>1 DEF Lists
      <4>3. d[l.link[p]] \in Nat
        BY <1>1, <4>2
      <4>4. d[l.link[p]] = d[c]
        BY <1>8, <2>2, <4>2, <4>3, SMTT(40)
      <4> QED  BY <1>7, <1>10, <2>2, <4>2, <4>4
    <3> QED  BY <3>1, <3>2
  <2>8. \A b \in Taken(l) : b # c => m.link[b] = IF l.link[b] = c THEN l.link[c] ELSE l.link[b]
    BY <1>1, <2>6, <2>7
  <2>9. \A j \in 1 .. Len(l.keys) :
          /\ m.keys[j].value = l.keys[j].value
          /\ m.keys[j].head = IF j = i /\ h = c THEN l.link[c] ELSE l.keys[j].head
    BY <1>11, <1>14, <2>4
  <2>10. Freed(l, m, i, c)
    BY <1>1, <2>4, <2>6, <2>8, <2>9 DEF Freed
  <2> QED  BY <1>5, <1>7, <2>10 DEF s
<1> QED  BY <1>13, <1>14
LEMMA FreeRecordGood ==
  ASSUME NEW l, GoodLeaf(l), NEW i \in 1 .. Len(l.keys), NEW r, r \in Range(RecIds(l, i)),
         NEW m, m = FreeRecord(l, i, r)
  PROVE  GoodButFor(m, i) /\ m.nextLeafPage = l.nextLeafPage /\ Len(m.keys) = Len(l.keys)
<1>1. PICK o, d : Lists(l, o, d) /\ FreeCounted(l, d)
  BY DEF GoodLeaf
<1>2. /\ l \in Leaf /\ Len(l.keys) \in Nat /\ l.recIdPtr \in Nat /\ Taken(l) \subseteq Cell
      /\ l.freeListPtr \in CellPtr /\ l.numinfreeList \in Nat
      /\ d \in [Cell -> Nat]
  BY <1>1, LeafParts DEF GoodLeaf, Lists
<1>3. PICK c \in Taken(l) : o[c] = i /\ Freed(l, m, i, c)
  BY <1>1, <1>2, FreeRecordIs
<1>4. /\ m.nextLeafPage = l.nextLeafPage /\ m.pageType = l.pageType
      /\ m.recIdPtr = l.recIdPtr /\ m.recId = l.recId
      /\ m.freeListPtr = c /\ m.numinfreeList = l.numinfreeList + 1
      /\ m.link \in [Cell -> CellPtr] /\ m.link[c] = l.freeListPtr
      /\ \A b \in Taken(l) : b # c => m.link[b] = IF l.link[b] = c THEN l.link[c] ELSE l.link[b]
      /\ m.keys \in Seq(Entry) /\ Len(m.keys) = Len(l.keys)
      /\ \A j \in 1 .. Len(l.keys) :
           /\ m.keys[j].value = l.keys[j].value
           /\ m.keys[j].head = IF j = i /\ l.keys[i].head = c THEN l.link[c] ELSE l.keys[j].head
      /\ m = [pageType |-> m.pageType, nextLeafPage |-> m.nextLeafPage, keys |-> m.keys,
              recIdPtr |-> m.recIdPtr, freeListPtr |-> m.freeListPtr,
              numinfreeList |-> m.numinfreeList, recId |-> m.recId, link |-> m.link]
  BY <1>3 DEF Freed
<1>5. c # AM_NULL /\ c \in CellPtr
  BY <1>2, CellNumbers DEF AM_NULL
<1>6. Moves(l, m, o, d, i, 0, c)
  <2>1. HeadOf(l, 0) = l.freeListPtr /\ HeadOf(m, 0) = c
    BY <1>4 DEF HeadOf
  <2>2. HeadOf(m, i) = IF HeadOf(l, i) = c THEN l.link[c] ELSE HeadOf(l, i)
    BY <1>4 DEF HeadOf
  <2>3. \A k \in 0 .. Len(l.keys) : k # i /\ k # 0 => HeadOf(m, k) = HeadOf(l, k)
    <3>1. \A k \in 0 .. Len(l.keys) : k # 0 => k \in 1 .. Len(l.keys)
      BY <1>2
    <3> QED  BY <1>4, <3>1 DEF HeadOf
  <2>4. i \in 0 .. Len(l.keys) /\ 0 \in 0 .. Len(l.keys) /\ i # 0
    BY <1>2
  <2> QED  BY <1>1, <1>2, <1>3, <1>4, <2>1, <2>2, <2>3, <2>4 DEF Moves
<1>7. PICK o2, d2 : /\ Lists(m, o2, d2)
                    /\ d2[c] = IF HeadOf(l, 0) = AM_NULL THEN 0 ELSE d[HeadOf(l, 0)] + 1
  BY <1>6, MoveCell
<1>8. l.numinfreeList = d2[c]
  <2>1. HeadOf(l, 0) = l.freeListPtr
    BY DEF HeadOf
  <2> QED  BY <1>1, <1>7, <2>1 DEF FreeCounted
<1>9. FreeCounted(m, d2)
  BY <1>4, <1>5, <1>8 DEF FreeCounted
<1>10. m.numinfreeList \in CellPtr
  <2>1. m.recIdPtr \in CellPtr /\ c \in Taken(m)
    BY <1>2, <1>4, LeafParts DEF Taken
  <2>2. d2[c] + 1 <= m.recIdPtr
    BY <1>4, <1>7, <2>1, ListIs
  <2>3. l.numinfreeList + 1 <= m.recIdPtr /\ m.recIdPtr <= MaxCell /\ MaxCell \in Nat /\ m.recIdPtr \in Nat
    BY <1>2, <1>4, <1>8, <2>2, LeafParts, CellNumbers
  <2> QED  BY <1>2, <1>4, <2>3, CellNumbers, SMTT(40)
<1>11. m \in Leaf
  <2>1. /\ l.pageType \in {"l"} /\ l.nextLeafPage \in AM_NULL_PAGE .. MaxPages - 1
        /\ l.recIdPtr \in CellPtr /\ l.recId \in [Cell -> RecId]
    BY <1>2, LeafParts
  <2> QED  BY <1>4, <1>5, <1>10, <2>1 DEF Leaf
<1>12. Values(m) = Values(l)
  BY <1>2, <1>4, <1>11, SameValues
<1>13. Gap(m) >= 0
  <2>1. Gap(m) = Gap(l)
    BY <1>4 DEF Gap
  <2> QED  BY <2>1 DEF GoodLeaf
<1>14. \A j \in 1 .. Len(m.keys) : j # i => m.keys[j].head # AM_NULL
  BY <1>4 DEF GoodLeaf
<1>15. Ascending(Values(m))
  BY <1>12 DEF GoodLeaf
<1> QED  BY <1>4, <1>7, <1>9, <1>11, <1>13, <1>14, <1>15 DEF GoodButFor

(* A key without a list goes. *)
LEMMA RemoveKeyGood ==
  ASSUME NEW l, NEW i \in 1 .. Len(l.keys), GoodButFor(l, i), l.keys[i].head = AM_NULL,
         NEW m, m = [l EXCEPT !.keys = RemoveAt(@, i)]
  PROVE  GoodLeaf(m) /\ m.nextLeafPage = l.nextLeafPage
<1> DEFINE n == Len(l.keys)
           ks == RemoveAt(l.keys, i)
<1>1. l \in Leaf /\ n \in Nat /\ n # 0 /\ l.keys \in Seq(Entry) /\ l.recIdPtr \in Nat /\ Gap(l) >= 0
  <2>1. l \in Leaf
    BY DEF GoodButFor
  <2>2. n \in Nat
    BY <2>1, LeafParts
  <2> QED  BY <2>1, <2>2, LeafParts DEF GoodButFor
<1>2. i \in Nat /\ 1 <= i /\ i <= n
  BY <1>1
<1>3. /\ ks \in Seq(Entry) /\ Len(ks) = n - 1
      /\ \A p \in 1 .. Len(ks) : ks[p] = IF p < i THEN l.keys[p] ELSE l.keys[p + 1]
  BY <1>1, RemoveAtIs, SMTT(40)
<1>4. /\ m.keys = ks /\ m.link = l.link /\ m.recIdPtr = l.recIdPtr
      /\ m.freeListPtr = l.freeListPtr /\ m.numinfreeList = l.numinfreeList
      /\ m.nextLeafPage = l.nextLeafPage
  BY <1>1 DEF Leaf
<1> HIDE DEF ks
<1>5. m \in Leaf
  BY <1>1, <1>3, <1>4 DEF Leaf, ks
<1>6. Len(m.keys) = n - 1 /\ n - 1 \in Nat
  BY <1>1, <1>3, <1>4
<1>7. ASSUME NEW p \in 1 .. n - 1
      PROVE  \E j \in 1 .. n : j # i /\ j = (IF p < i THEN p ELSE p + 1) /\ m.keys[p] = l.keys[j]
  <2>1. PICK j : j = IF p < i THEN p ELSE p + 1
    OBVIOUS
  <2>2. j \in 1 .. n /\ j # i
    BY <1>1, <1>2, <2>1
  <2>3. m.keys[p] = l.keys[j]
    BY <1>3, <1>4, <2>1
  <2> QED  BY <2>1, <2>2, <2>3
<1>8. Gap(m) >= 0
  <2>1. n - 1 <= n /\ m.recIdPtr + 0 <= l.recIdPtr /\ m.recIdPtr \in Nat
    BY <1>1, <1>4
  <2>2. PICK x : x = 0 * CellSize
    OBVIOUS
  <2>3. Gap(l) \in Int /\ Gap(m) \in Int /\ x \in Nat /\ Gap(m) >= Gap(l) + x
    BY <1>1, <1>6, <2>1, <2>2, GapGrows
  <2> HIDE DEF n
  <2> QED  BY <1>1, <2>3
<1>9. ASSUME NEW p \in 1 .. n - 1 PROVE m.keys[p].head # AM_NULL
  <2>1. PICK j \in 1 .. n : j # i /\ m.keys[p] = l.keys[j]
    BY <1>7
  <2> QED  BY <2>1 DEF GoodButFor
<1>10. Ascending(Values(m))
  <2>1. /\ Len(Values(m)) = n - 1 /\ \A p \in 1 .. n - 1 : Values(m)[p] = m.keys[p].value
    BY <1>5, <1>6, ValuesAre
  <2>2. /\ Ascending(Values(l)) /\ Len(Values(l)) = n
        /\ \A j \in 1 .. n : Values(l)[j] = l.keys[j].value
    BY <1>1, ValuesAre DEF GoodButFor
  <2>3. ASSUME NEW p \in 1 .. n - 1, NEW q \in 1 .. n - 1, p < q
        PROVE  Values(m)[p] < Values(m)[q]
    <3>1. PICK j \in 1 .. n : j = (IF p < i THEN p ELSE p + 1) /\ m.keys[p] = l.keys[j]
      BY <1>7
    <3>2. PICK k \in 1 .. n : k = (IF q < i THEN q ELSE q + 1) /\ m.keys[q] = l.keys[k]
      BY <1>7
    <3>3. j < k
      BY <1>2, <2>3, <3>1, <3>2
    <3>4. Values(l)[j] < Values(l)[k]
      BY <2>2, <3>3 DEF Ascending
    <3> QED  BY <2>1, <2>2, <3>1, <3>2, <3>4, ZenonT(60)
  <2> QED  BY <2>1, <2>3 DEF Ascending
<1>11. \E o, d : Lists(m, o, d) /\ FreeCounted(m, d)
  <2>1. PICK o, d : Lists(l, o, d) /\ FreeCounted(l, d)
    BY DEF GoodButFor
  <2> DEFINE at == [j \in 0 .. n |-> IF j < i THEN j ELSE j - 1]
  <2>2. ASSUME NEW j \in 0 .. n, HeadOf(l, j) # AM_NULL
        PROVE  at[j] \in 0 .. n - 1 /\ HeadOf(m, at[j]) = HeadOf(l, j)
    <3>1. CASE j = 0
      <4>1. at[j] = 0
        BY <1>1, <1>2, <3>1
      <4> HIDE DEF at
      <4> QED  BY <1>4, <1>6, <3>1, <4>1 DEF HeadOf
    <3>2. CASE j # 0
      <4>1. j # i
        BY <1>2, <2>2 DEF HeadOf
      <4>2. PICK p : p = IF j < i THEN j ELSE j - 1
        OBVIOUS
      <4>3. p \in 1 .. n - 1 /\ p # 0 /\ p \in 0 .. n - 1 /\ j = IF p < i THEN p ELSE p + 1
        BY <1>1, <1>2, <3>2, <4>1, <4>2
      <4>4. m.keys[p] = l.keys[j]
        BY <1>7, <4>3
      <4>5. at[j] = p
        BY <4>2
      <4> HIDE DEF at
      <4> QED  BY <3>2, <4>3, <4>4, <4>5 DEF HeadOf
    <3> QED  BY <3>1, <3>2
  <2>3. ASSUME NEW k \in 0 .. n - 1, HeadOf(m, k) # AM_NULL
        PROVE  \E j \in 0 .. n : at[j] = k /\ HeadOf(l, j) = HeadOf(m, k)
    <3>1. CASE k = 0
      <4>1. 0 \in 0 .. n /\ at[0] = 0
        BY <1>1, <1>2
      <4> HIDE DEF at
      <4> QED  BY <1>4, <3>1, <4>1 DEF HeadOf
    <3>2. CASE k # 0
      <4>1. k \in 1 .. n - 1
        BY <1>6, <3>2
      <4>2. PICK j \in 1 .. n : j = (IF k < i THEN k ELSE k + 1) /\ m.keys[k] = l.keys[j]
        BY <1>7, <4>1
      <4>3. j \in 0 .. n /\ at[j] = k
        BY <1>1, <1>2, <4>2
      <4>4. j # 0
        BY <1>1
      <4> HIDE DEF at
      <4> QED  BY <3>2, <4>2, <4>3, <4>4 DEF HeadOf
    <3> QED  BY <3>1, <3>2
  <2> HIDE DEF at
  <2>4. Renumbers(l, m, o, d, at)
    <3>1. Taken(l) \subseteq Cell
      BY <1>1, LeafParts
    <3> QED  BY <1>1, <1>4, <1>6, <2>1, <2>2, <2>3, <3>1 DEF Renumbers
  <2>5. PICK o2 : Lists(m, o2, d)
    BY <2>4, Renumber
  <2>6. FreeCounted(m, d)
    BY <1>4, <2>1 DEF FreeCounted
  <2> QED  BY <2>5, <2>6
<1> QED  BY <1>4, <1>5, <1>6, <1>8, <1>9, <1>10, <1>11 DEF GoodLeaf

(* DeleteFromLeaf keeps a leaf good. *)
LEMMA DeleteGood ==
  ASSUME NEW l, GoodLeaf(l), NEW i \in 1 .. Len(l.keys), NEW r, r \in Range(RecIds(l, i)),
         NEW m, m = DeleteFromLeaf(l, i, r)
  PROVE  GoodLeaf(m) /\ m.nextLeafPage = l.nextLeafPage
<1>1. PICK f : f = FreeRecord(l, i, r)
  OBVIOUS
<1>2. GoodButFor(f, i) /\ f.nextLeafPage = l.nextLeafPage /\ Len(f.keys) = Len(l.keys)
  BY <1>1, FreeRecordGood
<1>3. CASE f.keys[i].head = AM_NULL
  <2>1. m = [f EXCEPT !.keys = RemoveAt(@, i)]
    BY <1>1, <1>3 DEF DeleteFromLeaf
  <2> QED  BY <1>2, <1>3, <2>1, RemoveKeyGood
<1>4. CASE f.keys[i].head # AM_NULL
  <2>1. m = f
    BY <1>1, <1>4 DEF DeleteFromLeaf
  <2> QED  BY <1>2, <1>4, <2>1 DEF GoodLeaf, GoodButFor
<1> QED  BY <1>3, <1>4

(* What the search tells of a leaf. *)
LEMMA FoundIs ==
  ASSUME NEW l, GoodLeaf(l), NEW v \in Value
  PROVE  FoundAt(l, v, AM_SearchLeaf(Values(l), v), Found(Values(l), v))
<1>1. l \in Leaf /\ Ascending(Values(l))
  BY DEF GoodLeaf
<1>2. PICK i : i = AM_SearchLeaf(Values(l), v)
  OBVIOUS
<1>3. Place(l, v, i)
  BY <1>1, <1>2, PlaceIs
<1>4. i \in 1 .. Len(l.keys) + 1 /\ Len(l.keys) \in Nat
  BY <1>1, <1>3, LeafParts DEF Place
<1>5. Len(Values(l)) = Len(l.keys) /\ \A j \in 1 .. Len(l.keys) : Values(l)[j] = l.keys[j].value
  BY <1>1, ValuesAre
<1>6. Found(Values(l), v) <=> i <= Len(l.keys) /\ Values(l)[i] = v
  BY <1>2, <1>5 DEF Found
<1>7. i <= Len(l.keys) => Values(l)[i] = l.keys[i].value
  BY <1>4, <1>5
<1> QED  BY <1>2, <1>3, <1>6, <1>7 DEF FoundAt

(* A record id that is in the list of v. *)
LEMMA RecordIn ==
  ASSUME NEW l, GoodLeaf(l), NEW v \in Value, NEW r, Contains(RecordsIn(l, v), r),
         NEW i, i = AM_SearchLeaf(Values(l), v)
  PROVE  i \in 1 .. Len(l.keys) /\ r \in Range(RecIds(l, i)) /\ Found(Values(l), v)
<1>1. FoundAt(l, v, i, Found(Values(l), v))
  BY FoundIs
<1>2. Found(Values(l), v) /\ RecordsIn(l, v) = RecIds(l, i)
  <2>1. ~Contains(<< >>, r)
    BY DEF Contains
  <2> QED  BY <2>1 DEF RecordsIn
<1>3. l \in Leaf /\ Len(l.keys) \in Nat
  BY LeafParts DEF GoodLeaf
<1>4. i \in 1 .. Len(l.keys)
  BY <1>1, <1>2, <1>3 DEF FoundAt, Place
<1>5. RecIds(l, i) \in Seq(RecId)
  <2>1. PICK o, d : Lists(l, o, d)
    BY DEF GoodLeaf
  <2>2. i \in 0 .. Len(l.keys)
    BY <1>4
  <2>3. ListOf(l, i) \in Seq(Cell)
    BY <1>3, <2>1, <2>2, ListOfIs
  <2> QED  BY <1>3, <1>4, <2>3, RecIdsAre
<1>6. r \in Range(RecIds(l, i))
  BY <1>2, <1>5 DEF Contains, Range
<1> QED  BY <1>2, <1>4, <1>6

-----------------------------------------------------------------------------
(* A new leaf. *)

LEMMA EmptyGood ==
  /\ GoodLeaf(EmptyLeaf) /\ EmptyLeaf.nextLeafPage = AM_NULL_PAGE
<1>1. /\ EmptyLeaf.pageType = "l" /\ EmptyLeaf.nextLeafPage = AM_NULL_PAGE
      /\ EmptyLeaf.keys = << >> /\ EmptyLeaf.recIdPtr = 0 /\ EmptyLeaf.freeListPtr = AM_NULL
      /\ EmptyLeaf.numinfreeList = 0
  BY DEF EmptyLeaf
<1>2. EmptyLeaf \in Leaf
  <2>1. 0 \in CellPtr /\ AM_NULL \in CellPtr
    BY CellNumbers DEF AM_NULL
  <2>2. (CHOOSE r \in RecId : TRUE) \in RecId
    BY AMLeafAssumption
  <2>3. AM_NULL_PAGE \in AM_NULL_PAGE .. MaxPages - 1
    BY AMLeafAssumption DEF AM_NULL_PAGE
  <2>4. << >> \in Seq(Entry)
    OBVIOUS
  <2> QED  BY <2>1, <2>2, <2>3, <2>4 DEF EmptyLeaf, Leaf
<1>3. \E o, d : Lists(EmptyLeaf, o, d) /\ FreeCounted(EmptyLeaf, d)
  <2> DEFINE z == [c \in Cell |-> 0]
  <2>1. z \in [Cell -> Nat]
    OBVIOUS
  <2>2. \A c \in Taken(EmptyLeaf) : FALSE
    BY <1>1 DEF Taken
  <2>3. \A i \in 0 .. Len(EmptyLeaf.keys) : HeadOf(EmptyLeaf, i) = AM_NULL
    BY <1>1 DEF HeadOf
  <2> HIDE DEF z
  <2>4. Lists(EmptyLeaf, z, z)
    BY <2>1, <2>2, <2>3 DEF Lists
  <2> QED  BY <1>1, <2>4 DEF FreeCounted
<1>4. Gap(EmptyLeaf) >= 0
  <2>1. Gap(EmptyLeaf) = LeafSpace - 0 * EntrySize - 0 * CellSize
    BY <1>1 DEF Gap
  <2> QED  BY <2>1, AMLeafAssumption
<1>5. Ascending(Values(EmptyLeaf)) /\ \A i \in 1 .. Len(EmptyLeaf.keys) : EmptyLeaf.keys[i].head # AM_NULL
  BY <1>1 DEF Ascending, Values
<1> QED  BY <1>1, <1>2, <1>3, <1>4, <1>5 DEF GoodLeaf

(* The number of the next leaf does not matter. *)
LEMMA NextGood ==
  ASSUME NEW l, GoodLeaf(l), NEW q \in AM_NULL_PAGE .. MaxPages - 1,
         NEW m, m = [l EXCEPT !.nextLeafPage = q]
  PROVE  GoodLeaf(m) /\ m.nextLeafPage = q
<1>1. l \in Leaf
  BY DEF GoodLeaf
<1>2. /\ m \in Leaf /\ m.nextLeafPage = q /\ m.keys = l.keys /\ m.recIdPtr = l.recIdPtr
      /\ m.freeListPtr = l.freeListPtr /\ m.numinfreeList = l.numinfreeList
      /\ m.link = l.link
  BY <1>1 DEF Leaf
<1>3. Values(m) = Values(l) /\ Gap(m) = Gap(l) /\ Taken(m) = Taken(l)
  BY <1>2 DEF Values, Gap, Taken
<1>4. PICK o, d : Lists(l, o, d) /\ FreeCounted(l, d)
  BY DEF GoodLeaf
<1>5. \A i : HeadOf(m, i) = HeadOf(l, i)
  BY <1>2 DEF HeadOf
<1>6. Lists(m, o, d)
  <2>1. ASSUME NEW c \in Taken(l)
        PROVE  /\ o[c] <= Len(m.keys)
               /\ HeadOf(m, o[c]) # AM_NULL /\ d[c] <= d[HeadOf(m, o[c])]
               /\ m.link[c] = AM_NULL => d[c] = 0
               /\ m.link[c] # AM_NULL =>
                    m.link[c] \in Taken(l) /\ o[m.link[c]] = o[c] /\ d[c] = d[m.link[c]] + 1
    BY <1>2, <1>4, <1>5, ZenonT(60) DEF Lists
  <2>2. \A i \in 0 .. Len(m.keys) :
          HeadOf(m, i) # AM_NULL => HeadOf(m, i) \in Taken(l) /\ o[HeadOf(m, i)] = i
    BY <1>2, <1>4, <1>5 DEF Lists
  <2>3. o \in [Cell -> Nat] /\ d \in [Cell -> Nat]
    BY <1>4 DEF Lists
  <2>4. \A b, c \in Taken(l) : o[b] = o[c] /\ d[b] = d[c] => b = c
    BY <1>4 DEF Lists
  <2> QED  BY <1>3, <2>1, <2>2, <2>3, <2>4 DEF Lists
<1>7. FreeCounted(m, d)
  BY <1>2, <1>4 DEF FreeCounted
<1> QED  BY <1>2, <1>3, <1>6, <1>7 DEF GoodLeaf
-----------------------------------------------------------------------------
(* Splitting. *)

(* An empty leaf without a cell takes what is inserted. *)
LEMMA EmptyFits ==
  ASSUME NEW l, Len(l.keys) = 0, l.recIdPtr = 0, l.freeListPtr = AM_NULL
  PROVE  Fits(l, FALSE)
<1>1. Gap(l) = LeafSpace - 0 * EntrySize - 0 * CellSize
  BY DEF Gap
<1>2. Gap(l) >= CellSize + EntrySize
  BY <1>1, AMLeafAssumption
<1> QED  BY <1>2 DEF Fits

(* Both halves of a leaf, with v where it belongs. *)
Split(l, h, q) ==
    /\ GoodLeaf(h.first) /\ h.first.nextLeafPage = q
    /\ GoodLeaf(h.second) /\ h.second.nextLeafPage = l.nextLeafPage
    /\ Len(h.second.keys) > 0

LEMMA HalvesGood ==
  ASSUME NEW l, GoodLeaf(l), NEW v \in Value, NEW r \in RecId,
         NEW q \in AM_NULL_PAGE .. MaxPages - 1, NEW h, h = Halves(l, v, r, q)
  PROVE  Split(l, h, q)
<1> DEFINE n == Len(l.keys)
           half == n \div 2
           i == AM_SearchLeaf(Values(l), v)
           found == Found(Values(l), v)
           low == AM_Compact(l, 1, half)
           high == AM_Compact(l, half + 1, n)
           first == IF i <= half THEN AM_InsertintoLeaf(low, v, r, i, found) ELSE low
           second == IF i <= half THEN high ELSE AM_InsertintoLeaf(high, v, r, i - half, found)
<1>1. l \in Leaf /\ n \in Nat /\ half \in Nat /\ half <= n /\ (n > 0 => half < n) /\ n - half \in Nat
  <2>1. l \in Leaf
    BY DEF GoodLeaf
  <2>2. n \in Nat
    BY <2>1, LeafParts
  <2> HIDE DEF n
  <2> QED  BY <2>1, <2>2
<1>2. Place(l, v, i)
  BY <1>1, PlaceIs DEF GoodLeaf
<1>3. found <=> i <= n /\ l.keys[i].value = v
  <2>1. i \in 1 .. n + 1
    BY <1>2 DEF Place
  <2>2. /\ Len(Values(l)) = n
        /\ \A j \in 1 .. n : Values(l)[j] = l.keys[j].value
    BY <1>1, ValuesAre
  <2>3. found <=> i <= Len(Values(l)) /\ Values(l)[i] = v
    BY DEF Found
  <2>4. i <= n => i \in 1 .. n
    BY <1>1, <2>1
  <2> HIDE DEF i, found, n
  <2> QED  BY <2>2, <2>3, <2>4
<1>4. h.first = [first EXCEPT !.nextLeafPage = q] /\ h.second = second
  BY DEF Halves
<1> HIDE DEF i, found, half
<1>5. /\ i \in 1 .. n + 1
      /\ \A j \in 1 .. n : IF j < i THEN l.keys[j].value < v ELSE v <= l.keys[j].value
  BY <1>2 DEF Place
<1>6. /\ GoodLeaf(low) /\ low.nextLeafPage = l.nextLeafPage /\ Len(low.keys) = half
      /\ \A j \in 1 .. half : low.keys[j].value = l.keys[j].value
  <2>1. 1 + half <= n + 1 /\ half = 1 + half - 1 /\ 1 \in Nat /\ 1 # 0
    BY <1>1
  <2>2. PICK c : c = AM_Compact(l, 1, half)
    OBVIOUS
  <2>3. /\ GoodLeaf(c) /\ c.nextLeafPage = l.nextLeafPage /\ Len(c.keys) = half
        /\ \A j \in 1 .. half : c.keys[j].value = l.keys[1 + j - 1].value
    BY <1>1, <2>1, <2>2, CompactGood DEF CompactedGood
  <2>4. \A j \in 1 .. half : 1 + j - 1 = j
    BY <1>1
  <2> QED  BY <2>2, <2>3, <2>4
<1>7. /\ GoodLeaf(high) /\ high.nextLeafPage = l.nextLeafPage /\ Len(high.keys) = n - half
      /\ \A j \in 1 .. n - half : high.keys[j].value = l.keys[half + j].value
      /\ high.freeListPtr = AM_NULL
  <2>1. PICK a \in Nat, k \in Nat : /\ a = half + 1 /\ k = n - half /\ a # 0
                                    /\ a + k <= n + 1 /\ n = a + k - 1
    <3>1. half + 1 \in Nat /\ n - half \in Nat /\ half + 1 # 0
      BY <1>1
    <3>2. \A x, y \in Nat : (y + 1) + (x - y) <= x + 1 /\ x = (y + 1) + (x - y) - 1
      OBVIOUS
    <3>3. n \in Nat /\ half \in Nat
      BY <1>1
    <3> HIDE DEF n
    <3> QED  BY <3>1, <3>2, <3>3
  <2>2. PICK c : c = AM_Compact(l, a, n)
    OBVIOUS
  <2>3. CompactedGood(l, c, a, k)
    <3>1. a + k <= Len(l.keys) + 1
      BY <2>1
    <3>2. PICK e : e = n /\ e = a + k - 1
      BY <2>1
    <3>3. c = AM_Compact(l, a, e)
      BY <2>2, <3>2
    <3> QED  BY <2>1, <3>1, <3>2, <3>3, CompactGood
  <2>4. \A j \in 1 .. k : a + j - 1 = half + j
    BY <1>1, <2>1
  <2>5. high = c
    BY <2>1, <2>2
  <2> QED  BY <2>1, <2>3, <2>4, <2>5, ZenonT(60) DEF CompactedGood
<1>8. n = 0 => high.recIdPtr = 0
  <2> SUFFICES ASSUME n = 0 PROVE high.recIdPtr = 0
    OBVIOUS
  <2>1. half = 0 /\ n = 1 + 0 - 1 /\ 1 + 0 <= n + 1 /\ 1 \in Nat /\ 1 # 0 /\ 0 \in Nat
    BY <1>1
  <2>2. PICK off : Room(l, 1, 0, off)
    BY <1>1, <2>1, KeysHaveRoom
  <2>3. PICK c : c = AM_Compact(l, 1, n)
    OBVIOUS
  <2>4. Compacted(l, c, 1, 0, off)
    BY <1>1, <2>1, <2>2, <2>3, CompactIs
  <2>5. c.recIdPtr = 0
    BY <2>4 DEF Compacted, InARow
  <2>6. high = c
    BY <2>1, <2>3
  <2> QED  BY <2>5, <2>6
<1> HIDE DEF low, high, half
<1>9. GoodLeaf(first) /\ first.nextLeafPage = l.nextLeafPage
  <2>1. CASE i <= half
    <3>1. Place(low, v, i)
      <4>1. i \in 1 .. half + 1
        BY <1>1, <1>5, <2>1
      <4>2. \A j \in 1 .. half : j \in 1 .. n
        BY <1>1
      <4>3. \A j \in 1 .. half : IF j < i THEN low.keys[j].value < v ELSE v <= low.keys[j].value
        BY <1>5, <1>6, <4>2
      <4> QED  BY <1>6, <4>1, <4>3 DEF Place
    <3>2. found <=> i <= Len(low.keys) /\ low.keys[i].value = v
      <4>1. i \in 1 .. half /\ i <= n
        BY <1>1, <1>5, <2>1
      <4> QED  BY <1>3, <1>6, <2>1, <4>1
    <3>3. FoundAt(low, v, i, found)
      BY <3>1, <3>2 DEF FoundAt
    <3>4. first = AM_InsertintoLeaf(low, v, r, i, found)
      BY <2>1
    <3> HIDE DEF first
    <3>5. GoodLeaf(first) /\ first.nextLeafPage = low.nextLeafPage
      BY <1>6, <3>3, <3>4, InsertintoLeafGood
    <3> QED  BY <1>6, <3>5
  <2>2. CASE ~(i <= half)
    BY <1>6, <2>2
  <2> QED  BY <2>1, <2>2
<1>10. GoodLeaf(second) /\ second.nextLeafPage = l.nextLeafPage /\ Len(second.keys) > 0
  <2>1. CASE i <= half
    <3>1. n > 0 /\ n - half > 0
      BY <1>1, <1>5, <2>1
    <3> QED  BY <1>7, <2>1, <3>1
  <2>2. CASE ~(i <= half)
    <3>1. PICK k \in Nat : k = i - half
      BY <1>1, <1>5, <2>2
    <3>2. Place(high, v, k)
      <4>1. k \in 1 .. (n - half) + 1
        BY <1>1, <1>5, <2>2, <3>1
      <4>2. ASSUME NEW j \in 1 .. n - half
            PROVE  IF j < k THEN high.keys[j].value < v ELSE v <= high.keys[j].value
        <5>1. PICK e \in 1 .. n : e = half + j
          BY <1>1
        <5>2. j < k <=> e < i
          BY <1>1, <1>5, <3>1, <5>1
        <5>3. high.keys[j].value = l.keys[e].value
          BY <1>7, <5>1
        <5> QED  BY <1>5, <5>2, <5>3
      <4> QED  BY <1>7, <4>1, <4>2 DEF Place
    <3>3. found <=> k <= Len(high.keys) /\ high.keys[k].value = v
      <4>1. k <= n - half <=> i <= n
        BY <1>1, <1>5, <3>1
      <4>2. k <= n - half => high.keys[k].value = l.keys[i].value
        <5> SUFFICES ASSUME k <= n - half PROVE high.keys[k].value = l.keys[i].value
          OBVIOUS
        <5>1. k \in 1 .. n - half /\ half + k = i
          BY <1>1, <1>5, <2>2, <3>1
        <5> QED  BY <1>7, <5>1
      <4> QED  BY <1>3, <1>7, <4>1, <4>2
    <3>4. FoundAt(high, v, k, found)
      BY <3>2, <3>3 DEF FoundAt
    <3>5. second = AM_InsertintoLeaf(high, v, r, k, found)
      BY <2>2, <3>1
    <3> HIDE DEF second
    <3>6. /\ GoodLeaf(second) /\ second.nextLeafPage = high.nextLeafPage
          /\ Len(second.keys) \in Nat /\ Len(second.keys) >= Len(high.keys)
          /\ Fits(high, found) => Len(second.keys) > 0
      BY <1>7, <3>4, <3>5, InsertintoLeafGood
    <3>7. Len(second.keys) > 0
      <4>1. CASE n = 0
        <5>1. ~found
          BY <1>1, <1>3, <1>5, <4>1
        <5>2. Len(high.keys) = 0 /\ high.recIdPtr = 0 /\ high.freeListPtr = AM_NULL
          BY <1>1, <1>7, <1>8, <4>1
        <5>3. Fits(high, FALSE)
          BY <5>2, EmptyFits
        <5>4. Fits(high, found)
          BY <5>1, <5>3 DEF Fits
        <5> QED  BY <3>6, <5>4
      <4>2. CASE n # 0
        <5>1. n - half > 0
          BY <1>1, <4>2
        <5> QED  BY <1>1, <1>7, <3>6, <5>1
      <4> QED  BY <4>1, <4>2
    <3> QED  BY <1>7, <3>6, <3>7
  <2> QED  BY <2>1, <2>2
<1> HIDE DEF first, second
<1>11. GoodLeaf(h.first) /\ h.first.nextLeafPage = q
  BY <1>4, <1>9, NextGood
<1> QED  BY <1>4, <1>10, <1>11 DEF Split

-----------------------------------------------------------------------------
(***************************************************************************)
(* What a leaf says: for each value the sequence of its record ids.  Every *)
(* operation on a good leaf does to it what its name tells, and nothing    *)
(* else, wherever the cells are.                                           *)
(***************************************************************************)

(* The cells of s, one after the other, are a list. *)
Linked(l, s) ==
    /\ s \in Seq(Cell)
    /\ \A k \in 1 .. Len(s) : l.link[s[k]] = IF k = Len(s) THEN AM_NULL ELSE s[k + 1]
    /\ \A j, k \in 1 .. Len(s) : s[j] = s[k] => j = k

FirstCell(s) == IF s = << >> THEN AM_NULL ELSE s[1]

LEMMA LinkedShort ==
  ASSUME NEW l, NEW s, Linked(l, s)
  PROVE  Len(s) \in Nat /\ Len(s) <= MaxCell /\ FirstCell(s) \in CellPtr
<1>1. s \in Seq(Cell) /\ Len(s) \in Nat /\ MaxCell \in Nat
  BY CellNumbers DEF Linked
<1>2. \A k \in 1 .. Len(s) : s[k] \in 1 .. MaxCell
  BY <1>1, CellNumbers
<1> DEFINE f == [k \in 1 .. Len(s) |-> s[k]]
<1>3. f \in [1 .. Len(s) -> 1 .. MaxCell]
  BY <1>2
<1>4. \A j, k \in 1 .. Len(s) : f[j] = f[k] => j = k
  BY DEF Linked
<1> HIDE DEF f
<1>5. Len(s) <= MaxCell
  BY <1>1, <1>3, <1>4, NoMoreThan
<1>6. FirstCell(s) \in CellPtr
  <2>1. CASE s = << >>
    BY <2>1, CellNumbers DEF FirstCell, AM_NULL
  <2>2. CASE s # << >>
    <3>1. 1 \in 1 .. Len(s)
      BY <1>1, <2>2
    <3>2. s[1] \in CellPtr
      BY <1>1, <1>2, <3>1, CellNumbers
    <3> QED  BY <2>2, <3>2 DEF FirstCell
  <2> QED  BY <2>1, <2>2
<1> QED  BY <1>1, <1>5, <1>6

(* A list is found from its first cell. *)
LEMMA LinkedIs ==
  ASSUME NEW l, l.link \in [Cell -> CellPtr], NEW s, Linked(l, s)
  PROVE  ListFrom(l, FirstCell(s)) = s
<1>1. /\ s \in Seq(Cell) /\ Len(s) \in Nat /\ Len(s) <= MaxCell /\ MaxCell \in Nat
      /\ AM_NULL \in CellPtr
  <2>1. s \in Seq(Cell)
    BY DEF Linked
  <2>2. MaxCell \in Nat /\ AM_NULL \in CellPtr
    BY CellNumbers DEF AM_NULL
  <2> QED  BY <2>1, <2>2, LinkedShort
<1>2. PICK h : Unrolls(h, l)
  BY ListTurns
<1> DEFINE n == Len(s)
           rest(m) == SubSeq(s, n - m + 1, n)          \* the last m cells
           T == {m \in Nat : m <= n => \A k \in m .. MaxCell : h[k][FirstCell(rest(m))] = rest(m)}
<1>3. \A m \in 0 .. n : /\ rest(m) \in Seq(Cell) /\ Len(rest(m)) = m
                        /\ \A j \in 1 .. m : rest(m)[j] = s[n - m + j]
  <2> SUFFICES ASSUME NEW m \in 0 .. n
               PROVE  /\ rest(m) \in Seq(Cell) /\ Len(rest(m)) = m
                      /\ \A j \in 1 .. m : rest(m)[j] = s[n - m + j]
    OBVIOUS
  <2>1. PICK a \in Int : a = n - m + 1
    <3>1. n - m + 1 \in Int
      BY <1>1
    <3> QED  BY <3>1
  <2>2. a \in 1 .. n + 1 /\ n - a + 1 = m
    BY <1>1, <2>1
  <2>3. SubSeq(s, a, n) \in Seq(Cell) /\ Len(SubSeq(s, a, n)) = n - a + 1
    BY <1>1, <2>2
  <2>4. \A j \in 1 .. n - a + 1 : SubSeq(s, a, n)[j] = s[a + j - 1]
    BY <1>1, <2>2
  <2> QED  BY <1>1, <2>1, <2>2, <2>3, <2>4
<1>4. 0 \in T
  <2>1. rest(0) = << >>
    <3>1. rest(0) \in Seq(Cell) /\ Len(rest(0)) = 0
      BY <1>1, <1>3
    <3> HIDE DEF rest
    <3> QED  BY <3>1
  <2>2. \A k \in 0 .. MaxCell : h[k][AM_NULL] = << >>
    <3> SUFFICES ASSUME NEW k \in 0 .. MaxCell PROVE h[k][AM_NULL] = << >>
      OBVIOUS
    <3>1. CASE k = 0
      BY <1>1, <1>2, <3>1 DEF Unrolls
    <3>2. CASE k # 0
      <4>1. k \in 1 .. MaxCell + 1
        BY <1>1, <3>2
      <4> QED  BY <1>1, <1>2, <4>1 DEF Unrolls
    <3> QED  BY <3>1, <3>2
  <2> HIDE DEF rest
  <2> QED  BY <2>1, <2>2 DEF FirstCell
<1>5. \A m \in Nat : m \in T => m + 1 \in T
  <2> SUFFICES ASSUME NEW m \in Nat, m + 1 <= n, NEW k \in m + 1 .. MaxCell,
                      \A i \in m .. MaxCell : h[i][FirstCell(rest(m))] = rest(m)
               PROVE  h[k][FirstCell(rest(m + 1))] = rest(m + 1)
    <3> HIDE DEF rest
    <3>1. \A m \in Nat : m + 1 <= n => m <= n
      BY <1>1
    <3> QED  BY <3>1
  <2>1. PICK j \in 1 .. n : j = n - m
    <3>1. n - m \in 1 .. n
      BY <1>1
    <3> QED  BY <3>1
  <2>2. /\ rest(m + 1) \in Seq(Cell) /\ Len(rest(m + 1)) = m + 1
        /\ \A i \in 1 .. m + 1 : rest(m + 1)[i] = s[n - (m + 1) + i]
        /\ rest(m) \in Seq(Cell) /\ Len(rest(m)) = m
        /\ \A i \in 1 .. m : rest(m)[i] = s[n - m + i]
    <3>1. m + 1 \in 0 .. n /\ m \in 0 .. n
      BY <1>1
    <3> HIDE DEF rest
    <3> QED  BY <1>3, <3>1
  <2>3. /\ \A i \in 1 .. m + 1 : rest(m + 1)[i] = s[j - 1 + i]
        /\ \A i \in 1 .. m : rest(m)[i] = s[j + i]
    <3> HIDE DEF rest
    <3>1. \A i \in 1 .. m + 1 : n - (m + 1) + i = j - 1 + i
      BY <1>1, <2>1
    <3>2. \A i \in 1 .. m : n - m + i = j + i
      BY <1>1, <2>1
    <3> QED  BY <2>2, <3>1, <3>2
  <2> HIDE DEF rest
  <2>4. s[j] \in Cell /\ s[j] \in CellPtr /\ s[j] # AM_NULL
    <3>1. s[j] \in Cell
      BY <1>1
    <3>2. \A c \in Cell : c \in CellPtr /\ c # AM_NULL
      BY CellNumbers DEF AM_NULL
    <3> QED  BY <3>1, <3>2
  <2>5. FirstCell(rest(m + 1)) = s[j]
    <3>1. rest(m + 1) # << >> /\ rest(m + 1)[1] = s[j]
      BY <2>2, <2>3
    <3> QED  BY <3>1 DEF FirstCell
  <2>6. l.link[s[j]] = FirstCell(rest(m))
    <3>1. CASE m = 0
      <4>1. j = n /\ rest(m) = << >>
        BY <1>1, <2>1, <2>2, <3>1
      <4> QED  BY <4>1 DEF Linked, FirstCell
    <3>2. CASE m # 0
      <4>1. j # n /\ rest(m) # << >> /\ rest(m)[1] = s[j + 1]
        BY <1>1, <2>1, <2>2, <2>3, <3>2
      <4> QED  BY <4>1 DEF Linked, FirstCell
    <3> QED  BY <3>1, <3>2
  <2>7. h[k][s[j]] = <<s[j]>> \o h[k - 1][l.link[s[j]]]
    <3>1. k \in 1 .. MaxCell + 1
      BY <1>1
    <3> QED  BY <1>2, <2>4, <3>1 DEF Unrolls
  <2>8. h[k - 1][FirstCell(rest(m))] = rest(m)
    <3>1. k - 1 \in m .. MaxCell
      BY <1>1
    <3> QED  BY <3>1
  <2>9. <<s[j]>> \o rest(m) = rest(m + 1)
    <3>1. PICK u : u = <<s[j]>> \o rest(m)
      OBVIOUS
    <3>2. <<s[j]>> \in Seq(Cell) /\ Len(<<s[j]>>) = 1 /\ <<s[j]>>[1] = s[j]
      BY <2>4
    <3>3. u \in Seq(Cell) /\ Len(u) = m + 1 /\ u[1] = s[j] /\ \A i \in 1 .. m : u[1 + i] = s[j + i]
      <4>1. /\ u \in Seq(Cell) /\ Len(u) = Len(<<s[j]>>) + Len(rest(m))
            /\ \A p \in 1 .. Len(<<s[j]>>) : u[p] = <<s[j]>>[p]
            /\ \A i \in 1 .. Len(rest(m)) : u[Len(<<s[j]>>) + i] = rest(m)[i]
        BY <2>2, <3>1, <3>2, ConcatIs
      <4>2. Len(u) = m + 1
        BY <2>2, <3>2, <4>1
      <4>3. u[1] = s[j]
        BY <3>2, <4>1
      <4>4. \A i \in 1 .. m : u[1 + i] = s[j + i]
        BY <2>2, <2>3, <3>2, <4>1
      <4> QED  BY <4>1, <4>2, <4>3, <4>4
    <3>4. \A i \in 1 .. m + 1 : u[i] = rest(m + 1)[i]
      <4> SUFFICES ASSUME NEW i \in 1 .. m + 1 PROVE u[i] = s[j - 1 + i]
        BY <2>3
      <4>1. CASE i = 1
        BY <3>3, <4>1
      <4>2. CASE i # 1
        <5>1. PICK e \in 1 .. m : i = 1 + e
          <6>1. i - 1 \in 1 .. m /\ i = 1 + (i - 1)
            BY <4>2
          <6> QED  BY <6>1
        <5>2. j - 1 + i = j + e
          BY <5>1
        <5> QED  BY <3>3, <5>1, <5>2
      <4> QED  BY <4>1, <4>2
    <3>5. rest(m + 1) = u
      <4>1. u \in Seq(Cell) /\ Len(u) = Len(rest(m + 1)) /\ Len(u) = m + 1
        BY <2>2, <3>3
      <4> QED  BY <2>2, <3>4, <4>1
    <3> QED  BY <3>1, <3>5
  <2> QED  BY <2>5, <2>6, <2>7, <2>8, <2>9
<1>6. n \in T
  <2> HIDE DEF T
  <2> QED  BY <1>1, <1>4, <1>5, Induction
<1>7. h[MaxCell][FirstCell(rest(n))] = rest(n)
  <2>1. MaxCell \in n .. MaxCell
    BY <1>1
  <2> HIDE DEF rest
  <2> QED  BY <1>1, <1>6, <2>1
<1>8. rest(n) = s
  <2>1. n \in 0 .. n
    BY <1>1
  <2>2. rest(n) \in Seq(Cell) /\ Len(rest(n)) = n /\ \A j \in 1 .. n : rest(n)[j] = s[n - n + j]
    BY <1>3, <2>1
  <2>3. \A j \in 1 .. n : n - n + j = j
    BY <1>1
  <2> HIDE DEF rest
  <2>4. \A j \in 1 .. n : rest(n)[j] = s[j]
    BY <2>2, <2>3
  <2> QED  BY <1>1, <2>2, <2>4
<1>9. FirstCell(s) \in CellPtr
  BY LinkedShort
<1> HIDE DEF rest
<1> QED  BY <1>2, <1>7, <1>8, <1>9 DEF Unrolls

(* The lists of a leaf are linked, and no two of them have a cell in       *)
(* common; L[0] is the free list.                                          *)
Owns(l, L) ==
    /\ DOMAIN L = 0 .. Len(l.keys)
    /\ \A i \in 0 .. Len(l.keys) :
         /\ Linked(l, L[i]) /\ L[i] = ListOf(l, i) /\ HeadOf(l, i) = FirstCell(L[i])
         /\ \A k \in 1 .. Len(L[i]) : L[i][k] \in Taken(l)
    /\ \A i, j \in 0 .. Len(l.keys) : \A a \in 1 .. Len(L[i]), b \in 1 .. Len(L[j]) :
         L[i][a] = L[j][b] => i = j

LEMMA ListIsLinked ==
  ASSUME NEW l \in Leaf, NEW o, NEW d, Lists(l, o, d), NEW i \in 0 .. Len(l.keys),
         NEW s, s = ListOf(l, i)
  PROVE  /\ Linked(l, s) /\ HeadOf(l, i) = FirstCell(s)
         /\ \A k \in 1 .. Len(s) : s[k] \in Taken(l) /\ o[s[k]] = i
<1>1. /\ s \in Seq(Cell) /\ Len(s) \in Nat
      /\ HeadOf(l, i) = AM_NULL => s = << >>
      /\ HeadOf(l, i) # AM_NULL => Len(s) = d[HeadOf(l, i)] + 1
      /\ \A k \in 1 .. Len(s) : s[k] \in Taken(l) /\ o[s[k]] = i /\ d[s[k]] = Len(s) - k
  <2>1. s \in Seq(Cell)
    BY ListOfIs
  <2> QED  BY <2>1, ListOfIs
<1>2. /\ \A b, c \in Taken(l) : o[b] = o[c] /\ d[b] = d[c] => b = c
      /\ \A c \in Taken(l) :
           /\ l.link[c] = AM_NULL => d[c] = 0
           /\ l.link[c] # AM_NULL =>
                l.link[c] \in Taken(l) /\ o[l.link[c]] = o[c] /\ d[c] = d[l.link[c]] + 1
      /\ \A c \in Taken(l) : d[c] \in Nat
      /\ HeadOf(l, i) # AM_NULL => HeadOf(l, i) \in Taken(l) /\ o[HeadOf(l, i)] = i
  <2>1. Taken(l) \subseteq Cell
    BY LeafParts
  <2> QED  BY <2>1 DEF Lists
<1>3. ASSUME NEW k \in 1 .. Len(s)
      PROVE  l.link[s[k]] = IF k = Len(s) THEN AM_NULL ELSE s[k + 1]
  <2>1. PICK c \in Taken(l) : c = s[k]
    BY <1>1
  <2>2. o[c] = i /\ d[c] = Len(s) - k
    BY <1>1, <2>1
  <2>3. CASE k = Len(s)
    <3>1. d[c] = 0
      BY <1>1, <2>2, <2>3
    <3>2. l.link[c] # AM_NULL => d[c] = d[l.link[c]] + 1 /\ d[l.link[c]] \in Nat
      BY <1>2
    <3>3. \A n \in Nat : n + 1 # 0
      OBVIOUS
    <3> QED  BY <2>1, <2>3, <3>1, <3>2, <3>3
  <2>4. CASE k # Len(s)
    <3>1. k + 1 \in 1 .. Len(s) /\ d[c] # 0
      BY <1>1, <2>2, <2>4
    <3>2. s[k + 1] \in Taken(l) /\ o[s[k + 1]] = i /\ d[s[k + 1]] = Len(s) - (k + 1)
      BY <1>1, <3>1
    <3>3. l.link[c] \in Taken(l) /\ o[l.link[c]] = i /\ d[c] = d[l.link[c]] + 1
      BY <1>2, <2>2, <3>1
    <3>4. d[l.link[c]] \in Nat
      BY <1>2, <3>3
    <3>5. d[l.link[c]] = Len(s) - (k + 1)
      BY <1>1, <2>2, <3>3, <3>4
    <3>6. l.link[c] = s[k + 1]
      BY <1>2, <3>2, <3>3, <3>5
    <3> QED  BY <2>1, <2>4, <3>6
  <2> QED  BY <2>3, <2>4
<1>4. ASSUME NEW j \in 1 .. Len(s), NEW k \in 1 .. Len(s), s[j] = s[k]
      PROVE  j = k
  <2>1. Len(s) - j = Len(s) - k
    BY <1>1, <1>4
  <2> QED  BY <1>1, <2>1
<1>5. Linked(l, s)
  BY <1>1, <1>3, <1>4 DEF Linked
<1>6. HeadOf(l, i) = FirstCell(s)
  <2>1. CASE HeadOf(l, i) = AM_NULL
    BY <1>1, <2>1 DEF FirstCell
  <2>2. CASE HeadOf(l, i) # AM_NULL
    <3>1. PICK c \in Taken(l) : c = HeadOf(l, i)
      BY <1>2, <2>2
    <3>2. o[c] = i /\ d[c] \in Nat /\ Len(s) = d[c] + 1
      BY <1>1, <1>2, <2>2, <3>1
    <3>3. 1 \in 1 .. Len(s) /\ s # << >>
      BY <1>1, <3>2
    <3>4. s[1] \in Taken(l) /\ o[s[1]] = i /\ d[s[1]] = Len(s) - 1
      BY <1>1, <3>3
    <3>5. d[s[1]] = d[c]
      BY <3>2, <3>4
    <3>6. s[1] = c
      BY <1>2, <3>2, <3>4, <3>5
    <3> QED  BY <3>1, <3>3, <3>6 DEF FirstCell
  <2> QED  BY <2>1, <2>2
<1> QED  BY <1>1, <1>5, <1>6

LEMMA OwnsItsLists ==
  ASSUME NEW l \in Leaf, NEW o, NEW d, Lists(l, o, d)
  PROVE  \E L : Owns(l, L)
<1> DEFINE L == [i \in 0 .. Len(l.keys) |-> ListOf(l, i)]
<1>1. DOMAIN L = 0 .. Len(l.keys) /\ \A i \in 0 .. Len(l.keys) : L[i] = ListOf(l, i)
  OBVIOUS
<1> HIDE DEF L
<1>2. ASSUME NEW i \in 0 .. Len(l.keys)
      PROVE  /\ Linked(l, L[i]) /\ L[i] = ListOf(l, i) /\ HeadOf(l, i) = FirstCell(L[i])
             /\ \A k \in 1 .. Len(L[i]) : L[i][k] \in Taken(l) /\ o[L[i][k]] = i
  BY <1>1, ListIsLinked
<1>3. \A i, j \in 0 .. Len(l.keys) : \A a \in 1 .. Len(L[i]), b \in 1 .. Len(L[j]) :
        L[i][a] = L[j][b] => i = j
  <2> SUFFICES ASSUME NEW i \in 0 .. Len(l.keys), NEW j \in 0 .. Len(l.keys),
                      NEW a \in 1 .. Len(L[i]), NEW b \in 1 .. Len(L[j]), L[i][a] = L[j][b]
               PROVE  i = j
    OBVIOUS
  <2>1. o[L[i][a]] = i
    BY <1>2
  <2>2. o[L[j][b]] = j
    BY <1>2
  <2> QED  BY <2>1, <2>2
<1> QED  BY <1>1, <1>2, <1>3 DEF Owns

(* The record ids in the cells of a list. *)
LEMMA RecIdsOf ==
  ASSUME NEW l \in Leaf, NEW i \in 1 .. Len(l.keys), NEW s, Linked(l, s),
         HeadOf(l, i) = FirstCell(s)
  PROVE  /\ ListOf(l, i) = s
         /\ RecIds(l, i) \in Seq(RecId) /\ Len(RecIds(l, i)) = Len(s)
         /\ \A k \in 1 .. Len(s) : RecIds(l, i)[k] = l.recId[s[k]]
<1>1. l.link \in [Cell -> CellPtr]
  BY LeafParts
<1>2. ListOf(l, i) = s
  BY <1>1, LinkedIs DEF ListOf
<1>3. s \in Seq(Cell)
  BY DEF Linked
<1> QED  BY <1>2, <1>3, RecIdsAre

(* Where the cells of a key are as they were its record ids are. *)
LEMMA ListKept ==
  ASSUME NEW l \in Leaf, NEW m \in Leaf, NEW i \in 1 .. Len(l.keys), NEW j \in 1 .. Len(m.keys),
         NEW s, Linked(l, s), HeadOf(l, i) = FirstCell(s), HeadOf(m, j) = HeadOf(l, i),
         \A k \in 1 .. Len(s) : m.link[s[k]] = l.link[s[k]] /\ m.recId[s[k]] = l.recId[s[k]]
  PROVE  RecIds(m, j) = RecIds(l, i)
<1>1. Linked(m, s) /\ s \in Seq(Cell) /\ Len(s) \in Nat
  BY DEF Linked
<1>2. PICK t : t = RecIds(l, i)
  OBVIOUS
<1>3. t \in Seq(RecId) /\ Len(t) = Len(s) /\ \A k \in 1 .. Len(s) : t[k] = l.recId[s[k]]
  BY <1>2, RecIdsOf
<1>4. PICK u : u = RecIds(m, j)
  OBVIOUS
<1>5. u \in Seq(RecId) /\ Len(u) = Len(s) /\ \A k \in 1 .. Len(s) : u[k] = m.recId[s[k]]
  BY <1>1, <1>4, RecIdsOf
<1>6. \A k \in 1 .. Len(s) : u[k] = t[k]
  BY <1>3, <1>5
<1>7. u = t
  BY <1>1, <1>3, <1>5, <1>6
<1> QED  BY <1>2, <1>4, <1>7

-----------------------------------------------------------------------------
(* C[v] are the record ids that leaf l has for v. *)
Holds(l, C) ==
    /\ C \in [Value -> Seq(RecId)]
    /\ \A i \in 1 .. Len(l.keys) : C[l.keys[i].value] = RecIds(l, i)
    /\ \A v \in Value : (\A i \in 1 .. Len(l.keys) : l.keys[i].value # v) => C[v] = << >>

LEMMA ButForParts ==
  ASSUME NEW l, NEW i, GoodButFor(l, i)
  PROVE  /\ l \in Leaf /\ \E o, d : Lists(l, o, d)
         /\ \A j, k \in 1 .. Len(l.keys) : l.keys[j].value = l.keys[k].value => j = k
<1>1. l \in Leaf /\ Ascending(Values(l))
  BY DEF GoodButFor
<1>2. /\ Len(l.keys) \in Nat /\ Len(Values(l)) = Len(l.keys)
      /\ \A j \in 1 .. Len(l.keys) : Values(l)[j] = l.keys[j].value /\ l.keys[j].value \in Int
  <2>1. \A j \in 1 .. Len(l.keys) : l.keys[j].value \in Value
    BY <1>1, LeafParts
  <2>2. \A j \in 1 .. Len(l.keys) : Values(l)[j] = l.keys[j].value
    BY <1>1, ValuesAre
  <2> QED  BY <1>1, <2>1, <2>2, LeafParts, ValuesAre, AMLeafAssumption
<1>3. ASSUME NEW j \in 1 .. Len(l.keys), NEW k \in 1 .. Len(l.keys), j # k
      PROVE  l.keys[j].value # l.keys[k].value
  <2>1. j < k => l.keys[j].value < l.keys[k].value
    BY <1>1, <1>2 DEF Ascending
  <2>2. k < j => l.keys[k].value < l.keys[j].value
    BY <1>1, <1>2 DEF Ascending
  <2> QED  BY <1>2, <1>3, <2>1, <2>2
<1> QED  BY <1>1, <1>3 DEF GoodButFor

LEMMA ButForGood ==
  ASSUME NEW l, NEW i, GoodLeaf(l)
  PROVE  GoodButFor(l, i)
BY DEF GoodLeaf, GoodButFor

(* One more for key i. *)
LEMMA FoundHolds ==
  ASSUME NEW l, NEW i \in 1 .. Len(l.keys), GoodButFor(l, i), NEW r \in RecId,
         l.freeListPtr # AM_NULL \/ Gap(l) >= CellSize, NEW C, Holds(l, C),
         NEW m, m = AM_InsertToLeafFound(l, r, i)
  PROVE  Holds(m, [C EXCEPT ![l.keys[i].value] = <<r>> \o @])
<1>1. l \in Leaf /\ \A j, k \in 1 .. Len(l.keys) : l.keys[j].value = l.keys[k].value => j = k
  BY ButForParts
<1>2. PICK o, d : Lists(l, o, d) /\ FreeCounted(l, d)
  BY DEF GoodButFor
<1>3. PICK L : Owns(l, L)
  BY <1>1, <1>2, OwnsItsLists
<1>4. /\ Len(l.keys) \in Nat /\ l.recIdPtr \in Nat /\ Taken(l) \subseteq Cell
      /\ l.link \in [Cell -> CellPtr] /\ l.recId \in [Cell -> RecId] /\ l.freeListPtr \in CellPtr
      /\ \A j \in 1 .. Len(l.keys) : l.keys[j].value \in Value
  BY <1>1, LeafParts
<1>5. /\ \A j \in 1 .. Len(l.keys) : j \in 0 .. Len(l.keys) /\ j # 0
      /\ 0 \in 0 .. Len(l.keys)
  BY <1>4
<1>6. /\ \A j \in 0 .. Len(l.keys) :
           /\ Linked(l, L[j]) /\ HeadOf(l, j) = FirstCell(L[j]) /\ L[j] \in Seq(Cell)
           /\ \A k \in 1 .. Len(L[j]) : L[j][k] \in Taken(l)
      /\ \A j, k \in 0 .. Len(l.keys) : \A a \in 1 .. Len(L[j]), b \in 1 .. Len(L[k]) :
           L[j][a] = L[k][b] => j = k
  BY <1>3 DEF Owns, Linked
<1>7. PICK c : c = IF l.freeListPtr = AM_NULL THEN l.recIdPtr + 1 ELSE l.freeListPtr
  OBVIOUS
(* The cell is no other key's. *)
<1>8. c \in Cell /\ \A j \in 1 .. Len(l.keys) : \A k \in 1 .. Len(L[j]) : L[j][k] # c
  <2>1. CASE l.freeListPtr = AM_NULL
    <3>1. c \in Cell
      <4>1. LeafSpace - Len(l.keys) * EntrySize - l.recIdPtr * CellSize >= CellSize
        BY <2>1 DEF Gap
      <4> QED  BY <1>4, <1>7, <2>1, <4>1, CellFits
    <3>2. c \notin Taken(l)
      BY <1>4, <1>7, <2>1 DEF Taken
    <3> QED  BY <1>5, <1>6, <3>1, <3>2
  <2>2. CASE l.freeListPtr # AM_NULL
    <3>1. c = FirstCell(L[0]) /\ c # AM_NULL
      BY <1>5, <1>6, <1>7, <2>2 DEF HeadOf
    <3>2. L[0] # << >> /\ c = L[0][1]
      BY <3>1 DEF FirstCell
    <3>3. 1 \in 1 .. Len(L[0])
      BY <1>5, <1>6, <3>2
    <3>4. c \in Taken(l)
      BY <1>5, <1>6, <3>2, <3>3
    <3> QED  BY <1>4, <1>5, <1>6, <3>2, <3>3, <3>4
  <2> QED  BY <2>1, <2>2
<1>9. /\ m \in Leaf /\ m.recId = [l.recId EXCEPT ![c] = r]
      /\ m.link = [l.link EXCEPT ![c] = l.keys[i].head]
      /\ Len(m.keys) = Len(l.keys)
      /\ \A j \in 1 .. Len(l.keys) : /\ m.keys[j].value = l.keys[j].value
                                     /\ m.keys[j].head = IF j = i THEN c ELSE l.keys[j].head
  <2>1. l.freeListPtr # AM_NULL => l.numinfreeList > 0
    <3> SUFFICES ASSUME l.freeListPtr # AM_NULL PROVE l.numinfreeList > 0
      OBVIOUS
    <3>1. l.numinfreeList = d[l.freeListPtr] + 1
      BY <1>2 DEF FreeCounted
    <3>2. d[l.freeListPtr] \in Nat
      <4>1. l.freeListPtr \in Cell
        BY <1>7, <1>8
      <4> QED  BY <1>2, <4>1 DEF Lists
    <3> QED  BY <3>1, <3>2
  <2>2. InsertedFound(l, m, i, r, c)
    BY <1>1, <1>7, <1>8, <2>1, InsertFoundIs
  <2> QED  BY <2>2 DEF InsertedFound
<1>10. ASSUME NEW j \in 1 .. Len(l.keys)
       PROVE  RecIds(m, j) = IF j = i THEN <<r>> \o RecIds(l, i) ELSE RecIds(l, j)
  <2>1. PICK s : s = L[j]
    OBVIOUS
  <2>2. /\ Linked(l, s) /\ s \in Seq(Cell) /\ Len(s) \in Nat /\ HeadOf(l, j) = FirstCell(s)
        /\ \A k \in 1 .. Len(s) : s[k] # c /\ s[k] \in Cell
    BY <1>4, <1>5, <1>6, <1>8, <2>1
  <2>3. \A k \in 1 .. Len(s) : m.link[s[k]] = l.link[s[k]] /\ m.recId[s[k]] = l.recId[s[k]]
    BY <1>4, <1>9, <2>2
  <2>4. CASE j # i
    <3>1. HeadOf(m, j) = HeadOf(l, j)
      BY <1>5, <1>9, <2>4 DEF HeadOf
    <3>2. j \in 1 .. Len(m.keys)
      BY <1>9
    <3>3. m \in Leaf
      BY <1>9
    <3>4. RecIds(m, j) = RecIds(l, j)
      BY <1>1, <2>2, <2>3, <3>1, <3>2, <3>3, ListKept, SMTT(40)
    <3> QED  BY <2>4, <3>4
  <2>5. CASE j = i
    <3>1. PICK t : t = <<c>> \o s
      OBVIOUS
    <3>2. <<c>> \in Seq(Cell) /\ Len(<<c>>) = 1 /\ <<c>>[1] = c
      BY <1>8
    <3>3. /\ t \in Seq(Cell) /\ Len(t) = Len(s) + 1 /\ t[1] = c
          /\ \A k \in 1 .. Len(s) : t[k + 1] = s[k]
      <4>1. /\ t \in Seq(Cell) /\ Len(t) = Len(<<c>>) + Len(s)
            /\ \A p \in 1 .. Len(<<c>>) : t[p] = <<c>>[p]
            /\ \A k \in 1 .. Len(s) : t[Len(<<c>>) + k] = s[k]
        BY <2>2, <3>1, <3>2, ConcatIs
      <4>2. t[1] = c
        BY <3>2, <4>1
      <4>3. \A k \in 1 .. Len(s) : 1 + k = k + 1
        BY <2>2
      <4> QED  BY <2>2, <3>2, <4>1, <4>2, <4>3
    <3>4. \A k \in 1 .. Len(t) : k = 1 \/ \E e \in 1 .. Len(s) : k = e + 1
      <4> SUFFICES ASSUME NEW k \in 1 .. Len(t), k # 1 PROVE \E e \in 1 .. Len(s) : k = e + 1
        OBVIOUS
      <4>1. k - 1 \in 1 .. Len(s) /\ k = (k - 1) + 1
        BY <2>2, <3>3
      <4> QED  BY <4>1
    <3>5. Linked(m, t)
      <4>1. ASSUME NEW k \in 1 .. Len(t)
            PROVE  m.link[t[k]] = IF k = Len(t) THEN AM_NULL ELSE t[k + 1]
        <5>1. CASE k = 1
          <6>1. m.link[t[k]] = FirstCell(s)
            BY <1>4, <1>8, <1>9, <2>2, <2>5, <3>3, <5>1 DEF HeadOf
          <6>2. CASE s = << >>
            <7>1. k = Len(t)
              BY <3>3, <5>1, <6>2
            <7> QED  BY <6>1, <6>2, <7>1 DEF FirstCell
          <6>3. CASE s # << >>
            <7>1. k # Len(t) /\ 1 \in 1 .. Len(s)
              BY <2>2, <3>3, <5>1, <6>3
            <7> QED  BY <3>3, <5>1, <6>1, <6>3, <7>1 DEF FirstCell
          <6> QED  BY <6>2, <6>3
        <5>2. ASSUME NEW e \in 1 .. Len(s), k = e + 1
              PROVE  m.link[t[k]] = IF k = Len(t) THEN AM_NULL ELSE t[k + 1]
          <6>1. m.link[t[k]] = IF e = Len(s) THEN AM_NULL ELSE s[e + 1]
            BY <2>2, <2>3, <3>3, <5>2, SMTT(40) DEF Linked
          <6>2. k = Len(t) <=> e = Len(s)
            BY <2>2, <3>3, <5>2
          <6>3. e # Len(s) => e + 1 \in 1 .. Len(s)
            BY <2>2
          <6>4. e # Len(s) => t[(e + 1) + 1] = s[e + 1]
            BY <3>3, <6>3
          <6> QED  BY <5>2, <6>1, <6>2, <6>4
        <5> QED  BY <3>4, <5>1, <5>2
      <4>2. \A a, b \in 1 .. Len(t) : t[a] = t[b] => a = b
        <5> SUFFICES ASSUME NEW a \in 1 .. Len(t), NEW b \in 1 .. Len(t), t[a] = t[b]
                     PROVE  a = b
          OBVIOUS
        <5>1. a = 1 \/ \E e \in 1 .. Len(s) : a = e + 1
          BY <3>4
        <5>2. b = 1 \/ \E e \in 1 .. Len(s) : b = e + 1
          BY <3>4
        <5>3. \A e \in 1 .. Len(s) : t[e + 1] = s[e] /\ s[e] # c
          BY <2>2, <3>3
        <5>4. \A e, f \in 1 .. Len(s) : s[e] = s[f] => e = f
          BY <2>2 DEF Linked
        <5> QED  BY <3>3, <5>1, <5>2, <5>3, <5>4, SMTT(40)
      <4> QED  BY <3>3, <4>1, <4>2 DEF Linked
    <3>6. HeadOf(m, j) = FirstCell(t)
      <4>1. t # << >>
        BY <2>2, <3>3
      <4> QED  BY <1>5, <1>9, <2>5, <3>3, <4>1 DEF HeadOf, FirstCell
    <3>7. PICK u : u = RecIds(m, j)
      OBVIOUS
    <3>8. /\ u \in Seq(RecId) /\ Len(u) = Len(t) /\ \A k \in 1 .. Len(t) : u[k] = m.recId[t[k]]
      <4>1. j \in 1 .. Len(m.keys) /\ m \in Leaf
        BY <1>9
      <4>2. /\ RecIds(m, j) \in Seq(RecId) /\ Len(RecIds(m, j)) = Len(t)
            /\ \A k \in 1 .. Len(t) : RecIds(m, j)[k] = m.recId[t[k]]
        BY <3>5, <3>6, <4>1, RecIdsOf
      <4> QED  BY <3>7, <4>2
    <3>9. PICK w : w = RecIds(l, i)
      OBVIOUS
    <3>10. w \in Seq(RecId) /\ Len(w) = Len(s) /\ \A k \in 1 .. Len(s) : w[k] = l.recId[s[k]]
      BY <1>1, <2>2, <2>5, <3>9, RecIdsOf
    <3>11. PICK x : x = <<r>> \o w
      OBVIOUS
    <3>12. <<r>> \in Seq(RecId) /\ Len(<<r>>) = 1 /\ <<r>>[1] = r
      OBVIOUS
    <3>13. /\ x \in Seq(RecId) /\ Len(x) = Len(s) + 1 /\ x[1] = r
           /\ \A k \in 1 .. Len(s) : x[k + 1] = w[k]
      <4>1. /\ x \in Seq(RecId) /\ Len(x) = Len(<<r>>) + Len(w)
            /\ \A p \in 1 .. Len(<<r>>) : x[p] = <<r>>[p]
            /\ \A k \in 1 .. Len(w) : x[Len(<<r>>) + k] = w[k]
        BY <3>10, <3>11, <3>12, ConcatIs
      <4>2. x[1] = r
        BY <3>12, <4>1
      <4>3. \A k \in 1 .. Len(s) : 1 + k = k + 1
        BY <2>2
      <4> QED  BY <2>2, <3>10, <3>12, <4>1, <4>2, <4>3
    <3>14. \A k \in 1 .. Len(t) : u[k] = x[k]
      <4> SUFFICES ASSUME NEW k \in 1 .. Len(t) PROVE u[k] = x[k]
        OBVIOUS
      <4>1. CASE k = 1
        <5>1. m.recId[c] = r
          BY <1>4, <1>8, <1>9
        <5> QED  BY <3>3, <3>8, <3>13, <4>1, <5>1
      <4>2. ASSUME NEW e \in 1 .. Len(s), k = e + 1
            PROVE  u[k] = x[k]
        <5>1. u[k] = m.recId[s[e]]
          BY <3>3, <3>8, <4>2
        <5>2. x[k] = l.recId[s[e]]
          BY <3>10, <3>13, <4>2
        <5> QED  BY <2>3, <5>1, <5>2
      <4> QED  BY <3>4, <4>1, <4>2
    <3>15. u = x
      <4>1. Len(u) = Len(x)
        BY <3>3, <3>8, <3>13
      <4> QED  BY <3>8, <3>13, <3>14, <4>1
    <3> QED  BY <2>5, <3>7, <3>9, <3>11, <3>15
  <2> QED  BY <2>4, <2>5
<1> DEFINE D == [C EXCEPT ![l.keys[i].value] = <<r>> \o @]
<1>11. /\ C \in [Value -> Seq(RecId)]
       /\ \A j \in 1 .. Len(l.keys) : C[l.keys[j].value] = RecIds(l, j)
       /\ \A v \in Value : (\A j \in 1 .. Len(l.keys) : l.keys[j].value # v) => C[v] = << >>
  BY DEF Holds
<1>12. D \in [Value -> Seq(RecId)]
  <2>1. <<r>> \o C[l.keys[i].value] \in Seq(RecId)
    <3>1. C[l.keys[i].value] \in Seq(RecId) /\ <<r>> \in Seq(RecId)
      BY <1>4, <1>11
    <3> QED  BY <3>1
  <2> QED  BY <1>4, <1>11, <2>1
<1>13. \A v \in Value : D[v] = IF v = l.keys[i].value THEN <<r>> \o C[v] ELSE C[v]
  BY <1>11
<1> HIDE DEF D
<1>14. \A j \in 1 .. Len(m.keys) : D[m.keys[j].value] = RecIds(m, j)
  <2> SUFFICES ASSUME NEW j \in 1 .. Len(l.keys) PROVE D[l.keys[j].value] = RecIds(m, j)
    BY <1>9
  <2>1. C[l.keys[j].value] = RecIds(l, j) /\ l.keys[j].value \in Value
    BY <1>4, <1>11
  <2>2. j = i <=> l.keys[j].value = l.keys[i].value
    BY <1>1
  <2> QED  BY <1>10, <1>13, <2>1, <2>2
<1>15. \A v \in Value : (\A j \in 1 .. Len(m.keys) : m.keys[j].value # v) => D[v] = << >>
  BY <1>9, <1>11, <1>13, ZenonT(60)
<1>16. Holds(m, D)
  BY <1>12, <1>14, <1>15 DEF Holds
<1> QED  BY <1>16 DEF D

(* A key without a list says nothing. *)
LEMMA NoRecIds ==
  ASSUME NEW l \in Leaf, NEW i \in 1 .. Len(l.keys), l.keys[i].head = AM_NULL
  PROVE  RecIds(l, i) = << >>
<1>1. i # 0 /\ l.link \in [Cell -> CellPtr]
  BY LeafParts
<1>2. ListOf(l, i) = << >>
  BY <1>1, NoList DEF ListOf, HeadOf
<1>3. RecIds(l, i) \in Seq(RecId) /\ Len(RecIds(l, i)) = 0
  <2>1. << >> \in Seq(Cell) /\ Len(<< >>) = 0
    OBVIOUS
  <2> QED  BY <1>2, <2>1, RecIdsAre
<1> QED  BY <1>3

(* A key whose entry is unchanged has its record ids. *)
LEMMA EntryKept ==
  ASSUME NEW l \in Leaf, NEW m \in Leaf, m.link = l.link, m.recId = l.recId,
         NEW o, NEW d, Lists(l, o, d), NEW i \in 1 .. Len(l.keys), NEW j \in 1 .. Len(m.keys),
         m.keys[j].head = l.keys[i].head
  PROVE  RecIds(m, j) = RecIds(l, i)
<1>1. PICK s : s = ListOf(l, i)
  OBVIOUS
<1>2. i \in 0 .. Len(l.keys) /\ i # 0 /\ j # 0
  BY LeafParts
<1>3. Linked(l, s) /\ HeadOf(l, i) = FirstCell(s)
  BY <1>1, <1>2, ListIsLinked
<1>4. HeadOf(m, j) = HeadOf(l, i)
  BY <1>2 DEF HeadOf
<1> QED  BY <1>3, <1>4, ListKept

(* A new key has no record ids. *)
LEMMA KeyHolds ==
  ASSUME NEW l, GoodLeaf(l), NEW v \in Value, NEW i, Place(l, v, i),
         i <= Len(l.keys) => l.keys[i].value # v, Gap(l) >= EntrySize, NEW C, Holds(l, C),
         NEW m, m = [l EXCEPT !.keys = InsertAt(@, i, [value |-> v, head |-> AM_NULL])]
  PROVE  Holds(m, C)
<1>1. l \in Leaf /\ \E o, d : Lists(l, o, d)
  BY DEF GoodLeaf
<1>2. PICK o, d : Lists(l, o, d)
  BY <1>1
<1>3. PICK e : e = [value |-> v, head |-> AM_NULL]
  OBVIOUS
<1>4. e \in Entry /\ e.value = v /\ e.head = AM_NULL
  BY <1>3, CellNumbers DEF Entry, AM_NULL
<1>5. /\ m \in Leaf /\ Len(m.keys) = Len(l.keys) + 1
      /\ \A j \in 1 .. Len(l.keys) : m.keys[IF j < i THEN j ELSE j + 1] = l.keys[j]
      /\ m.keys[i] = e
  <2>1. KeyAdded(l, m, v, i)
    BY NewKeyGood
  <2>2. m.keys = InsertAt(l.keys, i, e)
    BY <1>1, <1>3 DEF Leaf
  <2>3. l.keys \in Seq(Entry) /\ i \in 1 .. Len(l.keys) + 1 /\ Len(l.keys) \in Nat
    BY <1>1, LeafParts DEF Place
  <2>4. m.keys[i] = e
    <3>1. PICK s, u : s = l.keys /\ u = m.keys
      OBVIOUS
    <3>2. /\ s \in Seq(Entry) /\ e \in Entry /\ i \in 1 .. Len(s) + 1 /\ u = InsertAt(s, i, e)
          /\ Len(s) \in Nat
      BY <1>4, <2>2, <2>3, <3>1
    <3>3. /\ Len(u) = Len(s) + 1
          /\ \A p \in 1 .. Len(u) : u[p] = IF p < i THEN s[p] ELSE IF p = i THEN e ELSE s[p - 1]
      BY ONLY <3>2, InsertAtIs
    <3>4. i \in 1 .. Len(u) /\ ~(i < i)
      BY ONLY <3>2, <3>3
    <3>5. u[i] = e
      BY ONLY <3>3, <3>4
    <3> QED  BY ONLY <3>1, <3>5
  <2> QED  BY <2>1, <2>4 DEF KeyAdded, GoodButFor
<1>6. m.link = l.link /\ m.recId = l.recId
  BY <1>1 DEF Leaf
<1>7. Len(l.keys) \in Nat /\ i \in 1 .. Len(l.keys) + 1
  BY <1>1, LeafParts DEF Place
<1>8. /\ C \in [Value -> Seq(RecId)]
      /\ \A j \in 1 .. Len(l.keys) : C[l.keys[j].value] = RecIds(l, j)
      /\ \A w \in Value : (\A j \in 1 .. Len(l.keys) : l.keys[j].value # w) => C[w] = << >>
  BY DEF Holds
<1>9. C[v] = << >>
  <2>1. Values(l) \in Seq(Int) /\ \A j \in 1 .. Len(l.keys) : Values(l)[j] = l.keys[j].value
    BY <1>1, ValuesAre
  <2>2. Len(Values(l)) = Len(l.keys) /\ Ascending(Values(l))
    BY <1>1, ValuesAre DEF GoodLeaf
  <2>3. v \in Int /\ \A j \in 1 .. Len(l.keys) : l.keys[j].value \in Int
    BY <1>1, LeafParts, AMLeafAssumption
  <2>4. ASSUME NEW j \in 1 .. Len(l.keys), l.keys[j].value = v
        PROVE  FALSE
    <3>1. ~(j < i)
      <4>1. j < i => l.keys[j].value < v
        BY DEF Place
      <4> QED  BY <2>3, <2>4, <4>1
    <3>2. j # i
      BY <1>7, <2>4
    <3>3. i \in 1 .. Len(l.keys) /\ i < j
      BY <1>7, <3>1, <3>2
    <3>4. l.keys[i].value < l.keys[j].value
      BY <2>1, <2>2, <3>3 DEF Ascending
    <3>5. v <= l.keys[i].value
      <4>1. ~(i < i)
        BY <1>7
      <4> QED  BY <3>3, <4>1 DEF Place
    <3> QED  BY <2>3, <2>4, <3>3, <3>4, <3>5
  <2> QED  BY <1>8, <2>4
<1>10. \A p \in 1 .. Len(m.keys) :
         p = i \/ \E j \in 1 .. Len(l.keys) : p = IF j < i THEN j ELSE j + 1
  <2> SUFFICES ASSUME NEW p \in 1 .. Len(m.keys), p # i
               PROVE  \E j \in 1 .. Len(l.keys) : p = IF j < i THEN j ELSE j + 1
    OBVIOUS
  <2>1. CASE p < i
    <3>1. p \in 1 .. Len(l.keys)
      BY <1>5, <1>7, <2>1
    <3> QED  BY <2>1, <3>1
  <2>2. CASE ~(p < i)
    <3>1. p - 1 \in 1 .. Len(l.keys) /\ ~(p - 1 < i) /\ p = (p - 1) + 1
      BY <1>5, <1>7, <2>2
    <3> QED  BY <3>1
  <2> QED  BY <2>1, <2>2
<1>11. ASSUME NEW j \in 1 .. Len(l.keys), NEW p, p = IF j < i THEN j ELSE j + 1
       PROVE  m.keys[p].value = l.keys[j].value /\ RecIds(m, p) = RecIds(l, j)
  <2>1. p \in 1 .. Len(m.keys)
    BY <1>5, <1>7, <1>11, SMTT(40)
  <2>2. m.keys[p] = l.keys[j]
    BY <1>5, <1>11
  <2> QED  BY <1>1, <1>2, <1>5, <1>6, <2>1, <2>2, EntryKept, ZenonT(60)
<1>12. RecIds(m, i) = << >>
  <2>1. i \in 1 .. Len(m.keys)
    BY <1>5, <1>7
  <2> QED  BY <1>4, <1>5, <2>1, NoRecIds
<1>13. \A p \in 1 .. Len(m.keys) : C[m.keys[p].value] = RecIds(m, p)
  <2> SUFFICES ASSUME NEW p \in 1 .. Len(m.keys) PROVE C[m.keys[p].value] = RecIds(m, p)
    OBVIOUS
  <2>1. CASE p = i
    BY <1>4, <1>5, <1>9, <1>12, <2>1
  <2>2. ASSUME NEW j \in 1 .. Len(l.keys), p = IF j < i THEN j ELSE j + 1
        PROVE  C[m.keys[p].value] = RecIds(m, p)
    <3>1. m.keys[p].value = l.keys[j].value /\ RecIds(m, p) = RecIds(l, j)
      BY <1>11, <2>2
    <3> QED  BY <1>8, <3>1
  <2> QED  BY <1>10, <2>1, <2>2
<1>14. ASSUME NEW w \in Value, \A p \in 1 .. Len(m.keys) : m.keys[p].value # w
       PROVE  C[w] = << >>
  <2>1. ASSUME NEW j \in 1 .. Len(l.keys)
        PROVE  l.keys[j].value # w
    <3>1. PICK p : p = IF j < i THEN j ELSE j + 1
      OBVIOUS
    <3>2. p \in 1 .. Len(m.keys)
      BY <1>5, <1>7, <3>1
    <3> QED  BY <1>11, <1>14, <3>1, <3>2
  <2> QED  BY <1>8, <2>1
<1> QED  BY <1>8, <1>13, <1>14 DEF Holds

(* A key without a list can go. *)
LEMMA KeyGoneHolds ==
  ASSUME NEW l, NEW i \in 1 .. Len(l.keys), GoodButFor(l, i), l.keys[i].head = AM_NULL,
         NEW C, Holds(l, C), NEW m, m = [l EXCEPT !.keys = RemoveAt(@, i)]
  PROVE  Holds(m, C)
<1>1. l \in Leaf /\ \E o, d : Lists(l, o, d)
  BY ButForParts
<1>2. PICK o, d : Lists(l, o, d)
  BY <1>1
<1>3. l.keys \in Seq(Entry) /\ Len(l.keys) \in Nat
  BY <1>1, LeafParts
<1>4. m \in Leaf
  <2>1. GoodLeaf(m)
    BY RemoveKeyGood
  <2> QED  BY <2>1 DEF GoodLeaf
<1>5. m.link = l.link /\ m.recId = l.recId /\ m.keys = RemoveAt(l.keys, i)
  BY <1>1 DEF Leaf
<1>6. /\ Len(m.keys) = Len(l.keys) - 1
      /\ \A p \in 1 .. Len(m.keys) : m.keys[p] = IF p < i THEN l.keys[p] ELSE l.keys[p + 1]
  BY <1>3, <1>5, RemoveAtIs, SMTT(40)
<1>7. /\ C \in [Value -> Seq(RecId)]
      /\ \A j \in 1 .. Len(l.keys) : C[l.keys[j].value] = RecIds(l, j)
      /\ \A w \in Value : (\A j \in 1 .. Len(l.keys) : l.keys[j].value # w) => C[w] = << >>
  BY DEF Holds
<1>8. ASSUME NEW p \in 1 .. Len(m.keys)
      PROVE  C[m.keys[p].value] = RecIds(m, p)
  <2>1. PICK j : j = IF p < i THEN p ELSE p + 1
    OBVIOUS
  <2>2. j \in 1 .. Len(l.keys) /\ m.keys[p] = l.keys[j]
    <3>1. j \in 1 .. Len(l.keys)
      BY <1>3, <1>6, <2>1
    <3> QED  BY <1>6, <2>1, <3>1
  <2>3. RecIds(m, p) = RecIds(l, j)
    BY <1>1, <1>2, <1>4, <1>5, <2>2, EntryKept, ZenonT(60)
  <2> QED  BY <1>7, <2>2, <2>3
<1>9. C[l.keys[i].value] = << >>
  BY <1>1, <1>7, NoRecIds
<1>10. ASSUME NEW w \in Value, \A p \in 1 .. Len(m.keys) : m.keys[p].value # w
       PROVE  C[w] = << >>
  <2>1. CASE w = l.keys[i].value
    BY <1>9, <2>1
  <2>2. CASE w # l.keys[i].value
    <3>1. ASSUME NEW j \in 1 .. Len(l.keys)
          PROVE  l.keys[j].value # w
      <4>1. CASE j = i
        BY <2>2, <4>1
      <4>2. CASE j # i
        <5>1. PICK p : p = IF j < i THEN j ELSE j - 1
          OBVIOUS
        <5>2. p \in 1 .. Len(m.keys) /\ j = IF p < i THEN p ELSE p + 1
          BY <1>3, <1>6, <4>2, <5>1
        <5>3. m.keys[p] = l.keys[j]
          BY <1>6, <5>2
        <5> QED  BY <1>10, <5>2, <5>3
      <4> QED  BY <4>1, <4>2
    <3> QED  BY <1>7, <3>1
  <2> QED  BY <2>1, <2>2
<1> QED  BY <1>7, <1>8, <1>10 DEF Holds

(* AM_Compact keeps the keys from low to high with what they have. *)
Part(l, C, low, high) ==
    [v \in Value |-> IF \E j \in low .. high : l.keys[j].value = v THEN C[v] ELSE << >>]

LEMMA CompactHolds ==
  ASSUME NEW l, GoodLeaf(l), NEW low \in Nat, low # 0, NEW n \in Nat, low + n <= Len(l.keys) + 1,
         NEW high, high = low + n - 1, NEW off, NEW m, Compacted(l, m, low, n, off),
         NEW C, Holds(l, C)
  PROVE  Holds(m, Part(l, C, low, high))
<1>1. /\ m \in Leaf /\ Len(m.keys) = n /\ InARow(m, n, off)
      /\ \A j \in 1 .. n : m.keys[j].value = l.keys[low + j - 1].value
      /\ \A j \in 1 .. n :
           /\ off[j] = off[j - 1] + Len(RecIds(l, low + j - 1))
           /\ \A k \in 1 .. Len(RecIds(l, low + j - 1)) :
                m.recId[off[j - 1] + k] = RecIds(l, low + j - 1)[k]
  BY DEF Compacted
<1>2. l \in Leaf /\ Len(l.keys) \in Nat /\ \E o, d : Lists(l, o, d)
  BY LeafParts DEF GoodLeaf
<1>3. PICK o, d : Lists(l, o, d)
  BY <1>2
<1>4. \A j \in 1 .. n : low + j - 1 \in 1 .. Len(l.keys) /\ low + j - 1 \in low .. high
  BY <1>2
<1>5. /\ \A j \in 0 .. n : off[j] \in Nat
      /\ \A j \in 1 .. n : off[j - 1] < off[j]
      /\ \A i, j \in 0 .. n : i <= j => off[i] <= off[j]
      /\ off[n] <= MaxCell
      /\ \A j \in 1 .. n : m.keys[j].head = off[j - 1] + 1
      /\ \A c \in 1 .. off[n] : m.link[c] = IF \E j \in 1 .. n : c = off[j] THEN AM_NULL ELSE c + 1
  BY <1>1 DEF InARow
<1>6. ASSUME NEW j \in 1 .. n, NEW i, i = low + j - 1
      PROVE  RecIds(m, j) = RecIds(l, i)
  <2>1. PICK w : w = RecIds(l, i)
    OBVIOUS
  <2>2. w \in Seq(RecId) /\ Len(w) \in Nat
    <3>1. i \in 0 .. Len(l.keys) /\ i \in 1 .. Len(l.keys)
      BY <1>2, <1>4, <1>6
    <3>2. ListOf(l, i) \in Seq(Cell)
      BY <1>2, <1>3, <3>1, ListOfIs
    <3>3. w \in Seq(RecId)
      BY <1>2, <2>1, <3>1, <3>2, RecIdsAre
    <3> QED  BY <3>3
  <2>3. PICK a \in Nat : a = off[j - 1]
    <3>1. j - 1 \in 0 .. n
      OBVIOUS
    <3> QED  BY <1>5, <3>1
  <2>4. /\ off[j] = a + Len(w) /\ off[j] <= off[n] /\ off[n] \in Nat /\ Len(w) # 0
        /\ \A k \in 1 .. Len(w) : m.recId[a + k] = w[k]
    <3>1. j \in 0 .. n /\ n \in 0 .. n /\ j <= n
      OBVIOUS
    <3>2. off[j] <= off[n] /\ off[n] \in Nat /\ off[j] \in Nat /\ a < off[j]
      BY <1>5, <2>3, <3>1
    <3>3. off[j] = a + Len(w) /\ \A k \in 1 .. Len(w) : m.recId[a + k] = w[k]
      BY <1>1, <1>6, <2>1, <2>3
    <3> QED  BY <2>2, <2>3, <3>2, <3>3
  <2> DEFINE s == [k \in 1 .. Len(w) |-> a + k]
  <2>5. \A k \in 1 .. Len(w) : a + k \in Cell /\ a + k \in 1 .. off[n]
    BY <1>5, <2>2, <2>4, CellNumbers, SMTT(40)
  <2>6. s \in Seq(Cell) /\ Len(s) = Len(w) /\ \A k \in 1 .. Len(w) : s[k] = a + k
    BY <2>2, <2>5
  <2> HIDE DEF s
  (* The cells of key j end at off[j]; no other list ends before. *)
  <2>7. ASSUME NEW k \in 1 .. Len(w)
        PROVE  m.link[a + k] = IF k = Len(w) THEN AM_NULL ELSE a + k + 1
    <3>1. CASE k = Len(w)
      <4>1. a + k = off[j]
        BY <2>4, <3>1
      <4> QED  BY <1>5, <2>5, <3>1, <4>1
    <3>2. CASE k # Len(w)
      <4>1. ASSUME NEW e \in 1 .. n, a + k = off[e]
            PROVE  FALSE
        <5>1. e \in 0 .. n /\ j \in 0 .. n /\ j - 1 \in 0 .. n
          OBVIOUS
        <5>2. CASE e <= j - 1
          <6>1. off[e] <= a
            BY <1>5, <2>3, <5>1, <5>2
          <6> QED  BY <2>3, <4>1, <6>1
        <5>3. CASE j <= e
          <6>1. off[j] <= off[e]
            BY <1>5, <5>1, <5>3
          <6> QED  BY <2>2, <2>3, <2>4, <3>2, <4>1, <6>1
        <5>4. e <= j - 1 \/ j <= e
          OBVIOUS
        <5> QED  BY <5>2, <5>3, <5>4
      <4> QED  BY <1>5, <2>5, <3>2, <4>1
    <3> QED  BY <3>1, <3>2
  <2>8. Linked(m, s)
    <3>1. \A k \in 1 .. Len(s) : m.link[s[k]] = IF k = Len(s) THEN AM_NULL ELSE s[k + 1]
      <4> SUFFICES ASSUME NEW k \in 1 .. Len(w)
                   PROVE  m.link[s[k]] = IF k = Len(w) THEN AM_NULL ELSE s[k + 1]
        BY <2>6
      <4>1. k # Len(w) => k + 1 \in 1 .. Len(w) /\ a + k + 1 = a + (k + 1)
        BY <2>2, <2>3, SMTT(40)
      <4> QED  BY <2>6, <2>7, <4>1
    <3>2. \A e, k \in 1 .. Len(s) : s[e] = s[k] => e = k
      <4>1. \A e, k \in 1 .. Len(w) : a + e = a + k => e = k
        BY <2>2, <2>3, SMTT(40)
      <4> QED  BY <2>6, <4>1
    <3> QED  BY <2>6, <3>1, <3>2 DEF Linked
  <2>9. HeadOf(m, j) = FirstCell(s)
    <3>1. s # << >> /\ s[1] = a + 1 /\ j # 0
      BY <2>2, <2>4, <2>6
    <3> QED  BY <1>5, <2>3, <3>1 DEF HeadOf, FirstCell
  <2>10. PICK u : u = RecIds(m, j)
    OBVIOUS
  <2>11. u \in Seq(RecId) /\ Len(u) = Len(s) /\ \A k \in 1 .. Len(s) : u[k] = m.recId[s[k]]
    <3>1. j \in 1 .. Len(m.keys) /\ m \in Leaf
      BY <1>1
    <3>2. /\ RecIds(m, j) \in Seq(RecId) /\ Len(RecIds(m, j)) = Len(s)
          /\ \A k \in 1 .. Len(s) : RecIds(m, j)[k] = m.recId[s[k]]
      BY <2>8, <2>9, <3>1, RecIdsOf
    <3> QED  BY <2>10, <3>2
  <2>12. \A k \in 1 .. Len(w) : u[k] = w[k]
    BY <2>4, <2>6, <2>11
  <2>13. u = w
    BY <2>2, <2>6, <2>11, <2>12, SMTT(40)
  <2> QED  BY <2>1, <2>10, <2>13
<1>7. /\ C \in [Value -> Seq(RecId)]
      /\ \A j \in 1 .. Len(l.keys) : C[l.keys[j].value] = RecIds(l, j)
  BY DEF Holds
<1>8. PICK D : D = Part(l, C, low, high)
  OBVIOUS
<1>9. /\ D \in [Value -> Seq(RecId)]
      /\ \A v \in Value :
           D[v] = IF \E j \in low .. high : l.keys[j].value = v THEN C[v] ELSE << >>
  BY <1>7, <1>8 DEF Part
<1>10. ASSUME NEW j \in 1 .. n
       PROVE  D[m.keys[j].value] = RecIds(m, j)
  <2>1. PICK i : i = low + j - 1
    OBVIOUS
  <2>2. i \in low .. high /\ i \in 1 .. Len(l.keys) /\ m.keys[j].value = l.keys[i].value
    BY <1>1, <1>4, <2>1
  <2>3. l.keys[i].value \in Value
    BY <1>2, <2>2, LeafParts
  <2> QED  BY <1>6, <1>7, <1>9, <2>1, <2>2, <2>3, SMTT(40)
<1>11. ASSUME NEW v \in Value, \A j \in 1 .. n : m.keys[j].value # v
       PROVE  D[v] = << >>
  <2>1. ASSUME NEW i \in low .. high
        PROVE  l.keys[i].value # v
    <3>1. PICK j \in 1 .. n : i = low + j - 1
      <4>1. i - low + 1 \in 1 .. n /\ i = low + (i - low + 1) - 1
        OBVIOUS
      <4> QED  BY <4>1
    <3> QED  BY <1>1, <1>11, <3>1
  <2> QED  BY <1>9, <2>1
<1> QED  BY <1>1, <1>8, <1>9, <1>10, <1>11 DEF Holds

-----------------------------------------------------------------------------
(* Deleting. *)

(* A list without its q-th cell, c. *)
Unlinks(l, m, s, q, c) ==
    /\ Linked(l, s) /\ q \in 1 .. Len(s) /\ c = s[q]
    /\ \A k \in 1 .. Len(s) : s[k] # c =>
         m.link[s[k]] = IF l.link[s[k]] = c THEN l.link[c] ELSE l.link[s[k]]

LEMMA LinkedWithout ==
  ASSUME NEW l, NEW m, NEW s, NEW q, NEW c, Unlinks(l, m, s, q, c),
         NEW t, t = RemoveAt(s, q), NEW h, h = IF q = 1 THEN l.link[c] ELSE FirstCell(s)
  PROVE  /\ Linked(m, t) /\ h = FirstCell(t) /\ Len(t) = Len(s) - 1
         /\ \A p \in 1 .. Len(t) : t[p] = IF p < q THEN s[p] ELSE s[p + 1]
<1>1. /\ s \in Seq(Cell) /\ Len(s) \in Nat /\ q \in 1 .. Len(s) /\ c = s[q]
      /\ \A k \in 1 .. Len(s) : l.link[s[k]] = IF k = Len(s) THEN AM_NULL ELSE s[k + 1]
      /\ \A j, k \in 1 .. Len(s) : s[j] = s[k] => j = k
      /\ \A k \in 1 .. Len(s) : s[k] # AM_NULL
      /\ \A k \in 1 .. Len(s) : s[k] # c =>
           m.link[s[k]] = IF l.link[s[k]] = c THEN l.link[c] ELSE l.link[s[k]]
  <2>1. s \in Seq(Cell) /\ Len(s) \in Nat
    BY DEF Linked, Unlinks
  <2>2. \A k \in 1 .. Len(s) : s[k] \in Cell
    BY <2>1
  <2>3. \A x \in Cell : x # AM_NULL
    BY CellNumbers DEF AM_NULL
  <2> QED  BY <2>1, <2>2, <2>3 DEF Linked, Unlinks
<1>2. /\ t \in Seq(Cell) /\ Len(t) = Len(s) - 1
      /\ \A p \in 1 .. Len(t) : t[p] = IF p < q THEN s[p] ELSE s[p + 1]
  BY <1>1, RemoveAtIs, SMTT(40)
<1>3. \A k \in 1 .. Len(s) : k # q => s[k] # c
  BY <1>1
<1>4. ASSUME NEW p \in 1 .. Len(t)
      PROVE  m.link[t[p]] = IF p = Len(t) THEN AM_NULL ELSE t[p + 1]
  <2>1. CASE p + 1 < q
    <3>1. p \in 1 .. Len(s) /\ p # q /\ p # Len(s) /\ p + 1 \in 1 .. Len(s) /\ p + 1 # q
      BY <1>1, <1>2, <2>1
    <3>2. t[p] = s[p] /\ l.link[s[p]] = s[p + 1] /\ s[p + 1] # c /\ s[p] # c
      BY <1>1, <1>2, <1>3, <2>1, <3>1
    <3>3. m.link[t[p]] = s[p + 1]
      BY <1>1, <3>1, <3>2
    <3>4. p # Len(t) /\ p + 1 \in 1 .. Len(t)
      BY <1>1, <1>2, <2>1
    <3>5. t[p + 1] = s[p + 1]
      BY <1>2, <2>1, <3>4
    <3> QED  BY <3>3, <3>4, <3>5
  <2>2. CASE p + 1 = q
    <3>1. p \in 1 .. Len(s) /\ p # q /\ p # Len(s) /\ p < q
      BY <1>1, <1>2, <2>2
    <3>2. t[p] = s[p] /\ l.link[s[p]] = c /\ s[p] # c
      BY <1>1, <1>2, <1>3, <2>2, <3>1
    <3>3. m.link[t[p]] = l.link[c]
      BY <1>1, <3>1, <3>2
    <3>4. l.link[c] = IF q = Len(s) THEN AM_NULL ELSE s[q + 1]
      BY <1>1
    <3>5. q = Len(s) <=> p = Len(t)
      BY <1>1, <1>2, <2>2
    <3>6. p # Len(t) => t[p + 1] = s[q + 1]
      <4> SUFFICES ASSUME p # Len(t) PROVE t[p + 1] = s[q + 1]
        OBVIOUS
      <4>1. p + 1 \in 1 .. Len(t) /\ ~(p + 1 < q)
        BY <1>1, <1>2, <2>2
      <4> QED  BY <1>2, <2>2, <4>1
    <3> QED  BY <3>3, <3>4, <3>5, <3>6
  <2>3. CASE ~(p < q)
    <3>1. p + 1 \in 1 .. Len(s) /\ p + 1 # q
      BY <1>1, <1>2, <2>3
    <3>2. t[p] = s[p + 1] /\ s[p + 1] # c
      BY <1>2, <1>3, <2>3, <3>1
    <3>3. l.link[s[p + 1]] = IF p + 1 = Len(s) THEN AM_NULL ELSE s[p + 1 + 1]
      BY <1>1, <3>1
    <3>4. p + 1 = Len(s) <=> p = Len(t)
      BY <1>1, <1>2
    <3>5. p # Len(t) => p + 1 + 1 \in 1 .. Len(s) /\ p + 1 + 1 # q /\ p + 1 \in 1 .. Len(t) /\ ~(p + 1 < q)
      BY <1>1, <1>2, <2>3
    <3>6. p # Len(t) => s[p + 1 + 1] # c /\ t[p + 1] = s[p + 1 + 1]
      BY <1>2, <1>3, <3>5
    <3>7. l.link[s[p + 1]] # c
      BY <1>1, <3>3, <3>4, <3>6
    <3>8. m.link[s[p + 1]] = l.link[s[p + 1]]
      BY <1>1, <3>1, <3>2, <3>7
    <3> QED  BY <3>2, <3>3, <3>4, <3>6, <3>8
  <2>4. p + 1 < q \/ p + 1 = q \/ ~(p < q)
    BY <1>1
  <2> QED  BY <2>1, <2>2, <2>3, <2>4
<1>5. \A a, b \in 1 .. Len(t) : t[a] = t[b] => a = b
  <2> SUFFICES ASSUME NEW a \in 1 .. Len(t), NEW b \in 1 .. Len(t), t[a] = t[b]
               PROVE  a = b
    OBVIOUS
  <2>1. PICK x : x = IF a < q THEN a ELSE a + 1
    OBVIOUS
  <2>2. PICK y : y = IF b < q THEN b ELSE b + 1
    OBVIOUS
  <2>3. x \in 1 .. Len(s) /\ y \in 1 .. Len(s)
    BY <1>1, <1>2, <2>1, <2>2, SMTT(40)
  <2>4. t[a] = s[x] /\ t[b] = s[y]
    BY <1>2, <2>1, <2>2
  <2>5. x = y
    <3>1. s[x] = s[y]
      BY <2>4
    <3> QED  BY <1>1, <2>3, <3>1
  <2> QED  BY <1>1, <1>2, <2>1, <2>2, <2>5
<1>6. Linked(m, t)
  BY <1>2, <1>4, <1>5 DEF Linked
<1>7. h = FirstCell(t)
  <2>1. CASE q # 1
    <3>1. 1 \in 1 .. Len(t) /\ 1 < q
      BY <1>1, <1>2, <2>1
    <3>2. t # << >> /\ s # << >> /\ t[1] = s[1]
      <4>1. Len(t) # 0 /\ Len(s) # 0
        BY <1>1, <3>1
      <4> QED  BY <1>2, <3>1, <4>1
    <3> QED  BY <2>1, <3>2 DEF FirstCell
  <2>2. CASE q = 1
    <3>1. h = IF 1 = Len(s) THEN AM_NULL ELSE s[2]
      <4>1. 1 \in 1 .. Len(s)
        BY <1>1, <2>2
      <4>2. h = l.link[s[1]]
        BY <1>1, <2>2
      <4>3. l.link[s[1]] = IF 1 = Len(s) THEN AM_NULL ELSE s[1 + 1]
        BY <1>1, <4>1
      <4> QED  BY <4>2, <4>3
    <3>2. CASE Len(s) = 1
      <4>1. Len(t) = 0
        BY <1>2, <3>2
      <4>2. t = << >>
        BY <1>2, <4>1
      <4> QED  BY <3>1, <3>2, <4>2 DEF FirstCell
    <3>3. CASE Len(s) # 1
      <4>1. 1 \in 1 .. Len(t) /\ ~(1 < q) /\ Len(t) # 0
        BY <1>1, <1>2, <2>2, <3>3
      <4>2. t # << >> /\ t[1] = s[2]
        BY <1>2, <4>1
      <4> QED  BY <3>1, <3>3, <4>2 DEF FirstCell
    <3> QED  BY <3>2, <3>3
  <2> QED  BY <2>1, <2>2
<1> QED  BY <1>2, <1>6, <1>7

(* FreeRecord takes the first r from key i. *)
LEMMA FreedHolds ==
  ASSUME NEW l, GoodLeaf(l), NEW i \in 1 .. Len(l.keys), NEW r, r \in Range(RecIds(l, i)),
         NEW C, Holds(l, C), NEW m, m = FreeRecord(l, i, r)
  PROVE  Holds(m, [C EXCEPT ![l.keys[i].value] = RemoveAt(@, FirstOf(@, r))])
<1>1. l \in Leaf /\ \A j, k \in 1 .. Len(l.keys) : l.keys[j].value = l.keys[k].value => j = k
  BY ButForGood, ButForParts
<1>2. PICK o, d : Lists(l, o, d)
  BY DEF GoodLeaf
<1>3. PICK L : Owns(l, L)
  BY <1>1, <1>2, OwnsItsLists
<1>4. /\ Len(l.keys) \in Nat /\ Taken(l) \subseteq Cell
      /\ \A j \in 1 .. Len(l.keys) : l.keys[j].value \in Value
      /\ \A j \in 1 .. Len(l.keys) : j \in 0 .. Len(l.keys) /\ j # 0
      /\ \A c \in Cell : c # AM_NULL
  <2>1. Len(l.keys) \in Nat /\ \A c \in Cell : c # AM_NULL
    BY <1>1, LeafParts, CellNumbers DEF AM_NULL
  <2> QED  BY <1>1, <2>1, LeafParts
<1>5. /\ \A j \in 0 .. Len(l.keys) :
           /\ Linked(l, L[j]) /\ HeadOf(l, j) = FirstCell(L[j]) /\ L[j] \in Seq(Cell)
           /\ L[j] = ListOf(l, j)
           /\ \A k \in 1 .. Len(L[j]) : L[j][k] \in Taken(l)
      /\ \A j, k \in 0 .. Len(l.keys) : \A a \in 1 .. Len(L[j]), b \in 1 .. Len(L[k]) :
           L[j][a] = L[k][b] => j = k
  BY <1>3 DEF Owns, Linked
<1>6. PICK w : w = RecIds(l, i)
  OBVIOUS
<1>7. w \in Seq(RecId) /\ Len(w) = Len(L[i]) /\ \A k \in 1 .. Len(L[i]) : w[k] = l.recId[L[i][k]]
  BY <1>1, <1>4, <1>5, <1>6, RecIdsOf
<1>8. PICK q : q = FirstOf(w, r)
  OBVIOUS
<1>9. q \in 1 .. Len(w) /\ q \in 1 .. Len(L[i])
  BY <1>6, <1>7, <1>8, FirstIs
<1>10. PICK c \in Taken(l) : Freed(l, m, i, c) /\ c = L[i][q]
  <2>1. PICK c \in Taken(l) : Freed(l, m, i, c) /\ c = ListOf(l, i)[FirstOf(RecIds(l, i), r)]
    BY <1>1, <1>2, FreeRecordIs
  <2>2. L[i] = ListOf(l, i)
    BY <1>4, <1>5
  <2> QED  BY <1>6, <1>8, <2>1, <2>2
<1>11. /\ m.recId = l.recId
       /\ \A b \in Taken(l) : b # c => m.link[b] = IF l.link[b] = c THEN l.link[c] ELSE l.link[b]
       /\ Len(m.keys) = Len(l.keys)
       /\ \A j \in 1 .. Len(l.keys) :
            /\ m.keys[j].value = l.keys[j].value
            /\ m.keys[j].head = IF j = i /\ l.keys[i].head = c THEN l.link[c] ELSE l.keys[j].head
  BY <1>10 DEF Freed
<1>12. m \in Leaf
  <2>1. GoodButFor(m, i)
    BY FreeRecordGood
  <2> QED  BY <2>1 DEF GoodButFor
<1>13. ASSUME NEW j \in 1 .. Len(l.keys), j # i
       PROVE  RecIds(m, j) = RecIds(l, j)
  <2>1. PICK s : s = L[j]
    OBVIOUS
  <2>2. Linked(l, s) /\ HeadOf(l, j) = FirstCell(s) /\ \A k \in 1 .. Len(s) : s[k] \in Taken(l) /\ s[k] # c
    BY <1>4, <1>5, <1>9, <1>10, <1>13, <2>1
  <2>3. ASSUME NEW k \in 1 .. Len(s)
        PROVE  m.link[s[k]] = l.link[s[k]]
    <3>1. l.link[s[k]] # c
      <4>1. l.link[s[k]] = IF k = Len(s) THEN AM_NULL ELSE s[k + 1]
        BY <2>2 DEF Linked
      <4>2. k # Len(s) => k + 1 \in 1 .. Len(s)
        BY <2>2 DEF Linked
      <4>3. c # AM_NULL
        BY <1>4, <1>10
      <4> QED  BY <2>2, <4>1, <4>2, <4>3
    <3> QED  BY <1>11, <2>2, <3>1
  <2>4. HeadOf(m, j) = HeadOf(l, j)
    BY <1>4, <1>11, <1>13 DEF HeadOf
  <2>5. j \in 1 .. Len(m.keys)
    BY <1>11
  <2> QED  BY <1>1, <1>11, <1>12, <2>2, <2>3, <2>4, <2>5, ListKept, SMTT(40)
<1>14. RecIds(m, i) = RemoveAt(w, q)
  <2>1. PICK s : s = L[i]
    OBVIOUS
  <2>2. /\ Linked(l, s) /\ HeadOf(l, i) = FirstCell(s) /\ s \in Seq(Cell) /\ Len(s) \in Nat
        /\ q \in 1 .. Len(s) /\ c = s[q]
        /\ \A k \in 1 .. Len(s) : s[k] \in Taken(l)
        /\ \A a, b \in 1 .. Len(s) : s[a] = s[b] => a = b
    BY <1>4, <1>5, <1>9, <1>10, <2>1, SMTT(40) DEF Linked
  <2>3. PICK t : t = RemoveAt(s, q)
    OBVIOUS
  <2>4. PICK h : h = IF q = 1 THEN l.link[c] ELSE FirstCell(s)
    OBVIOUS
  <2>5. /\ Linked(m, t) /\ h = FirstCell(t) /\ Len(t) = Len(s) - 1
        /\ \A p \in 1 .. Len(t) : t[p] = IF p < q THEN s[p] ELSE s[p + 1]
    <3>1. \A k \in 1 .. Len(s) : s[k] # c =>
            m.link[s[k]] = IF l.link[s[k]] = c THEN l.link[c] ELSE l.link[s[k]]
      BY <1>11, <2>2
    <3>2. Unlinks(l, m, s, q, c)
      BY <2>2, <3>1 DEF Unlinks
    <3> QED  BY <2>3, <2>4, <3>2, LinkedWithout
  <2>6. HeadOf(m, i) = h
    <3>1. HeadOf(m, i) = IF l.keys[i].head = c THEN l.link[c] ELSE l.keys[i].head
      BY <1>4, <1>11 DEF HeadOf
    <3>2. l.keys[i].head = s[1] /\ 1 \in 1 .. Len(s) /\ l.keys[i].head = FirstCell(s)
      <4>1. 1 \in 1 .. Len(s) /\ s # << >>
        BY <2>2
      <4> QED  BY <1>4, <2>2, <4>1 DEF HeadOf, FirstCell
    <3>3. l.keys[i].head = c <=> q = 1
      BY <2>2, <3>2
    <3> QED  BY <2>4, <3>1, <3>2, <3>3
  <2>7. PICK u : u = RecIds(m, i)
    OBVIOUS
  <2>8. u \in Seq(RecId) /\ Len(u) = Len(t) /\ \A k \in 1 .. Len(t) : u[k] = m.recId[t[k]]
    <3>1. i \in 1 .. Len(m.keys) /\ HeadOf(m, i) = FirstCell(t)
      BY <1>11, <2>5, <2>6
    <3>2. /\ RecIds(m, i) \in Seq(RecId) /\ Len(RecIds(m, i)) = Len(t)
          /\ \A k \in 1 .. Len(t) : RecIds(m, i)[k] = m.recId[t[k]]
      BY <1>12, <2>5, <3>1, RecIdsOf
    <3> QED  BY <2>7, <3>2
  <2>9. PICK x : x = RemoveAt(w, q)
    OBVIOUS
  <2>10. /\ x \in Seq(RecId) /\ Len(x) = Len(w) - 1
         /\ \A p \in 1 .. Len(x) : x[p] = IF p < q THEN w[p] ELSE w[p + 1]
    <3>1. w \in Seq(RecId) /\ q \in 1 .. Len(w)
      BY <1>7, <1>9
    <3> QED  BY <2>9, <3>1, RemoveAtIs, SMTT(40)
  <2>11. Len(w) = Len(s) /\ \A k \in 1 .. Len(s) : w[k] = l.recId[s[k]]
    BY <1>7, <2>1
  <2>12. Len(x) = Len(t)
    BY <2>5, <2>10, <2>11
  <2>13. ASSUME NEW p \in 1 .. Len(t)
         PROVE  u[p] = x[p]
    <3>1. PICK k : k = IF p < q THEN p ELSE p + 1
      OBVIOUS
    <3>2. k \in 1 .. Len(s)
      BY <2>2, <2>5, <3>1
    <3>3. t[p] = s[k]
      BY <2>5, <3>1
    <3>4. x[p] = w[k]
      BY <2>10, <2>12, <3>1
    <3> QED  BY <1>11, <2>8, <2>11, <3>2, <3>3, <3>4
  <2>14. u = x
    BY <2>8, <2>10, <2>12, <2>13
  <2> QED  BY <2>7, <2>9, <2>14
<1>15. /\ C \in [Value -> Seq(RecId)]
       /\ \A j \in 1 .. Len(l.keys) : C[l.keys[j].value] = RecIds(l, j)
       /\ \A v \in Value : (\A j \in 1 .. Len(l.keys) : l.keys[j].value # v) => C[v] = << >>
  BY DEF Holds
<1> DEFINE D == [C EXCEPT ![l.keys[i].value] = RemoveAt(@, FirstOf(@, r))]
<1>16. /\ D \in [Value -> Seq(RecId)]
       /\ \A v \in Value : D[v] = IF v = l.keys[i].value THEN RemoveAt(w, q) ELSE C[v]
  <2>1. C[l.keys[i].value] = w /\ l.keys[i].value \in Value
    BY <1>4, <1>6, <1>15
  <2>2. RemoveAt(w, q) \in Seq(RecId)
    BY <1>7, <1>9, RemoveAtIs
  <2>3. D = [C EXCEPT ![l.keys[i].value] = RemoveAt(w, q)]
    BY <1>8, <2>1
  <2> HIDE DEF D
  <2> QED  BY <1>15, <2>1, <2>2, <2>3
<1> HIDE DEF D
<1>17. ASSUME NEW j \in 1 .. Len(m.keys)
       PROVE  D[m.keys[j].value] = RecIds(m, j)
  <2>1. j \in 1 .. Len(l.keys) /\ m.keys[j].value = l.keys[j].value /\ l.keys[j].value \in Value
    BY <1>4, <1>11
  <2>2. j = i <=> l.keys[j].value = l.keys[i].value
    BY <1>1, <2>1
  <2>3. C[l.keys[j].value] = RecIds(l, j)
    BY <1>15, <2>1
  <2> QED  BY <1>13, <1>14, <1>16, <2>1, <2>2, <2>3
<1>18. ASSUME NEW v \in Value, \A j \in 1 .. Len(m.keys) : m.keys[j].value # v
       PROVE  D[v] = << >>
  <2>1. \A j \in 1 .. Len(l.keys) : l.keys[j].value # v
    BY <1>11, <1>18
  <2> QED  BY <1>15, <1>16, <2>1
<1>19. Holds(m, D)
  BY <1>16, <1>17, <1>18 DEF Holds
<1> QED  BY <1>19 DEF D

-----------------------------------------------------------------------------
(* What a leaf says. *)

Contents(l) == [v \in Value |-> RecordsIn(l, v)]

LEMMA ContentsHold ==
  ASSUME NEW l, GoodLeaf(l)
  PROVE  /\ Holds(l, Contents(l))
         /\ \A v \in Value : v \in Range(Values(l)) <=> RecordsIn(l, v) # << >>
<1>1. /\ l \in Leaf /\ Len(l.keys) \in Nat
      /\ \A j, k \in 1 .. Len(l.keys) : l.keys[j].value = l.keys[k].value => j = k
      /\ \A j \in 1 .. Len(l.keys) : l.keys[j].value \in Value /\ l.keys[j].head # AM_NULL
  <2>1. l \in Leaf /\ \A j \in 1 .. Len(l.keys) : l.keys[j].head # AM_NULL
    BY DEF GoodLeaf
  <2> QED  BY <2>1, LeafParts, ButForGood, ButForParts
<1>2. PICK o, d : Lists(l, o, d)
  BY DEF GoodLeaf
<1>3. ASSUME NEW i \in 1 .. Len(l.keys)
      PROVE  RecIds(l, i) \in Seq(RecId) /\ RecIds(l, i) # << >>
  <2>1. i \in 0 .. Len(l.keys) /\ i # 0
    BY <1>1
  <2>2. PICK s : s = ListOf(l, i)
    OBVIOUS
  <2>3. Linked(l, s) /\ HeadOf(l, i) = FirstCell(s)
    BY <1>1, <1>2, <2>1, <2>2, ListIsLinked
  <2>4. s # << >>
    BY <1>1, <2>1, <2>3 DEF HeadOf, FirstCell
  <2>5. RecIds(l, i) \in Seq(RecId) /\ Len(RecIds(l, i)) = Len(s)
    BY <1>1, <2>3, RecIdsOf
  <2>6. s \in Seq(Cell) /\ Len(s) # 0
    BY <2>3, <2>4 DEF Linked
  <2> QED  BY <2>5, <2>6
<1>4. ASSUME NEW v \in Value, NEW i \in 1 .. Len(l.keys), l.keys[i].value = v
      PROVE  RecordsIn(l, v) = RecIds(l, i)
  <2>1. PICK j : j = AM_SearchLeaf(Values(l), v)
    OBVIOUS
  <2>2. FoundAt(l, v, j, Found(Values(l), v))
    BY <2>1, FoundIs
  <2>3. /\ j \in 1 .. Len(l.keys) + 1
        /\ \A k \in 1 .. Len(l.keys) : IF k < j THEN l.keys[k].value < v ELSE v <= l.keys[k].value
        /\ Found(Values(l), v) <=> j <= Len(l.keys) /\ l.keys[j].value = v
    BY <2>2 DEF FoundAt, Place
  <2>4. /\ v \in Int /\ Ascending(Values(l)) /\ Len(Values(l)) = Len(l.keys)
        /\ \A k \in 1 .. Len(l.keys) : l.keys[k].value \in Int /\ Values(l)[k] = l.keys[k].value
    BY <1>1, ValuesAre, AMLeafAssumption DEF GoodLeaf
  <2>5. ~(i < j)
    <3>1. i < j => l.keys[i].value < v
      BY <2>3
    <3> QED  BY <1>4, <2>4, <3>1
  <2>6. j \in 1 .. Len(l.keys) /\ j <= i
    BY <1>1, <2>3, <2>5
  <2>7. v <= l.keys[j].value
    <3>1. ~(j < j)
      BY <2>6
    <3> QED  BY <2>3, <2>6, <3>1
  <2>8. l.keys[j].value = v
    <3>1. j = i \/ l.keys[j].value < l.keys[i].value
      BY <2>4, <2>6 DEF Ascending
    <3> QED  BY <1>4, <2>4, <2>6, <2>7, <3>1
  <2>9. j = i
    BY <1>1, <1>4, <2>6, <2>8
  <2>10. Found(Values(l), v)
    BY <2>3, <2>6, <2>8
  <2> QED  BY <2>1, <2>9, <2>10 DEF RecordsIn
<1>5. ASSUME NEW v \in Value, \A i \in 1 .. Len(l.keys) : l.keys[i].value # v
      PROVE  RecordsIn(l, v) = << >>
  <2>1. PICK j : j = AM_SearchLeaf(Values(l), v)
    OBVIOUS
  <2>2. FoundAt(l, v, j, Found(Values(l), v))
    BY <2>1, FoundIs
  <2>3. j \in 1 .. Len(l.keys) + 1 /\ (Found(Values(l), v) <=> j <= Len(l.keys) /\ l.keys[j].value = v)
    BY <2>2 DEF FoundAt, Place
  <2>4. ~Found(Values(l), v)
    BY <1>1, <1>5, <2>3
  <2> QED  BY <2>4 DEF RecordsIn
<1>6. Contents(l) \in [Value -> Seq(RecId)]
  <2> SUFFICES ASSUME NEW v \in Value PROVE RecordsIn(l, v) \in Seq(RecId)
    BY DEF Contents
  <2>1. CASE \E i \in 1 .. Len(l.keys) : l.keys[i].value = v
    BY <1>3, <1>4, <2>1
  <2>2. CASE \A i \in 1 .. Len(l.keys) : l.keys[i].value # v
    <3>1. << >> \in Seq(RecId)
      OBVIOUS
    <3> QED  BY <1>5, <2>2, <3>1
  <2> QED  BY <2>1, <2>2
<1>7. Holds(l, Contents(l))
  <2>1. \A i \in 1 .. Len(l.keys) : Contents(l)[l.keys[i].value] = RecIds(l, i)
    BY <1>1, <1>4 DEF Contents
  <2>2. \A v \in Value : (\A i \in 1 .. Len(l.keys) : l.keys[i].value # v) => Contents(l)[v] = << >>
    BY <1>5 DEF Contents
  <2> QED  BY <1>6, <2>1, <2>2 DEF Holds
<1>8. ASSUME NEW v \in Value
      PROVE  v \in Range(Values(l)) <=> RecordsIn(l, v) # << >>
  <2>1. v \in Range(Values(l)) <=> \E i \in 1 .. Len(l.keys) : l.keys[i].value = v
    <3>1. DOMAIN Values(l) = 1 .. Len(l.keys)
      BY <1>1, ValuesAre
    <3>2. \A i \in 1 .. Len(l.keys) : Values(l)[i] = l.keys[i].value
      BY <1>1, ValuesAre
    <3> QED  BY <3>1, <3>2 DEF Range
  <2> QED  BY <1>3, <1>4, <1>5, <2>1
<1> QED  BY <1>7, <1>8

LEMMA HoldsIs ==
  ASSUME NEW l, GoodLeaf(l), NEW C, Holds(l, C)
  PROVE  Contents(l) = C
<1>1. PICK D : D = Contents(l)
  OBVIOUS
<1>2. Holds(l, D)
  BY <1>1, ContentsHold
<1>3. ASSUME NEW v \in Value
      PROVE  D[v] = C[v]
  <2>1. CASE \E i \in 1 .. Len(l.keys) : l.keys[i].value = v
    BY <1>2, <2>1 DEF Holds
  <2>2. CASE \A i \in 1 .. Len(l.keys) : l.keys[i].value # v
    BY <1>2, <2>2 DEF Holds
  <2> QED  BY <2>1, <2>2
<1>4. D = C
  BY <1>2, <1>3 DEF Holds
<1> QED  BY <1>1, <1>4

LEMMA ContentsTyped ==
  ASSUME NEW l, GoodLeaf(l)
  PROVE  Contents(l) \in [Value -> Seq(RecId)]
BY ContentsHold DEF Holds

LEMMA CompactContents ==
  ASSUME NEW l, GoodLeaf(l), NEW low \in Nat, low # 0, NEW n \in Nat, low + n <= Len(l.keys) + 1,
         NEW high, high = low + n - 1, NEW m, m = AM_Compact(l, low, high), NEW C, Holds(l, C)
  PROVE  Holds(m, Part(l, C, low, high))
<1>1. PICK off : Room(l, low, n, off)
  BY KeysHaveRoom
<1>2. Compacted(l, m, low, n, off)
  BY <1>1, CompactIs
<1> QED  BY <1>2, CompactHolds

LEMMA NextContents ==
  ASSUME NEW l, GoodLeaf(l), NEW q \in AM_NULL_PAGE .. MaxPages - 1,
         NEW m, m = [l EXCEPT !.nextLeafPage = q], NEW C, Holds(l, C)
  PROVE  Holds(m, C)
<1>1. l \in Leaf /\ m \in Leaf /\ \E o, d : Lists(l, o, d)
  <2>1. GoodLeaf(m)
    BY NextGood
  <2> QED  BY <2>1 DEF GoodLeaf
<1>2. m.keys = l.keys /\ m.link = l.link /\ m.recId = l.recId
  BY <1>1 DEF Leaf
<1>3. ASSUME NEW i \in 1 .. Len(l.keys)
      PROVE  RecIds(m, i) = RecIds(l, i)
  <2>1. i \in 1 .. Len(m.keys) /\ m.keys[i].head = l.keys[i].head
    BY <1>2
  <2> QED  BY <1>1, <1>2, <2>1, EntryKept, ZenonT(60)
<1> QED  BY <1>2, <1>3 DEF Holds

(* AM_InsertintoLeaf, if there is room: r is the first of v's. *)
LEMMA NotFoundHolds ==
  ASSUME NEW l, GoodLeaf(l), NEW v \in Value, NEW i, Place(l, v, i),
         i <= Len(l.keys) => l.keys[i].value # v, NEW r \in RecId,
         Gap(l) >= EntrySize, l.freeListPtr # AM_NULL \/ Gap(l) >= EntrySize + CellSize,
         NEW C, Holds(l, C), NEW m, m = AM_InsertToLeafNotFound(l, v, r, i)
  PROVE  Holds(m, [C EXCEPT ![v] = <<r>> \o @])
<1>1. PICK e : e = [l EXCEPT !.keys = InsertAt(@, i, [value |-> v, head |-> AM_NULL])]
  OBVIOUS
<1>2. /\ GoodButFor(e, i) /\ i \in 1 .. Len(e.keys) /\ e.keys[i].value = v
      /\ Gap(e) = Gap(l) - EntrySize /\ e.freeListPtr = l.freeListPtr
  <2>1. KeyAdded(l, e, v, i)
    BY <1>1, NewKeyGood
  <2> QED  BY <2>1 DEF KeyAdded
<1>3. Gap(l) \in Int /\ EntrySize \in Nat /\ CellSize \in Nat
  <2>1. l \in Leaf
    BY DEF GoodLeaf
  <2>2. l.recIdPtr \in Nat /\ l.recIdPtr + 0 <= l.recIdPtr /\ Len(l.keys) \in Nat /\ Len(l.keys) <= Len(l.keys)
    BY <2>1, LeafParts
  <2>3. Gap(l) \in Int
    BY <2>2, GapGrows
  <2> QED  BY <2>3, AMLeafAssumption
<1>4. e.freeListPtr # AM_NULL \/ Gap(e) >= CellSize
  BY <1>2, <1>3
<1>5. m = AM_InsertToLeafFound(e, r, i)
  BY <1>1 DEF AM_InsertToLeafNotFound
<1>6. Holds(e, C)
  BY <1>1, KeyHolds
<1>7. Holds(m, [C EXCEPT ![e.keys[i].value] = <<r>> \o @])
  BY <1>2, <1>4, <1>5, <1>6, FoundHolds
<1> QED  BY <1>2, <1>7

LEMMA InsertContents ==
  ASSUME NEW l, GoodLeaf(l), NEW v \in Value, NEW r \in RecId, NEW i, NEW found,
         FoundAt(l, v, i, found), Fits(l, found), NEW C, Holds(l, C),
         NEW m, m = AM_InsertintoLeaf(l, v, r, i, found)
  PROVE  Holds(m, [C EXCEPT ![v] = <<r>> \o @])
<1>1. /\ l \in Leaf /\ Len(l.keys) \in Nat /\ i \in 1 .. Len(l.keys) + 1
      /\ l.recIdPtr \in Nat /\ l.numinfreeList \in Nat
  BY LeafParts DEF GoodLeaf, FoundAt, Place
<1>2. PICK x \in Nat : x = l.numinfreeList * CellSize
  BY <1>1, Bytes
<1>3. Gap(l) \in Int /\ EntrySize \in Nat /\ CellSize \in Nat
  <2>1. l.recIdPtr + 0 <= l.recIdPtr
    BY <1>1
  <2>2. Gap(l) \in Int
    BY <1>1, <2>1, GapGrows
  <2> QED  BY <2>2, AMLeafAssumption
<1>4. CASE found
  <2>1. m = AM_InsertToLeafFound(l, r, i)
    BY <1>4 DEF AM_InsertintoLeaf
  <2>2. l.freeListPtr # AM_NULL \/ Gap(l) >= CellSize
    BY <1>4 DEF Fits
  <2>3. i \in 1 .. Len(l.keys) /\ l.keys[i].value = v
    BY <1>1, <1>4 DEF FoundAt
  <2>4. GoodButFor(l, i)
    BY ButForGood
  <2>5. Holds(m, [C EXCEPT ![l.keys[i].value] = <<r>> \o @])
    BY <2>1, <2>2, <2>3, <2>4, FoundHolds
  <2> QED  BY <2>3, <2>5
<1>5. CASE ~found
  <2>1. Place(l, v, i) /\ (i <= Len(l.keys) => l.keys[i].value # v)
    BY <1>5 DEF FoundAt
  <2>2. CASE l.freeListPtr = AM_NULL
    <3>1. m = AM_InsertToLeafNotFound(l, v, r, i)
      BY <1>5, <2>2 DEF AM_InsertintoLeaf
    <3>2. Gap(l) >= CellSize + EntrySize
      BY <1>5, <2>2 DEF Fits
    <3>3. Gap(l) >= EntrySize /\ Gap(l) >= EntrySize + CellSize
      BY <1>3, <3>2
    <3> QED  BY <2>1, <3>1, <3>3, NotFoundHolds
  <2>3. CASE l.freeListPtr # AM_NULL /\ Gap(l) > EntrySize
    <3>1. m = AM_InsertToLeafNotFound(l, v, r, i)
      <4>1. ~(Gap(l) <= EntrySize)
        BY <1>3, <2>3
      <4> QED  BY <1>5, <4>1 DEF AM_InsertintoLeaf
    <3>2. Gap(l) >= EntrySize
      BY <1>3, <2>3
    <3> QED  BY <2>1, <2>3, <3>1, <3>2, NotFoundHolds
  <2>4. CASE l.freeListPtr # AM_NULL /\ ~(Gap(l) > EntrySize)
    <3>1. PICK c : c = AM_Compact(l, 1, Len(l.keys))
      OBVIOUS
    <3>2. PICK n \in Nat : n = Len(l.keys)
      BY <1>1
    <3>3. 1 \in Nat /\ 1 # 0 /\ 1 + n <= n + 1 /\ n = 1 + n - 1
      OBVIOUS
    <3>4. /\ GoodLeaf(c) /\ Len(c.keys) = Len(l.keys)
          /\ \A j \in 1 .. Len(l.keys) : c.keys[j].value = l.keys[1 + j - 1].value
          /\ Gap(c) >= Gap(l) + x
      <4>1. CompactedGood(l, c, 1, n)
        BY <3>1, <3>2, <3>3, CompactGood
      <4> QED  BY <1>2, <3>2, <4>1 DEF CompactedGood
    <3>5. \A j \in 1 .. Len(l.keys) : c.keys[j].value = l.keys[j].value
      <4>1. \A j \in 1 .. Len(l.keys) : 1 + j - 1 = j
        BY <1>1
      <4> QED  BY <3>4, <4>1
    <3>6. Holds(c, C)
      <4>1. Holds(c, Part(l, C, 1, n))
        BY <3>1, <3>2, <3>3, CompactContents
      <4>2. Part(l, C, 1, n) = C
        <5>1. /\ C \in [Value -> Seq(RecId)]
              /\ \A w \in Value : (\A j \in 1 .. Len(l.keys) : l.keys[j].value # w) => C[w] = << >>
          BY DEF Holds
        <5>2. PICK D : D = Part(l, C, 1, n)
          OBVIOUS
        <5>3. D = [w \in Value |-> IF \E j \in 1 .. Len(l.keys) : l.keys[j].value = w THEN C[w] ELSE << >>]
          BY <3>2, <5>2 DEF Part
        <5>4. \A w \in Value : D[w] = C[w]
          BY <5>1, <5>3
        <5>5. DOMAIN D = Value
          BY <5>3
        <5>6. D = [w \in Value |-> D[w]]
          BY <5>3, <5>5
        <5> QED  BY <5>1, <5>2, <5>4, <5>6
      <4> QED  BY <4>1, <4>2
    <3>7. Place(c, v, i) /\ (i <= Len(c.keys) => c.keys[i].value # v)
      <4>1. Place(c, v, i)
        BY <2>1, <3>4, <3>5 DEF Place
      <4>2. i <= Len(l.keys) => i \in 1 .. Len(l.keys)
        BY <1>1
      <4> QED  BY <2>1, <3>4, <3>5, <4>1, <4>2
    <3>8. m = AM_InsertToLeafNotFound(c, v, r, i)
      <4>1. Gap(l) <= EntrySize
        BY <1>3, <2>4
      <4> QED  BY <1>5, <2>4, <3>1, <4>1 DEF AM_InsertintoLeaf
    <3>9. x + Gap(l) > EntrySize + CellSize
      BY <1>2, <1>5, <2>4 DEF Fits
    <3>10. Gap(c) >= EntrySize /\ Gap(c) >= EntrySize + CellSize
      <4>1. Gap(c) \in Int
        <5>1. c \in Leaf
          BY <3>4 DEF GoodLeaf
        <5>2. Len(c.keys) \in Nat /\ c.recIdPtr \in Nat
          BY <5>1, LeafParts
        <5>3. c.recIdPtr + 0 <= c.recIdPtr /\ Len(c.keys) <= Len(c.keys)
          BY <5>2
        <5> QED  BY <5>2, <5>3, GapGrows
      <4> QED  BY <1>3, <3>4, <3>9, <4>1
    <3> QED  BY <3>4, <3>6, <3>7, <3>8, <3>10, NotFoundHolds
  <2> QED  BY <2>2, <2>3, <2>4
<1> QED  BY <1>4, <1>5

(* DeleteFromLeaf: the first r of v is gone, and the others are as before. *)
LEMMA DeleteContents ==
  ASSUME NEW l, GoodLeaf(l), NEW v \in Value, NEW r, Contains(RecordsIn(l, v), r),
         NEW m, m = DeleteFromLeaf(l, AM_SearchLeaf(Values(l), v), r)
  PROVE  /\ GoodLeaf(m)
         /\ Contents(m) = [Contents(l) EXCEPT ![v] = RemoveAt(@, FirstOf(@, r))]
<1>1. PICK i : i = AM_SearchLeaf(Values(l), v)
  OBVIOUS
<1>2. i \in 1 .. Len(l.keys) /\ r \in Range(RecIds(l, i)) /\ Found(Values(l), v)
  BY <1>1, RecordIn
<1>3. l.keys[i].value = v
  <2>1. FoundAt(l, v, i, Found(Values(l), v))
    BY <1>1, FoundIs
  <2> QED  BY <1>2, <2>1 DEF FoundAt
<1>4. m = DeleteFromLeaf(l, i, r)
  BY <1>1
<1>5. GoodLeaf(m)
  BY <1>2, <1>4, DeleteGood
<1>6. PICK f : f = FreeRecord(l, i, r)
  OBVIOUS
<1>7. GoodButFor(f, i) /\ Len(f.keys) = Len(l.keys)
  BY <1>2, <1>6, FreeRecordGood
<1> DEFINE D == [Contents(l) EXCEPT ![v] = RemoveAt(@, FirstOf(@, r))]
<1>8. Holds(f, D)
  <2>1. Holds(f, [Contents(l) EXCEPT ![l.keys[i].value] = RemoveAt(@, FirstOf(@, r))])
    BY <1>2, <1>6, ContentsHold, FreedHolds
  <2> QED  BY <1>3, <2>1
<1> HIDE DEF D
<1>9. Holds(m, D)
  <2>1. CASE f.keys[i].head = AM_NULL
    <3>1. m = [f EXCEPT !.keys = RemoveAt(@, i)]
      BY <1>4, <1>6, <2>1 DEF DeleteFromLeaf
    <3>2. i \in 1 .. Len(f.keys)
      BY <1>2, <1>7
    <3> QED  BY <1>7, <1>8, <2>1, <3>1, <3>2, KeyGoneHolds
  <2>2. CASE f.keys[i].head # AM_NULL
    <3>1. m = f
      BY <1>4, <1>6, <2>2 DEF DeleteFromLeaf
    <3> QED  BY <1>8, <3>1
  <2> QED  BY <2>1, <2>2
<1>10. Contents(m) = D
  BY <1>5, <1>9, HoldsIs
<1> QED  BY <1>5, <1>10 DEF D

LEMMA EmptyContents ==
  \A v \in Value : Contents(EmptyLeaf)[v] = << >>
<1> SUFFICES ASSUME NEW v \in Value PROVE Contents(EmptyLeaf)[v] = << >>
  OBVIOUS
<1>1. Holds(EmptyLeaf, Contents(EmptyLeaf))
  BY EmptyGood, ContentsHold
<1>2. Len(EmptyLeaf.keys) = 0
  BY DEF EmptyLeaf
<1>3. \A i \in 1 .. Len(EmptyLeaf.keys) : EmptyLeaf.keys[i].value # v
  BY <1>2
<1> QED  BY <1>1, <1>3 DEF Holds

-----------------------------------------------------------------------------
(* The halves of a leaf have room, if no value has many records.           *)

(* A leaf takes two keys, and with one of them a record more than clients  *)
(* give a value.                                                           *)
FewPerKey == 2 * EntrySize + (MaxPerKey + 1) * CellSize < LeafSpace

LEMMA MoreRoom ==
  ASSUME NEW l, NEW m, Len(l.keys) \in Nat, Len(m.keys) \in Nat, Len(m.keys) + 1 <= Len(l.keys),
         l.recIdPtr \in Nat, m.recIdPtr \in Nat, m.recIdPtr + 1 <= l.recIdPtr, Gap(l) >= 0
  PROVE  Gap(m) \in Int /\ Gap(m) >= EntrySize + CellSize
<1>1. LeafSpace \in Nat /\ EntrySize \in Nat /\ CellSize \in Nat
  BY AMLeafAssumption
<1>2. PICK a \in Nat, b \in Nat : a = Len(m.keys) * EntrySize /\ b = Len(l.keys) * EntrySize
  BY <1>1
<1>3. a + EntrySize <= b
  <2>1. (Len(m.keys) + 1) * EntrySize <= Len(l.keys) * EntrySize
    BY <1>1, BytesGrow, SMTT(40)
  <2>2. (Len(m.keys) + 1) * EntrySize = Len(m.keys) * EntrySize + EntrySize
    BY Bytes
  <2> QED  BY <1>2, <2>1, <2>2
<1>4. PICK c \in Nat, e \in Nat : c = m.recIdPtr * CellSize /\ e = l.recIdPtr * CellSize
  BY <1>1
<1>5. c + CellSize <= e
  <2>1. (m.recIdPtr + 1) * CellSize <= l.recIdPtr * CellSize
    BY <1>1, BytesGrow, SMTT(40)
  <2>2. (m.recIdPtr + 1) * CellSize = m.recIdPtr * CellSize + CellSize
    BY Bytes
  <2> QED  BY <1>4, <2>1, <2>2
<1>6. Gap(l) = LeafSpace - b - e /\ Gap(m) = LeafSpace - a - c
  BY <1>2, <1>4 DEF Gap
<1>7. LeafSpace - b - e >= 0
  BY <1>6
<1>8. LeafSpace - a - c >= EntrySize + CellSize
  BY <1>1, <1>3, <1>5, <1>7
<1>9. LeafSpace - a - c \in Int
  BY <1>1
<1> QED  BY <1>6, <1>8, <1>9

LEMMA RoomPart ==
  ASSUME NEW l, NEW n \in Nat, NEW off, Room(l, 1, n, off),
         NEW a \in Nat, a # 0, NEW k \in Nat, a + k <= n + 1,
         NEW part, part = [j \in 0 .. k |-> off[a - 1 + j] - off[a - 1]],
         l.recIdPtr \in Nat, l.numinfreeList \in Nat
  PROVE  Room(l, a, k, part) /\ (k < n => part[k] + 1 <= l.recIdPtr)
<1>1. PICK S : S = KeyLists(l, 1, n)
  OBVIOUS
<1>2. /\ S \in Seq(Seq(Cell)) /\ Len(S) = n
      /\ \A i \in 0 .. n : off[i] \in Nat
      /\ \A i \in 1 .. n : off[i] = off[i - 1] + Len(S[i])
      /\ \A i, j \in 0 .. n : i <= j => off[i] <= off[j]
      /\ \A j \in 1 .. n : off[j - 1] < off[j]
      /\ off[n] + l.numinfreeList <= l.recIdPtr
      /\ off[0] = 0
  BY <1>1 DEF Room, Offsets
<1>3. PICK T : T = KeyLists(l, a, k)
  OBVIOUS
<1>4. PICK z \in Nat : z = a - 1
  OBVIOUS
<1>5. z + k <= n /\ a = z + 1
  BY <1>4
<1>6. \A j \in 1 .. k : z + j \in 1 .. n /\ T[j] = S[z + j]
  <2>1. \A j \in 1 .. k : z + j \in 1 .. n /\ a + j - 1 = z + j /\ 1 + (z + j) - 1 = z + j
    BY <1>5
  <2>2. \A j \in 1 .. k : T[j] = ListOf(l, a + j - 1)
    BY <1>3 DEF KeyLists
  <2>3. \A i \in 1 .. n : S[i] = ListOf(l, 1 + i - 1)
    BY <1>1 DEF KeyLists
  <2>4. ASSUME NEW j \in 1 .. k
        PROVE  T[j] = S[z + j]
    <3>1. PICK i \in 1 .. n : i = z + j
      BY <2>1
    <3>2. S[i] = ListOf(l, i)
      <4>1. 1 + i - 1 = i
        OBVIOUS
      <4> QED  BY <2>3, <4>1
    <3>3. T[j] = ListOf(l, i)
      <4>1. a + j - 1 = i
        BY <2>1, <3>1
      <4> QED  BY <2>2, <4>1
    <3> QED  BY <3>1, <3>2, <3>3
  <2> QED  BY <2>1, <2>4
<1>7. T \in Seq(Seq(Cell)) /\ Len(T) = k
  <2>1. \A i \in 1 .. n : S[i] \in Seq(Cell)
    BY <1>2
  <2>2. \A j \in 1 .. k : T[j] \in Seq(Cell)
    BY <1>6, <2>1
  <2>3. T = [j \in 1 .. k |-> ListOf(l, a + j - 1)]
    BY <1>3 DEF KeyLists
  <2>4. T = [j \in 1 .. k |-> T[j]]
    BY <2>3
  <2>5. T \in [1 .. k -> Seq(Cell)]
    BY <2>2, <2>4
  <2> QED  BY <2>5
<1>8. z \in 0 .. n /\ off[z] \in Nat
  BY <1>2, <1>5
<1>9. \A j \in 0 .. k : z + j \in 0 .. n /\ z <= z + j /\ part[j] = off[z + j] - off[z]
  BY <1>4, <1>5
<1>10. \A j \in 0 .. k : part[j] \in Nat
  <2>1. \A j \in 0 .. k : off[z + j] \in Nat /\ off[z] <= off[z + j]
    BY <1>2, <1>8, <1>9
  <2>2. \A x, y \in Nat : y <= x => x - y \in Nat
    OBVIOUS
  <2>3. ASSUME NEW j \in 0 .. k
        PROVE  part[j] \in Nat
    <3>1. off[z + j] - off[z] \in Nat
      BY <1>8, <2>1, <2>2
    <3> QED  BY <1>9, <3>1
  <2> QED  BY <2>3
<1>11. part[0] = 0
  <2>1. z + 0 = z /\ 0 \in 0 .. k
    BY <1>8
  <2>2. part[0] = off[z] - off[z]
    BY <1>9, <2>1
  <2> QED  BY <1>8, <2>2
<1>12. ASSUME NEW j \in 1 .. k
       PROVE  part[j] = part[j - 1] + Len(T[j]) /\ part[j - 1] < part[j]
  <2>1. /\ j \in 0 .. k /\ j - 1 \in 0 .. k /\ z + j \in 1 .. n /\ z + (j - 1) = (z + j) - 1
        /\ z + j \in 0 .. n /\ (z + j) - 1 \in 0 .. n
    BY <1>5
  <2>2. part[j] = off[z + j] - off[z] /\ part[j - 1] = off[(z + j) - 1] - off[z]
    BY <1>9, <2>1
  <2>3. off[z + j] = off[(z + j) - 1] + Len(S[z + j]) /\ off[(z + j) - 1] < off[z + j]
    BY <1>2, <2>1
  <2>4. T[j] = S[z + j]
    BY <1>6
  <2>5. off[z + j] \in Nat /\ off[(z + j) - 1] \in Nat
    BY <1>2, <2>1
  <2>6. Len(T[j]) \in Nat
    BY <1>7
  <2>7. \A x, y, u, w \in Nat : x = y + w /\ y < x => x - u = (y - u) + w /\ y - u < x - u
    OBVIOUS
  <2>8. off[z + j] = off[(z + j) - 1] + Len(T[j])
    BY <2>3, <2>4
  <2>9. /\ off[z + j] - off[z] = (off[(z + j) - 1] - off[z]) + Len(T[j])
        /\ off[(z + j) - 1] - off[z] < off[z + j] - off[z]
    BY <1>8, <2>3, <2>5, <2>6, <2>7, <2>8, ZenonT(60)
  <2> QED  BY <2>2, <2>9
<1>13. ASSUME NEW i \in 0 .. k, NEW j \in 0 .. k, i <= j
       PROVE  part[i] <= part[j]
  <2>1. z + i \in 0 .. n /\ z + j \in 0 .. n
    BY <1>9
  <2>2. z + i <= z + j
    BY <1>13
  <2>3. off[z + i] <= off[z + j] /\ off[z + i] \in Nat /\ off[z + j] \in Nat
    BY <1>2, <2>1, <2>2
  <2>4. \A x, y, u \in Nat : x <= y => x - u <= y - u
    OBVIOUS
  <2>5. off[z + i] - off[z] <= off[z + j] - off[z]
    BY <1>8, <2>3, <2>4
  <2> QED  BY <1>9, <2>5
<1>14. k \in 0 .. k /\ part[k] = off[z + k] - off[z] /\ z + k \in 0 .. n /\ n \in 0 .. n
  BY <1>9
<1>15. off[z + k] <= off[n] /\ off[z + k] \in Nat /\ off[n] \in Nat
  BY <1>2, <1>5, <1>14
<1>16. part[k] + l.numinfreeList <= l.recIdPtr
  BY <1>2, <1>8, <1>14, <1>15, SMTT(40)
<1>17. k < n => part[k] + 1 <= l.recIdPtr
  <2> SUFFICES ASSUME k < n PROVE part[k] + 1 <= l.recIdPtr
    OBVIOUS
  <2>3. part[k] = off[z + k] - off[z]
    BY <1>14
  <2>1. CASE z = 0
    <3>1. n - 1 \in 0 .. n /\ n \in 1 .. n /\ z + k <= n - 1
      BY <2>1
    <3>2. off[z + k] <= off[n - 1] /\ off[n - 1] < off[n] /\ off[n - 1] \in Nat
      BY <1>2, <1>14, <3>1
    <3>3. off[n] <= l.recIdPtr
      BY <1>2, <1>15, SMTT(40)
    <3>4. \A w, x, y, u, t \in Nat : y <= x /\ x < u /\ u <= t => y - w + 1 <= t
      OBVIOUS
    <3>5. l.recIdPtr \in Nat
      BY <1>2
    <3>6. off[z + k] - off[z] + 1 <= l.recIdPtr
      BY <1>8, <1>15, <3>2, <3>3, <3>4, <3>5
    <3> QED  BY ONLY <2>3, <3>6
  <2>2. CASE z # 0
    <3>1. 1 \in 1 .. n /\ 1 \in 0 .. n /\ 0 \in 0 .. n /\ 1 <= z /\ 1 - 1 = 0
      BY <1>8, <2>2
    <3>2. off[1 - 1] < off[1] /\ off[1] <= off[z] /\ off[1] \in Nat
      BY <1>2, <1>8, <3>1
    <3>3. off[z] >= 1
      BY <1>2, <1>8, <3>1, <3>2, SMTT(40)
    <3>4. off[n] <= l.recIdPtr
      BY <1>2, <1>15
    <3>5. \A w, x, u, t \in Nat : w >= 1 /\ x <= u /\ u <= t => x - w + 1 <= t
      OBVIOUS
    <3>6. l.recIdPtr \in Nat
      BY <1>2
    <3>7. off[z + k] - off[z] + 1 <= l.recIdPtr
      BY <1>8, <1>15, <3>3, <3>4, <3>5, <3>6
    <3> QED  BY ONLY <2>3, <3>7
  <2> QED  BY <2>1, <2>2
<1>18. Offsets(T, part)
  BY <1>7, <1>10, <1>11, <1>12, <1>13 DEF Offsets
<1> QED  BY <1>3, <1>7, <1>12, <1>16, <1>17, <1>18 DEF Room

(* A compacted part of a leaf. *)
LEMMA PartFits ==
  ASSUME NEW l, GoodLeaf(l), NEW low \in Nat, low # 0, NEW n \in Nat, low + n <= Len(l.keys) + 1,
         n < Len(l.keys), NEW high, high = low + n - 1, NEW m, m = AM_Compact(l, low, high)
  PROVE  \A found \in BOOLEAN : Fits(m, found)
<1>1. l \in Leaf /\ Len(l.keys) \in Nat /\ l.recIdPtr \in Nat /\ l.numinfreeList \in Nat /\ Gap(l) >= 0
  BY LeafParts DEF GoodLeaf
<1>2. PICK N \in Nat : N = Len(l.keys)
  BY <1>1
<1>3. 1 \in Nat /\ 1 # 0 /\ 1 + N <= N + 1
  OBVIOUS
<1>4. PICK off : Room(l, 1, N, off)
  BY <1>2, <1>3, KeysHaveRoom
<1>5. PICK part : part = [j \in 0 .. n |-> off[low - 1 + j] - off[low - 1]]
  OBVIOUS
<1>6. Room(l, low, n, part) /\ part[n] + 1 <= l.recIdPtr
  BY <1>1, <1>2, <1>4, <1>5, RoomPart
<1>7. Compacted(l, m, low, n, part)
  BY <1>6, CompactIs
<1>8. m.recIdPtr = part[n] /\ m.recIdPtr \in Nat /\ m.freeListPtr = AM_NULL /\ Len(m.keys) = n
  <2>1. m \in Leaf /\ InARow(m, n, part) /\ Len(m.keys) = n
    BY <1>7 DEF Compacted
  <2> QED  BY <2>1, LeafParts DEF InARow
<1>9. Gap(m) \in Int /\ Gap(m) >= EntrySize + CellSize
  <2>1. Len(m.keys) \in Nat /\ Len(m.keys) + 1 <= Len(l.keys) /\ m.recIdPtr + 1 <= l.recIdPtr
    BY <1>1, <1>6, <1>8, SMTT(40)
  <2> QED  BY <1>1, <1>8, <2>1, MoreRoom
<1>10. EntrySize \in Nat /\ CellSize \in Nat
  BY AMLeafAssumption
<1>11. Gap(m) >= CellSize /\ Gap(m) >= CellSize + EntrySize
  BY <1>9, <1>10
<1> QED  BY <1>8, <1>11 DEF Fits

LEMMA FewKeys ==
  ASSUME NEW l, GoodLeaf(l), Len(l.keys) <= 1
  PROVE  \E n \in Nat : /\ l.recIdPtr = l.numinfreeList + n
                        /\ n = IF Len(l.keys) = 0 THEN 0 ELSE Len(RecIds(l, 1))
<1>1. l \in Leaf /\ Len(l.keys) \in Nat /\ DOMAIN l.keys = 1 .. Len(l.keys) /\ l.link \in [Cell -> CellPtr]
  BY LeafParts DEF GoodLeaf
<1>2. PICK o, d : Lists(l, o, d)
  BY DEF GoodLeaf
<1>3. \A i \in 0 .. Len(l.keys) : ListOf(l, i) \in Seq(Cell)
  BY <1>1, <1>2, ListOfIs
<1>4. FreeCells(l) = ListOf(l, 0) /\ ListOf(l, 0) \in Seq(Cell)
  <2>1. 0 \in 0 .. Len(l.keys)
    BY <1>1
  <2> QED  BY <1>3, <2>1 DEF FreeCells, ListOf, HeadOf
<1>5. PICK lists : lists = [i \in DOMAIN l.keys |-> KeyCells(l, i)]
  OBVIOUS
<1>6. PICK all : all = FlattenSeq(Append(lists, FreeCells(l)))
  OBVIOUS
<1>7. Len(all) = l.recIdPtr /\ l.numinfreeList = Len(ListOf(l, 0))
  <2>1. LeafSound(l)
    BY GoodIsSound
  <2> QED  BY <1>4, <1>5, <1>6, <2>1 DEF LeafSound
<1>8. CASE Len(l.keys) = 0
  <2>1. DOMAIN l.keys = {}
    BY <1>1, <1>8
  <2>2. lists = << >>
    BY <1>5, <2>1
  <2>3. PICK S : S = <<ListOf(l, 0)>>
    OBVIOUS
  <2>4. Append(lists, FreeCells(l)) = S /\ S \in Seq(Seq(Cell)) /\ Len(S) = 1 /\ S[1] = ListOf(l, 0)
    BY <1>4, <2>2, <2>3
  <2>5. PICK off : Offsets(S, off)
    BY <2>4, OffsetsExist
  <2>6. Flattens(all, S, 1, off)
    <3>1. Flattens(FlattenSeq(S), S, Len(S), off)
      BY <2>4, <2>5, FlattenIs
    <3> QED  BY <1>6, <2>4, <3>1
  <2>7. Len(all) = off[1] /\ off[1] = off[1 - 1] + Len(S[1]) /\ off[0] = 0
    <3>1. 1 \in 1 .. Len(S)
      BY <2>4
    <3> QED  BY <2>5, <2>6, <3>1 DEF Flattens, Offsets
  <2>8. Len(ListOf(l, 0)) \in Nat
    BY <1>4
  <2>9. Len(all) = Len(ListOf(l, 0)) + 0
    BY <2>4, <2>7, <2>8
  <2> QED  BY <1>7, <1>8, <2>9
<1>9. CASE Len(l.keys) = 1
  <2>1. DOMAIN l.keys = {1} /\ 1 \in 0 .. Len(l.keys) /\ 1 \in 1 .. Len(l.keys)
    BY <1>1, <1>9
  <2>2. KeyCells(l, 1) = ListOf(l, 1) /\ ListOf(l, 1) \in Seq(Cell)
    BY <1>3, <2>1 DEF KeyCells, ListOf, HeadOf
  <2>3. lists = <<ListOf(l, 1)>>
    BY <1>5, <2>1, <2>2
  <2>4. PICK S : S = Append(lists, ListOf(l, 0))
    OBVIOUS
  <2>5. /\ Append(lists, FreeCells(l)) = S /\ S \in Seq(Seq(Cell)) /\ Len(S) = 2
        /\ S[1] = ListOf(l, 1) /\ S[2] = ListOf(l, 0)
    <3>1. lists \in Seq(Seq(Cell)) /\ Len(lists) = 1 /\ lists[1] = ListOf(l, 1)
      BY <2>2, <2>3
    <3>2. ListOf(l, 0) \in Seq(Cell)
      BY <1>4
    <3>6. /\ S \in Seq(Seq(Cell)) /\ Len(S) = Len(lists) + 1
          /\ \A i \in 1 .. Len(lists) : S[i] = lists[i]
          /\ S[Len(lists) + 1] = ListOf(l, 0)
      <4>1. PICK Y : Y = Seq(Cell)
        OBVIOUS
      <4>2. lists \in Seq(Y) /\ ListOf(l, 0) \in Y
        BY <3>1, <3>2, <4>1
      <4>3. /\ Append(lists, ListOf(l, 0)) \in Seq(Y)
            /\ Len(Append(lists, ListOf(l, 0))) = Len(lists) + 1
            /\ \A i \in 1 .. Len(lists) : Append(lists, ListOf(l, 0))[i] = lists[i]
            /\ Append(lists, ListOf(l, 0))[Len(lists) + 1] = ListOf(l, 0)
        BY <4>2, AppendProperties
      <4> QED  BY <2>4, <4>1, <4>3
    <3>3. S \in Seq(Seq(Cell)) /\ Len(S) = 2
      BY <3>1, <3>6
    <3>4. S[1] = ListOf(l, 1)
      BY <3>1, <3>6
    <3>5. S[2] = ListOf(l, 0)
      BY <3>1, <3>6
    <3> QED  BY <1>4, <2>4, <3>3, <3>4, <3>5
  <2>6. PICK off : Offsets(S, off)
    BY <2>5, OffsetsExist
  <2>7. Flattens(all, S, 2, off)
    <3>1. Flattens(FlattenSeq(S), S, Len(S), off)
      BY <2>5, <2>6, FlattenIs
    <3> QED  BY <1>6, <2>5, <3>1
  <2>8. Len(all) = off[2] /\ off[2] = off[2 - 1] + Len(S[2]) /\ off[1] = off[1 - 1] + Len(S[1]) /\ off[0] = 0
    <3>1. 1 \in 1 .. Len(S) /\ 2 \in 1 .. Len(S)
      BY <2>5
    <3> QED  BY <2>6, <2>7, <3>1 DEF Flattens, Offsets
  <2>9. Len(ListOf(l, 0)) \in Nat /\ Len(ListOf(l, 1)) \in Nat
    BY <1>4, <2>2
  <2>10. Len(all) = Len(ListOf(l, 0)) + Len(ListOf(l, 1))
    BY <2>5, <2>8, <2>9
  <2>11. Len(RecIds(l, 1)) = Len(ListOf(l, 1))
    BY <1>1, <2>1, <2>2, RecIdsAre
  <2> QED  BY <1>7, <1>9, <2>9, <2>10, <2>11
<1>10. Len(l.keys) = 0 \/ Len(l.keys) = 1
  <2>1. \A k \in Nat : k <= 1 => k = 0 \/ k = 1
    OBVIOUS
  <2> QED  BY <1>1, <2>1
<1> QED  BY <1>8, <1>9, <1>10

(* A leaf that has to be split has two keys. *)
LEMMA OneKeyFits ==
  ASSUME FewPerKey, NEW l, GoodLeaf(l), Len(l.keys) <= 1,
         \A i \in 1 .. Len(l.keys) : Len(RecIds(l, i)) <= MaxPerKey
  PROVE  \A found \in BOOLEAN : Fits(l, found)
<1>1. l \in Leaf /\ Len(l.keys) \in Nat /\ l.recIdPtr \in Nat /\ l.numinfreeList \in Nat
  BY LeafParts DEF GoodLeaf
<1>2. PICK n \in Nat : /\ l.recIdPtr = l.numinfreeList + n
                       /\ n = IF Len(l.keys) = 0 THEN 0 ELSE Len(RecIds(l, 1))
  BY FewKeys
<1>3. n <= MaxPerKey /\ MaxPerKey \in Nat
  <2>1. Len(l.keys) = 0 \/ 1 \in 1 .. Len(l.keys)
    BY <1>1
  <2>2. MaxPerKey \in Nat
    BY AMAssumption
  <2>3. CASE Len(l.keys) = 0
    BY <1>2, <2>2, <2>3
  <2>4. CASE Len(l.keys) # 0
    BY <1>2, <2>1, <2>2, <2>4
  <2> QED  BY <2>2, <2>3, <2>4
<1>4. EntrySize \in Nat /\ CellSize \in Nat /\ LeafSpace \in Nat
  BY AMLeafAssumption
<1>5. PICK e \in Nat : e = Len(l.keys) * EntrySize /\ e <= EntrySize
  <2>1. Len(l.keys) = 0 \/ Len(l.keys) = 1
    <3>1. \A k \in Nat : k <= 1 => k = 0 \/ k = 1
      OBVIOUS
    <3> QED  BY <1>1, <3>1
  <2>2. 0 * EntrySize = 0 /\ 1 * EntrySize = EntrySize
    BY <1>4
  <2> QED  BY <1>4, <2>1, <2>2
<1>6. PICK c \in Nat, f \in Nat, x \in Nat :
        c = n * CellSize /\ f = l.numinfreeList * CellSize /\ x = MaxPerKey * CellSize
  BY <1>1, <1>2, <1>3, Bytes
<1>7. c <= x
  <2>1. n * CellSize <= MaxPerKey * CellSize
    BY <1>2, <1>3, <1>4, BytesGrow
  <2> QED  BY <1>6, <2>1
<1>8. l.recIdPtr * CellSize = f + c
  <2>1. PICK a \in Nat, z \in Nat, b \in Nat : a = l.numinfreeList /\ z = CellSize /\ b = n
    BY <1>1, <1>4
  <2>2. (a + b) * z = a * z + b * z
    BY ONLY BytesAdd
  <2>3. l.recIdPtr = a + b /\ f = a * z /\ c = b * z
    BY <1>2, <1>6, <2>1
  <2>4. a * z + b * z = f + c
    BY ONLY <2>3
  <2>5. l.recIdPtr * CellSize = (a + b) * z
    BY <2>1, <2>3, Zenon
  <2> QED  BY ONLY <2>2, <2>4, <2>5
<1>9. 2 * EntrySize + (x + CellSize) < LeafSpace
  <2>1. (MaxPerKey + 1) * CellSize = x + CellSize
    BY <1>3, <1>6, Bytes
  <2> QED  BY <2>1 DEF FewPerKey
<1>10. Gap(l) = LeafSpace - e - (f + c)
  BY <1>5, <1>8 DEF Gap
<1>11. LeafSpace - e - (f + c) + f > EntrySize + CellSize
  BY <1>4, <1>5, <1>7, <1>9
<1>12. CASE l.freeListPtr = AM_NULL
  <2>1. l.numinfreeList = 0
    BY <1>12 DEF GoodLeaf, FreeCounted
  <2>2. f = 0
    BY <1>4, <1>6, <2>1
  <2>3. LeafSpace - e - (f + c) >= CellSize + EntrySize /\ LeafSpace - e - (f + c) >= CellSize
    BY <1>4, <1>11, <2>2
  <2> QED  BY <1>10, <1>12, <2>3 DEF Fits
<1>13. CASE l.freeListPtr # AM_NULL
  <2>1. l.numinfreeList * CellSize + Gap(l) > EntrySize + CellSize
    BY <1>4, <1>6, <1>10, <1>11
  <2> QED  BY <1>13, <2>1 DEF Fits
<1> QED  BY <1>12, <1>13

(* A value has records in a leaf if it is one of its keys. *)
LEMMA KeysOnly ==
  ASSUME NEW l, GoodLeaf(l)
  PROVE  /\ Len(l.keys) \in Nat
         /\ \A j \in 1 .. Len(l.keys) : l.keys[j].value \in Value /\ Contents(l)[l.keys[j].value] # << >>
         /\ \A w \in Value : Contents(l)[w] # << >> => \E j \in 1 .. Len(l.keys) : l.keys[j].value = w
         /\ \A i, j \in 1 .. Len(l.keys) : i < j => l.keys[i].value < l.keys[j].value
<1>1. l \in Leaf /\ Len(l.keys) \in Nat /\ \A j \in 1 .. Len(l.keys) : l.keys[j].value \in Value
  BY LeafParts DEF GoodLeaf
<1>2. DOMAIN Values(l) = 1 .. Len(l.keys) /\ \A j \in 1 .. Len(l.keys) : Values(l)[j] = l.keys[j].value
  BY <1>1, ValuesAre
<1>3. Len(Values(l)) = Len(l.keys) /\ Ascending(Values(l))
  BY <1>1, ValuesAre DEF GoodLeaf
<1>4. \A w \in Value : w \in Range(Values(l)) <=> Contents(l)[w] # << >>
  BY ContentsHold DEF Contents
<1>5. \A w \in Value : w \in Range(Values(l)) <=> \E j \in 1 .. Len(l.keys) : l.keys[j].value = w
  BY <1>2 DEF Range
<1>6. \A i, j \in 1 .. Len(l.keys) : i < j => l.keys[i].value < l.keys[j].value
  BY <1>2, <1>3 DEF Ascending
<1> QED  BY <1>1, <1>4, <1>5, <1>6

(* The keys up to one and those from it on. *)
LEMMA PartsAre ==
  ASSUME NEW l, GoodLeaf(l), NEW half \in 1 .. Len(l.keys) - 1,
         NEW key, key = l.keys[half + 1].value, NEW w \in Value
  PROVE  /\ Part(l, Contents(l), 1, half)[w] = IF w < key THEN Contents(l)[w] ELSE << >>
         /\ Part(l, Contents(l), half + 1, Len(l.keys))[w] = IF w < key THEN << >> ELSE Contents(l)[w]
<1>1. PICK n \in Nat : n = Len(l.keys)
  BY KeysOnly
<1>2. /\ \A j \in 1 .. n : l.keys[j].value \in Int
      /\ Contents(l)[w] # << >> => \E j \in 1 .. n : l.keys[j].value = w
      /\ \A i, j \in 1 .. n : i < j => l.keys[i].value < l.keys[j].value
  BY <1>1, KeysOnly, AMLeafAssumption
<1>3. half \in Nat /\ half + 1 \in 1 .. n /\ half <= n /\ w \in Int
  BY <1>1, AMLeafAssumption
<1>4. \A j \in 1 .. n : l.keys[j].value < key <=> j <= half
  <2>1. ASSUME NEW j \in 1 .. n
        PROVE  l.keys[j].value < key <=> j <= half
    <3>1. j < half + 1 \/ j = half + 1 \/ half + 1 < j
      BY <1>3
    <3>2. l.keys[j].value \in Int /\ key \in Int
      BY <1>2, <1>3
    <3>3. CASE j < half + 1
      BY <1>2, <1>3, <3>2, <3>3
    <3>4. CASE j = half + 1
      BY <1>3, <3>2, <3>4
    <3>5. CASE half + 1 < j
      <4>1. key < l.keys[j].value
        BY <1>2, <1>3, <3>5
      <4> QED  BY <1>3, <3>2, <3>5, <4>1
    <3> QED  BY <3>1, <3>3, <3>4, <3>5
  <2> QED  BY <2>1
<1>5. Part(l, Contents(l), 1, half)[w] = IF w < key THEN Contents(l)[w] ELSE << >>
  <2>1. (\E j \in 1 .. half : l.keys[j].value = w) <=> (\E j \in 1 .. n : l.keys[j].value = w /\ j <= half)
    BY <1>3
  <2>2. Part(l, Contents(l), 1, half)[w]
          = IF \E j \in 1 .. half : l.keys[j].value = w THEN Contents(l)[w] ELSE << >>
    BY DEF Part
  <2> QED  BY <1>2, <1>4, <2>1, <2>2
<1>6. Part(l, Contents(l), half + 1, Len(l.keys))[w] = IF w < key THEN << >> ELSE Contents(l)[w]
  <2>1. (\E j \in half + 1 .. n : l.keys[j].value = w) <=> (\E j \in 1 .. n : l.keys[j].value = w /\ ~(j <= half))
    BY <1>3
  <2>2. Part(l, Contents(l), half + 1, n)[w]
          = IF \E j \in half + 1 .. n : l.keys[j].value = w THEN Contents(l)[w] ELSE << >>
    BY DEF Part
  <2> QED  BY <1>1, <1>2, <1>4, <2>1, <2>2
<1> QED  BY <1>5, <1>6

(* What the halves hold of D: the second what is from key on. *)
Shares(D, key, one, two) ==
    /\ key \in Value
    /\ \A w \in Value : /\ Contents(one)[w] = IF w < key THEN D[w] ELSE << >>
                        /\ Contents(two)[w] = IF w < key THEN << >> ELSE D[w]
    /\ D[key] # << >>
    /\ \E w \in Value : w < key /\ D[w] # << >>

LEMMA HalvesHold ==
  ASSUME FewPerKey, NEW l, GoodLeaf(l), NEW v \in Value, NEW r \in RecId,
         NEW q \in AM_NULL_PAGE .. MaxPages - 1, NEW h, h = Halves(l, v, r, q),
         ~Fits(l, Found(Values(l), v)), \A w \in Value : Len(RecordsIn(l, w)) <= MaxPerKey
  PROVE  Shares([Contents(l) EXCEPT ![v] = <<r>> \o @], h.second.keys[1].value, h.first, h.second)
<1> DEFINE half == Len(l.keys) \div 2
           i == AM_SearchLeaf(Values(l), v)
           found == Found(Values(l), v)
           low == AM_Compact(l, 1, half)
           high == AM_Compact(l, half + 1, Len(l.keys))
           first == IF i <= half THEN AM_InsertintoLeaf(low, v, r, i, found) ELSE low
           second == IF i <= half THEN high ELSE AM_InsertintoLeaf(high, v, r, i - half, found)
<1>1. h.first = [first EXCEPT !.nextLeafPage = q] /\ h.second = second
  BY DEF Halves
<1>2. PICK n \in Nat : n = Len(l.keys)
  BY KeysOnly
<1>3. found \in BOOLEAN
  BY DEF Found
<1>4. n >= 2
  <2>1. ASSUME NEW j \in 1 .. Len(l.keys)
        PROVE  Len(RecIds(l, j)) <= MaxPerKey
    <3>1. Contents(l)[l.keys[j].value] = RecIds(l, j) /\ l.keys[j].value \in Value
      BY ContentsHold, KeysOnly DEF Holds
    <3> QED  BY <3>1 DEF Contents
  <2>2. ~(Len(l.keys) <= 1)
    BY <1>3, <2>1, OneKeyFits
  <2> QED  BY <1>2, <2>2
<1>5. half \in Nat /\ half \in 1 .. n - 1 /\ n - half \in Nat /\ half # 0
  <2>1. \A x \in Nat : x >= 2 => x \div 2 \in 1 .. x - 1
    OBVIOUS
  <2>2. half = n \div 2
    BY <1>2
  <2>3. n \div 2 \in 1 .. n - 1
    BY <1>4, <2>1
  <2> HIDE DEF half
  <2>4. half \in 1 .. n - 1
    BY <2>2, <2>3
  <2> QED  BY <2>4
<1>6. FoundAt(l, v, i, found)
  BY FoundIs
<1> HIDE DEF i, found, half
<1>7. /\ GoodLeaf(low) /\ Len(low.keys) = half /\ Fits(low, found)
      /\ \A j \in 1 .. half : low.keys[j].value = l.keys[j].value
      /\ Holds(low, Part(l, Contents(l), 1, half))
  <2>1. 1 + half <= Len(l.keys) + 1 /\ half = 1 + half - 1 /\ 1 \in Nat /\ 1 # 0 /\ half < Len(l.keys)
    BY <1>2, <1>5
  <2>2. PICK c : c = AM_Compact(l, 1, half)
    OBVIOUS
  <2>3. CompactedGood(l, c, 1, half)
    BY <1>5, <2>1, <2>2, CompactGood
  <2>4. \A b \in BOOLEAN : Fits(c, b)
    BY <1>5, <2>1, <2>2, PartFits
  <2>5. Holds(c, Part(l, Contents(l), 1, half))
    BY <1>5, <2>1, <2>2, ContentsHold, CompactContents
  <2>6. \A j \in 1 .. half : 1 + j - 1 = j
    BY <1>5
  <2> QED  BY <1>3, <2>2, <2>3, <2>4, <2>5, <2>6 DEF CompactedGood
<1>8. /\ GoodLeaf(high) /\ Len(high.keys) = n - half /\ Fits(high, found)
      /\ \A j \in 1 .. n - half : high.keys[j].value = l.keys[half + j].value
      /\ Holds(high, Part(l, Contents(l), half + 1, n))
  <2>1. PICK a \in Nat, k \in Nat : a = half + 1 /\ k = n - half
    BY <1>5
  <2>2. a # 0 /\ a + k <= Len(l.keys) + 1 /\ n = a + k - 1 /\ k < Len(l.keys)
    <3>1. a # 0 /\ a + k <= n + 1 /\ n = a + k - 1 /\ k < n
      BY <1>5, <2>1
    <3> QED  BY <1>2, <3>1
  <2>3. PICK c : c = AM_Compact(l, a, n)
    OBVIOUS
  <2>4. CompactedGood(l, c, a, k)
    BY <2>2, <2>3, CompactGood
  <2>5. \A b \in BOOLEAN : Fits(c, b)
    BY <2>2, <2>3, PartFits
  <2>6. Holds(c, Part(l, Contents(l), a, n))
    BY <2>2, <2>3, ContentsHold, CompactContents
  <2>7. \A j \in 1 .. k : a + j - 1 = half + j
    BY <1>5, <2>1
  <2>8. high = c
    BY <1>2, <2>1, <2>3
  <2> QED  BY <1>3, <2>1, <2>4, <2>5, <2>6, <2>7, <2>8 DEF CompactedGood
<1> HIDE DEF low, high
<1>9. /\ i \in 1 .. n + 1
      /\ \A j \in 1 .. n : IF j < i THEN l.keys[j].value < v ELSE v <= l.keys[j].value
      /\ found <=> i <= n /\ l.keys[i].value = v
  BY <1>2, <1>6 DEF FoundAt, Place
<1>10. PICK C : C = Contents(l)
  OBVIOUS
<1>11. C \in [Value -> Seq(RecId)]
  BY <1>10, ContentsTyped
<1>12. PICK D : D = [C EXCEPT ![v] = <<r>> \o @]
  OBVIOUS
<1>13. \A w \in Value : D[w] = IF w = v THEN <<r>> \o C[v] ELSE C[w]
  BY <1>11, <1>12
<1>14. <<r>> \o C[v] # << >>
  <2>1. C[v] \in Seq(RecId) /\ <<r>> \in Seq(RecId)
    BY <1>11
  <2>2. Len(<<r>> \o C[v]) = 1 + Len(C[v]) /\ Len(C[v]) \in Nat
    BY <2>1
  <2> QED  BY <2>2
<1>15. PICK sep : sep = l.keys[half + 1].value
  OBVIOUS
<1>16. /\ \A j \in 1 .. n : l.keys[j].value \in Value /\ l.keys[j].value \in Int /\ C[l.keys[j].value] # << >>
       /\ \A w \in Value : C[w] # << >> => \E j \in 1 .. n : l.keys[j].value = w
       /\ \A a, b \in 1 .. n : a < b => l.keys[a].value < l.keys[b].value
       /\ Value \subseteq Int
  BY <1>2, <1>10, KeysOnly, AMLeafAssumption
<1>17. half + 1 \in 1 .. n /\ half \in 1 .. n /\ 1 \in 1 .. n
  BY <1>4, <1>5
<1>18. \A w \in Value : /\ Part(l, C, 1, half)[w] = IF w < sep THEN C[w] ELSE << >>
                        /\ Part(l, C, half + 1, n)[w] = IF w < sep THEN << >> ELSE C[w]
  BY <1>2, <1>5, <1>10, <1>15, PartsAre
<1>19. PICK P1, P2 : P1 = Part(l, C, 1, half) /\ P2 = Part(l, C, half + 1, n)
  OBVIOUS
<1>20. P1 \in [Value -> Seq(RecId)] /\ P2 \in [Value -> Seq(RecId)] /\ Holds(low, P1) /\ Holds(high, P2)
  BY <1>7, <1>8, <1>10, <1>19 DEF Holds
<1>21. PICK low1 : low1 = l.keys[1].value
  OBVIOUS
<1>22. low1 \in Value /\ C[low1] # << >> /\ D[low1] # << >> /\ low1 <= l.keys[half].value
  <2>1. low1 \in Value /\ C[low1] # << >>
    BY <1>16, <1>17, <1>21
  <2>2. D[low1] # << >>
    BY <1>13, <1>14, <2>1
  <2>3. half = 1 \/ 1 < half
    BY <1>5
  <2>4. low1 <= l.keys[half].value
    BY <1>16, <1>17, <1>21, <2>3
  <2> QED  BY <2>1, <2>2, <2>4
<1>23. l.keys[half].value < sep /\ sep \in Value
  BY <1>5, <1>15, <1>16, <1>17, SMTT(40)
<1>24. CASE i <= half
  <2>1. FoundAt(low, v, i, found)
    <3>1. Place(low, v, i)
      <4>1. i \in 1 .. half + 1 /\ \A j \in 1 .. half : j \in 1 .. n
        BY <1>5, <1>9, <1>24
      <4> QED  BY <1>7, <1>9, <4>1 DEF Place
    <3>2. i \in 1 .. half /\ i <= n
      BY <1>5, <1>9, <1>24
    <3> QED  BY <1>7, <1>9, <1>24, <3>1, <3>2 DEF FoundAt
  <2>2. PICK m : m = AM_InsertintoLeaf(low, v, r, i, found)
    OBVIOUS
  <2>3. GoodLeaf(m) /\ Holds(m, [P1 EXCEPT ![v] = <<r>> \o @])
    BY <1>7, <1>20, <2>1, <2>2, InsertContents, InsertintoLeafGood
  <2>4. h.first = [m EXCEPT !.nextLeafPage = q] /\ h.second = high
    BY <1>1, <1>24, <2>2
  <2>5. Contents(h.first) = [P1 EXCEPT ![v] = <<r>> \o @]
    BY <2>3, <2>4, NextContents, NextGood, HoldsIs
  <2>6. Contents(h.second) = P2
    BY <1>8, <1>20, <2>4, HoldsIs
  <2>7. h.second.keys[1].value = sep
    <3>1. 1 \in 1 .. n - half
      BY <1>5
    <3> QED  BY <1>8, <1>15, <2>4, <3>1
  <2>8. v < sep
    <3>1. i \in 1 .. n /\ (i = half \/ i < half)
      BY <1>5, <1>9, <1>24
    <3>2. ~(i < i)
      BY <3>1
    <3>3. v <= l.keys[i].value
      BY <1>9, <3>1, <3>2
    <3>4. l.keys[i].value <= l.keys[half].value
      BY <1>16, <1>17, <3>1
    <3> QED  BY <1>16, <1>17, <1>23, <3>1, <3>3, <3>4, SMTT(40)
  <2>9. ASSUME NEW w \in Value
        PROVE  /\ Contents(h.first)[w] = IF w < sep THEN D[w] ELSE << >>
               /\ Contents(h.second)[w] = IF w < sep THEN << >> ELSE D[w]
    <3>1. Contents(h.first)[w] = IF w = v THEN <<r>> \o P1[v] ELSE P1[w]
      BY <1>20, <2>5
    <3>2. P1[w] = (IF w < sep THEN C[w] ELSE << >>) /\ P2[w] = (IF w < sep THEN << >> ELSE C[w]) /\ P1[v] = C[v]
      BY <1>18, <1>19, <2>8
    <3> QED  BY <1>13, <2>6, <2>8, <3>1, <3>2
  <2>10. D[sep] # << >>
    BY <1>13, <1>14, <1>15, <1>16, <1>17, <1>23
  <2>11. low1 < sep
    <3>1. low1 \in Int /\ sep \in Int /\ l.keys[half].value \in Int
      BY <1>16, <1>17, <1>22, <1>23
    <3> QED  BY <1>22, <1>23, <3>1, SMTT(40)
  <2>12. Shares(D, sep, h.first, h.second)
    BY <1>22, <1>23, <2>9, <2>10, <2>11 DEF Shares
  <2> QED  BY <1>10, <1>12, <2>7, <2>12
<1>25. CASE ~(i <= half)
  <2>1. PICK k \in Nat : k = i - half
    BY <1>5, <1>9, <1>25
  <2>2. FoundAt(high, v, k, found)
    <3>1. Place(high, v, k)
      <4>1. k \in 1 .. (n - half) + 1
        BY <1>5, <1>9, <1>25, <2>1, SMTT(40)
      <4>2. ASSUME NEW j \in 1 .. n - half
            PROVE  IF j < k THEN high.keys[j].value < v ELSE v <= high.keys[j].value
        <5>1. PICK e \in 1 .. n : e = half + j
          BY <1>5
        <5>2. j < k <=> e < i
          BY <1>5, <1>9, <2>1, <5>1
        <5>3. high.keys[j].value = l.keys[e].value
          BY <1>8, <5>1
        <5> QED  BY <1>9, <5>2, <5>3
      <4> QED  BY <1>8, <4>1, <4>2 DEF Place
    <3>2. k <= n - half <=> i <= n
      BY <1>5, <1>9, <2>1
    <3>3. k <= n - half => k \in 1 .. n - half /\ half + k = i
      BY <1>5, <1>9, <1>25, <2>1
    <3> QED  BY <1>8, <1>9, <3>1, <3>2, <3>3 DEF FoundAt
  <2>3. PICK m : m = AM_InsertintoLeaf(high, v, r, k, found)
    OBVIOUS
  <2>4. GoodLeaf(m) /\ Holds(m, [P2 EXCEPT ![v] = <<r>> \o @]) /\ Len(m.keys) > 0
    BY <1>8, <1>20, <2>2, <2>3, InsertContents, InsertintoLeafGood
  <2>5. h.first = [low EXCEPT !.nextLeafPage = q] /\ h.second = m
    BY <1>1, <1>25, <2>1, <2>3
  <2>6. Contents(h.first) = P1
    <3>1. GoodLeaf(h.first) /\ Holds(h.first, P1)
      BY <1>7, <1>20, <2>5, NextContents, NextGood, ZenonT(60)
    <3> QED  BY <3>1, HoldsIs
  <2>7. Contents(h.second) = [P2 EXCEPT ![v] = <<r>> \o @]
    BY <2>4, <2>5, HoldsIs
  <2>8. PICK key : key = h.second.keys[1].value
    OBVIOUS
  <2>9. \A w \in Value : P1[w] = (IF w < sep THEN C[w] ELSE << >>) /\ P2[w] = (IF w < sep THEN << >> ELSE C[w])
    BY <1>18, <1>19
  <2>10. \A w \in Value : Contents(m)[w] = IF w = v THEN <<r>> \o P2[v] ELSE P2[w]
    BY <1>20, <2>5, <2>7
  <2>11. key \in Value /\ Contents(m)[key] # << >> /\ \A w \in Value : Contents(m)[w] # << >> => key <= w
    <3>1. 1 \in 1 .. Len(m.keys)
      BY <2>4, KeysOnly
    <3>2. key \in Value /\ Contents(m)[key] # << >>
      BY <2>4, <2>5, <2>8, <3>1, KeysOnly
    <3>3. ASSUME NEW w \in Value, Contents(m)[w] # << >>
          PROVE  key <= w
      <4>1. PICK j \in 1 .. Len(m.keys) : m.keys[j].value = w
        BY <2>4, <3>3, KeysOnly
      <4>2. j = 1 \/ 1 < j
        BY <3>1
      <4>3. key = w \/ key < w
        BY <2>4, <2>5, <2>8, <3>1, <4>1, <4>2, KeysOnly
      <4> QED  BY <1>16, <3>2, <4>3
    <3> QED  BY <3>2, <3>3
  <2>12. \A s \in Seq(RecId) : <<r>> \o s # << >>
    <3>1. ASSUME NEW s \in Seq(RecId) PROVE <<r>> \o s # << >>
      <4>1. Len(<<r>> \o s) = 1 + Len(s) /\ Len(s) \in Nat
        OBVIOUS
      <4> QED  BY <4>1
    <3> QED  BY <3>1
  <2>13. l.keys[half].value < v
    <3>1. half < i
      BY <1>5, <1>9, <1>25
    <3> QED  BY <1>9, <1>17, <3>1
  <2>14. key <= v
    <3>1. Contents(m)[v] # << >>
      BY <1>20, <2>10, <2>12
    <3> QED  BY <2>11, <3>1
  <2>15. key <= sep
    <3>1. ~(sep < sep) /\ C[sep] # << >>
      BY <1>15, <1>16, <1>17, <1>23
    <3>2. P2[sep] # << >>
      BY <1>23, <2>9, <3>1
    <3>3. Contents(m)[sep] # << >>
      BY <1>20, <1>23, <2>10, <2>12, <3>2
    <3> QED  BY <1>23, <2>11, <3>3
  <2>16. l.keys[half].value < key
    <3>1. CASE key = v
      BY <2>13, <3>1
    <3>2. CASE key # v
      <4>1. P2[key] # << >>
        BY <2>10, <2>11, <3>2
      <4>2. ~(key < sep)
        BY <2>9, <2>11, <4>1
      <4> QED  BY <1>16, <1>17, <1>23, <2>11, <4>2
    <3> QED  BY <3>1, <3>2
  <2>17. \A w \in Value : C[w] # << >> /\ w < sep => w < key
    <3>1. ASSUME NEW w \in Value, C[w] # << >>, w < sep
          PROVE  w < key
      <4>1. PICK j \in 1 .. n : l.keys[j].value = w
        BY <1>16, <3>1
      <4>2. j < half \/ j = half \/ j = half + 1 \/ half + 1 < j
        BY <1>5
      <4>3. CASE j < half \/ j = half
        <5>1. w <= l.keys[half].value
          BY <1>16, <1>17, <4>1, <4>3, SMTT(40)
        <5>2. l.keys[half].value \in Int /\ key \in Int /\ w \in Int
          BY <1>16, <1>17, <2>11
        <5> QED  BY <2>16, <5>1, <5>2
      <4>4. CASE j = half + 1 \/ half + 1 < j
        <5>1. sep <= w
          BY <1>15, <1>16, <1>17, <1>23, <4>1, <4>4, SMTT(40)
        <5>2. sep \in Int /\ w \in Int
          BY <1>16, <1>23
        <5>3. ~(w < sep)
          BY <5>1, <5>2
        <5> QED  BY <3>1, <5>3
      <4> QED  BY <4>2, <4>3, <4>4
    <3> QED  BY <3>1
  <2>18. ASSUME NEW w \in Value
         PROVE  /\ Contents(h.first)[w] = IF w < key THEN D[w] ELSE << >>
                /\ Contents(h.second)[w] = IF w < key THEN << >> ELSE D[w]
    <3>1. Contents(h.first)[w] = P1[w] /\ Contents(h.second)[w] = IF w = v THEN <<r>> \o P2[v] ELSE P2[w]
      BY <2>5, <2>6, <2>10
    <3>2. w \in Int /\ key \in Int /\ sep \in Int /\ v \in Int
      BY <1>16, <1>23, <2>11
    <3>3. CASE w < key
      <4>1. w < sep /\ w # v
        BY <2>14, <2>15, <3>2, <3>3
      <4> QED  BY <1>13, <2>9, <3>1, <3>3, <4>1
    <3>4. CASE ~(w < key) /\ w < sep
      <4>1. C[w] = << >>
        BY <2>17, <3>4
      <4>2. w = v => P2[v] = C[v]
        BY <2>9, <3>4, <4>1
      <4> QED  BY <1>13, <2>9, <3>1, <3>4, <4>1, <4>2
    <3>5. CASE ~(w < key) /\ ~(w < sep)
      <4>1. w = v => P2[v] = C[v]
        BY <2>9, <3>5
      <4> QED  BY <1>13, <2>9, <3>1, <3>5, <4>1
    <3> QED  BY <3>3, <3>4, <3>5
  <2>19. D[key] # << >>
    <3>1. ~(key < key)
      BY <1>16, <2>11
    <3>2. Contents(h.second)[key] = D[key]
      BY <2>11, <2>18, <3>1
    <3> QED  BY <2>5, <2>11, <3>2
  <2>20. low1 < key
    BY <1>16, <1>17, <1>22, <2>11, <2>16
  <2>21. Shares(D, key, h.first, h.second)
    BY <1>22, <2>11, <2>18, <2>19, <2>20 DEF Shares
  <2> QED  BY <1>10, <1>12, <2>8, <2>21
<1> QED  BY <1>24, <1>25

-----------------------------------------------------------------------------
(* The list of each key, as scans walk it.                                 *)

(* s is the list of key i of leaf l. *)
Listed(l, i, s) ==
    /\ s = KeyCells(l, i) /\ s \in Seq(Cell) /\ Len(s) \in Nat /\ 1 \in 1 .. Len(s)
    /\ l.keys[i].head = s[1]
    /\ Linked(l, s)
    /\ \A k \in 1 .. Len(s) : s[k] # AM_NULL
    /\ RecIds(l, i) \in Seq(RecId) /\ Len(RecIds(l, i)) = Len(s)
    /\ \A k \in 1 .. Len(s) : RecIds(l, i)[k] = l.recId[s[k]]
    /\ RecordsIn(l, l.keys[i].value) = RecIds(l, i)

(* The list of a key of a sound leaf is what its cells say. *)
LEMMA KeyHasList ==
  ASSUME NEW l, GoodLeaf(l), NEW i \in 1 .. Len(l.keys)
  PROVE  \E s : Listed(l, i, s)
<1>1. l \in Leaf /\ Len(l.keys) \in Nat /\ l.keys[i].value \in Value /\ l.keys[i].head # AM_NULL
  BY LeafParts DEF GoodLeaf
<1>2. PICK o, d : Lists(l, o, d)
  BY DEF GoodLeaf
<1>3. i \in 0 .. Len(l.keys) /\ i # 0
  BY <1>1
<1>4. PICK s : s = ListOf(l, i)
  OBVIOUS
<1>5. Linked(l, s) /\ HeadOf(l, i) = FirstCell(s)
  BY <1>1, <1>2, <1>3, <1>4, ListIsLinked
<1>6. KeyCells(l, i) = s
  BY <1>3, <1>4 DEF KeyCells, ListOf, HeadOf
<1>7. /\ RecIds(l, i) \in Seq(RecId) /\ Len(RecIds(l, i)) = Len(s)
      /\ \A k \in 1 .. Len(s) : RecIds(l, i)[k] = l.recId[s[k]]
  BY <1>1, <1>5, RecIdsOf
<1>8. s \in Seq(Cell) /\ Len(s) \in Nat
  BY <1>5 DEF Linked
<1>9. l.keys[i].head = FirstCell(s) /\ s # << >>
  BY <1>1, <1>3, <1>5 DEF HeadOf, FirstCell
<1>10. 1 \in 1 .. Len(s) /\ l.keys[i].head = s[1]
  <2>1. Len(s) # 0
    BY <1>8, <1>9
  <2> QED  BY <1>8, <1>9, <2>1 DEF FirstCell
<1>11. \A k \in 1 .. Len(s) : s[k] # AM_NULL
  <2>1. \A x \in Cell : x # AM_NULL
    BY CellNumbers DEF AM_NULL
  <2>2. \A k \in 1 .. Len(s) : s[k] \in Cell
    BY <1>8
  <2> QED  BY <2>1, <2>2
<1>12. RecordsIn(l, l.keys[i].value) = RecIds(l, i)
  <2>1. Holds(l, Contents(l))
    BY ContentsHold
  <2> QED  BY <1>1, <2>1 DEF Holds, Contents
<1> QED  BY <1>5, <1>6, <1>7, <1>8, <1>10, <1>11, <1>12 DEF Listed

(* The records of the cells from the m-th cell of a key's list on. *)
SuffixOf(l, i, s, m, t) ==
    /\ GoodLeaf(l) /\ i \in 1 .. Len(l.keys) /\ Listed(l, i, s)
    /\ m \in 1 .. Len(s) /\ t = ListFrom(l, s[m])

(* The list from its m-th cell on has the cells from there on, and no      *)
(* other.                                                                  *)
LEMMA ListSuffix ==
  ASSUME NEW l, NEW i, NEW s, NEW m, NEW t, SuffixOf(l, i, s, m, t)
  PROVE  \A c : c \in Range(t) <=> \E k \in 1 .. Len(s) : m <= k /\ c = s[k]
<1> USE DEF SuffixOf
<1>1. /\ s \in Seq(Cell) /\ Len(s) \in Nat
      /\ \A k \in 1 .. Len(s) : l.link[s[k]] = IF k = Len(s) THEN AM_NULL ELSE s[k + 1]
      /\ \A j, k \in 1 .. Len(s) : s[j] = s[k] => j = k
  BY DEF Listed, Linked
<1>2. PICK u : u = SubSeq(s, m, Len(s))
  OBVIOUS
<1>3. PICK n \in Nat : n = Len(s) - m + 1 /\ n >= 1
  <2>1. Len(s) - m + 1 \in Nat /\ Len(s) - m + 1 >= 1
    BY <1>1
  <2> QED  BY <2>1
<1>4. u \in Seq(Cell) /\ Len(u) = n /\ \A k \in 1 .. n : u[k] = s[m + k - 1]
  BY <1>1, <1>2, <1>3, SMTT(40)
<1>5. \A k \in 1 .. n : m + k - 1 \in 1 .. Len(s) /\ (m + k - 1 = Len(s) <=> k = n)
                        /\ (k # n => k + 1 \in 1 .. n)
  BY <1>1, <1>3
<1>6. \A k \in 1 .. Len(u) : l.link[u[k]] = IF k = Len(u) THEN AM_NULL ELSE u[k + 1]
  <2> SUFFICES ASSUME NEW k \in 1 .. n
               PROVE  l.link[u[k]] = IF k = n THEN AM_NULL ELSE u[k + 1]
    BY <1>4
  <2>1. PICK j \in 1 .. Len(s) : j = m + k - 1
    BY <1>5
  <2>2. u[k] = s[j] /\ (j = Len(s) <=> k = n)
    BY <1>4, <1>5, <2>1
  <2>3. k # n => u[k + 1] = s[j + 1]
    <3> SUFFICES ASSUME k # n PROVE u[k + 1] = s[j + 1]
      OBVIOUS
    <3>1. k + 1 \in 1 .. n /\ m + (k + 1) - 1 = j + 1
      BY <1>3, <2>1
    <3> QED  BY <1>4, <3>1, SMTT(40)
  <2> QED  BY <1>1, <2>2, <2>3
<1>7. \A j, k \in 1 .. Len(u) : u[j] = u[k] => j = k
  <2> SUFFICES ASSUME NEW j \in 1 .. n, NEW k \in 1 .. n, u[j] = u[k] PROVE j = k
    BY <1>4
  <2>1. s[m + j - 1] = s[m + k - 1]
    BY <1>4
  <2>2. m + j - 1 = m + k - 1
    BY <1>1, <1>5, <2>1
  <2> QED  BY <1>1, <2>2
<1>8. Linked(l, u)
  BY <1>4, <1>6, <1>7 DEF Linked
<1>9. l.link \in [Cell -> CellPtr]
  BY LeafParts DEF GoodLeaf
<1>10. FirstCell(u) = s[m]
  <2>1. 1 \in 1 .. n /\ m + 1 - 1 = m /\ n # 0
    BY <1>1, <1>3
  <2>2. u # << >> /\ u[1] = s[m]
    BY <1>4, <2>1
  <2> QED  BY <2>2 DEF FirstCell
<1>11. t = u
  BY <1>8, <1>9, <1>10, LinkedIs
<1>12. \A c : c \in Range(u) <=> \E k \in 1 .. n : c = u[k]
  BY <1>4, SMTT(40) DEF Range
<1>13. \A k \in 1 .. Len(s) : m <= k => \E j \in 1 .. n : k = m + j - 1
  <2> SUFFICES ASSUME NEW k \in 1 .. Len(s), m <= k PROVE \E j \in 1 .. n : k = m + j - 1
    OBVIOUS
  <2>1. k - m + 1 \in 1 .. n /\ k = m + (k - m + 1) - 1
    BY <1>1, <1>3
  <2> QED  BY <2>1
<1>14. \A k \in 1 .. n : m <= m + k - 1
  BY <1>1
<1>15. ASSUME NEW c, NEW k \in 1 .. n, c = u[k] PROVE \E j \in 1 .. Len(s) : m <= j /\ c = s[j]
  BY <1>4, <1>5, <1>14, <1>15
<1>16. ASSUME NEW c, NEW k \in 1 .. Len(s), m <= k, c = s[k] PROVE \E j \in 1 .. n : c = u[j]
  <2>1. PICK j \in 1 .. n : k = m + j - 1
    BY <1>13, <1>16
  <2> QED  BY <1>4, <1>16, <2>1
<1> QED  BY <1>11, <1>12, <1>15, <1>16

(* m is leaf l when a cell of key i's list s has gone, after which that is t. *)
FreedFrom(l, m, i, t) ==
    /\ m \in Leaf /\ Len(m.keys) = Len(l.keys) /\ m.recId = l.recId
    /\ \A j \in 1 .. Len(l.keys) :
         /\ m.keys[j].value = l.keys[j].value
         /\ KeyCells(m, j) = IF j = i THEN t ELSE KeyCells(l, j)
    /\ m.keys[i].head = FirstCell(t)

(* A record that is freed leaves the other lists as they are, and its own  *)
(* without the cell.                                                       *)
LEMMA FreedLists ==
  ASSUME NEW l, GoodLeaf(l), NEW i \in 1 .. Len(l.keys), NEW s, Listed(l, i, s),
         NEW r, r \in Range(RecIds(l, i)), NEW q, q = FirstOf(RecIds(l, i), r),
         NEW m, m = FreeRecord(l, i, r)
  PROVE  q \in 1 .. Len(s) /\ FreedFrom(l, m, i, RemoveAt(s, q))
<1>1. l \in Leaf /\ \A j, k \in 1 .. Len(l.keys) : l.keys[j].value = l.keys[k].value => j = k
  BY ButForGood, ButForParts
<1>2. PICK o, d : Lists(l, o, d)
  BY DEF GoodLeaf
<1>3. PICK L : Owns(l, L)
  BY <1>1, <1>2, OwnsItsLists
<1>4. /\ Len(l.keys) \in Nat /\ Taken(l) \subseteq Cell
      /\ \A j \in 1 .. Len(l.keys) : j \in 0 .. Len(l.keys) /\ j # 0
      /\ \A c \in Cell : c # AM_NULL
  <2>1. Len(l.keys) \in Nat /\ \A c \in Cell : c # AM_NULL
    BY <1>1, LeafParts, CellNumbers DEF AM_NULL
  <2> QED  BY <1>1, <2>1, LeafParts
<1>5. /\ \A j \in 0 .. Len(l.keys) :
           /\ Linked(l, L[j]) /\ HeadOf(l, j) = FirstCell(L[j]) /\ L[j] \in Seq(Cell)
           /\ L[j] = ListOf(l, j)
           /\ \A k \in 1 .. Len(L[j]) : L[j][k] \in Taken(l)
      /\ \A j, k \in 0 .. Len(l.keys) : \A a \in 1 .. Len(L[j]), b \in 1 .. Len(L[k]) :
           L[j][a] = L[k][b] => j = k
  BY <1>3 DEF Owns, Linked
<1>6. \A j \in 1 .. Len(l.keys) : L[j] = KeyCells(l, j)
  BY <1>4, <1>5 DEF KeyCells, ListOf, HeadOf
<1>7. L[i] = s
  BY <1>6 DEF Listed
<1>8. q \in 1 .. Len(s)
  <2>1. PICK w \in Seq(RecId) : w = RecIds(l, i) /\ Len(w) = Len(s)
    BY DEF Listed
  <2>2. q \in 1 .. Len(w)
    BY <2>1, FirstIs
  <2> QED  BY <2>1, <2>2
<1>9. PICK c \in Taken(l) : Freed(l, m, i, c) /\ c = s[q]
  <2>1. PICK c \in Taken(l) : Freed(l, m, i, c) /\ c = ListOf(l, i)[FirstOf(RecIds(l, i), r)]
    BY <1>1, <1>2, FreeRecordIs
  <2>2. s = ListOf(l, i)
    BY <1>4, <1>5, <1>7
  <2> QED  BY <2>1, <2>2
<1>10. /\ m.recId = l.recId
       /\ \A b \in Taken(l) : b # c => m.link[b] = IF l.link[b] = c THEN l.link[c] ELSE l.link[b]
       /\ Len(m.keys) = Len(l.keys)
       /\ \A j \in 1 .. Len(l.keys) :
            /\ m.keys[j].value = l.keys[j].value
            /\ m.keys[j].head = IF j = i /\ l.keys[i].head = c THEN l.link[c] ELSE l.keys[j].head
  BY <1>9 DEF Freed
<1>11. m \in Leaf /\ m.link \in [Cell -> CellPtr]
  <2>1. GoodButFor(m, i)
    BY FreeRecordGood
  <2> QED  BY <2>1, LeafParts DEF GoodButFor
<1>12. ASSUME NEW j \in 1 .. Len(l.keys), j # i
       PROVE  KeyCells(m, j) = KeyCells(l, j)
  <2>1. PICK u : u = L[j]
    OBVIOUS
  <2>2. Linked(l, u) /\ HeadOf(l, j) = FirstCell(u) /\ \A k \in 1 .. Len(u) : u[k] \in Taken(l) /\ u[k] # c
    BY <1>4, <1>5, <1>7, <1>8, <1>9, <1>12, <2>1
  <2>3. ASSUME NEW k \in 1 .. Len(u)
        PROVE  m.link[u[k]] = l.link[u[k]]
    <3>1. l.link[u[k]] # c
      <4>1. l.link[u[k]] = IF k = Len(u) THEN AM_NULL ELSE u[k + 1]
        BY <2>2 DEF Linked
      <4>2. k # Len(u) => k + 1 \in 1 .. Len(u)
        BY <2>2 DEF Linked
      <4>3. c # AM_NULL
        BY <1>4, <1>9
      <4> QED  BY <2>2, <4>1, <4>2, <4>3
    <3> QED  BY <1>10, <2>2, <3>1
  <2>4. Linked(m, u)
    BY <2>2, <2>3 DEF Linked
  <2>5. ListFrom(m, FirstCell(u)) = u
    BY <1>11, <2>4, LinkedIs
  <2>6. m.keys[j].head = FirstCell(u)
    BY <1>4, <1>10, <1>12, <2>2 DEF HeadOf
  <2> QED  BY <1>6, <2>1, <2>5, <2>6 DEF KeyCells
<1>13. PICK t : t = RemoveAt(s, q)
  OBVIOUS
<1>14. KeyCells(m, i) = t /\ m.keys[i].head = FirstCell(t)
  <2>1. PICK h : h = IF q = 1 THEN l.link[c] ELSE FirstCell(s)
    OBVIOUS
  <2>2. Linked(l, s) /\ \A k \in 1 .. Len(s) : s[k] \in Taken(l)
    BY <1>4, <1>5, <1>7
  <2>3. Unlinks(l, m, s, q, c)
    BY <1>8, <1>9, <1>10, <2>2 DEF Unlinks
  <2>4. Linked(m, t) /\ h = FirstCell(t)
    BY <1>13, <2>1, <2>3, LinkedWithout
  <2>5. m.keys[i].head = h
    <3>1. l.keys[i].head = s[1] /\ 1 \in 1 .. Len(s) /\ s # << >>
      BY DEF Listed
    <3>2. l.keys[i].head = FirstCell(s)
      BY <3>1 DEF FirstCell
    <3>3. s[1] = c <=> q = 1
      <4>1. \A j, k \in 1 .. Len(s) : s[j] = s[k] => j = k
        BY <2>2 DEF Linked
      <4> QED  BY <1>8, <1>9, <3>1, <4>1
    <3> QED  BY <1>10, <2>1, <3>1, <3>2, <3>3
  <2>6. ListFrom(m, FirstCell(t)) = t
    BY <1>11, <2>4, LinkedIs
  <2> QED  BY <2>4, <2>5, <2>6 DEF KeyCells
<1>15. FreedFrom(l, m, i, t)
  BY <1>10, <1>11, <1>12, <1>14 DEF FreedFrom
<1> QED  BY <1>8, <1>13, <1>15

(* m is leaf l without the q-th cell of key i's list s, and without the    *)
(* key if there was no other.                                              *)
Removed(l, m, i, s, q) ==
    /\ m.recId = l.recId
    /\ Len(s) = 1 =>
         /\ Len(m.keys) = Len(l.keys) - 1
         /\ \A j \in 1 .. Len(l.keys) : \A k \in 1 .. Len(m.keys) :
              (j < i /\ k = j) \/ (j > i /\ k + 1 = j) =>
                m.keys[k].value = l.keys[j].value /\ KeyCells(m, k) = KeyCells(l, j)
    /\ Len(s) # 1 =>
         /\ Len(m.keys) = Len(l.keys)
         /\ \A j \in 1 .. Len(l.keys) :
              /\ m.keys[j].value = l.keys[j].value
              /\ KeyCells(m, j) = IF j = i THEN RemoveAt(s, q) ELSE KeyCells(l, j)

(* A deletion takes the q-th cell out of the list of key i, with the key   *)
(* if it was the only one; the other lists stay.                           *)
LEMMA DeleteLists ==
  ASSUME NEW l, GoodLeaf(l), NEW i \in 1 .. Len(l.keys), NEW s, Listed(l, i, s),
         NEW r, r \in Range(RecIds(l, i)), NEW q, q = FirstOf(RecIds(l, i), r),
         NEW m, m = DeleteFromLeaf(l, i, r)
  PROVE  q \in 1 .. Len(s) /\ Removed(l, m, i, s, q)
<1>1. PICK f : f = FreeRecord(l, i, r)
  OBVIOUS
<1>2. PICK t : t = RemoveAt(s, q)
  OBVIOUS
<1>3. q \in 1 .. Len(s) /\ FreedFrom(l, f, i, t)
  BY <1>1, <1>2, FreedLists
<1>4. /\ f \in Leaf /\ Len(f.keys) = Len(l.keys) /\ f.recId = l.recId
      /\ \A j \in 1 .. Len(l.keys) :
           /\ f.keys[j].value = l.keys[j].value
           /\ KeyCells(f, j) = IF j = i THEN t ELSE KeyCells(l, j)
      /\ f.keys[i].head = FirstCell(t)
  BY <1>3 DEF FreedFrom
<1>5. s \in Seq(Cell) /\ Len(s) \in Nat /\ \A k \in 1 .. Len(s) : s[k] # AM_NULL
  BY DEF Listed
<1>6. t \in Seq(Cell) /\ Len(t) = Len(s) - 1 /\ \A p \in 1 .. Len(t) : t[p] = IF p < q THEN s[p] ELSE s[p + 1]
  BY <1>2, <1>3, <1>5, RemoveAtIs
<1>7. f.keys[i].head = AM_NULL <=> Len(s) = 1
  <2>1. CASE Len(s) = 1
    <3>1. t = << >>
      BY <1>6, <2>1
    <3> QED  BY <1>4, <2>1, <3>1 DEF FirstCell
  <2>2. CASE Len(s) # 1
    <3>1. 1 \in 1 .. Len(t)
      BY <1>3, <1>5, <1>6, <2>2
    <3>2. t # << >> /\ t[1] \in {s[1], s[1 + 1]} /\ 1 \in 1 .. Len(s) /\ 1 + 1 \in 1 .. Len(s)
      BY <1>5, <1>6, <3>1
    <3> QED  BY <1>4, <1>5, <2>2, <3>2 DEF FirstCell
  <2> QED  BY <2>1, <2>2
<1>8. Len(l.keys) \in Nat
  BY LeafParts DEF GoodLeaf
<1>9. CASE Len(s) # 1
  <2>1. m = f
    BY <1>1, <1>7, <1>9 DEF DeleteFromLeaf
  <2> QED  BY <1>2, <1>3, <1>4, <1>9, <2>1 DEF Removed
<1>10. CASE Len(s) = 1
  <2>1. m = [f EXCEPT !.keys = RemoveAt(@, i)]
    BY <1>1, <1>7, <1>10 DEF DeleteFromLeaf
  <2>2. PICK u : u = RemoveAt(f.keys, i)
    OBVIOUS
  <2>3. f.keys \in Seq(Entry)
    BY <1>4, LeafParts
  <2>4. i \in 1 .. Len(f.keys)
    BY <1>4
  <2>5. /\ u \in Seq(Entry) /\ Len(u) = Len(f.keys) - 1
        /\ \A p \in 1 .. Len(u) : u[p] = IF p < i THEN f.keys[p] ELSE f.keys[p + 1]
    BY <2>2, <2>3, <2>4, RemoveAtIs
  <2>6. m.keys = u /\ m.link = f.link /\ m.recId = f.recId
    BY <1>4, <2>1, <2>2 DEF Leaf
  <2>7. ASSUME NEW j \in 1 .. Len(l.keys), NEW k \in 1 .. Len(m.keys),
               (j < i /\ k = j) \/ (j > i /\ k + 1 = j)
        PROVE  m.keys[k].value = l.keys[j].value /\ KeyCells(m, k) = KeyCells(l, j)
    <3>1. u[k] = f.keys[j] /\ j # i
      BY <1>4, <1>8, <2>5, <2>6, <2>7, SMTT(40)
    <3>2. KeyCells(m, k) = KeyCells(f, j)
      BY <2>6, <3>1 DEF KeyCells, ListFrom
    <3> QED  BY <1>4, <2>6, <3>1, <3>2
  <2> QED  BY <1>3, <1>4, <1>10, <2>5, <2>6, <2>7 DEF Removed
<1> QED  BY <1>9, <1>10
=============================================================================
