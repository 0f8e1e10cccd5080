------------------------------ MODULE PFProofs ------------------------------
(***************************************************************************)
(* Theorems about the paged-file layer, for any number of descriptors,     *)
(* buffers, pages, names and contents, any client, whether or not it is    *)
(* disciplined, and whatever system calls fail.                            *)
(***************************************************************************)
EXTENDS PFProps, SequenceTheorems, TLAPS

(***************************************************************************)
(* First the routines of the buffer manager: each keeps the two lists of   *)
(* frames and the hash table in agreement.                                 *)
(***************************************************************************)
-----------------------------------------------------------------------------
(* Sequences. *)

(* RemoveAt drops the element at its index and keeps the order of the rest. *)
LEMMA RemoveAtElements ==
    ASSUME NEW S, NEW s \in Seq(S), NEW i \in 1 .. Len(s)
    PROVE  /\ RemoveAt(s, i) \in Seq(S)
           /\ Len(RemoveAt(s, i)) = Len(s) - 1
           /\ \A j \in 1 .. Len(s) - 1 :
                RemoveAt(s, i)[j] = IF j < i THEN s[j] ELSE s[j + 1]
<1> DEFINE a == SubSeq(s, 1, i - 1)
           z == SubSeq(s, i + 1, Len(s))
<1>1. a \in Seq(S) /\ Len(a) = i - 1 /\ \A j \in 1 .. i - 1 : a[j] = s[j]
  BY SubSeqProperties
<1>2. z \in Seq(S) /\ Len(z) = Len(s) - i /\ \A j \in 1 .. Len(s) - i : z[j] = s[i + j]
  BY SubSeqProperties
<1>3. RemoveAt(s, i) = a \o z
  BY DEF RemoveAt
<1> HIDE DEF a, z
<1>4. /\ a \o z \in Seq(S)
      /\ Len(a \o z) = Len(a) + Len(z)
      /\ \A j \in 1 .. Len(a) + Len(z) :
           (a \o z)[j] = IF j <= Len(a) THEN a[j] ELSE z[j - Len(a)]
  BY <1>1, <1>2, ConcatProperties
<1> QED
  BY <1>1, <1>2, <1>3, <1>4, SMTT(40)

(* Unlinking an element of a sequence without repeats removes exactly it. *)
LEMMA UnlinkElements ==
    ASSUME NEW S, NEW s \in Seq(S), NEW f \in ToSet(s), IsInjective(s)
    PROVE  LET r == RemoveAt(s, Position(s, f))
           IN  /\ r \in Seq(S)
               /\ IsInjective(r)
               /\ ToSet(r) = ToSet(s) \ {f}
<1> DEFINE k == Position(s, f)
           r == RemoveAt(s, k)
<1>1. k \in 1 .. Len(s) /\ s[k] = f
  <2>1. \E i \in 1 .. Len(s) : s[i] = f
    BY DEF ToSet
  <2> QED  BY <2>1 DEF Position
<1> HIDE DEF k
<1>2. /\ r \in Seq(S)
      /\ Len(r) = Len(s) - 1
      /\ \A j \in 1 .. Len(s) - 1 : r[j] = IF j < k THEN s[j] ELSE s[j + 1]
  BY <1>1, RemoveAtElements
<1> HIDE DEF r
<1>3. IsInjective(r)
  BY <1>1, <1>2, SMTT(40) DEF IsInjective
<1>4. ASSUME NEW x \in ToSet(r) PROVE x \in ToSet(s) \ {f}
  <2>1. PICK j \in 1 .. Len(s) - 1 : x = r[j]
    BY <1>2 DEF ToSet
  <2>2. x = s[IF j < k THEN j ELSE j + 1]
    BY <1>2, <2>1
  <2>3. (IF j < k THEN j ELSE j + 1) \in (1 .. Len(s)) \ {k}
    BY <1>1, <2>1
  <2>4. DOMAIN s = 1 .. Len(s)
    OBVIOUS
  <2> QED  BY <1>1, <2>2, <2>3, <2>4 DEF ToSet, IsInjective
<1>5. ASSUME NEW x \in ToSet(s) \ {f} PROVE x \in ToSet(r)
  <2>1. PICK i \in 1 .. Len(s) : x = s[i]
    BY DEF ToSet
  <2>2. i # k
    BY <1>1, <2>1
  <2>3. CASE i < k
    <3>1. i \in 1 .. Len(r) /\ r[i] = x
      BY <1>1, <1>2, <2>1, <2>3
    <3> QED  BY <1>2, <3>1 DEF ToSet
  <2>4. CASE i > k
    <3>1. i - 1 \in 1 .. Len(r) /\ r[i - 1] = x
      BY <1>1, <1>2, <2>1, <2>4
    <3> QED  BY <1>2, <3>1 DEF ToSet
  <2> QED  BY <1>1, <2>2, <2>3, <2>4
<1> QED
  BY <1>2, <1>3, <1>4, <1>5 DEF k, r

(* Linking at the head adds exactly the new element. *)
LEMMA LinkHeadElements ==
    ASSUME NEW S, NEW s \in Seq(S), NEW f \in S
    PROVE  /\ <<f>> \o s \in Seq(S)
           /\ <<f>> \o s # << >>
           /\ Head(<<f>> \o s) = f
           /\ ToSet(<<f>> \o s) = ToSet(s) \cup {f}
           /\ IsInjective(s) /\ f \notin ToSet(s) => IsInjective(<<f>> \o s)
<1> DEFINE t == <<f>> \o s
<1>1. /\ t \in Seq(S)
      /\ Len(t) = Len(s) + 1
      /\ \A j \in 1 .. Len(s) + 1 : t[j] = IF j = 1 THEN f ELSE s[j - 1]
  <2>1. <<f>> \in Seq(S) /\ Len(<<f>>) = 1 /\ <<f>>[1] = f
    OBVIOUS
  <2> QED  BY <2>1, ConcatProperties
<1> HIDE DEF t
<1>2. t # << >> /\ Head(t) = f
  BY <1>1, HeadTailProperties
<1>3. ASSUME NEW x \in ToSet(t) PROVE x \in ToSet(s) \cup {f}
  <2>1. PICK j \in 1 .. Len(s) + 1 : x = t[j]
    BY <1>1 DEF ToSet
  <2>2. CASE j = 1
    BY <1>1, <2>1, <2>2
  <2>3. CASE j # 1
    <3>1. j - 1 \in 1 .. Len(s) /\ x = s[j - 1]
      BY <1>1, <2>1, <2>3
    <3> QED  BY <3>1 DEF ToSet
  <2> QED  BY <2>2, <2>3
<1>4. ASSUME NEW x \in ToSet(s) \cup {f} PROVE x \in ToSet(t)
  <2>1. CASE x = f
    <3>1. 1 \in 1 .. Len(t) /\ t[1] = f
      BY <1>1
    <3> QED  BY <1>1, <2>1, <3>1 DEF ToSet
  <2>2. CASE x \in ToSet(s)
    <3>1. PICK i \in 1 .. Len(s) : x = s[i]
      BY <2>2 DEF ToSet
    <3>2. i + 1 \in 1 .. Len(t) /\ t[i + 1] = x
      BY <1>1, <3>1
    <3> QED  BY <1>1, <3>2 DEF ToSet
  <2> QED  BY <2>1, <2>2
<1>5. ASSUME IsInjective(s), f \notin ToSet(s) PROVE IsInjective(t)
  <2>1. SUFFICES ASSUME NEW i \in 1 .. Len(t), NEW j \in 1 .. Len(t), t[i] = t[j]
                 PROVE  i = j
    BY DEF IsInjective
  <2>2. \A m \in 2 .. Len(t) : m - 1 \in 1 .. Len(s) /\ t[m] = s[m - 1] /\ t[m] # f
    BY <1>1, <1>5 DEF ToSet
  <2>3. t[1] = f
    BY <1>1
  <2>4. CASE i = 1 \/ j = 1
    BY <1>1, <2>1, <2>2, <2>3, <2>4
  <2>5. CASE i # 1 /\ j # 1
    <3>1. i \in 2 .. Len(t) /\ j \in 2 .. Len(t)
      BY <1>1, <2>5
    <3>2. i - 1 \in DOMAIN s /\ j - 1 \in DOMAIN s /\ s[i - 1] = s[j - 1]
      BY <2>1, <2>2, <3>1
    <3>3. i - 1 = j - 1
      BY <1>5, <3>2 DEF IsInjective
    <3> QED  BY <3>1, <3>3
  <2> QED  BY <2>4, <2>5
<1> QED
  BY <1>1, <1>2, <1>3, <1>4, <1>5 DEF t

(* Popping a stack without repeats removes exactly its top. *)
LEMMA TailElements ==
    ASSUME NEW S, NEW s \in Seq(S), s # << >>, IsInjective(s)
    PROVE  /\ Head(s) \in ToSet(s)
           /\ Tail(s) \in Seq(S)
           /\ IsInjective(Tail(s))
           /\ ToSet(Tail(s)) = ToSet(s) \ {Head(s)}
<1>1. /\ Head(s) = s[1]
      /\ Len(s) >= 1
      /\ Tail(s) \in Seq(S)
      /\ Len(Tail(s)) = Len(s) - 1
      /\ \A i \in 1 .. Len(Tail(s)) : Tail(s)[i] = s[i + 1]
  BY HeadTailProperties, LenProperties, EmptySeq
<1>2. IsInjective(Tail(s))
  BY <1>1 DEF IsInjective
<1>3. Head(s) \in ToSet(s)
  BY <1>1 DEF ToSet
<1>4. ASSUME NEW x \in ToSet(Tail(s)) PROVE x \in ToSet(s) \ {Head(s)}
  <2>1. PICK i \in 1 .. Len(Tail(s)) : x = s[i + 1]
    BY <1>1 DEF ToSet
  <2>2. i + 1 \in 1 .. Len(s) /\ i + 1 # 1
    BY <1>1
  <2> QED  BY <1>1, <2>1, <2>2 DEF ToSet, IsInjective
<1>5. ASSUME NEW x \in ToSet(s) \ {Head(s)} PROVE x \in ToSet(Tail(s))
  <2>1. PICK i \in 1 .. Len(s) : x = s[i]
    BY DEF ToSet
  <2>2. i # 1
    BY <1>1, <2>1
  <2>3. i - 1 \in 1 .. Len(Tail(s)) /\ Tail(s)[i - 1] = x
    BY <1>1, <2>1, <2>2
  <2>4. DOMAIN Tail(s) = 1 .. Len(Tail(s))
    BY <1>1
  <2> QED  BY <2>3, <2>4 DEF ToSet
<1> QED
  BY <1>1, <1>2, <1>3, <1>4, <1>5

-----------------------------------------------------------------------------
(***************************************************************************)
(* The pool between two calls, and in the middle of one: L is the set of   *)
(* listed frames that hold a page, loose the frames on neither list.       *)
(***************************************************************************)
Pool(b, loose) ==
    /\ b \in BufType
    /\ IsInjective(b.list)
    /\ IsInjective(b.free)
    /\ ToSet(b.list) \cap ToSet(b.free) = {}
    /\ ToSet(b.list) \cup ToSet(b.free) = (1 .. b.num) \ loose
    /\ loose \subseteq 1 .. b.num

Holds(b, L) ==
    /\ L \subseteq ToSet(b.list)
    /\ \A f \in L : b.hash[<<b.frame[f].fd, b.frame[f].page>>] = f
    /\ \A fd \in FD, p \in PageNum :
         b.hash[<<fd, p>>] # NoFrame =>
           /\ b.hash[<<fd, p>>] \in L
           /\ b.frame[b.hash[<<fd, p>>]].fd = fd
           /\ b.frame[b.hash[<<fd, p>>]].page = p
    /\ \A f \in Frame : b.frame[f].fixed => f \in L

BufOK(b) == Pool(b, {}) /\ Holds(b, ToSet(b.list))

(* A frame has been claimed, is at the head, and holds nothing yet. *)
Claimed(b) ==
    /\ Pool(b, {})
    /\ b.list # << >>
    /\ Holds(b, ToSet(b.list) \ {Head(b.list)})

(* A frame that is on neither list is linked at the head. *)
LEMMA LinkHeadLists ==
    ASSUME NEW b, NEW f \in Frame, Pool(b, {f})
    PROVE  LET c == PFbufLinkHead(b, f)
           IN  /\ Pool(c, {})
               /\ c.list # << >>
               /\ Head(c.list) = f
               /\ ToSet(c.list) = ToSet(b.list) \cup {f}
               /\ c.frame = b.frame /\ c.hash = b.hash
<1> DEFINE c == PFbufLinkHead(b, f)
<1>1. b \in BufType
  BY DEF Pool
<1>2. /\ c.list = <<f>> \o b.list /\ c.free = b.free /\ c.num = b.num
      /\ c.frame = b.frame /\ c.hash = b.hash
  BY <1>1 DEF PFbufLinkHead, BufType
<1>3. f \notin ToSet(b.list)
  BY DEF Pool
<1>4. /\ c.list \in Seq(Frame)
      /\ c.list # << >>
      /\ Head(c.list) = f
      /\ ToSet(c.list) = ToSet(b.list) \cup {f}
      /\ IsInjective(c.list)
  BY <1>1, <1>2, <1>3, LinkHeadElements DEF Pool, BufType
<1>5. c \in BufType
  BY <1>1, <1>2, <1>4 DEF PFbufLinkHead, BufType
<1> HIDE DEF c
<1>6. Pool(c, {})
  BY <1>2, <1>3, <1>4, <1>5 DEF Pool
<1> QED
  BY <1>2, <1>4, <1>6 DEF c

LEMMA LinkHeadPool ==
    ASSUME NEW b, NEW f \in Frame, Pool(b, {f}), Holds(b, ToSet(b.list))
    PROVE  /\ Claimed(PFbufLinkHead(b, f))
           /\ Head(PFbufLinkHead(b, f).list) = f
<1> DEFINE c == PFbufLinkHead(b, f)
<1>1. /\ Pool(c, {})
      /\ c.list # << >>
      /\ Head(c.list) = f
      /\ ToSet(c.list) = ToSet(b.list) \cup {f}
      /\ c.frame = b.frame /\ c.hash = b.hash
  BY LinkHeadLists
<1>2. f \notin ToSet(b.list)
  BY DEF Pool
<1> HIDE DEF c
<1>3. Holds(c, ToSet(b.list))
  BY <1>1 DEF Holds
<1>4. ToSet(c.list) \ {Head(c.list)} = ToSet(b.list)
  BY <1>1, <1>2
<1> QED
  BY <1>1, <1>3, <1>4 DEF Claimed, c

(* Taking a frame off the list, whether or not it holds a page. *)
LEMMA UnlinkPool ==
    ASSUME NEW b, NEW f \in ToSet(b.list), Pool(b, {})
    PROVE  LET c == PFbufUnlink(b, f)
           IN  /\ Pool(c, {f})
               /\ ToSet(c.list) = ToSet(b.list) \ {f}
               /\ c.free = b.free /\ c.num = b.num
               /\ c.frame = b.frame /\ c.hash = b.hash
               /\ f \in Frame
<1> DEFINE c == PFbufUnlink(b, f)
<1>1. b \in BufType
  BY DEF Pool
<1>2. /\ c.list = RemoveAt(b.list, Position(b.list, f))
      /\ c.free = b.free /\ c.num = b.num
      /\ c.frame = b.frame /\ c.hash = b.hash
  BY <1>1 DEF PFbufUnlink, BufType
<1>3. /\ c.list \in Seq(Frame)
      /\ ToSet(c.list) = ToSet(b.list) \ {f}
      /\ IsInjective(c.list)
  BY <1>1, <1>2, UnlinkElements DEF Pool, BufType
<1>4. c \in BufType
  BY <1>1, <1>2, <1>3 DEF PFbufUnlink, BufType
<1>5. f \in Frame
  BY <1>1 DEF BufType, ToSet
<1>6. f \in 1 .. b.num /\ f \notin ToSet(b.free)
  BY DEF Pool
<1> HIDE DEF c
<1>7. Pool(c, {f})
  BY <1>2, <1>3, <1>4, <1>6 DEF Pool
<1> QED
  BY <1>2, <1>3, <1>5, <1>7 DEF c

LEMMA InsertFreePool ==
    ASSUME NEW b, NEW f \in Frame, Pool(b, {f}), Holds(b, ToSet(b.list))
    PROVE  BufOK(PFbufInsertFree(b, f))
<1> DEFINE c == PFbufInsertFree(b, f)
<1>1. b \in BufType /\ f \notin ToSet(b.free) /\ f \notin ToSet(b.list)
  BY DEF Pool
<1>2. /\ c.free = <<f>> \o b.free /\ c.list = b.list /\ c.num = b.num
      /\ c.frame = b.frame /\ c.hash = b.hash
  BY <1>1 DEF PFbufInsertFree, BufType
<1>3. /\ c.free \in Seq(Frame)
      /\ ToSet(c.free) = ToSet(b.free) \cup {f}
      /\ IsInjective(c.free)
  BY <1>1, <1>2, LinkHeadElements DEF Pool, BufType
<1>4. c \in BufType
  BY <1>1, <1>2, <1>3 DEF PFbufInsertFree, BufType
<1> HIDE DEF c
<1>5. Pool(c, {})
  BY <1>1, <1>2, <1>3, <1>4 DEF Pool
<1>6. Holds(c, ToSet(c.list))
  BY <1>2 DEF Holds
<1> QED
  BY <1>5, <1>6 DEF BufOK, c

(* An evicted frame is on no list and the hash table has forgotten it. *)
LEMMA EvictPool ==
    ASSUME NEW b, NEW f \in ToSet(b.list), BufOK(b), ~b.frame[f].fixed
    PROVE  LET c == Evict(b, f)
           IN  /\ Pool(c, {f})
               /\ Holds(c, ToSet(c.list))
               /\ ToSet(c.list) = ToSet(b.list) \ {f}
               /\ c.num = b.num
               /\ f \in Frame
<1> DEFINE v  == b.frame[f]
           b1 == [b EXCEPT !.frame[f].dirty = FALSE]
           b2 == PFhashDelete(b1, v.fd, v.page)
           c  == Evict(b, f)
<1>1. b \in BufType /\ f \in Frame
  BY DEF BufOK, Pool, BufType, ToSet
<1>2. v \in PFbpage
  BY <1>1 DEF BufType
<1>3. /\ b1.list = b.list /\ b1.free = b.free /\ b1.num = b.num /\ b1.hash = b.hash
      /\ b1.frame = [b.frame EXCEPT ![f].dirty = FALSE]
      /\ b1 \in BufType
  BY <1>1, <1>2 DEF BufType, PFbpage
<1> HIDE DEF b1
<1>4. /\ b2.list = b.list /\ b2.free = b.free /\ b2.num = b.num
      /\ b2.frame = b1.frame
      /\ b2.hash = [b.hash EXCEPT ![<<v.fd, v.page>>] = NoFrame]
      /\ b2 \in BufType
  BY <1>2, <1>3 DEF PFhashDelete, BufType, PFbpage
<1> HIDE DEF b2
<1>5. Pool(b2, {})
  BY <1>4 DEF BufOK, Pool
<1>6. c = PFbufUnlink(b2, f)
  BY DEF Evict, b1, b2
<1> HIDE DEF c
<1>7. /\ Pool(c, {f})
      /\ ToSet(c.list) = ToSet(b.list) \ {f}
      /\ c.num = b.num /\ c.frame = b2.frame /\ c.hash = b2.hash
  BY <1>4, <1>5, <1>6, UnlinkPool
<1>8. \A g \in Frame : /\ c.frame[g].fd = b.frame[g].fd
                       /\ c.frame[g].page = b.frame[g].page
                       /\ c.frame[g].fixed = b.frame[g].fixed
  BY <1>1, <1>3, <1>4, <1>7 DEF BufType, PFbpage
<1>9. \A g \in ToSet(b.list) : g \in Frame /\ b.frame[g].fd \in FD /\ b.frame[g].page \in PageNum
  BY <1>1 DEF BufType, ToSet, PFbpage
<1>10. Holds(c, ToSet(c.list))
  <2>1. \A g \in ToSet(c.list) : c.hash[<<c.frame[g].fd, c.frame[g].page>>] = g
    <3>1. SUFFICES ASSUME NEW g \in ToSet(c.list)
                   PROVE  c.hash[<<c.frame[g].fd, c.frame[g].page>>] = g
      OBVIOUS
    <3>2. g \in ToSet(b.list) /\ g # f
      BY <1>7, <3>1
    <3>3. b.hash[<<b.frame[g].fd, b.frame[g].page>>] = g /\ b.hash[<<v.fd, v.page>>] = f
      BY <3>2 DEF BufOK, Holds
    <3>4. <<b.frame[g].fd, b.frame[g].page>> # <<v.fd, v.page>>
      BY <3>2, <3>3
    <3>5. b.hash \in [FD \X PageNum -> Frame \cup {NoFrame}]
      BY <1>1 DEF BufType
    <3>6. c.hash[<<b.frame[g].fd, b.frame[g].page>>] = b.hash[<<b.frame[g].fd, b.frame[g].page>>]
      BY <1>4, <1>7, <1>9, <3>2, <3>4, <3>5
    <3> QED  BY <1>8, <1>9, <3>2, <3>3, <3>6
  <2>2. ASSUME NEW fd \in FD, NEW p \in PageNum, c.hash[<<fd, p>>] # NoFrame
        PROVE  /\ c.hash[<<fd, p>>] \in ToSet(c.list)
               /\ c.frame[c.hash[<<fd, p>>]].fd = fd
               /\ c.frame[c.hash[<<fd, p>>]].page = p
    <3>1. b.hash \in [FD \X PageNum -> Frame \cup {NoFrame}]
      BY <1>1 DEF BufType
    <3>2. c.hash[<<fd, p>>] = b.hash[<<fd, p>>] /\ <<fd, p>> # <<v.fd, v.page>>
      BY <1>4, <1>7, <2>2, <3>1
    <3>3. /\ b.hash[<<fd, p>>] \in ToSet(b.list)
          /\ b.frame[b.hash[<<fd, p>>]].fd = fd
          /\ b.frame[b.hash[<<fd, p>>]].page = p
      BY <2>2, <3>2 DEF BufOK, Holds
    <3>4. b.hash[<<fd, p>>] # f
      BY <3>2, <3>3
    <3> QED  BY <1>7, <1>8, <1>9, <3>2, <3>3, <3>4
  <2>3. \A g \in Frame : c.frame[g].fixed => g \in ToSet(c.list)
    BY <1>7, <1>8 DEF BufOK, Holds
  <2> QED  BY <2>1, <2>2, <2>3 DEF Holds
<1> QED
  BY <1>1, <1>7, <1>10 DEF c

(* Eviction changes no frame but its own. *)
LEMMA EvictSame ==
    ASSUME NEW b \in BufType, NEW f \in Frame, NEW g \in Frame \ {f}
    PROVE  Evict(b, f).frame[g] = b.frame[g]
BY DEF Evict, PFbufUnlink, PFhashDelete, BufType

-----------------------------------------------------------------------------
(***************************************************************************)
(* The routines.  Listed frames other than the one at work are untouched.  *)
(***************************************************************************)
DiskType == [Fname -> File]

FtabType == [FD -> PFftab_ele]

Same(b, c, L) == \A f \in L : f \in ToSet(b.list) /\ c.frame[f] = b.frame[f]

(* Frames that are fixed are untouched. *)
Kept(b, c) == \A f \in Frame : b.frame[f].fixed => c.frame[f] = b.frame[f]

(* Frames that have come on the list, or changed hands, are now fd's. *)
Owners(b, c, fd) ==
    \A f \in ToSet(c.list) :
      c.frame[f].fd = fd \/ (f \in ToSet(b.list) /\ c.frame[f].fd = b.frame[f].fd)

Codes == -19 .. 0

(* A write leaves a disk, whatever it writes and wherever. *)
LEMMA WriteDisk ==
    ASSUME NEW d \in DiskType, NEW fname, NEW p \in PageNum, NEW fp \in PFfpage,
           NEW w \in PFwritefcn(d, fname, p, fp)
    PROVE  w.disk \in DiskType /\ w.err \in Codes
<1>1. ASSUME NEW q \in PFfpage PROVE Put(d, fname, p, q) \in DiskType
  <2>1. CASE fname \notin Fname
    <3>1. Put(d, fname, p, q) = d
      BY <2>1 DEF Put, DiskType
    <3> QED  BY <3>1
  <2>2. CASE fname \in Fname
    <3> DEFINE file == d[fname]
               new  == [file EXCEPT !.page[p] = q,
                                    !.len = IF @ > p THEN @ ELSE p + 1]
    <3>1. file \in File
      BY <2>2 DEF DiskType
    <3>2. (IF file.len > p THEN file.len ELSE p + 1) \in 0 .. MaxPages
      BY <3>1, PFAssumption DEF File, PageNum
    <3>3. new \in File
      BY <3>1, <3>2, <1>1 DEF File
    <3>4. Put(d, fname, p, q) = [d EXCEPT ![fname] = new]
      BY <2>2 DEF Put, DiskType
    <3> QED  BY <3>3, <3>4 DEF DiskType
  <2> QED  BY <2>1, <2>2
<1>2. [fp EXCEPT !.data = Junk] \in PFfpage
  BY PFAssumption DEF PFfpage
<1> QED
  BY <1>1, <1>2 DEF PFwritefcn, Codes, PFE_OK, PFE_UNIX, PFE_INCOMPLETEWRITE

(* The same of a page of the pool. *)
LEMMA FlushDisk ==
    ASSUME BufOK(buf), disk \in DiskType, NEW f \in Frame, NEW w \in Flush(f)
    PROVE  w.disk \in DiskType /\ w.err \in Codes
<1>1. buf.frame[f] \in PFbpage
  BY DEF BufOK, Pool, BufType
<1>2. buf.frame[f].page \in PageNum /\ buf.frame[f].fpage \in PFfpage
  BY <1>1 DEF PFbpage
<1> QED
  BY <1>2, WriteDisk DEF Flush, Codes, PFE_OK

(* A frame is claimed, or the pool is as it was. *)
LEMMA InternalAllocOK ==
    ASSUME BufOK(buf), disk \in DiskType, NEW fd \in FD,
           NEW o \in PFbufInternalAlloc(fd)
    PROVE  /\ o.disk \in DiskType
           /\ o.err \in Codes
           /\ o.err # PFE_OK => o.buf = buf
           /\ o.err = PFE_OK => /\ Claimed(o.buf)
                                /\ Same(buf, o.buf, ToSet(o.buf.list) \ {Head(o.buf.list)})
                                /\ Kept(buf, o.buf)
<1>0. Pool(buf, {}) /\ Holds(buf, ToSet(buf.list)) /\ buf \in BufType
  BY DEF BufOK, Pool
<1>1. ASSUME NEW b, NEW d \in DiskType, NEW f \in Frame, o = Linked(b, d, f),
             Pool(b, {f}), Holds(b, ToSet(b.list)), Same(buf, b, ToSet(b.list)),
             Kept(buf, b)
      PROVE  /\ o.disk \in DiskType
             /\ o.err = PFE_OK
             /\ Claimed(o.buf)
             /\ Kept(buf, o.buf)
             /\ Same(buf, o.buf, ToSet(o.buf.list) \ {Head(o.buf.list)})
  <2>1. o.buf = PFbufLinkHead(b, f) /\ o.disk = d /\ o.err = PFE_OK
    BY <1>1 DEF Linked, Outcome
  <2>2. Claimed(o.buf) /\ Head(o.buf.list) = f
    BY <1>1, <2>1, LinkHeadPool
  <2>3. o.buf.list = <<f>> \o b.list /\ o.buf.frame = b.frame
    BY <1>1, <2>1 DEF PFbufLinkHead, Pool, BufType
  <2>4. ToSet(o.buf.list) = ToSet(b.list) \cup {f}
    BY <1>1, <2>3, LinkHeadElements DEF Pool, BufType
  <2> QED  BY <1>1, <2>1, <2>2, <2>3, <2>4 DEF Same, Kept
<1>6. PFE_OK \in Codes
  BY DEF Codes, PFE_OK
<1>2. CASE buf.free # << >>
  <2> DEFINE b == [buf EXCEPT !.free = Tail(@)]
  <2>1. o = Linked(b, disk, Head(buf.free))
    BY <1>2 DEF PFbufInternalAlloc
  <2>2. /\ b.list = buf.list /\ b.free = Tail(buf.free) /\ b.num = buf.num
        /\ b.frame = buf.frame /\ b.hash = buf.hash
    BY <1>0 DEF BufType
  <2>3. /\ Head(buf.free) \in ToSet(buf.free)
        /\ b.free \in Seq(Frame)
        /\ IsInjective(b.free)
        /\ ToSet(b.free) = ToSet(buf.free) \ {Head(buf.free)}
    BY <1>0, <1>2, <2>2, TailElements DEF Pool, BufType
  <2>4. b \in BufType /\ Head(buf.free) \in Frame
    <3>1. ToSet(buf.free) \subseteq Frame
      BY <1>0 DEF BufType, ToSet
    <3>2. b \in BufType
      BY <1>0, <2>2, <2>3 DEF BufType
    <3> QED  BY <2>3, <3>1, <3>2
  <2> HIDE DEF b
  <2>5. Pool(b, {Head(buf.free)})
    BY <1>0, <2>2, <2>3, <2>4 DEF Pool
  <2>6. Holds(b, ToSet(b.list)) /\ Same(buf, b, ToSet(b.list)) /\ Kept(buf, b)
    BY <1>0, <2>2 DEF Holds, Same, Kept
  <2> QED  BY <1>1, <1>6, <2>1, <2>4, <2>5, <2>6
<1>3. CASE buf.free = << >> /\ buf.num < PF_MAX_BUFS
  <2> DEFINE b == [buf EXCEPT !.num = @ + 1]
             f == buf.num + 1
  <2>1. \/ o = Linked(b, disk, f)
        \/ o = Outcome(buf, disk, PFE_NOMEM)
    BY <1>3 DEF PFbufInternalAlloc
  <2>2. /\ b.list = buf.list /\ b.free = buf.free /\ b.num = f
        /\ b.frame = buf.frame /\ b.hash = buf.hash
    BY <1>0 DEF BufType
  <2>3. buf.num \in 0 .. PF_MAX_BUFS /\ f \in Frame /\ f \in 0 .. PF_MAX_BUFS
    BY <1>0, <1>3, PFAssumption DEF BufType, Frame
  <2>4. b \in BufType
    BY <1>0, <2>3 DEF BufType
  <2> HIDE DEF b
  <2>5. (1 .. b.num) \ {f} = 1 .. buf.num /\ f \in 1 .. b.num
    BY <2>2, <2>3
  <2>6. Pool(b, {f})
    BY <1>0, <2>2, <2>4, <2>5 DEF Pool
  <2>7. Holds(b, ToSet(b.list)) /\ Same(buf, b, ToSet(b.list)) /\ Kept(buf, b)
    BY <1>0, <2>2 DEF Holds, Same, Kept
  <2> HIDE DEF f
  <2>8. CASE o = Linked(b, disk, f)
    BY <1>1, <1>6, <2>3, <2>6, <2>7, <2>8
  <2>9. CASE o = Outcome(buf, disk, PFE_NOMEM)
    BY <2>9 DEF Outcome, PFE_NOMEM, PFE_OK, Codes
  <2> QED  BY <2>1, <2>8, <2>9
<1>4. CASE buf.free = << >> /\ ~(buf.num < PF_MAX_BUFS) /\ Unfixed(buf) = {}
  <2>1. o = Outcome(buf, disk, PFE_NOBUF)
    BY <1>4 DEF PFbufInternalAlloc
  <2> QED  BY <2>1 DEF Outcome, PFE_NOBUF, PFE_OK, Codes
<1>5. CASE buf.free = << >> /\ ~(buf.num < PF_MAX_BUFS) /\ Unfixed(buf) # {}
  <2>0. PICK i \in Victim(buf, PFftab[fd].strategy) :
           \E w \in Flush(buf.list[i]) :
              o = IF w.err = PFE_OK
                  THEN Linked(Evict(buf, buf.list[i]), w.disk, buf.list[i])
                  ELSE Outcome(buf, w.disk, w.err)
    BY <1>5 DEF PFbufInternalAlloc
  <2>1. PICK w \in Flush(buf.list[i]) :
           o = IF w.err = PFE_OK
               THEN Linked(Evict(buf, buf.list[i]), w.disk, buf.list[i])
               ELSE Outcome(buf, w.disk, w.err)
    BY <2>0
  <2> DEFINE f == buf.list[i]
             b == Evict(buf, f)
  <2>2. i \in 1 .. Len(buf.list) /\ ~buf.frame[f].fixed
    BY DEF Victim, Unfixed
  <2>3. f \in ToSet(buf.list) /\ f \in Frame
    BY <1>0, <2>2 DEF ToSet, BufType
  <2> HIDE DEF f
  <2>4. Pool(b, {f}) /\ Holds(b, ToSet(b.list)) /\ ToSet(b.list) = ToSet(buf.list) \ {f}
    BY <2>2, <2>3, EvictPool
  <2>5. ASSUME NEW g \in ToSet(b.list) PROVE g \in ToSet(buf.list) /\ b.frame[g] = buf.frame[g]
    <3>1. g \in ToSet(buf.list) /\ g # f
      BY <2>4, <2>5
    <3>2. g \in Frame
      BY <1>0, <3>1 DEF BufType, ToSet
    <3> QED  BY <1>0, <2>3, <3>1, <3>2, EvictSame
  <2>9. Kept(buf, b)
    <3>1. SUFFICES ASSUME NEW g \in Frame, buf.frame[g].fixed PROVE b.frame[g] = buf.frame[g]
      BY DEF Kept
    <3>2. g # f
      BY <2>2, <3>1 DEF f
    <3> QED  BY <1>0, <2>3, <3>2, EvictSame
  <2>6. w.disk \in DiskType /\ w.err \in Codes
    BY <2>3, FlushDisk DEF f
  <2>7. CASE w.err = PFE_OK
    <3>1. o = Linked(b, w.disk, f)
      BY <2>1, <2>7 DEF f
    <3> HIDE DEF b
    <3>2. Same(buf, b, ToSet(b.list))
      BY <2>5 DEF Same
    <3> QED  BY <1>1, <1>6, <2>3, <2>4, <2>6, <2>9, <3>1, <3>2
  <2>8. CASE w.err # PFE_OK
    BY <2>1, <2>6, <2>8 DEF Outcome
  <2> QED  BY <2>7, <2>8
<1> QED
  BY <1>2, <1>3, <1>4, <1>5

LEMMA AbandonOK ==
    ASSUME NEW b, Claimed(b)
    PROVE  /\ BufOK(Abandon(b))
           /\ Abandon(b).frame = b.frame
           /\ ToSet(Abandon(b).list) = ToSet(b.list) \ {Head(b.list)}
<1> DEFINE f == Head(b.list)
           c == PFbufUnlink(b, f)
<1>1. b \in BufType /\ Pool(b, {}) /\ Holds(b, ToSet(b.list) \ {f}) /\ IsInjective(b.list)
  BY DEF Claimed, Pool
<1>2. f \in ToSet(b.list)
  BY <1>1, TailElements DEF Claimed, BufType
<1>3. /\ Pool(c, {f})
      /\ ToSet(c.list) = ToSet(b.list) \ {f}
      /\ c.frame = b.frame /\ c.hash = b.hash
      /\ f \in Frame
  BY <1>1, <1>2, UnlinkPool
<1> HIDE DEF f, c
<1>4. Holds(c, ToSet(c.list))
  BY <1>1, <1>3 DEF Holds
<1>5. BufOK(PFbufInsertFree(c, f))
  BY <1>3, <1>4, InsertFreePool
<1>6. PFbufInsertFree(c, f).frame = c.frame /\ PFbufInsertFree(c, f).list = c.list
  BY <1>3 DEF PFbufInsertFree, Pool, BufType
<1> QED
  BY <1>3, <1>5, <1>6 DEF Abandon, c, f

(* An update of a hash table, entry by entry. *)
LEMMA HashExcept ==
    ASSUME NEW h \in [FD \X PageNum -> Frame \cup {NoFrame}], NEW x \in Frame \cup {NoFrame},
           NEW fd \in FD, NEW p \in PageNum
    PROVE  /\ [h EXCEPT ![<<fd, p>>] = x] \in [FD \X PageNum -> Frame \cup {NoFrame}]
           /\ \A e \in FD, r \in PageNum :
                [h EXCEPT ![<<fd, p>>] = x][<<e, r>>] =
                  IF e = fd /\ r = p THEN x ELSE h[<<e, r>>]
<1>1. \A e \in FD, r \in PageNum : <<e, r>> \in FD \X PageNum
  OBVIOUS
<1>2. \A e \in FD, r \in PageNum : <<e, r>> = <<fd, p>> <=> e = fd /\ r = p
  OBVIOUS
<1> QED
  BY <1>1, <1>2

(* A claimed frame is entered for a page that no other frame holds. *)
LEMMA EnterOK ==
    ASSUME NEW b, NEW d \in DiskType, Claimed(b), NEW fd \in FD, NEW p \in PageNum,
           b.hash[<<fd, p>>] = NoFrame,
           NEW frame \in PFbpage, frame.fd = fd, frame.page = p, frame.fixed,
           NEW q \in Enter(Outcome(b, d, PFE_OK), fd, p, frame)
    PROVE  /\ q.disk \in DiskType
           /\ q.err \in Codes
           /\ BufOK(q.buf)
           /\ Kept(b, q.buf)
           /\ \A g \in ToSet(q.buf.list) : \/ q.err = PFE_OK /\ g = Head(b.list)
                                           \/ /\ g # Head(b.list)
                                              /\ g \in ToSet(b.list)
                                              /\ q.buf.frame[g] = b.frame[g]
           /\ q.err = PFE_OK => /\ Head(b.list) \in ToSet(q.buf.list)
                                /\ q.buf.hash[<<fd, p>>] = Head(b.list)
                                /\ q.buf.frame[Head(b.list)] = frame
<1> DEFINE f == Head(b.list)
           c == [PFhashInsert(b, fd, p, f) EXCEPT !.frame[f] = frame]
           a == [b EXCEPT !.frame[f].fpage = frame.fpage]
<1>1. /\ b \in BufType /\ Pool(b, {}) /\ Holds(b, ToSet(b.list) \ {f}) /\ IsInjective(b.list)
      /\ b.list # << >>
  BY DEF Claimed, Pool
<1>2. f \in ToSet(b.list)
  BY <1>1, TailElements DEF BufType
<1>3. ToSet(b.list) \subseteq Frame
  BY <1>1 DEF BufType, ToSet
<1>4. f \in Frame /\ ~b.frame[f].fixed
  BY <1>1, <1>2, <1>3 DEF Holds
<1>5. \/ q = Outcome(c, d, PFE_OK)
      \/ q = Outcome(Abandon(a), d, PFE_NOMEM)
  BY DEF Enter, GiveBack, Outcome
<1> HIDE DEF f
<1>6. CASE q = Outcome(c, d, PFE_OK)
  <2>1. /\ c.list = b.list /\ c.free = b.free /\ c.num = b.num
        /\ c.hash = [b.hash EXCEPT ![<<fd, p>>] = f]
        /\ c.frame = [b.frame EXCEPT ![f] = frame]
    BY <1>1 DEF PFhashInsert, BufType
  <2>2. /\ \A g \in Frame : c.frame[g] = IF g = f THEN frame ELSE b.frame[g]
        /\ \A e \in FD, r \in PageNum :
             c.hash[<<e, r>>] = IF e = fd /\ r = p THEN f ELSE b.hash[<<e, r>>]
        /\ c.hash \in [FD \X PageNum -> Frame \cup {NoFrame}]
    <3>1. b.frame \in [Frame -> PFbpage] /\ b.hash \in [FD \X PageNum -> Frame \cup {NoFrame}]
      BY <1>1 DEF BufType
    <3>2. \A g \in Frame : c.frame[g] = IF g = f THEN frame ELSE b.frame[g]
      BY <1>4, <2>1, <3>1
    <3> HIDE DEF c
    <3>3. /\ [b.hash EXCEPT ![<<fd, p>>] = f] \in [FD \X PageNum -> Frame \cup {NoFrame}]
          /\ \A e \in FD, r \in PageNum :
               [b.hash EXCEPT ![<<fd, p>>] = f][<<e, r>>] =
                 IF e = fd /\ r = p THEN f ELSE b.hash[<<e, r>>]
      BY <1>4, <3>1, HashExcept
    <3> QED  BY <2>1, <3>2, <3>3
  <2>3. c \in BufType
    BY <1>1, <1>4, <2>1, <2>2 DEF PFhashInsert, BufType
  <2> HIDE DEF c
  <2>4. Pool(c, {})
    BY <1>1, <2>1, <2>3 DEF Pool
  <2>5. \A g \in Frame : b.frame[g].fd \in FD /\ b.frame[g].page \in PageNum
    BY <1>1 DEF BufType, PFbpage
  <2>6. ASSUME NEW g \in ToSet(c.list)
        PROVE  c.hash[<<c.frame[g].fd, c.frame[g].page>>] = g
    <3>1. CASE g = f
      BY <1>4, <2>2, <3>1
    <3>2. CASE g # f
      <4>1. b.hash[<<b.frame[g].fd, b.frame[g].page>>] = g /\ g \in Frame
        BY <1>1, <1>3, <2>1, <2>6, <3>2 DEF Holds
      <4>2. g # NoFrame
        BY <4>1 DEF Frame, NoFrame
      <4> QED  BY <2>2, <2>5, <3>2, <4>1, <4>2
    <3> QED  BY <3>1, <3>2
  <2>7. ASSUME NEW e \in FD, NEW r \in PageNum, c.hash[<<e, r>>] # NoFrame
        PROVE  /\ c.hash[<<e, r>>] \in ToSet(c.list)
               /\ c.frame[c.hash[<<e, r>>]].fd = e
               /\ c.frame[c.hash[<<e, r>>]].page = r
    <3>1. CASE e = fd /\ r = p
      BY <1>2, <1>4, <2>1, <2>2, <3>1
    <3>2. CASE ~(e = fd /\ r = p)
      <4>1. /\ b.hash[<<e, r>>] \in ToSet(b.list) \ {f}
            /\ b.frame[b.hash[<<e, r>>]].fd = e
            /\ b.frame[b.hash[<<e, r>>]].page = r
        BY <1>1, <2>2, <2>7, <3>2 DEF Holds
      <4> QED  BY <1>3, <2>1, <2>2, <3>2, <4>1
    <3> QED  BY <3>1, <3>2
  <2>8. \A g \in Frame : c.frame[g].fixed => g \in ToSet(c.list)
    BY <1>1, <1>2, <2>1, <2>2 DEF Holds
  <2>9. BufOK(c)
    BY <2>4, <2>6, <2>7, <2>8 DEF BufOK, Holds
  <2>10. Kept(b, c)
    BY <1>4, <2>2 DEF Kept
  <2>11. q.buf = c /\ q.disk = d /\ q.err = PFE_OK
    BY <1>6 DEF Outcome
  <2>12. c.hash[<<fd, p>>] = f /\ c.frame[f] = frame
    BY <1>4, <2>2
  <2>13. \A g \in ToSet(q.buf.list) \ {f} : g \in ToSet(b.list) /\ q.buf.frame[g] = b.frame[g]
    BY <1>3, <2>1, <2>2, <2>11
  <2>14. PFE_OK \in Codes
    BY DEF Codes, PFE_OK
  <2> QED  BY <1>2, <2>1, <2>9, <2>10, <2>11, <2>12, <2>13, <2>14 DEF f
<1>7. CASE q = Outcome(Abandon(a), d, PFE_NOMEM)
  <2>1. /\ a.list = b.list /\ a.free = b.free /\ a.num = b.num /\ a.hash = b.hash
        /\ a.frame = [b.frame EXCEPT ![f].fpage = frame.fpage]
    BY <1>1 DEF BufType
  <2>2. \A g \in Frame : /\ a.frame[g].fd = b.frame[g].fd
                         /\ a.frame[g].page = b.frame[g].page
                         /\ a.frame[g].fixed = b.frame[g].fixed
                         /\ g # f => a.frame[g] = b.frame[g]
    BY <1>1, <1>4, <2>1 DEF BufType, PFbpage
  <2>3. a \in BufType
    <3>1. b.frame \in [Frame -> PFbpage]
      BY <1>1 DEF BufType
    <3>2. [b.frame[f] EXCEPT !.fpage = frame.fpage] \in PFbpage
      BY <1>4, <3>1 DEF PFbpage
    <3>3. a.frame = [b.frame EXCEPT ![f] = [b.frame[f] EXCEPT !.fpage = frame.fpage]]
      BY <1>4, <2>1, <3>1
    <3>4. a.frame \in [Frame -> PFbpage]
      BY <1>4, <3>1, <3>2, <3>3
    <3> QED  BY <1>1, <2>1, <3>4 DEF BufType
  <2> HIDE DEF a
  <2>4. Pool(a, {})
    BY <1>1, <2>1, <2>3 DEF Pool
  <2>5. Holds(a, ToSet(a.list) \ {f})
    <3>1. \A g \in ToSet(b.list) \ {f} : g \in Frame
      BY <1>3
    <3> QED  BY <1>1, <2>1, <2>2, <3>1, SMTT(40) DEF Holds
  <2>6. Claimed(a)
    BY <1>1, <2>1, <2>4, <2>5 DEF Claimed, f
  <2>7. /\ BufOK(Abandon(a))
        /\ Abandon(a).frame = a.frame
        /\ ToSet(Abandon(a).list) = ToSet(b.list) \ {f}
    BY <2>1, <2>6, AbandonOK DEF f
  <2>8. Kept(b, Abandon(a))
    BY <1>4, <2>2, <2>7 DEF Kept
  <2>9. q.buf = Abandon(a) /\ q.disk = d /\ q.err = PFE_NOMEM
    BY <1>7 DEF Outcome
  <2> QED  BY <1>3, <2>2, <2>7, <2>8, <2>9 DEF f, Codes, PFE_NOMEM, PFE_OK
<1> QED
  BY <1>5, <1>6, <1>7

(* A read gives a page, and gives one without error only for a page number. *)
LEMMA ReadPage ==
    ASSUME NEW d \in DiskType, NEW fname \in Fname, NEW p \in Int, NEW old \in PFfpage,
           NEW r \in PFreadfcn(d, fname, p, old)
    PROVE  r.fpage \in PFfpage /\ r.err \in Codes /\ (r.err = PFE_OK => p \in PageNum)
<1>1. p \in PageNum => d[fname].page[p] \in PFfpage
  BY DEF DiskType, File
<1> QED
  BY <1>1 DEF PFreadfcn, Codes, PFE_OK, PFE_UNIX, PFE_INCOMPLETEREAD

(***************************************************************************)
(* What PFbufGet and PFbufAlloc promise: the page that was asked for is in *)
(* the pool, fixed now and not before, and nothing that was fixed moved.   *)
(***************************************************************************)
Served(fd, p, o) ==
    /\ o.disk \in DiskType
    /\ o.err \in Codes
    /\ BufOK(o.buf)
    /\ Kept(buf, o.buf)
    /\ Owners(buf, o.buf, fd)
    /\ o.err = PFE_OK =>
         /\ p \in PageNum
         /\ o.buf.hash[<<fd, p>>] \in ToSet(o.buf.list)
         /\ o.buf.frame[o.buf.hash[<<fd, p>>]].fixed
         /\ ~buf.frame[o.buf.hash[<<fd, p>>]].fixed

(* The same, for the part of them that follows the claim b of a frame. *)
LEMMA ClaimedEnter ==
    ASSUME BufOK(buf), NEW b, NEW d \in DiskType, Claimed(b),
           Same(buf, b, ToSet(b.list) \ {Head(b.list)}), Kept(buf, b),
           NEW fd \in FD, NEW p \in PageNum, buf.hash[<<fd, p>>] = NoFrame,
           NEW frame \in PFbpage, frame.fd = fd, frame.page = p, frame.fixed,
           NEW q \in Enter(Outcome(b, d, PFE_OK), fd, p, frame)
    PROVE  Served(fd, p, q)
<1>1. /\ b \in BufType /\ IsInjective(b.list) /\ b.list # << >>
      /\ Holds(b, ToSet(b.list) \ {Head(b.list)})
  BY DEF Claimed, Pool
<1>2. Head(b.list) \in ToSet(b.list) /\ ToSet(b.list) \subseteq Frame
  <2>1. Head(b.list) \in ToSet(b.list)
    BY <1>1, TailElements DEF BufType
  <2> QED  BY <1>1, <2>1 DEF BufType, ToSet
<1>3. buf \in BufType /\ Holds(buf, ToSet(buf.list))
  BY DEF BufOK, Pool
<1>4. b.hash[<<fd, p>>] = NoFrame
  <2>1. SUFFICES ASSUME b.hash[<<fd, p>>] # NoFrame PROVE FALSE
    OBVIOUS
  <2>2. PICK g \in ToSet(b.list) \ {Head(b.list)} : b.frame[g].fd = fd /\ b.frame[g].page = p
    BY <1>1, <2>1 DEF Holds
  <2>3. g \in ToSet(buf.list) /\ buf.frame[g] = b.frame[g] /\ g \in Frame
    BY <1>2, <2>2 DEF Same
  <2>4. buf.hash[<<fd, p>>] = g
    BY <1>3, <2>2, <2>3 DEF Holds
  <2> QED  BY <2>3, <2>4 DEF Frame, NoFrame
<1>5. ~b.frame[Head(b.list)].fixed /\ ~buf.frame[Head(b.list)].fixed
  BY <1>1, <1>2 DEF Holds, Kept
<1>6. /\ q.disk \in DiskType
      /\ q.err \in Codes
      /\ BufOK(q.buf)
      /\ Kept(b, q.buf)
      /\ \A g \in ToSet(q.buf.list) : \/ q.err = PFE_OK /\ g = Head(b.list)
                                     \/ /\ g # Head(b.list)
                                        /\ g \in ToSet(b.list)
                                        /\ q.buf.frame[g] = b.frame[g]
      /\ q.err = PFE_OK => /\ Head(b.list) \in ToSet(q.buf.list)
                           /\ q.buf.hash[<<fd, p>>] = Head(b.list)
                           /\ q.buf.frame[Head(b.list)] = frame
  BY <1>4, EnterOK
<1>7. Kept(buf, q.buf)
  BY <1>6 DEF Kept
<1>8. Owners(buf, q.buf, fd)
  BY <1>6 DEF Owners, Same
<1> QED
  BY <1>5, <1>6, <1>7, <1>8 DEF Served

LEMMA FailedAllocServed ==
    ASSUME BufOK(buf), disk \in DiskType, NEW fd \in FD, NEW p,
           NEW o \in PFbufInternalAlloc(fd), o.err # PFE_OK
    PROVE  Served(fd, p, o)
<1>1. o.disk \in DiskType /\ o.err \in Codes /\ o.buf = buf
  BY InternalAllocOK
<1> QED
  BY <1>1 DEF Served, Kept, Owners

LEMMA FetchOK ==
    ASSUME BufOK(buf), disk \in DiskType, PFftab \in FtabType,
           NEW fd \in FD, PFftab[fd].fname # NULL, NEW p \in Int,
           PFhashFind(buf, fd, p) = NoFrame,
           NEW o \in PFbufInternalAlloc(fd), o.err = PFE_OK,
           NEW q \in Fetch(o, fd, p)
    PROVE  Served(fd, p, q)
<1> DEFINE b   == o.buf
           old == b.frame[Head(b.list)].fpage
<1>1. /\ o.disk \in DiskType /\ Claimed(b) /\ Kept(buf, b)
      /\ Same(buf, b, ToSet(b.list) \ {Head(b.list)})
  BY InternalAllocOK
<1>2. old \in PFfpage
  <2>1. /\ b \in BufType /\ IsInjective(b.list) /\ b.list # << >>
    BY <1>1 DEF Claimed, Pool
  <2>2. Head(b.list) \in Frame
    <3>1. Head(b.list) \in ToSet(b.list)
      BY <2>1, TailElements DEF BufType
    <3> QED  BY <2>1, <3>1 DEF BufType, ToSet
  <2> QED  BY <2>1, <2>2 DEF BufType, PFbpage
<1>3. PFftab[fd].fname \in Fname
  BY DEF FtabType, PFftab_ele
<1>4. PICK r \in PFreadfcn(o.disk, PFftab[fd].fname, p, old) :
         q \in IF r.err # PFE_OK
               THEN {Outcome(Abandon(b), o.disk, r.err)}
               ELSE Enter(o, fd, p, [fd |-> fd, page |-> p, dirty |-> FALSE,
                                     fixed |-> TRUE, fpage |-> r.fpage])
  BY DEF Fetch
<1> HIDE DEF old
<1>5. r.fpage \in PFfpage /\ r.err \in Codes /\ (r.err = PFE_OK => p \in PageNum)
  BY <1>1, <1>2, <1>3, ReadPage
<1>6. CASE r.err # PFE_OK
  <2>1. q = Outcome(Abandon(b), o.disk, r.err)
    BY <1>4, <1>6
  <2>2. /\ BufOK(Abandon(b))
        /\ Abandon(b).frame = b.frame
        /\ ToSet(Abandon(b).list) = ToSet(b.list) \ {Head(b.list)}
    BY <1>1, AbandonOK
  <2>3. Kept(buf, Abandon(b)) /\ Owners(buf, Abandon(b), fd)
    BY <1>1, <2>2 DEF Kept, Owners, Same
  <2> QED  BY <1>1, <1>5, <1>6, <2>1, <2>2, <2>3 DEF Outcome, Served
<1>7. CASE r.err = PFE_OK
  <2> DEFINE frame == [fd |-> fd, page |-> p, dirty |-> FALSE,
                       fixed |-> TRUE, fpage |-> r.fpage]
  <2>1. p \in PageNum /\ buf.hash[<<fd, p>>] = NoFrame
    BY <1>5, <1>7 DEF PFhashFind
  <2>2. frame \in PFbpage /\ frame.fd = fd /\ frame.page = p /\ frame.fixed
    BY <1>5, <2>1 DEF PFbpage
  <2>3. q \in Enter(o, fd, p, frame)
    BY <1>4, <1>7
  <2> HIDE DEF frame
  <2>4. Enter(o, fd, p, frame) = Enter(Outcome(b, o.disk, PFE_OK), fd, p, frame)
    BY DEF Enter, Outcome
  <2> HIDE DEF b
  <2> QED  BY <1>1, <2>1, <2>2, <2>3, <2>4, ClaimedEnter
<1> QED
  BY <1>6, <1>7

(* A listed frame may change in all but the page it holds. *)
LEMMA EditOK ==
    ASSUME NEW b, BufOK(b), NEW f \in ToSet(b.list), NEW v \in PFbpage,
           v.fd = b.frame[f].fd, v.page = b.frame[f].page
    PROVE  LET c == [b EXCEPT !.frame[f] = v]
           IN  /\ BufOK(c)
               /\ f \in Frame
               /\ c.list = b.list /\ c.hash = b.hash
               /\ c.frame = [b.frame EXCEPT ![f] = v]
               /\ \A g \in Frame : c.frame[g] = IF g = f THEN v ELSE b.frame[g]
<1> DEFINE c == [b EXCEPT !.frame[f] = v]
<1>1. b \in BufType /\ Pool(b, {}) /\ Holds(b, ToSet(b.list))
  BY DEF BufOK, Pool
<1>2. ToSet(b.list) \subseteq Frame
  BY <1>1 DEF BufType, ToSet
<1>3. /\ c.list = b.list /\ c.free = b.free /\ c.num = b.num /\ c.hash = b.hash
      /\ c.frame = [b.frame EXCEPT ![f] = v]
      /\ c \in BufType
  BY <1>1, <1>2 DEF BufType
<1>4. \A g \in Frame : c.frame[g] = IF g = f THEN v ELSE b.frame[g]
  BY <1>1, <1>3 DEF BufType
<1> HIDE DEF c
<1>5. Pool(c, {})
  BY <1>1, <1>3 DEF Pool
<1>6. Holds(c, ToSet(c.list))
  <2>1. \A g \in Frame : c.frame[g].fd = b.frame[g].fd /\ c.frame[g].page = b.frame[g].page
    BY <1>4
  <2>2. \A g \in Frame : c.frame[g].fixed => g \in ToSet(c.list)
    BY <1>1, <1>3, <1>4 DEF Holds
  <2> QED  BY <1>1, <1>2, <1>3, <2>1, <2>2, SMTT(40) DEF Holds
<1> QED
  BY <1>2, <1>3, <1>4, <1>5, <1>6 DEF BufOK, c

(* The frame the hash table gives for a page is listed and holds the page. *)
LEMMA FindOK ==
    ASSUME NEW b, BufOK(b), NEW fd, NEW p, PFhashFind(b, fd, p) # NoFrame
    PROVE  LET f == PFhashFind(b, fd, p)
           IN  /\ fd \in FD /\ p \in PageNum
               /\ f = b.hash[<<fd, p>>]
               /\ f \in ToSet(b.list)
               /\ f \in Frame
               /\ b.frame[f] \in PFbpage
               /\ b.frame[f].fd = fd /\ b.frame[f].page = p
<1>1. fd \in FD /\ p \in PageNum /\ PFhashFind(b, fd, p) = b.hash[<<fd, p>>]
  BY DEF PFhashFind
<1>2. b \in BufType /\ Holds(b, ToSet(b.list))
  BY DEF BufOK, Pool
<1>3. ToSet(b.list) \subseteq Frame
  BY <1>2 DEF BufType, ToSet
<1> QED
  BY <1>1, <1>2, <1>3 DEF Holds, BufType

LEMMA GetOK ==
    ASSUME BufOK(buf), disk \in DiskType, PFftab \in FtabType,
           NEW fd \in FD, PFftab[fd].fname # NULL, NEW p \in Int,
           NEW o \in PFbufGet(fd, p)
    PROVE  Served(fd, p, o)
<1> DEFINE f == PFhashFind(buf, fd, p)
<1>1. CASE f = NoFrame
  <2>1. PICK a \in PFbufInternalAlloc(fd) : o \in IF a.err # PFE_OK THEN {a} ELSE Fetch(a, fd, p)
    BY <1>1 DEF PFbufGet
  <2>2. CASE a.err # PFE_OK
    BY <2>1, <2>2, FailedAllocServed
  <2>3. CASE a.err = PFE_OK
    BY <1>1, <2>1, <2>3, FetchOK
  <2> QED  BY <2>2, <2>3
<1>2. CASE f # NoFrame /\ buf.frame[f].fixed
  <2>1. o = Outcome(buf, disk, PFE_PAGEFIXED)
    BY <1>2 DEF PFbufGet
  <2> QED  BY <2>1 DEF Outcome, Served, Kept, Owners, Codes, PFE_OK, PFE_PAGEFIXED
<1>3. CASE f # NoFrame /\ ~buf.frame[f].fixed
  <2> DEFINE v == [buf.frame[f] EXCEPT !.fixed = TRUE]
             c == [buf EXCEPT !.frame[f] = v]
  <2>1. /\ p \in PageNum
        /\ f = buf.hash[<<fd, p>>]
        /\ f \in ToSet(buf.list) /\ f \in Frame
        /\ buf.frame[f] \in PFbpage
        /\ buf.frame[f].fd = fd /\ buf.frame[f].page = p
    BY <1>3, FindOK
  <2>2. o = Outcome(c, disk, PFE_OK)
    <3>1. [buf EXCEPT !.frame[f].fixed = TRUE] = c
      BY <2>1 DEF BufOK, Pool, BufType
    <3> QED  BY <1>3, <3>1 DEF PFbufGet
  <2> HIDE DEF f
  <2>3. /\ v \in PFbpage
        /\ v.fd = buf.frame[f].fd /\ v.page = buf.frame[f].page
        /\ v.fixed
    BY <2>1 DEF PFbpage
  <2> HIDE DEF v
  <2>4. /\ BufOK(c)
        /\ c.list = buf.list /\ c.hash = buf.hash
        /\ \A g \in Frame : c.frame[g] = IF g = f THEN v ELSE buf.frame[g]
    BY <2>1, <2>3, EditOK
  <2>5. o.buf = c /\ o.disk = disk /\ o.err = PFE_OK
    BY <2>2 DEF Outcome
  <2> HIDE DEF c
  <2>6. Kept(buf, c)
    BY <1>3, <2>4 DEF Kept, f
  <2>7. ToSet(buf.list) \subseteq Frame
    BY DEF BufOK, Pool, BufType, ToSet
  <2>8. Owners(buf, c, fd)
    BY <2>1, <2>3, <2>4, <2>7 DEF Owners
  <2>9. PFE_OK \in Codes
    BY DEF Codes, PFE_OK
  <2>10. ~buf.frame[f].fixed
    BY <1>3 DEF f
  <2> QED  BY <2>1, <2>3, <2>4, <2>5, <2>6, <2>8, <2>9, <2>10 DEF Served
<1> QED
  BY <1>1, <1>2, <1>3

LEMMA AllocOK ==
    ASSUME BufOK(buf), disk \in DiskType, NEW fd \in FD, NEW p \in PageNum,
           NEW q \in PFbufAlloc(fd, p)
    PROVE  Served(fd, p, q)
<1>1. CASE PFhashFind(buf, fd, p) # NoFrame
  <2>1. q = Outcome(buf, disk, PFE_PAGEINBUF)
    BY <1>1 DEF PFbufAlloc
  <2> QED  BY <2>1 DEF Outcome, Served, Kept, Owners, Codes, PFE_OK, PFE_PAGEINBUF
<1>2. CASE PFhashFind(buf, fd, p) = NoFrame
  <2>0. buf.hash[<<fd, p>>] = NoFrame
    BY <1>2 DEF PFhashFind
  <2>1. PICK o \in PFbufInternalAlloc(fd) :
          q \in IF o.err # PFE_OK THEN {o}
                ELSE Enter(o, fd, p,
                           [fd |-> fd, page |-> p, dirty |-> FALSE, fixed |-> TRUE,
                            fpage |-> o.buf.frame[Head(o.buf.list)].fpage])
    BY <1>2 DEF PFbufAlloc
  <2>2. CASE o.err # PFE_OK
    BY <2>1, <2>2, FailedAllocServed
  <2>3. CASE o.err = PFE_OK
    <3> DEFINE b     == o.buf
               frame == [fd |-> fd, page |-> p, dirty |-> FALSE, fixed |-> TRUE,
                         fpage |-> b.frame[Head(b.list)].fpage]
    <3>1. /\ o.disk \in DiskType /\ Claimed(b) /\ Kept(buf, b)
          /\ Same(buf, b, ToSet(b.list) \ {Head(b.list)})
      BY <2>3, InternalAllocOK
    <3>2. b \in BufType /\ IsInjective(b.list) /\ b.list # << >>
      BY <3>1 DEF Claimed, Pool
    <3>3. Head(b.list) \in Frame
      <4>1. Head(b.list) \in ToSet(b.list)
        BY <3>2, TailElements DEF BufType
      <4> QED  BY <3>2, <4>1 DEF BufType, ToSet
    <3>4. frame \in PFbpage /\ frame.fd = fd /\ frame.page = p /\ frame.fixed
      BY <3>2, <3>3 DEF BufType, PFbpage
    <3>5. q \in Enter(o, fd, p, frame)
      BY <2>1, <2>3
    <3> HIDE DEF frame
    <3>6. Enter(o, fd, p, frame) = Enter(Outcome(b, o.disk, PFE_OK), fd, p, frame)
      BY DEF Enter, Outcome
    <3> HIDE DEF b
    <3> QED  BY <2>0, <3>1, <3>4, <3>5, <3>6, ClaimedEnter
  <2> QED  BY <2>2, <2>3
<1> QED
  BY <1>1, <1>2

(* Unfixing a page changes its frame only, and the order of the list. *)
LEMMA UnfixOK ==
    ASSUME NEW b, BufOK(b), NEW fd, NEW p, PFhashFind(b, fd, p) # NoFrame,
           NEW dirty \in BOOLEAN
    PROVE  LET c == PFbufUnfix(b, fd, p, dirty)
               f == PFhashFind(b, fd, p)
           IN  /\ BufOK(c)
               /\ ToSet(c.list) = ToSet(b.list)
               /\ c.hash = b.hash
               /\ ~c.frame[f].fixed
               /\ c.frame[f].dirty <=> b.frame[f].dirty \/ dirty
               /\ c.frame[f].fpage = b.frame[f].fpage
               /\ \A g \in Frame : /\ c.frame[g].fd = b.frame[g].fd
                                   /\ g # PFhashFind(b, fd, p) => c.frame[g] = b.frame[g]
<1> DEFINE f == PFhashFind(b, fd, p)
           v == [b.frame[f] EXCEPT !.dirty = @ \/ dirty, !.fixed = FALSE]
           e == [b EXCEPT !.frame[f] = v]
           u == PFbufUnlink(e, f)
           c == PFbufLinkHead(u, f)
<1>1. f \in ToSet(b.list) /\ f \in Frame /\ b.frame[f] \in PFbpage
  BY FindOK
<1>2. PFbufUnfix(b, fd, p, dirty) = c
  <2>1. [b EXCEPT !.frame[f].dirty = @ \/ dirty, !.frame[f].fixed = FALSE] = e
    BY <1>1 DEF BufOK, Pool, BufType
  <2> QED  BY <2>1 DEF PFbufUnfix
<1> HIDE DEF f
<1>3. v \in PFbpage /\ v.fd = b.frame[f].fd /\ v.page = b.frame[f].page
  <2>1. (b.frame[f].dirty \/ dirty) \in BOOLEAN
    BY <1>1 DEF PFbpage
  <2> QED  BY <1>1, <2>1 DEF PFbpage
<1>10. /\ ~v.fixed
       /\ v.dirty <=> b.frame[f].dirty \/ dirty
       /\ v.fpage = b.frame[f].fpage
  BY <1>1 DEF PFbpage
<1> HIDE DEF v
<1>4. /\ BufOK(e)
      /\ e.list = b.list /\ e.hash = b.hash
      /\ \A g \in Frame : e.frame[g] = IF g = f THEN v ELSE b.frame[g]
  BY <1>1, <1>3, EditOK
<1> HIDE DEF e
<1>5. Pool(e, {}) /\ Holds(e, ToSet(e.list)) /\ f \in ToSet(e.list)
  BY <1>1, <1>4 DEF BufOK
<1>6. /\ Pool(u, {f})
      /\ ToSet(u.list) = ToSet(e.list) \ {f}
      /\ u.frame = e.frame /\ u.hash = e.hash
  BY <1>5, UnlinkPool
<1> HIDE DEF u
<1>7. /\ Pool(c, {})
      /\ ToSet(c.list) = ToSet(u.list) \cup {f}
      /\ c.frame = u.frame /\ c.hash = u.hash
  BY <1>1, <1>6, LinkHeadLists
<1> HIDE DEF c
<1>8. ToSet(c.list) = ToSet(e.list)
  BY <1>5, <1>6, <1>7
<1>9. Holds(c, ToSet(c.list))
  BY <1>5, <1>6, <1>7, <1>8 DEF Holds
<1>11. c.frame[f] = v
  BY <1>1, <1>4, <1>6, <1>7
<1> QED
  BY <1>2, <1>3, <1>4, <1>6, <1>7, <1>8, <1>9, <1>10, <1>11 DEF BufOK, f

(* The frame at place i of the list is released; those before it stay. *)
LEMMA ReleaseOK ==
    ASSUME BufOK(buf), disk \in DiskType, NEW i \in 1 .. Len(buf.list),
           ~buf.frame[buf.list[i]].fixed, NEW o \in ReleaseFrame(buf.list[i])
    PROVE  /\ o.disk \in DiskType
           /\ o.err \in Codes
           /\ BufOK(o.buf)
           /\ Kept(buf, o.buf)
           /\ ToSet(o.buf.list) \subseteq ToSet(buf.list)
           /\ \A g \in ToSet(o.buf.list) : o.buf.frame[g] = buf.frame[g]
           /\ \A j \in 1 .. i - 1 : j \in 1 .. Len(o.buf.list) /\ o.buf.list[j] = buf.list[j]
           /\ o.err # PFE_OK => o.buf = buf
<1> DEFINE f == buf.list[i]
           b == Evict(buf, f)
           c == PFbufInsertFree(b, f)
<1>1. buf \in BufType /\ IsInjective(buf.list)
  BY DEF BufOK, Pool
<1>2. f \in ToSet(buf.list) /\ f \in Frame
  BY <1>1 DEF ToSet, BufType
<1>3. PICK w \in Flush(f) : o = IF w.err = PFE_OK THEN Outcome(c, w.disk, PFE_OK)
                                               ELSE Outcome(buf, w.disk, w.err)
  BY DEF ReleaseFrame
<1>4. w.disk \in DiskType /\ w.err \in Codes
  BY <1>2, FlushDisk
<1>5. CASE w.err # PFE_OK
  <2>1. o.buf = buf /\ o.disk = w.disk /\ o.err = w.err
    BY <1>3, <1>5 DEF Outcome
  <2>2. \A j \in 1 .. i - 1 : j \in 1 .. Len(buf.list)
    BY <1>1 DEF BufType
  <2> QED  BY <1>4, <2>1, <2>2 DEF Kept
<1>6. CASE w.err = PFE_OK
  <2>1. o.buf = c /\ o.disk = w.disk /\ o.err = PFE_OK
    BY <1>3, <1>6 DEF Outcome
  <2>2. Position(buf.list, f) = i
    <3>1. \A j \in 1 .. Len(buf.list) : buf.list[j] = f => j = i
      BY <1>1 DEF IsInjective, BufType
    <3> QED  BY <3>1 DEF Position
  <2>3. b.list = RemoveAt(buf.list, i)
    BY <1>1, <2>2 DEF Evict, PFbufUnlink, PFhashDelete, BufType
  <2>4. \A j \in 1 .. i - 1 : j \in 1 .. Len(b.list) /\ b.list[j] = buf.list[j]
    <3>1. buf.list \in Seq(Frame) /\ Len(buf.list) \in Nat
      BY <1>1 DEF BufType
    <3> HIDE DEF f, b
    <3>2. /\ Len(b.list) = Len(buf.list) - 1
          /\ \A j \in 1 .. Len(buf.list) - 1 :
               b.list[j] = IF j < i THEN buf.list[j] ELSE buf.list[j + 1]
      BY <2>3, <3>1, RemoveAtElements
    <3> QED  BY <3>1, <3>2
  <2> HIDE DEF f
  <2>5. /\ Pool(b, {f})
        /\ Holds(b, ToSet(b.list))
        /\ ToSet(b.list) = ToSet(buf.list) \ {f}
    BY <1>2, EvictPool DEF f
  <2>6. \A g \in Frame \ {f} : b.frame[g] = buf.frame[g]
    BY <1>1, <1>2, EvictSame
  <2> HIDE DEF b
  <2>7. BufOK(c)
    BY <1>2, <2>5, InsertFreePool
  <2>8. c.list = b.list /\ c.frame = b.frame
    BY <2>5 DEF PFbufInsertFree, Pool, BufType
  <2> HIDE DEF c
  <2>9. ToSet(buf.list) \subseteq Frame
    BY <1>1 DEF BufType, ToSet
  <2>10. Kept(buf, c)
    BY <2>6, <2>8 DEF Kept, f
  <2> QED  BY <1>4, <1>6, <2>1, <2>4, <2>5, <2>6, <2>7, <2>8, <2>9, <2>10
<1> QED
  BY <1>5, <1>6

(***************************************************************************)
(* The inductive invariant.  The pool's own part, BufOK, is kept by each   *)
(* routine of buf.c; that a closed file leaves no page behind needs        *)
(* LoopsAreSound.                                                          *)
(***************************************************************************)
PFInv ==
    /\ PFTypeOK
    /\ FramesAccountedFor
    /\ HashListAgree
    /\ FixedAreListed
    /\ BufferedPagesOfOpenFiles
    /\ LoopsAreSound

LEMMA PFInvBufOK ==
    buf \in BufType => (BufOK(buf) <=> FramesAccountedFor /\ HashListAgree /\ FixedAreListed)
<1> SUFFICES ASSUME buf \in BufType
             PROVE  BufOK(buf) <=> FramesAccountedFor /\ HashListAgree /\ FixedAreListed
  OBVIOUS
<1>1. Pool(buf, {}) <=> FramesAccountedFor
  BY DEF Pool, FramesAccountedFor, Listed
<1>2. Holds(buf, ToSet(buf.list)) <=> HashListAgree /\ FixedAreListed
  <2>1. \A fp \in FD \X PageNum : fp = <<fp[1], fp[2]>> /\ fp[1] \in FD /\ fp[2] \in PageNum
    OBVIOUS
  <2>2. \A fd \in FD, p \in PageNum :
          <<fd, p>> \in FD \X PageNum /\ <<fd, p>>[1] = fd /\ <<fd, p>>[2] = p
    OBVIOUS
  <2>3. (\A fp \in FD \X PageNum :
           buf.hash[fp] # NoFrame =>
             /\ buf.hash[fp] \in Listed
             /\ buf.frame[buf.hash[fp]].fd = fp[1]
             /\ buf.frame[buf.hash[fp]].page = fp[2])
        <=>
        (\A fd \in FD, p \in PageNum :
           buf.hash[<<fd, p>>] # NoFrame =>
             /\ buf.hash[<<fd, p>>] \in Listed
             /\ buf.frame[buf.hash[<<fd, p>>]].fd = fd
             /\ buf.frame[buf.hash[<<fd, p>>]].page = p)
    BY <2>1, <2>2
  <2> QED  BY <2>3 DEF Holds, HashListAgree, FixedAreListed, Listed
<1> QED
  BY <1>1, <1>2 DEF BufOK

(* The invariant as the steps below use it. *)
Open(tab, fd) == tab[fd].fname # NULL

PagesOpen(tab, b) == \A f \in ToSet(b.list) : Open(tab, b.frame[f].fd)

LEMMA PFInvParts ==
    PFInv <=> /\ PFTypeOK
              /\ BufOK(buf)
              /\ PagesOpen(PFftab, buf)
              /\ LoopsAreSound
BY PFInvBufOK DEF PFInv, PFTypeOK, BufferedPagesOfOpenFiles, PagesOpen, Open, Listed

LEMMA PFInvPartsNext ==
    PFInv' <=> /\ PFTypeOK'
               /\ BufOK(buf')
               /\ PagesOpen(PFftab', buf')
               /\ LoopsAreSound'
<1>1. (PFInv <=> PFTypeOK /\ BufOK(buf) /\ PagesOpen(PFftab, buf) /\ LoopsAreSound)'
  BY PFInvParts, PTL
<1> QED
  BY <1>1

(* A call that ends leaves no loop to be sound. *)
LEMMA CallEnds ==
    ASSUME PFTypeOK, NEW code \in Int, NEW p \in PF_PAGE_USED .. MaxPages,
           ReturnPage(code, p), disk' \in DiskType, PFftab' \in FtabType,
           touched' \subseteq Frame, BufOK(buf'), PagesOpen(PFftab', buf')
    PROVE  PFInv'
<1>1. /\ ret' \in [code : Int, page : PF_PAGE_USED .. MaxPages]
      /\ PFerrno' \in Int
      /\ call' = NoCall
  BY DEF ReturnPage, PFTypeOK
<1>2. buf' \in BufType
  BY DEF BufOK, Pool
<1>3. PFTypeOK'
  BY <1>1, <1>2 DEF PFTypeOK, DiskType, FtabType, Call
<1>4. LoopsAreSound'
  BY <1>1 DEF LoopsAreSound, NoCall
<1> QED
  BY <1>3, <1>4, PFInvPartsNext

(* A frame that is fixed stays fixed, for the same page, and unwritten. *)
PinsKept(b, c) ==
    \A f \in Frame : b.frame[f].fixed => /\ c.frame[f].fixed
                                         /\ c.frame[f].fd = b.frame[f].fd
                                         /\ c.frame[f].page = b.frame[f].page
                                         /\ c.frame[f].fpage = b.frame[f].fpage

(* A call that fails before it does anything. *)
LEMMA FailStep ==
    ASSUME PFInv, NEW code \in Int, Fail(code)
    PROVE  PFInv' /\ PinsKept(buf, buf')
<1>1. PFTypeOK /\ BufOK(buf) /\ PagesOpen(PFftab, buf)
  BY PFInvParts
<1>2. -1 \in PF_PAGE_USED .. MaxPages
  BY PFAssumption DEF PF_PAGE_USED
<1>3. disk \in DiskType /\ PFftab \in FtabType /\ touched \subseteq Frame
  BY <1>1 DEF PFTypeOK, DiskType, FtabType
<1>4. ReturnPage(code, -1) /\ UNCHANGED <<disk, PFftab, buf, touched>>
  BY DEF Fail, Return
<1>5. PFInv'
  BY <1>1, <1>2, <1>3, <1>4, CallEnds
<1>6. PinsKept(buf, buf')
  BY <1>4 DEF PinsKept
<1> QED
  BY <1>5, <1>6

-----------------------------------------------------------------------------
(* A page that has just been got, and what pf.c does with it. *)

LEMMA GotPage ==
    ASSUME NEW fd \in FD, NEW p, NEW o, Served(fd, p, o), o.err = PFE_OK
    PROVE  LET f == PFhashFind(o.buf, fd, p)
           IN  /\ p \in PageNum
               /\ f # NoFrame /\ f \in Frame
               /\ f \in ToSet(o.buf.list)
               /\ o.buf.frame[f] \in PFbpage
               /\ ~buf.frame[f].fixed
<1>1. /\ p \in PageNum /\ BufOK(o.buf)
      /\ o.buf.hash[<<fd, p>>] \in ToSet(o.buf.list)
      /\ ~buf.frame[o.buf.hash[<<fd, p>>]].fixed
  BY DEF Served
<1>2. ToSet(o.buf.list) \subseteq Frame
  BY <1>1 DEF BufOK, Pool, BufType, ToSet
<1>3. PFhashFind(o.buf, fd, p) = o.buf.hash[<<fd, p>>]
  BY <1>1 DEF PFhashFind
<1>4. PFhashFind(o.buf, fd, p) # NoFrame
  BY <1>1, <1>2, <1>3 DEF Frame, NoFrame
<1> QED
  BY <1>1, <1>2, <1>3, <1>4 DEF BufOK, Pool, BufType

LEMMA ServedStep ==
    ASSUME PagesOpen(PFftab, buf), NEW fd \in FD, Open(PFftab, fd), NEW p, NEW o,
           Served(fd, p, o)
    PROVE  /\ BufOK(o.buf)
           /\ PagesOpen(PFftab, o.buf)
           /\ PinsKept(buf, o.buf)
           /\ o.disk \in DiskType
           /\ o.err \in Int
<1>1. BufOK(o.buf) /\ Kept(buf, o.buf) /\ Owners(buf, o.buf, fd) /\ o.disk \in DiskType /\ o.err \in Codes
  BY DEF Served
<1>2. PagesOpen(PFftab, o.buf)
  BY <1>1 DEF PagesOpen, Owners
<1>3. PinsKept(buf, o.buf)
  BY <1>1 DEF PinsKept, Kept
<1> QED
  BY <1>1, <1>2, <1>3 DEF Codes

(* ... it is unfixed again. *)
LEMMA GotUnfix ==
    ASSUME PagesOpen(PFftab, buf), NEW fd \in FD, Open(PFftab, fd), NEW p, NEW o,
           Served(fd, p, o), o.err = PFE_OK, NEW dirty \in BOOLEAN
    PROVE  LET c == PFbufUnfix(o.buf, fd, p, dirty)
           IN  BufOK(c) /\ PagesOpen(PFftab, c) /\ PinsKept(buf, c)
<1> DEFINE f == PFhashFind(o.buf, fd, p)
           c == PFbufUnfix(o.buf, fd, p, dirty)
<1>1. f # NoFrame /\ ~buf.frame[f].fixed
  BY GotPage
<1>2. BufOK(o.buf) /\ PagesOpen(PFftab, o.buf) /\ PinsKept(buf, o.buf)
  BY ServedStep
<1>3. /\ BufOK(c)
      /\ ToSet(c.list) = ToSet(o.buf.list)
      /\ \A g \in Frame : /\ c.frame[g].fd = o.buf.frame[g].fd
                          /\ g # f => c.frame[g] = o.buf.frame[g]
  BY <1>1, <1>2, UnfixOK
<1> HIDE DEF f, c
<1>4. ToSet(c.list) \subseteq Frame
  BY <1>3 DEF BufOK, Pool, BufType, ToSet
<1>5. PagesOpen(PFftab, c)
  <2>1. SUFFICES ASSUME NEW g \in ToSet(c.list) PROVE Open(PFftab, c.frame[g].fd)
    BY DEF PagesOpen
  <2>2. g \in ToSet(o.buf.list) /\ c.frame[g].fd = o.buf.frame[g].fd
    BY <1>3, <1>4, <2>1
  <2> QED  BY <1>2, <2>2 DEF PagesOpen
<1>6. PinsKept(buf, c)
  <2>1. SUFFICES ASSUME NEW g \in Frame, buf.frame[g].fixed
                 PROVE  /\ c.frame[g].fixed
                        /\ c.frame[g].fd = buf.frame[g].fd
                        /\ c.frame[g].page = buf.frame[g].page
                        /\ c.frame[g].fpage = buf.frame[g].fpage
    BY DEF PinsKept
  <2>2. c.frame[g] = o.buf.frame[g]
    BY <1>1, <1>3, <2>1
  <2> QED  BY <1>2, <2>1, <2>2 DEF PinsKept
<1> QED
  BY <1>3, <1>5, <1>6 DEF c

(* ... its frame is written. *)
LEMMA GotEdit ==
    ASSUME PagesOpen(PFftab, buf), NEW fd \in FD, Open(PFftab, fd), NEW p, NEW o,
           Served(fd, p, o), o.err = PFE_OK, NEW v \in PFbpage,
           v.fd = o.buf.frame[PFhashFind(o.buf, fd, p)].fd,
           v.page = o.buf.frame[PFhashFind(o.buf, fd, p)].page
    PROVE  LET c == [o.buf EXCEPT !.frame[PFhashFind(o.buf, fd, p)] = v]
           IN  /\ BufOK(c) /\ PagesOpen(PFftab, c) /\ PinsKept(buf, c)
               /\ PFhashFind(c, fd, p) = PFhashFind(o.buf, fd, p)
<1> DEFINE f == PFhashFind(o.buf, fd, p)
           c == [o.buf EXCEPT !.frame[f] = v]
<1>1. f \in ToSet(o.buf.list) /\ ~buf.frame[f].fixed
  BY GotPage
<1>2. BufOK(o.buf) /\ PagesOpen(PFftab, o.buf) /\ PinsKept(buf, o.buf)
  BY ServedStep
<1>3. v.fd = o.buf.frame[f].fd /\ v.page = o.buf.frame[f].page
  OBVIOUS
<1> HIDE DEF f
<1>4. /\ BufOK(c)
      /\ c.list = o.buf.list /\ c.hash = o.buf.hash
      /\ \A g \in Frame : c.frame[g] = IF g = f THEN v ELSE o.buf.frame[g]
  BY <1>1, <1>2, <1>3, EditOK
<1> HIDE DEF c
<1>5. ToSet(c.list) \subseteq Frame
  BY <1>4 DEF BufOK, Pool, BufType, ToSet
<1>6. PagesOpen(PFftab, c)
  BY <1>2, <1>3, <1>4, <1>5 DEF PagesOpen
<1>7. PinsKept(buf, c)
  BY <1>1, <1>2, <1>4 DEF PinsKept
<1>8. PFhashFind(c, fd, p) = PFhashFind(o.buf, fd, p)
  BY <1>4 DEF PFhashFind
<1> QED
  BY <1>4, <1>6, <1>7, <1>8 DEF c, f
(* ... a page that was used is put on the chain of free pages. *)
LEMMA GotFree ==
    ASSUME PFTypeOK, PagesOpen(PFftab, buf), NEW fd \in FD, Open(PFftab, fd), NEW p, NEW o,
           Served(fd, p, o), o.err = PFE_OK
    PROVE  LET c == Free(o.buf, fd, p)
           IN  BufOK(c) /\ PagesOpen(PFftab, c) /\ PinsKept(buf, c)
<1> DEFINE f == PFhashFind(o.buf, fd, p)
           v == [o.buf.frame[f] EXCEPT !.fpage.nextfree = PFftab[fd].hdr.firstfree]
           e == [o.buf EXCEPT !.frame[f] = v]
           yes == TRUE
           c == PFbufUnfix(e, fd, p, yes)
<1>1. /\ f # NoFrame /\ f \in Frame /\ ~buf.frame[f].fixed /\ o.buf.frame[f] \in PFbpage
      /\ o.buf.frame[f].fpage \in PFfpage
  BY GotPage DEF PFbpage
<1>2. [o.buf EXCEPT !.frame[f].fpage.nextfree = PFftab[fd].hdr.firstfree] = e
  <2>1. o.buf \in BufType
    BY ServedStep DEF BufOK, Pool
  <2> QED  BY <1>1, <2>1 DEF BufType
<1>3. Free(o.buf, fd, p) = c
  BY <1>2 DEF Free, yes
<1>4. v \in PFbpage /\ v.fd = o.buf.frame[f].fd /\ v.page = o.buf.frame[f].page
  <2>1. PFftab[fd].hdr.firstfree \in Link
    BY DEF PFTypeOK, PFftab_ele, PFhdr_str
  <2> QED  BY <1>1, <2>1 DEF PFbpage, PFfpage
<1> HIDE DEF v
<1>5. BufOK(e) /\ PagesOpen(PFftab, e) /\ PinsKept(buf, e) /\ PFhashFind(e, fd, p) = f
  BY <1>4, GotEdit
<1> HIDE DEF e, f
<1>10. yes \in BOOLEAN
  OBVIOUS
<1> HIDE DEF yes
<1>6. /\ BufOK(c)
      /\ ToSet(c.list) = ToSet(e.list)
      /\ \A g \in Frame : /\ c.frame[g].fd = e.frame[g].fd
                          /\ g # f => c.frame[g] = e.frame[g]
  BY <1>1, <1>5, <1>10, UnfixOK
<1> HIDE DEF c
<1>7. ToSet(c.list) \subseteq Frame
  BY <1>6 DEF BufOK, Pool, BufType, ToSet
<1>8. PagesOpen(PFftab, c)
  BY <1>5, <1>6, <1>7 DEF PagesOpen
<1>9. PinsKept(buf, c)
  BY <1>1, <1>5, <1>6 DEF PinsKept
<1> QED
  BY <1>3, <1>6, <1>8, <1>9

(* ... it is marked as used, by PF_AllocPage. *)
LEMMA GotMarkUsed ==
    ASSUME PagesOpen(PFftab, buf), NEW fd \in FD, Open(PFftab, fd), NEW p, NEW o,
           Served(fd, p, o), o.err = PFE_OK
    PROVE  LET c == MarkUsed(o.buf, fd, p)
           IN  BufOK(c) /\ PagesOpen(PFftab, c) /\ PinsKept(buf, c)
<1> DEFINE f == PFhashFind(o.buf, fd, p)
           v == [o.buf.frame[f] EXCEPT !.dirty = TRUE, !.fpage.nextfree = PF_PAGE_USED]
           e == [o.buf EXCEPT !.frame[f] = v]
           d == [o.buf EXCEPT !.frame[f].dirty = TRUE]
<1>1. /\ f # NoFrame /\ f \in Frame /\ o.buf.frame[f] \in PFbpage
      /\ o.buf.frame[f].fpage \in PFfpage
  BY GotPage DEF PFbpage
<1>2. o.buf \in BufType
  BY ServedStep DEF BufOK, Pool
<1>3. MarkUsed(o.buf, fd, p) = e
  <2>1. d.hash = o.buf.hash
    BY <1>2 DEF BufType
  <2>2. PFbufUsed(o.buf, fd, p) = d /\ PFhashFind(d, fd, p) = f
    BY <2>1 DEF PFbufUsed, PFhashFind
  <2>3. MarkUsed(o.buf, fd, p) = [d EXCEPT !.frame[f].fpage.nextfree = PF_PAGE_USED]
    BY <2>2 DEF MarkUsed
  <2> HIDE DEF f
  <2>4. [d EXCEPT !.frame[f].fpage.nextfree = PF_PAGE_USED] = e
    BY <1>1, <1>2 DEF BufType, PFbpage
  <2> QED  BY <2>3, <2>4
<1>4. v \in PFbpage /\ v.fd = o.buf.frame[f].fd /\ v.page = o.buf.frame[f].page
  BY <1>1 DEF PFbpage, PFfpage, Link
<1> HIDE DEF v
<1>5. BufOK(e) /\ PagesOpen(PFftab, e) /\ PinsKept(buf, e)
  BY <1>4, GotEdit
<1> QED
  BY <1>3, <1>5

-----------------------------------------------------------------------------
(* The actions, one lemma each. *)

LEMMA CodesAreIntegers ==
    /\ {PFE_OK, PFE_NOMEM, PFE_NOBUF, PFE_PAGEFIXED, PFE_PAGENOTINBUF, PFE_UNIX,
        PFE_INCOMPLETEREAD, PFE_INCOMPLETEWRITE, PFE_HDRREAD, PFE_HDRWRITE,
        PFE_INVALIDPAGE, PFE_FILEOPEN, PFE_FTABFULL, PFE_FD, PFE_EOF, PFE_PAGEFREE,
        PFE_PAGEUNFIXED, PFE_PAGEINBUF, PFE_HASHPAGEEXIST} \subseteq Int
    /\ -1 \in PF_PAGE_USED .. MaxPages
    /\ PageNum \subseteq PF_PAGE_USED .. MaxPages
    /\ Link \subseteq PF_PAGE_USED .. MaxPages
BY PFAssumption
   DEF PFE_OK, PFE_NOMEM, PFE_NOBUF, PFE_PAGEFIXED, PFE_PAGENOTINBUF, PFE_UNIX,
       PFE_INCOMPLETEREAD, PFE_INCOMPLETEWRITE, PFE_HDRREAD, PFE_HDRWRITE,
       PFE_INVALIDPAGE, PFE_FILEOPEN, PFE_FTABFULL, PFE_FD, PFE_EOF, PFE_PAGEFREE,
       PFE_PAGEUNFIXED, PFE_PAGEINBUF, PFE_HASHPAGEEXIST, PF_PAGE_USED,
       PF_PAGE_LIST_END, PageNum, Link

LEMMA ErrorsAreIntegers ==
    ASSUME NEW fd, NEW p
    PROVE  ArgumentError(fd, p) \in Int /\ NotFixedError(fd, p) \in Int
BY CodesAreIntegers DEF ArgumentError, NotFixedError, NotFixed

(* A call that ends and leaves the table of open files alone. *)
LEMMA CallEndsSameTable ==
    ASSUME PFInv, NEW code \in Int, Return(code), disk' \in DiskType,
           UNCHANGED PFftab, touched' \subseteq Frame, BufOK(buf'), PagesOpen(PFftab, buf')
    PROVE  PFInv'
<1>1. PFTypeOK
  BY DEF PFInv
<1>2. PFftab' \in FtabType /\ PagesOpen(PFftab', buf')
  BY <1>1 DEF PFTypeOK, FtabType
<1>3. ReturnPage(code, -1)
  BY DEF Return
<1> QED
  BY <1>1, <1>2, <1>3, CallEnds, CodesAreIntegers

(* An entry of the table changes; it is closed only if it has no page left. *)
LEMMA TableStep ==
    ASSUME PFTypeOK, NEW fd \in FD, NEW v \in PFftab_ele, NEW b, BufOK(b),
           PagesOpen(PFftab, b),
           v.fname # NULL \/ \A f \in ToSet(b.list) : b.frame[f].fd # fd
    PROVE  LET t == [PFftab EXCEPT ![fd] = v]
           IN  t \in FtabType /\ PagesOpen(t, b)
<1> DEFINE t == [PFftab EXCEPT ![fd] = v]
<1>1. PFftab \in [FD -> PFftab_ele]
  BY DEF PFTypeOK
<1>2. t \in FtabType /\ \A g \in FD : t[g] = IF g = fd THEN v ELSE PFftab[g]
  BY <1>1 DEF FtabType
<1>3. \A f \in ToSet(b.list) : b.frame[f].fd \in FD
  BY DEF BufOK, Pool, BufType, ToSet, PFbpage
<1> HIDE DEF t
<1>4. PagesOpen(t, b)
  BY <1>2, <1>3 DEF PagesOpen, Open
<1> QED
  BY <1>2, <1>4 DEF t

LEMMA CreateFileStep ==
    ASSUME PFInv, NEW fn \in Fname, PF_CreateFile(fn)
    PROVE  PFInv' /\ PinsKept(buf, buf')
<1>1. PFTypeOK /\ BufOK(buf) /\ PagesOpen(PFftab, buf)
  BY PFInvParts
<1>2. CASE Fail(PFE_UNIX) \/ \E code \in {PFE_UNIX, PFE_HDRWRITE} : Fail(code)
  BY <1>2, FailStep, CodesAreIntegers
<1>3. CASE /\ disk' = [disk EXCEPT ![fn] = EmptyFile(TRUE)]
           /\ Return(PFE_OK)
           /\ UNCHANGED <<PFftab, buf, touched>>
  <2>1. EmptyFile(TRUE) \in File
    BY PFAssumption DEF EmptyFile, File, EmptyHdr, PFhdr_str, Link, ZeroPage, PFfpage, PageNum
  <2>2. disk' \in DiskType
    BY <1>1, <1>3, <2>1 DEF PFTypeOK, DiskType
  <2>3. PFInv'
    BY <1>1, <1>3, <2>2, CallEndsSameTable, CodesAreIntegers DEF PFTypeOK
  <2> QED  BY <1>3, <2>3 DEF PinsKept
<1> QED
  BY <1>2, <1>3 DEF PF_CreateFile

LEMMA DestroyFileStep ==
    ASSUME PFInv, NEW fn \in Fname, PF_DestroyFile(fn)
    PROVE  PFInv' /\ PinsKept(buf, buf')
<1>1. PFTypeOK /\ BufOK(buf) /\ PagesOpen(PFftab, buf)
  BY PFInvParts
<1>2. CASE Fail(PFE_FILEOPEN) \/ Fail(PFE_UNIX)
  BY <1>2, FailStep, CodesAreIntegers
<1>3. CASE /\ disk' = [disk EXCEPT ![fn] = EmptyFile(FALSE)]
           /\ Return(PFE_OK)
           /\ UNCHANGED <<PFftab, buf, touched>>
  <2>1. EmptyFile(FALSE) \in File
    BY PFAssumption DEF EmptyFile, File, EmptyHdr, PFhdr_str, Link, ZeroPage, PFfpage, PageNum
  <2>2. disk' \in DiskType
    BY <1>1, <1>3, <2>1 DEF PFTypeOK, DiskType
  <2>3. PFInv'
    BY <1>1, <1>3, <2>2, CallEndsSameTable, CodesAreIntegers DEF PFTypeOK
  <2> QED  BY <1>3, <2>3 DEF PinsKept
<1> QED
  BY <1>2, <1>3 DEF PF_DestroyFile

LEMMA OpenFileStep ==
    ASSUME PFInv, NEW fn \in Fname, NEW strategy \in PF_Strategy, PF_OpenFile(fn, strategy)
    PROVE  PFInv' /\ PinsKept(buf, buf')
<1>1. PFTypeOK /\ BufOK(buf) /\ PagesOpen(PFftab, buf)
  BY PFInvParts
<1>2. disk[fn].hdr \in PFhdr_str /\ PFftab \in [FD -> PFftab_ele]
  BY <1>1 DEF PFTypeOK, File
<1>3. CASE Fail(PFE_FTABFULL) \/ Fail(PFE_UNIX) \/ \E code \in {PFE_UNIX, PFE_HDRREAD} : Fail(code)
  BY <1>3, FailStep, CodesAreIntegers
<1>4. ASSUME NEW fd \in FD, PFftab[fd].fname = NULL,
             NEW v \in PFftab_ele, NEW code \in Int,
             PFftab' = [PFftab EXCEPT ![fd] = v],
             Return(code), UNCHANGED <<disk, buf, touched>>
      PROVE  PFInv' /\ PinsKept(buf, buf')
  <2>1. \A f \in ToSet(buf.list) : buf.frame[f].fd # fd
    BY <1>1, <1>4 DEF PagesOpen, Open
  <2>2. PFftab' \in FtabType /\ PagesOpen(PFftab', buf)
    BY <1>1, <1>4, <2>1, TableStep
  <2>3. disk' \in DiskType /\ touched' \subseteq Frame /\ BufOK(buf') /\ PagesOpen(PFftab', buf')
    BY <1>1, <1>4, <2>2 DEF PFTypeOK, DiskType
  <2>4. ReturnPage(code, -1)
    BY <1>4 DEF Return
  <2>5. PFInv'
    BY <1>1, <2>2, <2>3, <2>4, CallEnds, CodesAreIntegers
  <2> QED  BY <1>4, <2>5 DEF PinsKept
<1>5. CASE \E fd \in PFftabFindFree :
            /\ PFftab' = [PFftab EXCEPT ![fd] = [fname |-> fn, hdr |-> disk[fn].hdr,
                                                 hdrchanged |-> FALSE, strategy |-> strategy]]
            /\ Return(fd)
            /\ UNCHANGED <<disk, buf, touched>>
  <2> DEFINE v == [fname |-> fn, hdr |-> disk[fn].hdr,
                   hdrchanged |-> FALSE, strategy |-> strategy]
  <2>1. PICK fd \in FD : /\ PFftab[fd].fname = NULL
                         /\ PFftab' = [PFftab EXCEPT ![fd] = v]
                         /\ Return(fd)
                         /\ UNCHANGED <<disk, buf, touched>>
    BY <1>5 DEF PFftabFindFree, PFinvalidFd
  <2>2. v \in PFftab_ele
    BY <1>2, PFAssumption DEF PFftab_ele
  <2>3. fd \in Int
    BY PFAssumption DEF FD
  <2> HIDE DEF v
  <2> QED  BY <1>4, <2>1, <2>2, <2>3
<1>6. CASE \E fd \in PFftabFindFree :
            /\ PFftab' = [PFftab EXCEPT ![fd].hdr = disk[fn].hdr, ![fd].hdrchanged = FALSE]
            /\ Return(PFE_NOMEM)
            /\ UNCHANGED <<disk, buf, touched>>
  <2>1. PICK fd \in FD : /\ PFftab[fd].fname = NULL
                         /\ PFftab' = [PFftab EXCEPT ![fd].hdr = disk[fn].hdr,
                                                     ![fd].hdrchanged = FALSE]
                         /\ Return(PFE_NOMEM)
                         /\ UNCHANGED <<disk, buf, touched>>
    BY <1>6 DEF PFftabFindFree, PFinvalidFd
  <2> DEFINE v == [PFftab[fd] EXCEPT !.hdr = disk[fn].hdr, !.hdrchanged = FALSE]
  <2>2. v \in PFftab_ele
    BY <1>2 DEF PFftab_ele
  <2>3. PFftab' = [PFftab EXCEPT ![fd] = v]
    BY <1>2, <2>1
  <2> HIDE DEF v
  <2> QED  BY <1>4, <2>1, <2>2, <2>3, CodesAreIntegers
<1> QED
  BY <1>3, <1>5, <1>6 DEF PF_OpenFile

LEMMA CloseFileStep ==
    ASSUME PFInv, NEW fd \in FD, PF_CloseFile(fd)
    PROVE  PFInv' /\ PinsKept(buf, buf')
<1>1. PFTypeOK /\ BufOK(buf) /\ PagesOpen(PFftab, buf)
  BY PFInvParts
<1>2. CASE Fail(PFE_FD)
  BY <1>2, FailStep, CodesAreIntegers
<1>3. CASE /\ ~PFinvalidFd(fd)
           /\ call' = [op |-> "close", fd |-> fd, at |-> 1]
           /\ UNCHANGED <<disk, PFftab, buf, ret, PFerrno, touched>>
  <2>1. call' \in Call
    BY <1>3 DEF Call
  <2>2. PFTypeOK'
    BY <1>1, <1>3, <2>1 DEF PFTypeOK
  <2>3. LoopsAreSound'
    <3>1. \A i \in 1 .. Len(buf.list) : ~(i < 1)
      OBVIOUS
    <3> QED  BY <1>3, <3>1 DEF LoopsAreSound, PFinvalidFd
  <2>4. PFInv'
    BY <1>1, <1>3, <2>2, <2>3, PFInvPartsNext
  <2> QED  BY <1>3, <2>4 DEF PinsKept
<1> QED
  BY <1>2, <1>3 DEF PF_CloseFile

LEMMA ReleaseFileStep ==
    ASSUME PFInv, PFbufReleaseFile
    PROVE  PFInv' /\ PinsKept(buf, buf')
<1>1. PFTypeOK /\ BufOK(buf) /\ PagesOpen(PFftab, buf) /\ LoopsAreSound
  BY PFInvParts
<1>2. call \in [op : {"close"}, fd : FD, at : Nat \ {0}]
  BY <1>1 DEF PFbufReleaseFile, PFTypeOK, Call, NoCall
<1> DEFINE n == call.at
           f == buf.list[n]
<1>3. n \in Nat \ {0} /\ n <= Len(buf.list) /\ n \in 1 .. Len(buf.list) /\ Len(buf.list) \in Nat
  BY <1>1, <1>2 DEF PFbufReleaseFile, PFTypeOK, BufType
<1>4. CASE /\ buf.frame[f].fd # call.fd
           /\ Advance
           /\ UNCHANGED <<disk, PFftab, buf, touched>>
  <2>1. call' \in Call /\ call'.op = "close" /\ call'.fd = call.fd /\ call'.at = n + 1
    BY <1>2, <1>4 DEF Advance, Call
  <2>2. PFTypeOK'
    BY <1>1, <1>4, <2>1 DEF Advance, PFTypeOK
  <2>3. LoopsAreSound'
    <3>1. \A i \in 1 .. Len(buf.list) : i < n + 1 => i < n \/ i = n
      BY <1>3
    <3> QED  BY <1>1, <1>2, <1>4, <2>1, <3>1 DEF LoopsAreSound
  <2>4. PFInv'
    BY <1>1, <1>4, <2>2, <2>3, PFInvPartsNext
  <2> QED  BY <1>4, <2>4 DEF PinsKept
<1>5. CASE Fail(PFE_PAGEFIXED)
  BY <1>5, FailStep, CodesAreIntegers
<1>6. CASE /\ ~buf.frame[f].fixed
           /\ \E o \in ReleaseFrame(f) : Apply(o) /\ Released(o)
           /\ UNCHANGED <<PFftab, touched>>
  <2>1. PICK o \in ReleaseFrame(f) :
           /\ buf' = o.buf /\ disk' = o.disk
           /\ IF o.err = PFE_OK THEN UNCHANGED <<call, ret, PFerrno>> ELSE Return(o.err)
    BY <1>6 DEF Apply, Released
  <2>2. disk \in DiskType
    BY <1>1 DEF PFTypeOK, DiskType
  <2>3. /\ o.disk \in DiskType
        /\ o.err \in Codes
        /\ BufOK(o.buf)
        /\ Kept(buf, o.buf)
        /\ ToSet(o.buf.list) \subseteq ToSet(buf.list)
        /\ \A g \in ToSet(o.buf.list) : o.buf.frame[g] = buf.frame[g]
        /\ \A j \in 1 .. n - 1 : j \in 1 .. Len(o.buf.list) /\ o.buf.list[j] = buf.list[j]
    BY <1>1, <1>3, <1>6, <2>1, <2>2, ReleaseOK
  <2> HIDE DEF f
  <2>4. PinsKept(buf, buf')
    BY <2>1, <2>3 DEF PinsKept, Kept
  <2>5. PagesOpen(PFftab, buf')
    BY <1>1, <2>1, <2>3 DEF PagesOpen
  <2>6. BufOK(buf') /\ disk' \in DiskType /\ touched' \subseteq Frame /\ UNCHANGED PFftab
    BY <1>1, <1>6, <2>1, <2>3 DEF PFTypeOK
  <2>7. CASE o.err = PFE_OK
    <3>1. PFTypeOK'
      BY <1>1, <2>1, <2>6, <2>7 DEF PFTypeOK, DiskType, BufOK, Pool
    <3>2. LoopsAreSound'
      <4>1. UNCHANGED <<call, PFftab>>
        BY <2>1, <2>6, <2>7
      <4>2. ASSUME NEW i \in 1 .. Len(o.buf.list), i < n
            PROVE  o.buf.frame[o.buf.list[i]].fd # call.fd
        <5>1. i \in 1 .. n - 1 /\ i \in 1 .. Len(buf.list)
          BY <1>3, <4>2
        <5>2. o.buf.list[i] = buf.list[i] /\ o.buf.list[i] \in ToSet(o.buf.list)
          BY <2>3, <4>2, <5>1 DEF ToSet, BufOK, Pool, BufType
        <5>3. o.buf.frame[o.buf.list[i]] = buf.frame[buf.list[i]]
          BY <2>3, <5>2
        <5> QED  BY <1>1, <1>2, <4>2, <5>1, <5>3 DEF LoopsAreSound
      <4> QED  BY <1>1, <1>2, <2>1, <4>1, <4>2 DEF LoopsAreSound
    <3> QED  BY <2>4, <2>5, <2>6, <3>1, <3>2, PFInvPartsNext
  <2>8. CASE o.err # PFE_OK
    <3>1. Return(o.err) /\ o.err \in Int
      BY <2>1, <2>3, <2>8 DEF Codes
    <3> QED  BY <2>4, <2>5, <2>6, <3>1, CallEndsSameTable
  <2> QED  BY <2>7, <2>8
<1> QED
  BY <1>4, <1>5, <1>6 DEF PFbufReleaseFile

LEMMA FinishCloseStep ==
    ASSUME PFInv, FinishClose
    PROVE  PFInv' /\ PinsKept(buf, buf')
<1>1. PFTypeOK /\ BufOK(buf) /\ PagesOpen(PFftab, buf) /\ LoopsAreSound
  BY PFInvParts
<1>2. call \in [op : {"close"}, fd : FD, at : Nat \ {0}] /\ call.at > Len(buf.list)
  BY <1>1 DEF FinishClose, PFTypeOK, Call, NoCall
<1> DEFINE fd == call.fd
           v  == [PFftab[fd] EXCEPT !.fname = NULL, !.hdrchanged = FALSE]
<1>3. CASE \E code \in {PFE_UNIX, PFE_HDRWRITE} : Fail(code)
  BY <1>3, FailStep, CodesAreIntegers
<1>4. CASE /\ disk' = IF PFftab[fd].hdrchanged
                      THEN [disk EXCEPT ![PFftab[fd].fname].hdr = PFftab[fd].hdr]
                      ELSE disk
           /\ PFftab' = [PFftab EXCEPT ![fd].fname = NULL, ![fd].hdrchanged = FALSE]
           /\ Return(PFE_OK)
           /\ UNCHANGED <<buf, touched>>
  <2>1. PFftab \in [FD -> PFftab_ele] /\ fd \in FD /\ PFftab[fd] \in PFftab_ele
    BY <1>1, <1>2 DEF PFTypeOK
  <2>2. v \in PFftab_ele
    BY <2>1 DEF PFftab_ele
  <2>3. PFftab' = [PFftab EXCEPT ![fd] = v]
    BY <1>4, <2>1
  <2>4. disk' \in DiskType
    <3>1. PFftab[fd].hdr \in PFhdr_str
      BY <2>1 DEF PFftab_ele
    <3>2. \A fn \in Fname : [disk[fn] EXCEPT !.hdr = PFftab[fd].hdr] \in File
      BY <1>1, <3>1 DEF PFTypeOK, File
    <3> QED  BY <1>1, <1>4, <3>2 DEF PFTypeOK, DiskType
  <2>5. \A f \in ToSet(buf.list) : buf.frame[f].fd # fd
    <3>1. SUFFICES ASSUME NEW f \in ToSet(buf.list) PROVE buf.frame[f].fd # fd
      OBVIOUS
    <3>2. PICK i \in 1 .. Len(buf.list) : f = buf.list[i]
      BY <1>1 DEF ToSet, PFTypeOK, BufType
    <3>3. i < call.at
      BY <1>1, <1>2, <3>2 DEF PFTypeOK, BufType
    <3> QED  BY <1>1, <1>2, <3>2, <3>3 DEF LoopsAreSound
  <2> HIDE DEF v, fd
  <2>6. PFftab' \in FtabType /\ PagesOpen(PFftab', buf)
    BY <1>1, <2>1, <2>2, <2>3, <2>5, TableStep
  <2>7. ReturnPage(PFE_OK, -1) /\ BufOK(buf') /\ PagesOpen(PFftab', buf') /\ touched' \subseteq Frame
    BY <1>1, <1>4, <2>6 DEF Return, PFTypeOK
  <2>8. PFInv'
    BY <1>1, <2>4, <2>6, <2>7, CallEnds, CodesAreIntegers
  <2> QED  BY <1>4, <2>8 DEF PinsKept
<1> QED
  BY <1>3, <1>4 DEF FinishClose

(* What the steps over a page that was asked for have in common. *)
LEMMA GetStep ==
    ASSUME PFInv, NEW fd \in FD, ~PFinvalidFd(fd), NEW p \in Int, NEW o \in PFbufGet(fd, p)
    PROVE  /\ PFTypeOK /\ PagesOpen(PFftab, buf) /\ Open(PFftab, fd)
           /\ Served(fd, p, o)
           /\ o.err \in Int /\ o.disk \in DiskType
           /\ BufOK(o.buf) /\ PagesOpen(PFftab, o.buf) /\ PinsKept(buf, o.buf)
<1>1. PFTypeOK /\ BufOK(buf) /\ PagesOpen(PFftab, buf) /\ Open(PFftab, fd)
  BY PFInvParts DEF PFinvalidFd, Open
<1>2. Served(fd, p, o)
  BY <1>1, GetOK DEF PFTypeOK, DiskType, FtabType, Open
<1> QED
  BY <1>1, <1>2, ServedStep

LEMMA GetNextPageStep ==
    ASSUME PFInv, NEW fd \in FD, NEW pagenum \in Int, PF_GetNextPage(fd, pagenum)
    PROVE  PFInv' /\ PinsKept(buf, buf')
<1>1. PFTypeOK /\ BufOK(buf) /\ PagesOpen(PFftab, buf)
  BY PFInvParts
<1>2. CASE Fail(PFE_FD) \/ Fail(PFE_INVALIDPAGE)
  BY <1>2, FailStep, CodesAreIntegers
<1>3. CASE /\ ~PFinvalidFd(fd)
           /\ ~InvalidStart(fd, pagenum)
           /\ call' = [op |-> "next", fd |-> fd, at |-> pagenum + 1]
           /\ UNCHANGED <<disk, PFftab, buf, ret, PFerrno, touched>>
  <2>1. PFftab[fd].hdr.numpages \in 0 .. MaxPages
    BY <1>1 DEF PFTypeOK, PFftab_ele, PFhdr_str
  <2>2. pagenum + 1 \in 0 .. MaxPages
    BY <1>3, <2>1, PFAssumption DEF InvalidStart
  <2>3. call' \in Call
    BY <1>3, <2>2 DEF Call
  <2>4. PFTypeOK'
    BY <1>1, <1>3, <2>3 DEF PFTypeOK
  <2>5. LoopsAreSound'
    BY <1>3 DEF LoopsAreSound, PFinvalidFd
  <2>6. PFInv'
    BY <1>1, <1>3, <2>4, <2>5, PFInvPartsNext
  <2> QED  BY <1>3, <2>6 DEF PinsKept
<1> QED
  BY <1>2, <1>3 DEF PF_GetNextPage

LEMMA NextPageStepStep ==
    ASSUME PFInv, NextPageStep
    PROVE  PFInv' /\ PinsKept(buf, buf')
<1>1. PFTypeOK /\ LoopsAreSound
  BY PFInvParts
<1>2. call \in [op : {"next"}, fd : FD, at : 0 .. MaxPages]
  BY <1>1 DEF NextPageStep, PFTypeOK, Call, NoCall
<1> DEFINE fd == call.fd
           p  == call.at
<1>3. fd \in FD /\ p \in Int /\ p \in 0 .. MaxPages /\ ~PFinvalidFd(fd)
  BY <1>1, <1>2 DEF LoopsAreSound, PFinvalidFd
<1>4. p < MaxPages
  <2>1. PFftab[fd].hdr.numpages \in 0 .. MaxPages
    BY <1>1, <1>3 DEF PFTypeOK, PFftab_ele, PFhdr_str
  <2> QED  BY <1>3, <2>1, PFAssumption DEF NextPageStep
<1>5. PICK o \in PFbufGet(fd, p) :
        /\ disk' = o.disk
        /\ \/ /\ o.err # PFE_OK
              /\ buf' = o.buf
              /\ Return(o.err)
           \/ /\ o.err = PFE_OK
              /\ buf' = o.buf
              /\ ReturnPage(PFE_OK, p)
           \/ /\ o.err = PFE_OK
              /\ buf' = PFbufUnfix(o.buf, fd, p, FALSE)
              /\ call' = [call EXCEPT !.at = @ + 1]
              /\ UNCHANGED <<ret, PFerrno>>
  BY DEF NextPageStep, Advance
<1>6. UNCHANGED <<PFftab, touched>> /\ touched' \subseteq Frame /\ PFftab \in FtabType
  BY <1>1 DEF NextPageStep, PFTypeOK, FtabType
<1> HIDE DEF fd, p
<1>7. /\ PagesOpen(PFftab, buf) /\ Open(PFftab, fd)
      /\ Served(fd, p, o)
      /\ o.err \in Int /\ o.disk \in DiskType
      /\ BufOK(o.buf) /\ PagesOpen(PFftab, o.buf) /\ PinsKept(buf, o.buf)
  BY <1>3, GetStep
<1>8. CASE o.err # PFE_OK /\ buf' = o.buf /\ Return(o.err)
  BY <1>5, <1>6, <1>7, <1>8, CallEndsSameTable
<1>9. CASE buf' = o.buf /\ ReturnPage(PFE_OK, p)
  <2>1. p \in PF_PAGE_USED .. MaxPages
    BY <1>3, PFAssumption DEF PF_PAGE_USED
  <2> QED  BY <1>1, <1>5, <1>6, <1>7, <1>9, <2>1, CallEnds, CodesAreIntegers
<1>10. CASE /\ o.err = PFE_OK
            /\ buf' = PFbufUnfix(o.buf, fd, p, FALSE)
            /\ call' = [call EXCEPT !.at = @ + 1]
            /\ UNCHANGED <<ret, PFerrno>>
  <2>1. BufOK(buf') /\ PagesOpen(PFftab, buf') /\ PinsKept(buf, buf')
    BY <1>3, <1>7, <1>10, GotUnfix
  <2>2. call' \in Call /\ call'.op = "next" /\ call'.fd = fd
    <3>1. p + 1 \in 0 .. MaxPages
      BY <1>3, <1>4, PFAssumption
    <3>2. call' = [call EXCEPT !.at = p + 1]
      BY <1>10 DEF p
    <3>3. call' \in [op : {"next"}, fd : FD, at : 0 .. MaxPages] /\ call'.fd = fd
      BY <1>2, <3>1, <3>2 DEF fd
    <3> QED  BY <3>3 DEF Call
  <2>3. PFTypeOK'
    BY <1>1, <1>5, <1>6, <1>7, <1>10, <2>1, <2>2 DEF PFTypeOK, DiskType, BufOK, Pool
  <2>4. LoopsAreSound'
    BY <1>6, <1>7, <2>2 DEF LoopsAreSound, Open
  <2> QED  BY <1>6, <2>1, <2>3, <2>4, PFInvPartsNext
<1> QED
  BY <1>5, <1>8, <1>9, <1>10

LEMMA GetThisPageStep ==
    ASSUME PFInv, NEW fd \in FD, NEW p \in PageNum, PF_GetThisPage(fd, p)
    PROVE  PFInv' /\ PinsKept(buf, buf')
<1>1. CASE Fail(ArgumentError(fd, p))
  BY <1>1, FailStep, ErrorsAreIntegers
<1>2. CASE /\ ArgumentError(fd, p) = PFE_OK
           /\ \E o \in PFbufGet(fd, p) :
                /\ disk' = o.disk
                /\ \/ buf' = o.buf /\ (Return(o.err) \/ Return(PFE_OK))
                   \/ /\ o.err = PFE_OK
                      /\ buf' = PFbufUnfix(o.buf, fd, p, FALSE)
                      /\ Return(PFE_INVALIDPAGE)
           /\ UNCHANGED <<PFftab, touched>>
  <2>1. ~PFinvalidFd(fd) /\ p \in Int
    BY <1>2 DEF ArgumentError, PFE_FD, PFE_OK, PageNum
  <2>2. PICK o \in PFbufGet(fd, p) :
           /\ disk' = o.disk
           /\ \/ buf' = o.buf /\ (Return(o.err) \/ Return(PFE_OK))
              \/ /\ o.err = PFE_OK
                 /\ buf' = PFbufUnfix(o.buf, fd, p, FALSE)
                 /\ Return(PFE_INVALIDPAGE)
    BY <1>2
  <2>3. /\ PFTypeOK /\ PagesOpen(PFftab, buf) /\ Open(PFftab, fd)
        /\ Served(fd, p, o)
        /\ o.err \in Int /\ o.disk \in DiskType
        /\ BufOK(o.buf) /\ PagesOpen(PFftab, o.buf) /\ PinsKept(buf, o.buf)
    BY <2>1, GetStep
  <2>4. touched' \subseteq Frame
    BY <1>2, <2>3 DEF PFTypeOK
  <2>5. BufOK(buf') /\ PagesOpen(PFftab, buf') /\ PinsKept(buf, buf')
    <3>1. CASE buf' = o.buf
      BY <2>3, <3>1
    <3>2. CASE o.err = PFE_OK /\ buf' = PFbufUnfix(o.buf, fd, p, FALSE)
      BY <2>3, <3>2, GotUnfix
    <3> QED  BY <2>2, <3>1, <3>2
  <2> QED  BY <1>2, <2>2, <2>3, <2>4, <2>5, CallEndsSameTable, CodesAreIntegers
<1> QED
  BY <1>1, <1>2 DEF PF_GetThisPage

LEMMA EndOfFileStep ==
    ASSUME PFInv, EndOfFile
    PROVE  PFInv' /\ PinsKept(buf, buf')
BY FailStep, CodesAreIntegers DEF EndOfFile

(* A page is given out and its number returned; entry fd becomes v. *)
LEMMA AllocEnds ==
    ASSUME PFInv, NEW fd \in FD, Open(PFftab, fd), NEW o, NEW p \in Link, Served(fd, p, o),
           NEW v \in PFftab_ele, v.fname = PFftab[fd].fname, touched' = touched,
           disk' = o.disk,
           \/ /\ o.err # PFE_OK
              /\ buf' = o.buf /\ PFftab' = PFftab /\ ReturnPage(o.err, p)
           \/ /\ o.err = PFE_OK
              /\ buf' = MarkUsed(o.buf, fd, p)
              /\ PFftab' = [PFftab EXCEPT ![fd] = v]
              /\ ReturnPage(PFE_OK, p)
    PROVE  PFInv' /\ PinsKept(buf, buf')
<1>1. PFTypeOK /\ PagesOpen(PFftab, buf)
  BY PFInvParts
<1>2. /\ BufOK(o.buf) /\ PagesOpen(PFftab, o.buf) /\ PinsKept(buf, o.buf)
      /\ o.disk \in DiskType /\ o.err \in Int
  BY <1>1, ServedStep
<1>3. touched' \subseteq Frame /\ PFftab \in FtabType /\ p \in PF_PAGE_USED .. MaxPages
  BY <1>1, CodesAreIntegers DEF PFTypeOK, FtabType
<1>4. CASE o.err # PFE_OK /\ buf' = o.buf /\ PFftab' = PFftab /\ ReturnPage(o.err, p)
  BY <1>1, <1>2, <1>3, <1>4, CallEnds
<1>5. CASE /\ o.err = PFE_OK
           /\ buf' = MarkUsed(o.buf, fd, p)
           /\ PFftab' = [PFftab EXCEPT ![fd] = v]
           /\ ReturnPage(PFE_OK, p)
  <2>1. BufOK(buf') /\ PagesOpen(PFftab, buf') /\ PinsKept(buf, buf')
    BY <1>1, <1>5, GotMarkUsed
  <2>2. PFftab' \in FtabType /\ PagesOpen(PFftab', buf')
    BY <1>1, <1>5, <2>1, TableStep DEF Open
  <2> QED  BY <1>1, <1>2, <1>3, <1>5, <2>1, <2>2, CallEnds, CodesAreIntegers
<1> QED
  BY <1>4, <1>5

(* A change of header changes one entry of the table, and not its name. *)
LEMMA HeaderChange ==
    ASSUME PFftab \in FtabType, NEW fd \in FD, NEW hdr \in PFhdr_str
    PROVE  LET v == [PFftab[fd] EXCEPT !.hdr = hdr, !.hdrchanged = TRUE]
           IN  /\ v \in PFftab_ele /\ v.fname = PFftab[fd].fname
               /\ ChangeHdr(fd, hdr) = [PFftab EXCEPT ![fd] = v]
  BY DEF ChangeHdr, FtabType, PFftab_ele

LEMMA AllocPageStep ==
    ASSUME PFInv, NEW fd \in FD, PF_AllocPage(fd)
    PROVE  PFInv' /\ PinsKept(buf, buf')
<1>1. PFTypeOK /\ BufOK(buf) /\ PagesOpen(PFftab, buf)
  BY PFInvParts
<1> DEFINE old == PFftab[fd]
<1>2. PFftab \in [FD -> PFftab_ele] /\ old \in PFftab_ele /\ old.hdr \in PFhdr_str
  BY <1>1 DEF PFTypeOK, PFftab_ele
<1>3. CASE Fail(PFE_FD)
  BY <1>3, FailStep, CodesAreIntegers
<1>4. CASE ~PFinvalidFd(fd) /\ Recycle(fd) /\ UNCHANGED touched
  <2> DEFINE p == old.hdr.firstfree
             next(o) == FpageOf(o.buf, fd, p).nextfree
             hdr(o) == [PFftab[fd].hdr EXCEPT !.firstfree = next(o)]
             v(o) == [PFftab[fd] EXCEPT !.hdr = hdr(o), !.hdrchanged = TRUE]
  <2>1. PICK o \in PFbufGet(fd, p) :
           \/ AllocError(fd, p, o)
           \/ /\ o.err = PFE_OK
              /\ disk' = o.disk
              /\ buf' = MarkUsed(o.buf, fd, p)
              /\ PFftab' = ChangeHdr(fd, hdr(o))
              /\ ReturnPage(PFE_OK, p)
    BY <1>4 DEF Recycle
  <2>2. p \in Link /\ p \in Int
    BY <1>2 DEF PFhdr_str, Link, PageNum, PF_PAGE_LIST_END, PF_PAGE_USED
  <2>3. Served(fd, p, o) /\ Open(PFftab, fd)
    BY <1>4, <2>2, GetStep
  <2>4. CASE AllocError(fd, p, o)
    <3>1. /\ o.err # PFE_OK /\ disk' = o.disk /\ buf' = o.buf /\ PFftab' = PFftab
          /\ ReturnPage(o.err, p)
      BY <2>4 DEF AllocError, Apply
    <3> QED  BY <1>2, <1>4, <2>2, <2>3, <3>1, AllocEnds
  <2>5. CASE /\ o.err = PFE_OK
             /\ disk' = o.disk
             /\ buf' = MarkUsed(o.buf, fd, p)
             /\ PFftab' = ChangeHdr(fd, hdr(o))
             /\ ReturnPage(PFE_OK, p)
    <3>1. next(o) \in Link
      BY <2>3, <2>5, GotPage DEF FpageOf, PFbpage, PFfpage
    <3> HIDE DEF next
    <3>2. hdr(o) \in PFhdr_str
      BY <1>2, <3>1 DEF PFhdr_str
    <3> HIDE DEF hdr
    <3>3. /\ v(o) \in PFftab_ele /\ v(o).fname = old.fname
          /\ PFftab' = [PFftab EXCEPT ![fd] = v(o)]
      BY <1>2, <2>5, <3>2, HeaderChange DEF FtabType
    <3> HIDE DEF v, p
    <3> QED  BY <1>4, <2>2, <2>3, <2>5, <3>3, AllocEnds
  <2> QED  BY <2>1, <2>4, <2>5
<1>5. CASE ~PFinvalidFd(fd) /\ Extend(fd) /\ UNCHANGED touched
  <2> DEFINE p == old.hdr.numpages
             hdr == [PFftab[fd].hdr EXCEPT !.numpages = p + 1]
             v == [PFftab[fd] EXCEPT !.hdr = hdr, !.hdrchanged = TRUE]
  <2>1. PICK o \in PFbufAlloc(fd, p) :
           \/ AllocError(fd, p, o)
           \/ /\ o.err = PFE_OK
              /\ disk' = o.disk
              /\ buf' = MarkUsed(o.buf, fd, p)
              /\ PFftab' = ChangeHdr(fd, hdr)
              /\ ReturnPage(PFE_OK, p)
    BY <1>5 DEF Extend
  <2>2. p \in PageNum /\ p \in Link /\ p + 1 \in 0 .. MaxPages
    BY <1>2, <1>5, PFAssumption DEF Extend, PFhdr_str, PageNum, Link
  <2>3. Open(PFftab, fd)
    BY <1>5 DEF PFinvalidFd, Open
  <2>4. Served(fd, p, o)
    BY <1>1, <2>2, AllocOK DEF PFTypeOK, DiskType
  <2>5. CASE AllocError(fd, p, o)
    <3>1. /\ o.err # PFE_OK /\ disk' = o.disk /\ buf' = o.buf /\ PFftab' = PFftab
          /\ ReturnPage(o.err, p)
      BY <2>5 DEF AllocError, Apply
    <3> QED  BY <1>2, <1>5, <2>2, <2>3, <2>4, <3>1, AllocEnds
  <2>6. CASE /\ o.err = PFE_OK
             /\ disk' = o.disk
             /\ buf' = MarkUsed(o.buf, fd, p)
             /\ PFftab' = ChangeHdr(fd, hdr)
             /\ ReturnPage(PFE_OK, p)
    <3>1. hdr \in PFhdr_str
      BY <1>2, <2>2 DEF PFhdr_str
    <3> HIDE DEF hdr
    <3>2. /\ v \in PFftab_ele /\ v.fname = old.fname
          /\ PFftab' = [PFftab EXCEPT ![fd] = v]
      BY <1>2, <2>6, <3>1, HeaderChange DEF FtabType
    <3> HIDE DEF v, p
    <3> QED  BY <1>5, <2>2, <2>3, <2>4, <2>6, <3>2, AllocEnds
  <2> QED  BY <2>1, <2>5, <2>6
<1> QED
  BY <1>3, <1>4, <1>5 DEF PF_AllocPage

LEMMA DisposePageStep ==
    ASSUME PFInv, NEW fd \in FD, NEW p \in PageNum, PF_DisposePage(fd, p)
    PROVE  PFInv' /\ PinsKept(buf, buf')
<1>1. CASE Fail(ArgumentError(fd, p))
  BY <1>1, FailStep, ErrorsAreIntegers
<1> DEFINE hdr == [PFftab[fd].hdr EXCEPT !.firstfree = p]
           tab == ChangeHdr(fd, hdr)
<1>2. CASE /\ ArgumentError(fd, p) = PFE_OK
           /\ \E o \in PFbufGet(fd, p) :
                /\ disk' = o.disk
                /\ \/ /\ buf' = o.buf
                      /\ Return(o.err)
                      /\ UNCHANGED PFftab
                   \/ /\ o.err = PFE_OK
                      /\ buf' = PFbufUnfix(o.buf, fd, p, FALSE)
                      /\ Return(PFE_PAGEFREE)
                      /\ UNCHANGED PFftab
                   \/ /\ o.err = PFE_OK
                      /\ buf' = Free(o.buf, fd, p)
                      /\ PFftab' = tab
                      /\ Return(PFE_OK)
           /\ UNCHANGED touched
  <2>1. ~PFinvalidFd(fd) /\ p \in Int
    BY <1>2 DEF ArgumentError, PFE_FD, PFE_OK, PageNum
  <2>2. PICK o \in PFbufGet(fd, p) :
           /\ disk' = o.disk
           /\ \/ /\ buf' = o.buf
                 /\ Return(o.err)
                 /\ UNCHANGED PFftab
              \/ /\ o.err = PFE_OK
                 /\ buf' = PFbufUnfix(o.buf, fd, p, FALSE)
                 /\ Return(PFE_PAGEFREE)
                 /\ UNCHANGED PFftab
              \/ /\ o.err = PFE_OK
                 /\ buf' = Free(o.buf, fd, p)
                 /\ PFftab' = tab
                 /\ Return(PFE_OK)
    BY <1>2
  <2>3. /\ PFTypeOK /\ PagesOpen(PFftab, buf) /\ Open(PFftab, fd)
        /\ Served(fd, p, o)
        /\ o.err \in Int /\ o.disk \in DiskType
        /\ BufOK(o.buf) /\ PagesOpen(PFftab, o.buf) /\ PinsKept(buf, o.buf)
    BY <2>1, GetStep
  <2>4. touched' \subseteq Frame
    BY <1>2, <2>3 DEF PFTypeOK
  <2>5. CASE buf' = o.buf /\ Return(o.err) /\ UNCHANGED PFftab
    BY <2>2, <2>3, <2>4, <2>5, CallEndsSameTable
  <2>6. CASE /\ o.err = PFE_OK
             /\ buf' = PFbufUnfix(o.buf, fd, p, FALSE)
             /\ Return(PFE_PAGEFREE)
             /\ UNCHANGED PFftab
    <3>1. BufOK(buf') /\ PagesOpen(PFftab, buf') /\ PinsKept(buf, buf')
      BY <2>3, <2>6, GotUnfix
    <3> QED  BY <2>2, <2>3, <2>4, <2>6, <3>1, CallEndsSameTable, CodesAreIntegers
  <2>7. CASE /\ o.err = PFE_OK
             /\ buf' = Free(o.buf, fd, p)
             /\ PFftab' = tab
             /\ Return(PFE_OK)
    <3>1. BufOK(buf') /\ PagesOpen(PFftab, buf') /\ PinsKept(buf, buf')
      BY <2>3, <2>7, GotFree
    <3> DEFINE v == [PFftab[fd] EXCEPT !.hdr = hdr, !.hdrchanged = TRUE]
    <3>2. PFftab \in FtabType /\ PFftab[fd].hdr \in PFhdr_str /\ p \in Link
      BY <2>3 DEF PFTypeOK, FtabType, PFftab_ele, Link
    <3>3. hdr \in PFhdr_str
      BY <3>2 DEF PFhdr_str
    <3> HIDE DEF hdr
    <3>4. /\ v \in PFftab_ele /\ v.fname = PFftab[fd].fname
          /\ tab = [PFftab EXCEPT ![fd] = v]
      BY <3>2, <3>3, HeaderChange
    <3> HIDE DEF v, tab
    <3>5. PFftab' \in FtabType /\ PagesOpen(PFftab', buf')
      BY <2>3, <2>7, <3>1, <3>4, TableStep DEF Open
    <3>6. ReturnPage(PFE_OK, -1)
      BY <2>7 DEF Return
    <3> QED  BY <2>2, <2>3, <2>4, <3>1, <3>5, <3>6, CallEnds, CodesAreIntegers
  <2> QED  BY <2>2, <2>5, <2>6, <2>7
<1> QED
  BY <1>1, <1>2 DEF PF_DisposePage

-----------------------------------------------------------------------------
(* The steps of the client on a page it has fixed. *)

LEMMA FixedPage ==
    ASSUME PFInv, NEW fd \in FD, NEW p \in PageNum, NotFixed(buf, fd, p) = PFE_OK
    PROVE  LET f == PFhashFind(buf, fd, p)
           IN  /\ PFTypeOK /\ BufOK(buf) /\ PagesOpen(PFftab, buf)
               /\ f # NoFrame /\ f \in Frame /\ f \in ToSet(buf.list)
               /\ buf.frame[f] \in PFbpage /\ buf.frame[f].fixed
               /\ f = buf.hash[<<fd, p>>]
<1>1. PFTypeOK /\ BufOK(buf) /\ PagesOpen(PFftab, buf)
  BY PFInvParts
<1>2. PFhashFind(buf, fd, p) # NoFrame /\ buf.frame[PFhashFind(buf, fd, p)].fixed
  BY DEF NotFixed, PFE_OK, PFE_PAGENOTINBUF, PFE_PAGEUNFIXED
<1> QED
  BY <1>1, <1>2, FindOK

(* The frame of a fixed page becomes v. *)
LEMMA EditStep ==
    ASSUME PFInv, NEW fd \in FD, NEW p \in PageNum, NotFixed(buf, fd, p) = PFE_OK,
           NEW v \in PFbpage,
           v.fd = buf.frame[PFhashFind(buf, fd, p)].fd,
           v.page = buf.frame[PFhashFind(buf, fd, p)].page
    PROVE  LET f == PFhashFind(buf, fd, p)
               c == [buf EXCEPT !.frame[f] = v]
           IN  /\ BufOK(c) /\ PagesOpen(PFftab, c)
               /\ \A g \in Frame : c.frame[g] = IF g = f THEN v ELSE buf.frame[g]
<1> DEFINE f == PFhashFind(buf, fd, p)
           c == [buf EXCEPT !.frame[f] = v]
<1>1. BufOK(buf) /\ PagesOpen(PFftab, buf) /\ f \in ToSet(buf.list)
  BY FixedPage
<1>2. v.fd = buf.frame[f].fd /\ v.page = buf.frame[f].page
  OBVIOUS
<1> HIDE DEF f
<1>3. /\ BufOK(c)
      /\ c.list = buf.list
      /\ \A g \in Frame : c.frame[g] = IF g = f THEN v ELSE buf.frame[g]
  BY <1>1, <1>2, EditOK
<1> HIDE DEF c
<1>4. ToSet(c.list) \subseteq Frame
  BY <1>3 DEF BufOK, Pool, BufType, ToSet
<1>5. PagesOpen(PFftab, c)
  BY <1>1, <1>2, <1>3, <1>4 DEF PagesOpen
<1> QED
  BY <1>3, <1>5 DEF c, f

LEMMA UnfixPageStep ==
    ASSUME PFInv, NEW fd \in FD, NEW p \in PageNum, NEW dirty \in BOOLEAN,
           PF_UnfixPage(fd, p, dirty)
    PROVE  /\ PFInv'
           /\ BufOK(buf')
           /\ \A g \in Frame \ {PFhashFind(buf, fd, p)} : buf'.frame[g] = buf.frame[g]
<1>1. CASE Fail(NotFixedError(fd, p))
  <2>1. PFInv' /\ buf' = buf
    BY <1>1, FailStep, ErrorsAreIntegers DEF Fail
  <2> QED  BY <2>1, PFInvParts
<1>2. CASE /\ NotFixedError(fd, p) = PFE_OK
           /\ buf' = PFbufUnfix(buf, fd, p, dirty)
           /\ touched' = touched \ {PFhashFind(buf, fd, p)}
           /\ Return(PFE_OK)
           /\ UNCHANGED <<disk, PFftab>>
  <2>1. NotFixed(buf, fd, p) = PFE_OK
    BY <1>2 DEF NotFixedError
  <2>2. /\ PFTypeOK /\ BufOK(buf) /\ PagesOpen(PFftab, buf)
        /\ PFhashFind(buf, fd, p) # NoFrame
    BY <2>1, FixedPage
  <2>3. /\ BufOK(buf')
        /\ ToSet(buf'.list) = ToSet(buf.list)
        /\ \A g \in Frame : /\ buf'.frame[g].fd = buf.frame[g].fd
                            /\ g # PFhashFind(buf, fd, p) => buf'.frame[g] = buf.frame[g]
    BY <1>2, <2>2, UnfixOK
  <2>4. ToSet(buf'.list) \subseteq Frame
    BY <2>3 DEF BufOK, Pool, BufType, ToSet
  <2>5. PagesOpen(PFftab, buf')
    BY <2>2, <2>3, <2>4 DEF PagesOpen
  <2>6. disk' \in DiskType /\ touched' \subseteq Frame
    BY <1>2, <2>2 DEF PFTypeOK, DiskType
  <2>7. PFInv'
    BY <1>2, <2>3, <2>5, <2>6, CallEndsSameTable, CodesAreIntegers
  <2> QED  BY <2>3, <2>7
<1> QED
  BY <1>1, <1>2 DEF PF_UnfixPage

LEMMA MarkDirtyStep ==
    ASSUME PFInv, NEW fd \in FD, NEW p \in PageNum, PF_MarkDirty(fd, p)
    PROVE  PFInv' /\ PinsKept(buf, buf')
<1>1. CASE Fail(NotFixedError(fd, p))
  BY <1>1, FailStep, ErrorsAreIntegers
<1>2. CASE /\ NotFixedError(fd, p) = PFE_OK
           /\ buf' = PFbufMarkDirty(buf, fd, p)
           /\ touched' = touched \ {PFhashFind(buf, fd, p)}
           /\ Return(PFE_OK)
           /\ UNCHANGED <<disk, PFftab>>
  <2> DEFINE f == PFhashFind(buf, fd, p)
             v == [buf.frame[f] EXCEPT !.dirty = TRUE]
  <2>1. NotFixed(buf, fd, p) = PFE_OK
    BY <1>2 DEF NotFixedError
  <2>2. PFTypeOK /\ BufOK(buf) /\ f \in Frame /\ buf.frame[f] \in PFbpage
    BY <2>1, FixedPage
  <2>3. /\ v \in PFbpage /\ v.fd = buf.frame[f].fd /\ v.page = buf.frame[f].page
        /\ v.fixed = buf.frame[f].fixed /\ v.fpage = buf.frame[f].fpage
    BY <2>2 DEF PFbpage
  <2>4. buf' = [buf EXCEPT !.frame[f] = v]
    BY <1>2, <2>2 DEF PFbufMarkDirty, PFTypeOK, BufType
  <2> HIDE DEF v
  <2>5. /\ BufOK(buf') /\ PagesOpen(PFftab, buf')
        /\ \A g \in Frame : buf'.frame[g] = IF g = f THEN v ELSE buf.frame[g]
    BY <2>1, <2>3, <2>4, EditStep
  <2> HIDE DEF f
  <2>6. PinsKept(buf, buf')
    BY <2>3, <2>5 DEF PinsKept
  <2>7. disk' \in DiskType /\ touched' \subseteq Frame
    BY <1>2, <2>2 DEF PFTypeOK, DiskType
  <2> QED  BY <1>2, <2>5, <2>6, <2>7, CallEndsSameTable, CodesAreIntegers
<1> QED
  BY <1>1, <1>2 DEF PF_MarkDirty

LEMMA ClientWriteStep ==
    ASSUME PFInv, NEW fd \in FD, NEW p \in PageNum, NEW d \in Data, ClientWrite(fd, p, d)
    PROVE  /\ PFInv'
           /\ BufOK(buf')
           /\ buf'.frame[PFhashFind(buf, fd, p)].fixed
           /\ \A g \in Frame : /\ buf'.frame[g].fd = buf.frame[g].fd
                               /\ buf'.frame[g].page = buf.frame[g].page
           /\ \A g \in Frame \ {PFhashFind(buf, fd, p)} : buf'.frame[g] = buf.frame[g]
<1> DEFINE f == PFhashFind(buf, fd, p)
           v == [buf.frame[f] EXCEPT !.fpage.data = d]
<1>1. NotFixed(buf, fd, p) = PFE_OK /\ UNCHANGED <<disk, PFftab, call, ret, PFerrno>>
  BY DEF ClientWrite
<1>2. PFTypeOK /\ BufOK(buf) /\ f \in Frame /\ buf.frame[f] \in PFbpage /\ buf.frame[f].fixed
  BY <1>1, FixedPage
<1>3. v \in PFbpage /\ v.fd = buf.frame[f].fd /\ v.page = buf.frame[f].page /\ v.fixed
  BY <1>2 DEF PFbpage, PFfpage
<1>4. buf' = [buf EXCEPT !.frame[f] = v]
  BY <1>2 DEF ClientWrite, PFTypeOK, BufType
<1>5. touched' \subseteq Frame
  BY <1>2 DEF ClientWrite, PFTypeOK
<1> HIDE DEF v
<1>6. /\ BufOK(buf') /\ PagesOpen(PFftab, buf')
      /\ \A g \in Frame : buf'.frame[g] = IF g = f THEN v ELSE buf.frame[g]
  BY <1>1, <1>3, <1>4, EditStep
<1>7. PFTypeOK'
  BY <1>1, <1>2, <1>5, <1>6 DEF PFTypeOK, BufOK, Pool
<1>8. call = NoCall
  BY DEF ClientWrite, Idle
<1>9. LoopsAreSound'
  BY <1>1, <1>8 DEF LoopsAreSound, NoCall
<1>10. PFInv'
  BY <1>1, <1>6, <1>7, <1>9, PFInvPartsNext
<1> HIDE DEF f
<1> QED
  BY <1>2, <1>3, <1>6, <1>10 DEF f

-----------------------------------------------------------------------------
(* The invariant. *)

LEMMA EmptyPool == BufOK(PFbufInit(PF_MAX_BUFS))
<1> DEFINE b == PFbufInit(PF_MAX_BUFS)
<1>1. /\ b.list = << >> /\ b.free = << >> /\ b.num = 0
      /\ b.frame = [f \in Frame |-> InitFrame]
      /\ b.hash = [fp \in FD \X PageNum |-> NoFrame]
  BY DEF PFbufInit, Frame
<1>2. InitFrame \in PFbpage
  BY PFAssumption DEF InitFrame, PFbpage, ZeroPage, PFfpage, Link, FD, PageNum
<1>3. b \in BufType
  BY <1>1, <1>2, PFAssumption DEF PFbufInit, BufType, Frame
<1>4. ToSet(b.list) = {} /\ ToSet(b.free) = {}
  BY <1>1 DEF ToSet
<1>5. Pool(b, {})
  BY <1>1, <1>3, <1>4, PFAssumption DEF Pool, IsInjective
<1>6. \A f \in Frame : b.frame[f].fixed = FALSE
  BY <1>1 DEF InitFrame
<1>7. \A fd \in FD, p \in PageNum : b.hash[<<fd, p>>] = NoFrame
  BY <1>1
<1> HIDE DEF b
<1>8. Holds(b, ToSet(b.list))
  BY <1>4, <1>6, <1>7 DEF Holds
<1> QED
  BY <1>5, <1>8 DEF BufOK, b

LEMMA NoOpenFileType == NoOpenFile \in [FD -> PFftab_ele]
BY PFAssumption DEF NoOpenFile, PFftab_ele, EmptyHdr, PFhdr_str, Link

LEMMA InitInv == PFInit => PFInv
<1> SUFFICES ASSUME PFInit PROVE PFInv
  OBVIOUS
<1>1. EmptyFile(FALSE) \in File
  BY PFAssumption DEF EmptyFile, File, EmptyHdr, PFhdr_str, Link, ZeroPage, PFfpage, PageNum
<1>2. BufOK(buf) /\ buf \in BufType
  BY EmptyPool DEF PFInit, BufOK, Pool
<1>3. PFTypeOK
  BY <1>1, <1>2, NoOpenFileType, CodesAreIntegers DEF PFInit, PFTypeOK, Call, PFE_OK
<1>4. ToSet(buf.list) = {}
  BY DEF PFInit, PFbufInit, ToSet
<1>5. PagesOpen(PFftab, buf) /\ LoopsAreSound
  BY <1>4 DEF PagesOpen, LoopsAreSound, PFInit, NoCall
<1> QED
  BY <1>2, <1>3, <1>5, PFInvParts

LEMMA RestartStep ==
    ASSUME PFInv, Restart
    PROVE  PFInv'
<1>1. PFTypeOK
  BY DEF PFInv
<1>2. BufOK(buf') /\ buf' \in BufType
  BY EmptyPool DEF Restart, BufOK, Pool
<1>3. PFTypeOK'
  BY <1>1, <1>2, NoOpenFileType, CodesAreIntegers DEF Restart, PFTypeOK, Call, PFE_OK
<1>4. ToSet(buf'.list) = {}
  BY DEF Restart, PFbufInit, ToSet
<1>5. PagesOpen(PFftab', buf') /\ LoopsAreSound'
  BY <1>4 DEF PagesOpen, LoopsAreSound, Restart, NoCall
<1> QED
  BY <1>2, <1>3, <1>5, PFInvPartsNext

LEMMA NextInv ==
    PFInv /\ [PFNext \/ Restart]_pfvars => PFInv'
<1> SUFFICES ASSUME PFInv, [PFNext \/ Restart]_pfvars PROVE PFInv'
  OBVIOUS
<1>1. ASSUME NEW fn \in Fname, PF_CreateFile(fn) PROVE PFInv'
  BY <1>1, CreateFileStep
<1>2. ASSUME NEW fn \in Fname, PF_DestroyFile(fn) PROVE PFInv'
  BY <1>2, DestroyFileStep
<1>3. ASSUME NEW fn \in Fname, NEW strategy \in PF_Strategy, PF_OpenFile(fn, strategy) PROVE PFInv'
  BY <1>3, OpenFileStep
<1>4. ASSUME NEW fd \in FD, PF_CloseFile(fd) PROVE PFInv'
  BY <1>4, CloseFileStep
<1>5. CASE PFbufReleaseFile
  BY <1>5, ReleaseFileStep
<1>6. CASE FinishClose
  BY <1>6, FinishCloseStep
<1>7. ASSUME NEW fd \in FD, NEW pagenum \in -2 .. MaxPages, PF_GetNextPage(fd, pagenum) PROVE PFInv'
  <2>1. pagenum \in Int
    BY <1>7
  <2> QED  BY <1>7, <2>1, GetNextPageStep
<1>8. CASE NextPageStep
  BY <1>8, NextPageStepStep
<1>9. CASE EndOfFile
  BY <1>9, EndOfFileStep
<1>10. ASSUME NEW fd \in FD, NEW p \in PageNum, PF_GetThisPage(fd, p) PROVE PFInv'
  BY <1>10, GetThisPageStep
<1>11. ASSUME NEW fd \in FD, PF_AllocPage(fd) PROVE PFInv'
  BY <1>11, AllocPageStep
<1>12. ASSUME NEW fd \in FD, NEW p \in PageNum, PF_DisposePage(fd, p) PROVE PFInv'
  BY <1>12, DisposePageStep
<1>13. ASSUME NEW fd \in FD, NEW p \in PageNum, NEW dirty \in BOOLEAN, PF_UnfixPage(fd, p, dirty)
       PROVE  PFInv'
  BY <1>13, UnfixPageStep
<1>14. ASSUME NEW fd \in FD, NEW p \in PageNum, PF_MarkDirty(fd, p) PROVE PFInv'
  BY <1>14, MarkDirtyStep
<1>15. ASSUME NEW fd \in FD, NEW p \in PageNum, NEW d \in Data \ {Junk}, ClientWrite(fd, p, d)
       PROVE  PFInv'
  BY <1>15, ClientWriteStep
<1>16. CASE Restart
  BY <1>16, RestartStep
<1>17. CASE UNCHANGED pfvars
  BY <1>17 DEF PFInv, PFTypeOK, FramesAccountedFor, HashListAgree, FixedAreListed,
               BufferedPagesOfOpenFiles, LoopsAreSound, Listed, pfvars
<1> QED
  BY <1>1, <1>2, <1>3, <1>4, <1>5, <1>6, <1>7, <1>8, <1>9, <1>10, <1>11, <1>12, <1>13,
     <1>14, <1>15, <1>16, <1>17 DEF PFNext

(* The invariant holds of every run, with or without restarts. *)
THEOREM Invariance == (PFSpec => []PFInv) /\ (PFCrashSpec => []PFInv)
<1>1. PFInv /\ [PFNext]_pfvars => PFInv'
  BY NextInv
<1> QED
  BY <1>1, InitInv, NextInv, PTL DEF PFSpec, PFCrashSpec

(* Every variable of the layer always has its type, for any client and     *)
(* however often the process ends and starts again.                        *)
THEOREM TypeCorrect == (PFSpec => []PFTypeOK) /\ (PFCrashSpec => []PFTypeOK)
<1>1. PFInv => PFTypeOK
  BY DEF PFInv
<1> QED
  BY <1>1, Invariance, PTL

(* No frame of the pool is ever lost, or both in use and free. *)
THEOREM NoFrameIsLost ==
    (PFSpec => []FramesAccountedFor) /\ (PFCrashSpec => []FramesAccountedFor)
<1>1. PFInv => FramesAccountedFor
  BY DEF PFInv
<1> QED
  BY <1>1, Invariance, PTL

(* The hash table and the list of frames always tell the same pages, for   *)
(* any client and however often the process ends and starts again.         *)
THEOREM PoolIsConsistent == (PFSpec => []HashListAgree) /\ (PFCrashSpec => []HashListAgree)
<1>1. PFInv => HashListAgree
  BY DEF PFInv
<1> QED
  BY <1>1, Invariance, PTL

(* A closed file never has a page in the pool. *)
THEOREM ClosedFilesLeaveThePool ==
    (PFSpec => []BufferedPagesOfOpenFiles) /\ (PFCrashSpec => []BufferedPagesOfOpenFiles)
<1>1. PFInv => BufferedPagesOfOpenFiles
  BY DEF PFInv
<1> QED
  BY <1>1, Invariance, PTL

(***************************************************************************)
(* A loop never outlives the file it goes over, and when PF_CloseFile has  *)
(* walked the list no page of the file is left behind on it.               *)
(***************************************************************************)
THEOREM LoopsStaySound == PFSpec => []LoopsAreSound
<1>1. PFInv => LoopsAreSound
  BY DEF PFInv
<1> QED
  BY <1>1, Invariance, PTL

-----------------------------------------------------------------------------
(* Pins. *)

LEMMA FoundPage ==
    ASSUME BufOK(buf), NEW fd \in FD, NEW p \in PageNum, PFhashFind(buf, fd, p) # NoFrame
    PROVE  /\ buf.frame[PFhashFind(buf, fd, p)].fd = fd
           /\ buf.frame[PFhashFind(buf, fd, p)].page = p
<1> DEFINE f == PFhashFind(buf, fd, p)
<1>1. /\ p \in PageNum
      /\ f = buf.hash[<<fd, p>>]
      /\ f \in ToSet(buf.list) /\ f \in Frame
      /\ buf.frame[f] \in PFbpage
      /\ buf.frame[f].fd = fd /\ buf.frame[f].page = p
  BY FindOK
<1> QED
  BY <1>1

(* The hash entry of a page stays as long as its frame stays fixed for it. *)
LEMMA PinStays ==
    ASSUME PFInv, PFInv', NEW fp \in Pinned,
           buf'.frame[buf.hash[fp]].fixed,
           buf'.frame[buf.hash[fp]].fd = buf.frame[buf.hash[fp]].fd,
           buf'.frame[buf.hash[fp]].page = buf.frame[buf.hash[fp]].page
    PROVE  buf'.hash[fp] = buf.hash[fp]
<1> DEFINE fd == fp[1]
           p  == fp[2]
           f  == buf.hash[fp]
<1>1. fp = <<fd, p>> /\ fd \in FD /\ p \in PageNum /\ NotFixed(buf, fd, p) = PFE_OK
  BY DEF Pinned, IsPinned
<1>2. /\ f = PFhashFind(buf, fd, p) /\ f \in Frame
      /\ PFhashFind(buf, fd, p) # NoFrame /\ BufOK(buf)
  BY <1>1, FixedPage
<1>3. buf.frame[f].fd = fd /\ buf.frame[f].page = p
  BY <1>1, <1>2, FoundPage
<1>4. BufOK(buf')
  BY PFInvPartsNext
<1> HIDE DEF fd, p, f
<1>5. f \in ToSet(buf'.list) /\ buf'.hash[<<buf'.frame[f].fd, buf'.frame[f].page>>] = f
  BY <1>2, <1>4 DEF BufOK, Holds, f
<1> QED
  BY <1>1, <1>3, <1>5 DEF f

(***************************************************************************)
(* A pointer into the pool stays good until its page is unfixed: nothing   *)
(* another call does, on this file or another, failing or not, moves or    *)
(* evicts the page, takes it off the table or writes to it.                *)
(***************************************************************************)
THEOREM PinsAreKept == PFSpec => PinnedPagesStay
<1> DEFINE Stays(fp) ==
             \/ \E dirty \in BOOLEAN : PF_UnfixPage(fp[1], fp[2], dirty)
             \/ /\ buf'.hash[fp] = buf.hash[fp]
                /\ buf'.frame[buf.hash[fp]].fixed
                /\ \/ buf'.frame[buf.hash[fp]].fpage = buf.frame[buf.hash[fp]].fpage
                   \/ \E d \in Data : ClientWrite(fp[1], fp[2], d)
<1>1. ASSUME PFInv, PFInv', NEW fp \in Pinned, PinsKept(buf, buf')
      PROVE  Stays(fp)
  <2>1. buf.hash[fp] \in Frame /\ buf.frame[buf.hash[fp]].fixed
    <3>1. fp = <<fp[1], fp[2]>> /\ fp[1] \in FD /\ fp[2] \in PageNum
          /\ NotFixed(buf, fp[1], fp[2]) = PFE_OK
      BY DEF Pinned, IsPinned
    <3> QED  BY <1>1, <3>1, FixedPage
  <2> QED  BY <1>1, <2>1, PinStays DEF PinsKept
<1>2. ASSUME PFInv, PFInv', NEW fp \in Pinned, NEW fd \in FD, NEW p \in PageNum,
             NEW dirty \in BOOLEAN, PF_UnfixPage(fd, p, dirty)
      PROVE  Stays(fp)
  <2>1. fp = <<fp[1], fp[2]>> /\ fp[1] \in FD /\ fp[2] \in PageNum
        /\ NotFixed(buf, fp[1], fp[2]) = PFE_OK
    BY DEF Pinned, IsPinned
  <2>2. CASE fp = <<fd, p>>
    BY <1>2, <2>2
  <2>3. CASE fp # <<fd, p>>
    <3> DEFINE g == buf.hash[fp]
    <3>1. /\ g \in Frame /\ buf.frame[g].fixed /\ g = PFhashFind(buf, fp[1], fp[2])
          /\ g # NoFrame /\ BufOK(buf)
      BY <1>2, <2>1, FixedPage
    <3>2. buf.frame[g].fd = fp[1] /\ buf.frame[g].page = fp[2]
      BY <2>1, <3>1, FoundPage
    <3>3. g # PFhashFind(buf, fd, p)
      <4>1. CASE PFhashFind(buf, fd, p) = NoFrame
        BY <3>1, <4>1
      <4>2. CASE PFhashFind(buf, fd, p) # NoFrame
        <5>1. /\ buf.frame[PFhashFind(buf, fd, p)].fd = fd
              /\ buf.frame[PFhashFind(buf, fd, p)].page = p
          BY <3>1, <4>2, FoundPage
        <5> QED  BY <2>1, <2>3, <3>2, <5>1
      <4> QED  BY <4>1, <4>2
    <3>4. buf'.frame[g] = buf.frame[g]
      BY <1>2, <3>1, <3>3, UnfixPageStep
    <3> QED  BY <1>2, <3>1, <3>4, PinStays
  <2> QED  BY <2>2, <2>3
<1>3. ASSUME PFInv, PFInv', NEW fp \in Pinned, NEW fd \in FD, NEW p \in PageNum,
             NEW d \in Data \ {Junk}, ClientWrite(fd, p, d)
      PROVE  Stays(fp)
  <2>1. fp = <<fp[1], fp[2]>> /\ fp[1] \in FD /\ fp[2] \in PageNum
        /\ NotFixed(buf, fp[1], fp[2]) = PFE_OK
    BY DEF Pinned, IsPinned
  <2> DEFINE g == buf.hash[fp]
  <2>2. /\ g \in Frame /\ buf.frame[g].fixed /\ g = PFhashFind(buf, fp[1], fp[2])
        /\ g # NoFrame /\ BufOK(buf)
    BY <1>3, <2>1, FixedPage
  <2>3. /\ buf'.frame[PFhashFind(buf, fd, p)].fixed
        /\ \A h \in Frame : /\ buf'.frame[h].fd = buf.frame[h].fd
                            /\ buf'.frame[h].page = buf.frame[h].page
        /\ \A h \in Frame \ {PFhashFind(buf, fd, p)} : buf'.frame[h] = buf.frame[h]
    BY <1>3, ClientWriteStep
  <2>4. buf'.frame[g].fixed /\ buf'.frame[g].fd = buf.frame[g].fd /\ buf'.frame[g].page = buf.frame[g].page
    BY <2>2, <2>3, SMTT(40)
  <2>5. buf'.hash[fp] = buf.hash[fp]
    BY <1>3, <2>4, PinStays
  <2>6. CASE fp = <<fd, p>>
    BY <1>3, <2>4, <2>5, <2>6
  <2>7. CASE fp # <<fd, p>>
    <3>1. g # PFhashFind(buf, fd, p)
      <4>1. buf.frame[g].fd = fp[1] /\ buf.frame[g].page = fp[2]
        BY <2>1, <2>2, FoundPage
      <4>2. NotFixed(buf, fd, p) = PFE_OK
        BY <1>3 DEF ClientWrite
      <4>3. PFhashFind(buf, fd, p) # NoFrame
        BY <1>3, <4>2, FixedPage
      <4>4. /\ buf.frame[PFhashFind(buf, fd, p)].fd = fd
            /\ buf.frame[PFhashFind(buf, fd, p)].page = p
        BY <2>2, <4>3, FoundPage
      <4> QED  BY <2>1, <2>7, <4>1, <4>4
    <3>2. buf'.frame[g] = buf.frame[g]
      BY <2>2, <2>3, <3>1
    <3> QED  BY <2>4, <2>5, <3>2
  <2> QED  BY <2>6, <2>7
<1>4. ASSUME PFInv, PFInv', PFNext, NEW fp \in Pinned
      PROVE  Stays(fp)
  <2> USE <1>4
  <2>1. ASSUME NEW fd \in FD, NEW p \in PageNum, NEW dirty \in BOOLEAN, PF_UnfixPage(fd, p, dirty)
        PROVE  Stays(fp)
    BY <1>2, <2>1
  <2>2. ASSUME NEW fd \in FD, NEW p \in PageNum, NEW d \in Data \ {Junk}, ClientWrite(fd, p, d)
        PROVE  Stays(fp)
    BY <1>3, <2>2
  <2> HIDE DEF Stays
  <2>3. CASE PinsKept(buf, buf')
    BY <1>1, <2>3
  <2>4. \A pagenum \in -2 .. MaxPages : pagenum \in Int
    OBVIOUS
  <2> QED
    BY <2>1, <2>2, <2>3, <2>4, CreateFileStep, DestroyFileStep, OpenFileStep, CloseFileStep,
       ReleaseFileStep, FinishCloseStep, GetNextPageStep, NextPageStepStep, EndOfFileStep,
       GetThisPageStep, AllocPageStep, DisposePageStep, MarkDirtyStep
       DEF PFNext
<1>5. PFInv /\ PFInv' /\ [PFNext]_pfvars => [\A fp \in Pinned : Stays(fp)]_pfvars
  BY <1>4, SMTT(40)
<1>6. [\A fp \in Pinned : Stays(fp)]_pfvars =>
        [\A fp \in Pinned :
           \/ \E dirty \in BOOLEAN : PF_UnfixPage(fp[1], fp[2], dirty)
           \/ /\ buf'.hash[fp] = buf.hash[fp]
              /\ buf'.frame[buf.hash[fp]].fixed
              /\ \/ buf'.frame[buf.hash[fp]].fpage = buf.frame[buf.hash[fp]].fpage
                 \/ \E d \in Data : ClientWrite(fp[1], fp[2], d)]_pfvars
  OBVIOUS
<1> HIDE DEF Stays
<1> QED
  BY <1>5, <1>6, Invariance, PTL DEF PFSpec, PinnedPagesStay

-----------------------------------------------------------------------------
(***************************************************************************)
(* What the pool and the disk say of the same page.  A routine of buf.c is *)
(* seen here page by page, not frame by frame: a page stays as it is, or   *)
(* it leaves the pool and is on disk by then, and only the page that was   *)
(* asked for enters the pool.                                              *)
(***************************************************************************)

(* Pages of the pool b, and what a routine made of them. *)

Held(b, g, q) == b.hash[<<g, q>>] # NoFrame

At(b, g, q) == b.frame[b.hash[<<g, q>>]]

(* Page <<g, q>> is in c what it is in b. *)
Stays(b, c, g, q) ==
    /\ c.hash[<<g, q>>] = b.hash[<<g, q>>]
    /\ Held(b, g, q) => At(c, g, q) = At(b, g, q)

(* It was in the pool and is not in c; the disk is e, where it is saved. *)
Leaves(c, e, g, q) ==
    /\ Held(buf, g, q)
    /\ ~At(buf, g, q).fixed
    /\ ~Held(c, g, q)
    /\ e = IF At(buf, g, q).dirty
           THEN Put(disk, PFftab[g].fname, q, At(buf, g, q).fpage)
           ELSE disk

(* At most one page has been written, well or not, and one that may leave. *)
Written(e) ==
    \/ e = disk
    \/ \E g \in FD, q \in PageNum, fp \in PFfpage :
         /\ Held(buf, g, q)
         /\ At(buf, g, q).dirty
         /\ ~At(buf, g, q).fixed
         /\ e = Put(disk, PFftab[g].fname, q, fp)

(* The pool has become c and the disk e; pages outside T stay or leave. *)
Flow(c, e, T) ==
    /\ Written(e)
    /\ \A g \in FD, q \in PageNum :
         <<g, q>> \in T \/ Stays(buf, c, g, q) \/ Leaves(c, e, g, q)

LEMMA HeldPage ==
    ASSUME NEW b, BufOK(b), NEW g \in FD, NEW q \in PageNum, Held(b, g, q)
    PROVE  LET f == b.hash[<<g, q>>]
           IN  /\ f \in ToSet(b.list) /\ f \in Frame
               /\ PFhashFind(b, g, q) = f
               /\ At(b, g, q) = b.frame[f]
               /\ At(b, g, q) \in PFbpage
               /\ At(b, g, q).fd = g /\ At(b, g, q).page = q
<1>1. PFhashFind(b, g, q) = b.hash[<<g, q>>]
  BY DEF PFhashFind
<1> QED
  BY <1>1, FindOK DEF Held, At

(* A frame holds one page only. *)
LEMMA OnePageAFrame ==
    ASSUME NEW b, BufOK(b), NEW g \in FD, NEW q \in PageNum, Held(b, g, q),
           NEW h \in FD, NEW r \in PageNum, b.hash[<<h, r>>] = b.hash[<<g, q>>]
    PROVE  h = g /\ r = q
<1>1. Held(b, h, r) /\ At(b, h, r) = At(b, g, q)
  BY DEF Held, At
<1> QED
  BY <1>1, HeldPage

(* A listed frame is that of a page. *)
LEMMA ListedPage ==
    ASSUME NEW b, BufOK(b), NEW f \in ToSet(b.list)
    PROVE  LET g == b.frame[f].fd
               q == b.frame[f].page
           IN  /\ g \in FD /\ q \in PageNum /\ f \in Frame
               /\ Held(b, g, q) /\ b.hash[<<g, q>>] = f /\ At(b, g, q) = b.frame[f]
<1>1. b \in BufType /\ Holds(b, ToSet(b.list))
  BY DEF BufOK, Pool
<1>2. f \in Frame /\ b.frame[f] \in PFbpage
  BY <1>1 DEF BufType, ToSet
<1>3. b.hash[<<b.frame[f].fd, b.frame[f].page>>] = f
  BY <1>1 DEF Holds
<1> QED
  BY <1>2, <1>3 DEF Held, At, PFbpage, Frame, NoFrame

(* What follows a flow without moving a page outside T. *)
LEMMA FlowThen ==
    ASSUME NEW b, NEW c, NEW e, NEW T, NEW U, Flow(b, e, T), T \subseteq U,
           \A g \in FD, q \in PageNum : <<g, q>> \in U \/ Stays(b, c, g, q)
    PROVE  Flow(c, e, U)
<1>1. ASSUME NEW g \in FD, NEW q \in PageNum
      PROVE  <<g, q>> \in U \/ Stays(buf, c, g, q) \/ Leaves(c, e, g, q)
  BY DEF Flow, Stays, Leaves, Held
<1> QED
  BY <1>1 DEF Flow

LEMMA StillFlow == Flow(buf, disk, {})
BY DEF Flow, Written, Stays

(* The write of a page that may be evicted. *)
LEMMA FlushWritten ==
    ASSUME BufOK(buf), NEW f \in ToSet(buf.list), ~buf.frame[f].fixed, NEW w \in Flush(f)
    PROVE  /\ Written(w.disk)
           /\ w.err = PFE_OK =>
                w.disk = IF buf.frame[f].dirty
                         THEN Put(disk, PFftab[buf.frame[f].fd].fname,
                                  buf.frame[f].page, buf.frame[f].fpage)
                         ELSE disk
<1> DEFINE v == buf.frame[f]
<1>1. /\ v.fd \in FD /\ v.page \in PageNum /\ f \in Frame
      /\ Held(buf, v.fd, v.page) /\ At(buf, v.fd, v.page) = v
  BY ListedPage
<1>5. v \in PFbpage
  BY <1>1 DEF BufOK, Pool, BufType
<1>2. v.fpage \in PFfpage /\ [v.fpage EXCEPT !.data = Junk] \in PFfpage
  BY <1>5, PFAssumption DEF PFbpage, PFfpage
<1>3. CASE ~v.dirty
  BY <1>3 DEF Flush, Written
<1>4. CASE v.dirty
  <2>1. w \in PFwritefcn(disk, PFftab[v.fd].fname, v.page, v.fpage)
    BY <1>4 DEF Flush
  <2>2. \E fp \in PFfpage : w.disk = Put(disk, PFftab[v.fd].fname, v.page, fp) \/ w.disk = disk
    BY <1>2, <2>1 DEF PFwritefcn
  <2>3. w.err = PFE_OK => w.disk = Put(disk, PFftab[v.fd].fname, v.page, v.fpage)
    BY <2>1 DEF PFwritefcn, PFE_OK, PFE_UNIX, PFE_INCOMPLETEWRITE
  <2> QED  BY <1>1, <1>4, <2>2, <2>3 DEF Written
<1> QED
  BY <1>3, <1>4

(* A frame is evicted after its page was written: that page leaves. *)
LEMMA EvictFlow ==
    ASSUME BufOK(buf), NEW f \in ToSet(buf.list), ~buf.frame[f].fixed,
           NEW w \in Flush(f), w.err = PFE_OK,
           NEW c, c.hash = Evict(buf, f).hash, c.frame = Evict(buf, f).frame
    PROVE  Flow(c, w.disk, {})
<1> DEFINE v == buf.frame[f]
<1>1. /\ v.fd \in FD /\ v.page \in PageNum /\ f \in Frame /\ v \in PFbpage
      /\ Held(buf, v.fd, v.page) /\ At(buf, v.fd, v.page) = v /\ buf.hash[<<v.fd, v.page>>] = f
  BY ListedPage, HeldPage
<1>2. buf \in BufType /\ buf.hash \in [FD \X PageNum -> Frame \cup {NoFrame}]
  BY DEF BufOK, Pool, BufType
<1>3. c.hash = [buf.hash EXCEPT ![<<v.fd, v.page>>] = NoFrame]
  BY <1>2 DEF Evict, PFbufUnlink, PFhashDelete, BufType
<1>4. \A g \in FD, q \in PageNum :
        c.hash[<<g, q>>] = IF g = v.fd /\ q = v.page THEN NoFrame ELSE buf.hash[<<g, q>>]
  BY <1>1, <1>2, <1>3, HashExcept, ZenonT(60)
<1>5. /\ Written(w.disk)
      /\ w.disk = IF v.dirty THEN Put(disk, PFftab[v.fd].fname, v.page, v.fpage) ELSE disk
  BY FlushWritten
<1>6. \A h \in Frame \ {f} : c.frame[h] = buf.frame[h]
  BY <1>1, <1>2, EvictSame
<1> HIDE DEF v
<1>7. ASSUME NEW g \in FD, NEW q \in PageNum
      PROVE  Stays(buf, c, g, q) \/ Leaves(c, w.disk, g, q)
  <2>1. CASE g = v.fd /\ q = v.page
    BY <1>1, <1>4, <1>5, <2>1 DEF Leaves, Held, v
  <2>2. CASE ~(g = v.fd /\ q = v.page)
    <3>1. c.hash[<<g, q>>] = buf.hash[<<g, q>>]
      BY <1>4, <2>2
    <3>2. ASSUME Held(buf, g, q) PROVE At(c, g, q) = At(buf, g, q)
      <4>1. buf.hash[<<g, q>>] # f /\ buf.hash[<<g, q>>] \in Frame
        BY <1>1, <2>2, <3>2, HeldPage, OnePageAFrame
      <4> QED  BY <1>6, <3>1, <4>1 DEF At
    <3> QED  BY <3>1, <3>2 DEF Stays
  <2> QED  BY <2>1, <2>2
<1> QED
  BY <1>5, <1>7 DEF Flow

(* Claiming a frame: at most one page leaves, and the frame holds none. *)
LEMMA InternalAllocFlow ==
    ASSUME BufOK(buf), NEW fd \in FD, NEW o \in PFbufInternalAlloc(fd)
    PROVE  Flow(o.buf, o.disk, {})
<1>1. buf \in BufType
  BY DEF BufOK, Pool
<1>2. ASSUME NEW d, NEW e, o = Outcome(buf, d, e), Written(d)
      PROVE  Flow(o.buf, o.disk, {})
  BY <1>2 DEF Outcome, Flow, Stays
<1>3. ASSUME NEW b, NEW d, NEW f, o = Linked(b, d, f), b \in BufType
      PROVE  o.disk = d /\ o.buf.hash = b.hash /\ o.buf.frame = b.frame
  BY <1>3 DEF Linked, Outcome, PFbufLinkHead, BufType
<1>4. CASE buf.free # << >>
  <2> DEFINE b == [buf EXCEPT !.free = Tail(@)]
  <2>1. o = Linked(b, disk, Head(buf.free))
    BY <1>4 DEF PFbufInternalAlloc
  <2>2. b.hash = buf.hash /\ b.frame = buf.frame
    BY <1>1 DEF BufType
  <2>3. o.disk = disk /\ o.buf.hash = b.hash /\ o.buf.frame = b.frame
    BY <1>1, <2>1 DEF Linked, Outcome, PFbufLinkHead, BufType
  <2> HIDE DEF b
  <2> QED  BY <2>2, <2>3 DEF Flow, Written, Stays, Held, At
<1>5. CASE buf.free = << >> /\ buf.num < PF_MAX_BUFS
  <2> DEFINE b == [buf EXCEPT !.num = @ + 1]
  <2>1. o = Linked(b, disk, buf.num + 1) \/ o = Outcome(buf, disk, PFE_NOMEM)
    BY <1>5 DEF PFbufInternalAlloc
  <2>2. b.hash = buf.hash /\ b.frame = buf.frame
    BY <1>1 DEF BufType
  <2>3. CASE o = Linked(b, disk, buf.num + 1)
    <3>1. o.disk = disk /\ o.buf.hash = b.hash /\ o.buf.frame = b.frame
      BY <1>1, <2>3 DEF Linked, Outcome, PFbufLinkHead, BufType
    <3> HIDE DEF b
    <3> QED  BY <2>2, <3>1 DEF Flow, Written, Stays, Held, At
  <2>4. CASE o = Outcome(buf, disk, PFE_NOMEM)
    BY <1>2, <2>4 DEF Written
  <2> QED  BY <2>1, <2>3, <2>4
<1>6. CASE buf.free = << >> /\ ~(buf.num < PF_MAX_BUFS) /\ Unfixed(buf) = {}
  <2>1. o = Outcome(buf, disk, PFE_NOBUF)
    BY <1>6 DEF PFbufInternalAlloc
  <2> QED  BY <1>2, <2>1 DEF Written
<1>7. CASE buf.free = << >> /\ ~(buf.num < PF_MAX_BUFS) /\ Unfixed(buf) # {}
  <2>1. PICK i \in Victim(buf, PFftab[fd].strategy) :
           \E w \in Flush(buf.list[i]) :
              o = IF w.err = PFE_OK
                  THEN Linked(Evict(buf, buf.list[i]), w.disk, buf.list[i])
                  ELSE Outcome(buf, w.disk, w.err)
    BY <1>7 DEF PFbufInternalAlloc
  <2> DEFINE f == buf.list[i]
             b == Evict(buf, f)
  <2>2. PICK w \in Flush(f) : o = IF w.err = PFE_OK THEN Linked(b, w.disk, f)
                                                   ELSE Outcome(buf, w.disk, w.err)
    BY <2>1
  <2>3. f \in ToSet(buf.list) /\ ~buf.frame[f].fixed
    BY <1>1 DEF Victim, Unfixed, ToSet, BufType
  <2> HIDE DEF f
  <2>4. CASE w.err = PFE_OK
    <3>1. o = Linked(b, w.disk, f)
      BY <2>2, <2>4
    <3>2. b \in BufType
      BY <2>3, EvictPool DEF Pool
    <3>3. o.disk = w.disk /\ o.buf.hash = b.hash /\ o.buf.frame = b.frame
      BY <3>1, <3>2 DEF Linked, Outcome, PFbufLinkHead, BufType
    <3> QED  BY <2>3, <2>4, <3>3, EvictFlow
  <2>5. CASE w.err # PFE_OK
    <3>1. Written(w.disk)
      BY <2>3, FlushWritten
    <3> QED  BY <1>2, <2>2, <2>5, <3>1
  <2> QED  BY <2>4, <2>5
<1> QED
  BY <1>4, <1>5, <1>6, <1>7

(* The frame just claimed, at the head of the list, is that of no page. *)
LEMMA ClaimedHoldsNone ==
    ASSUME NEW b, Claimed(b), NEW g \in FD, NEW q \in PageNum
    PROVE  b.hash[<<g, q>>] # Head(b.list)
<1>1. Head(b.list) \in Frame
  <2>1. b \in BufType /\ IsInjective(b.list) /\ b.list # << >>
    BY DEF Claimed, Pool
  <2>2. Head(b.list) \in ToSet(b.list)
    BY <2>1, TailElements DEF BufType
  <2> QED  BY <2>1, <2>2 DEF BufType, ToSet
<1> QED
  BY <1>1 DEF Claimed, Holds, Frame, NoFrame

(* Entering a page moves no other, and giving the frame back moves none. *)
LEMMA EnterStays ==
    ASSUME NEW b, NEW d, Claimed(b), NEW fd \in FD, NEW p \in PageNum,
           NEW frame, NEW o \in Enter(Outcome(b, d, PFE_OK), fd, p, frame)
    PROVE  /\ o.disk = d
           /\ \A g \in FD, q \in PageNum :
                \/ o.err = PFE_OK /\ <<g, q>> \in {<<fd, p>>}
                \/ Stays(b, o.buf, g, q)
           /\ o.err = PFE_OK => Held(o.buf, fd, p) /\ At(o.buf, fd, p) = frame
<1> DEFINE f == Head(b.list)
           c == [PFhashInsert(b, fd, p, f) EXCEPT !.frame[f] = frame]
           a == [b EXCEPT !.frame[f].fpage = frame.fpage]
<1>1. b \in BufType /\ IsInjective(b.list) /\ b.list # << >>
  BY DEF Claimed, Pool
<1>2. f \in ToSet(b.list) /\ f \in Frame
  <2>1. f \in ToSet(b.list)
    BY <1>1, TailElements DEF BufType
  <2> QED  BY <1>1, <2>1 DEF BufType, ToSet
<1>3. o = Outcome(c, d, PFE_OK) \/ o = Outcome(Abandon(a), d, PFE_NOMEM)
  BY DEF Enter, GiveBack, Outcome
<1>4. b.hash \in [FD \X PageNum -> Frame \cup {NoFrame}] /\ b.frame \in [Frame -> PFbpage]
  BY <1>1 DEF BufType
<1>5. \A g \in FD, q \in PageNum : b.hash[<<g, q>>] # f
  BY ClaimedHoldsNone
<1>6. \A g \in FD, q \in PageNum : Held(b, g, q) => b.hash[<<g, q>>] \in Frame
  <2>1. \A g \in FD, q \in PageNum : <<g, q>> \in FD \X PageNum
    OBVIOUS
  <2> QED  BY <1>4, <2>1 DEF Held
<1>7. a.list = b.list
  BY <1>1 DEF BufType
<1>12. \A h \in Frame : h # f => a.frame[h] = b.frame[h]
  BY <1>1, <1>4 DEF BufType
<1>13. a.hash = b.hash /\ DOMAIN a.frame = Frame
  BY <1>1, <1>4 DEF BufType
<1>8. CASE o = Outcome(c, d, PFE_OK)
  <2>1. c.hash = [b.hash EXCEPT ![<<fd, p>>] = f] /\ c.frame = [b.frame EXCEPT ![f] = frame]
    BY <1>1 DEF PFhashInsert, BufType
  <2> HIDE DEF c, f
  <2>2. \A g \in FD, q \in PageNum :
          c.hash[<<g, q>>] = IF g = fd /\ q = p THEN f ELSE b.hash[<<g, q>>]
    <3>1. f \in Frame \cup {NoFrame}
      BY <1>2
    <3>2. \A g \in FD, q \in PageNum :
            [b.hash EXCEPT ![<<fd, p>>] = f][<<g, q>>] =
              IF g = fd /\ q = p THEN f ELSE b.hash[<<g, q>>]
      BY <1>4, <3>1, HashExcept
    <3> QED  BY <2>1, <3>2, ZenonT(60)
  <2>3. \A h \in Frame : c.frame[h] = IF h = f THEN frame ELSE b.frame[h]
    BY <1>2, <1>4, <2>1
  <2>4. o.buf = c /\ o.disk = d /\ o.err = PFE_OK
    BY <1>8 DEF Outcome
  <2>5. f # NoFrame
    BY <1>2 DEF Frame, NoFrame
  <2> QED  BY <1>2, <1>5, <1>6, <2>2, <2>3, <2>4, <2>5 DEF Stays, Held, At
<1>9. CASE o = Outcome(Abandon(a), d, PFE_NOMEM)
  <2>1. o.buf = Abandon(a) /\ o.disk = d /\ o.err # PFE_OK
    BY <1>9 DEF Outcome, PFE_NOMEM, PFE_OK
  <2>2. Abandon(a).hash = a.hash /\ Abandon(a).frame = a.frame
    <3>1. a \in [list : {a.list}, free : {a.free}, num : {a.num}, frame : {a.frame}, hash : {a.hash}]
      BY <1>1 DEF BufType
    <3> HIDE DEF a
    <3> QED  BY <3>1 DEF Abandon, PFbufInsertFree, PFbufUnlink
  <2> HIDE DEF a, f
  <2> QED  BY <1>5, <1>6, <1>12, <1>13, <2>1, <2>2 DEF Stays, Held, At
<1> QED
  BY <1>3, <1>8, <1>9

(***************************************************************************)
(* PFbufGet and PFbufAlloc.  v is the page as it was before it was fixed:  *)
(* what the pool had, and else what is on disk or, for a new page, what    *)
(* happened to be in the frame.                                            *)
(***************************************************************************)
OnFrame(fd, p, fp) == [fd |-> fd, page |-> p, dirty |-> FALSE, fixed |-> FALSE, fpage |-> fp]

(* v, but fixed. *)
IsFixed(w, v) == w.fixed /\ (w.dirty <=> v.dirty) /\ w.fpage = v.fpage

Fetched(fd, p, c, e, v) ==
    /\ p \in PageNum
    /\ Flow(c, e, {<<fd, p>>})
    /\ Held(c, fd, p)
    /\ ~buf.frame[c.hash[<<fd, p>>]].fixed
    /\ IF Held(buf, fd, p)
       THEN /\ c.hash[<<fd, p>>] = buf.hash[<<fd, p>>]
            /\ e = disk
            /\ v = At(buf, fd, p)
       ELSE /\ p < e[PFftab[fd].fname].len
            /\ v = OnFrame(fd, p, e[PFftab[fd].fname].page[p])

LEMMA GetFlow ==
    ASSUME BufOK(buf), disk \in DiskType, PFftab \in FtabType,
           NEW fd \in FD, PFftab[fd].fname # NULL, NEW p \in Int,
           NEW o \in PFbufGet(fd, p)
    PROVE  /\ o.err # PFE_OK => Flow(o.buf, o.disk, {})
           /\ o.err = PFE_OK =>
                \E v \in PFbpage : /\ Fetched(fd, p, o.buf, o.disk, v)
                                   /\ ~v.fixed
                                   /\ IsFixed(At(o.buf, fd, p), v)
<1> DEFINE f == PFhashFind(buf, fd, p)
<1>0. Served(fd, p, o)
  BY GetOK
<1>1. CASE f = NoFrame
  <2>1. PICK a \in PFbufInternalAlloc(fd) : o \in IF a.err # PFE_OK THEN {a} ELSE Fetch(a, fd, p)
    BY <1>1 DEF PFbufGet
  <2>2. Flow(a.buf, a.disk, {})
    BY InternalAllocFlow
  <2>3. CASE a.err # PFE_OK
    BY <2>1, <2>2, <2>3
  <2>4. CASE a.err = PFE_OK
    <3> DEFINE b   == a.buf
               old == b.frame[Head(b.list)].fpage
    <3>1. Claimed(b) /\ a.disk \in DiskType
      BY <2>4, InternalAllocOK
    <3>2. PICK r \in PFreadfcn(a.disk, PFftab[fd].fname, p, old) :
             o \in IF r.err # PFE_OK
                   THEN {Outcome(Abandon(b), a.disk, r.err)}
                   ELSE Enter(a, fd, p, [fd |-> fd, page |-> p, dirty |-> FALSE,
                                         fixed |-> TRUE, fpage |-> r.fpage])
      BY <2>1, <2>4 DEF Fetch
    <3> HIDE DEF old
    <3>3. CASE r.err # PFE_OK
      <4>1. o.buf = Abandon(b) /\ o.disk = a.disk /\ o.err # PFE_OK
        BY <3>2, <3>3 DEF Outcome
      <4>2. Abandon(b).hash = b.hash /\ Abandon(b).frame = b.frame
        <5>1. b \in [list : {b.list}, free : {b.free}, num : {b.num}, frame : {b.frame}, hash : {b.hash}]
          BY <3>1 DEF Claimed, Pool, BufType
        <5> HIDE DEF b
        <5> QED  BY <5>1 DEF Abandon, PFbufInsertFree, PFbufUnlink
      <4>3. \A g \in FD, q \in PageNum : Stays(b, o.buf, g, q)
        BY <4>1, <4>2 DEF Stays, At
      <4> QED  BY <2>2, <4>1, <4>3, FlowThen
    <3>4. CASE r.err = PFE_OK
      <4>1. /\ p \in PageNum
            /\ p < a.disk[PFftab[fd].fname].len
            /\ r.fpage = a.disk[PFftab[fd].fname].page[p]
        <5>1. p \in PageNum /\ ~(p >= a.disk[PFftab[fd].fname].len)
              /\ r.fpage = a.disk[PFftab[fd].fname].page[p]
          BY <3>4 DEF PFreadfcn, PFE_OK, PFE_UNIX, PFE_INCOMPLETEREAD
        <5>2. a.disk[PFftab[fd].fname].len \in Int /\ p \in Int
          BY <3>1, SMTT(40) DEF DiskType, File, FtabType, PFftab_ele
        <5> QED  BY <5>1, <5>2
      <4> DEFINE w == [fd |-> fd, page |-> p, dirty |-> FALSE, fixed |-> TRUE,
                       fpage |-> r.fpage]
      <4>2. o \in Enter(Outcome(b, a.disk, PFE_OK), fd, p, w)
        BY <3>2, <3>4 DEF Enter, Outcome
      <4>3. IsFixed(w, OnFrame(fd, p, r.fpage))
        BY DEF IsFixed, OnFrame
      <4> HIDE DEF w, b
      <4>4. /\ o.disk = a.disk
            /\ \A g \in FD, q \in PageNum :
                 (o.err = PFE_OK /\ <<g, q>> \in {<<fd, p>>}) \/ Stays(b, o.buf, g, q)
            /\ o.err = PFE_OK => Held(o.buf, fd, p) /\ At(o.buf, fd, p) = w
        BY <3>1, <4>1, <4>2, EnterStays
      <4>5. o.err # PFE_OK => Flow(o.buf, o.disk, {})
        BY <2>2, <4>4, FlowThen DEF b
      <4>6. ASSUME o.err = PFE_OK
            PROVE  Fetched(fd, p, o.buf, o.disk, OnFrame(fd, p, r.fpage))
        <5>1. Flow(o.buf, o.disk, {<<fd, p>>})
          BY <2>2, <4>4, FlowThen DEF b
        <5>2. ~Held(buf, fd, p)
          BY <1>1, <4>1 DEF PFhashFind, Held
        <5>3. ~buf.frame[o.buf.hash[<<fd, p>>]].fixed
          BY <1>0, <4>6 DEF Served
        <5> QED  BY <4>1, <4>4, <4>6, <5>1, <5>2, <5>3 DEF Fetched
      <4>7. OnFrame(fd, p, r.fpage) \in PFbpage /\ ~OnFrame(fd, p, r.fpage).fixed
        <5>1. r.fpage \in PFfpage
          BY <3>1, <4>1 DEF DiskType, File, FtabType, PFftab_ele
        <5> QED  BY <4>1, <5>1 DEF OnFrame, PFbpage
      <4> QED  BY <4>3, <4>4, <4>5, <4>6, <4>7
    <3> QED  BY <3>3, <3>4
  <2> QED  BY <2>3, <2>4
<1>2. CASE f # NoFrame /\ buf.frame[f].fixed
  <2>1. o = Outcome(buf, disk, PFE_PAGEFIXED)
    BY <1>2 DEF PFbufGet
  <2> QED  BY <2>1, StillFlow DEF Outcome, PFE_OK, PFE_PAGEFIXED
<1>3. CASE f # NoFrame /\ ~buf.frame[f].fixed
  <2> DEFINE v == buf.frame[f]
             c == [buf EXCEPT !.frame[f].fixed = TRUE]
  <2>1. o = Outcome(c, disk, PFE_OK)
    BY <1>3 DEF PFbufGet
  <2>2. /\ p \in PageNum /\ f \in Frame /\ v \in PFbpage /\ f = buf.hash[<<fd, p>>]
    BY <1>3, FindOK
  <2>3. c.hash = buf.hash /\ c.frame = [buf.frame EXCEPT ![f].fixed = TRUE]
    BY DEF BufOK, Pool, BufType
  <2>4. \A g \in Frame : c.frame[g] = IF g = f THEN [v EXCEPT !.fixed = TRUE] ELSE buf.frame[g]
    BY <2>2, <2>3 DEF BufOK, Pool, BufType
  <2>5. o.buf = c /\ o.disk = disk /\ o.err = PFE_OK
    BY <2>1 DEF Outcome
  <2> HIDE DEF c
  <2>6. Held(buf, fd, p) /\ At(buf, fd, p) = v
    BY <1>3, <2>2 DEF Held, At
  <2> HIDE DEF f, v
  <2>7. \A g \in FD, q \in PageNum : <<g, q>> \in {<<fd, p>>} \/ Stays(buf, c, g, q)
    <3>1. SUFFICES ASSUME NEW g \in FD, NEW q \in PageNum, <<g, q>> # <<fd, p>>
                   PROVE  Stays(buf, c, g, q)
      OBVIOUS
    <3>2. Held(buf, g, q) => buf.hash[<<g, q>>] # f /\ buf.hash[<<g, q>>] \in Frame
      BY <2>2, <2>6, <3>1, HeldPage, OnePageAFrame
    <3> QED  BY <2>3, <2>4, <3>2 DEF Stays, At
  <2>8. Flow(c, disk, {<<fd, p>>})
    BY <2>7, StillFlow, FlowThen
  <2>9. Fetched(fd, p, o.buf, o.disk, v)
    BY <1>3, <2>2, <2>3, <2>5, <2>6, <2>8 DEF Fetched, Held, At, f
  <2>10. IsFixed(At(o.buf, fd, p), v)
    <3>1. At(o.buf, fd, p) = [v EXCEPT !.fixed = TRUE]
      BY <2>2, <2>3, <2>4, <2>5 DEF At
    <3>2. IsFixed([v EXCEPT !.fixed = TRUE], v)
      BY <2>2 DEF IsFixed, PFbpage
    <3> QED  BY <3>1, <3>2
  <2> QED  BY <1>3, <2>2, <2>5, <2>9, <2>10 DEF v, f
<1> QED
  BY <1>1, <1>2, <1>3

LEMMA AllocFlow ==
    ASSUME BufOK(buf), disk \in DiskType, NEW fd \in FD, NEW p \in PageNum,
           NEW o \in PFbufAlloc(fd, p)
    PROVE  /\ o.err # PFE_OK => Flow(o.buf, o.disk, {})
           /\ o.err = PFE_OK =>
                \E fp \in PFfpage :
                  /\ Flow(o.buf, o.disk, {<<fd, p>>})
                  /\ ~Held(buf, fd, p)
                  /\ Held(o.buf, fd, p)
                  /\ ~buf.frame[o.buf.hash[<<fd, p>>]].fixed
                  /\ IsFixed(At(o.buf, fd, p), OnFrame(fd, p, fp))
<1>0. Served(fd, p, o)
  BY AllocOK
<1>1. CASE PFhashFind(buf, fd, p) # NoFrame
  <2>1. o = Outcome(buf, disk, PFE_PAGEINBUF)
    BY <1>1 DEF PFbufAlloc
  <2> QED  BY <2>1, StillFlow DEF Outcome, PFE_OK, PFE_PAGEINBUF
<1>2. CASE PFhashFind(buf, fd, p) = NoFrame
  <2>1. PICK a \in PFbufInternalAlloc(fd) :
           o \in IF a.err # PFE_OK THEN {a}
                 ELSE Enter(a, fd, p,
                            [fd |-> fd, page |-> p, dirty |-> FALSE, fixed |-> TRUE,
                             fpage |-> a.buf.frame[Head(a.buf.list)].fpage])
    BY <1>2 DEF PFbufAlloc
  <2>2. Flow(a.buf, a.disk, {})
    BY InternalAllocFlow
  <2>3. CASE a.err # PFE_OK
    BY <2>1, <2>2, <2>3
  <2>4. CASE a.err = PFE_OK
    <3> DEFINE old == a.buf.frame[Head(a.buf.list)].fpage
               w   == [fd |-> fd, page |-> p, dirty |-> FALSE, fixed |-> TRUE, fpage |-> old]
    <3>1. IsFixed(w, OnFrame(fd, p, old))
      BY SMTT(40) DEF IsFixed, OnFrame
    <3>2. o \in Enter(Outcome(a.buf, a.disk, PFE_OK), fd, p, w)
      BY <2>1, <2>4 DEF Enter, Outcome
    <3>3. Claimed(a.buf)
      BY <2>4, InternalAllocOK
    <3>4. old \in PFfpage
      <4>1. a.buf \in BufType /\ a.buf.list # << >> /\ IsInjective(a.buf.list)
        BY <3>3 DEF Claimed, Pool
      <4>2. Head(a.buf.list) \in ToSet(a.buf.list)
        BY <4>1, TailElements DEF BufType
      <4> QED  BY <4>1, <4>2 DEF BufType, ToSet, PFbpage
    <3> HIDE DEF w, old
    <3>5. /\ o.disk = a.disk
          /\ \A g \in FD, q \in PageNum :
               (o.err = PFE_OK /\ <<g, q>> \in {<<fd, p>>}) \/ Stays(a.buf, o.buf, g, q)
          /\ o.err = PFE_OK => Held(o.buf, fd, p) /\ At(o.buf, fd, p) = w
      BY <3>2, <3>3, EnterStays
    <3>6. o.err # PFE_OK => Flow(o.buf, o.disk, {})
      BY <2>2, <3>5, FlowThen
    <3>7. o.err = PFE_OK => Flow(o.buf, o.disk, {<<fd, p>>})
      BY <2>2, <3>5, FlowThen
    <3>8. ~Held(buf, fd, p)
      BY <1>2 DEF PFhashFind, Held
    <3>9. o.err = PFE_OK => ~buf.frame[o.buf.hash[<<fd, p>>]].fixed
      BY <1>0 DEF Served
    <3> QED  BY <3>1, <3>4, <3>5, <3>6, <3>7, <3>8, <3>9
  <2> QED  BY <2>3, <2>4
<1> QED
  BY <1>1, <1>2

-----------------------------------------------------------------------------
(* What is done to a page in the pool. *)

(* No page but <<fd, p>> is touched, and that one stays in its frame. *)
Only(b, c, fd, p) ==
    /\ c.hash = b.hash
    /\ \A g \in FD, q \in PageNum : <<g, q>> \in {<<fd, p>>} \/ Stays(b, c, g, q)

LEMMA EditOnly ==
    ASSUME NEW b, BufOK(b), NEW fd \in FD, NEW p \in PageNum, Held(b, fd, p),
           NEW c, c.hash = b.hash,
           \A h \in Frame : h # b.hash[<<fd, p>>] => c.frame[h] = b.frame[h]
    PROVE  /\ Only(b, c, fd, p)
           /\ Held(c, fd, p)
           /\ At(c, fd, p) = c.frame[b.hash[<<fd, p>>]]
<1>1. SUFFICES ASSUME NEW g \in FD, NEW q \in PageNum, <<g, q>> # <<fd, p>>
               PROVE  Stays(b, c, g, q)
  BY DEF Only, Held, At
<1>2. Held(b, g, q) => b.hash[<<g, q>>] # b.hash[<<fd, p>>] /\ b.hash[<<g, q>>] \in Frame
  BY <1>1, HeldPage, OnePageAFrame
<1> QED
  BY <1>2 DEF Stays, At

LEMMA UnfixPage ==
    ASSUME NEW b, BufOK(b), NEW fd \in FD, NEW p \in PageNum, Held(b, fd, p),
           NEW dirty \in BOOLEAN
    PROVE  LET c == PFbufUnfix(b, fd, p, dirty)
           IN  /\ Only(b, c, fd, p) /\ Held(c, fd, p)
               /\ ~At(c, fd, p).fixed
               /\ At(c, fd, p).dirty <=> At(b, fd, p).dirty \/ dirty
               /\ At(c, fd, p).fpage = At(b, fd, p).fpage
<1> DEFINE f == PFhashFind(b, fd, p)
           c == PFbufUnfix(b, fd, p, dirty)
<1>1. f = b.hash[<<fd, p>>]
  BY DEF PFhashFind
<1>2. f # NoFrame
  BY <1>1 DEF Held
<1>9. PFhashFind(b, fd, p) # NoFrame
  BY <1>2
<1>3. /\ c.hash = b.hash
      /\ ~c.frame[f].fixed
      /\ c.frame[f].dirty <=> b.frame[f].dirty \/ dirty
      /\ c.frame[f].fpage = b.frame[f].fpage
      /\ \A h \in Frame : h # f => c.frame[h] = b.frame[h]
  BY <1>9, UnfixOK
<1>7. \A h \in Frame : h # b.hash[<<fd, p>>] => c.frame[h] = b.frame[h]
  BY <1>1, <1>3
<1> HIDE DEF c, f
<1>6. At(b, fd, p) = b.frame[f] /\ b.frame[f] \in PFbpage
  BY <1>1, HeldPage
<1>5. Only(b, c, fd, p) /\ Held(c, fd, p) /\ At(c, fd, p) = c.frame[f]
  BY <1>1, <1>3, <1>7, EditOnly
<1> QED
  BY <1>3, <1>5, <1>6 DEF c

LEMMA FoundFrame ==
    ASSUME NEW b, BufOK(b), NEW fd \in FD, NEW p \in PageNum, Held(b, fd, p),
           NEW f, f = PFhashFind(b, fd, p)
    PROVE  /\ b \in BufType
           /\ f \in Frame /\ f \in ToSet(b.list)
           /\ b.frame[f] = At(b, fd, p) /\ b.frame[f] \in PFbpage
           /\ b.frame[f].fpage \in PFfpage
<1>1. b \in BufType
  BY DEF BufOK, Pool
<1>2. f = b.hash[<<fd, p>>]
  BY DEF PFhashFind
<1>3. /\ f \in Frame /\ f \in ToSet(b.list)
      /\ b.frame[f] = At(b, fd, p) /\ b.frame[f] \in PFbpage
  BY <1>2, HeldPage
<1> QED
  BY <1>1, <1>3 DEF PFbpage

LEMMA MarkUsedPage ==
    ASSUME NEW b, BufOK(b), NEW fd \in FD, NEW p \in PageNum, Held(b, fd, p)
    PROVE  LET c == MarkUsed(b, fd, p)
           IN  /\ Only(b, c, fd, p) /\ Held(c, fd, p)
               /\ At(c, fd, p).fixed <=> At(b, fd, p).fixed
               /\ At(c, fd, p).dirty
               /\ At(c, fd, p).fpage.nextfree = PF_PAGE_USED
               /\ At(c, fd, p).fpage.data = At(b, fd, p).fpage.data
<1> DEFINE f == PFhashFind(b, fd, p)
           v == [b.frame[f] EXCEPT !.dirty = TRUE, !.fpage.nextfree = PF_PAGE_USED]
           d == [b EXCEPT !.frame[f].dirty = TRUE]
           e == [b EXCEPT !.frame[f] = v]
<1>1. /\ b \in BufType /\ f \in Frame
      /\ b.frame[f] = At(b, fd, p) /\ b.frame[f] \in PFbpage /\ b.frame[f].fpage \in PFfpage
  BY FoundFrame
<1>2. MarkUsed(b, fd, p) = e
  <2>1. d.hash = b.hash
    BY <1>1 DEF BufType
  <2>2. PFbufUsed(b, fd, p) = d /\ PFhashFind(d, fd, p) = f
    BY <2>1 DEF PFbufUsed, PFhashFind
  <2>3. MarkUsed(b, fd, p) = [d EXCEPT !.frame[f].fpage.nextfree = PF_PAGE_USED]
    BY <2>2 DEF MarkUsed
  <2> HIDE DEF f
  <2>4. [d EXCEPT !.frame[f].fpage.nextfree = PF_PAGE_USED] = e
    BY <1>1 DEF BufType, PFbpage
  <2> QED  BY <2>3, <2>4
<1>4. /\ v.fixed = b.frame[f].fixed /\ v.dirty = TRUE
      /\ v.fpage.nextfree = PF_PAGE_USED /\ v.fpage.data = b.frame[f].fpage.data
  BY <1>1 DEF PFbpage, PFfpage
<1>6. /\ e.hash = b.hash /\ e.frame[f] = v
      /\ \A h \in Frame : h # f => e.frame[h] = b.frame[h]
  BY <1>1 DEF BufType
<1>7. f = b.hash[<<fd, p>>]
  BY DEF PFhashFind
<1> HIDE DEF v, f, e
<1>3. /\ Only(b, e, fd, p) /\ Held(e, fd, p)
      /\ At(e, fd, p) = v
  BY <1>6, <1>7, EditOnly
<1> HIDE DEF e
<1> QED
  BY <1>1, <1>2, <1>3, <1>4

LEMMA FreePage ==
    ASSUME NEW b, BufOK(b), NEW fd \in FD, NEW p \in PageNum, Held(b, fd, p), PFTypeOK
    PROVE  LET c == Free(b, fd, p)
           IN  /\ Only(b, c, fd, p) /\ Held(c, fd, p)
               /\ ~At(c, fd, p).fixed
               /\ At(c, fd, p).dirty
               /\ At(c, fd, p).fpage.nextfree = PFftab[fd].hdr.firstfree
<1> DEFINE f == PFhashFind(b, fd, p)
           v == [b.frame[f] EXCEPT !.fpage.nextfree = PFftab[fd].hdr.firstfree]
           e == [b EXCEPT !.frame[f] = v]
           yes == TRUE
           c == PFbufUnfix(e, fd, p, yes)
<1>1. /\ b \in BufType /\ f \in Frame /\ f \in ToSet(b.list)
      /\ b.frame[f] \in PFbpage /\ b.frame[f].fpage \in PFfpage
  BY FoundFrame
<1>2. Free(b, fd, p) = c
  <2>1. [b EXCEPT !.frame[f].fpage.nextfree = PFftab[fd].hdr.firstfree] = e
    BY <1>1 DEF BufType
  <2> QED  BY <2>1 DEF Free, yes
<1>3. v \in PFbpage /\ v.fd = b.frame[f].fd /\ v.page = b.frame[f].page
      /\ v.fpage.nextfree = PFftab[fd].hdr.firstfree
  <2>1. PFftab[fd].hdr.firstfree \in Link
    BY DEF PFTypeOK, PFftab_ele, PFhdr_str
  <2> QED  BY <1>1, <2>1 DEF PFbpage, PFfpage
<1>5. BufOK(e)
  BY <1>1, <1>3, EditOK
<1>9. /\ e.hash = b.hash /\ e.frame[f] = v
      /\ \A h \in Frame : h # f => e.frame[h] = b.frame[h]
  BY <1>1 DEF BufType
<1>10. f = b.hash[<<fd, p>>]
  BY DEF PFhashFind
<1> HIDE DEF v, f, e
<1>4. Only(b, e, fd, p) /\ Held(e, fd, p) /\ At(e, fd, p) = v
  BY <1>9, <1>10, EditOnly
<1> HIDE DEF e
<1>6. yes \in BOOLEAN /\ yes
  BY DEF yes
<1> HIDE DEF yes
<1>7. /\ Only(e, c, fd, p) /\ Held(c, fd, p)
      /\ ~At(c, fd, p).fixed
      /\ At(c, fd, p).dirty <=> At(e, fd, p).dirty \/ yes
      /\ At(c, fd, p).fpage = At(e, fd, p).fpage
  BY <1>4, <1>5, <1>6, UnfixPage
<1> HIDE DEF c
<1>8. Only(b, c, fd, p)
  BY <1>4, <1>7 DEF Only, Stays, Held, At
<1> QED
  BY <1>2, <1>3, <1>4, <1>6, <1>7, <1>8

LEMMA MarkDirtyPage ==
    ASSUME NEW b, BufOK(b), NEW fd \in FD, NEW p \in PageNum, Held(b, fd, p)
    PROVE  LET c == PFbufMarkDirty(b, fd, p)
           IN  /\ Only(b, c, fd, p) /\ Held(c, fd, p)
               /\ At(c, fd, p).fixed <=> At(b, fd, p).fixed
               /\ At(c, fd, p).dirty
               /\ At(c, fd, p).fpage = At(b, fd, p).fpage
<1> DEFINE f == PFhashFind(b, fd, p)
           c == PFbufMarkDirty(b, fd, p)
<1>1. /\ b \in BufType /\ f \in Frame
      /\ b.frame[f] = At(b, fd, p) /\ b.frame[f] \in PFbpage
  BY FoundFrame
<1>2. f = b.hash[<<fd, p>>]
  BY DEF PFhashFind
<1>3. c = [b EXCEPT !.frame[f].dirty = TRUE]
  BY DEF PFbufMarkDirty
<1> HIDE DEF c, f
<1>4. /\ c.hash = b.hash
      /\ c.frame[f].dirty
      /\ c.frame[f].fixed <=> b.frame[f].fixed
      /\ c.frame[f].fpage = b.frame[f].fpage
      /\ \A h \in Frame : h # f => c.frame[h] = b.frame[h]
  BY <1>1, <1>3 DEF BufType, PFbpage
<1>5. Only(b, c, fd, p) /\ Held(c, fd, p) /\ At(c, fd, p) = c.frame[f]
  BY <1>2, <1>4, EditOnly
<1> QED
  BY <1>1, <1>4, <1>5 DEF c

WriteTo(b, fd, p, d) == [b EXCEPT !.frame[PFhashFind(b, fd, p)].fpage.data = d]

LEMMA WritePage ==
    ASSUME NEW b, BufOK(b), NEW fd \in FD, NEW p \in PageNum, Held(b, fd, p),
           NEW d
    PROVE  LET c == WriteTo(b, fd, p, d)
           IN  /\ Only(b, c, fd, p) /\ Held(c, fd, p)
               /\ At(c, fd, p).fixed <=> At(b, fd, p).fixed
               /\ At(c, fd, p).dirty <=> At(b, fd, p).dirty
               /\ At(c, fd, p).fpage.nextfree = At(b, fd, p).fpage.nextfree
               /\ At(c, fd, p).fpage.data = d
<1> DEFINE f == PFhashFind(b, fd, p)
           c == WriteTo(b, fd, p, d)
<1>1. /\ b \in BufType /\ f \in Frame
      /\ b.frame[f] = At(b, fd, p) /\ b.frame[f] \in PFbpage /\ b.frame[f].fpage \in PFfpage
  BY FoundFrame
<1>2. f = b.hash[<<fd, p>>]
  BY DEF PFhashFind
<1>3. c = [b EXCEPT !.frame[f].fpage.data = d]
  BY DEF WriteTo
<1> HIDE DEF f, c
<1>4. /\ c.hash = b.hash
      /\ c.frame[f].dirty <=> b.frame[f].dirty
      /\ c.frame[f].fixed <=> b.frame[f].fixed
      /\ c.frame[f].fpage.nextfree = b.frame[f].fpage.nextfree
      /\ c.frame[f].fpage.data = d
      /\ \A h \in Frame : h # f => c.frame[h] = b.frame[h]
  BY <1>1, <1>3 DEF BufType, PFbpage, PFfpage
<1>5. Only(b, c, fd, p) /\ Held(c, fd, p) /\ At(c, fd, p) = c.frame[f]
  BY <1>2, <1>4, EditOnly
<1> QED
  BY <1>1, <1>4, <1>5 DEF c

-----------------------------------------------------------------------------
(***************************************************************************)
(* What a step does, page by page.  Every step of PFNext is of one of the  *)
(* kinds below, StepShapes; the invariants are proved of the kinds.        *)
(***************************************************************************)
PageAt(fd, p) == At(buf, fd, p)

IsOpen(fd) == PFftab[fd].fname # NULL

(* Nothing is done, or pages have left the pool. *)
Still == UNCHANGED <<disk, PFftab, buf, touched>>

Moved == Flow(buf', disk', {}) /\ UNCHANGED <<PFftab, touched>>

(* Every descriptor but fd is what it was; fd has the header it is given. *)
OthersSame(fd) == \A g \in FD : g # fd => PFftab'[g] = PFftab[g]

NewHdr(fd, first, num) ==
    /\ OthersSame(fd)
    /\ PFftab'[fd].fname = PFftab[fd].fname
    /\ PFftab'[fd].hdrchanged
    /\ PFftab'[fd].hdr.firstfree = first
    /\ PFftab'[fd].hdr.numpages = num

(* PFbufGet, and the page is kept if it is used. *)
Got(fd, p) ==
    /\ IsOpen(fd)
    /\ \E v \in PFbpage :
         /\ Fetched(fd, p, buf', disk', v)
         /\ ~v.fixed
         /\ PageAt(fd, p)'.dirty <=> v.dirty
         /\ PageAt(fd, p)'.fpage = v.fpage
         /\ PageAt(fd, p)'.fixed <=> v.fpage.nextfree = PF_PAGE_USED
    /\ UNCHANGED <<PFftab, touched>>

(* The page is given out by PF_AllocPage, with contents d. *)
Taken(fd, p, d) ==
    /\ IsOpen(fd) /\ Alone(fd)
    /\ Held(buf', fd, p)
    /\ ~buf.frame[buf'.hash[<<fd, p>>]].fixed
    /\ PageAt(fd, p)'.fixed
    /\ PageAt(fd, p)'.dirty
    /\ PageAt(fd, p)'.fpage.nextfree = PF_PAGE_USED
    /\ PageAt(fd, p)'.fpage.data = d
    /\ touched' = touched

Recycled(fd, p) ==
    /\ p = PFftab[fd].hdr.firstfree
    /\ \E v \in PFbpage :
         /\ Fetched(fd, p, buf', disk', v)
         /\ ~v.fixed
         /\ Taken(fd, p, v.fpage.data)
         /\ NewHdr(fd, v.fpage.nextfree, PFftab[fd].hdr.numpages)

Extended(fd, p) ==
    /\ p = PFftab[fd].hdr.numpages
    /\ PFftab[fd].hdr.firstfree = PF_PAGE_LIST_END
    /\ Flow(buf', disk', {<<fd, p>>})
    /\ ~Held(buf, fd, p)
    /\ \E d \in Data : Taken(fd, p, d)
    /\ NewHdr(fd, PF_PAGE_LIST_END, p + 1)

Freed(fd, p) ==
    /\ IsOpen(fd) /\ Alone(fd)
    /\ \E v \in PFbpage : /\ Fetched(fd, p, buf', disk', v)
                          /\ ~v.fixed
                          /\ v.fpage.nextfree = PF_PAGE_USED
    /\ ~PageAt(fd, p)'.fixed
    /\ PageAt(fd, p)'.dirty
    /\ PageAt(fd, p)'.fpage.nextfree = PFftab[fd].hdr.firstfree
    /\ NewHdr(fd, p, PFftab[fd].hdr.numpages)
    /\ touched' = touched

(* Something is done to a page that is fixed. *)
OnFixed(fd, p) ==
    /\ IsOpen(fd)
    /\ Held(buf, fd, p) /\ PageAt(fd, p).fixed
    /\ Only(buf, buf', fd, p) /\ Held(buf', fd, p)
    /\ UNCHANGED <<disk, PFftab>>

Unpinned(fd, p, dirty) ==
    /\ OnFixed(fd, p)
    /\ \/ Undisciplined
       \/ dirty /\ Alone(fd)
       \/ ~dirty /\ buf.hash[<<fd, p>>] \notin touched
    /\ ~PageAt(fd, p)'.fixed
    /\ PageAt(fd, p)'.dirty <=> PageAt(fd, p).dirty \/ dirty
    /\ PageAt(fd, p)'.fpage = PageAt(fd, p).fpage
    /\ touched' = touched \ {buf.hash[<<fd, p>>]}

Marked(fd, p) ==
    /\ OnFixed(fd, p) /\ Alone(fd)
    /\ PageAt(fd, p)'.fixed
    /\ PageAt(fd, p)'.dirty
    /\ PageAt(fd, p)'.fpage = PageAt(fd, p).fpage
    /\ touched' = touched \ {buf.hash[<<fd, p>>]}

Wrote(fd, p, d) ==
    /\ OnFixed(fd, p) /\ Alone(fd)
    /\ PageAt(fd, p)'.fixed
    /\ PageAt(fd, p)'.dirty <=> PageAt(fd, p).dirty
    /\ PageAt(fd, p)'.fpage.nextfree = PageAt(fd, p).fpage.nextfree
    /\ PageAt(fd, p)'.fpage.data = d
    /\ touched' = IF PageAt(fd, p).dirty THEN touched
                  ELSE touched \cup {buf.hash[<<fd, p>>]}

(* Files come and go. *)
FileIs(fn, file) ==
    /\ disk'[fn] = file
    /\ \A gn \in Fname : gn # fn => disk'[gn] = disk[gn]
    /\ UNCHANGED <<PFftab, buf, touched>>

Created(fn) == ~disk[fn].exists /\ FileIs(fn, EmptyFile(TRUE))

Destroyed(fn) ==
    /\ \A g \in FD : PFftab[g].fname # fn
    /\ FileIs(fn, EmptyFile(FALSE))

(* The header of fn is read into the free entry fd, which becomes name. *)
Loaded(fd, fn, name) ==
    /\ ~IsOpen(fd)
    /\ disk[fn].exists
    /\ MayOpen(fn)
    /\ OthersSame(fd)
    /\ PFftab'[fd].fname = name
    /\ PFftab'[fd].hdr = disk[fn].hdr
    /\ ~PFftab'[fd].hdrchanged
    /\ UNCHANGED <<disk, buf, touched>>

Closed(fd) ==
    /\ IsOpen(fd)
    /\ \A p \in PageNum : ~Held(buf, fd, p)
    /\ disk' = IF PFftab[fd].hdrchanged
               THEN [disk EXCEPT ![PFftab[fd].fname].hdr = PFftab[fd].hdr]
               ELSE disk
    /\ OthersSame(fd)
    /\ PFftab'[fd].fname = NULL
    /\ UNCHANGED <<buf, touched>>

(* What the proofs of the kinds need of the invariant. *)
LEMMA Basics ==
    ASSUME PFInv
    PROVE  /\ PFTypeOK /\ BufOK(buf) /\ PagesOpen(PFftab, buf) /\ LoopsAreSound
           /\ disk \in DiskType /\ PFftab \in FtabType
           /\ \A fd \in FD : PFftab[fd] \in PFftab_ele /\ PFftab[fd].hdr \in PFhdr_str
BY PFInvParts DEF PFTypeOK, DiskType, FtabType, PFftab_ele

LEMMA GetFails ==
    ASSUME PFInv, NEW fd \in FD, IsOpen(fd), NEW p \in Int, NEW o \in PFbufGet(fd, p),
           o.err # PFE_OK, disk' = o.disk, buf' = o.buf, UNCHANGED <<PFftab, touched>>
    PROVE  Moved
<1>1. BufOK(buf) /\ disk \in DiskType /\ PFftab \in FtabType
  BY Basics
<1>2. Flow(o.buf, o.disk, {})
  BY <1>1, GetFlow DEF IsOpen
<1> QED
  BY <1>2 DEF Moved

(* The page as PFbufGet found it, and as it left it. *)
LEMMA GetFinds ==
    ASSUME PFInv, NEW fd \in FD, IsOpen(fd), NEW p \in Int, NEW o \in PFbufGet(fd, p),
           o.err = PFE_OK
    PROVE  /\ p \in PageNum /\ BufOK(o.buf) /\ Held(o.buf, fd, p)
           /\ FpageOf(o.buf, fd, p) = At(o.buf, fd, p).fpage
           /\ \E v \in PFbpage : /\ Fetched(fd, p, o.buf, o.disk, v)
                                 /\ ~v.fixed
                                 /\ At(o.buf, fd, p).fixed
                                 /\ At(o.buf, fd, p).dirty <=> v.dirty
                                 /\ At(o.buf, fd, p).fpage = v.fpage
<1>1. BufOK(buf) /\ disk \in DiskType /\ PFftab \in FtabType
  BY Basics
<1>2. PICK v \in PFbpage : /\ Fetched(fd, p, o.buf, o.disk, v)
                           /\ ~v.fixed
                           /\ IsFixed(At(o.buf, fd, p), v)
  BY <1>1, GetFlow DEF IsOpen
<1>3. p \in PageNum /\ Held(o.buf, fd, p)
  BY <1>2 DEF Fetched
<1>4. BufOK(o.buf)
  BY <1>1, GetOK DEF Served, IsOpen
<1>5. FpageOf(o.buf, fd, p) = At(o.buf, fd, p).fpage
  BY <1>3 DEF FpageOf, PFhashFind, At
<1> QED
  BY <1>2, <1>3, <1>4, <1>5 DEF IsFixed

LEMMA GetKeeps ==
    ASSUME PFInv, NEW fd \in FD, IsOpen(fd), NEW p \in Int, NEW o \in PFbufGet(fd, p),
           o.err = PFE_OK, FpageOf(o.buf, fd, p).nextfree = PF_PAGE_USED,
           disk' = o.disk, buf' = o.buf, UNCHANGED <<PFftab, touched>>
    PROVE  p \in PageNum /\ Got(fd, p) /\ PageAt(fd, p)'.fixed
<1>1. PICK v \in PFbpage : /\ Fetched(fd, p, o.buf, o.disk, v)
                           /\ ~v.fixed
                           /\ At(o.buf, fd, p).fixed
                           /\ At(o.buf, fd, p).dirty <=> v.dirty
                           /\ At(o.buf, fd, p).fpage = v.fpage
  BY GetFinds
<1>2. p \in PageNum /\ FpageOf(o.buf, fd, p) = At(o.buf, fd, p).fpage
  BY GetFinds
<1> QED
  BY <1>1, <1>2 DEF Got, PageAt, At

LEMMA GetDrops ==
    ASSUME PFInv, NEW fd \in FD, IsOpen(fd), NEW p \in Int, NEW o \in PFbufGet(fd, p),
           o.err = PFE_OK, FpageOf(o.buf, fd, p).nextfree # PF_PAGE_USED,
           disk' = o.disk, buf' = PFbufUnfix(o.buf, fd, p, FALSE), UNCHANGED <<PFftab, touched>>
    PROVE  p \in PageNum /\ Got(fd, p) /\ ~PageAt(fd, p)'.fixed
<1> DEFINE b == o.buf
           no == FALSE
           c == PFbufUnfix(b, fd, p, no)
<1>1. PICK v \in PFbpage : /\ Fetched(fd, p, b, o.disk, v)
                           /\ ~v.fixed
                           /\ At(b, fd, p).fixed
                           /\ At(b, fd, p).dirty <=> v.dirty
                           /\ At(b, fd, p).fpage = v.fpage
  BY GetFinds
<1>2. /\ p \in PageNum /\ BufOK(b) /\ Held(b, fd, p)
      /\ FpageOf(b, fd, p) = At(b, fd, p).fpage
  BY GetFinds
<1>3. no \in BOOLEAN /\ ~no
  OBVIOUS
<1>4. buf' = c
  OBVIOUS
<1> HIDE DEF b, no
<1>5. /\ Only(b, c, fd, p) /\ Held(c, fd, p)
      /\ ~At(c, fd, p).fixed
      /\ At(c, fd, p).dirty <=> At(b, fd, p).dirty \/ no
      /\ At(c, fd, p).fpage = At(b, fd, p).fpage
  BY <1>2, <1>3, UnfixPage
<1> HIDE DEF c
<1>6. Fetched(fd, p, c, o.disk, v)
  <2>1. Flow(c, o.disk, {<<fd, p>>})
    BY <1>1, <1>5, FlowThen DEF Fetched, Only
  <2> QED  BY <1>1, <1>5, <2>1 DEF Fetched, Only
<1>7. At(b, fd, p).fpage.nextfree # PF_PAGE_USED
  BY <1>2 DEF b
<1>8. PageAt(fd, p)' = At(c, fd, p)
  BY <1>4 DEF PageAt, At
<1> QED
  BY <1>1, <1>2, <1>3, <1>4, <1>5, <1>6, <1>7, <1>8 DEF Got

LEMMA NewHeader ==
    ASSUME PFInv, NEW fd \in FD, NEW hdr \in PFhdr_str, PFftab' = ChangeHdr(fd, hdr)
    PROVE  NewHdr(fd, hdr.firstfree, hdr.numpages)
<1>1. PFftab \in [FD -> PFftab_ele]
  BY Basics DEF FtabType
<1> QED
  BY <1>1 DEF ChangeHdr, NewHdr, OthersSame, PFftab_ele

LEMMA MarkUsedTakes ==
    ASSUME NEW fd \in FD, IsOpen(fd), Alone(fd), NEW p \in PageNum,
           NEW b, BufOK(b), Held(b, fd, p), At(b, fd, p).fixed,
           ~buf.frame[b.hash[<<fd, p>>]].fixed,
           NEW e, Flow(b, e, {<<fd, p>>}),
           buf' = MarkUsed(b, fd, p), disk' = e, UNCHANGED touched
    PROVE  /\ Flow(buf', disk', {<<fd, p>>})
           /\ buf'.hash = b.hash
           /\ Taken(fd, p, At(b, fd, p).fpage.data)
<1> DEFINE c == MarkUsed(b, fd, p)
<1>1. /\ Only(b, c, fd, p) /\ Held(c, fd, p)
      /\ At(c, fd, p).fixed <=> At(b, fd, p).fixed
      /\ At(c, fd, p).dirty
      /\ At(c, fd, p).fpage.nextfree = PF_PAGE_USED
      /\ At(c, fd, p).fpage.data = At(b, fd, p).fpage.data
  BY MarkUsedPage
<1>2. buf' = c
  OBVIOUS
<1> HIDE DEF c
<1>3. PageAt(fd, p)' = At(c, fd, p)
  BY <1>2 DEF PageAt, At
<1>4. Flow(c, e, {<<fd, p>>})
  BY <1>1, FlowThen DEF Only
<1> QED
  BY <1>1, <1>2, <1>3, <1>4 DEF Taken, Only

LEMMA RecycleShape ==
    ASSUME PFInv, NEW fd \in FD, IsOpen(fd), Alone(fd), Recycle(fd), UNCHANGED touched
    PROVE  \/ /\ Moved
              /\ \E o \in PFbufGet(fd, PFftab[fd].hdr.firstfree) :
                   o.err # PFE_OK /\ ReturnPage(o.err, PFftab[fd].hdr.firstfree)
           \/ \E p \in PageNum : Recycled(fd, p) /\ ReturnPage(PFE_OK, p)
<1> DEFINE p == PFftab[fd].hdr.firstfree
           next(o) == FpageOf(o.buf, fd, p).nextfree
           hdr(o) == [PFftab[fd].hdr EXCEPT !.firstfree = next(o)]
<1>1. PICK o \in PFbufGet(fd, p) :
         \/ AllocError(fd, p, o)
         \/ /\ o.err = PFE_OK
            /\ disk' = o.disk
            /\ buf' = MarkUsed(o.buf, fd, p)
            /\ PFftab' = ChangeHdr(fd, hdr(o))
            /\ ReturnPage(PFE_OK, p)
  BY DEF Recycle
<1>2. PFftab[fd].hdr \in PFhdr_str
  BY Basics
<1>3. p \in Int
  BY <1>2 DEF PFhdr_str, Link, PageNum, PF_PAGE_LIST_END, PF_PAGE_USED
<1>4. CASE AllocError(fd, p, o)
  <2>1. o.err # PFE_OK /\ disk' = o.disk /\ buf' = o.buf /\ UNCHANGED <<PFftab, touched>>
    BY <1>4 DEF AllocError, Apply
  <2>2. p = PFftab[fd].hdr.firstfree /\ ReturnPage(o.err, p)
    BY <1>4 DEF AllocError
  <2> HIDE DEF p
  <2>3. Moved
    BY <1>3, <2>1, GetFails
  <2> QED  BY <2>1, <2>2, <2>3
<1>5. CASE /\ o.err = PFE_OK
           /\ disk' = o.disk
           /\ buf' = MarkUsed(o.buf, fd, p)
           /\ PFftab' = ChangeHdr(fd, hdr(o))
           /\ ReturnPage(PFE_OK, p)
  <2>0. p = PFftab[fd].hdr.firstfree
    OBVIOUS
  <2> HIDE DEF p
  <2> DEFINE b == o.buf
  <2>1. /\ p \in PageNum /\ BufOK(b) /\ Held(b, fd, p)
        /\ FpageOf(b, fd, p) = At(b, fd, p).fpage
    BY <1>3, <1>5, GetFinds
  <2>2. PICK v \in PFbpage : /\ Fetched(fd, p, b, o.disk, v)
                             /\ ~v.fixed
                             /\ At(b, fd, p).fixed
                             /\ At(b, fd, p).dirty <=> v.dirty
                             /\ At(b, fd, p).fpage = v.fpage
    BY <1>3, <1>5, GetFinds
  <2>3. b = o.buf /\ buf' = MarkUsed(b, fd, p) /\ disk' = o.disk
    BY <1>5
  <2> HIDE DEF b
  <2>4. Flow(b, o.disk, {<<fd, p>>}) /\ ~buf.frame[b.hash[<<fd, p>>]].fixed
    BY <2>2 DEF Fetched
  <2>5. /\ Flow(buf', disk', {<<fd, p>>})
        /\ buf'.hash = b.hash
        /\ Taken(fd, p, At(b, fd, p).fpage.data)
    BY <2>1, <2>2, <2>3, <2>4, MarkUsedTakes
  <2>6. Fetched(fd, p, buf', disk', v)
    BY <2>2, <2>3, <2>5 DEF Fetched, Held
  <2>7. v.fpage.nextfree \in Link /\ v.fpage.nextfree = next(o)
    BY <2>1, <2>2, <2>3 DEF PFbpage, PFfpage
  <2> HIDE DEF next
  <2>8. hdr(o) \in PFhdr_str /\ hdr(o).firstfree = v.fpage.nextfree
        /\ hdr(o).numpages = PFftab[fd].hdr.numpages
    BY <1>2, <2>7 DEF PFhdr_str
  <2> HIDE DEF hdr
  <2>9. NewHdr(fd, v.fpage.nextfree, PFftab[fd].hdr.numpages)
    BY <1>5, <2>8, NewHeader
  <2>10. Taken(fd, p, v.fpage.data)
    BY <2>2, <2>5
  <2>11. Recycled(fd, p)
    BY <2>0, <2>2, <2>6, <2>9, <2>10 DEF Recycled
  <2> QED  BY <1>5, <2>1, <2>11
<1> QED
  BY <1>1, <1>4, <1>5

LEMMA ExtendShape ==
    ASSUME PFInv, NEW fd \in FD, IsOpen(fd), Alone(fd), Extend(fd), UNCHANGED touched,
           PFftab[fd].hdr.firstfree = PF_PAGE_LIST_END
    PROVE  \/ /\ Moved
              /\ \E p \in PageNum : /\ p = PFftab[fd].hdr.numpages
                                    /\ \E o \in PFbufAlloc(fd, p) :
                                         o.err # PFE_OK /\ ReturnPage(o.err, p)
           \/ \E p \in PageNum : Extended(fd, p) /\ ReturnPage(PFE_OK, p)
<1> DEFINE p == PFftab[fd].hdr.numpages
           hdr == [PFftab[fd].hdr EXCEPT !.numpages = p + 1]
<1>1. PICK o \in PFbufAlloc(fd, p) :
         \/ AllocError(fd, p, o)
         \/ /\ o.err = PFE_OK
            /\ disk' = o.disk
            /\ buf' = MarkUsed(o.buf, fd, p)
            /\ PFftab' = ChangeHdr(fd, hdr)
            /\ ReturnPage(PFE_OK, p)
  BY DEF Extend
<1>2. PFftab[fd].hdr \in PFhdr_str /\ BufOK(buf) /\ disk \in DiskType
  BY Basics
<1>3. p \in PageNum /\ p < MaxPages
  BY <1>2, PFAssumption DEF Extend, PFhdr_str, PageNum
<1>4. hdr \in PFhdr_str /\ hdr.firstfree = PF_PAGE_LIST_END /\ hdr.numpages = p + 1
  BY <1>2, <1>3, PFAssumption DEF PFhdr_str, PageNum
<1>5. p = PFftab[fd].hdr.numpages
  OBVIOUS
<1> HIDE DEF p, hdr
<1>6. BufOK(o.buf)
  BY <1>2, <1>3, AllocOK DEF Served
<1>7. CASE AllocError(fd, p, o)
  <2>1. o.err # PFE_OK /\ disk' = o.disk /\ buf' = o.buf /\ UNCHANGED <<PFftab, touched>>
    BY <1>7 DEF AllocError, Apply
  <2>2. Flow(o.buf, o.disk, {})
    BY <1>2, <1>3, <2>1, AllocFlow
  <2>3. ReturnPage(o.err, p)
    BY <1>7 DEF AllocError
  <2> QED  BY <1>3, <1>5, <2>1, <2>2, <2>3 DEF Moved
<1>8. CASE /\ o.err = PFE_OK
           /\ disk' = o.disk
           /\ buf' = MarkUsed(o.buf, fd, p)
           /\ PFftab' = ChangeHdr(fd, hdr)
           /\ ReturnPage(PFE_OK, p)
  <2>1. PICK fp \in PFfpage :
          /\ Flow(o.buf, o.disk, {<<fd, p>>})
          /\ ~Held(buf, fd, p)
          /\ Held(o.buf, fd, p)
          /\ ~buf.frame[o.buf.hash[<<fd, p>>]].fixed
          /\ IsFixed(At(o.buf, fd, p), OnFrame(fd, p, fp))
    BY <1>2, <1>3, <1>8, AllocFlow
  <2>2. At(o.buf, fd, p).fixed /\ At(o.buf, fd, p).fpage.data \in Data
    BY <2>1 DEF IsFixed, OnFrame, PFfpage
  <2>3. /\ Flow(buf', disk', {<<fd, p>>})
        /\ Taken(fd, p, At(o.buf, fd, p).fpage.data)
    BY <1>3, <1>6, <1>8, <2>1, <2>2, MarkUsedTakes
  <2>4. NewHdr(fd, PF_PAGE_LIST_END, p + 1)
    BY <1>4, <1>8, NewHeader
  <2>5. Extended(fd, p)
    BY <1>5, <2>1, <2>2, <2>3, <2>4 DEF Extended
  <2> QED  BY <1>3, <1>8, <2>5
<1> QED
  BY <1>1, <1>7, <1>8

LEMMA FreeShape ==
    ASSUME PFInv, NEW fd \in FD, IsOpen(fd), Alone(fd), NEW p \in PageNum,
           NEW o \in PFbufGet(fd, p), o.err = PFE_OK,
           FpageOf(o.buf, fd, p).nextfree = PF_PAGE_USED,
           disk' = o.disk, buf' = Free(o.buf, fd, p), UNCHANGED touched,
           PFftab' = ChangeHdr(fd, [PFftab[fd].hdr EXCEPT !.firstfree = p])
    PROVE  Freed(fd, p)
<1> DEFINE b == o.buf
           c == Free(b, fd, p)
           hdr == [PFftab[fd].hdr EXCEPT !.firstfree = p]
<1>1. PICK v \in PFbpage : /\ Fetched(fd, p, b, o.disk, v)
                           /\ ~v.fixed
                           /\ At(b, fd, p).fixed
                           /\ At(b, fd, p).dirty <=> v.dirty
                           /\ At(b, fd, p).fpage = v.fpage
  BY PFAssumption, GetFinds DEF PageNum
<1>2. /\ BufOK(b) /\ Held(b, fd, p)
      /\ FpageOf(b, fd, p) = At(b, fd, p).fpage
  BY PFAssumption, GetFinds DEF PageNum
<1>3. buf' = c /\ PFftab' = ChangeHdr(fd, hdr)
  OBVIOUS
<1>4. FpageOf(b, fd, p).nextfree = PF_PAGE_USED
  OBVIOUS
<1>5. PFTypeOK /\ PFftab[fd].hdr \in PFhdr_str
  BY Basics
<1> HIDE DEF b
<1>6. /\ Only(b, c, fd, p) /\ Held(c, fd, p)
      /\ ~At(c, fd, p).fixed
      /\ At(c, fd, p).dirty
      /\ At(c, fd, p).fpage.nextfree = PFftab[fd].hdr.firstfree
  BY <1>2, <1>5, FreePage
<1> HIDE DEF c
<1>7. Fetched(fd, p, c, o.disk, v)
  <2>1. Flow(c, o.disk, {<<fd, p>>})
    BY <1>1, <1>6, FlowThen DEF Fetched, Only
  <2> QED  BY <1>1, <1>6, <2>1 DEF Fetched, Only
<1>8. PageAt(fd, p)' = At(c, fd, p)
  BY <1>3 DEF PageAt, At
<1>9. hdr \in PFhdr_str /\ hdr.firstfree = p /\ hdr.numpages = PFftab[fd].hdr.numpages
  BY <1>5 DEF PFhdr_str, Link
<1> HIDE DEF hdr
<1>10. NewHdr(fd, p, PFftab[fd].hdr.numpages)
  BY <1>3, <1>9, NewHeader
<1>11. v.fpage.nextfree = PF_PAGE_USED
  BY <1>1, <1>2, <1>4
<1> QED
  BY <1>1, <1>3, <1>6, <1>7, <1>8, <1>10, <1>11 DEF Freed

(* A fixed page is held, by a descriptor that is open. *)
LEMMA FixedShape ==
    ASSUME PFInv, NEW fd \in FD, NEW p \in PageNum, NotFixed(buf, fd, p) = PFE_OK
    PROVE  /\ IsOpen(fd) /\ BufOK(buf) /\ Held(buf, fd, p) /\ PageAt(fd, p).fixed
           /\ PFhashFind(buf, fd, p) = buf.hash[<<fd, p>>]
           /\ PageAt(fd, p) \in PFbpage
<1>1. /\ BufOK(buf) /\ PagesOpen(PFftab, buf)
      /\ PFhashFind(buf, fd, p) # NoFrame /\ buf.frame[PFhashFind(buf, fd, p)].fixed
      /\ PFhashFind(buf, fd, p) = buf.hash[<<fd, p>>]
  BY FixedPage
<1>2. Held(buf, fd, p) /\ PageAt(fd, p).fixed
  BY <1>1 DEF Held, PageAt, At
<1>3. PageAt(fd, p).fd = fd /\ buf.hash[<<fd, p>>] \in ToSet(buf.list) /\ PageAt(fd, p) \in PFbpage
  BY <1>1, <1>2, HeldPage DEF PageAt
<1>4. IsOpen(fd)
  BY <1>1, <1>3 DEF PagesOpen, Open, IsOpen, PageAt, At
<1> QED
  BY <1>1, <1>2, <1>3, <1>4

LEMMA UnfixShape ==
    ASSUME PFInv, NEW fd \in FD, NEW p \in PageNum, NEW dirty \in BOOLEAN,
           NotFixed(buf, fd, p) = PFE_OK,
           \/ Undisciplined
           \/ dirty /\ Alone(fd)
           \/ ~dirty /\ PFhashFind(buf, fd, p) \notin touched,
           buf' = PFbufUnfix(buf, fd, p, dirty),
           touched' = touched \ {PFhashFind(buf, fd, p)},
           UNCHANGED <<disk, PFftab>>
    PROVE  Unpinned(fd, p, dirty)
<1> DEFINE c == PFbufUnfix(buf, fd, p, dirty)
<1>1. /\ IsOpen(fd) /\ BufOK(buf) /\ Held(buf, fd, p) /\ PageAt(fd, p).fixed
      /\ PFhashFind(buf, fd, p) = buf.hash[<<fd, p>>]
  BY FixedShape
<1>2. /\ Only(buf, c, fd, p) /\ Held(c, fd, p)
      /\ ~At(c, fd, p).fixed
      /\ At(c, fd, p).dirty <=> At(buf, fd, p).dirty \/ dirty
      /\ At(c, fd, p).fpage = At(buf, fd, p).fpage
  BY <1>1, UnfixPage
<1>3. buf' = c
  OBVIOUS
<1> HIDE DEF c
<1>4. PageAt(fd, p)' = At(c, fd, p)
  BY <1>3 DEF PageAt, At
<1> QED
  BY <1>1, <1>2, <1>3, <1>4 DEF Unpinned, OnFixed, PageAt

LEMMA MarkShape ==
    ASSUME PFInv, NEW fd \in FD, NEW p \in PageNum,
           NotFixed(buf, fd, p) = PFE_OK, Alone(fd),
           buf' = PFbufMarkDirty(buf, fd, p),
           touched' = touched \ {PFhashFind(buf, fd, p)},
           UNCHANGED <<disk, PFftab>>
    PROVE  Marked(fd, p)
<1> DEFINE c == PFbufMarkDirty(buf, fd, p)
<1>1. /\ IsOpen(fd) /\ BufOK(buf) /\ Held(buf, fd, p) /\ PageAt(fd, p).fixed
      /\ PFhashFind(buf, fd, p) = buf.hash[<<fd, p>>]
  BY FixedShape
<1>2. /\ Only(buf, c, fd, p) /\ Held(c, fd, p)
      /\ At(c, fd, p).fixed <=> At(buf, fd, p).fixed
      /\ At(c, fd, p).dirty
      /\ At(c, fd, p).fpage = At(buf, fd, p).fpage
  BY <1>1, MarkDirtyPage
<1>3. buf' = c
  OBVIOUS
<1> HIDE DEF c
<1>4. PageAt(fd, p)' = At(c, fd, p)
  BY <1>3, SMTT(40) DEF PageAt, At
<1> QED
  BY <1>1, <1>2, <1>3, <1>4 DEF Marked, OnFixed, PageAt

LEMMA WriteShape ==
    ASSUME PFInv, NEW fd \in FD, NEW p \in PageNum, NEW d, ClientWrite(fd, p, d)
    PROVE  Wrote(fd, p, d)
<1> DEFINE c == WriteTo(buf, fd, p, d)
<1>1. /\ IsOpen(fd) /\ BufOK(buf) /\ Held(buf, fd, p) /\ PageAt(fd, p).fixed
      /\ PFhashFind(buf, fd, p) = buf.hash[<<fd, p>>]
  BY FixedShape DEF ClientWrite
<1>2. /\ Only(buf, c, fd, p) /\ Held(c, fd, p)
      /\ At(c, fd, p).fixed <=> At(buf, fd, p).fixed
      /\ At(c, fd, p).dirty <=> At(buf, fd, p).dirty
      /\ At(c, fd, p).fpage.nextfree = At(buf, fd, p).fpage.nextfree
      /\ At(c, fd, p).fpage.data = d
  BY <1>1, WritePage
<1>3. buf' = c
  BY DEF ClientWrite, WriteTo
<1> HIDE DEF c
<1>4. PageAt(fd, p)' = At(c, fd, p)
  BY <1>3 DEF PageAt, At
<1>5. touched' = IF PageAt(fd, p).dirty THEN touched ELSE touched \cup {buf.hash[<<fd, p>>]}
  BY <1>1 DEF ClientWrite, PageAt, At
<1> QED
  BY <1>1, <1>2, <1>3, <1>4, <1>5 DEF Wrote, OnFixed, PageAt, ClientWrite

LEMMA CreateShape ==
    ASSUME PFInv, NEW fn \in Fname, PF_CreateFile(fn)
    PROVE  \/ Still
           \/ Created(fn) /\ Return(PFE_OK)
<1>1. disk \in [Fname -> File]
  BY Basics DEF DiskType
<1> QED
  BY <1>1 DEF PF_CreateFile, Fail, Still, Created, FileIs

LEMMA DestroyShape ==
    ASSUME PFInv, NEW fn \in Fname, PF_DestroyFile(fn)
    PROVE  \/ Still
           \/ Destroyed(fn) /\ disk[fn].exists /\ Return(PFE_OK)
<1>1. disk \in [Fname -> File]
  BY Basics DEF DiskType
<1> QED
  BY <1>1 DEF PF_DestroyFile, Fail, Still, Destroyed, FileIs

LEMMA OpenShape ==
    ASSUME PFInv, NEW fn \in Fname, NEW strategy \in PF_Strategy, PF_OpenFile(fn, strategy)
    PROVE  \/ Still
           \/ \E fd \in FD : Loaded(fd, fn, fn) /\ Return(fd)
           \/ \E fd \in FD : Loaded(fd, fn, NULL) /\ "mem" \in Faults /\ Return(PFE_NOMEM)
<1>1. PFftab \in [FD -> PFftab_ele]
  BY Basics DEF FtabType
<1>2. \A fd \in PFftabFindFree : fd \in FD /\ ~IsOpen(fd) /\ PFftab[fd].fname = NULL
  BY DEF PFftabFindFree, PFinvalidFd, IsOpen
<1>3. CASE \E fd \in PFftabFindFree :
            /\ disk[fn].exists
            /\ PFftab' = [PFftab EXCEPT ![fd] = [fname |-> fn, hdr |-> disk[fn].hdr,
                                                 hdrchanged |-> FALSE, strategy |-> strategy]]
            /\ Return(fd)
            /\ UNCHANGED <<disk, buf, touched>>
  BY <1>1, <1>2, <1>3 DEF PF_OpenFile, Loaded, OthersSame
<1>4. CASE \E fd \in PFftabFindFree :
            /\ disk[fn].exists
            /\ "mem" \in Faults
            /\ PFftab' = [PFftab EXCEPT ![fd].hdr = disk[fn].hdr, ![fd].hdrchanged = FALSE]
            /\ Return(PFE_NOMEM)
            /\ UNCHANGED <<disk, buf, touched>>
  <2>1. PICK fd \in PFftabFindFree :
            /\ disk[fn].exists
            /\ "mem" \in Faults
            /\ PFftab' = [PFftab EXCEPT ![fd].hdr = disk[fn].hdr, ![fd].hdrchanged = FALSE]
            /\ Return(PFE_NOMEM)
            /\ UNCHANGED <<disk, buf, touched>>
    BY <1>4
  <2>2. fd \in FD /\ ~IsOpen(fd) /\ PFftab[fd].fname = NULL /\ PFftab[fd] \in PFftab_ele
    BY <1>1, <1>2
  <2>3. /\ PFftab'[fd].fname = NULL /\ PFftab'[fd].hdr = disk[fn].hdr
        /\ ~PFftab'[fd].hdrchanged
        /\ \A g \in FD : g # fd => PFftab'[g] = PFftab[g]
    BY <1>1, <2>1, <2>2 DEF PFftab_ele
  <2> QED  BY <2>1, <2>2, <2>3 DEF PF_OpenFile, Loaded, OthersSame
<1> QED
  BY <1>3, <1>4 DEF PF_OpenFile, Fail, Still

(* What a turn of the loop of PF_CloseFile releases leaves the pool. *)
LEMMA ReleaseShape ==
    ASSUME PFInv, PFbufReleaseFile
    PROVE  Still \/ Moved
<1>1. BufOK(buf) /\ buf \in BufType /\ PFTypeOK
  BY Basics DEF BufOK, Pool
<1> DEFINE f == buf.list[call.at]
<1>2. f \in ToSet(buf.list)
  <2>1. call \in [op : {"close"}, fd : FD, at : Nat \ {0}]
    BY <1>1 DEF PFbufReleaseFile, PFTypeOK, Call, NoCall
  <2>2. call.at \in 1 .. Len(buf.list)
    BY <1>1, <2>1 DEF PFbufReleaseFile, BufType
  <2> QED  BY <1>1, <2>2 DEF ToSet, BufType
<1>3. CASE /\ ~buf.frame[f].fixed
           /\ \E o \in ReleaseFrame(f) : Apply(o) /\ Released(o)
           /\ UNCHANGED <<PFftab, touched>>
  <2>1. PICK o \in ReleaseFrame(f) : buf' = o.buf /\ disk' = o.disk
    BY <1>3 DEF Apply
  <2> DEFINE b == Evict(buf, f)
             c == PFbufInsertFree(b, f)
  <2>2. PICK w \in Flush(f) : o = IF w.err = PFE_OK THEN Outcome(c, w.disk, PFE_OK)
                                                    ELSE Outcome(buf, w.disk, w.err)
    BY <2>1 DEF ReleaseFrame
  <2> HIDE DEF f
  <2>3. CASE w.err = PFE_OK
    <3>1. buf' = c /\ disk' = w.disk
      BY <2>1, <2>2, <2>3 DEF Outcome
    <3>2. b \in BufType
      BY <1>1, <1>2, <1>3, EvictPool DEF BufOK, Pool
    <3>3. c.hash = b.hash /\ c.frame = b.frame
      BY <3>2 DEF PFbufInsertFree, BufType
    <3> HIDE DEF c
    <3>4. Flow(c, w.disk, {})
      BY <1>1, <1>2, <1>3, <2>3, <3>3, EvictFlow
    <3> QED  BY <1>3, <3>1, <3>4 DEF Moved
  <2>4. CASE w.err # PFE_OK
    <3>1. buf' = buf /\ disk' = w.disk
      BY <2>1, <2>2, <2>4 DEF Outcome
    <3>2. Written(w.disk)
      BY <1>1, <1>2, <1>3, FlushWritten
    <3> QED  BY <1>3, <3>1, <3>2 DEF Moved, Flow, Stays
  <2> QED  BY <2>3, <2>4
<1>4. CASE UNCHANGED <<disk, PFftab, buf, touched>>
  BY <1>4 DEF Still
<1> QED
  BY <1>3, <1>4 DEF PFbufReleaseFile, Fail

(* When the loop has passed the whole list the file has no page in it. *)
LEMMA CloseShape ==
    ASSUME PFInv, FinishClose
    PROVE  /\ call.fd \in FD
           /\ Still \/ (Closed(call.fd) /\ Return(PFE_OK))
<1>1. PFTypeOK /\ BufOK(buf) /\ LoopsAreSound /\ PFftab \in [FD -> PFftab_ele]
  BY Basics DEF FtabType
<1>2. call \in [op : {"close"}, fd : FD, at : Nat \ {0}]
  BY <1>1 DEF FinishClose, PFTypeOK, Call, NoCall
<1> DEFINE fd == call.fd
<1>3. fd \in FD /\ IsOpen(fd) /\ PFftab[fd] \in PFftab_ele
  BY <1>1, <1>2 DEF LoopsAreSound, IsOpen
<1>4. ASSUME NEW p \in PageNum, Held(buf, fd, p) PROVE FALSE
  <2>1. /\ buf.hash[<<fd, p>>] \in ToSet(buf.list)
        /\ buf.frame[buf.hash[<<fd, p>>]].fd = fd
    BY <1>1, <1>3, <1>4, HeldPage DEF At
  <2>2. PICK i \in 1 .. Len(buf.list) : buf.list[i] = buf.hash[<<fd, p>>]
    <3>1. buf.list \in Seq(Frame)
      BY <1>1 DEF PFTypeOK, BufType
    <3> QED  BY <2>1, <3>1, SMTT(40) DEF ToSet
  <2>3. i < call.at
    <3>1. Len(buf.list) \in Nat
      BY <1>1 DEF PFTypeOK, BufType
    <3> QED  BY <1>2, <3>1 DEF FinishClose
  <2> QED  BY <1>1, <1>2, <2>1, <2>2, <2>3 DEF LoopsAreSound
<1>5. CASE /\ disk' = IF PFftab[fd].hdrchanged
                      THEN [disk EXCEPT ![PFftab[fd].fname].hdr = PFftab[fd].hdr]
                      ELSE disk
           /\ PFftab' = [PFftab EXCEPT ![fd].fname = NULL, ![fd].hdrchanged = FALSE]
           /\ Return(PFE_OK)
           /\ UNCHANGED <<buf, touched>>
  <2>1. PFftab'[fd].fname = NULL /\ OthersSame(fd)
    BY <1>1, <1>3, <1>5 DEF OthersSame, PFftab_ele
  <2> QED  BY <1>3, <1>4, <1>5, <2>1 DEF Closed
<1> QED
  BY <1>3, <1>5 DEF FinishClose, Fail, Still

(* The arguments of a call that passed its checks. *)
LEMMA ArgumentsOK ==
    ASSUME NEW fd \in FD, NEW p \in PageNum, ArgumentError(fd, p) = PFE_OK
    PROVE  IsOpen(fd) /\ ~PFinvalidPagenum(fd, p)
BY DEF ArgumentError, PFinvalidFd, IsOpen, PFE_FD, PFE_INVALIDPAGE, PFE_OK

LEMMA PagesAreIntegers == PageNum \subseteq Int
BY PFAssumption DEF PageNum

LEMMA GetThisShape ==
    ASSUME PFInv, NEW fd \in FD, NEW p \in PageNum, PF_GetThisPage(fd, p)
    PROVE  Still \/ Moved \/ Got(fd, p)
<1>1. CASE Fail(ArgumentError(fd, p))
  BY <1>1 DEF Fail, Still
<1>2. CASE ~Fail(ArgumentError(fd, p))
  <2>1. /\ ArgumentError(fd, p) = PFE_OK
        /\ UNCHANGED <<PFftab, touched>>
        /\ \E o \in PFbufGet(fd, p) :
             /\ disk' = o.disk
             /\ \/ /\ o.err # PFE_OK
                   /\ buf' = o.buf
                \/ /\ o.err = PFE_OK
                   /\ FpageOf(o.buf, fd, p).nextfree = PF_PAGE_USED
                   /\ buf' = o.buf
                \/ /\ o.err = PFE_OK
                   /\ FpageOf(o.buf, fd, p).nextfree # PF_PAGE_USED
                   /\ buf' = PFbufUnfix(o.buf, fd, p, FALSE)
    BY <1>2 DEF PF_GetThisPage
  <2>2. IsOpen(fd) /\ p \in Int
    BY <2>1, ArgumentsOK, PagesAreIntegers
  <2> QED  BY <2>1, <2>2, GetFails, GetKeeps, GetDrops
<1> QED
  BY <1>1, <1>2

LEMMA NextPageShape ==
    ASSUME PFInv, NextPageStep
    PROVE  /\ call.fd \in FD /\ IsOpen(call.fd) /\ call.at \in PageNum
           /\ Moved \/ Got(call.fd, call.at)
<1> DEFINE fd == call.fd
           p  == call.at
<1>1. PFTypeOK /\ LoopsAreSound
  BY Basics
<1>2. call \in [op : {"next"}, fd : FD, at : 0 .. MaxPages]
  BY <1>1 DEF NextPageStep, PFTypeOK, Call, NoCall
<1>3. fd \in FD /\ IsOpen(fd) /\ p \in 0 .. MaxPages
  BY <1>1, <1>2 DEF LoopsAreSound, IsOpen
<1>4. p \in PageNum /\ p \in Int
  <2>1. PFftab[fd].hdr.numpages \in 0 .. MaxPages
    BY <1>1, <1>3 DEF PFTypeOK, PFftab_ele, PFhdr_str
  <2> QED  BY <1>3, <2>1, PFAssumption DEF NextPageStep, PageNum
<1>5. /\ UNCHANGED <<PFftab, touched>>
      /\ \E o \in PFbufGet(fd, p) :
           /\ disk' = o.disk
           /\ \/ /\ o.err # PFE_OK
                 /\ buf' = o.buf
              \/ /\ o.err = PFE_OK
                 /\ FpageOf(o.buf, fd, p).nextfree = PF_PAGE_USED
                 /\ buf' = o.buf
              \/ /\ o.err = PFE_OK
                 /\ FpageOf(o.buf, fd, p).nextfree # PF_PAGE_USED
                 /\ buf' = PFbufUnfix(o.buf, fd, p, FALSE)
  BY DEF NextPageStep
<1> HIDE DEF fd, p
<1>6. Moved \/ Got(fd, p)
  BY <1>3, <1>4, <1>5, GetFails, GetKeeps, GetDrops
<1> QED
  BY <1>3, <1>4, <1>6 DEF fd, p

LEMMA AllocShape ==
    ASSUME PFInv, NEW fd \in FD, PF_AllocPage(fd)
    PROVE  \/ Still \/ Moved
           \/ \E p \in PageNum : Recycled(fd, p) \/ Extended(fd, p)
<1>1. CASE Fail(PFE_FD)
  BY <1>1 DEF Fail, Still
<1>2. CASE /\ IsOpen(fd) /\ Alone(fd) /\ UNCHANGED touched
           /\ PFftab[fd].hdr.firstfree # PF_PAGE_LIST_END /\ Recycle(fd)
  BY <1>2, RecycleShape
<1>3. CASE /\ IsOpen(fd) /\ Alone(fd) /\ UNCHANGED touched
           /\ PFftab[fd].hdr.firstfree = PF_PAGE_LIST_END /\ Extend(fd)
  BY <1>3, ExtendShape
<1> QED
  BY <1>1, <1>2, <1>3 DEF PF_AllocPage, PFinvalidFd, IsOpen

LEMMA DisposeShape ==
    ASSUME PFInv, NEW fd \in FD, NEW p \in PageNum, PF_DisposePage(fd, p)
    PROVE  Still \/ Moved \/ Got(fd, p) \/ Freed(fd, p)
<1>1. CASE Fail(ArgumentError(fd, p))
  BY <1>1 DEF Fail, Still
<1>2. CASE ~Fail(ArgumentError(fd, p))
  <2>1. /\ ArgumentError(fd, p) = PFE_OK /\ Alone(fd) /\ UNCHANGED touched
        /\ \E o \in PFbufGet(fd, p) :
             /\ disk' = o.disk
             /\ \/ /\ o.err # PFE_OK
                   /\ buf' = o.buf
                   /\ UNCHANGED PFftab
                \/ /\ o.err = PFE_OK
                   /\ FpageOf(o.buf, fd, p).nextfree # PF_PAGE_USED
                   /\ buf' = PFbufUnfix(o.buf, fd, p, FALSE)
                   /\ UNCHANGED PFftab
                \/ /\ o.err = PFE_OK
                   /\ FpageOf(o.buf, fd, p).nextfree = PF_PAGE_USED
                   /\ buf' = Free(o.buf, fd, p)
                   /\ PFftab' = ChangeHdr(fd, [PFftab[fd].hdr EXCEPT !.firstfree = p])
    BY <1>2 DEF PF_DisposePage
  <2>2. IsOpen(fd) /\ p \in Int
    BY <2>1, ArgumentsOK, PagesAreIntegers
  <2> QED  BY <2>1, <2>2, GetFails, GetDrops, FreeShape
<1> QED
  BY <1>1, <1>2

LEMMA UnfixPageShape ==
    ASSUME PFInv, NEW fd \in FD, NEW p \in PageNum, NEW dirty \in BOOLEAN,
           PF_UnfixPage(fd, p, dirty)
    PROVE  Still \/ Unpinned(fd, p, dirty)
<1>1. CASE Fail(NotFixedError(fd, p))
  BY <1>1 DEF Fail, Still
<1>2. CASE ~Fail(NotFixedError(fd, p))
  <2>1. NotFixed(buf, fd, p) = PFE_OK
    BY <1>2 DEF PF_UnfixPage, NotFixedError
  <2>2. /\ \/ Undisciplined
           \/ dirty /\ Alone(fd)
           \/ ~dirty /\ PFhashFind(buf, fd, p) \notin touched
        /\ buf' = PFbufUnfix(buf, fd, p, dirty)
        /\ touched' = touched \ {PFhashFind(buf, fd, p)}
        /\ UNCHANGED <<disk, PFftab>>
    BY <1>2 DEF PF_UnfixPage
  <2> QED  BY <2>1, <2>2, UnfixShape
<1> QED
  BY <1>1, <1>2

LEMMA MarkDirtyShape ==
    ASSUME PFInv, NEW fd \in FD, NEW p \in PageNum, PF_MarkDirty(fd, p)
    PROVE  Still \/ Marked(fd, p)
<1>1. CASE Fail(NotFixedError(fd, p))
  BY <1>1 DEF Fail, Still
<1>2. CASE ~Fail(NotFixedError(fd, p))
  <2>1. NotFixed(buf, fd, p) = PFE_OK
    BY <1>2 DEF PF_MarkDirty, NotFixedError
  <2> QED  BY <1>2, <2>1, MarkShape DEF PF_MarkDirty
<1> QED
  BY <1>1, <1>2

(* Every step of the layer is of one of the kinds. *)
Shape ==
    \/ Still
    \/ Moved
    \/ \E fd \in FD, p \in PageNum :
         \/ Got(fd, p) \/ Recycled(fd, p) \/ Extended(fd, p) \/ Freed(fd, p)
         \/ \E dirty \in BOOLEAN : Unpinned(fd, p, dirty)
         \/ Marked(fd, p)
         \/ \E d \in Data : Wrote(fd, p, d)
    \/ \E fn \in Fname : Created(fn) \/ Destroyed(fn)
    \/ \E fn \in Fname, fd \in FD : Loaded(fd, fn, fn) \/ Loaded(fd, fn, NULL)
    \/ \E fd \in FD : Closed(fd)

LEMMA StepShapes ==
    ASSUME PFInv, [PFNext]_pfvars
    PROVE  Shape
<1>1. CASE UNCHANGED pfvars
  BY <1>1 DEF pfvars, Shape, Still
<1>2. ASSUME NEW fn \in Fname, PF_CreateFile(fn) \/ PF_DestroyFile(fn) PROVE Shape
  BY <1>2, CreateShape, DestroyShape DEF Shape
<1>3. ASSUME NEW fn \in Fname, NEW strategy \in PF_Strategy, PF_OpenFile(fn, strategy)
      PROVE  Shape
  BY <1>3, OpenShape DEF Shape
<1>4. ASSUME NEW fd \in FD, PF_CloseFile(fd) PROVE Shape
  BY <1>4 DEF PF_CloseFile, Fail, Shape, Still
<1>5. CASE PFbufReleaseFile
  BY <1>5, ReleaseShape DEF Shape
<1>6. CASE FinishClose
  BY <1>6, CloseShape DEF Shape
<1>7. ASSUME NEW fd \in FD, NEW p \in -2 .. MaxPages, PF_GetNextPage(fd, p) PROVE Shape
  BY <1>7 DEF PF_GetNextPage, Fail, Shape, Still
<1>8. CASE NextPageStep
  BY <1>8, NextPageShape DEF Shape
<1>9. CASE EndOfFile
  BY <1>9 DEF EndOfFile, Fail, Shape, Still
<1>10. ASSUME NEW fd \in FD, NEW p \in PageNum, PF_GetThisPage(fd, p) PROVE Shape
  BY <1>10, GetThisShape DEF Shape
<1>11. ASSUME NEW fd \in FD, PF_AllocPage(fd) PROVE Shape
  BY <1>11, AllocShape DEF Shape
<1>12. ASSUME NEW fd \in FD, NEW p \in PageNum, PF_DisposePage(fd, p) PROVE Shape
  BY <1>12, DisposeShape DEF Shape
<1>13. ASSUME NEW fd \in FD, NEW p \in PageNum, NEW dirty \in BOOLEAN,
              PF_UnfixPage(fd, p, dirty)
       PROVE  Shape
  BY <1>13, UnfixPageShape DEF Shape
<1>14. ASSUME NEW fd \in FD, NEW p \in PageNum, PF_MarkDirty(fd, p) PROVE Shape
  BY <1>14, MarkDirtyShape DEF Shape
<1>15. ASSUME NEW fd \in FD, NEW p \in PageNum, NEW d \in Data, ClientWrite(fd, p, d)
       PROVE  Shape
  BY <1>15, WriteShape DEF Shape
<1> QED
  BY <1>1, <1>2, <1>3, <1>4, <1>5, <1>6, <1>7, <1>8, <1>9, <1>10, <1>11, <1>12, <1>13,
     <1>14, <1>15 DEF PFNext

-----------------------------------------------------------------------------
(***************************************************************************)
(* Any client.  DiskInv is inductive: a page that is counted by a header   *)
(* in memory and is not on disk yet is dirty in the pool, under that very  *)
(* descriptor, and it is written before the header is.                     *)
(***************************************************************************)
OpenFilesExist == \A fd \in FD : IsOpen(fd) => disk[PFftab[fd].fname].exists

MissingFilesAreEmpty == \A fn \in Fname : ~disk[fn].exists => disk[fn] = EmptyFile(FALSE)

NewPagesAreDirty ==
    \A fd \in FD, p \in PageNum :
      IsOpen(fd) /\ p < PFftab[fd].hdr.numpages /\ disk[PFftab[fd].fname].len <= p =>
        Held(buf, fd, p) /\ PageAt(fd, p).dirty

TouchedAreFixed == \A f \in touched : buf.frame[f].fixed

FixedPagesAreUsed ==
    \A fd \in FD, p \in PageNum :
      Held(buf, fd, p) /\ PageAt(fd, p).fixed => PageAt(fd, p).fpage.nextfree = PF_PAGE_USED

DiskInv ==
    /\ OpenFilesExist
    /\ MissingFilesAreEmpty
    /\ HeaderCoversPages
    /\ NewPagesAreDirty
    /\ TouchedAreFixed
    /\ FixedPagesAreUsed

(* A call on <<fd, p>>, which is served; the five kinds above, seen by the *)
(* invariants: either nothing was changed, or fd is the only descriptor of *)
(* its file and the page and the header have been declared changed.        *)
Serves(fd, p) ==
    /\ IsOpen(fd)
    /\ Flow(buf', disk', {<<fd, p>>})
    /\ Held(buf, fd, p) => ~PageAt(fd, p).fixed
    /\ Held(buf', fd, p)
    /\ ~buf.frame[buf'.hash[<<fd, p>>]].fixed
    /\ PageAt(fd, p)'.fixed => PageAt(fd, p)'.fpage.nextfree = PF_PAGE_USED
    /\ touched' = touched
    /\ OthersSame(fd)
    /\ PFftab'[fd].fname = PFftab[fd].fname
    /\ \/ /\ PFftab'[fd] = PFftab[fd]
          /\ IF Held(buf, fd, p)
             THEN /\ disk' = disk
                  /\ PageAt(fd, p)'.dirty <=> PageAt(fd, p).dirty
                  /\ PageAt(fd, p)'.fpage = PageAt(fd, p).fpage
             ELSE /\ p < disk'[PFftab[fd].fname].len
                  /\ ~PageAt(fd, p)'.dirty
                  /\ PageAt(fd, p)'.fpage = disk'[PFftab[fd].fname].page[p]
       \/ /\ Alone(fd)
          /\ PageAt(fd, p)'.dirty
          /\ PFftab'[fd].hdrchanged
          /\ \/ PFftab'[fd].hdr.numpages = PFftab[fd].hdr.numpages
             \/ /\ p = PFftab[fd].hdr.numpages
                /\ PFftab'[fd].hdr.numpages = p + 1

LEMMA ServingKinds ==
    ASSUME PFInv, NEW fd \in FD, NEW p \in PageNum,
           Got(fd, p) \/ Recycled(fd, p) \/ Extended(fd, p) \/ Freed(fd, p)
    PROVE  Serves(fd, p)
<1>1. ASSUME NEW v, Fetched(fd, p, buf', disk', v), ~v.fixed
      PROVE  /\ Flow(buf', disk', {<<fd, p>>})
             /\ Held(buf, fd, p) => ~PageAt(fd, p).fixed
             /\ Held(buf', fd, p)
             /\ ~buf.frame[buf'.hash[<<fd, p>>]].fixed
             /\ IF Held(buf, fd, p)
                THEN disk' = disk /\ v = PageAt(fd, p)
                ELSE /\ p < disk'[PFftab[fd].fname].len
                     /\ v = OnFrame(fd, p, disk'[PFftab[fd].fname].page[p])
  BY <1>1 DEF Fetched, PageAt
<1>2. CASE Got(fd, p)
  <2>1. PICK v \in PFbpage :
          /\ Fetched(fd, p, buf', disk', v)
          /\ ~v.fixed
          /\ PageAt(fd, p)'.dirty <=> v.dirty
          /\ PageAt(fd, p)'.fpage = v.fpage
          /\ PageAt(fd, p)'.fixed <=> v.fpage.nextfree = PF_PAGE_USED
    BY <1>2 DEF Got
  <2>2. IsOpen(fd) /\ UNCHANGED <<PFftab, touched>>
    BY <1>2 DEF Got
  <2>3. \A fp : OnFrame(fd, p, fp).fpage = fp /\ ~OnFrame(fd, p, fp).dirty
    BY DEF OnFrame
  <2> QED  BY <1>1, <2>1, <2>2, <2>3 DEF Serves, OthersSame
<1>3. CASE Recycled(fd, p)
  <2>1. PICK v \in PFbpage :
         /\ Fetched(fd, p, buf', disk', v)
         /\ ~v.fixed
         /\ Taken(fd, p, v.fpage.data)
         /\ NewHdr(fd, v.fpage.nextfree, PFftab[fd].hdr.numpages)
    BY <1>3 DEF Recycled
  <2> QED  BY <1>1, <2>1 DEF Serves, Taken, NewHdr
<1>4. CASE Extended(fd, p)
  BY <1>4 DEF Extended, Serves, Taken, NewHdr
<1>5. CASE Freed(fd, p)
  <2>1. PICK v \in PFbpage : Fetched(fd, p, buf', disk', v) /\ ~v.fixed
    BY <1>5 DEF Freed
  <2> QED  BY <1>1, <1>5, <2>1 DEF Freed, Serves, NewHdr
<1> QED
  BY <1>2, <1>3, <1>4, <1>5

(* Writes go to pages of files that exist, and change nothing else. *)
LEMMA WrittenKeeps ==
    ASSUME PFInv, OpenFilesExist, NEW e, Written(e)
    PROVE  /\ e \in DiskType
           /\ \A fn \in Fname : /\ e[fn].exists = disk[fn].exists
                                /\ e[fn].hdr = disk[fn].hdr
                                /\ disk[fn].len <= e[fn].len
                                /\ ~disk[fn].exists => e[fn] = disk[fn]
<1>1. disk \in [Fname -> File] /\ BufOK(buf) /\ PagesOpen(PFftab, buf) /\ PFftab \in FtabType
  BY Basics DEF DiskType
<1>2. \A fn \in Fname : disk[fn].len \in Int
  BY <1>1, PFAssumption DEF File
<1>3. CASE e = disk
  BY <1>1, <1>2, <1>3 DEF DiskType
<1>4. ASSUME NEW g \in FD, NEW q \in PageNum, NEW fp \in PFfpage, Held(buf, g, q),
             e = Put(disk, PFftab[g].fname, q, fp)
      PROVE  /\ e \in DiskType
             /\ \A fn \in Fname : /\ e[fn].exists = disk[fn].exists
                                  /\ e[fn].hdr = disk[fn].hdr
                                  /\ disk[fn].len <= e[fn].len
                                  /\ ~disk[fn].exists => e[fn] = disk[fn]
  <2> DEFINE gn == PFftab[g].fname
  <2>1. buf.hash[<<g, q>>] \in ToSet(buf.list) /\ buf.frame[buf.hash[<<g, q>>]].fd = g
    BY <1>1, <1>4, HeldPage DEF At
  <2>2. IsOpen(g)
    BY <1>1, <2>1 DEF PagesOpen, Open, IsOpen
  <2>3. gn \in Fname /\ disk[gn].exists
    BY <1>1, <2>2 DEF FtabType, PFftab_ele, IsOpen, OpenFilesExist
  <2> HIDE DEF gn
  <2>4. e = Put(disk, gn, q, fp)
    BY <1>4 DEF gn
  <2>5. disk[gn] \in File /\ q \in 0 .. MaxPages - 1
    BY <1>1, <2>3 DEF PageNum
  <2>6. e \in DiskType
    <3>1. [disk |-> e, err |-> PFE_OK] \in PFwritefcn(disk, gn, q, fp)
      BY <2>4 DEF PFwritefcn
    <3>2. disk \in DiskType
      BY <1>1 DEF DiskType
    <3> QED  BY <1>4, <3>1, <3>2, WriteDisk
  <2>7. /\ \A fn \in Fname : fn # gn => e[fn] = disk[fn]
        /\ e[gn].exists = disk[gn].exists /\ e[gn].hdr = disk[gn].hdr
        /\ e[gn].len = IF disk[gn].len > q THEN disk[gn].len ELSE q + 1
    BY <1>1, <2>3, <2>4, <2>5 DEF Put, File
  <2>8. disk[gn].len <= e[gn].len
    BY <1>2, <2>3, <2>5, <2>7, PFAssumption
  <2>9. ASSUME NEW fn \in Fname
        PROVE  /\ e[fn].exists = disk[fn].exists
               /\ e[fn].hdr = disk[fn].hdr
               /\ disk[fn].len <= e[fn].len
               /\ ~disk[fn].exists => e[fn] = disk[fn]
    <3>1. CASE fn = gn
      BY <2>3, <2>7, <2>8, <3>1
    <3>2. CASE fn # gn
      BY <1>2, <2>7, <3>2
    <3> QED  BY <3>1, <3>2
  <2> QED  BY <2>6, <2>9
<1> QED
  BY <1>3, <1>4 DEF Written

(* What a page that leaves the pool leaves on disk. *)
LEMMA LeavesOnDisk ==
    ASSUME PFInv, NEW c, NEW e, NEW g \in FD, NEW q \in PageNum, Leaves(c, e, g, q)
    PROVE  /\ PFftab[g].fname \in Fname
           /\ PageAt(g, q).dirty =>
                /\ q < e[PFftab[g].fname].len
                /\ e[PFftab[g].fname].page[q] = PageAt(g, q).fpage
<1>1. disk \in [Fname -> File] /\ BufOK(buf) /\ PagesOpen(PFftab, buf) /\ PFftab \in FtabType
  BY Basics DEF DiskType
<1>2. Held(buf, g, q)
  BY DEF Leaves
<1>3. buf.hash[<<g, q>>] \in ToSet(buf.list) /\ buf.frame[buf.hash[<<g, q>>]].fd = g
  BY <1>1, <1>2, HeldPage DEF At
<1>4. PFftab[g].fname \in Fname
  BY <1>1, <1>3 DEF PagesOpen, Open, FtabType, PFftab_ele
<1> DEFINE gn == PFftab[g].fname
           fp == PageAt(g, q).fpage
<1>5. ASSUME PageAt(g, q).dirty
      PROVE  q < e[gn].len /\ e[gn].page[q] = fp
  <2>1. e = Put(disk, gn, q, fp)
    BY <1>5 DEF Leaves, PageAt
  <2> HIDE DEF gn, fp
  <2>2. gn \in Fname /\ disk[gn] \in File /\ q \in Int
    BY <1>1, <1>4, PagesAreIntegers DEF gn
  <2>3. disk[gn].len \in Int /\ disk[gn].page \in [PageNum -> PFfpage]
    BY <2>2, PFAssumption DEF File
  <2>4. /\ e[gn].page = [disk[gn].page EXCEPT ![q] = fp]
        /\ e[gn].len = IF disk[gn].len > q THEN disk[gn].len ELSE q + 1
    BY <1>1, <2>1, <2>2 DEF Put, File
  <2> QED  BY <2>2, <2>3, <2>4
<1> QED
  BY <1>4, <1>5

LEMMA FlowInv ==
    ASSUME PFInv, DiskInv, NEW T, Flow(buf', disk', T),
           \A g \in FD : PFftab'[g].fname = PFftab[g].fname,
           \A g \in FD, q \in PageNum :
             <<g, q>> \in T => (Held(buf, g, q) => ~PageAt(g, q).fixed),
           touched' = touched
    PROVE  /\ OpenFilesExist'
           /\ MissingFilesAreEmpty'
           /\ HeaderCoversPages'
           /\ TouchedAreFixed'
           /\ \A g \in FD, q \in PageNum : <<g, q>> \notin T =>
                /\ Held(buf', g, q) /\ PageAt(g, q)'.fixed =>
                     PageAt(g, q)'.fpage.nextfree = PF_PAGE_USED
                /\ IsOpen(g) /\ q < PFftab[g].hdr.numpages /\ disk'[PFftab[g].fname].len <= q =>
                     Held(buf', g, q) /\ PageAt(g, q)'.dirty
           /\ \A g \in FD, q \in PageNum :
                disk'[PFftab[g].fname].len <= q /\ IsOpen(g) => disk[PFftab[g].fname].len <= q
<1>1. /\ OpenFilesExist /\ MissingFilesAreEmpty /\ NewPagesAreDirty
      /\ TouchedAreFixed /\ FixedPagesAreUsed /\ HeaderCoversPages
  BY DEF DiskInv
<1>2. /\ PFTypeOK /\ BufOK(buf) /\ disk \in [Fname -> File] /\ PFftab \in [FD -> PFftab_ele]
  BY Basics DEF DiskType, FtabType
<1>3. /\ disk' \in [Fname -> File]
      /\ \A fn \in Fname : /\ disk'[fn].exists = disk[fn].exists
                           /\ disk[fn].len <= disk'[fn].len
                           /\ disk'[fn].hdr = disk[fn].hdr
                           /\ ~disk[fn].exists => disk'[fn] = disk[fn]
  BY <1>1, WrittenKeeps DEF Flow, DiskType
<1>4. \A g \in FD : IsOpen(g) => PFftab[g].fname \in Fname
  BY <1>2 DEF IsOpen, PFftab_ele
<1>5. \A g \in FD : IsOpen(g)' <=> IsOpen(g)
  BY DEF IsOpen
<1>6. OpenFilesExist'
  BY <1>1, <1>3, <1>4, <1>5 DEF OpenFilesExist
<1>7. MissingFilesAreEmpty'
  BY <1>1, <1>3 DEF MissingFilesAreEmpty
<1>8. TouchedAreFixed'
  <2>1. SUFFICES ASSUME NEW f \in touched PROVE buf'.frame[f].fixed
    BY DEF TouchedAreFixed
  <2>2. f \in Frame /\ buf.frame[f].fixed
    BY <1>1, <1>2 DEF PFTypeOK, TouchedAreFixed
  <2>3. f \in ToSet(buf.list)
    BY <1>2, <2>2 DEF BufOK, Holds
  <2>4. PICK g \in FD, q \in PageNum :
           Held(buf, g, q) /\ buf.hash[<<g, q>>] = f /\ At(buf, g, q) = buf.frame[f]
    BY <1>2, <2>3, ListedPage
  <2>5. <<g, q>> \notin T
    BY <2>2, <2>4 DEF PageAt
  <2>6. ~Leaves(buf', disk', g, q)
    BY <2>2, <2>4 DEF Leaves
  <2>7. Stays(buf, buf', g, q)
    BY <2>5, <2>6 DEF Flow
  <2> QED  BY <2>2, <2>4, <2>7 DEF Stays, At
<1>9. \A g \in FD, q \in PageNum :
        disk'[PFftab[g].fname].len <= q /\ IsOpen(g) => disk[PFftab[g].fname].len <= q
  <2>1. \A fn \in Fname : disk[fn].len \in Int /\ disk'[fn].len \in Int
    BY <1>2, <1>3, PFAssumption DEF File
  <2> QED  BY <1>3, <1>4, <2>1, PagesAreIntegers
<1>10. ASSUME NEW g \in FD, NEW q \in PageNum, <<g, q>> \notin T
       PROVE  /\ Held(buf', g, q) /\ PageAt(g, q)'.fixed =>
                   PageAt(g, q)'.fpage.nextfree = PF_PAGE_USED
              /\ IsOpen(g) /\ q < PFftab[g].hdr.numpages /\ disk'[PFftab[g].fname].len <= q =>
                   Held(buf', g, q) /\ PageAt(g, q)'.dirty
  <2>0. PageAt(g, q)' = At(buf', g, q)
    BY DEF PageAt, At
  <2>1. CASE Stays(buf, buf', g, q)
    <3>1. Held(buf', g, q) <=> Held(buf, g, q)
      BY <2>1 DEF Stays, Held
    <3>2. Held(buf, g, q) => PageAt(g, q)' = PageAt(g, q)
      BY <2>0, <2>1 DEF Stays, PageAt
    <3> QED  BY <1>1, <1>9, <3>1, <3>2 DEF FixedPagesAreUsed, NewPagesAreDirty
  <2>2. CASE Leaves(buf', disk', g, q)
    <3>1. ~Held(buf', g, q) /\ Held(buf, g, q)
      BY <2>2 DEF Leaves
    <3>2. PageAt(g, q).dirty => q < disk'[PFftab[g].fname].len
      BY <2>2, LeavesOnDisk
    <3>3. PFftab[g].fname \in Fname
      BY <2>2, LeavesOnDisk
    <3>4. disk'[PFftab[g].fname].len \in Int /\ q \in Int
      BY <1>3, <3>3, PFAssumption, PagesAreIntegers DEF File
    <3> QED  BY <1>1, <1>9, <3>1, <3>2, <3>4 DEF NewPagesAreDirty
  <2> QED  BY <1>10, <2>1, <2>2 DEF Flow
<1>11. HeaderCoversPages'
  <2>1. \A fn \in Fname : /\ disk[fn].len \in Int /\ disk'[fn].len \in Int
                           /\ disk[fn].hdr.numpages \in Int
    BY <1>2, <1>3, PFAssumption DEF File, PFhdr_str
  <2> QED  BY <1>1, <1>3, <2>1 DEF HeaderCoversPages
<1> QED
  BY <1>6, <1>7, <1>8, <1>9, <1>10, <1>11

LEMMA MovedDisk ==
    ASSUME PFInv, DiskInv, Moved
    PROVE  DiskInv'
<1>1. /\ OpenFilesExist' /\ MissingFilesAreEmpty' /\ HeaderCoversPages' /\ TouchedAreFixed'
      /\ \A g \in FD, q \in PageNum :
           /\ Held(buf', g, q) /\ PageAt(g, q)'.fixed =>
                PageAt(g, q)'.fpage.nextfree = PF_PAGE_USED
           /\ IsOpen(g) /\ q < PFftab[g].hdr.numpages /\ disk'[PFftab[g].fname].len <= q =>
                Held(buf', g, q) /\ PageAt(g, q)'.dirty
  <2> DEFINE none == {}
  <2>1. /\ Flow(buf', disk', none) /\ touched' = touched
        /\ \A g \in FD : PFftab'[g].fname = PFftab[g].fname
    BY DEF Moved
  <2>2. \A g \in FD, q \in PageNum : <<g, q>> \notin none
    OBVIOUS
  <2> HIDE DEF none
  <2> QED  BY <2>1, <2>2, FlowInv
<1>2. PFftab' = PFftab
  BY DEF Moved
<1>3. FixedPagesAreUsed'
  BY <1>1 DEF FixedPagesAreUsed, Held
<1>4. NewPagesAreDirty'
  BY <1>1, <1>2 DEF NewPagesAreDirty, IsOpen, Held
<1> QED
  BY <1>1, <1>3, <1>4 DEF DiskInv

LEMMA ServesDisk ==
    ASSUME PFInv, DiskInv, NEW fd \in FD, NEW p \in PageNum, Serves(fd, p)
    PROVE  DiskInv'
<1>0. /\ Flow(buf', disk', {<<fd, p>>})
      /\ \A g \in FD : PFftab'[g].fname = PFftab[g].fname
      /\ touched' = touched
      /\ \A g \in FD, q \in PageNum :
           <<g, q>> \in {<<fd, p>>} => (Held(buf, g, q) => ~PageAt(g, q).fixed)
  BY DEF Serves, OthersSame
<1>1. /\ OpenFilesExist' /\ MissingFilesAreEmpty' /\ HeaderCoversPages' /\ TouchedAreFixed'
      /\ \A g \in FD, q \in PageNum : <<g, q>> \notin {<<fd, p>>} =>
           /\ Held(buf', g, q) /\ PageAt(g, q)'.fixed =>
                PageAt(g, q)'.fpage.nextfree = PF_PAGE_USED
           /\ IsOpen(g) /\ q < PFftab[g].hdr.numpages /\ disk'[PFftab[g].fname].len <= q =>
                Held(buf', g, q) /\ PageAt(g, q)'.dirty
      /\ \A g \in FD, q \in PageNum :
           disk'[PFftab[g].fname].len <= q /\ IsOpen(g) => disk[PFftab[g].fname].len <= q
  BY <1>0, FlowInv
<1>2. FixedPagesAreUsed'
  <2>1. PageAt(fd, p)'.fixed => PageAt(fd, p)'.fpage.nextfree = PF_PAGE_USED
    BY DEF Serves
  <2> QED  BY <1>1, <2>1 DEF FixedPagesAreUsed, Held
<1>3. \A g \in FD : IsOpen(g)' <=> IsOpen(g)
  BY <1>0 DEF IsOpen
<1>4. NewPagesAreDirty'
  <2>1. SUFFICES ASSUME NEW g \in FD, NEW q \in PageNum,
                        IsOpen(g), q < PFftab'[g].hdr.numpages, disk'[PFftab[g].fname].len <= q
                 PROVE  Held(buf', g, q) /\ PageAt(g, q)'.dirty
    BY <1>0, <1>3 DEF NewPagesAreDirty, Held
  <2>2. CASE <<g, q>> = <<fd, p>>
    <3>1. Held(buf', fd, p)
      BY DEF Serves
    <3>2. CASE PageAt(fd, p)'.dirty
      BY <2>2, <3>1, <3>2
    <3>3. CASE ~PageAt(fd, p)'.dirty
      <4>1. PFftab'[fd] = PFftab[fd] /\ Held(buf, fd, p) => ~PageAt(fd, p).dirty
        BY <3>3 DEF Serves
      <4>2. PFftab'[fd] = PFftab[fd]
        BY <3>3 DEF Serves
      <4>3. disk[PFftab[g].fname].len <= q
        BY <1>1, <2>1
      <4>4. Held(buf, fd, p) /\ PageAt(fd, p).dirty
        BY <2>1, <2>2, <4>2, <4>3 DEF DiskInv, NewPagesAreDirty
      <4> QED  BY <4>1, <4>2, <4>4
    <3> QED  BY <3>2, <3>3
  <2>3. CASE <<g, q>> # <<fd, p>>
    <3>1. q < PFftab[g].hdr.numpages
      <4>1. CASE g # fd
        BY <2>1, <4>1 DEF Serves, OthersSame
      <4>2. CASE g = fd
        <5>1. \/ PFftab'[fd] = PFftab[fd]
              \/ PFftab'[fd].hdr.numpages = PFftab[fd].hdr.numpages
              \/ p = PFftab[fd].hdr.numpages /\ PFftab'[fd].hdr.numpages = p + 1
          BY DEF Serves
        <5>2. q # p /\ p \in Int /\ q \in Int
          BY <2>3, <4>2, PagesAreIntegers
        <5> QED  BY <2>1, <4>2, <5>1, <5>2
      <4> QED  BY <4>1, <4>2
    <3> QED  BY <1>1, <2>1, <2>3, <3>1
  <2> QED  BY <2>2, <2>3
<1> QED
  BY <1>1, <1>2, <1>4 DEF DiskInv

LEMMA OnFixedDisk ==
    ASSUME PFInv, DiskInv, NEW fd \in FD, NEW p \in PageNum, OnFixed(fd, p),
           PageAt(fd, p).dirty => PageAt(fd, p)'.dirty,
           PageAt(fd, p)'.fixed => PageAt(fd, p)'.fpage.nextfree = PageAt(fd, p).fpage.nextfree,
           touched' \subseteq touched \cup {buf.hash[<<fd, p>>]},
           ~PageAt(fd, p)'.fixed => buf.hash[<<fd, p>>] \notin touched'
    PROVE  DiskInv'
<1>1. /\ buf'.hash = buf.hash
      /\ Held(buf, fd, p) /\ PageAt(fd, p).fixed
      /\ \A g \in FD, q \in PageNum : <<g, q>> \in {<<fd, p>>} \/ Stays(buf, buf', g, q)
      /\ UNCHANGED <<disk, PFftab>>
  BY DEF OnFixed, Only
<1>2. /\ OpenFilesExist /\ MissingFilesAreEmpty /\ HeaderCoversPages /\ NewPagesAreDirty
      /\ TouchedAreFixed /\ FixedPagesAreUsed /\ PFTypeOK /\ BufOK(buf)
  BY Basics DEF DiskInv
<1>3. ASSUME NEW g \in FD, NEW q \in PageNum, <<g, q>> # <<fd, p>>, Held(buf, g, q)
      PROVE  PageAt(g, q)' = PageAt(g, q)
  BY <1>1, <1>3 DEF Stays, PageAt, At
<1>4. \A g \in FD, q \in PageNum : Held(buf, g, q)' <=> Held(buf, g, q)
  BY <1>1 DEF Held
<1>5. OpenFilesExist' /\ MissingFilesAreEmpty' /\ HeaderCoversPages'
  BY <1>1, <1>2 DEF OpenFilesExist, MissingFilesAreEmpty, HeaderCoversPages, IsOpen
<1>6. NewPagesAreDirty'
  BY <1>1, <1>2, <1>3, <1>4 DEF NewPagesAreDirty, IsOpen
<1>7. FixedPagesAreUsed'
  BY <1>1, <1>2, <1>3, <1>4 DEF FixedPagesAreUsed
<1>8. TouchedAreFixed'
  <2>1. SUFFICES ASSUME NEW f \in touched' PROVE buf'.frame[f].fixed
    BY DEF TouchedAreFixed
  <2>2. CASE f = buf.hash[<<fd, p>>]
    BY <1>1, <2>1, <2>2 DEF PageAt, At
  <2>3. CASE f # buf.hash[<<fd, p>>]
    <3>1. f \in Frame /\ buf.frame[f].fixed
      BY <1>2, <2>1, <2>3 DEF PFTypeOK, TouchedAreFixed
    <3>2. PICK g \in FD, q \in PageNum :
             Held(buf, g, q) /\ buf.hash[<<g, q>>] = f /\ At(buf, g, q) = buf.frame[f]
      <4>1. f \in ToSet(buf.list)
        BY <1>2, <3>1 DEF BufOK, Holds
      <4> QED  BY <1>2, <4>1, ListedPage, ZenonT(60)
    <3>3. PageAt(g, q)' = PageAt(g, q)
      BY <1>3, <2>3, <3>2
    <3> QED  BY <1>1, <3>1, <3>2, <3>3 DEF PageAt, At
  <2> QED  BY <2>2, <2>3
<1> QED
  BY <1>5, <1>6, <1>7, <1>8 DEF DiskInv

LEMMA PinnedKindsDisk ==
    ASSUME PFInv, DiskInv, NEW fd \in FD, NEW p \in PageNum,
           \/ \E dirty \in BOOLEAN : Unpinned(fd, p, dirty)
           \/ Marked(fd, p)
           \/ \E d \in Data : Wrote(fd, p, d)
    PROVE  DiskInv'
<1>1. ASSUME NEW dirty \in BOOLEAN, Unpinned(fd, p, dirty) PROVE DiskInv'
  BY <1>1, OnFixedDisk DEF Unpinned
<1>2. CASE Marked(fd, p)
  BY <1>2, OnFixedDisk DEF Marked
<1>3. ASSUME NEW d \in Data, Wrote(fd, p, d) PROVE DiskInv'
  BY <1>3, OnFixedDisk DEF Wrote
<1> QED
  BY <1>1, <1>2, <1>3

(* The pool, and what the client changed in it, are as they were. *)
LEMMA SamePool ==
    ASSUME DiskInv, UNCHANGED <<buf, touched>>
    PROVE  /\ TouchedAreFixed' /\ FixedPagesAreUsed'
           /\ \A fd \in FD, p \in PageNum : /\ Held(buf, fd, p)' <=> Held(buf, fd, p)
                                            /\ PageAt(fd, p)' = PageAt(fd, p)
BY DEF DiskInv, TouchedAreFixed, FixedPagesAreUsed, Held, PageAt, At

LEMMA FilesDisk ==
    ASSUME PFInv, DiskInv, NEW fn \in Fname, Created(fn) \/ Destroyed(fn)
    PROVE  DiskInv'
<1>1. /\ TouchedAreFixed' /\ FixedPagesAreUsed'
      /\ \A fd \in FD, p \in PageNum : /\ Held(buf, fd, p)' <=> Held(buf, fd, p)
                                       /\ PageAt(fd, p)' = PageAt(fd, p)
  BY SamePool DEF Created, Destroyed, FileIs
<1>2. /\ OpenFilesExist /\ MissingFilesAreEmpty /\ HeaderCoversPages /\ NewPagesAreDirty
  BY DEF DiskInv
<1>3. /\ disk'[fn] = EmptyFile(TRUE) \/ disk'[fn] = EmptyFile(FALSE)
      /\ \A gn \in Fname : gn # fn => disk'[gn] = disk[gn]
      /\ UNCHANGED PFftab
  BY DEF Created, Destroyed, FileIs
<1>4. \A g \in FD : IsOpen(g) => PFftab[g].fname # fn /\ PFftab[g].fname \in Fname
  BY <1>2, Basics DEF Created, Destroyed, OpenFilesExist, IsOpen, FtabType, PFftab_ele
<1>5. \A g \in FD : IsOpen(g)' <=> IsOpen(g)
  BY <1>3 DEF IsOpen
<1>6. OpenFilesExist'
  BY <1>2, <1>3, <1>4, <1>5 DEF OpenFilesExist
<1>7. NewPagesAreDirty'
  BY <1>1, <1>2, <1>3, <1>4, <1>5 DEF NewPagesAreDirty
<1>8. disk'[fn].hdr.numpages = 0 /\ disk'[fn].len = 0 /\ (~disk'[fn].exists => disk'[fn] = EmptyFile(FALSE))
  BY <1>3 DEF EmptyFile, EmptyHdr
<1>9. HeaderCoversPages'
  BY <1>2, <1>3, <1>8 DEF HeaderCoversPages
<1>10. MissingFilesAreEmpty'
  BY <1>2, <1>3, <1>8 DEF MissingFilesAreEmpty
<1> QED
  BY <1>1, <1>6, <1>7, <1>9, <1>10 DEF DiskInv

LEMMA LoadedDisk ==
    ASSUME PFInv, DiskInv, NEW fn \in Fname, NEW fd \in FD, NEW name,
           name = fn \/ name = NULL, Loaded(fd, fn, name)
    PROVE  DiskInv'
<1>1. /\ TouchedAreFixed' /\ FixedPagesAreUsed'
      /\ \A g \in FD, p \in PageNum : /\ Held(buf, g, p)' <=> Held(buf, g, p)
                                      /\ PageAt(g, p)' = PageAt(g, p)
  BY SamePool DEF Loaded
<1>2. /\ OpenFilesExist /\ MissingFilesAreEmpty /\ HeaderCoversPages /\ NewPagesAreDirty
  BY DEF DiskInv
<1>3. /\ disk[fn].exists /\ UNCHANGED disk
      /\ \A g \in FD : g # fd => PFftab'[g] = PFftab[g]
      /\ PFftab'[fd].fname = name
      /\ PFftab'[fd].hdr = disk[fn].hdr
  BY DEF Loaded, OthersSame
<1>4. \A g \in FD : g # fd => (IsOpen(g)' <=> IsOpen(g))
  BY <1>3 DEF IsOpen
<1>5. IsOpen(fd)' => name = fn
  BY <1>3 DEF IsOpen
<1>6. OpenFilesExist'
  BY <1>2, <1>3, <1>4, <1>5 DEF OpenFilesExist
<1>7. MissingFilesAreEmpty' /\ HeaderCoversPages'
  BY <1>2, <1>3 DEF MissingFilesAreEmpty, HeaderCoversPages
<1>8. NewPagesAreDirty'
  <2>1. SUFFICES ASSUME NEW g \in FD, NEW q \in PageNum,
                        IsOpen(g)', q < PFftab'[g].hdr.numpages, disk'[PFftab'[g].fname].len <= q
                 PROVE  Held(buf, g, q)' /\ PageAt(g, q)'.dirty
    BY DEF NewPagesAreDirty
  <2>2. CASE g # fd
    BY <1>1, <1>2, <1>3, <1>4, <2>1, <2>2 DEF NewPagesAreDirty
  <2>3. CASE g = fd
    <3>1. disk[fn].hdr.numpages <= disk[fn].len /\ q < disk[fn].hdr.numpages /\ disk[fn].len <= q
      BY <1>2, <1>3, <1>5, <2>1, <2>3 DEF HeaderCoversPages
    <3>2. disk[fn].hdr.numpages \in Int /\ disk[fn].len \in Int /\ q \in Int
      BY Basics, PFAssumption, PagesAreIntegers DEF DiskType, File, PFhdr_str
    <3> QED  BY <3>1, <3>2
  <2> QED  BY <2>2, <2>3
<1> QED
  BY <1>1, <1>6, <1>7, <1>8 DEF DiskInv

LEMMA ClosedDisk ==
    ASSUME PFInv, DiskInv, NEW fd \in FD, Closed(fd)
    PROVE  DiskInv'
<1> DEFINE fn == PFftab[fd].fname
<1>1. /\ TouchedAreFixed' /\ FixedPagesAreUsed'
      /\ \A g \in FD, p \in PageNum : /\ Held(buf, g, p)' <=> Held(buf, g, p)
                                      /\ PageAt(g, p)' = PageAt(g, p)
  BY SamePool DEF Closed
<1>2. /\ OpenFilesExist /\ MissingFilesAreEmpty /\ HeaderCoversPages /\ NewPagesAreDirty
  BY DEF DiskInv
<1>3. /\ IsOpen(fd) /\ fn \in Fname /\ disk[fn].exists
      /\ disk \in [Fname -> File] /\ PFftab[fd].hdr \in PFhdr_str
  BY <1>2, Basics DEF Closed, IsOpen, OpenFilesExist, FtabType, PFftab_ele, DiskType
<1>4. /\ disk' = IF PFftab[fd].hdrchanged THEN [disk EXCEPT ![fn].hdr = PFftab[fd].hdr] ELSE disk
      /\ \A g \in FD : g # fd => PFftab'[g] = PFftab[g]
      /\ PFftab'[fd].fname = NULL
  BY DEF Closed, OthersSame
<1>10. \A p \in PageNum : ~Held(buf, fd, p)
  BY DEF Closed
<1> HIDE DEF fn
<1>5. /\ \A gn \in Fname : /\ disk'[gn].exists = disk[gn].exists
                           /\ disk'[gn].len = disk[gn].len
                           /\ gn # fn => disk'[gn] = disk[gn]
      /\ disk'[fn].hdr = disk[fn].hdr \/ disk'[fn].hdr = PFftab[fd].hdr
  BY <1>3, <1>4 DEF File
<1>6. \A g \in FD : IsOpen(g)' => /\ g # fd /\ IsOpen(g) /\ PFftab'[g] = PFftab[g]
                                  /\ PFftab[g].fname \in Fname
  BY <1>4, Basics DEF IsOpen, FtabType, PFftab_ele
<1>7. OpenFilesExist' /\ NewPagesAreDirty'
  BY <1>1, <1>2, <1>5, <1>6 DEF OpenFilesExist, NewPagesAreDirty
<1>8. MissingFilesAreEmpty'
  BY <1>2, <1>3, <1>5 DEF MissingFilesAreEmpty
<1>9. HeaderCoversPages'
  <2>1. PFftab[fd].hdr.numpages <= disk[fn].len
    <3> DEFINE n == PFftab[fd].hdr.numpages
    <3>1. n \in 0 .. MaxPages /\ disk[fn].len \in Nat
      BY <1>3, PFAssumption DEF PFhdr_str, File
    <3>2. ASSUME disk[fn].len < n PROVE FALSE
      <4>1. disk[fn].len \in PageNum
        BY <3>1, <3>2, PFAssumption DEF PageNum
      <4> QED  BY <1>2, <1>3, <1>10, <3>1, <3>2, <4>1 DEF NewPagesAreDirty, fn
    <3> QED  BY <3>1, <3>2, PFAssumption
  <2> QED  BY <1>2, <1>3, <1>5, <2>1 DEF HeaderCoversPages
<1> QED
  BY <1>1, <1>7, <1>8, <1>9 DEF DiskInv

(* A process begins, the first or another, with whatever is on disk. *)
Fresh == PFftab = NoOpenFile /\ buf = PFbufInit(PF_MAX_BUFS) /\ touched = {}

LEMMA FreshPool ==
    ASSUME Fresh
    PROVE  /\ \A fd \in FD : ~IsOpen(fd) /\ ~PFftab[fd].hdrchanged
           /\ \A fd \in FD, p \in PageNum : ~Held(buf, fd, p)
           /\ touched = {}
BY DEF Fresh, IsOpen, NoOpenFile, PFbufInit, Held

LEMMA FreshDisk ==
    ASSUME Fresh, MissingFilesAreEmpty, HeaderCoversPages
    PROVE  DiskInv
BY FreshPool DEF DiskInv, OpenFilesExist, NewPagesAreDirty, TouchedAreFixed, FixedPagesAreUsed

LEMMA InitDisk == PFInit => DiskInv
<1> SUFFICES ASSUME PFInit PROVE DiskInv
  OBVIOUS
<1>1. Fresh
  BY DEF Fresh, PFInit
<1>2. \A fn \in Fname : disk[fn] = EmptyFile(FALSE)
  BY DEF PFInit
<1>3. MissingFilesAreEmpty
  BY <1>2 DEF MissingFilesAreEmpty
<1>4. EmptyFile(FALSE).hdr.numpages = 0 /\ EmptyFile(FALSE).len = 0
  BY DEF EmptyFile, EmptyHdr
<1>5. HeaderCoversPages
  <2>1. SUFFICES ASSUME NEW fn \in Fname PROVE disk[fn].hdr.numpages <= disk[fn].len
    BY DEF HeaderCoversPages
  <2>2. disk[fn].hdr.numpages = 0 /\ disk[fn].len = 0
    BY <1>2, <1>4
  <2> QED  BY <2>2
<1> QED
  BY <1>1, <1>3, <1>5, FreshDisk

LEMMA RestartDisk ==
    ASSUME DiskInv, Restart
    PROVE  DiskInv'
<1>1. Fresh'
  BY DEF Fresh, Restart
<1>2. MissingFilesAreEmpty' /\ HeaderCoversPages'
  BY DEF DiskInv, MissingFilesAreEmpty, HeaderCoversPages, Restart
<1>3. (Fresh /\ MissingFilesAreEmpty /\ HeaderCoversPages => DiskInv)'
  BY FreshDisk, PTL
<1> QED
  BY <1>1, <1>2, <1>3

LEMMA StillDisk ==
    ASSUME DiskInv, Still
    PROVE  DiskInv'
BY DEF DiskInv, Still, OpenFilesExist, MissingFilesAreEmpty, HeaderCoversPages,
       NewPagesAreDirty, TouchedAreFixed, FixedPagesAreUsed, IsOpen, PageAt, At, Held

LEMMA NextDisk == PFInv /\ DiskInv /\ [PFNext \/ Restart]_pfvars => DiskInv'
<1> SUFFICES ASSUME PFInv, DiskInv, [PFNext \/ Restart]_pfvars PROVE DiskInv'
  OBVIOUS
<1>1. CASE Restart
  BY <1>1, RestartDisk
<1>2. CASE [PFNext]_pfvars
  <2>1. Shape
    BY <1>2, StepShapes
  <2>2. ASSUME NEW fd \in FD, NEW p \in PageNum,
               \/ Got(fd, p) \/ Recycled(fd, p) \/ Extended(fd, p) \/ Freed(fd, p)
               \/ \E dirty \in BOOLEAN : Unpinned(fd, p, dirty)
               \/ Marked(fd, p)
               \/ \E d \in Data : Wrote(fd, p, d)
        PROVE  DiskInv'
    BY <2>2, ServingKinds, ServesDisk, PinnedKindsDisk
  <2>3. ASSUME NEW fn \in Fname, NEW fd \in FD, Loaded(fd, fn, fn) \/ Loaded(fd, fn, NULL)
        PROVE  DiskInv'
    BY <2>3, LoadedDisk
  <2> QED  BY <2>1, <2>2, <2>3, StillDisk, MovedDisk, FilesDisk, ClosedDisk DEF Shape
<1> QED
  BY <1>1, <1>2

LEMMA DiskInvariance == (PFSpec => [](PFInv /\ DiskInv)) /\ (PFCrashSpec => [](PFInv /\ DiskInv))
<1>1. PFInv /\ DiskInv /\ [PFNext]_pfvars => DiskInv'
  BY NextDisk
<1> QED
  BY <1>1, NextDisk, InitDisk, Invariance, PTL DEF PFSpec, PFCrashSpec

(***************************************************************************)
(* Whatever the client does, and whenever the process ends, no file is     *)
(* shorter than its header says: PF_CloseFile writes the pages first.      *)
(***************************************************************************)
THEOREM HeadersNeverLead == (PFSpec => []HeaderCoversPages) /\ (PFCrashSpec => []HeaderCoversPages)
<1>1. DiskInv => HeaderCoversPages
  BY DEF DiskInv
<1> QED
  BY <1>1, DiskInvariance, PTL

(* No call, and no call that fails, leaves a free page fixed. *)
THEOREM OnlyUsedPagesArePinned ==
    (PFSpec => []PinnedPagesAreUsed) /\ (PFCrashSpec => []PinnedPagesAreUsed)
<1>1. PFInv /\ DiskInv => PinnedPagesAreUsed
  <2> SUFFICES ASSUME PFInv, DiskInv, NEW f \in Listed, buf.frame[f].fixed
               PROVE  buf.frame[f].fpage.nextfree = PF_PAGE_USED
    BY DEF PinnedPagesAreUsed
  <2>1. BufOK(buf)
    BY Basics
  <2>2. PICK g \in FD, q \in PageNum : Held(buf, g, q) /\ At(buf, g, q) = buf.frame[f]
    BY <2>1, ListedPage, ZenonT(60) DEF Listed
  <2> QED  BY <2>2 DEF DiskInv, FixedPagesAreUsed, PageAt
<1> QED
  BY <1>1, DiskInvariance, PTL

-----------------------------------------------------------------------------
(***************************************************************************)
(* A disciplined client.  ShareInv is inductive: of descriptors that share *)
(* a file none has a change that is not saved, so that a write for one of  *)
(* them cannot disagree with what the others have in the pool.             *)
(***************************************************************************)
Changed(fd, p) ==
    Held(buf, fd, p) /\ (PageAt(fd, p).dirty \/ buf.hash[<<fd, p>>] \in touched)

Share(g, h) == g # h /\ IsOpen(g) /\ PFftab[g].fname = PFftab[h].fname

SharersAreSaved ==
    \A g \in FD, h \in FD : Share(g, h) =>
      ~PFftab[g].hdrchanged /\ \A p \in PageNum : ~Changed(g, p)

HeadersMatchDisk ==
    \A fd \in FD : IsOpen(fd) /\ ~PFftab[fd].hdrchanged =>
                     PFftab[fd].hdr = disk[PFftab[fd].fname].hdr

OnDisk(d, fd, p, fp) == p < d[PFftab[fd].fname].len /\ d[PFftab[fd].fname].page[p] = fp

PagesMatchDisk ==
    \A fd \in FD, p \in PageNum : Held(buf, fd, p) /\ ~Changed(fd, p) =>
                                    OnDisk(disk, fd, p, PageAt(fd, p).fpage)

ShareInv == SharersAreSaved /\ HeadersMatchDisk /\ PagesMatchDisk

(* Pages of the pool are pages of files. *)
LEMMA HeldIsOpen ==
    ASSUME PFInv, NEW fd \in FD, NEW p \in PageNum, Held(buf, fd, p)
    PROVE  IsOpen(fd) /\ PFftab[fd].fname \in Fname
<1>1. BufOK(buf) /\ PagesOpen(PFftab, buf) /\ PFftab \in FtabType
  BY Basics
<1>2. buf.hash[<<fd, p>>] \in ToSet(buf.list) /\ buf.frame[buf.hash[<<fd, p>>]].fd = fd
  BY <1>1, HeldPage DEF At
<1> QED
  BY <1>1, <1>2 DEF PagesOpen, Open, IsOpen, FtabType, PFftab_ele

LEMMA AloneIsNotShared ==
    ASSUME ~Undisciplined, NEW fd \in FD, Alone(fd), NEW g \in FD
    PROVE  ~Share(fd, g) /\ ~Share(g, fd)
BY DEF Alone, Share, IsOpen

(* A write for one descriptor leaves alone what another has clean. *)
LEMMA WriteIsElsewhere ==
    ASSUME PFInv, DiskInv, ShareInv, NEW e, Written(e),
           NEW g \in FD, NEW q \in PageNum, Held(buf, g, q), ~Changed(g, q)
    PROVE  OnDisk(e, g, q, PageAt(g, q).fpage)
<1>1. OnDisk(disk, g, q, PageAt(g, q).fpage)
  BY DEF ShareInv, PagesMatchDisk
<1>2. PFftab[g].fname \in Fname /\ disk \in [Fname -> File]
  BY HeldIsOpen, Basics DEF DiskType
<1>3. CASE e = disk
  BY <1>1, <1>3
<1>4. ASSUME NEW h \in FD, NEW r \in PageNum, NEW fp \in PFfpage,
             Held(buf, h, r), At(buf, h, r).dirty,
             e = Put(disk, PFftab[h].fname, r, fp)
      PROVE  OnDisk(e, g, q, PageAt(g, q).fpage)
  <2>1. IsOpen(h) /\ PFftab[h].fname \in Fname
    BY <1>4, HeldIsOpen
  <2>2. Changed(h, r)
    BY <1>4 DEF Changed, PageAt
  <2>3. ~(PFftab[h].fname = PFftab[g].fname /\ r = q)
    <3>1. CASE h = g
      BY <2>2, <3>1
    <3>2. CASE h # g
      BY <2>1, <2>2, <3>2 DEF ShareInv, SharersAreSaved, Share
    <3> QED  BY <3>1, <3>2
  <2> DEFINE hn == PFftab[h].fname
             gn == PFftab[g].fname
  <2>4. e = Put(disk, hn, r, fp) /\ hn \in Fname /\ gn \in Fname /\ ~(hn = gn /\ r = q)
    BY <1>2, <1>4, <2>1, <2>3
  <2>5. q < disk[gn].len /\ disk[gn].page[q] = PageAt(g, q).fpage
    BY <1>1 DEF OnDisk
  <2> HIDE DEF hn, gn
  <2>6. disk[gn] \in File /\ disk[gn].len \in Int /\ disk[gn].page \in [PageNum -> PFfpage]
        /\ q \in Int /\ r \in Int
    BY <1>2, <2>4, PFAssumption, PagesAreIntegers DEF File
  <2>7. CASE hn # gn
    <3>1. e[gn] = disk[gn]
      BY <1>2, <2>4, <2>7 DEF Put
    <3> QED  BY <2>5, <3>1 DEF OnDisk, gn
  <2>8. CASE hn = gn
    <3>1. /\ e[gn].page = [disk[gn].page EXCEPT ![r] = fp]
          /\ e[gn].len = IF disk[gn].len > r THEN disk[gn].len ELSE r + 1
      BY <1>2, <2>4, <2>6, <2>8 DEF Put, File
    <3>2. e[gn].page[q] = disk[gn].page[q] /\ q < e[gn].len
      BY <2>4, <2>5, <2>6, <2>8, <3>1
    <3> QED  BY <2>5, <3>2 DEF OnDisk, gn
  <2> QED  BY <2>7, <2>8
<1> QED
  BY <1>3, <1>4 DEF Written

(* Pages a flow does not serve. *)
LEMMA FlowShare ==
    ASSUME PFInv, DiskInv, ShareInv, NEW T, Flow(buf', disk', T), touched' = touched,
           NEW g \in FD, NEW q \in PageNum, <<g, q>> \notin T
    PROVE  /\ Changed(g, q)' => Changed(g, q)
           /\ Held(buf', g, q) /\ ~Changed(g, q)' => OnDisk(disk', g, q, PageAt(g, q)'.fpage)
<1>0. PageAt(g, q)' = At(buf', g, q)
  BY DEF PageAt, At
<1>1. CASE Stays(buf, buf', g, q)
  <2>1. Held(buf', g, q) => /\ Held(buf, g, q)
                            /\ PageAt(g, q)' = PageAt(g, q)
                            /\ buf'.hash[<<g, q>>] = buf.hash[<<g, q>>]
    BY <1>0, <1>1 DEF Stays, Held, PageAt
  <2>2. Held(buf', g, q) => (Changed(g, q)' <=> Changed(g, q))
    BY <2>1 DEF Changed, Held
  <2>3. Changed(g, q)' => Held(buf', g, q)
    BY DEF Changed, Held
  <2>4. Held(buf', g, q) /\ ~Changed(g, q) => OnDisk(disk', g, q, PageAt(g, q).fpage)
    BY <2>1, WriteIsElsewhere DEF Flow
  <2> QED  BY <2>1, <2>2, <2>3, <2>4
<1>2. CASE Leaves(buf', disk', g, q)
  BY <1>2 DEF Leaves, Changed, Held
<1> QED
  BY <1>1, <1>2 DEF Flow

LEMMA WrittenHeaders ==
    ASSUME PFInv, DiskInv, NEW e, Written(e), NEW fd \in FD, IsOpen(fd)
    PROVE  e[PFftab[fd].fname].hdr = disk[PFftab[fd].fname].hdr
<1>1. PFftab[fd].fname \in Fname
  BY Basics DEF IsOpen, FtabType, PFftab_ele
<1> QED
  BY <1>1, WrittenKeeps DEF DiskInv

LEMMA MovedShare ==
    ASSUME PFInv, DiskInv, ShareInv, Moved
    PROVE  ShareInv'
<1> DEFINE none == {}
<1>1. Flow(buf', disk', none) /\ UNCHANGED <<PFftab, touched>>
  BY DEF Moved
<1>2. \A g \in FD, q \in PageNum : <<g, q>> \notin none
  OBVIOUS
<1> HIDE DEF none
<1>3. \A g \in FD, q \in PageNum :
        /\ Changed(g, q)' => Changed(g, q)
        /\ Held(buf', g, q) /\ ~Changed(g, q)' => OnDisk(disk', g, q, PageAt(g, q)'.fpage)
  BY <1>1, <1>2, FlowShare
<1>4. \A g \in FD, h \in FD : Share(g, h)' <=> Share(g, h)
  BY <1>1 DEF Share, IsOpen
<1>5. SharersAreSaved'
  BY <1>1, <1>3, <1>4 DEF ShareInv, SharersAreSaved
<1>6. HeadersMatchDisk'
  <2>1. \A fd \in FD : IsOpen(fd) => disk'[PFftab[fd].fname].hdr = disk[PFftab[fd].fname].hdr
    BY <1>1, WrittenHeaders DEF Flow
  <2> QED  BY <1>1, <2>1 DEF ShareInv, HeadersMatchDisk, IsOpen
<1>7. PagesMatchDisk'
  BY <1>1, <1>3 DEF PagesMatchDisk, OnDisk, Held
<1> QED
  BY <1>5, <1>6, <1>7 DEF ShareInv

LEMMA ServesShare ==
    ASSUME ~Undisciplined, PFInv, DiskInv, ShareInv,
           NEW fd \in FD, NEW p \in PageNum, Serves(fd, p)
    PROVE  ShareInv'
<1>1. /\ Flow(buf', disk', {<<fd, p>>})
      /\ \A g \in FD : PFftab'[g].fname = PFftab[g].fname
      /\ OthersSame(fd)
      /\ touched' = touched
      /\ Held(buf', fd, p)
  BY DEF Serves, OthersSame
<1>2. \A g \in FD, q \in PageNum : <<g, q>> \notin {<<fd, p>>} =>
        /\ Changed(g, q)' => Changed(g, q)
        /\ Held(buf', g, q) /\ ~Changed(g, q)' => OnDisk(disk', g, q, PageAt(g, q)'.fpage)
  BY <1>1, FlowShare
<1>3. \A g \in FD, h \in FD : Share(g, h)' <=> Share(g, h)
  BY <1>1 DEF Share, IsOpen
<1>4. \A g \in FD : IsOpen(g) => disk'[PFftab[g].fname].hdr = disk[PFftab[g].fname].hdr
  BY <1>1, WrittenHeaders DEF Flow
<1>5. buf'.hash[<<fd, p>>] \notin touched
  BY DEF Serves, DiskInv, TouchedAreFixed
<1>6. Held(buf, fd, p) => buf.hash[<<fd, p>>] \notin touched
  BY DEF Serves, DiskInv, TouchedAreFixed, PageAt, At
<1>7. Changed(fd, p)' <=> PageAt(fd, p)'.dirty
  BY <1>1, <1>5 DEF Changed, Held
<1>8. CASE /\ PFftab'[fd] = PFftab[fd]
           /\ IF Held(buf, fd, p)
              THEN /\ disk' = disk
                   /\ PageAt(fd, p)'.dirty <=> PageAt(fd, p).dirty
                   /\ PageAt(fd, p)'.fpage = PageAt(fd, p).fpage
              ELSE /\ p < disk'[PFftab[fd].fname].len
                   /\ ~PageAt(fd, p)'.dirty
                   /\ PageAt(fd, p)'.fpage = disk'[PFftab[fd].fname].page[p]
  <2>1. \A g \in FD : PFftab'[g] = PFftab[g]
    BY <1>1, <1>8 DEF OthersSame
  <2>2. Changed(fd, p)' => Changed(fd, p)
    BY <1>7, <1>8 DEF Changed
  <2>3. ~Changed(fd, p)' => OnDisk(disk', fd, p, PageAt(fd, p)'.fpage)
    <3>1. CASE Held(buf, fd, p)
      <4>1. ~Changed(fd, p)' => ~Changed(fd, p)
        BY <1>6, <1>7, <1>8, <3>1 DEF Changed
      <4> QED  BY <1>8, <3>1, <4>1 DEF ShareInv, PagesMatchDisk
    <3>2. CASE ~Held(buf, fd, p)
      BY <1>8, <3>2 DEF OnDisk
    <3> QED  BY <3>1, <3>2
  <2>4. SharersAreSaved'
    BY <1>2, <1>3, <2>1, <2>2 DEF ShareInv, SharersAreSaved
  <2>5. HeadersMatchDisk'
    BY <1>4, <2>1 DEF ShareInv, HeadersMatchDisk, IsOpen
  <2>6. PagesMatchDisk'
    BY <1>2, <2>1, <2>3 DEF PagesMatchDisk, OnDisk, Held
  <2> QED  BY <2>4, <2>5, <2>6 DEF ShareInv
<1>9. CASE Alone(fd) /\ PageAt(fd, p)'.dirty /\ PFftab'[fd].hdrchanged
  <2>1. \A g \in FD : ~Share(fd, g) /\ ~Share(g, fd)
    BY <1>9, AloneIsNotShared
  <2>2. \A g \in FD : g # fd => PFftab'[g] = PFftab[g]
    BY <1>1 DEF OthersSame
  <2>3. SharersAreSaved'
    BY <1>2, <1>3, <2>1, <2>2 DEF ShareInv, SharersAreSaved
  <2>4. HeadersMatchDisk'
    BY <1>1, <1>4, <1>9, <2>2 DEF ShareInv, HeadersMatchDisk, IsOpen
  <2>5. PagesMatchDisk'
    BY <1>1, <1>2, <1>7, <1>9 DEF PagesMatchDisk, OnDisk, Held
  <2> QED  BY <2>3, <2>4, <2>5 DEF ShareInv
<1> QED
  BY <1>8, <1>9 DEF Serves

LEMMA OnFixedShare ==
    ASSUME ~Undisciplined, PFInv, DiskInv, ShareInv,
           NEW fd \in FD, NEW p \in PageNum, OnFixed(fd, p),
           touched \subseteq touched' \cup {buf.hash[<<fd, p>>]},
           touched' \subseteq touched \cup {buf.hash[<<fd, p>>]},
           \/ Alone(fd) /\ Changed(fd, p)'
           \/ /\ Changed(fd, p)' <=> Changed(fd, p)
              /\ PageAt(fd, p)'.fpage = PageAt(fd, p).fpage
    PROVE  ShareInv'
<1>1. /\ buf'.hash = buf.hash
      /\ Held(buf, fd, p)
      /\ \A g \in FD, q \in PageNum : <<g, q>> \in {<<fd, p>>} \/ Stays(buf, buf', g, q)
      /\ UNCHANGED <<disk, PFftab>>
  BY DEF OnFixed, Only
<1>2. BufOK(buf)
  BY Basics
<1>3. ASSUME NEW g \in FD, NEW q \in PageNum, <<g, q>> # <<fd, p>>
      PROVE  /\ Changed(g, q)' <=> Changed(g, q)
             /\ Held(buf, g, q) => PageAt(g, q)' = PageAt(g, q)
  <2>1. Held(buf, g, q) => PageAt(g, q)' = PageAt(g, q)
    BY <1>1, <1>3 DEF Stays, PageAt, At
  <2>2. Held(buf, g, q) => buf.hash[<<g, q>>] # buf.hash[<<fd, p>>]
    BY <1>1, <1>2, <1>3, OnePageAFrame
  <2>3. Held(buf, g, q)' <=> Held(buf, g, q)
    BY <1>1 DEF Held
  <2> QED  BY <1>1, <2>1, <2>2, <2>3 DEF Changed
<1>4. \A g \in FD, q \in PageNum : Held(buf, g, q)' <=> Held(buf, g, q)
  BY <1>1 DEF Held
<1>5. \A g \in FD, h \in FD : Share(g, h)' <=> Share(g, h)
  BY <1>1 DEF Share, IsOpen
<1>6. HeadersMatchDisk'
  BY <1>1 DEF ShareInv, HeadersMatchDisk, IsOpen
<1>7. CASE Alone(fd) /\ Changed(fd, p)'
  <2>1. \A g \in FD : ~Share(fd, g) /\ ~Share(g, fd)
    BY <1>7, AloneIsNotShared
  <2>2. SharersAreSaved'
    BY <1>1, <1>3, <1>5, <2>1 DEF ShareInv, SharersAreSaved
  <2>3. PagesMatchDisk'
    BY <1>1, <1>3, <1>4, <1>7 DEF ShareInv, PagesMatchDisk, OnDisk
  <2> QED  BY <1>6, <2>2, <2>3 DEF ShareInv
<1>8. CASE /\ Changed(fd, p)' <=> Changed(fd, p)
           /\ PageAt(fd, p)'.fpage = PageAt(fd, p).fpage
  <2>1. SharersAreSaved'
    BY <1>1, <1>3, <1>5, <1>8 DEF ShareInv, SharersAreSaved
  <2>2. PagesMatchDisk'
    BY <1>1, <1>3, <1>4, <1>8 DEF ShareInv, PagesMatchDisk, OnDisk
  <2> QED  BY <1>6, <2>1, <2>2 DEF ShareInv
<1> QED
  BY <1>7, <1>8

LEMMA PinnedKindsShare ==
    ASSUME ~Undisciplined, PFInv, DiskInv, ShareInv, NEW fd \in FD, NEW p \in PageNum,
           \/ \E dirty \in BOOLEAN : Unpinned(fd, p, dirty)
           \/ Marked(fd, p)
           \/ \E d \in Data : Wrote(fd, p, d)
    PROVE  ShareInv'
<1>1. OnFixed(fd, p)
  BY DEF Unpinned, Marked, Wrote
<1>2. buf'.hash = buf.hash /\ Held(buf', fd, p) /\ Held(buf, fd, p)
  BY <1>1 DEF OnFixed, Only
<1>3. ASSUME NEW dirty \in BOOLEAN, Unpinned(fd, p, dirty) PROVE ShareInv'
  <2>1. CASE dirty
    <3>1. Alone(fd) /\ Changed(fd, p)'
      BY <1>2, <1>3, <2>1 DEF Unpinned, Changed, Held
    <3>2. touched' = touched \ {buf.hash[<<fd, p>>]}
      BY <1>3 DEF Unpinned
    <3> QED  BY <1>1, <3>1, <3>2, OnFixedShare
  <2>2. CASE ~dirty
    <3>1. /\ buf.hash[<<fd, p>>] \notin touched
          /\ PageAt(fd, p)'.dirty <=> PageAt(fd, p).dirty
          /\ PageAt(fd, p)'.fpage = PageAt(fd, p).fpage
          /\ touched' = touched \ {buf.hash[<<fd, p>>]}
      BY <1>3, <2>2 DEF Unpinned
    <3>2. Changed(fd, p)' <=> Changed(fd, p)
      BY <1>2, <3>1 DEF Changed, Held
    <3> QED  BY <1>1, <3>1, <3>2, OnFixedShare
  <2> QED  BY <2>1, <2>2
<1>4. CASE Marked(fd, p)
  <2>1. Alone(fd) /\ Changed(fd, p)' /\ touched' = touched \ {buf.hash[<<fd, p>>]}
    BY <1>2, <1>4 DEF Marked, Changed, Held
  <2> QED  BY <1>1, <2>1, OnFixedShare
<1>5. ASSUME NEW d \in Data, Wrote(fd, p, d) PROVE ShareInv'
  <2>1. /\ Alone(fd)
        /\ PageAt(fd, p)'.dirty <=> PageAt(fd, p).dirty
        /\ touched' = IF PageAt(fd, p).dirty THEN touched
                      ELSE touched \cup {buf.hash[<<fd, p>>]}
    BY <1>5 DEF Wrote
  <2>2. Changed(fd, p)'
    BY <1>2, <2>1 DEF Changed, Held
  <2> QED  BY <1>1, <2>1, <2>2, OnFixedShare
<1> QED
  BY <1>3, <1>4, <1>5

LEMMA UnsavedPages ==
    ASSUME PFInv, NEW fd \in FD, ~Unsaved(fd)
    PROVE  ~PFftab[fd].hdrchanged /\ \A p \in PageNum : ~Changed(fd, p)
<1>1. ~PFftab[fd].hdrchanged
  BY DEF Unsaved
<1>2. ASSUME NEW p \in PageNum, Changed(fd, p) PROVE FALSE
  <2> DEFINE f == buf.hash[<<fd, p>>]
  <2>1. BufOK(buf) /\ buf.list \in Seq(Frame)
    BY Basics DEF BufOK, Pool, BufType
  <2>2. f \in ToSet(buf.list) /\ buf.frame[f].fd = fd /\ (buf.frame[f].dirty \/ f \in touched)
    BY <1>2, <2>1, HeldPage DEF Changed, PageAt, At
  <2> HIDE DEF f
  <2>3. PICK i \in 1 .. Len(buf.list) : buf.list[i] = f
    BY <2>1, <2>2 DEF ToSet
  <2> QED  BY <2>2, <2>3 DEF Unsaved
<1> QED
  BY <1>1, <1>2

LEMMA FilesShare ==
    ASSUME PFInv, DiskInv, ShareInv, NEW fn \in Fname, Created(fn) \/ Destroyed(fn)
    PROVE  ShareInv'
<1>1. /\ \A gn \in Fname : gn # fn => disk'[gn] = disk[gn]
      /\ UNCHANGED <<PFftab, buf, touched>>
  BY DEF Created, Destroyed, FileIs
<1>2. \A g \in FD : IsOpen(g) => PFftab[g].fname # fn /\ PFftab[g].fname \in Fname
  BY Basics DEF DiskInv, Created, Destroyed, OpenFilesExist, IsOpen, FtabType, PFftab_ele
<1>3. \A g \in FD, q \in PageNum : /\ Held(buf, g, q)' <=> Held(buf, g, q)
                                   /\ Changed(g, q)' <=> Changed(g, q)
                                   /\ PageAt(g, q)' = PageAt(g, q)
  BY <1>1 DEF Held, Changed, PageAt, At
<1>4. SharersAreSaved'
  BY <1>1, <1>3 DEF ShareInv, SharersAreSaved, Share, IsOpen
<1>5. HeadersMatchDisk'
  BY <1>1, <1>2 DEF ShareInv, HeadersMatchDisk, IsOpen
<1>6. PagesMatchDisk'
  <2>1. \A g \in FD, q \in PageNum : Held(buf, g, q) => disk'[PFftab[g].fname] = disk[PFftab[g].fname]
    BY <1>1, <1>2, HeldIsOpen
  <2> QED  BY <1>1, <1>3, <2>1 DEF ShareInv, PagesMatchDisk, OnDisk
<1> QED
  BY <1>4, <1>5, <1>6 DEF ShareInv

LEMMA LoadedShare ==
    ASSUME ~Undisciplined, PFInv, DiskInv, ShareInv, NEW fn \in Fname, NEW fd \in FD,
           NEW name, name = fn \/ name = NULL, Loaded(fd, fn, name)
    PROVE  ShareInv'
<1>1. /\ UNCHANGED <<disk, buf, touched>>
      /\ \A g \in FD : g # fd => PFftab'[g] = PFftab[g]
      /\ PFftab'[fd].fname = name
      /\ PFftab'[fd].hdr = disk[fn].hdr
      /\ ~PFftab'[fd].hdrchanged
      /\ ~IsOpen(fd)
      /\ MayOpen(fn)
  BY DEF Loaded, OthersSame
<1>2. \A g \in FD, q \in PageNum : /\ Held(buf, g, q)' <=> Held(buf, g, q)
                                   /\ Changed(g, q)' <=> Changed(g, q)
                                   /\ PageAt(g, q)' = PageAt(g, q)
  BY <1>1 DEF Held, Changed, PageAt, At
<1>3. \A q \in PageNum : ~Held(buf, fd, q)
  BY <1>1, HeldIsOpen
<1>4. SharersAreSaved'
  <2>1. SUFFICES ASSUME NEW g \in FD, NEW h \in FD, Share(g, h)'
                 PROVE  ~PFftab'[g].hdrchanged /\ \A q \in PageNum : ~Changed(g, q)
    BY <1>2 DEF SharersAreSaved
  <2>2. CASE g = fd
    BY <1>1, <1>3, <2>2 DEF Changed
  <2>3. CASE g # fd /\ h = fd
    <3>1. PFftab[g].fname = fn
      BY <1>1, <2>1, <2>3 DEF Share, IsOpen
    <3>2. ~Unsaved(g)
      BY <1>1, <3>1 DEF MayOpen
    <3> QED  BY <1>1, <2>3, <3>2, UnsavedPages
  <2>4. CASE g # fd /\ h # fd
    BY <1>1, <2>1, <2>4 DEF ShareInv, SharersAreSaved, Share, IsOpen
  <2> QED  BY <2>2, <2>3, <2>4
<1>5. HeadersMatchDisk'
  BY <1>1 DEF ShareInv, HeadersMatchDisk, IsOpen
<1>6. PagesMatchDisk'
  <2>1. \A g \in FD, q \in PageNum : Held(buf, g, q) => PFftab'[g] = PFftab[g]
    BY <1>1, <1>3
  <2> QED  BY <1>1, <1>2, <2>1 DEF ShareInv, PagesMatchDisk, OnDisk
<1> QED
  BY <1>4, <1>5, <1>6 DEF ShareInv

LEMMA ClosedShare ==
    ASSUME PFInv, ShareInv, NEW fd \in FD, Closed(fd)
    PROVE  ShareInv'
<1> DEFINE fn == PFftab[fd].fname
<1>1. /\ disk' = IF PFftab[fd].hdrchanged THEN [disk EXCEPT ![fn].hdr = PFftab[fd].hdr] ELSE disk
      /\ \A g \in FD : g # fd => PFftab'[g] = PFftab[g]
      /\ PFftab'[fd].fname = NULL
      /\ UNCHANGED <<buf, touched>>
      /\ IsOpen(fd)
      /\ \A p \in PageNum : ~Held(buf, fd, p)
  BY DEF Closed, OthersSame
<1>2. fn \in Fname /\ disk \in [Fname -> File] /\ fn = PFftab[fd].fname
  BY <1>1, Basics DEF IsOpen, FtabType, PFftab_ele, DiskType
<1> HIDE DEF fn
<1>3. \A gn \in Fname : /\ disk'[gn].len = disk[gn].len
                        /\ disk'[gn].page = disk[gn].page
                        /\ (gn # fn \/ ~PFftab[fd].hdrchanged) => disk'[gn] = disk[gn]
  BY <1>1, <1>2 DEF File
<1>4. \A g \in FD, q \in PageNum : /\ Held(buf, g, q)' <=> Held(buf, g, q)
                                   /\ Changed(g, q)' <=> Changed(g, q)
                                   /\ PageAt(g, q)' = PageAt(g, q)
  BY <1>1 DEF Held, Changed, PageAt, At
<1>5. \A g \in FD : IsOpen(g)' => /\ g # fd /\ IsOpen(g) /\ PFftab'[g] = PFftab[g]
                                  /\ PFftab[g].fname \in Fname
  BY <1>1, Basics DEF IsOpen, FtabType, PFftab_ele
<1>6. SharersAreSaved'
  <2>1. \A g \in FD, h \in FD : Share(g, h)' => g # fd /\ Share(g, h)
    <3>1. \A g \in FD, h \in FD : Share(g, h)' => g # fd /\ h # fd
      BY <1>1, <1>5 DEF Share, IsOpen
    <3> QED  BY <1>1, <3>1 DEF Share, IsOpen
  <2> QED  BY <1>1, <1>4, <2>1 DEF ShareInv, SharersAreSaved
<1>7. HeadersMatchDisk'
  <2>1. \A g \in FD : IsOpen(g)' => (PFftab[g].fname # fn \/ ~PFftab[fd].hdrchanged)
    BY <1>1, <1>2, <1>5 DEF ShareInv, SharersAreSaved, Share
  <2> QED  BY <1>3, <1>5, <2>1 DEF ShareInv, HeadersMatchDisk
<1>8. PagesMatchDisk'
  <2>1. \A g \in FD, q \in PageNum : Held(buf, g, q) => /\ PFftab'[g] = PFftab[g]
                                                        /\ PFftab[g].fname \in Fname
    BY <1>1, HeldIsOpen
  <2> QED  BY <1>3, <1>4, <2>1 DEF ShareInv, PagesMatchDisk, OnDisk
<1> QED
  BY <1>6, <1>7, <1>8 DEF ShareInv

LEMMA FreshShare ==
    ASSUME Fresh
    PROVE  ShareInv
BY FreshPool DEF ShareInv, SharersAreSaved, HeadersMatchDisk, PagesMatchDisk, Share

LEMMA StillShare ==
    ASSUME ShareInv, Still
    PROVE  ShareInv'
BY DEF ShareInv, Still, SharersAreSaved, HeadersMatchDisk, PagesMatchDisk, OnDisk,
       Share, Changed, IsOpen, PageAt, At, Held

LEMMA NextShare ==
    ~Undisciplined /\ PFInv /\ DiskInv /\ ShareInv /\ [PFNext \/ Restart]_pfvars => ShareInv'
<1> SUFFICES ASSUME ~Undisciplined, PFInv, DiskInv, ShareInv, [PFNext \/ Restart]_pfvars
             PROVE  ShareInv'
  OBVIOUS
<1>1. CASE Restart
  <2>1. Fresh'
    BY <1>1 DEF Fresh, Restart
  <2>2. (Fresh => ShareInv)'
    BY FreshShare, PTL
  <2> QED  BY <2>1, <2>2
<1>2. CASE [PFNext]_pfvars
  <2>1. Shape
    BY <1>2, StepShapes
  <2>2. ASSUME NEW fd \in FD, NEW p \in PageNum,
               \/ Got(fd, p) \/ Recycled(fd, p) \/ Extended(fd, p) \/ Freed(fd, p)
               \/ \E dirty \in BOOLEAN : Unpinned(fd, p, dirty)
               \/ Marked(fd, p)
               \/ \E d \in Data : Wrote(fd, p, d)
        PROVE  ShareInv'
    BY <2>2, ServingKinds, ServesShare, PinnedKindsShare
  <2>3. ASSUME NEW fn \in Fname, NEW fd \in FD, Loaded(fd, fn, fn) \/ Loaded(fd, fn, NULL)
        PROVE  ShareInv'
    BY <2>3, LoadedShare
  <2> QED  BY <2>1, <2>2, <2>3, StillShare, MovedShare, FilesShare, ClosedShare DEF Shape
<1> QED
  BY <1>1, <1>2

LEMMA ShareInvariance ==
    ASSUME ~Undisciplined
    PROVE  /\ PFSpec => [](PFInv /\ DiskInv /\ ShareInv)
           /\ PFCrashSpec => [](PFInv /\ DiskInv /\ ShareInv)
<1>1. PFInit => ShareInv
  BY FreshShare DEF PFInit, Fresh
<1>2. PFInv /\ DiskInv /\ ShareInv /\ [PFNext]_pfvars => ShareInv'
  BY NextShare
<1>3. PFInv /\ DiskInv /\ ShareInv /\ [PFNext \/ Restart]_pfvars => ShareInv'
  BY NextShare
<1> QED
  BY <1>1, <1>2, <1>3, DiskInvariance, PTL DEF PFSpec, PFCrashSpec

(***************************************************************************)
(* A frame that no one has changed can be dropped without a write: with a  *)
(* client that says what it changes, through one descriptor at a time, it  *)
(* is what its file has on disk, whatever was evicted or failed before.    *)
(***************************************************************************)
THEOREM CleanPagesAreSaved ==
    ASSUME ~Undisciplined
    PROVE  (PFSpec => []CleanMatchesDisk) /\ (PFCrashSpec => []CleanMatchesDisk)
<1>1. PFInv /\ ShareInv => CleanMatchesDisk
  <2> SUFFICES ASSUME PFInv, ShareInv, NEW f \in Listed, ~buf.frame[f].dirty, f \notin touched
               PROVE  OnDisk(disk, buf.frame[f].fd, buf.frame[f].page, buf.frame[f].fpage)
    BY DEF CleanMatchesDisk, OnDisk
  <2>1. BufOK(buf)
    BY Basics
  <2> DEFINE g == buf.frame[f].fd
             q == buf.frame[f].page
  <2>2. /\ g \in FD /\ q \in PageNum
        /\ Held(buf, g, q) /\ buf.hash[<<g, q>>] = f /\ At(buf, g, q) = buf.frame[f]
    BY <2>1, ListedPage DEF Listed
  <2> HIDE DEF g, q
  <2>3. OnDisk(disk, g, q, buf.frame[f].fpage)
    BY <2>2 DEF ShareInv, PagesMatchDisk, Changed, PageAt
  <2> QED  BY <2>3, SMTT(40) DEF g, q
<1> QED
  BY <1>1, ShareInvariance, PTL

(***************************************************************************)
(* A process that ends without closing its files loses nothing of a file   *)
(* none of whose descriptors has an unsaved change: what a reader saw of   *)
(* it through the pool and the open-file table is what the disk has.       *)
(***************************************************************************)
THEOREM SavedFilesSurvive ==
    ASSUME ~Undisciplined
    PROVE  PFCrashSpec => RestartKeepsSavedFiles
<1>1. ASSUME PFInv, ShareInv, Restart, NEW fn \in Fname,
             \A fd \in OpenOn(fn) : ~Unsaved(fd)
      PROVE  CurrentContent(fn)' = CurrentContent(fn)
  <2>1. CurrentHdr(fn)' = disk[fn].hdr /\ \A p \in PageNum : CurrentPage(fn, p)' = disk[fn].page[p]
    <3>1. OpenOn(fn)' = {}
      BY <1>1, PFAssumption DEF OpenOn, Restart, NoOpenFile
    <3>2. disk' = disk
      BY <1>1 DEF Restart
    <3> QED  BY <3>1, <3>2 DEF CurrentHdr, CurrentPage
  <2>2. \A fd \in OpenOn(fn) : /\ fd \in FD /\ IsOpen(fd) /\ PFftab[fd].fname = fn
                               /\ ~PFftab[fd].hdrchanged
                               /\ \A p \in PageNum : ~Changed(fd, p)
    <3>1. \A fd \in OpenOn(fn) : fd \in FD /\ IsOpen(fd) /\ PFftab[fd].fname = fn
      BY PFAssumption DEF OpenOn, IsOpen
    <3> QED  BY <1>1, <3>1, UnsavedPages
  <2>3. CurrentHdr(fn) = disk[fn].hdr
    BY <1>1, <2>2 DEF CurrentHdr, ShareInv, HeadersMatchDisk
  <2>4. ASSUME NEW p \in PageNum
        PROVE  CurrentPage(fn, p) = disk[fn].page[p]
    <3>1. ASSUME NEW fd \in OpenOn(fn), PFhashFind(buf, fd, p) # NoFrame
          PROVE  FpageOf(buf, fd, p) = disk[fn].page[p]
      <4>1. Held(buf, fd, p) /\ FpageOf(buf, fd, p) = PageAt(fd, p).fpage
        BY <2>2, <3>1 DEF PFhashFind, Held, FpageOf, PageAt, At
      <4>2. OnDisk(disk, fd, p, PageAt(fd, p).fpage)
        BY <1>1, <2>2, <4>1 DEF ShareInv, PagesMatchDisk
      <4> QED  BY <2>2, <4>1, <4>2 DEF OnDisk
    <3> QED  BY <3>1 DEF CurrentPage
  <2> QED  BY <2>1, <2>3, <2>4 DEF CurrentContent
<1>2. PFInv /\ ShareInv => [Restart => \A fn \in Fname :
                              (\A fd \in OpenOn(fn) : ~Unsaved(fd)) =>
                                CurrentContent(fn)' = CurrentContent(fn)]_pfvars
  BY <1>1
<1> QED
  BY <1>2, ShareInvariance, PTL DEF RestartKeepsSavedFiles
=============================================================================
