------------------------- MODULE PFRefinementProofs -------------------------
(***************************************************************************)
(* Theorems about a file as a whole, as a disciplined client sees it: its  *)
(* header and pages, which are partly on disk, partly in the pool and      *)
(* partly in the open-file table.  The chain of free pages goes through    *)
(* all three and stays sound; and the layer implements PagedFile.          *)
(***************************************************************************)
EXTENDS PFProofs, FiniteSetTheorems

Good == PFInv /\ DiskInv /\ ShareInv

-----------------------------------------------------------------------------
(***************************************************************************)
(* The view of a file.  Whichever descriptor it is taken through, it is    *)
(* the same: descriptors that share a file have nothing unsaved.           *)
(***************************************************************************)
Seen(fd, p) == IF Held(buf, fd, p) THEN PageAt(fd, p).fpage
                                   ELSE disk[PFftab[fd].fname].page[p]

LEMMA ViewOpen ==
    PFInv /\ ShareInv =>
      \A fn \in Fname, fd \in FD : PFftab[fd].fname = fn =>
        CurrentHdr(fn) = PFftab[fd].hdr /\ \A p \in PageNum : CurrentPage(fn, p) = Seen(fd, p)
<1> SUFFICES ASSUME PFInv, ShareInv, NEW fn \in Fname, NEW fd \in FD, PFftab[fd].fname = fn
             PROVE  /\ CurrentHdr(fn) = PFftab[fd].hdr
                    /\ \A p \in PageNum : CurrentPage(fn, p) = Seen(fd, p)
  OBVIOUS
<1>1. fd \in OpenOn(fn)
  BY DEF OpenOn
<1>2. \A g \in OpenOn(fn) : g \in FD /\ IsOpen(g) /\ PFftab[g].fname = fn
  BY PFAssumption DEF OpenOn, IsOpen
<1>3. \A g \in OpenOn(fn) : g # fd => Share(g, fd) /\ Share(fd, g)
  BY <1>1, <1>2 DEF Share
<1>4. \A g \in OpenOn(fn) : PFftab[g].hdr = PFftab[fd].hdr
  BY <1>1, <1>2, <1>3 DEF ShareInv, SharersAreSaved, HeadersMatchDisk
<1>5. CurrentHdr(fn) = PFftab[fd].hdr
  BY <1>1, <1>4 DEF CurrentHdr
<1>6. ASSUME NEW p \in PageNum
      PROVE  CurrentPage(fn, p) = Seen(fd, p)
  <2>1. \A g \in OpenOn(fn) : PFhashFind(buf, g, p) # NoFrame <=> Held(buf, g, p)
    BY <1>2 DEF PFhashFind, Held
  <2>2. \A g \in OpenOn(fn) : Held(buf, g, p) => FpageOf(buf, g, p) = PageAt(g, p).fpage
    BY <1>2 DEF PFhashFind, Held, FpageOf, PageAt, At
  <2>3. \A g \in OpenOn(fn) : g # fd /\ Held(buf, g, p) => PageAt(g, p).fpage = disk[fn].page[p]
    BY <1>2, <1>3 DEF ShareInv, SharersAreSaved, PagesMatchDisk, OnDisk
  <2>4. \A g \in OpenOn(fn) : g # fd /\ Held(buf, fd, p) => PageAt(fd, p).fpage = disk[fn].page[p]
    BY <1>1, <1>2, <1>3 DEF ShareInv, SharersAreSaved, PagesMatchDisk, OnDisk
  <2>5. \A g \in OpenOn(fn) : Held(buf, g, p) => PageAt(g, p).fpage = Seen(fd, p)
    BY <1>1, <1>2, <2>3, <2>4 DEF Seen
  <2>6. (\A g \in OpenOn(fn) : ~Held(buf, g, p)) => Seen(fd, p) = disk[fn].page[p]
    BY <1>1 DEF Seen
  <2> QED  BY <2>1, <2>2, <2>5, <2>6 DEF CurrentPage
<1> QED
  BY <1>5, <1>6

LEMMA ViewClosed ==
    \A fn \in Fname : (\A fd \in FD : PFftab[fd].fname # fn) =>
      CurrentHdr(fn) = disk[fn].hdr /\ \A p \in PageNum : CurrentPage(fn, p) = disk[fn].page[p]
BY DEF CurrentHdr, CurrentPage, OpenOn

LEMMA ViewOpenNext ==
    PFInv' /\ ShareInv' =>
      \A fn \in Fname, fd \in FD : PFftab'[fd].fname = fn =>
        /\ CurrentHdr(fn)' = PFftab'[fd].hdr
        /\ \A p \in PageNum : CurrentPage(fn, p)' = Seen(fd, p)'
<1>1. (PFInv /\ ShareInv =>
        \A fn \in Fname, fd \in FD : PFftab[fd].fname = fn =>
          CurrentHdr(fn) = PFftab[fd].hdr /\ \A p \in PageNum : CurrentPage(fn, p) = Seen(fd, p))'
  BY ViewOpen, PTL
<1> QED
  BY <1>1

LEMMA ViewClosedNext ==
    \A fn \in Fname : (\A fd \in FD : PFftab'[fd].fname # fn) =>
      CurrentHdr(fn)' = disk'[fn].hdr /\ \A p \in PageNum : CurrentPage(fn, p)' = disk'[fn].page[p]
BY DEF CurrentHdr, CurrentPage, OpenOn

(***************************************************************************)
(* What a step makes of the view of fn.                                    *)
(***************************************************************************)
ViewSame(fn) ==
    /\ CurrentHdr(fn)' = CurrentHdr(fn)
    /\ \A q \in PageNum : CurrentPage(fn, q)' = CurrentPage(fn, q)

(* Only the header and page p of fn can have changed. *)
ViewEdited(fn, p, first, num) ==
    /\ \A gn \in Fname : gn # fn => ViewSame(gn)
    /\ CurrentHdr(fn)'.firstfree = first
    /\ CurrentHdr(fn)'.numpages = num
    /\ \A q \in PageNum : q # p => CurrentPage(fn, q)' = CurrentPage(fn, q)

ViewTakes(fn, p) ==
    /\ p = CurrentHdr(fn).firstfree
    /\ ViewEdited(fn, p, CurrentPage(fn, p).nextfree, CurrentHdr(fn).numpages)
    /\ CurrentPage(fn, p)'.nextfree = PF_PAGE_USED
    /\ CurrentPage(fn, p)'.data = CurrentPage(fn, p).data

ViewGrows(fn, p, d) ==
    /\ p = CurrentHdr(fn).numpages
    /\ CurrentHdr(fn).firstfree = PF_PAGE_LIST_END
    /\ ViewEdited(fn, p, PF_PAGE_LIST_END, p + 1)
    /\ CurrentPage(fn, p)'.nextfree = PF_PAGE_USED
    /\ CurrentPage(fn, p)'.data = d

ViewFrees(fn, p) ==
    /\ p < CurrentHdr(fn).numpages
    /\ CurrentPage(fn, p).nextfree = PF_PAGE_USED
    /\ ViewEdited(fn, p, p, CurrentHdr(fn).numpages)
    /\ CurrentPage(fn, p)'.nextfree = CurrentHdr(fn).firstfree

ViewWrites(fn, p, d) ==
    /\ ViewEdited(fn, p, CurrentHdr(fn).firstfree, CurrentHdr(fn).numpages)
    /\ CurrentPage(fn, p)'.nextfree = CurrentPage(fn, p).nextfree
    /\ CurrentPage(fn, p)'.data = d

ViewEmpties(fn) ==
    /\ \A gn \in Fname : gn # fn => ViewSame(gn)
    /\ CurrentHdr(fn)' = EmptyHdr

-----------------------------------------------------------------------------
(* The flow of pages does not show. *)

(* What is written is seen in the pool, by the only descriptor of the file. *)
LEMMA WriteUnseen ==
    ASSUME PFInv, ShareInv, NEW e, Written(e),
           NEW g \in FD, IsOpen(g), NEW q \in PageNum, ~Held(buf, g, q)
    PROVE  e[PFftab[g].fname].page[q] = disk[PFftab[g].fname].page[q]
<1>1. CASE e = disk
  BY <1>1
<1>2. ASSUME NEW h \in FD, NEW r \in PageNum, NEW fp \in PFfpage,
             Held(buf, h, r), At(buf, h, r).dirty,
             e = Put(disk, PFftab[h].fname, r, fp)
      PROVE  e[PFftab[g].fname].page[q] = disk[PFftab[g].fname].page[q]
  <2> DEFINE fn == PFftab[g].fname
             gn == PFftab[h].fname
  <2>1. /\ disk \in [Fname -> File] /\ gn \in Fname
        /\ fn \in Fname
    BY <1>2, HeldIsOpen, Basics DEF DiskType, IsOpen, FtabType, PFftab_ele
  <2>2. g # h => ~Share(h, g)
    BY <1>2 DEF ShareInv, SharersAreSaved, Changed, PageAt
  <2>3. IsOpen(h)
    BY <1>2, HeldIsOpen
  <2>4. fn # gn \/ q # r
    BY <1>2, <2>2, <2>3 DEF Share
  <2>5. e = Put(disk, gn, r, fp)
    BY <1>2
  <2> HIDE DEF fn, gn
  <2>6. e[fn].page[q] = disk[fn].page[q]
    <3>1. CASE fn # gn
      BY <2>1, <2>5, <3>1 DEF Put
    <3>2. CASE fn = gn /\ q # r
      BY <2>1, <2>5, <3>2, SMTT(40) DEF Put, File
    <3> QED  BY <2>4, <3>1, <3>2
  <2> QED  BY <2>6 DEF fn
<1> QED
  BY <1>1, <1>2 DEF Written

LEMMA WriteNotClosed ==
    ASSUME PFInv, NEW e, Written(e), NEW fn \in Fname, \A fd \in FD : PFftab[fd].fname # fn
    PROVE  e[fn] = disk[fn]
<1>1. disk \in [Fname -> File]
  BY Basics DEF DiskType
<1> QED
  BY <1>1 DEF Written, Put

LEMMA FlowSeen ==
    ASSUME PFInv, DiskInv, ShareInv, NEW c, NEW e, NEW T, Flow(c, e, T),
           NEW g \in FD, IsOpen(g), NEW q \in PageNum, <<g, q>> \notin T
    PROVE  (IF Held(c, g, q) THEN At(c, g, q).fpage ELSE e[PFftab[g].fname].page[q]) = Seen(g, q)
<1>1. Written(e) /\ (Stays(buf, c, g, q) \/ Leaves(c, e, g, q))
  BY DEF Flow
<1>2. CASE Stays(buf, c, g, q) /\ Held(buf, g, q)
  BY <1>2 DEF Stays, Held, Seen, PageAt
<1>3. CASE Stays(buf, c, g, q) /\ ~Held(buf, g, q)
  <2>1. e[PFftab[g].fname].page[q] = disk[PFftab[g].fname].page[q]
    BY <1>1, <1>3, WriteUnseen
  <2> QED  BY <1>3, <2>1 DEF Stays, Held, Seen
<1>4. CASE Leaves(c, e, g, q)
  <2>1. Held(buf, g, q) /\ ~Held(c, g, q) /\ ~PageAt(g, q).fixed
    BY <1>4 DEF Leaves, PageAt
  <2>2. e[PFftab[g].fname].page[q] = PageAt(g, q).fpage
    <3>1. CASE PageAt(g, q).dirty
      <4> DEFINE fn == PFftab[g].fname
      <4>1. e = Put(disk, fn, q, PageAt(g, q).fpage)
        BY <1>4, <3>1 DEF Leaves, PageAt
      <4>2. disk \in [Fname -> File] /\ fn \in Fname
        BY <2>1, HeldIsOpen, Basics DEF DiskType
      <4> HIDE DEF fn
      <4>3. e[fn].page[q] = PageAt(g, q).fpage
        BY <4>1, <4>2 DEF Put, File
      <4> QED  BY <4>3 DEF fn
    <3>2. CASE ~PageAt(g, q).dirty
      <4>1. buf.hash[<<g, q>>] \notin touched
        BY <2>1 DEF DiskInv, TouchedAreFixed, PageAt, At
      <4>2. ~Changed(g, q)
        BY <3>2, <4>1 DEF Changed
      <4>3. e = disk
        BY <1>4, <3>2 DEF Leaves, PageAt
      <4> QED  BY <2>1, <4>2, <4>3 DEF ShareInv, PagesMatchDisk, OnDisk
    <3> QED  BY <3>1, <3>2
  <2> QED  BY <2>1, <2>2 DEF Seen
<1> QED
  BY <1>1, <1>2, <1>3, <1>4

(***************************************************************************)
(* A step that leaves the names in the open-file table as they are: what   *)
(* it does to the view of a file is what it does to the entries of the     *)
(* pool and the header of the one descriptor fd it works on.               *)
(***************************************************************************)
LEMMA FlowView ==
    ASSUME Good, Good', NEW fd \in FD, IsOpen(fd), NEW T, Flow(buf', disk', T),
           \A g \in FD, q \in PageNum : <<g, q>> \in T => g = fd,
           OthersSame(fd), PFftab'[fd].fname = PFftab[fd].fname,
           NEW file, file = PFftab[fd].fname
    PROVE  /\ \A fn \in Fname : fn # file => ViewSame(fn)
           /\ file \in Fname
           /\ CurrentHdr(file) = PFftab[fd].hdr
           /\ CurrentHdr(file)' = PFftab'[fd].hdr
           /\ \A q \in PageNum : CurrentPage(file, q) = Seen(fd, q)
           /\ \A q \in PageNum : CurrentPage(file, q)' = Seen(fd, q)'
           /\ \A q \in PageNum : <<fd, q>> \notin T => Seen(fd, q)' = Seen(fd, q)
<1>1. /\ PFInv /\ DiskInv /\ ShareInv /\ PFInv' /\ ShareInv'
      /\ Written(disk')
  BY DEF Good, Flow
<1>2. \A g \in FD : PFftab'[g].fname = PFftab[g].fname
  BY DEF OthersSame
<1>3. ASSUME NEW g \in FD, IsOpen(g), NEW q \in PageNum, <<g, q>> \notin T
      PROVE  Seen(g, q)' = Seen(g, q)
  <2>1. (IF Held(buf', g, q) THEN At(buf', g, q).fpage ELSE disk'[PFftab[g].fname].page[q])
          = Seen(g, q)
    BY <1>1, <1>3, FlowSeen
  <2> QED  BY <1>2, <2>1 DEF Seen, PageAt, At, Held
<1>4. ASSUME NEW fn \in Fname, fn # PFftab[fd].fname PROVE ViewSame(fn)
  <2>1. ASSUME NEW g \in FD, PFftab[g].fname = fn PROVE ViewSame(fn)
    <3>1. IsOpen(g) /\ g # fd /\ PFftab'[g] = PFftab[g]
      BY <1>4, <2>1, PFAssumption DEF IsOpen, OthersSame
    <3>2. \A q \in PageNum : Seen(g, q)' = Seen(g, q)
      BY <1>3, <3>1
    <3> QED  BY <1>1, <2>1, <3>1, <3>2, ViewOpen, ViewOpenNext DEF ViewSame
  <2>2. ASSUME \A g \in FD : PFftab[g].fname # fn PROVE ViewSame(fn)
    <3>1. disk'[fn] = disk[fn]
      BY <1>1, <2>2, WriteNotClosed
    <3> QED  BY <1>2, <2>2, <3>1, ViewClosed, ViewClosedNext DEF ViewSame
  <2> QED  BY <2>1, <2>2
<1>5. PFftab[fd].fname \in Fname
  BY <1>1, Basics DEF IsOpen, FtabType, PFftab_ele
<1> QED
  BY <1>1, <1>2, <1>3, <1>4, <1>5, ViewOpen, ViewOpenNext

LEMMA StillView ==
    ASSUME Still
    PROVE  \A fn \in Fname : ViewSame(fn)
BY DEF Still, ViewSame, CurrentHdr, CurrentPage, OpenOn, PFhashFind, FpageOf

LEMMA MovedView ==
    ASSUME Good, Good', Moved
    PROVE  \A fn \in Fname : ViewSame(fn)
<1> DEFINE none == {}
<1>1. Flow(buf', disk', none) /\ PFftab' = PFftab /\ Written(disk')
  BY DEF Moved, Flow
<1>2. \A g \in FD, q \in PageNum : <<g, q>> \notin none
  OBVIOUS
<1> HIDE DEF none
<1>3. PFInv /\ DiskInv /\ ShareInv /\ PFInv' /\ ShareInv'
  BY DEF Good
<1>4. ASSUME NEW fn \in Fname, NEW g \in FD, PFftab[g].fname = fn PROVE ViewSame(fn)
  <2>1. IsOpen(g)
    BY <1>4, PFAssumption DEF IsOpen
  <2>2. \A q \in PageNum :
          (IF Held(buf', g, q) THEN At(buf', g, q).fpage ELSE disk'[PFftab[g].fname].page[q])
            = Seen(g, q)
    BY <1>1, <1>2, <1>3, <2>1, FlowSeen
  <2>3. \A q \in PageNum : Seen(g, q)' = Seen(g, q)
    BY <1>1, <2>2 DEF Seen, PageAt, At, Held
  <2> QED  BY <1>1, <1>3, <1>4, <2>3, ViewOpen, ViewOpenNext DEF ViewSame
<1>5. ASSUME NEW fn \in Fname, \A g \in FD : PFftab[g].fname # fn PROVE ViewSame(fn)
  <2>1. disk'[fn] = disk[fn]
    BY <1>1, <1>3, <1>5, WriteNotClosed
  <2> QED  BY <1>1, <1>5, <2>1, ViewClosed, ViewClosedNext DEF ViewSame
<1> QED
  BY <1>4, <1>5

-----------------------------------------------------------------------------
(***************************************************************************)
(* Sizes.  The pool holds pages the header counts, so no page is written   *)
(* beyond the end of the file, and PF_AllocPage finds the page it adds     *)
(* neither in the pool nor on disk.                                        *)
(***************************************************************************)
PagesInFile == \A g \in FD, q \in PageNum : Held(buf, g, q) => q < PFftab[g].hdr.numpages

LengthCovered == \A fn \in Fname : disk[fn].len <= CurrentHdr(fn).numpages

SizeInv == PagesInFile /\ LengthCovered

LEMMA HeadersTyped ==
    ASSUME PFInv
    PROVE  /\ \A fn \in Fname : CurrentHdr(fn) \in PFhdr_str
           /\ \A fn \in Fname : /\ disk[fn] \in File /\ disk[fn].hdr \in PFhdr_str
                                /\ disk[fn].len \in Nat
                                /\ CurrentHdr(fn).numpages \in Nat
<1>1. disk \in [Fname -> File] /\ \A fd \in FD : PFftab[fd].hdr \in PFhdr_str
  BY Basics DEF DiskType
<1>2. \A fn \in Fname : disk[fn] \in File /\ disk[fn].hdr \in PFhdr_str /\ disk[fn].len \in Nat
  BY <1>1 DEF File
<1>3. \A fn \in Fname : CurrentHdr(fn) \in PFhdr_str
  BY <1>1, <1>2 DEF CurrentHdr, OpenOn
<1> QED
  BY <1>2, <1>3 DEF PFhdr_str

LEMMA WrittenCovered ==
    ASSUME Good, SizeInv, NEW e, Written(e), NEW fn \in Fname
    PROVE  e[fn].len \in Nat /\ e[fn].len <= CurrentHdr(fn).numpages
<1>1. disk[fn].len \in Nat /\ disk[fn].len <= CurrentHdr(fn).numpages
  BY HeadersTyped DEF Good, SizeInv, LengthCovered
<1>2. ASSUME NEW h \in FD, NEW r \in PageNum, NEW fp, Held(buf, h, r),
             e = Put(disk, PFftab[h].fname, r, fp)
      PROVE  e[fn].len \in Nat /\ e[fn].len <= CurrentHdr(fn).numpages
  <2> DEFINE gn == PFftab[h].fname
  <2>1. disk \in [Fname -> File] /\ gn \in Fname /\ e = Put(disk, gn, r, fp)
    BY <1>2, HeldIsOpen, Basics DEF Good, DiskType
  <2>2. r < PFftab[h].hdr.numpages /\ r \in Nat
    BY <1>2 DEF SizeInv, PagesInFile, PageNum
  <2>3. gn = fn => CurrentHdr(fn) = PFftab[h].hdr
    BY ViewOpen DEF Good
  <2>5. CurrentHdr(fn).numpages \in Nat
    BY HeadersTyped DEF Good
  <2> HIDE DEF gn
  <2>4. e[fn].len = IF gn = fn /\ disk[fn].len <= r THEN r + 1 ELSE disk[fn].len
    BY <1>1, <2>1, <2>2 DEF Put, File
  <2> QED  BY <1>1, <2>2, <2>3, <2>4, <2>5
<1> QED
  BY <1>1, <1>2 DEF Written

(* A call is served a page that its header counts, then or already. *)
LEMMA ServingInFile ==
    ASSUME Good, SizeInv, NEW fd \in FD, NEW p \in PageNum,
           Got(fd, p) \/ Recycled(fd, p) \/ Extended(fd, p) \/ Freed(fd, p)
    PROVE  /\ p < PFftab'[fd].hdr.numpages
           /\ PFftab[fd].hdr.numpages \in Nat
           /\ PFftab'[fd].hdr.numpages \in Nat
           /\ PFftab[fd].hdr.numpages <= PFftab'[fd].hdr.numpages
<1>1. PFftab[fd].hdr.numpages \in Nat /\ p \in Nat
  BY Basics DEF Good, PFhdr_str, PageNum
<1>2. ASSUME NEW v, Fetched(fd, p, buf', disk', v), IsOpen(fd)
      PROVE  p < PFftab[fd].hdr.numpages
  <2>1. CASE Held(buf, fd, p)
    BY <2>1 DEF SizeInv, PagesInFile
  <2>2. CASE ~Held(buf, fd, p)
    <3> DEFINE fn == PFftab[fd].fname
    <3>1. p < disk'[fn].len /\ Written(disk')
      BY <1>2, <2>2 DEF Fetched, Flow
    <3>2. fn \in Fname
      BY <1>2, Basics DEF Good, IsOpen, FtabType, PFftab_ele
    <3>3. CurrentHdr(fn) = PFftab[fd].hdr
      BY <3>2, ViewOpen DEF Good
    <3> HIDE DEF fn
    <3>4. disk'[fn].len \in Nat /\ disk'[fn].len <= CurrentHdr(fn).numpages
      BY <3>1, <3>2, WrittenCovered
    <3> QED  BY <1>1, <3>1, <3>3, <3>4
  <2> QED  BY <2>1, <2>2
<1>3. CASE Got(fd, p)
  BY <1>1, <1>2, <1>3 DEF Got
<1>4. CASE Recycled(fd, p)
  <2>1. PICK v \in PFbpage : /\ Fetched(fd, p, buf', disk', v)
                             /\ Taken(fd, p, v.fpage.data)
                             /\ NewHdr(fd, v.fpage.nextfree, PFftab[fd].hdr.numpages)
    BY <1>4 DEF Recycled
  <2>2. PFftab'[fd].hdr.numpages = PFftab[fd].hdr.numpages /\ IsOpen(fd)
    BY <2>1 DEF NewHdr, Taken
  <2> QED  BY <1>1, <1>2, <2>1, <2>2
<1>5. CASE Extended(fd, p)
  BY <1>1, <1>5 DEF Extended, NewHdr
<1>6. CASE Freed(fd, p)
  BY <1>1, <1>2, <1>6 DEF Freed, NewHdr
<1> QED
  BY <1>3, <1>4, <1>5, <1>6

-----------------------------------------------------------------------------
(* What each kind of step makes of the views. *)

LEMMA FetchedSeen ==
    ASSUME PFInv, ShareInv, NEW fd \in FD, IsOpen(fd), NEW p,
           NEW c, NEW e, NEW v, Fetched(fd, p, c, e, v)
    PROVE  p \in PageNum /\ v.fpage = Seen(fd, p)
<1>1. p \in PageNum /\ Written(e)
  BY DEF Fetched, Flow
<1>2. CASE Held(buf, fd, p)
  BY <1>1, <1>2 DEF Fetched, Seen, PageAt
<1>3. CASE ~Held(buf, fd, p)
  <2>1. v.fpage = e[PFftab[fd].fname].page[p]
    BY <1>3 DEF Fetched, OnFrame
  <2> QED  BY <1>1, <1>3, <2>1, WriteUnseen DEF Seen
<1> QED
  BY <1>1, <1>2, <1>3

(* The only page a call has changed is the page it is on. *)
LEMMA CallView ==
    ASSUME Good, Good', NEW fd \in FD, NEW p \in PageNum, IsOpen(fd),
           Flow(buf', disk', {<<fd, p>>}), Held(buf', fd, p),
           OthersSame(fd), PFftab'[fd].fname = PFftab[fd].fname,
           NEW fn, fn = PFftab[fd].fname
    PROVE  /\ \A gn \in Fname : gn # fn => ViewSame(gn)
           /\ fn \in Fname
           /\ CurrentHdr(fn) = PFftab[fd].hdr
           /\ CurrentHdr(fn)' = PFftab'[fd].hdr
           /\ CurrentPage(fn, p) = Seen(fd, p)
           /\ CurrentPage(fn, p)' = PageAt(fd, p)'.fpage
           /\ \A q \in PageNum : q # p => CurrentPage(fn, q)' = CurrentPage(fn, q)
<1> DEFINE T == {<<fd, p>>}
<1>1. /\ Flow(buf', disk', T)
      /\ \A g \in FD, q \in PageNum : <<g, q>> \in T => g = fd
      /\ \A q \in PageNum : q # p => <<fd, q>> \notin T
  OBVIOUS
<1> HIDE DEF T
<1>2. /\ \A gn \in Fname : gn # fn => ViewSame(gn)
      /\ fn \in Fname
      /\ CurrentHdr(fn) = PFftab[fd].hdr
      /\ CurrentHdr(fn)' = PFftab'[fd].hdr
      /\ \A q \in PageNum : CurrentPage(fn, q) = Seen(fd, q)
      /\ \A q \in PageNum : CurrentPage(fn, q)' = Seen(fd, q)'
      /\ \A q \in PageNum : <<fd, q>> \notin T => Seen(fd, q)' = Seen(fd, q)
  BY <1>1, FlowView
<1>3. Seen(fd, p)' = PageAt(fd, p)'.fpage
  BY DEF Seen, Held
<1> QED
  BY <1>1, <1>2, <1>3

LEMMA GotView ==
    ASSUME Good, Good', NEW fd \in FD, NEW p \in PageNum, Got(fd, p),
           NEW fn, fn = PFftab[fd].fname
    PROVE  \A gn \in Fname : ViewSame(gn)
<1>1. PICK v : Fetched(fd, p, buf', disk', v) /\ PageAt(fd, p)'.fpage = v.fpage
  BY DEF Got
<1>2. IsOpen(fd) /\ PFftab' = PFftab
  BY DEF Got
<1>3. v.fpage = Seen(fd, p)
  BY <1>1, <1>2, FetchedSeen DEF Good
<1>4. Flow(buf', disk', {<<fd, p>>}) /\ Held(buf', fd, p) /\ OthersSame(fd)
  BY <1>1, <1>2 DEF Fetched, OthersSame
<1>5. /\ \A gn \in Fname : gn # fn => ViewSame(gn)
      /\ CurrentHdr(fn) = PFftab[fd].hdr
      /\ CurrentHdr(fn)' = PFftab'[fd].hdr
      /\ CurrentPage(fn, p) = Seen(fd, p)
      /\ CurrentPage(fn, p)' = PageAt(fd, p)'.fpage
      /\ \A q \in PageNum : q # p => CurrentPage(fn, q)' = CurrentPage(fn, q)
  BY <1>2, <1>4, CallView, SMTT(40)
<1> QED
  BY <1>1, <1>2, <1>3, <1>5 DEF ViewSame

LEMMA RecycledView ==
    ASSUME Good, Good', NEW fd \in FD, NEW p \in PageNum, Recycled(fd, p),
           NEW fn, fn = PFftab[fd].fname
    PROVE  ViewTakes(fn, p)
<1>1. PICK v : /\ Fetched(fd, p, buf', disk', v)
               /\ Taken(fd, p, v.fpage.data)
               /\ NewHdr(fd, v.fpage.nextfree, PFftab[fd].hdr.numpages)
  BY DEF Recycled
<1>2. IsOpen(fd) /\ OthersSame(fd) /\ PFftab'[fd].fname = PFftab[fd].fname
  BY <1>1 DEF Taken, NewHdr
<1>3. v.fpage = Seen(fd, p)
  BY <1>1, <1>2, FetchedSeen DEF Good
<1>4. Flow(buf', disk', {<<fd, p>>}) /\ Held(buf', fd, p)
  BY <1>1 DEF Fetched
<1>5. /\ \A gn \in Fname : gn # fn => ViewSame(gn)
      /\ CurrentHdr(fn) = PFftab[fd].hdr
      /\ CurrentHdr(fn)' = PFftab'[fd].hdr
      /\ CurrentPage(fn, p) = Seen(fd, p)
      /\ CurrentPage(fn, p)' = PageAt(fd, p)'.fpage
      /\ \A q \in PageNum : q # p => CurrentPage(fn, q)' = CurrentPage(fn, q)
  BY <1>2, <1>4, CallView, SMTT(40)
<1> QED
  BY <1>1, <1>3, <1>5 DEF ViewTakes, ViewEdited, Recycled, Taken, NewHdr

LEMMA ExtendedView ==
    ASSUME Good, Good', NEW fd \in FD, NEW p \in PageNum, Extended(fd, p),
           NEW fn, fn = PFftab[fd].fname
    PROVE  \E d \in Data : ViewGrows(fn, p, d)
<1>1. PICK d \in Data : Taken(fd, p, d)
  BY SMTT(40) DEF Extended
<1>2. /\ IsOpen(fd) /\ OthersSame(fd) /\ PFftab'[fd].fname = PFftab[fd].fname
      /\ Flow(buf', disk', {<<fd, p>>}) /\ Held(buf', fd, p)
  BY <1>1 DEF Taken, NewHdr, Extended
<1>3. /\ \A gn \in Fname : gn # fn => ViewSame(gn)
      /\ CurrentHdr(fn) = PFftab[fd].hdr
      /\ CurrentHdr(fn)' = PFftab'[fd].hdr
      /\ CurrentPage(fn, p)' = PageAt(fd, p)'.fpage
      /\ \A q \in PageNum : q # p => CurrentPage(fn, q)' = CurrentPage(fn, q)
  BY <1>2, CallView
<1> QED
  BY <1>1, <1>3 DEF ViewGrows, ViewEdited, Extended, Taken, NewHdr

LEMMA FreedView ==
    ASSUME Good, Good', SizeInv, NEW fd \in FD, NEW p \in PageNum, Freed(fd, p),
           NEW fn, fn = PFftab[fd].fname
    PROVE  ViewFrees(fn, p)
<1>1. PICK v : Fetched(fd, p, buf', disk', v) /\ v.fpage.nextfree = PF_PAGE_USED
  BY DEF Freed
<1>2. IsOpen(fd) /\ OthersSame(fd) /\ PFftab'[fd].fname = PFftab[fd].fname
  BY DEF Freed, NewHdr
<1>3. v.fpage = Seen(fd, p)
  BY <1>1, <1>2, FetchedSeen DEF Good
<1>4. Flow(buf', disk', {<<fd, p>>}) /\ Held(buf', fd, p)
  BY <1>1 DEF Fetched
<1>5. /\ \A gn \in Fname : gn # fn => ViewSame(gn)
      /\ CurrentHdr(fn) = PFftab[fd].hdr
      /\ CurrentHdr(fn)' = PFftab'[fd].hdr
      /\ CurrentPage(fn, p) = Seen(fd, p)
      /\ CurrentPage(fn, p)' = PageAt(fd, p)'.fpage
      /\ \A q \in PageNum : q # p => CurrentPage(fn, q)' = CurrentPage(fn, q)
  BY <1>2, <1>4, CallView
<1>6. p < PFftab'[fd].hdr.numpages
  BY ServingInFile
<1> QED
  BY <1>1, <1>3, <1>5, <1>6 DEF ViewFrees, ViewEdited, Freed, NewHdr

LEMMA FixedView ==
    ASSUME Good, Good', NEW fd \in FD, NEW p \in PageNum, OnFixed(fd, p),
           NEW fn, fn = PFftab[fd].fname
    PROVE  /\ fn \in Fname
           /\ \A gn \in Fname : gn # fn => ViewSame(gn)
           /\ CurrentHdr(fn)' = CurrentHdr(fn)
           /\ CurrentPage(fn, p) = PageAt(fd, p).fpage
           /\ CurrentPage(fn, p)' = PageAt(fd, p)'.fpage
           /\ \A q \in PageNum : q # p => CurrentPage(fn, q)' = CurrentPage(fn, q)
<1> DEFINE T == {<<fd, p>>}
           none == {}
<1>1. /\ \A g \in FD, q \in PageNum : <<g, q>> \in T \/ Stays(buf, buf', g, q)
      /\ none \subseteq T
      /\ Flow(buf, disk, none)
  BY StillFlow DEF OnFixed, Only
<1> HIDE DEF T, none
<1>2. Flow(buf', disk, T)
  BY <1>1, FlowThen
<1>3. /\ IsOpen(fd) /\ OthersSame(fd) /\ PFftab'[fd] = PFftab[fd]
      /\ Flow(buf', disk', {<<fd, p>>}) /\ Held(buf', fd, p) /\ Held(buf, fd, p)
  BY <1>2 DEF OnFixed, OthersSame, T
<1>4. /\ \A gn \in Fname : gn # fn => ViewSame(gn)
      /\ fn \in Fname
      /\ CurrentHdr(fn) = PFftab[fd].hdr
      /\ CurrentHdr(fn)' = PFftab'[fd].hdr
      /\ CurrentPage(fn, p) = Seen(fd, p)
      /\ CurrentPage(fn, p)' = PageAt(fd, p)'.fpage
      /\ \A q \in PageNum : q # p => CurrentPage(fn, q)' = CurrentPage(fn, q)
  BY <1>3, CallView
<1> QED
  BY <1>3, <1>4 DEF Seen

LEMMA UnpinnedView ==
    ASSUME Good, Good', NEW fd \in FD, NEW p \in PageNum, NEW dirty,
           Unpinned(fd, p, dirty) \/ Marked(fd, p), NEW fn, fn = PFftab[fd].fname
    PROVE  \A gn \in Fname : ViewSame(gn)
<1>1. OnFixed(fd, p) /\ PageAt(fd, p)'.fpage = PageAt(fd, p).fpage
  BY DEF Unpinned, Marked
<1> QED
  BY <1>1, FixedView DEF ViewSame

LEMMA WroteView ==
    ASSUME Good, Good', NEW fd \in FD, NEW p \in PageNum, NEW d, Wrote(fd, p, d),
           NEW fn, fn = PFftab[fd].fname
    PROVE  ViewWrites(fn, p, d)
<1>1. /\ OnFixed(fd, p)
      /\ PageAt(fd, p)'.fpage.nextfree = PageAt(fd, p).fpage.nextfree
      /\ PageAt(fd, p)'.fpage.data = d
  BY DEF Wrote
<1> QED
  BY <1>1, FixedView DEF ViewWrites, ViewEdited

(* A file whose descriptors, pages and copy on disk stay as they are. *)
LEMMA UntouchedView ==
    ASSUME NEW fn, disk'[fn] = disk[fn], buf' = buf,
           \A fd \in FD : PFftab[fd].fname = fn \/ PFftab'[fd].fname = fn =>
                           PFftab'[fd] = PFftab[fd]
    PROVE  ViewSame(fn)
<1>1. OpenOn(fn)' = OpenOn(fn)
  BY DEF OpenOn
<1>2. \A fd \in OpenOn(fn) : PFftab'[fd] = PFftab[fd]
  BY DEF OpenOn
<1>3. CurrentHdr(fn)' = CurrentHdr(fn)
  BY <1>1, <1>2 DEF CurrentHdr
<1>4. \A q \in PageNum : CurrentPage(fn, q)' = CurrentPage(fn, q)
  BY <1>1 DEF CurrentPage, PFhashFind, FpageOf
<1> QED
  BY <1>3, <1>4 DEF ViewSame

LEMMA CreatedView ==
    ASSUME Good, NEW fn \in Fname, Created(fn)
    PROVE  \A gn \in Fname : ViewSame(gn)
<1>1. /\ ~disk[fn].exists /\ disk'[fn] = EmptyFile(TRUE)
      /\ \A gn \in Fname : gn # fn => disk'[gn] = disk[gn]
      /\ PFftab' = PFftab /\ buf' = buf
  BY DEF Created, FileIs
<1>2. disk[fn] = EmptyFile(FALSE)
  BY <1>1 DEF Good, DiskInv, MissingFilesAreEmpty
<1>3. \A fd \in FD : PFftab[fd].fname # fn
  BY <1>1, PFAssumption DEF Good, DiskInv, OpenFilesExist, IsOpen
<1>4. disk'[fn].hdr = disk[fn].hdr /\ disk'[fn].page = disk[fn].page
  BY <1>1, <1>2 DEF EmptyFile
<1>5. ViewSame(fn)
  <2>1. CurrentHdr(fn) = disk[fn].hdr /\ \A q \in PageNum : CurrentPage(fn, q) = disk[fn].page[q]
    BY <1>3, ViewClosed
  <2>2. \A fd \in FD : PFftab'[fd].fname # fn
    BY <1>1, <1>3
  <2>3. CurrentHdr(fn)' = disk'[fn].hdr /\ \A q \in PageNum : CurrentPage(fn, q)' = disk'[fn].page[q]
    BY <2>2, ViewClosedNext
  <2> QED  BY <1>4, <2>1, <2>3 DEF ViewSame
<1> QED
  BY <1>1, <1>5, UntouchedView

LEMMA DestroyedView ==
    ASSUME NEW fn \in Fname, Destroyed(fn)
    PROVE  ViewEmpties(fn)
<1>1. /\ disk'[fn] = EmptyFile(FALSE)
      /\ \A gn \in Fname : gn # fn => disk'[gn] = disk[gn]
      /\ PFftab' = PFftab /\ buf' = buf
      /\ \A fd \in FD : PFftab[fd].fname # fn
  BY DEF Destroyed, FileIs
<1>2. disk'[fn].hdr = EmptyHdr
  BY <1>1 DEF EmptyFile
<1>3. CurrentHdr(fn)' = EmptyHdr
  BY <1>1, <1>2, ViewClosedNext
<1> QED
  BY <1>1, <1>3, UntouchedView DEF ViewEmpties

LEMMA LoadedView ==
    ASSUME Good, Good', ~Undisciplined, NEW fn \in Fname, NEW fd \in FD,
           Loaded(fd, fn, fn) \/ Loaded(fd, fn, NULL)
    PROVE  \A gn \in Fname : ViewSame(gn)
<1>1. /\ ~IsOpen(fd) /\ MayOpen(fn) /\ OthersSame(fd)
      /\ PFftab'[fd].fname \in {fn, NULL}
      /\ PFftab'[fd].hdr = disk[fn].hdr
      /\ disk' = disk /\ buf' = buf
  BY DEF Loaded
<1>2. PFInv /\ ShareInv /\ PFInv' /\ ShareInv'
  BY DEF Good
<1>3. ASSUME NEW gn \in Fname, PFftab'[fd].fname # gn PROVE ViewSame(gn)
  BY <1>1, <1>3, UntouchedView, PFAssumption DEF IsOpen, OthersSame
<1>4. ASSUME PFftab'[fd].fname = fn PROVE ViewSame(fn)
  <2>1. \A p \in PageNum : ~Held(buf, fd, p)
    BY <1>1, <1>2, HeldIsOpen
  <2>2. \A p \in PageNum : ~Held(buf', fd, p)
    BY <1>1, <2>1
  <2>3. CurrentHdr(fn)' = disk[fn].hdr /\ \A p \in PageNum : CurrentPage(fn, p)' = Seen(fd, p)'
    BY <1>1, <1>2, <1>4, ViewOpenNext
  <2>4. \A p \in PageNum : Seen(fd, p)' = disk[fn].page[p]
    BY <1>1, <1>4, <2>2 DEF Seen
  <2>5. CASE \A g \in FD : PFftab[g].fname # fn
    BY <2>3, <2>4, <2>5, ViewClosed DEF ViewSame
  <2>6. ASSUME NEW g \in FD, PFftab[g].fname = fn PROVE ViewSame(fn)
    <3>1. IsOpen(g) /\ ~Unsaved(g)
      BY <1>1, <2>6, PFAssumption DEF MayOpen, IsOpen
    <3>2. ~PFftab[g].hdrchanged /\ \A p \in PageNum : ~Changed(g, p)
      BY <1>2, <3>1, UnsavedPages
    <3>3. PFftab[g].hdr = disk[fn].hdr
      BY <1>2, <2>6, <3>1, <3>2 DEF ShareInv, HeadersMatchDisk
    <3>4. \A p \in PageNum : Seen(g, p) = disk[fn].page[p]
      BY <1>2, <2>6, <3>2 DEF Seen, ShareInv, PagesMatchDisk, OnDisk
    <3>5. CurrentHdr(fn) = PFftab[g].hdr /\ \A p \in PageNum : CurrentPage(fn, p) = Seen(g, p)
      BY <1>2, <2>6, ViewOpen
    <3> QED  BY <2>3, <2>4, <3>3, <3>4, <3>5 DEF ViewSame
  <2> QED  BY <2>5, <2>6
<1> QED
  BY <1>1, <1>3, <1>4, PFAssumption

LEMMA ClosedView ==
    ASSUME Good, Good', NEW fd \in FD, Closed(fd)
    PROVE  \A gn \in Fname : ViewSame(gn)
<1> DEFINE file == PFftab[fd].fname
<1>1. /\ IsOpen(fd) /\ OthersSame(fd)
      /\ \A p \in PageNum : ~Held(buf, fd, p)
      /\ disk' = IF PFftab[fd].hdrchanged THEN [disk EXCEPT ![file].hdr = PFftab[fd].hdr] ELSE disk
      /\ PFftab'[fd].fname = NULL /\ buf' = buf
  BY DEF Closed
<1>2. PFInv /\ ShareInv /\ PFInv' /\ ShareInv' /\ disk \in [Fname -> File]
  BY Basics DEF Good, DiskType
<1>3. PICK fn \in Fname : fn = file
  BY <1>1, <1>2, Basics DEF IsOpen, FtabType, PFftab_ele
<1>4. file = fn
  BY <1>3
<1> HIDE DEF file
<1>5. ASSUME NEW gn \in Fname, gn # fn PROVE ViewSame(gn)
  <2>1. disk'[gn] = disk[gn]
    BY <1>1, <1>2, <1>4, <1>5
  <2> QED  BY <1>1, <1>4, <1>5, <2>1, UntouchedView, PFAssumption DEF OthersSame, file
<1>6. CurrentHdr(fn) = PFftab[fd].hdr /\ \A p \in PageNum : CurrentPage(fn, p) = disk[fn].page[p]
  <2>1. CurrentHdr(fn) = PFftab[fd].hdr /\ \A p \in PageNum : CurrentPage(fn, p) = Seen(fd, p)
    BY <1>2, <1>4, ViewOpen DEF file
  <2> QED  BY <1>1, <1>4, <2>1 DEF Seen, file
<1>7. disk'[fn].page = disk[fn].page
  BY <1>1, <1>2, <1>4 DEF File
<1>8. CASE \A g \in FD \ {fd} : PFftab[g].fname # fn
  <2>1. \A g \in FD : PFftab'[g].fname # fn
    BY <1>1, <1>8, PFAssumption DEF OthersSame
  <2>2. CurrentHdr(fn)' = disk'[fn].hdr /\ \A p \in PageNum : CurrentPage(fn, p)' = disk'[fn].page[p]
    BY <2>1, ViewClosedNext
  <2>3. disk'[fn].hdr = PFftab[fd].hdr
    BY <1>1, <1>2, <1>4 DEF File, ShareInv, HeadersMatchDisk, file
  <2>4. ViewSame(fn)
    BY <1>6, <1>7, <2>2, <2>3 DEF ViewSame
  <2> QED  BY <1>5, <2>4
<1>9. ASSUME NEW g \in FD \ {fd}, PFftab[g].fname = fn PROVE ViewSame(fn)
  <2>1. Share(fd, g) /\ PFftab'[g] = PFftab[g]
    BY <1>1, <1>4, <1>9 DEF Share, OthersSame, file
  <2>2. disk' = disk
    BY <1>1, <1>2, <2>1 DEF ShareInv, SharersAreSaved
  <2>3. CurrentHdr(fn) = PFftab[g].hdr /\ \A p \in PageNum : CurrentPage(fn, p) = Seen(g, p)
    BY <1>2, <1>9, ViewOpen
  <2>4. CurrentHdr(fn)' = PFftab'[g].hdr /\ \A p \in PageNum : CurrentPage(fn, p)' = Seen(g, p)'
    BY <1>2, <1>9, <2>1, ViewOpenNext
  <2>5. \A p \in PageNum : Seen(g, p)' = Seen(g, p)
    BY <1>1, <2>1, <2>2 DEF Seen, Held, PageAt, At
  <2> QED  BY <2>1, <2>3, <2>4, <2>5 DEF ViewSame
<1> QED
  BY <1>5, <1>8, <1>9

(* What a step does to the views of the files. *)
ViewShape ==
    \/ \A fn \in Fname : ViewSame(fn)
    \/ \E fn \in Fname :
         \/ \E p \in PageNum : \/ ViewTakes(fn, p)
                               \/ ViewFrees(fn, p)
                               \/ \E d \in Data : ViewGrows(fn, p, d) \/ ViewWrites(fn, p, d)
         \/ ViewEmpties(fn)

LEMMA StepViews ==
    ASSUME ~Undisciplined, Good, Good', SizeInv, [PFNext]_pfvars
    PROVE  ViewShape
<1>1. Shape
  BY StepShapes DEF Good
<1>2. CASE Still
  BY <1>2, StillView DEF ViewShape
<1>3. CASE Moved
  BY <1>3, MovedView DEF ViewShape
<1>4. ASSUME NEW fd \in FD, NEW p \in PageNum,
             \/ Got(fd, p) \/ Recycled(fd, p) \/ Extended(fd, p) \/ Freed(fd, p)
             \/ \E dirty \in BOOLEAN : Unpinned(fd, p, dirty)
             \/ Marked(fd, p)
             \/ \E d \in Data : Wrote(fd, p, d)
      PROVE  ViewShape
  <2>1. IsOpen(fd)
    BY <1>4 DEF Got, Recycled, Extended, Freed, Unpinned, Marked, Wrote, OnFixed, Taken
  <2>2. PICK fn \in Fname : fn = PFftab[fd].fname
    BY <2>1, Basics DEF Good, IsOpen, FtabType, PFftab_ele
  <2>3. CASE Got(fd, p)
    BY <2>2, <2>3, GotView DEF ViewShape
  <2>4. CASE Recycled(fd, p)
    BY <2>2, <2>4, RecycledView DEF ViewShape
  <2>5. CASE Extended(fd, p)
    BY <2>2, <2>5, ExtendedView DEF ViewShape
  <2>6. CASE Freed(fd, p)
    BY <2>2, <2>6, FreedView DEF ViewShape
  <2>7. ASSUME NEW dirty, Unpinned(fd, p, dirty) \/ Marked(fd, p) PROVE ViewShape
    BY <2>2, <2>7, UnpinnedView DEF ViewShape
  <2>8. ASSUME NEW d \in Data, Wrote(fd, p, d) PROVE ViewShape
    BY <2>2, <2>8, WroteView DEF ViewShape
  <2> QED  BY <1>4, <2>3, <2>4, <2>5, <2>6, <2>7, <2>8, SMTT(40)
<1>5. ASSUME NEW fn \in Fname, Created(fn) \/ Destroyed(fn) PROVE ViewShape
  BY <1>5, CreatedView, DestroyedView DEF ViewShape
<1>6. ASSUME NEW fn \in Fname, NEW fd \in FD, Loaded(fd, fn, fn) \/ Loaded(fd, fn, NULL)
      PROVE  ViewShape
  BY <1>6, LoadedView DEF ViewShape
<1>7. ASSUME NEW fd \in FD, Closed(fd) PROVE ViewShape
  BY <1>7, ClosedView DEF ViewShape
<1> QED
  BY <1>1, <1>2, <1>3, <1>4, <1>5, <1>6, <1>7 DEF Shape

-----------------------------------------------------------------------------
(* The sizes are kept. *)

LEMMA ServesSize ==
    ASSUME Good, Good', SizeInv, NEW fd \in FD, NEW p \in PageNum,
           Got(fd, p) \/ Recycled(fd, p) \/ Extended(fd, p) \/ Freed(fd, p)
    PROVE  SizeInv'
<1>1. /\ IsOpen(fd) /\ OthersSame(fd) /\ PFftab'[fd].fname = PFftab[fd].fname
      /\ Flow(buf', disk', {<<fd, p>>}) /\ Held(buf', fd, p) /\ Written(disk')
  BY ServingKinds DEF Good, Serves, Flow
<1>2. /\ p < PFftab'[fd].hdr.numpages
      /\ PFftab[fd].hdr.numpages \in Nat
      /\ PFftab'[fd].hdr.numpages \in Nat
      /\ PFftab[fd].hdr.numpages <= PFftab'[fd].hdr.numpages
  BY ServingInFile
<1>3. PagesInFile'
  <2>1. ASSUME NEW g \in FD, NEW q \in PageNum, Held(buf', g, q), <<g, q>> # <<fd, p>>
        PROVE  q < PFftab'[g].hdr.numpages
    <3>1. Held(buf, g, q)
      BY <1>1, <2>1 DEF Flow, Stays, Leaves, Held
    <3>2. q < PFftab[g].hdr.numpages /\ q \in Nat
      BY <3>1 DEF SizeInv, PagesInFile, PageNum
    <3> QED  BY <1>1, <1>2, <3>2 DEF OthersSame
  <2>2. \A g \in FD, q \in PageNum : Held(buf', g, q) => q < PFftab'[g].hdr.numpages
    BY <1>2, <2>1
  <2> QED  BY <2>2 DEF PagesInFile, Held
<1>4. LengthCovered'
  <2>1. ASSUME NEW fn \in Fname
        PROVE  disk'[fn].len <= CurrentHdr(fn)'.numpages
    <3>1. disk'[fn].len \in Nat /\ disk'[fn].len <= CurrentHdr(fn).numpages
      BY <1>1, <2>1, WrittenCovered
    <3>2. CASE fn = PFftab[fd].fname
      <4>1. CurrentHdr(fn) = PFftab[fd].hdr /\ CurrentHdr(fn)' = PFftab'[fd].hdr
        BY <1>1, <3>2, ViewOpen, ViewOpenNext DEF Good
      <4> QED  BY <1>2, <3>1, <4>1
    <3>3. CASE fn # PFftab[fd].fname
      <4>1. PICK file : file = PFftab[fd].fname
        OBVIOUS
      <4>2. ViewSame(fn)
        BY <1>1, <3>3, <4>1, CallView
      <4> QED  BY <3>1, <4>2 DEF ViewSame
    <3> QED  BY <3>2, <3>3
  <2> QED  BY <2>1 DEF LengthCovered
<1> QED
  BY <1>3, <1>4 DEF SizeInv

LEMMA ViewsCovered ==
    ASSUME Good, SizeInv, \A fn \in Fname : ViewSame(fn),
           Written(disk') \/ \A fn \in Fname : disk'[fn].len = disk[fn].len \/ disk'[fn].len = 0
    PROVE  LengthCovered'
<1>1. ASSUME NEW fn \in Fname PROVE disk'[fn].len <= CurrentHdr(fn)'.numpages
  <2>1. /\ disk[fn].len \in Nat /\ CurrentHdr(fn).numpages \in Nat
        /\ disk[fn].len <= CurrentHdr(fn).numpages
    BY HeadersTyped DEF Good, SizeInv, LengthCovered
  <2>2. disk'[fn].len <= CurrentHdr(fn).numpages
    BY <2>1, WrittenCovered
  <2> QED  BY <2>2 DEF ViewSame
<1> QED
  BY <1>1 DEF LengthCovered

(* The other kinds: the pool holds no new page, and no header counts less. *)
LEMMA MovedSize ==
    ASSUME Good, Good', SizeInv, Still \/ Moved
    PROVE  SizeInv'
<1>1. \A fn \in Fname : ViewSame(fn)
  BY StillView, MovedView
<1>2. /\ PFftab' = PFftab
      /\ Written(disk')
      /\ \A g \in FD, q \in PageNum : Held(buf', g, q) => Held(buf, g, q)
  BY DEF Still, Moved, Flow, Stays, Leaves, Written, Held
<1>3. PagesInFile'
  BY <1>2 DEF SizeInv, PagesInFile, Held
<1>4. LengthCovered'
  BY <1>1, <1>2, ViewsCovered
<1> QED
  BY <1>3, <1>4 DEF SizeInv

LEMMA FixedSize ==
    ASSUME Good, Good', SizeInv, NEW fd \in FD, NEW p \in PageNum, OnFixed(fd, p)
    PROVE  SizeInv'
<1>1. PFftab' = PFftab /\ disk' = disk /\ buf'.hash = buf.hash
  BY DEF OnFixed, Only
<1>2. PagesInFile'
  BY <1>1 DEF SizeInv, PagesInFile, Held
<1>3. \A fn \in Fname : CurrentHdr(fn)' = CurrentHdr(fn)
  BY <1>1 DEF CurrentHdr, OpenOn
<1>4. LengthCovered'
  BY <1>1, <1>3 DEF SizeInv, LengthCovered
<1> QED
  BY <1>2, <1>4 DEF SizeInv

LEMMA FilesSize ==
    ASSUME Good, Good', SizeInv, NEW fn \in Fname, Created(fn) \/ Destroyed(fn)
    PROVE  SizeInv'
<1>1. /\ PFftab' = PFftab /\ buf' = buf
      /\ disk'[fn] \in {EmptyFile(TRUE), EmptyFile(FALSE)}
      /\ \A gn \in Fname : gn # fn => disk'[gn] = disk[gn]
  BY DEF Created, Destroyed, FileIs
<1>2. PagesInFile'
  BY <1>1 DEF SizeInv, PagesInFile
<1>3. disk'[fn].len = 0
  BY <1>1 DEF EmptyFile
<1>4. CASE Created(fn)
  <2>1. \A gn \in Fname : ViewSame(gn)
    BY <1>4, CreatedView
  <2>2. LengthCovered'
    BY <1>1, <1>3, <2>1, ViewsCovered
  <2> QED  BY <1>2, <2>2 DEF SizeInv
<1>5. CASE Destroyed(fn)
  <2>1. ViewEmpties(fn)
    BY <1>5, DestroyedView
  <2>2. CurrentHdr(fn)'.numpages = 0
    BY <2>1 DEF ViewEmpties, EmptyHdr
  <2>3. \A gn \in Fname : gn # fn => disk'[gn].len <= CurrentHdr(gn)'.numpages
    BY <1>1, <2>1 DEF ViewEmpties, ViewSame, SizeInv, LengthCovered
  <2>4. LengthCovered'
    BY <1>3, <2>2, <2>3 DEF LengthCovered
  <2> QED  BY <1>2, <2>4 DEF SizeInv
<1> QED
  BY <1>4, <1>5

LEMMA TableSize ==
    ASSUME ~Undisciplined, Good, Good', SizeInv, NEW fd \in FD,
           \/ \E fn \in Fname : Loaded(fd, fn, fn) \/ Loaded(fd, fn, NULL)
           \/ Closed(fd)
    PROVE  SizeInv'
<1>1. \A fn \in Fname : ViewSame(fn)
  BY LoadedView, ClosedView
<1>2. OthersSame(fd) /\ buf' = buf /\ \A q \in PageNum : ~Held(buf, fd, q)
  <2>1. OthersSame(fd) /\ buf' = buf /\ (IsOpen(fd) => \A q \in PageNum : ~Held(buf, fd, q))
    BY DEF Loaded, Closed
  <2> QED  BY <2>1, HeldIsOpen DEF Good
<1>3. PagesInFile'
  BY <1>2 DEF SizeInv, PagesInFile, OthersSame
<1>4. \A fn \in Fname : disk'[fn].len = disk[fn].len
  <2>1. \/ disk' = disk
        \/ disk' = [disk EXCEPT ![PFftab[fd].fname].hdr = PFftab[fd].hdr]
    BY DEF Loaded, Closed
  <2>2. disk \in [Fname -> File]
    BY Basics DEF Good, DiskType
  <2> QED  BY <2>1, <2>2 DEF File
<1>5. LengthCovered'
  BY <1>1, <1>4, ViewsCovered
<1> QED
  BY <1>3, <1>5 DEF SizeInv

LEMMA NextSize ==
    ~Undisciplined /\ Good /\ Good' /\ SizeInv /\ [PFNext]_pfvars => SizeInv'
<1> SUFFICES ASSUME ~Undisciplined, Good, Good', SizeInv, [PFNext]_pfvars PROVE SizeInv'
  OBVIOUS
<1>1. Shape
  BY StepShapes DEF Good
<1>2. ASSUME NEW fd \in FD, NEW p \in PageNum,
             \/ Got(fd, p) \/ Recycled(fd, p) \/ Extended(fd, p) \/ Freed(fd, p)
             \/ \E dirty \in BOOLEAN : Unpinned(fd, p, dirty)
             \/ Marked(fd, p)
             \/ \E d \in Data : Wrote(fd, p, d)
      PROVE  SizeInv'
  <2>1. \/ Got(fd, p) \/ Recycled(fd, p) \/ Extended(fd, p) \/ Freed(fd, p)
        \/ OnFixed(fd, p)
    BY <1>2 DEF Unpinned, Marked, Wrote
  <2> QED  BY <2>1, ServesSize, FixedSize
<1> QED
  BY <1>1, <1>2, MovedSize, FilesSize, TableSize DEF Shape

LEMMA InitSize == PFInit => SizeInv
<1> SUFFICES ASSUME PFInit PROVE SizeInv
  OBVIOUS
<1>1. PagesInFile
  BY FreshPool DEF PFInit, Fresh, PagesInFile
<1>2. \A fn \in Fname : disk[fn].len = 0 /\ CurrentHdr(fn).numpages = 0
  <2>1. \A fn \in Fname : disk[fn].len = 0 /\ disk[fn].hdr.numpages = 0
    BY DEF PFInit, EmptyFile, EmptyHdr
  <2>2. \A fn \in Fname, fd \in FD : PFftab[fd].fname # fn
    BY PFAssumption DEF PFInit, NoOpenFile
  <2> QED  BY <2>1, <2>2, ViewClosed
<1> QED
  BY <1>1, <1>2 DEF SizeInv, LengthCovered

-----------------------------------------------------------------------------
(***************************************************************************)
(* The chain of free pages.  c lists the set F from first on, each page    *)
(* once, following next.                                                   *)
(***************************************************************************)
Chained(F, first, next, n, c) ==
    /\ c \in [1 .. n -> F]
    /\ \A i, j \in 1 .. n : c[i] = c[j] => i = j
    /\ \A q \in F : \E i \in 1 .. n : c[i] = q
    /\ first = IF n = 0 THEN PF_PAGE_LIST_END ELSE c[1]
    /\ \A i \in 1 .. n : next[c[i]] = IF i = n THEN PF_PAGE_LIST_END ELSE c[i + 1]

IsChain(F, first, next) == \E n \in Nat : \E c : Chained(F, first, next, n, c)

(* The page at the head is taken. *)
LEMMA ChainPop ==
    ASSUME NEW F, F \subseteq PageNum, NEW first, NEW next, IsChain(F, first, next),
           first # PF_PAGE_LIST_END,
           NEW later, \A q \in F \ {first} : later[q] = next[q]
    PROVE  first \in F /\ IsChain(F \ {first}, next[first], later)
<1>0. PICK n \in Nat : \E c : Chained(F, first, next, n, c)
  BY DEF IsChain
<1>1. PICK c : Chained(F, first, next, n, c)
  BY <1>0
<1>2. n \in Nat \ {0} /\ first = c[1] /\ first \in F
  BY <1>1 DEF Chained
<1> DEFINE e == [i \in 1 .. n - 1 |-> c[i + 1]]
<1>3. e \in [1 .. n - 1 -> F \ {first}]
  BY <1>1, <1>2 DEF Chained
<1>4. \A i, j \in 1 .. n - 1 : e[i] = e[j] => i = j
  BY <1>1, <1>2 DEF Chained
<1>5. \A q \in F \ {first} : \E i \in 1 .. n - 1 : e[i] = q
  <2>1. ASSUME NEW q \in F \ {first} PROVE \E i \in 1 .. n - 1 : e[i] = q
    <3>1. PICK i \in 1 .. n : c[i] = q
      BY <1>1 DEF Chained
    <3>2. i # 1
      BY <1>2, <3>1
    <3>3. i - 1 \in 1 .. n - 1 /\ e[i - 1] = q
      BY <3>1, <3>2
    <3> QED  BY <3>3
  <2> QED  BY <2>1
<1>6. next[first] = IF n - 1 = 0 THEN PF_PAGE_LIST_END ELSE e[1]
  BY <1>1, <1>2 DEF Chained
<1>7. \A i \in 1 .. n - 1 : later[e[i]] = IF i = n - 1 THEN PF_PAGE_LIST_END ELSE e[i + 1]
  <2>1. \A i \in 1 .. n - 1 : later[e[i]] = next[c[i + 1]]
    BY <1>3
  <2> QED  BY <1>1, <1>2, <2>1, SMTT(40) DEF Chained
<1> HIDE DEF e
<1>8. Chained(F \ {first}, next[first], later, n - 1, e)
  BY <1>3, <1>4, <1>5, <1>6, <1>7 DEF Chained
<1> QED
  BY <1>2, <1>8 DEF IsChain

(* A page is put at the head. *)
LEMMA ChainPush ==
    ASSUME NEW F, F \subseteq PageNum, NEW first, NEW next, IsChain(F, first, next),
           NEW p \in PageNum, p \notin F,
           NEW later, \A q \in F : later[q] = next[q], later[p] = first
    PROVE  IsChain(F \cup {p}, p, later)
<1>0. PICK n \in Nat : \E c : Chained(F, first, next, n, c)
  BY DEF IsChain
<1>1. PICK c : Chained(F, first, next, n, c)
  BY <1>0
<1> DEFINE e == [i \in 1 .. n + 1 |-> IF i = 1 THEN p ELSE c[i - 1]]
<1>2. c \in [1 .. n -> F]
  BY <1>1 DEF Chained
<1>3. e \in [1 .. n + 1 -> F \cup {p}] /\ e[1] = p /\ \A i \in 1 .. n : e[i + 1] = c[i]
  BY <1>2
<1>4. \A i, j \in 1 .. n + 1 : e[i] = e[j] => i = j
  BY <1>1 DEF Chained
<1>5. \A q \in F \cup {p} : \E i \in 1 .. n + 1 : e[i] = q
  <2>1. ASSUME NEW q \in F PROVE \E i \in 1 .. n + 1 : e[i] = q
    <3>1. PICK i \in 1 .. n : c[i] = q
      BY <1>1 DEF Chained
    <3>2. i + 1 \in 1 .. n + 1 /\ e[i + 1] = q
      BY <1>3, <3>1
    <3> QED  BY <3>2
  <2>2. 1 \in 1 .. n + 1 /\ e[1] = p
    BY <1>3
  <2> HIDE DEF e
  <2> QED  BY <2>1, <2>2
<1> HIDE DEF e
<1>6. \A i \in 1 .. n + 1 : later[e[i]] = IF i = n + 1 THEN PF_PAGE_LIST_END ELSE e[i + 1]
  <2>1. later[e[1]] = IF 1 = n + 1 THEN PF_PAGE_LIST_END ELSE e[2]
    BY <1>1, <1>3 DEF Chained
  <2>2. ASSUME NEW i \in 2 .. n + 1
        PROVE  later[e[i]] = IF i = n + 1 THEN PF_PAGE_LIST_END ELSE e[i + 1]
    <3>1. i - 1 \in 1 .. n /\ e[(i - 1) + 1] = c[i - 1] /\ c[i - 1] \in F
      BY <1>2, <1>3
    <3>2. later[e[i]] = next[c[i - 1]]
      BY <3>1
    <3>3. next[c[i - 1]] = IF i - 1 = n THEN PF_PAGE_LIST_END ELSE c[i]
      BY <1>1, <3>1 DEF Chained
    <3>4. i # n + 1 => e[i + 1] = c[i]
      BY <1>3
    <3> QED  BY <3>2, <3>3, <3>4
  <2>3. \A i \in 1 .. n + 1 : i = 1 \/ i \in 2 .. n + 1
    OBVIOUS
  <2> QED  BY <2>1, <2>2, <2>3
<1>7. Chained(F \cup {p}, p, later, n + 1, e)
  BY <1>3, <1>4, <1>5, <1>6 DEF Chained
<1> QED
  BY <1>7 DEF IsChain

LEMMA ChainEmpty ==
    ASSUME NEW F, NEW first, NEW next, first = PF_PAGE_LIST_END, F \subseteq PageNum
    PROVE  IsChain(F, first, next) <=> F = {}
<1>1. ASSUME IsChain(F, first, next) PROVE F = {}
  <2>0. PICK n \in Nat : \E c : Chained(F, first, next, n, c)
    BY <1>1 DEF IsChain
  <2>1. PICK c : Chained(F, first, next, n, c)
    BY <2>0
  <2>2. n = 0
    BY <2>1 DEF Chained, PageNum, PF_PAGE_LIST_END
  <2> QED  BY <2>1, <2>2 DEF Chained
<1>2. ASSUME F = {} PROVE IsChain(F, first, next)
  <2> DEFINE e == [i \in 1 .. 0 |-> first]
  <2>1. Chained(F, first, next, 0, e)
    BY <1>2 DEF Chained
  <2> HIDE DEF e
  <2> QED  BY <2>1 DEF IsChain
<1> QED
  BY <1>1, <1>2

(* The chain depends on next at its own pages only. *)
LEMMA ChainSame ==
    ASSUME NEW F, NEW first, NEW next, NEW later, IsChain(F, first, next),
           \A q \in F : later[q] = next[q]
    PROVE  IsChain(F, first, later)
<1>0. PICK n \in Nat : \E c : Chained(F, first, next, n, c)
  BY DEF IsChain
<1>1. PICK c : Chained(F, first, next, n, c)
  BY <1>0
<1>2. Chained(F, first, later, n, c)
  BY <1>1 DEF Chained
<1> QED
  BY <1>2 DEF IsChain

NextOf(fn) == [q \in PageNum |-> CurrentPage(fn, q).nextfree]

(* Each file, open or closed, has one chain through its free pages. *)
ChainInv == \A fn \in Fname : IsChain(FreePages(fn), CurrentHdr(fn).firstfree, NextOf(fn))

LEMMA ViewSameChain ==
    ASSUME ChainInv, NEW fn \in Fname, ViewSame(fn)
    PROVE  IsChain(FreePages(fn), CurrentHdr(fn).firstfree, NextOf(fn))'
<1>1. CurrentHdr(fn)' = CurrentHdr(fn) /\ FreePages(fn)' = FreePages(fn) /\ NextOf(fn)' = NextOf(fn)
  BY DEF ViewSame, FreePages, NextOf
<1> QED
  BY <1>1 DEF ChainInv, IsChain, Chained

(* The step gives the chain of fn; that of any other file stays. *)
LEMMA EditedChain ==
    ASSUME ChainInv, NEW fn \in Fname, \A gn \in Fname : gn # fn => ViewSame(gn),
           NEW F, NEW first, NEW next, IsChain(F, first, next),
           FreePages(fn)' = F, CurrentHdr(fn)'.firstfree = first, NextOf(fn)' = next
    PROVE  ChainInv'
<1>1. ASSUME NEW gn \in Fname
      PROVE  IsChain(FreePages(gn), CurrentHdr(gn).firstfree, NextOf(gn))'
  <2>1. CASE gn # fn
    BY <2>1, ViewSameChain
  <2>2. CASE gn = fn
    BY <2>2 DEF IsChain, Chained
  <2> QED  BY <2>1, <2>2
<1> QED
  BY <1>1 DEF ChainInv

LEMMA TakesChain ==
    ASSUME PFInv, ChainInv, NEW fn \in Fname, NEW p \in PageNum, ViewTakes(fn, p)
    PROVE  p \in FreePages(fn) /\ ChainInv'
<1> DEFINE F == FreePages(fn)
           next == NextOf(fn)
           later == [q \in PageNum |-> CurrentPage(fn, q)'.nextfree]
<1>1. F \subseteq PageNum /\ IsChain(F, p, next) /\ p # PF_PAGE_LIST_END
  BY DEF FreePages, ChainInv, ViewTakes, PageNum, PF_PAGE_LIST_END
<1>2. \A q \in F \ {p} : later[q] = next[q]
  BY <1>1 DEF ViewTakes, ViewEdited, NextOf
<1>3. FreePages(fn)' = F \ {p}
  <2>1. \A q \in PageNum : q # p => CurrentPage(fn, q)' = CurrentPage(fn, q)
    BY DEF ViewTakes, ViewEdited
  <2>2. CurrentPage(fn, p)'.nextfree = PF_PAGE_USED /\ CurrentHdr(fn)'.numpages = CurrentHdr(fn).numpages
    BY DEF ViewTakes, ViewEdited
  <2> QED  BY <2>1, <2>2 DEF FreePages
<1>4. NextOf(fn)' = later /\ CurrentHdr(fn)'.firstfree = next[p]
  BY DEF NextOf, ViewTakes, ViewEdited
<1>5. \A gn \in Fname : gn # fn => ViewSame(gn)
  BY DEF ViewTakes, ViewEdited
<1> HIDE DEF next, later
<1>6. p \in F /\ IsChain(F \ {p}, next[p], later)
  BY <1>1, <1>2, ChainPop
<1> DEFINE G == F \ {p}
<1>7. FreePages(fn)' = G /\ IsChain(G, next[p], later)
  BY <1>3, <1>6
<1> HIDE DEF G
<1> QED
  BY <1>4, <1>5, <1>6, <1>7, EditedChain

LEMMA FreesChain ==
    ASSUME PFInv, ChainInv, NEW fn \in Fname, NEW p \in PageNum, ViewFrees(fn, p)
    PROVE  ChainInv'
<1> DEFINE F == FreePages(fn)
           first == CurrentHdr(fn).firstfree
           next == NextOf(fn)
           later == [q \in PageNum |-> CurrentPage(fn, q)'.nextfree]
           G == F \cup {p}
<1>1. F \subseteq PageNum /\ IsChain(F, first, next) /\ p \notin F
  BY DEF FreePages, ChainInv, ViewFrees
<1>2. \A q \in F : later[q] = next[q]
  BY <1>1 DEF ViewFrees, ViewEdited, NextOf
<1>3. later[p] = first
  BY DEF ViewFrees
<1>4. first # PF_PAGE_USED
  <2>0. PICK n \in Nat : \E c : Chained(F, first, next, n, c)
    BY <1>1 DEF IsChain
  <2>1. PICK c : Chained(F, first, next, n, c)
    BY <2>0
  <2>2. first = PF_PAGE_LIST_END \/ first \in F
    BY <2>1 DEF Chained
  <2> QED  BY <1>1, <2>2 DEF PageNum, PF_PAGE_LIST_END, PF_PAGE_USED
<1>5. FreePages(fn)' = G
  <2>1. \A q \in PageNum : q # p => CurrentPage(fn, q)' = CurrentPage(fn, q)
    BY DEF ViewFrees, ViewEdited
  <2>2. /\ CurrentPage(fn, p)'.nextfree # PF_PAGE_USED
        /\ CurrentHdr(fn)'.numpages = CurrentHdr(fn).numpages
        /\ p < CurrentHdr(fn).numpages
    BY <1>4 DEF ViewFrees, ViewEdited
  <2> QED  BY <2>1, <2>2 DEF FreePages
<1>6. NextOf(fn)' = later /\ CurrentHdr(fn)'.firstfree = p
  BY DEF NextOf, ViewFrees, ViewEdited
<1>7. \A gn \in Fname : gn # fn => ViewSame(gn)
  BY DEF ViewFrees, ViewEdited
<1> HIDE DEF F, first, next, later
<1>8. IsChain(G, p, later)
  BY <1>1, <1>2, <1>3, ChainPush
<1> HIDE DEF G
<1> QED
  BY <1>5, <1>6, <1>7, <1>8, EditedChain

LEMMA GrowsChain ==
    ASSUME PFInv, ChainInv, NEW fn \in Fname, NEW p \in PageNum, NEW d, ViewGrows(fn, p, d)
    PROVE  ChainInv'
<1> DEFINE later == NextOf(fn)'
           end == PF_PAGE_LIST_END
           none == {}
<1>1. FreePages(fn) = {}
  <2>1. IsChain(FreePages(fn), end, NextOf(fn)) /\ FreePages(fn) \subseteq PageNum
    BY DEF ChainInv, ViewGrows, FreePages
  <2> HIDE DEF end
  <2> QED  BY <2>1, ChainEmpty DEF end
<1>2. FreePages(fn)' = none
  <2>1. /\ \A q \in PageNum : q # p => CurrentPage(fn, q)' = CurrentPage(fn, q)
        /\ CurrentPage(fn, p)'.nextfree = PF_PAGE_USED
        /\ CurrentHdr(fn)'.numpages = CurrentHdr(fn).numpages + 1
        /\ p = CurrentHdr(fn).numpages
    BY DEF ViewGrows, ViewEdited
  <2>2. \A q \in PageNum : q < p + 1 => q = p \/ q < p
    BY DEF PageNum
  <2> QED  BY <1>1, <2>1, <2>2 DEF FreePages
<1>3. none \subseteq PageNum /\ end = PF_PAGE_LIST_END /\ none = {}
  OBVIOUS
<1>4. CurrentHdr(fn)'.firstfree = end /\ \A gn \in Fname : gn # fn => ViewSame(gn)
  BY DEF ViewGrows, ViewEdited
<1>5. NextOf(fn)' = later
  OBVIOUS
<1> HIDE DEF none, end, later
<1>6. IsChain(none, end, later)
  BY <1>3, ChainEmpty
<1> QED
  BY <1>2, <1>4, <1>5, <1>6, EditedChain

LEMMA WritesChain ==
    ASSUME PFInv, ChainInv, NEW fn \in Fname, NEW p \in PageNum, NEW d, ViewWrites(fn, p, d)
    PROVE  ChainInv'
<1> DEFINE F == FreePages(fn)
           first == CurrentHdr(fn).firstfree
           next == NextOf(fn)
<1>1. \A q \in PageNum : CurrentPage(fn, q)'.nextfree = CurrentPage(fn, q).nextfree
  BY DEF ViewWrites, ViewEdited
<1>2. CurrentHdr(fn)'.firstfree = first /\ CurrentHdr(fn)'.numpages = CurrentHdr(fn).numpages
  BY DEF ViewWrites, ViewEdited
<1>3. FreePages(fn)' = F /\ NextOf(fn)' = next
  BY <1>1, <1>2 DEF FreePages, NextOf
<1>4. IsChain(F, first, next)
  BY DEF ChainInv
<1>5. \A gn \in Fname : gn # fn => ViewSame(gn)
  BY DEF ViewWrites, ViewEdited
<1> HIDE DEF F, first, next
<1> QED
  BY <1>2, <1>3, <1>4, <1>5, EditedChain

LEMMA EmptiesChain ==
    ASSUME ChainInv, NEW fn \in Fname, ViewEmpties(fn)
    PROVE  ChainInv'
<1> DEFINE later == NextOf(fn)'
           end == PF_PAGE_LIST_END
           none == {}
<1>1. CurrentHdr(fn)'.firstfree = end /\ CurrentHdr(fn)'.numpages = 0
  BY DEF ViewEmpties, EmptyHdr
<1>2. FreePages(fn)' = none
  BY <1>1 DEF FreePages, PageNum
<1>3. none \subseteq PageNum /\ end = PF_PAGE_LIST_END /\ none = {}
  OBVIOUS
<1>4. NextOf(fn)' = later /\ \A gn \in Fname : gn # fn => ViewSame(gn)
  BY DEF ViewEmpties
<1> HIDE DEF none, end, later
<1>5. IsChain(none, end, later)
  BY <1>3, ChainEmpty
<1> QED
  BY <1>1, <1>2, <1>4, <1>5, EditedChain

LEMMA NextChain ==
    ~Undisciplined /\ Good /\ Good' /\ SizeInv /\ ChainInv /\ [PFNext]_pfvars => ChainInv'
<1> SUFFICES ASSUME ~Undisciplined, Good, Good', SizeInv, ChainInv, [PFNext]_pfvars
             PROVE  ChainInv'
  OBVIOUS
<1>1. ViewShape
  BY StepViews
<1>2. CASE \A fn \in Fname : ViewSame(fn)
  BY <1>2, ViewSameChain DEF ChainInv
<1>3. ASSUME NEW fn \in Fname, NEW p \in PageNum,
             \/ ViewTakes(fn, p)
             \/ ViewFrees(fn, p)
             \/ \E d \in Data : ViewGrows(fn, p, d) \/ ViewWrites(fn, p, d)
      PROVE  ChainInv'
  BY <1>3, TakesChain, FreesChain, GrowsChain, WritesChain DEF Good
<1>4. ASSUME NEW fn \in Fname, ViewEmpties(fn) PROVE ChainInv'
  BY <1>4, EmptiesChain
<1> QED
  BY <1>1, <1>2, <1>3, <1>4 DEF ViewShape

LEMMA InitChain == PFInit => ChainInv
<1> SUFFICES ASSUME PFInit, NEW fn \in Fname
             PROVE  IsChain(FreePages(fn), CurrentHdr(fn).firstfree, NextOf(fn))
  BY DEF ChainInv
<1> DEFINE F == FreePages(fn)
           first == CurrentHdr(fn).firstfree
           next == NextOf(fn)
<1>1. CurrentHdr(fn) = EmptyHdr
  <2>1. disk[fn].hdr = EmptyHdr
    BY DEF PFInit, EmptyFile
  <2>2. \A fd \in FD : PFftab[fd].fname # fn
    BY PFAssumption DEF PFInit, NoOpenFile
  <2> QED  BY <2>1, <2>2, ViewClosed
<1>2. first = PF_PAGE_LIST_END /\ F = {} /\ F \subseteq PageNum
  BY <1>1 DEF EmptyHdr, FreePages, PageNum
<1> HIDE DEF F, first, next
<1>3. IsChain(F, first, next)
  BY <1>2, ChainEmpty
<1> QED
  BY <1>3 DEF F, first, next

LEMMA WholeInvariance ==
    ASSUME ~Undisciplined
    PROVE  PFSpec => [](Good /\ SizeInv /\ ChainInv)
<1>1. PFSpec => []Good
  BY ShareInvariance, PTL DEF Good
<1>2. PFInit => SizeInv /\ ChainInv
  BY InitSize, InitChain
<1>3. ~Undisciplined /\ Good /\ Good' /\ SizeInv /\ ChainInv /\ [PFNext]_pfvars => SizeInv' /\ ChainInv'
  BY NextSize, NextChain
<1>4. Good /\ Good' /\ SizeInv /\ ChainInv /\ [PFNext]_pfvars => SizeInv' /\ ChainInv'
  BY <1>3
<1> QED
  BY <1>1, <1>2, <1>4, PTL DEF PFSpec

(***************************************************************************)
(* The pool holds pages of the file only: what is evicted is within the    *)
(* file, what is fetched is a page its header counts, and when a           *)
(* descriptor goes to another, shorter file nothing of the first is left.  *)
(***************************************************************************)
THEOREM BufferedPagesAreInFile ==
    ASSUME ~Undisciplined
    PROVE  PFSpec => []BufferedPagesInFile
<1>1. Good /\ SizeInv => BufferedPagesInFile
  <2> SUFFICES ASSUME Good, SizeInv, NEW f \in Listed
               PROVE  buf.frame[f].page < PFftab[buf.frame[f].fd].hdr.numpages
    BY DEF BufferedPagesInFile
  <2>1. BufOK(buf)
    BY Basics DEF Good
  <2>2. /\ buf.frame[f].fd \in FD /\ buf.frame[f].page \in PageNum
        /\ Held(buf, buf.frame[f].fd, buf.frame[f].page)
    BY <2>1, ListedPage DEF Listed
  <2> QED  BY <2>2 DEF SizeInv, PagesInFile
<1> QED
  BY <1>1, WholeInvariance, PTL

(* A chain is a listing of the set, so it is as long as the set is large. *)
LEMMA ChainIsSequence ==
    ASSUME NEW F, F \subseteq PageNum, NEW first, NEW next, NEW n \in Nat, NEW c,
           Chained(F, first, next, n, c)
    PROVE  /\ c \in SetToSeqs(F)
           /\ Len(c) = n /\ DOMAIN c = 1 .. n /\ (c = << >> <=> n = 0)
<1>1. c \in [1 .. n -> F]
  BY DEF Chained
<1>2. ExistsBijection(1 .. n, F)
  BY <1>1 DEF Chained, ExistsBijection, Bijection, Injection, Surjection, IsInjective
<1>3. Cardinality(F) = n
  BY <1>2, FS_CountingElements
<1>4. \A i, j \in 1 .. n : i # j => c[i] # c[j]
  BY DEF Chained
<1>5. c \in SetToSeqs(F)
  BY <1>1, <1>3, <1>4 DEF SetToSeqs
<1>6. c \in Seq(PageNum) /\ Len(c) = n /\ DOMAIN c = 1 .. n
  BY <1>1
<1>7. c = << >> <=> n = 0
  BY <1>6
<1> QED
  BY <1>5, <1>6, <1>7

(***************************************************************************)
(* However pages are allocated, disposed of, evicted and read again, and   *)
(* files closed and opened, the chain of each file's free pages is whole:  *)
(* PF_AllocPage hands out no page that is used, and loses none.            *)
(***************************************************************************)
THEOREM FreeChainStaysSound ==
    ASSUME ~Undisciplined
    PROVE  PFSpec => []FreeChainSound
<1>1. ChainInv => FreeChainSound
  <2> SUFFICES ASSUME ChainInv, NEW fn \in Fname
               PROVE  \E c \in SetToSeqs(FreePages(fn)) : Links(fn, c)
    BY DEF FreeChainSound
  <2> DEFINE F == FreePages(fn)
             first == CurrentHdr(fn).firstfree
             next == NextOf(fn)
  <2>1. F \subseteq PageNum /\ IsChain(F, first, next)
    BY DEF ChainInv, FreePages
  <2> HIDE DEF F, first, next
  <2>2. PICK n \in Nat : \E c : Chained(F, first, next, n, c)
    BY <2>1 DEF IsChain
  <2>3. PICK c : Chained(F, first, next, n, c)
    BY <2>2
  <2>4. c \in SetToSeqs(F) /\ Len(c) = n /\ DOMAIN c = 1 .. n /\ (c = << >> <=> n = 0)
    BY <2>1, <2>3, ChainIsSequence
  <2>5. CurrentHdr(fn).firstfree = IF c = << >> THEN PF_PAGE_LIST_END ELSE c[1]
    BY <2>3, <2>4 DEF Chained, first
  <2>6. ASSUME NEW i \in DOMAIN c
        PROVE  CurrentPage(fn, c[i]).nextfree = IF i = Len(c) THEN PF_PAGE_LIST_END ELSE c[i + 1]
    <3>1. c[i] \in PageNum /\ next[c[i]] = IF i = n THEN PF_PAGE_LIST_END ELSE c[i + 1]
      BY <2>1, <2>3, <2>4, <2>6 DEF Chained
    <3>2. next[c[i]] = CurrentPage(fn, c[i]).nextfree
      BY <3>1 DEF next, NextOf
    <3> QED  BY <2>4, <3>1, <3>2
  <2>7. Links(fn, c)
    BY <2>5, <2>6 DEF Links
  <2> QED  BY <2>4, <2>7 DEF F
<1> QED
  BY <1>1, WholeInvariance, PTL

-----------------------------------------------------------------------------
(***************************************************************************)
(* The layer implements PagedFile.  The variables of Abstract are these,   *)
(* and Pinned and ret.                                                     *)
(***************************************************************************)
Names    == {fn \in Fname : disk[fn].exists}
Contents == [fn \in Fname |-> CurrentContent(fn)]
Openers  == [fd \in FD |-> PFftab[fd].fname]

Whole == Good /\ SizeInv /\ ChainInv

(* The step shows in ret only, if at all. *)
Hidden ==
    /\ Names' = Names
    /\ Contents' = Contents
    /\ Openers' = Openers
    /\ Pinned' = Pinned

(* The constants of the two modules are the same. *)
LEMMA SameConstants ==
    /\ Abstract!PageNum = PageNum /\ Abstract!FD = FD
    /\ Abstract!PFE_OK = PFE_OK /\ Abstract!PFE_NOMEM = PFE_NOMEM
    /\ Abstract!PFE_NOBUF = PFE_NOBUF /\ Abstract!PFE_PAGEFIXED = PFE_PAGEFIXED
    /\ Abstract!PFE_PAGENOTINBUF = PFE_PAGENOTINBUF /\ Abstract!PFE_UNIX = PFE_UNIX
    /\ Abstract!PFE_INCOMPLETEREAD = PFE_INCOMPLETEREAD
    /\ Abstract!PFE_INCOMPLETEWRITE = PFE_INCOMPLETEWRITE
    /\ Abstract!PFE_HDRREAD = PFE_HDRREAD /\ Abstract!PFE_HDRWRITE = PFE_HDRWRITE
    /\ Abstract!PFE_INVALIDPAGE = PFE_INVALIDPAGE /\ Abstract!PFE_FILEOPEN = PFE_FILEOPEN
    /\ Abstract!PFE_FTABFULL = PFE_FTABFULL /\ Abstract!PFE_FD = PFE_FD
    /\ Abstract!PFE_EOF = PFE_EOF /\ Abstract!PFE_PAGEFREE = PFE_PAGEFREE
    /\ Abstract!PFE_PAGEUNFIXED = PFE_PAGEUNFIXED
BY DEF Abstract!PageNum, PageNum, Abstract!FD, FD,
       Abstract!PFE_OK, PFE_OK, Abstract!PFE_NOMEM, PFE_NOMEM,
       Abstract!PFE_NOBUF, PFE_NOBUF, Abstract!PFE_PAGEFIXED, PFE_PAGEFIXED,
       Abstract!PFE_PAGENOTINBUF, PFE_PAGENOTINBUF, Abstract!PFE_UNIX, PFE_UNIX,
       Abstract!PFE_INCOMPLETEREAD, PFE_INCOMPLETEREAD,
       Abstract!PFE_INCOMPLETEWRITE, PFE_INCOMPLETEWRITE,
       Abstract!PFE_HDRREAD, PFE_HDRREAD, Abstract!PFE_HDRWRITE, PFE_HDRWRITE,
       Abstract!PFE_INVALIDPAGE, PFE_INVALIDPAGE, Abstract!PFE_FILEOPEN, PFE_FILEOPEN,
       Abstract!PFE_FTABFULL, PFE_FTABFULL, Abstract!PFE_FD, PFE_FD,
       Abstract!PFE_EOF, PFE_EOF, Abstract!PFE_PAGEFREE, PFE_PAGEFREE,
       Abstract!PFE_PAGEUNFIXED, PFE_PAGEUNFIXED

LEMMA SameCardinality == Abstract!Cardinality(Pinned) = Cardinality(Pinned)
BY DEF Abstract!Cardinality, Cardinality

LEMMA SameContents ==
    ASSUME \A fn \in Fname : ViewSame(fn)
    PROVE  Contents' = Contents
<1>1. ASSUME NEW fn \in Fname PROVE CurrentContent(fn)' = CurrentContent(fn)
  BY <1>1 DEF ViewSame, CurrentContent
<1> QED
  BY <1>1 DEF Contents

(* Page p of fn is all of the contents that has changed. *)
LEMMA EditedContents ==
    ASSUME NEW fn \in Fname, NEW p \in PageNum, NEW first, NEW num,
           ViewEdited(fn, p, first, num),
           \A q \in PageNum : q # p => (q < num <=> q < CurrentHdr(fn).numpages),
           NEW x, x = CurrentContent(fn)'[p]
    PROVE  Contents' = [Contents EXCEPT ![fn][p] = x]
<1>1. \A gn \in Fname : gn # fn => CurrentContent(gn)' = CurrentContent(gn)
  BY DEF ViewEdited, ViewSame, CurrentContent
<1>2. \A q \in PageNum : q # p => CurrentContent(fn)'[q] = CurrentContent(fn)[q]
  BY DEF ViewEdited, CurrentContent
<1> DEFINE was == CurrentContent(fn)
           is  == CurrentContent(fn)'
           all == Contents
           new == Contents'
<1>3. was = [q \in PageNum |-> was[q]] /\ is = [q \in PageNum |-> is[q]]
  BY DEF CurrentContent
<1>4. /\ all = [gn \in Fname |-> all[gn]] /\ new = [gn \in Fname |-> new[gn]]
      /\ all[fn] = was /\ new[fn] = is
      /\ \A gn \in Fname : gn # fn => new[gn] = all[gn]
  BY <1>1 DEF Contents
<1>5. is[p] = x /\ \A q \in PageNum : q # p => is[q] = was[q]
  BY <1>2
<1> HIDE DEF was, is, all, new
<1>6. is = [was EXCEPT ![p] = x]
  BY <1>3, <1>5
<1>7. new = [all EXCEPT ![fn] = [was EXCEPT ![p] = x]]
  BY <1>4, <1>6
<1>8. new = [all EXCEPT ![fn][p] = x]
  BY <1>4, <1>7
<1> QED
  BY <1>8 DEF all, new

LEMMA EmptiedContents ==
    ASSUME NEW fn \in Fname, ViewEmpties(fn)
    PROVE  Contents' = [Contents EXCEPT ![fn] = Abstract!NoPages]
<1>1. \A gn \in Fname : gn # fn => CurrentContent(gn)' = CurrentContent(gn)
  BY DEF ViewEmpties, ViewSame, CurrentContent
<1>2. CurrentContent(fn)' = Abstract!NoPages
  <2>1. CurrentHdr(fn)'.numpages = 0 /\ \A q \in PageNum : ~(q < 0)
    BY DEF ViewEmpties, EmptyHdr, PageNum
  <2> QED  BY <2>1, SameConstants DEF CurrentContent, Abstract!NoPages
<1> QED
  BY <1>1, <1>2 DEF Contents

LEMMA SameNames ==
    ASSUME Good, Written(disk')
    PROVE  Names' = Names
BY WrittenKeeps DEF Good, DiskInv, Names

(* The pinned pages are those the pool holds fixed. *)
LEMMA PinnedPages ==
    /\ Pinned \subseteq FD \X PageNum
    /\ \A fd \in FD, p \in PageNum :
         <<fd, p>> \in Pinned <=> Held(buf, fd, p) /\ PageAt(fd, p).fixed
<1>1. ASSUME NEW fd \in FD, NEW p \in PageNum
      PROVE  <<fd, p>> \in Pinned <=> Held(buf, fd, p) /\ PageAt(fd, p).fixed
  <2>1. <<fd, p>> \in Pinned <=> NotFixed(buf, fd, p) = PFE_OK
    BY DEF Pinned, IsPinned
  <2>2. PFhashFind(buf, fd, p) = buf.hash[<<fd, p>>]
    BY DEF PFhashFind
  <2> QED  BY <2>1, <2>2 DEF NotFixed, Held, PageAt, At, PFE_OK, PFE_PAGENOTINBUF, PFE_PAGEUNFIXED
<1> QED
  BY <1>1 DEF Pinned

LEMMA PinnedPagesNext ==
    /\ Pinned' \subseteq FD \X PageNum
    /\ \A fd \in FD, p \in PageNum :
         <<fd, p>> \in Pinned' <=> Held(buf', fd, p) /\ PageAt(fd, p)'.fixed
<1>1. (/\ Pinned \subseteq FD \X PageNum
       /\ \A fd \in FD, p \in PageNum :
            <<fd, p>> \in Pinned <=> Held(buf, fd, p) /\ PageAt(fd, p).fixed)'
  BY PinnedPages, PTL
<1> QED
  BY <1>1 DEF Held

(* A set of pairs is known by its pairs. *)
LEMMA PinnedBut ==
    ASSUME NEW S, S \subseteq FD \X PageNum,
           \A fd \in FD, p \in PageNum : <<fd, p>> \in Pinned' <=> <<fd, p>> \in S
    PROVE  Pinned' = S
<1>1. \A fp \in FD \X PageNum : fp \in Pinned' <=> fp \in S
  <2>1. \A fp \in FD \X PageNum : fp = <<fp[1], fp[2]>> /\ fp[1] \in FD /\ fp[2] \in PageNum
    OBVIOUS
  <2> QED  BY <2>1
<1> QED
  BY <1>1, PinnedPagesNext

(* There are as many as fixed frames. *)
LEMMA PinnedCount ==
    ASSUME PFInv
    PROVE  /\ Cardinality(Pinned) \in Nat
           /\ (\A f \in Frame : buf.frame[f].fixed) => Cardinality(Pinned) = PF_MAX_BUFS
           /\ (\E f \in Frame : ~buf.frame[f].fixed) => Cardinality(Pinned) < PF_MAX_BUFS
<1> DEFINE F == {f \in Frame : buf.frame[f].fixed}
           m == [f \in F |-> <<buf.frame[f].fd, buf.frame[f].page>>]
<1>1. BufOK(buf)
  BY Basics
<1>2. \A f \in F : /\ f \in ToSet(buf.list)
                   /\ buf.frame[f].fd \in FD /\ buf.frame[f].page \in PageNum
                   /\ buf.hash[<<buf.frame[f].fd, buf.frame[f].page>>] = f
  BY <1>1, ListedPage DEF BufOK, Holds
<1>3. m \in [F -> Pinned]
  <2>1. ASSUME NEW f \in F
        PROVE  <<buf.frame[f].fd, buf.frame[f].page>> \in Pinned
    <3>1. Held(buf, buf.frame[f].fd, buf.frame[f].page)
      BY <1>2 DEF Held, NoFrame, Frame
    <3>2. PageAt(buf.frame[f].fd, buf.frame[f].page).fixed
      BY <1>2 DEF PageAt, At
    <3> QED  BY <1>2, <3>1, <3>2, PinnedPages
  <2> QED  BY <2>1
<1>4. \A f, h \in F : m[f] = m[h] => f = h
  BY <1>2
<1>5. ASSUME NEW fp \in Pinned PROVE \E f \in F : m[f] = fp
  <2>1. PICK fd \in FD, p \in PageNum : fp = <<fd, p>>
    BY PinnedPages
  <2>2. Held(buf, fd, p) /\ PageAt(fd, p).fixed
    BY <2>1, PinnedPages
  <2>3. /\ buf.hash[<<fd, p>>] \in F
        /\ buf.frame[buf.hash[<<fd, p>>]].fd = fd
        /\ buf.frame[buf.hash[<<fd, p>>]].page = p
    BY <1>1, <2>2, HeldPage DEF PageAt, At
  <2> QED  BY <2>1, <2>3
<1> HIDE DEF m
<1>6. ExistsBijection(F, Pinned)
  BY <1>3, <1>4, <1>5 DEF ExistsBijection, Bijection, Injection, Surjection, IsInjective
<1>7. IsFiniteSet(Frame) /\ Cardinality(Frame) = PF_MAX_BUFS
  BY FS_Interval, PFAssumption DEF Frame
<1>8. F \in SUBSET Frame
  OBVIOUS
<1> HIDE DEF F
<1>9. IsFiniteSet(F) /\ Cardinality(F) <= Cardinality(Frame) /\ (Cardinality(Frame) = Cardinality(F) => Frame = F)
  BY <1>7, <1>8, FS_Subset
<1>10. Cardinality(Pinned) = Cardinality(F) /\ Cardinality(F) \in Nat
  BY <1>6, <1>9, FS_Bijection, FS_CardinalityType
<1>11. (\A f \in Frame : buf.frame[f].fixed) => F = Frame
  BY DEF F
<1>12. (\E f \in Frame : ~buf.frame[f].fixed) => F # Frame
  BY DEF F
<1> QED
  BY <1>7, <1>9, <1>10, <1>11, <1>12, PFAssumption

(* The pages in use, as Abstract has them, and what is in them. *)
LEMMA UsedPages ==
    ASSUME Good, NEW fd \in FD, IsOpen(fd), NEW p \in PageNum
    PROVE  /\ PFftab[fd].fname \in Fname
           /\ Openers[fd] = PFftab[fd].fname
           /\ Seen(fd, p) \in PFfpage /\ Seen(fd, p).data # NULL
           /\ p \in Abstract!Used(fd) <=>
                p < PFftab[fd].hdr.numpages /\ Seen(fd, p).nextfree = PF_PAGE_USED
<1> DEFINE fn == PFftab[fd].fname
<1>1. fn \in Fname /\ disk \in [Fname -> File] /\ BufOK(buf)
  BY Basics DEF Good, IsOpen, FtabType, PFftab_ele, DiskType
<1>2. CurrentHdr(fn) = PFftab[fd].hdr /\ CurrentPage(fn, p) = Seen(fd, p)
  BY <1>1, ViewOpen DEF Good
<1>3. Seen(fd, p) \in PFfpage
  <2>1. CASE Held(buf, fd, p)
    BY <1>1, <2>1, HeldPage DEF Seen, PageAt, PFbpage
  <2>2. CASE ~Held(buf, fd, p)
    BY <1>1, <2>2 DEF Seen, File
  <2> QED  BY <2>1, <2>2
<1>4. Seen(fd, p).data # NULL
  BY <1>3, PFAssumption DEF PFfpage
<1>5. p \in Abstract!Used(fd) <=> CurrentContent(fn)[p] # NULL
  BY <1>1, SameConstants DEF Abstract!Used, Abstract!ContentOf
<1>6. CurrentContent(fn)[p] # NULL <=> p < PFftab[fd].hdr.numpages /\ Seen(fd, p).nextfree = PF_PAGE_USED
  BY <1>2, <1>4 DEF CurrentContent
<1> QED
  BY <1>1, <1>3, <1>4, <1>5, <1>6 DEF Openers

-----------------------------------------------------------------------------
(* What each kind of step is to Abstract. *)

LEMMA FlowPinned ==
    ASSUME NEW T, Flow(buf', disk', T)
    PROVE  \A g \in FD, q \in PageNum : <<g, q>> \notin T => (<<g, q>> \in Pinned' <=> <<g, q>> \in Pinned)
<1>1. ASSUME NEW g \in FD, NEW q \in PageNum, <<g, q>> \notin T
      PROVE  <<g, q>> \in Pinned' <=> <<g, q>> \in Pinned
  <2>1. CASE Stays(buf, buf', g, q)
    BY <2>1, PinnedPages, PinnedPagesNext DEF Stays, Held, PageAt
  <2>2. CASE Leaves(buf', disk', g, q)
    BY <2>2, PinnedPages, PinnedPagesNext DEF Leaves, PageAt
  <2> QED  BY <1>1, <2>1, <2>2 DEF Flow
<1> QED
  BY <1>1

LEMMA StillHidden ==
    ASSUME Still
    PROVE  Hidden
<1>1. Contents' = Contents
  BY StillView, SameContents
<1>2. Names' = Names /\ Openers' = Openers
  BY DEF Still, Names, Openers
<1>3. Pinned' = Pinned
  BY DEF Still, Pinned, IsPinned, NotFixed, PFhashFind
<1> QED
  BY <1>1, <1>2, <1>3 DEF Hidden

LEMMA MovedHidden ==
    ASSUME Good, Good', Moved
    PROVE  Hidden
<1>1. Contents' = Contents
  BY MovedView, SameContents
<1>2. Names' = Names /\ Openers' = Openers
  BY SameNames DEF Moved, Flow, Openers
<1>3. Pinned' = Pinned
  <2> DEFINE none == {}
  <2>0. Flow(buf', disk', none) /\ \A g \in FD, q \in PageNum : <<g, q>> \notin none
    BY DEF Moved
  <2> HIDE DEF none
  <2>1. \A g \in FD, q \in PageNum : <<g, q>> \in Pinned' <=> <<g, q>> \in Pinned
    BY <2>0, FlowPinned
  <2> QED  BY <2>1, PinnedPages, PinnedBut
<1> QED
  BY <1>1, <1>2, <1>3 DEF Hidden

(* The page served was not pinned, and a frame was to be had. *)
LEMMA ServesPinned ==
    ASSUME Good, Good', NEW fd \in FD, NEW p \in PageNum,
           Got(fd, p) \/ Recycled(fd, p) \/ Extended(fd, p) \/ Freed(fd, p)
    PROVE  /\ Names' = Names
           /\ Openers' = Openers
           /\ <<fd, p>> \notin Pinned
           /\ Cardinality(Pinned) < PF_MAX_BUFS
           /\ PageAt(fd, p)'.fixed => Pinned' = Pinned \cup {<<fd, p>>}
           /\ ~PageAt(fd, p)'.fixed => Pinned' = Pinned
<1>1. Serves(fd, p)
  BY ServingKinds DEF Good
<1>2. Names' = Names
  BY <1>1, SameNames DEF Serves, Flow
<1>3. \A g \in FD : PFftab'[g].fname = PFftab[g].fname
  BY <1>1 DEF Serves, OthersSame
<1>4. <<fd, p>> \notin Pinned
  BY <1>1, PinnedPages DEF Serves
<1>5. Cardinality(Pinned) < PF_MAX_BUFS
  <2>1. BufOK(buf')
    BY Basics, PFInvPartsNext DEF Good
  <2>2. buf'.hash[<<fd, p>>] \in Frame
    BY <1>1, <2>1, HeldPage DEF Serves
  <2> QED  BY <1>1, <2>2, PinnedCount DEF Serves, Good
<1> DEFINE T == {<<fd, p>>}
<1>6. \A g \in FD, q \in PageNum : <<g, q>> \notin T => (<<g, q>> \in Pinned' <=> <<g, q>> \in Pinned)
  BY <1>1, FlowPinned DEF Serves
<1>7. <<fd, p>> \in Pinned' <=> PageAt(fd, p)'.fixed
  BY <1>1, PinnedPagesNext DEF Serves
<1> HIDE DEF T
<1>8. ASSUME PageAt(fd, p)'.fixed PROVE Pinned' = Pinned \cup T
  <2>1. \A g \in FD, q \in PageNum : <<g, q>> \in Pinned' <=> <<g, q>> \in Pinned \cup T
    BY <1>6, <1>7, <1>8 DEF T
  <2>2. Pinned \cup T \subseteq FD \X PageNum
    BY PinnedPages DEF T
  <2> QED  BY <2>1, <2>2, PinnedBut
<1>9. ASSUME ~PageAt(fd, p)'.fixed PROVE Pinned' = Pinned
  <2>1. \A g \in FD, q \in PageNum : <<g, q>> \in Pinned' <=> <<g, q>> \in Pinned
    BY <1>4, <1>6, <1>7, <1>9 DEF T
  <2> QED  BY <2>1, PinnedPages, PinnedBut
<1> QED
  BY <1>2, <1>3, <1>4, <1>5, <1>8, <1>9 DEF Openers, T

(* The page is used, and is kept, or it is not, and nothing shows. *)
LEMMA GotAbstract ==
    ASSUME Whole, Good', NEW fd \in FD, NEW p \in PageNum, Got(fd, p)
    PROVE  /\ IsOpen(fd) /\ Openers[fd] # NULL
           /\ Contents' = Contents
           /\ p < PFftab[fd].hdr.numpages
           /\ PageAt(fd, p)'.fixed => p \in Abstract!Used(fd)
           /\ ~PageAt(fd, p)'.fixed => Hidden /\ p \notin Abstract!Used(fd)
<1>1. /\ IsOpen(fd) /\ PFftab' = PFftab
      /\ PageAt(fd, p)'.fixed <=> Seen(fd, p).nextfree = PF_PAGE_USED
  <2>1. PICK v \in PFbpage : /\ Fetched(fd, p, buf', disk', v)
                             /\ PageAt(fd, p)'.fixed <=> v.fpage.nextfree = PF_PAGE_USED
    BY DEF Got
  <2>2. IsOpen(fd) /\ PFftab' = PFftab
    BY DEF Got
  <2> QED  BY <2>1, <2>2, FetchedSeen DEF Whole, Good
<1>2. Contents' = Contents
  BY GotView, SameContents DEF Whole
<1>3. p < PFftab[fd].hdr.numpages
  BY <1>1, ServingInFile DEF Whole
<1>4. p \in Abstract!Used(fd) <=> PageAt(fd, p)'.fixed
  BY <1>1, <1>3, UsedPages DEF Whole
<1>5. Openers[fd] # NULL
  BY <1>1 DEF Openers, IsOpen
<1>6. ~PageAt(fd, p)'.fixed => Hidden
  BY <1>2, ServesPinned DEF Hidden, Whole
<1> QED
  BY <1>1, <1>2, <1>3, <1>4, <1>5, <1>6

(* Something is done to a pinned page, which stays pinned or not. *)
LEMMA OnFixedAbstract ==
    ASSUME Good, Good', NEW fd \in FD, NEW p \in PageNum, OnFixed(fd, p)
    PROVE  /\ <<fd, p>> \in Pinned
           /\ Names' = Names
           /\ Openers' = Openers
           /\ PageAt(fd, p)'.fixed => Pinned' = Pinned
           /\ ~PageAt(fd, p)'.fixed => Pinned' = Pinned \ {<<fd, p>>}
<1>1. <<fd, p>> \in Pinned
  BY PinnedPages DEF OnFixed
<1>2. Names' = Names /\ Openers' = Openers
  BY DEF OnFixed, Names, Openers
<1>3. ASSUME NEW g \in FD, NEW q \in PageNum, <<g, q>> # <<fd, p>>
      PROVE  <<g, q>> \in Pinned' <=> <<g, q>> \in Pinned
  <2>1. Stays(buf, buf', g, q)
    BY <1>3 DEF OnFixed, Only
  <2> QED  BY <2>1, PinnedPages, PinnedPagesNext DEF Stays, Held, PageAt
<1>4. <<fd, p>> \in Pinned' <=> PageAt(fd, p)'.fixed
  BY PinnedPagesNext DEF OnFixed
<1> DEFINE S == Pinned \ {<<fd, p>>}
<1>5. ASSUME PageAt(fd, p)'.fixed PROVE Pinned' = Pinned
  <2>1. \A g \in FD, q \in PageNum : <<g, q>> \in Pinned' <=> <<g, q>> \in Pinned
    BY <1>1, <1>3, <1>4, <1>5
  <2> QED  BY <2>1, PinnedPages, PinnedBut
<1>6. ASSUME ~PageAt(fd, p)'.fixed PROVE Pinned' = S
  <2>1. \A g \in FD, q \in PageNum : <<g, q>> \in Pinned' <=> <<g, q>> \in S
    BY <1>3, <1>4, <1>6
  <2>2. S \subseteq FD \X PageNum
    BY PinnedPages
  <2> HIDE DEF S
  <2> QED  BY <2>1, <2>2, PinnedBut
<1> QED
  BY <1>1, <1>2, <1>5, <1>6

-----------------------------------------------------------------------------
(* The errors of the pool are those Abstract allows. *)

LEMMA FaultyCalls ==
    Faults # {} =>
      {PFE_NOMEM, PFE_UNIX, PFE_INCOMPLETEREAD, PFE_INCOMPLETEWRITE, PFE_HDRREAD,
       PFE_HDRWRITE} \subseteq Abstract!IOError
BY SameConstants DEF Abstract!IOError

LEMMA FlushErrors ==
    ASSUME NEW f, NEW w \in Flush(f), w.err # PFE_OK
    PROVE  w.err \in Abstract!IOError
<1>1. "write" \in Faults /\ w.err \in {PFE_UNIX, PFE_INCOMPLETEWRITE}
  BY DEF Flush, PFwritefcn
<1> QED
  BY <1>1, FaultyCalls

LEMMA InternalAllocErrors ==
    ASSUME PFInv, NEW fd \in FD, NEW o \in PFbufInternalAlloc(fd), o.err # PFE_OK
    PROVE  \/ o.err = PFE_NOBUF /\ Cardinality(Pinned) = PF_MAX_BUFS
           \/ o.err \in Abstract!IOError
<1>1. CASE buf.free # << >>
  BY <1>1 DEF PFbufInternalAlloc, Linked, Outcome
<1>2. CASE buf.free = << >> /\ buf.num < PF_MAX_BUFS
  <2>1. "mem" \in Faults /\ o.err = PFE_NOMEM
    BY <1>2 DEF PFbufInternalAlloc, Linked, Outcome
  <2> QED  BY <2>1, FaultyCalls
<1>3. CASE buf.free = << >> /\ ~(buf.num < PF_MAX_BUFS) /\ Unfixed(buf) = {}
  <2>1. o.err = PFE_NOBUF
    BY <1>3 DEF PFbufInternalAlloc, Outcome
  <2>2. BufOK(buf)
    BY Basics
  <2>3. buf.num = PF_MAX_BUFS /\ ToSet(buf.free) = {} /\ buf.list \in Seq(Frame)
    <3>1. buf.num \in 0 .. PF_MAX_BUFS /\ buf.list \in Seq(Frame)
      BY <2>2 DEF BufOK, Pool, BufType
    <3>2. ToSet(<< >>) = {}
      BY DEF ToSet
    <3> QED  BY <1>3, <3>1, <3>2, PFAssumption
  <2>4. ToSet(buf.list) = Frame
    BY <2>2, <2>3 DEF BufOK, Pool, Frame
  <2>5. \A f \in Frame : buf.frame[f].fixed
    BY <1>3, <2>3, <2>4 DEF ToSet, Unfixed
  <2> QED  BY <2>1, <2>5, PinnedCount
<1>4. CASE buf.free = << >> /\ ~(buf.num < PF_MAX_BUFS) /\ Unfixed(buf) # {}
  <2>1. PICK i \in Victim(buf, PFftab[fd].strategy) :
           \E w \in Flush(buf.list[i]) :
              o = IF w.err = PFE_OK
                  THEN Linked(Evict(buf, buf.list[i]), w.disk, buf.list[i])
                  ELSE Outcome(buf, w.disk, w.err)
    BY <1>4 DEF PFbufInternalAlloc
  <2>2. PICK w \in Flush(buf.list[i]) : o = IF w.err = PFE_OK
                  THEN Linked(Evict(buf, buf.list[i]), w.disk, buf.list[i])
                  ELSE Outcome(buf, w.disk, w.err)
    BY <2>1
  <2>3. w.err # PFE_OK /\ o.err = w.err
    BY <2>2 DEF Linked, Outcome
  <2> QED  BY <2>3, FlushErrors
<1> QED
  BY <1>1, <1>2, <1>3, <1>4

LEMMA EnterErrors ==
    ASSUME NEW a, NEW fd, NEW p, NEW w, NEW o \in Enter(a, fd, p, w), o.err # PFE_OK
    PROVE  o.err \in Abstract!IOError
<1>1. "mem" \in Faults /\ o.err = PFE_NOMEM
  BY DEF Enter, Outcome
<1> QED
  BY <1>1, FaultyCalls

(* A page of the file can be read: it is in the pool or it was written. *)
LEMMA GetErrors ==
    ASSUME Good, NEW fd \in FD, IsOpen(fd), NEW p \in PageNum, p < PFftab[fd].hdr.numpages,
           NEW o \in PFbufGet(fd, p), o.err # PFE_OK
    PROVE  \/ o.err = PFE_PAGEFIXED /\ <<fd, p>> \in Pinned
           \/ /\ <<fd, p>> \notin Pinned
              /\ \/ o.err = PFE_NOBUF /\ Cardinality(Pinned) = PF_MAX_BUFS
                 \/ o.err \in Abstract!IOError
<1>1. PFhashFind(buf, fd, p) = buf.hash[<<fd, p>>]
  BY DEF PFhashFind
<1>2. CASE ~Held(buf, fd, p)
  <2>1. <<fd, p>> \notin Pinned
    BY <1>2, PinnedPages
  <2>2. PICK a \in PFbufInternalAlloc(fd) : o \in IF a.err # PFE_OK THEN {a} ELSE Fetch(a, fd, p)
    BY <1>1, <1>2 DEF PFbufGet, Held
  <2>3. CASE a.err # PFE_OK
    BY <2>1, <2>2, <2>3, InternalAllocErrors DEF Good
  <2>4. CASE a.err = PFE_OK
    <3> DEFINE old == a.buf.frame[Head(a.buf.list)].fpage
    <3>1. PICK r \in PFreadfcn(a.disk, PFftab[fd].fname, p, old) :
             o \in IF r.err # PFE_OK
                   THEN {Outcome(Abandon(a.buf), a.disk, r.err)}
                   ELSE Enter(a, fd, p, [fd |-> fd, page |-> p, dirty |-> FALSE,
                                         fixed |-> TRUE, fpage |-> r.fpage])
      BY <2>2, <2>4 DEF Fetch
    <3> HIDE DEF old
    <3>2. CASE r.err = PFE_OK
      BY <2>1, <3>1, <3>2, EnterErrors
    <3>3. CASE r.err # PFE_OK
      <4> DEFINE fn == PFftab[fd].fname
      <4>1. o.err = r.err
        BY <3>1, <3>3 DEF Outcome
      <4>2. Written(a.disk) /\ fn \in Fname
        BY InternalAllocFlow, Basics DEF Good, Flow, IsOpen, FtabType, PFftab_ele
      <4> HIDE DEF fn
      <4>3. ~(disk[fn].len <= p)
        BY <1>2 DEF Good, DiskInv, NewPagesAreDirty, fn
      <4>4. /\ a.disk \in DiskType
            /\ disk[fn].len <= a.disk[fn].len
        BY <4>2, WrittenKeeps DEF Good, DiskInv
      <4>5. ~(p >= a.disk[fn].len)
        <5>1. disk[fn].len \in Int /\ a.disk[fn].len \in Int /\ p \in Int
          BY <4>2, <4>4, Basics DEF Good, DiskType, File, PageNum
        <5> QED  BY <4>3, <4>4, <5>1
      <4>6. "read" \in Faults /\ r.err = PFE_UNIX
        BY <3>1, <3>3, <4>5 DEF PFreadfcn, fn
      <4> QED  BY <2>1, <4>1, <4>6, FaultyCalls
    <3> QED  BY <3>2, <3>3
  <2> QED  BY <2>3, <2>4
<1>3. CASE Held(buf, fd, p) /\ PageAt(fd, p).fixed
  <2>1. o.err = PFE_PAGEFIXED
    BY <1>1, <1>3 DEF PFbufGet, Held, PageAt, At, Outcome
  <2> QED  BY <1>3, <2>1, PinnedPages
<1>4. CASE Held(buf, fd, p) /\ ~PageAt(fd, p).fixed
  BY <1>1, <1>4 DEF PFbufGet, Held, PageAt, At, Outcome
<1> QED
  BY <1>2, <1>3, <1>4

(* The page the file grows by is not in the pool. *)
LEMMA AllocErrors ==
    ASSUME Good, SizeInv, NEW fd \in FD, IsOpen(fd), NEW p \in PageNum,
           p = PFftab[fd].hdr.numpages, NEW o \in PFbufAlloc(fd, p), o.err # PFE_OK
    PROVE  \/ o.err = PFE_NOBUF /\ Cardinality(Pinned) = PF_MAX_BUFS
           \/ o.err \in Abstract!IOError
<1>1. PFhashFind(buf, fd, p) = NoFrame
  <2>1. ~Held(buf, fd, p)
    BY DEF SizeInv, PagesInFile, PageNum
  <2> QED  BY <2>1 DEF Held, PFhashFind
<1>2. PICK a \in PFbufInternalAlloc(fd) :
         o \in IF a.err # PFE_OK
               THEN {a}
               ELSE Enter(a, fd, p, [fd |-> fd, page |-> p, dirty |-> FALSE, fixed |-> TRUE,
                                     fpage |-> a.buf.frame[Head(a.buf.list)].fpage])
  BY <1>1 DEF PFbufAlloc
<1>3. CASE a.err # PFE_OK
  BY <1>2, <1>3, InternalAllocErrors DEF Good
<1>4. CASE a.err = PFE_OK
  BY <1>2, <1>4, EnterErrors
<1> QED
  BY <1>3, <1>4

-----------------------------------------------------------------------------
(* Calls on files. *)

LEMMA FailHidden ==
    ASSUME NEW code, Fail(code)
    PROVE  Hidden /\ ret' = [code |-> code, page |-> -1] /\ Still
<1>1. Still /\ ret' = [code |-> code, page |-> -1]
  BY DEF Fail, Return, ReturnPage, Still
<1> QED
  BY <1>1, StillHidden

LEMMA CreateRefines ==
    ASSUME Whole, Whole', NEW fn \in Fname, PF_CreateFile(fn)
    PROVE  Abstract!Create(fn)
<1>1. CASE disk[fn].exists /\ Fail(PFE_UNIX)
  BY <1>1, FailHidden, SameConstants
  DEF Abstract!Create, Abstract!Refuse, Abstract!Returns, Hidden, Names, Contents, Openers
<1>2. ASSUME "write" \in Faults, NEW code \in {PFE_UNIX, PFE_HDRWRITE}, Fail(code)
      PROVE  Abstract!Create(fn)
  BY <1>2, FailHidden, FaultyCalls
  DEF Abstract!Create, Abstract!Refuse, Abstract!Returns, Hidden, Names, Contents, Openers
<1>3. CASE ~disk[fn].exists /\ disk' = [disk EXCEPT ![fn] = EmptyFile(TRUE)] /\ Return(PFE_OK)
           /\ UNCHANGED <<PFftab, buf, touched>>
  <2>1. disk \in [Fname -> File]
    BY Basics DEF Whole, Good, DiskType
  <2>2. Created(fn)
    BY <1>3, <2>1 DEF Created, FileIs
  <2>3. Contents' = Contents
    BY <2>2, CreatedView, SameContents DEF Whole
  <2>4. Names' = Names \cup {fn} /\ fn \notin Names
    BY <1>3, <2>1 DEF Names, EmptyFile
  <2>5. Openers' = Openers /\ Pinned' = Pinned
    BY <1>3 DEF Openers, Pinned, IsPinned, NotFixed, PFhashFind
  <2>6. ret' = [code |-> PFE_OK, page |-> -1]
    BY <1>3 DEF Return, ReturnPage
  <2> QED  BY <2>3, <2>4, <2>5, <2>6, SameConstants
           DEF Abstract!Create, Abstract!Returns, Names, Contents, Openers
<1> QED
  BY <1>1, <1>2, <1>3 DEF PF_CreateFile

LEMMA DestroyRefines ==
    ASSUME Whole, Whole', NEW fn \in Fname, PF_DestroyFile(fn)
    PROVE  Abstract!Destroy(fn)
<1>1. CASE (\E fd \in FD : PFftab[fd].fname = fn) /\ Fail(PFE_FILEOPEN)
  BY <1>1, FailHidden, SameConstants
  DEF Abstract!Destroy, Abstract!Refuse, Abstract!Returns, Hidden, Names, Contents, Openers
<1>2. CASE ~disk[fn].exists /\ Fail(PFE_UNIX)
  BY <1>2, FailHidden, SameConstants
  DEF Abstract!Destroy, Abstract!Refuse, Abstract!Returns, Hidden, Names, Contents, Openers
<1>3. CASE /\ \A fd \in FD : PFftab[fd].fname # fn
           /\ disk[fn].exists
           /\ disk' = [disk EXCEPT ![fn] = EmptyFile(FALSE)]
           /\ Return(PFE_OK)
           /\ UNCHANGED <<PFftab, buf, touched>>
  <2>1. disk \in [Fname -> File]
    BY Basics DEF Whole, Good, DiskType
  <2>2. Destroyed(fn)
    BY <1>3, <2>1 DEF Destroyed, FileIs
  <2>3. Contents' = [Contents EXCEPT ![fn] = Abstract!NoPages]
    BY <2>2, DestroyedView, EmptiedContents
  <2>4. Names' = Names \ {fn} /\ fn \in Names
    BY <1>3, <2>1 DEF Names, EmptyFile
  <2>5. Openers' = Openers /\ Pinned' = Pinned
    BY <1>3 DEF Openers, Pinned, IsPinned, NotFixed, PFhashFind
  <2>6. ret' = [code |-> PFE_OK, page |-> -1]
    BY <1>3 DEF Return, ReturnPage
  <2>7. \A fd \in FD : Openers[fd] # fn
    BY <1>3 DEF Openers
  <2> QED  BY <2>3, <2>4, <2>5, <2>6, <2>7, SameConstants
           DEF Abstract!Destroy, Abstract!Returns, Names, Contents, Openers
<1> QED
  BY <1>1, <1>2, <1>3 DEF PF_DestroyFile

(* A table with an unused entry has a lowest one. *)
LEMMA FreeEntry ==
    ASSUME PFftabFindFree = {}
    PROVE  \A fd \in FD : PFftab[fd].fname # NULL
<1> DEFINE S == {fd \in FD : PFinvalidFd(fd)}
<1>1. S \subseteq Nat
  BY PFAssumption DEF FD
<1>2. ASSUME S # {} PROVE FALSE
  <2> DEFINE less == {nm \in Nat \X Nat : nm[1] < nm[2]}
  <2>0. IsWellFoundedOn(less, Nat)
    BY NatLessThanWellFounded DEF OpToRel
  <2> HIDE DEF less
  <2>1. PICK m \in S : \A n \in S : ~(<<n, m>> \in less)
    BY <1>1, <1>2, <2>0, WFMin
  <2>2. ASSUME NEW n \in S PROVE m <= n
    <3>1. m \in Nat /\ n \in Nat
      BY <1>1
    <3>2. n < m => <<n, m>> \in less
      BY <3>1 DEF less
    <3> QED  BY <2>1, <3>1, <3>2
  <2> QED  BY <2>2 DEF PFftabFindFree
<1> QED
  BY <1>2 DEF PFinvalidFd

LEMMA OpenRefines ==
    ASSUME ~Undisciplined, Whole, Whole', NEW fn \in Fname, NEW strategy \in PF_Strategy,
           PF_OpenFile(fn, strategy)
    PROVE  Abstract!Open(fn)
<1>0. PFftab \in FtabType
  BY Basics DEF Whole, Good
<1>1. CASE PFftabFindFree = {} /\ Fail(PFE_FTABFULL)
  <2>1. \A fd \in FD : Openers[fd] # NULL
    BY <1>1, FreeEntry DEF Openers
  <2> QED  BY <1>1, <2>1, FailHidden, SameConstants
           DEF Abstract!Open, Abstract!Refuse, Abstract!Returns, Hidden, Names, Contents, Openers
<1>2. CASE ~disk[fn].exists /\ Fail(PFE_UNIX)
  BY <1>2, FailHidden, SameConstants
  DEF Abstract!Open, Abstract!Refuse, Abstract!Returns, Hidden, Names, Contents, Openers
<1>3. ASSUME "read" \in Faults, NEW code \in {PFE_UNIX, PFE_HDRREAD}, Fail(code)
      PROVE  Abstract!Open(fn)
  BY <1>3, FailHidden, FaultyCalls
  DEF Abstract!Open, Abstract!Refuse, Abstract!Returns, Hidden, Names, Contents, Openers
<1>4. CASE \/ PFftabFindFree = {} /\ Fail(PFE_FTABFULL)
           \/ ~disk[fn].exists /\ Fail(PFE_UNIX)
           \/ "read" \in Faults /\ \E code \in {PFE_UNIX, PFE_HDRREAD} : Fail(code)
  BY <1>1, <1>2, <1>3, <1>4
<1>5. ASSUME NEW fd \in PFftabFindFree, disk[fn].exists,
             PFftab' = [PFftab EXCEPT ![fd] =
                            [fname |-> fn, hdr |-> disk[fn].hdr,
                             hdrchanged |-> FALSE, strategy |-> strategy]],
             Return(fd), UNCHANGED <<disk, buf, touched>>
      PROVE  Abstract!Open(fn)
  <2>1. fd \in FD /\ PFftab[fd].fname = NULL
    BY <1>5 DEF PFftabFindFree, PFinvalidFd
  <2>2. Loaded(fd, fn, fn)
    BY <1>0, <1>5, <2>1 DEF Loaded, IsOpen, OthersSame, FtabType, PF_OpenFile
  <2>3. Contents' = Contents
    BY <2>1, <2>2, LoadedView, SameContents DEF Whole
  <2>4. Openers' = [Openers EXCEPT ![fd] = fn]
    BY <1>0, <1>5, <2>1 DEF Openers, FtabType
  <2>5. Names' = Names /\ Pinned' = Pinned /\ fn \in Names /\ Openers[fd] = NULL
    BY <1>5, <2>1 DEF Names, Openers, Pinned, IsPinned, NotFixed, PFhashFind
  <2>6. ret' = [code |-> fd, page |-> -1]
    BY <1>5 DEF Return, ReturnPage
  <2> QED  BY <2>1, <2>3, <2>4, <2>5, <2>6, SameConstants
           DEF Abstract!Open, Abstract!Returns, Names, Contents, Openers
<1>6. ASSUME NEW fd \in PFftabFindFree, disk[fn].exists, "mem" \in Faults,
             PFftab' = [PFftab EXCEPT ![fd].hdr = disk[fn].hdr, ![fd].hdrchanged = FALSE],
             Return(PFE_NOMEM), UNCHANGED <<disk, buf, touched>>
      PROVE  Abstract!Open(fn)
  <2>1. fd \in FD /\ PFftab[fd].fname = NULL
    BY <1>6 DEF PFftabFindFree, PFinvalidFd
  <2>2. Loaded(fd, fn, NULL)
    BY <1>0, <1>6, <2>1 DEF Loaded, IsOpen, OthersSame, FtabType, PFftab_ele, PF_OpenFile
  <2>3. Contents' = Contents
    BY <2>1, <2>2, LoadedView, SameContents DEF Whole
  <2>4. \A g \in FD : PFftab'[g].fname = PFftab[g].fname
    BY <2>1, <2>2 DEF Loaded, OthersSame
  <2>5. Openers' = Openers /\ Names' = Names /\ Pinned' = Pinned
    BY <1>6, <2>4 DEF Openers, Names, Pinned, IsPinned, NotFixed, PFhashFind
  <2>6. ret' = [code |-> PFE_NOMEM, page |-> -1] /\ PFE_NOMEM \in Abstract!IOError
    BY <1>6, FaultyCalls DEF Return, ReturnPage
  <2> QED  BY <2>3, <2>5, <2>6
           DEF Abstract!Open, Abstract!Refuse, Abstract!Returns, Names, Contents, Openers
<1> QED
  BY <1>4, <1>5, <1>6 DEF PF_OpenFile

(* Abstract takes no step: a loop begins, or goes on. *)
Unseen == Hidden /\ ret' = ret

(* Abstract's view of an open file. *)
LEMMA OpenAbstract ==
    \A fd \in FD : Abstract!IsOpen(fd) <=> IsOpen(fd)
BY DEF Abstract!IsOpen, IsOpen

LEMMA CloseFileRefines ==
    ASSUME NEW fd \in FD, PF_CloseFile(fd)
    PROVE  Abstract!Close(fd) \/ Unseen
<1>1. CASE PFinvalidFd(fd) /\ Fail(PFE_FD)
  <2>1. ~Abstract!IsOpen(fd)
    BY <1>1, OpenAbstract DEF PFinvalidFd, IsOpen
  <2> QED  BY <1>1, <2>1, FailHidden, SameConstants
           DEF Abstract!Close, Abstract!Refuse, Abstract!Returns, Hidden, Names, Contents, Openers
<1>2. CASE UNCHANGED <<disk, PFftab, buf, ret, PFerrno, touched>>
  BY <1>2, StillHidden DEF Still, Unseen
<1> QED
  BY <1>1, <1>2 DEF PF_CloseFile

LEMMA LoopOpen ==
    ASSUME PFInv, call.op \in {"next", "close"}
    PROVE  call.fd \in FD /\ IsOpen(call.fd) /\ Abstract!IsOpen(call.fd)
<1>1. PFTypeOK /\ LoopsAreSound
  BY Basics
<1>2. call.fd \in FD
  BY <1>1, SMTT(40) DEF PFTypeOK, Call, NoCall
<1> QED
  BY <1>1, <1>2, OpenAbstract DEF LoopsAreSound, IsOpen

LEMMA ReleaseRefines ==
    ASSUME Whole, Whole', PFbufReleaseFile
    PROVE  Abstract!Close(call.fd) \/ Unseen
<1> DEFINE f == buf.list[call.at]
<1>1. call.fd \in FD /\ Abstract!IsOpen(call.fd)
  BY LoopOpen DEF PFbufReleaseFile, Whole, Good
<1>2. Hidden
  BY ReleaseShape, StillHidden, MovedHidden DEF Whole, Good
<1>3. CASE Advance
  BY <1>2, <1>3 DEF Advance, Unseen
<1>4. CASE buf.frame[f].fd = call.fd /\ buf.frame[f].fixed /\ Fail(PFE_PAGEFIXED)
  <2>1. BufOK(buf)
    BY Basics DEF Whole, Good
  <2>2. f \in ToSet(buf.list) /\ f \in Frame
    <3>1. call.at \in 1 .. Len(buf.list)
      <4>1. PFTypeOK
        BY Basics DEF Whole, Good
      <4>2. call.at \in Nat \ {0} /\ Len(buf.list) \in Nat
        BY <4>1 DEF PFTypeOK, Call, NoCall, PFbufReleaseFile, BufType
      <4> QED  BY <4>2 DEF PFbufReleaseFile
    <3> QED  BY <2>1, <3>1 DEF ToSet, BufOK, Pool, BufType
  <2> HIDE DEF f
  <2>3. /\ buf.frame[f].page \in PageNum
        /\ Held(buf, call.fd, buf.frame[f].page)
        /\ PageAt(call.fd, buf.frame[f].page) = buf.frame[f]
    <3>1. buf.frame[f].fd = call.fd
      BY <1>4 DEF f
    <3>2. /\ buf.frame[f].page \in PageNum
          /\ Held(buf, buf.frame[f].fd, buf.frame[f].page)
          /\ At(buf, buf.frame[f].fd, buf.frame[f].page) = buf.frame[f]
      BY <2>1, <2>2, ListedPage
    <3> QED  BY <3>1, <3>2 DEF PageAt
  <2>4. \E p \in PageNum : <<call.fd, p>> \in Pinned
    BY <1>1, <1>4, <2>3, PinnedPages
  <2>5. ret' = [code |-> PFE_PAGEFIXED, page |-> -1]
    BY <1>4, FailHidden
  <2> QED  BY <1>2, <2>4, <2>5, SameConstants
           DEF Abstract!Close, Abstract!Refuse, Abstract!Returns, Hidden, Names, Contents, Openers
<1>5. ASSUME NEW o \in ReleaseFrame(f), Released(o)
      PROVE  Abstract!Close(call.fd) \/ Unseen
  <2>1. PICK w \in Flush(f) :
           o = IF w.err = PFE_OK
               THEN Outcome(PFbufInsertFree(Evict(buf, f), f), w.disk, PFE_OK)
               ELSE Outcome(buf, w.disk, w.err)
    BY <1>5 DEF ReleaseFrame
  <2>2. CASE w.err = PFE_OK
    <3>1. o.err = PFE_OK
      BY <2>1, <2>2 DEF Outcome
    <3> QED  BY <1>2, <1>5, <3>1 DEF Released, Unseen
  <2>3. CASE w.err # PFE_OK
    <3>1. o.err = w.err
      BY <2>1, <2>3 DEF Outcome
    <3>2. o.err \in Abstract!IOError /\ ret' = [code |-> o.err, page |-> -1]
      BY <1>5, <2>3, <3>1, FlushErrors DEF Released, Return, ReturnPage
    <3> HIDE DEF f
    <3> QED  BY <1>1, <1>2, <3>2
             DEF Abstract!Close, Abstract!Refuse, Abstract!Returns, Hidden, Names, Contents, Openers
  <2> QED  BY <2>2, <2>3
<1> QED
  BY <1>3, <1>4, <1>5 DEF PFbufReleaseFile

LEMMA FinishRefines ==
    ASSUME Whole, Whole', FinishClose
    PROVE  Abstract!Close(call.fd)
<1>1. call.fd \in FD /\ IsOpen(call.fd) /\ Abstract!IsOpen(call.fd)
  BY LoopOpen DEF FinishClose, Whole, Good
<1>2. PFftab \in FtabType
  BY Basics DEF Whole, Good
<1>3. ASSUME "write" \in Faults, NEW code \in {PFE_UNIX, PFE_HDRWRITE}, Fail(code)
      PROVE  Abstract!Close(call.fd)
  BY <1>1, <1>3, FailHidden, FaultyCalls
  DEF Abstract!Close, Abstract!Refuse, Abstract!Returns, Hidden, Names, Contents, Openers
<1>4. CASE /\ disk' = IF PFftab[call.fd].hdrchanged
                     THEN [disk EXCEPT ![PFftab[call.fd].fname].hdr =
                                         PFftab[call.fd].hdr]
                     ELSE disk
          /\ PFftab' = [PFftab EXCEPT ![call.fd].fname = NULL,
                                      ![call.fd].hdrchanged = FALSE]
          /\ Return(PFE_OK)
          /\ UNCHANGED <<buf, touched>>
  <2> DEFINE fd == call.fd
  <2>1. PFftab'[fd].fname = NULL /\ \A g \in FD : g # fd => PFftab'[g] = PFftab[g]
    BY <1>1, <1>2, <1>4 DEF FtabType, PFftab_ele
  <2>2. Closed(fd)
    <3>1. PFftab' # PFftab
      BY <1>1, <2>1 DEF IsOpen
    <3> QED  BY <3>1, CloseShape DEF Still, Whole, Good
  <2>3. Contents' = Contents
    BY <1>1, <2>2, ClosedView, SameContents DEF Whole
  <2>4. Names' = Names
    <3>1. disk \in [Fname -> File]
      BY Basics DEF Whole, Good, DiskType
    <3>2. \A fn \in Fname : disk'[fn].exists = disk[fn].exists
      BY <1>4, <3>1 DEF File
    <3> QED  BY <3>2 DEF Names
  <2>5. Pinned' = Pinned
    BY <1>4 DEF Pinned, IsPinned, NotFixed, PFhashFind
  <2>6. \A p \in PageNum : <<fd, p>> \notin Pinned
    BY <1>1, <2>2, PinnedPages DEF Closed
  <2>7. ret' = [code |-> PFE_OK, page |-> -1]
    BY <1>4 DEF Return, ReturnPage
  <2> HIDE DEF fd
  <2>8. Openers' = [Openers EXCEPT ![fd] = NULL]
    BY <2>1 DEF Openers
  <2>9. Abstract!IsOpen(fd)
    BY <1>1 DEF fd
  <2>10. Abstract!Close(fd)
    BY <2>3, <2>4, <2>5, <2>6, <2>7, <2>8, <2>9, SameConstants
    DEF Abstract!Close, Abstract!Returns, Names, Contents, Openers
  <2> QED  BY <2>10 DEF fd
<1> QED
  BY <1>3, <1>4 DEF FinishClose

-----------------------------------------------------------------------------
(* Calls on pages. *)

(* The errors of the argument checks. *)
LEMMA ArgumentFails ==
    ASSUME Good, NEW fd \in FD, NEW p \in PageNum, ArgumentError(fd, p) # PFE_OK
    PROVE  \/ ArgumentError(fd, p) = PFE_FD /\ ~Abstract!IsOpen(fd)
           \/ /\ ArgumentError(fd, p) = PFE_INVALIDPAGE /\ Abstract!IsOpen(fd)
              /\ ~(p < PFftab[fd].hdr.numpages)
              /\ p \notin Abstract!Used(fd)
<1>1. CASE ~IsOpen(fd)
  BY <1>1, OpenAbstract DEF ArgumentError, PFinvalidFd, IsOpen
<1>2. CASE IsOpen(fd)
  <2>1. ArgumentError(fd, p) = PFE_INVALIDPAGE /\ (p < 0 \/ p >= PFftab[fd].hdr.numpages)
    BY <1>2 DEF ArgumentError, PFinvalidFd, PFinvalidPagenum, IsOpen
  <2>2. p \in Nat /\ PFftab[fd].hdr.numpages \in Nat
    BY Basics DEF Good, PFhdr_str, PageNum
  <2>3. ~(p < PFftab[fd].hdr.numpages)
    BY <2>1, <2>2
  <2> QED  BY <1>2, <2>1, <2>3, OpenAbstract, UsedPages
<1> QED
  BY <1>1, <1>2

LEMMA ArgumentsHold ==
    ASSUME Good, NEW fd \in FD, NEW p \in PageNum, ArgumentError(fd, p) = PFE_OK
    PROVE  IsOpen(fd) /\ Abstract!IsOpen(fd) /\ p < PFftab[fd].hdr.numpages
<1>1. IsOpen(fd) /\ ~(p >= PFftab[fd].hdr.numpages)
  BY ArgumentsOK DEF PFinvalidPagenum
<1>2. p \in Nat /\ PFftab[fd].hdr.numpages \in Nat
  BY Basics DEF Good, PFhdr_str, PageNum
<1> QED
  BY <1>1, <1>2, OpenAbstract

(* PFbufGet for a call that changes nothing: its three ends. *)
LEMMA GetRefines ==
    ASSUME Whole, Whole', NEW fd \in FD, IsOpen(fd), NEW p \in PageNum,
           p < PFftab[fd].hdr.numpages,
           NEW o \in PFbufGet(fd, p), disk' = o.disk, UNCHANGED <<PFftab, touched>>
    PROVE  /\ o.err # PFE_OK /\ buf' = o.buf =>
                /\ Hidden
                /\ \/ o.err = PFE_PAGEFIXED /\ <<fd, p>> \in Pinned
                   \/ /\ <<fd, p>> \notin Pinned
                      /\ \/ o.err = PFE_NOBUF /\ Cardinality(Pinned) = PF_MAX_BUFS
                         \/ o.err \in Abstract!IOError
           /\ o.err = PFE_OK /\ FpageOf(o.buf, fd, p).nextfree = PF_PAGE_USED /\ buf' = o.buf =>
                /\ Names' = Names /\ Contents' = Contents /\ Openers' = Openers
                /\ Pinned' = Pinned \cup {<<fd, p>>}
                /\ <<fd, p>> \notin Pinned /\ Cardinality(Pinned) < PF_MAX_BUFS
                /\ p \in Abstract!Used(fd)
           /\ (/\ o.err = PFE_OK /\ FpageOf(o.buf, fd, p).nextfree # PF_PAGE_USED
               /\ buf' = PFbufUnfix(o.buf, fd, p, FALSE)) =>
                Hidden /\ p \notin Abstract!Used(fd)
<1>0. p \in Int /\ Good /\ Good' /\ PFInv
  BY PagesAreIntegers DEF Whole, Good
<1>1. ASSUME o.err # PFE_OK, buf' = o.buf
      PROVE  /\ Hidden
             /\ \/ o.err = PFE_PAGEFIXED /\ <<fd, p>> \in Pinned
                \/ /\ <<fd, p>> \notin Pinned
                   /\ \/ o.err = PFE_NOBUF /\ Cardinality(Pinned) = PF_MAX_BUFS
                      \/ o.err \in Abstract!IOError
  BY <1>0, <1>1, GetFails, MovedHidden, GetErrors
<1>2. ASSUME o.err = PFE_OK, FpageOf(o.buf, fd, p).nextfree = PF_PAGE_USED, buf' = o.buf
      PROVE  /\ Names' = Names /\ Contents' = Contents /\ Openers' = Openers
             /\ Pinned' = Pinned \cup {<<fd, p>>}
             /\ <<fd, p>> \notin Pinned /\ Cardinality(Pinned) < PF_MAX_BUFS
             /\ p \in Abstract!Used(fd)
  <2>1. Got(fd, p) /\ PageAt(fd, p)'.fixed
    BY <1>0, <1>2, GetKeeps
  <2> QED  BY <1>0, <2>1, GotAbstract, ServesPinned
<1>3. ASSUME o.err = PFE_OK, FpageOf(o.buf, fd, p).nextfree # PF_PAGE_USED,
             buf' = PFbufUnfix(o.buf, fd, p, FALSE)
      PROVE  Hidden /\ p \notin Abstract!Used(fd)
  <2>1. Got(fd, p) /\ ~PageAt(fd, p)'.fixed
    BY <1>0, <1>3, GetDrops
  <2> QED  BY <1>0, <2>1, GotAbstract
<1> QED
  BY <1>1, <1>2, <1>3

LEMMA GetThisRefines ==
    ASSUME Whole, Whole', NEW fd \in FD, NEW p \in PageNum, PF_GetThisPage(fd, p)
    PROVE  Abstract!GetThis(fd, p)
<1>1. CASE ArgumentError(fd, p) # PFE_OK /\ Fail(ArgumentError(fd, p))
  BY <1>1, FailHidden, ArgumentFails, SameConstants
  DEF Whole, Abstract!GetThis, Abstract!Refuse, Abstract!Returns, Hidden, Names, Contents, Openers
<1>2. ASSUME ArgumentError(fd, p) = PFE_OK, UNCHANGED <<PFftab, touched>>,
             NEW o \in PFbufGet(fd, p), disk' = o.disk,
             \/ /\ o.err # PFE_OK
                /\ buf' = o.buf
                /\ Return(o.err)
             \/ /\ o.err = PFE_OK
                /\ FpageOf(o.buf, fd, p).nextfree = PF_PAGE_USED
                /\ buf' = o.buf
                /\ Return(PFE_OK)
             \/ /\ o.err = PFE_OK
                /\ FpageOf(o.buf, fd, p).nextfree # PF_PAGE_USED
                /\ buf' = PFbufUnfix(o.buf, fd, p, FALSE)
                /\ Return(PFE_INVALIDPAGE)
      PROVE  Abstract!GetThis(fd, p)
  <2>1. IsOpen(fd) /\ Abstract!IsOpen(fd) /\ p < PFftab[fd].hdr.numpages
    BY <1>2, ArgumentsHold DEF Whole
  <2>2. \A code : Return(code) => ret' = [code |-> code, page |-> -1]
    BY DEF Return, ReturnPage
  <2>3. CASE o.err # PFE_OK /\ buf' = o.buf /\ Return(o.err)
    <3>1. /\ Hidden
          /\ \/ o.err = PFE_PAGEFIXED /\ <<fd, p>> \in Pinned
             \/ /\ <<fd, p>> \notin Pinned
                /\ \/ o.err = PFE_NOBUF /\ Cardinality(Pinned) = PF_MAX_BUFS
                   \/ o.err \in Abstract!IOError
      BY <1>2, <2>1, <2>3, GetRefines
    <3> QED  BY <2>1, <2>2, <2>3, <3>1, SameConstants, SameCardinality
             DEF Abstract!GetThis, Abstract!Pin, Abstract!NoRoom, Abstract!Refuse,
                 Abstract!Returns, Hidden, Names, Contents, Openers
  <2>4. CASE /\ o.err = PFE_OK
             /\ FpageOf(o.buf, fd, p).nextfree = PF_PAGE_USED
             /\ buf' = o.buf
             /\ Return(PFE_OK)
    <3>1. /\ Names' = Names /\ Contents' = Contents /\ Openers' = Openers
          /\ Pinned' = Pinned \cup {<<fd, p>>}
          /\ <<fd, p>> \notin Pinned /\ Cardinality(Pinned) < PF_MAX_BUFS
          /\ p \in Abstract!Used(fd)
      BY <1>2, <2>1, <2>4, GetRefines
    <3> QED  BY <2>1, <2>2, <2>4, <3>1, SameConstants, SameCardinality
             DEF Abstract!GetThis, Abstract!Pin, Abstract!Returns, Names, Contents, Openers
  <2>5. CASE /\ o.err = PFE_OK
             /\ FpageOf(o.buf, fd, p).nextfree # PF_PAGE_USED
             /\ buf' = PFbufUnfix(o.buf, fd, p, FALSE)
             /\ Return(PFE_INVALIDPAGE)
    <3>1. Hidden /\ p \notin Abstract!Used(fd)
      BY <1>2, <2>1, <2>5, GetRefines
    <3> QED  BY <2>1, <2>2, <2>5, <3>1, SameConstants
             DEF Abstract!GetThis, Abstract!Refuse, Abstract!Returns, Hidden, Names,
                 Contents, Openers
  <2> QED  BY <1>2, <2>3, <2>4, <2>5
<1> QED
  BY <1>1, <1>2 DEF PF_GetThisPage

LEMMA GetNextRefines ==
    ASSUME Whole, NEW fd \in FD, NEW q \in -2 .. MaxPages, PF_GetNextPage(fd, q)
    PROVE  Abstract!GetNext(fd, q) \/ Unseen
<1>1. CASE PFinvalidFd(fd) /\ Fail(PFE_FD)
  <2>1. ~Abstract!IsOpen(fd)
    BY <1>1, OpenAbstract DEF PFinvalidFd, IsOpen
  <2> QED  BY <1>1, <2>1, FailHidden, SameConstants
           DEF Abstract!GetNext, Abstract!Refuse, Abstract!Returns, Hidden, Names,
               Contents, Openers
<1>2. CASE ~PFinvalidFd(fd) /\ InvalidStart(fd, q) /\ Fail(PFE_INVALIDPAGE)
  <2>1. IsOpen(fd) /\ Abstract!IsOpen(fd)
    BY <1>2, OpenAbstract DEF PFinvalidFd, IsOpen
  <2>2. q \notin Abstract!Used(fd)
    <3>1. CASE q \in PageNum
      <4>1. q \in Nat /\ PFftab[fd].hdr.numpages \in Nat
        BY <3>1, Basics DEF Whole, Good, PFhdr_str, PageNum
      <4>2. ~(q < PFftab[fd].hdr.numpages)
        BY <1>2, <4>1 DEF InvalidStart
      <4> QED  BY <2>1, <3>1, <4>2, UsedPages DEF Whole
    <3>2. CASE q \notin PageNum
      BY <3>2, SameConstants DEF Abstract!Used
    <3> QED  BY <3>1, <3>2
  <2> QED  BY <1>2, <2>1, <2>2, FailHidden, SameConstants
           DEF Abstract!GetNext, Abstract!Refuse, Abstract!Returns, Hidden, Names,
               Contents, Openers
<1>3. CASE UNCHANGED <<disk, PFftab, buf, ret, PFerrno, touched>>
  BY <1>3, StillHidden DEF Still, Unseen
<1> QED
  BY <1>1, <1>2, <1>3 DEF PF_GetNextPage

(* A scan that is at page call.at looks for the next page after call.at-1. *)
LEMMA EndOfFileRefines ==
    ASSUME Whole, EndOfFile
    PROVE  Abstract!GetNext(call.fd, call.at - 1) /\ call.at - 1 \in -2 .. MaxPages
<1> DEFINE fd == call.fd
           q  == call.at - 1
<1>1. fd \in FD /\ IsOpen(fd) /\ Abstract!IsOpen(fd) /\ Fail(PFE_EOF)
  BY LoopOpen DEF EndOfFile, Whole, Good
<1>2. call.at \in 0 .. MaxPages
  <2>1. PFTypeOK
    BY Basics DEF Whole, Good
  <2> QED  BY <2>1 DEF PFTypeOK, Call, NoCall, EndOfFile
<1>3. \A r \in Abstract!Used(fd) : r <= q
  <2>1. ASSUME NEW r \in Abstract!Used(fd) PROVE r <= q
    <3>1. r \in PageNum
      BY SameConstants DEF Abstract!Used
    <3>2. r < PFftab[fd].hdr.numpages
      BY <1>1, <3>1, UsedPages DEF Whole
    <3>3. PFftab[fd].hdr.numpages \in Nat /\ r \in Int
      BY <1>1, <3>1, Basics, PagesAreIntegers DEF Whole, Good, PFhdr_str
    <3> QED  BY <1>2, <3>2, <3>3 DEF EndOfFile
  <2> QED  BY <2>1
<1>4. q \in -2 .. MaxPages
  BY <1>2, PFAssumption
<1> HIDE DEF fd, q
<1>5. Abstract!GetNext(fd, q)
  BY <1>1, <1>3, FailHidden, SameConstants
  DEF Abstract!GetNext, Abstract!Refuse, Abstract!Returns, Hidden, Names, Contents, Openers
<1> QED
  BY <1>4, <1>5 DEF fd, q

LEMMA NextPageRefines ==
    ASSUME Whole, Whole', NextPageStep
    PROVE  \/ Abstract!GetNext(call.fd, call.at - 1) /\ call.at - 1 \in -2 .. MaxPages
           \/ Unseen
<1> DEFINE fd == call.fd
           p  == call.at
           q  == call.at - 1
<1>1. /\ fd \in FD /\ IsOpen(fd) /\ Abstract!IsOpen(fd) /\ p \in PageNum
      /\ p < PFftab[fd].hdr.numpages
  BY NextPageShape, OpenAbstract DEF NextPageStep, Whole, Good
<1>2. /\ q \in -2 .. MaxPages /\ q < p
      /\ \A r \in Abstract!Used(fd) : r <= q \/ p <= r
  <2>1. p \in Int /\ p \in 0 .. MaxPages - 1
    BY <1>1 DEF PageNum
  <2>2. \A r \in Abstract!Used(fd) : r \in Int
    BY SameConstants, PagesAreIntegers DEF Abstract!Used
  <2> QED  BY <2>1, <2>2, PFAssumption
<1>3. PICK o \in PFbufGet(fd, p) :
         /\ disk' = o.disk
         /\ \/ /\ o.err # PFE_OK
               /\ buf' = o.buf
               /\ Return(o.err)
            \/ /\ o.err = PFE_OK
               /\ FpageOf(o.buf, fd, p).nextfree = PF_PAGE_USED
               /\ buf' = o.buf
               /\ ReturnPage(PFE_OK, p)
            \/ /\ o.err = PFE_OK
               /\ FpageOf(o.buf, fd, p).nextfree # PF_PAGE_USED
               /\ buf' = PFbufUnfix(o.buf, fd, p, FALSE)
               /\ Advance
  BY DEF NextPageStep
<1>4. UNCHANGED <<PFftab, touched>>
  BY DEF NextPageStep
<1>5. ret' = ret \/ \E code, page : ret' = [code |-> code, page |-> page]
  BY <1>3 DEF Return, ReturnPage, Advance
<1>6. \A code, page : ReturnPage(code, page) => ret' = [code |-> code, page |-> page]
  BY DEF ReturnPage
<1>7. \A code : Return(code) => ret' = [code |-> code, page |-> -1]
  BY DEF Return, ReturnPage
<1> HIDE DEF fd, p, q
<1>8. CASE o.err # PFE_OK /\ buf' = o.buf /\ Return(o.err)
  <2>1. /\ Hidden
        /\ \/ o.err = PFE_PAGEFIXED /\ <<fd, p>> \in Pinned
           \/ /\ <<fd, p>> \notin Pinned
              /\ \/ o.err = PFE_NOBUF /\ Cardinality(Pinned) = PF_MAX_BUFS
                 \/ o.err \in Abstract!IOError
    BY <1>1, <1>3, <1>4, <1>8, GetRefines
  <2>2. Abstract!Pin(fd, p, p) \/ Abstract!NoRoom(fd, p)
    BY <1>1, <1>7, <1>8, <2>1, SameConstants, SameCardinality
    DEF Abstract!Pin, Abstract!NoRoom, Abstract!Refuse, Abstract!Returns, Hidden, Names,
        Contents, Openers
  <2> QED  BY <1>1, <1>2, <2>2, SameConstants DEF Abstract!GetNext, fd, q
<1>9. CASE /\ o.err = PFE_OK
           /\ FpageOf(o.buf, fd, p).nextfree = PF_PAGE_USED
           /\ buf' = o.buf
           /\ ReturnPage(PFE_OK, p)
  <2>1. /\ Names' = Names /\ Contents' = Contents /\ Openers' = Openers
        /\ Pinned' = Pinned \cup {<<fd, p>>}
        /\ <<fd, p>> \notin Pinned /\ Cardinality(Pinned) < PF_MAX_BUFS
        /\ p \in Abstract!Used(fd)
    BY <1>1, <1>3, <1>4, <1>9, GetRefines
  <2>2. Abstract!Pin(fd, p, p)
    BY <1>1, <1>6, <1>9, <2>1, SameConstants, SameCardinality
    DEF Abstract!Pin, Abstract!Returns, Names, Contents, Openers
  <2> QED  BY <1>1, <1>2, <2>2, SameConstants DEF Abstract!GetNext, fd, q
<1>10. CASE /\ o.err = PFE_OK
            /\ FpageOf(o.buf, fd, p).nextfree # PF_PAGE_USED
            /\ buf' = PFbufUnfix(o.buf, fd, p, FALSE)
            /\ Advance
  <2>1. Hidden
    BY <1>1, <1>3, <1>4, <1>10, GetRefines
  <2> QED  BY <1>10, <2>1 DEF Advance, Unseen
<1> QED
  BY <1>3, <1>8, <1>9, <1>10

LEMMA HeadIsFree ==
    ASSUME ChainInv, NEW fn \in Fname
    PROVE  \/ CurrentHdr(fn).firstfree = PF_PAGE_LIST_END
           \/ CurrentHdr(fn).firstfree \in FreePages(fn)
<1>0. PICK n \in Nat : \E c : Chained(FreePages(fn), CurrentHdr(fn).firstfree, NextOf(fn), n, c)
  BY DEF ChainInv, IsChain
<1>1. PICK c : Chained(FreePages(fn), CurrentHdr(fn).firstfree, NextOf(fn), n, c)
  BY <1>0
<1> QED
  BY <1>1 DEF Chained

(* A page PF_AllocPage may hand out is not in use. *)
LEMMA NotInUse ==
    ASSUME Whole, NEW fd \in FD, IsOpen(fd), NEW p \in PageNum,
           \/ p = PFftab[fd].hdr.firstfree
           \/ p = PFftab[fd].hdr.numpages
    PROVE  /\ p \notin Abstract!Used(fd)
           /\ p = PFftab[fd].hdr.firstfree => p < PFftab[fd].hdr.numpages /\ <<fd, p>> \notin Pinned
<1> DEFINE fn == PFftab[fd].fname
<1>1. fn \in Fname
  BY UsedPages DEF Whole
<1>2. CurrentHdr(fn) = PFftab[fd].hdr /\ CurrentPage(fn, p) = Seen(fd, p)
  BY <1>1, ViewOpen DEF Whole, Good
<1> HIDE DEF fn
<1>3. ASSUME p = PFftab[fd].hdr.firstfree
      PROVE  p < PFftab[fd].hdr.numpages /\ Seen(fd, p).nextfree # PF_PAGE_USED
  <2>1. p \in FreePages(fn)
    BY <1>1, <1>2, <1>3, HeadIsFree, SMTT(40) DEF Whole, PageNum, PF_PAGE_LIST_END
  <2> QED  BY <1>2, <2>1 DEF FreePages
<1>4. ASSUME p = PFftab[fd].hdr.firstfree, <<fd, p>> \in Pinned PROVE FALSE
  BY <1>3, <1>4, PinnedPages DEF Whole, Good, DiskInv, FixedPagesAreUsed, Seen
<1>5. p = PFftab[fd].hdr.numpages => ~(p < PFftab[fd].hdr.numpages)
  BY DEF PageNum
<1> QED
  BY <1>3, <1>4, <1>5, UsedPages DEF Whole

LEMMA AllocatedPage ==
    ASSUME Whole, Whole', NEW fd \in FD, NEW p \in PageNum, Recycled(fd, p) \/ Extended(fd, p)
    PROVE  /\ Abstract!IsOpen(fd) /\ p \notin Abstract!Used(fd)
           /\ Names' = Names /\ Openers' = Openers
           /\ \E d \in Data : Contents' = [Contents EXCEPT ![Openers[fd]][p] = d]
           /\ Pinned' = Pinned \cup {<<fd, p>>}
           /\ Cardinality(Pinned) < PF_MAX_BUFS
<1>1. IsOpen(fd) /\ PageAt(fd, p)'.fixed
  BY DEF Recycled, Extended, Taken
<1>2. PICK fn : fn = PFftab[fd].fname
  OBVIOUS
<1>3. fn \in Fname /\ Openers[fd] = fn
  BY <1>1, <1>2, UsedPages DEF Whole
<1>4. p \notin Abstract!Used(fd)
  BY <1>1, NotInUse DEF Recycled, Extended
<1>5. CASE Recycled(fd, p)
  <2>1. ViewTakes(fn, p)
    BY <1>2, <1>5, RecycledView DEF Whole
  <2>2. p \in FreePages(fn)
    BY <1>3, <2>1, TakesChain DEF Whole, Good
  <2>3. CurrentContent(fn)'[p] = CurrentPage(fn, p).data
    BY <2>1, <2>2 DEF ViewTakes, ViewEdited, FreePages, CurrentContent
  <2>4. CurrentPage(fn, p).data \in Data
    <3>1. CurrentPage(fn, p) = Seen(fd, p)
      BY <1>2, <1>3, ViewOpen DEF Whole, Good
    <3> QED  BY <1>1, <3>1, UsedPages DEF Whole, PFfpage
  <2>5. Contents' = [Contents EXCEPT ![fn][p] = CurrentPage(fn, p).data]
    BY <1>3, <2>1, <2>3, EditedContents DEF ViewTakes
  <2> QED  BY <1>1, <1>3, <1>4, <1>5, <2>4, <2>5, ServesPinned, OpenAbstract DEF Whole
<1>6. CASE Extended(fd, p)
  <2>1. PICK d \in Data : ViewGrows(fn, p, d)
    BY <1>2, <1>6, ExtendedView DEF Whole
  <2>2. CurrentContent(fn)'[p] = d
    <3>1. p < p + 1
      BY PagesAreIntegers
    <3> QED  BY <2>1, <3>1 DEF ViewGrows, ViewEdited, CurrentContent
  <2>3. \A q \in PageNum : q # p => (q < p + 1 <=> q < CurrentHdr(fn).numpages)
    <3>1. \A q \in PageNum : q \in Int
      BY PagesAreIntegers
    <3> QED  BY <2>1, <3>1 DEF ViewGrows
  <2>4. ViewEdited(fn, p, PF_PAGE_LIST_END, p + 1)
    BY <2>1 DEF ViewGrows
  <2>5. Contents' = [Contents EXCEPT ![fn][p] = d]
    <3> DEFINE end == PF_PAGE_LIST_END
               num == p + 1
    <3>1. ViewEdited(fn, p, end, num) /\ \A q \in PageNum : q # p => (q < num <=> q < CurrentHdr(fn).numpages)
      BY <2>3, <2>4
    <3> HIDE DEF end, num
    <3> QED  BY <1>3, <2>2, <3>1, EditedContents
  <2> QED  BY <1>1, <1>3, <1>4, <1>6, <2>5, ServesPinned, OpenAbstract DEF Whole
<1> QED
  BY <1>5, <1>6

LEMMA AllocRefines ==
    ASSUME Whole, Whole', NEW fd \in FD, PF_AllocPage(fd)
    PROVE  Abstract!Alloc(fd)
<1>1. CASE PFinvalidFd(fd) /\ Fail(PFE_FD)
  <2>1. ~Abstract!IsOpen(fd)
    BY <1>1, OpenAbstract DEF PFinvalidFd, IsOpen
  <2> QED  BY <1>1, <2>1, FailHidden, SameConstants
           DEF Abstract!Alloc, Abstract!Refuse, Abstract!Returns, Hidden, Names,
               Contents, Openers
<1>2. \A code, page : ReturnPage(code, page) => ret' = [code |-> code, page |-> page]
  BY DEF ReturnPage
<1>3. ASSUME NEW p \in PageNum, Recycled(fd, p) \/ Extended(fd, p), ReturnPage(PFE_OK, p)
      PROVE  Abstract!Alloc(fd)
  <2>1. /\ Abstract!IsOpen(fd) /\ p \notin Abstract!Used(fd)
        /\ Names' = Names /\ Openers' = Openers
        /\ Pinned' = Pinned \cup {<<fd, p>>}
        /\ Cardinality(Pinned) < PF_MAX_BUFS
    BY <1>3, AllocatedPage
  <2>2. \E d \in Data : Contents' = [Contents EXCEPT ![Openers[fd]][p] = d]
    BY <1>3, AllocatedPage
  <2>3. ret' = [code |-> PFE_OK, page |-> p]
    BY <1>2, <1>3
  <2>4. Abstract!Returns(Abstract!PFE_OK, p) /\ p \in Abstract!PageNum
        /\ Abstract!Cardinality(Pinned) < PF_MAX_BUFS
    BY <1>3, <2>1, <2>3, SameConstants, SameCardinality DEF Abstract!Returns
  <2> QED  BY <2>1, <2>2, <2>4 DEF Abstract!Alloc, Names, Contents, Openers
<1>4. ASSUME NEW p \in PageNum, Abstract!IsOpen(fd), p \notin Abstract!Used(fd), Moved,
             NEW code, ReturnPage(code, p),
             \/ code = PFE_NOBUF /\ Cardinality(Pinned) = PF_MAX_BUFS
             \/ code \in Abstract!IOError
      PROVE  Abstract!Alloc(fd)
  <2>1. Hidden
    BY <1>4, MovedHidden DEF Whole
  <2> QED  BY <1>2, <1>4, <2>1, SameConstants, SameCardinality
           DEF Abstract!Alloc, Abstract!Returns, Hidden, Names, Contents, Openers
<1>5. CASE IsOpen(fd) /\ Alone(fd) /\ UNCHANGED touched
           /\ PFftab[fd].hdr.firstfree # PF_PAGE_LIST_END /\ Recycle(fd)
  <2> DEFINE p == PFftab[fd].hdr.firstfree
  <2>1. \/ \E q \in PageNum : Recycled(fd, q) /\ ReturnPage(PFE_OK, q)
        \/ Moved /\ \E o \in PFbufGet(fd, p) : o.err # PFE_OK /\ ReturnPage(o.err, p)
    BY <1>5, RecycleShape DEF Whole, Good
  <2>2. p \in PageNum
    <3>1. PICK fn \in Fname : fn = PFftab[fd].fname
      BY <1>5, Basics DEF Whole, Good, IsOpen, FtabType, PFftab_ele
    <3>2. CurrentHdr(fn) = PFftab[fd].hdr
      BY <3>1, ViewOpen DEF Whole, Good
    <3> QED  BY <1>5, <3>2, HeadIsFree DEF Whole, FreePages
  <2>3. p \notin Abstract!Used(fd) /\ p < PFftab[fd].hdr.numpages /\ <<fd, p>> \notin Pinned
    BY <1>5, <2>2, NotInUse
  <2> HIDE DEF p
  <2>4. ASSUME Moved, NEW o \in PFbufGet(fd, p), o.err # PFE_OK, ReturnPage(o.err, p)
        PROVE  Abstract!Alloc(fd)
    <3>1. \/ o.err = PFE_NOBUF /\ Cardinality(Pinned) = PF_MAX_BUFS
          \/ o.err \in Abstract!IOError
      BY <1>5, <2>2, <2>3, <2>4, GetErrors DEF Whole
    <3> QED  BY <1>4, <1>5, <2>2, <2>3, <2>4, <3>1, OpenAbstract
  <2> QED  BY <1>3, <2>1, <2>4
<1>6. CASE IsOpen(fd) /\ Alone(fd) /\ UNCHANGED touched
           /\ PFftab[fd].hdr.firstfree = PF_PAGE_LIST_END /\ Extend(fd)
  <2>1. \/ \E q \in PageNum : Extended(fd, q) /\ ReturnPage(PFE_OK, q)
        \/ Moved /\ \E p \in PageNum : /\ p = PFftab[fd].hdr.numpages
                                       /\ \E o \in PFbufAlloc(fd, p) :
                                            o.err # PFE_OK /\ ReturnPage(o.err, p)
    BY <1>6, ExtendShape DEF Whole, Good
  <2>2. ASSUME Moved, NEW p \in PageNum, p = PFftab[fd].hdr.numpages,
               NEW o \in PFbufAlloc(fd, p), o.err # PFE_OK, ReturnPage(o.err, p)
        PROVE  Abstract!Alloc(fd)
    <3>1. \/ o.err = PFE_NOBUF /\ Cardinality(Pinned) = PF_MAX_BUFS
          \/ o.err \in Abstract!IOError
      BY <1>6, <2>2, AllocErrors DEF Whole
    <3>2. p \notin Abstract!Used(fd)
      BY <1>6, <2>2, NotInUse
    <3> QED  BY <1>4, <1>6, <2>2, <3>1, <3>2, OpenAbstract
  <2> QED  BY <1>3, <2>1, <2>2
<1> QED
  BY <1>1, <1>5, <1>6 DEF PF_AllocPage, PFinvalidFd, IsOpen

(* A page put on the chain of free pages is in use no longer. *)
LEMMA FreedContents ==
    ASSUME Whole, Whole', NEW fd \in FD, NEW p \in PageNum, Freed(fd, p)
    PROVE  /\ Names' = Names /\ Openers' = Openers /\ Pinned' = Pinned
           /\ Contents' = [Contents EXCEPT ![Openers[fd]][p] = NULL]
           /\ p \in Abstract!Used(fd) /\ <<fd, p>> \notin Pinned
           /\ Cardinality(Pinned) < PF_MAX_BUFS
<1>1. IsOpen(fd) /\ ~PageAt(fd, p)'.fixed
  BY DEF Freed
<1>2. PICK fn : fn = PFftab[fd].fname
  OBVIOUS
<1>3. fn \in Fname /\ Openers[fd] = fn
  BY <1>1, <1>2, UsedPages DEF Whole
<1>4. ViewFrees(fn, p)
  BY <1>2, FreedView DEF Whole
<1>5. CurrentHdr(fn) = PFftab[fd].hdr /\ CurrentPage(fn, p) = Seen(fd, p)
  BY <1>2, <1>3, ViewOpen DEF Whole, Good
<1>6. p \in Abstract!Used(fd)
  BY <1>1, <1>4, <1>5, UsedPages DEF Whole, ViewFrees
<1>7. CurrentContent(fn)'[p] = NULL
  <2>1. CurrentHdr(fn).firstfree # PF_PAGE_USED
    BY <1>3, HeadIsFree DEF Whole, FreePages, PageNum, PF_PAGE_LIST_END, PF_PAGE_USED
  <2> QED  BY <1>4, <2>1 DEF ViewFrees, CurrentContent
<1>8. ViewEdited(fn, p, p, CurrentHdr(fn).numpages)
  BY <1>4 DEF ViewFrees
<1>9. Contents' = [Contents EXCEPT ![fn][p] = NULL]
  BY <1>3, <1>7, <1>8, EditedContents
<1> QED
  BY <1>1, <1>3, <1>6, <1>9, ServesPinned DEF Whole

LEMMA DisposeRefines ==
    ASSUME Whole, Whole', NEW fd \in FD, NEW p \in PageNum, PF_DisposePage(fd, p)
    PROVE  Abstract!Dispose(fd, p)
<1>1. CASE ArgumentError(fd, p) # PFE_OK /\ Fail(ArgumentError(fd, p))
  BY <1>1, FailHidden, ArgumentFails, SameConstants
  DEF Whole, Abstract!Dispose, Abstract!Refuse, Abstract!Returns, Hidden, Names, Contents, Openers
<1>2. ASSUME ArgumentError(fd, p) = PFE_OK, Alone(fd), UNCHANGED touched,
             NEW o \in PFbufGet(fd, p), disk' = o.disk,
             \/ /\ o.err # PFE_OK
                /\ buf' = o.buf
                /\ Return(o.err)
                /\ UNCHANGED PFftab
             \/ /\ o.err = PFE_OK
                /\ FpageOf(o.buf, fd, p).nextfree # PF_PAGE_USED
                /\ buf' = PFbufUnfix(o.buf, fd, p, FALSE)
                /\ Return(PFE_PAGEFREE)
                /\ UNCHANGED PFftab
             \/ /\ o.err = PFE_OK
                /\ FpageOf(o.buf, fd, p).nextfree = PF_PAGE_USED
                /\ buf' = Free(o.buf, fd, p)
                /\ PFftab' = ChangeHdr(fd, [PFftab[fd].hdr EXCEPT !.firstfree = p])
                /\ Return(PFE_OK)
      PROVE  Abstract!Dispose(fd, p)
  <2>1. IsOpen(fd) /\ Abstract!IsOpen(fd) /\ p < PFftab[fd].hdr.numpages
    BY <1>2, ArgumentsHold DEF Whole
  <2>2. \A code : Return(code) => ret' = [code |-> code, page |-> -1]
    BY DEF Return, ReturnPage
  <2>3. CASE o.err # PFE_OK /\ buf' = o.buf /\ Return(o.err) /\ UNCHANGED PFftab
    <3>1. /\ Hidden
          /\ \/ o.err = PFE_PAGEFIXED /\ <<fd, p>> \in Pinned
             \/ /\ <<fd, p>> \notin Pinned
                /\ \/ o.err = PFE_NOBUF /\ Cardinality(Pinned) = PF_MAX_BUFS
                   \/ o.err \in Abstract!IOError
      BY <1>2, <2>1, <2>3, GetRefines
    <3> QED  BY <2>1, <2>2, <2>3, <3>1, SameConstants, SameCardinality
             DEF Abstract!Dispose, Abstract!NoRoom, Abstract!Refuse,
                 Abstract!Returns, Hidden, Names, Contents, Openers
  <2>4. CASE /\ o.err = PFE_OK
             /\ FpageOf(o.buf, fd, p).nextfree # PF_PAGE_USED
             /\ buf' = PFbufUnfix(o.buf, fd, p, FALSE)
             /\ Return(PFE_PAGEFREE)
             /\ UNCHANGED PFftab
    <3>1. Hidden /\ p \notin Abstract!Used(fd)
      BY <1>2, <2>1, <2>4, GetRefines
    <3> QED  BY <2>1, <2>2, <2>4, <3>1, SameConstants
             DEF Abstract!Dispose, Abstract!Refuse, Abstract!Returns, Hidden, Names,
                 Contents, Openers
  <2>5. CASE /\ o.err = PFE_OK
             /\ FpageOf(o.buf, fd, p).nextfree = PF_PAGE_USED
             /\ buf' = Free(o.buf, fd, p)
             /\ PFftab' = ChangeHdr(fd, [PFftab[fd].hdr EXCEPT !.firstfree = p])
             /\ Return(PFE_OK)
    <3>1. Freed(fd, p)
      BY <1>2, <2>1, <2>5, FreeShape DEF Whole, Good
    <3>2. /\ Names' = Names /\ Openers' = Openers /\ Pinned' = Pinned
          /\ Contents' = [Contents EXCEPT ![Openers[fd]][p] = NULL]
          /\ p \in Abstract!Used(fd) /\ <<fd, p>> \notin Pinned
          /\ Cardinality(Pinned) < PF_MAX_BUFS
      BY <3>1, FreedContents
    <3> QED  BY <2>1, <2>2, <2>5, <3>2, SameConstants, SameCardinality
             DEF Abstract!Dispose, Abstract!Returns, Names, Contents, Openers
  <2> QED  BY <1>2, <2>3, <2>4, <2>5
<1> QED
  BY <1>1, <1>2 DEF PF_DisposePage

(* The errors of PF_UnfixPage and PF_MarkDirty. *)
LEMMA NotFixedRefines ==
    ASSUME Whole, NEW fd \in FD, NEW p \in PageNum, NotFixedError(fd, p) # PFE_OK,
           Fail(NotFixedError(fd, p))
    PROVE  Abstract!NotPinned(fd, p)
<1>1. Hidden /\ ret' = [code |-> NotFixedError(fd, p), page |-> -1]
  BY FailHidden
<1>2. CASE ArgumentError(fd, p) # PFE_OK
  <2>1. NotFixedError(fd, p) = ArgumentError(fd, p)
    BY <1>2 DEF NotFixedError
  <2>2. ASSUME <<fd, p>> \in Pinned, Abstract!IsOpen(fd) PROVE FALSE
    <3>1. p < PFftab[fd].hdr.numpages
      BY <2>2, PinnedPages DEF Whole, SizeInv, PagesInFile
    <3> QED  BY <1>2, <2>2, <3>1, ArgumentFails DEF Whole
  <2> QED  BY <1>1, <1>2, <2>1, <2>2, ArgumentFails, SameConstants
           DEF Whole, Abstract!NotPinned, Abstract!Refuse, Abstract!Returns, Hidden, Names,
               Contents, Openers
<1>3. CASE ArgumentError(fd, p) = PFE_OK
  <2>1. NotFixedError(fd, p) = NotFixed(buf, fd, p) /\ Abstract!IsOpen(fd)
    BY <1>3, ArgumentsHold DEF NotFixedError, Whole
  <2>2. NotFixed(buf, fd, p) \in {PFE_PAGENOTINBUF, PFE_PAGEUNFIXED}
    BY <2>1 DEF NotFixed
  <2>3. <<fd, p>> \notin Pinned
    BY <2>1 DEF Pinned, IsPinned
  <2> QED  BY <1>1, <2>1, <2>2, <2>3, SameConstants
           DEF Abstract!NotPinned, Abstract!Refuse, Abstract!Returns, Hidden, Names,
               Contents, Openers
<1> QED
  BY <1>2, <1>3

(* The page a call of PF_UnfixPage or PF_MarkDirty names is pinned. *)
LEMMA NotFixedHolds ==
    ASSUME NEW fd \in FD, NEW p \in PageNum, NotFixedError(fd, p) = PFE_OK
    PROVE  NotFixed(buf, fd, p) = PFE_OK
BY DEF NotFixedError

LEMMA UnfixRefines ==
    ASSUME Whole, Whole', NEW fd \in FD, NEW p \in PageNum, NEW dirty \in BOOLEAN,
           PF_UnfixPage(fd, p, dirty)
    PROVE  Abstract!Unpin(fd, p)
<1>1. CASE NotFixedError(fd, p) # PFE_OK /\ Fail(NotFixedError(fd, p))
  BY <1>1, NotFixedRefines DEF Abstract!Unpin
<1>2. CASE /\ NotFixedError(fd, p) = PFE_OK
           /\ \/ Undisciplined
              \/ dirty /\ Alone(fd)
              \/ ~dirty /\ PFhashFind(buf, fd, p) \notin touched
           /\ buf' = PFbufUnfix(buf, fd, p, dirty)
           /\ touched' = touched \ {PFhashFind(buf, fd, p)}
           /\ Return(PFE_OK)
           /\ UNCHANGED <<disk, PFftab>>
  <2>1. Unpinned(fd, p, dirty)
    BY <1>2, NotFixedHolds, UnfixShape DEF Whole, Good
  <2>2. OnFixed(fd, p) /\ ~PageAt(fd, p)'.fixed
    BY <2>1 DEF Unpinned
  <2>3. /\ <<fd, p>> \in Pinned /\ Pinned' = Pinned \ {<<fd, p>>}
        /\ Names' = Names /\ Openers' = Openers
    BY <2>2, OnFixedAbstract DEF Whole
  <2>4. Contents' = Contents
    BY <2>1, UnpinnedView, SameContents DEF Whole
  <2>5. ret' = [code |-> PFE_OK, page |-> -1]
    BY <1>2 DEF Return, ReturnPage
  <2> QED  BY <2>3, <2>4, <2>5, SameConstants
           DEF Abstract!Unpin, Abstract!Returns, Names, Contents, Openers
<1> QED
  BY <1>1, <1>2 DEF PF_UnfixPage

LEMMA MarkRefines ==
    ASSUME Whole, Whole', NEW fd \in FD, NEW p \in PageNum, PF_MarkDirty(fd, p)
    PROVE  Abstract!MarkDirty(fd, p)
<1>1. CASE NotFixedError(fd, p) # PFE_OK /\ Fail(NotFixedError(fd, p))
  BY <1>1, NotFixedRefines DEF Abstract!MarkDirty
<1>2. CASE /\ NotFixedError(fd, p) = PFE_OK
           /\ Alone(fd)
           /\ buf' = PFbufMarkDirty(buf, fd, p)
           /\ touched' = touched \ {PFhashFind(buf, fd, p)}
           /\ Return(PFE_OK)
           /\ UNCHANGED <<disk, PFftab>>
  <2>1. Marked(fd, p)
    BY <1>2, NotFixedHolds, MarkShape DEF Whole, Good
  <2>2. OnFixed(fd, p) /\ PageAt(fd, p)'.fixed
    BY <2>1 DEF Marked
  <2>3. /\ <<fd, p>> \in Pinned /\ Pinned' = Pinned
        /\ Names' = Names /\ Openers' = Openers
    BY <2>2, OnFixedAbstract DEF Whole
  <2>4. Contents' = Contents
    BY <2>1, UnpinnedView, SameContents DEF Whole
  <2>5. ret' = [code |-> PFE_OK, page |-> -1]
    BY <1>2 DEF Return, ReturnPage
  <2> QED  BY <2>3, <2>4, <2>5, SameConstants
           DEF Abstract!MarkDirty, Abstract!Refuse, Abstract!Returns, Names, Contents, Openers
<1> QED
  BY <1>1, <1>2 DEF PF_MarkDirty

LEMMA WriteRefines ==
    ASSUME Whole, Whole', NEW fd \in FD, NEW p \in PageNum, NEW d \in Data,
           ClientWrite(fd, p, d)
    PROVE  Abstract!Write(fd, p, d)
<1>1. Wrote(fd, p, d)
  BY WriteShape DEF Whole, Good
<1>2. OnFixed(fd, p) /\ PageAt(fd, p)'.fixed /\ IsOpen(fd)
  BY <1>1 DEF Wrote, OnFixed
<1>3. /\ <<fd, p>> \in Pinned /\ Pinned' = Pinned
      /\ Names' = Names /\ Openers' = Openers
  BY <1>2, OnFixedAbstract DEF Whole
<1>4. PICK fn : fn = PFftab[fd].fname
  OBVIOUS
<1>5. fn \in Fname /\ Openers[fd] = fn
  BY <1>2, <1>4, UsedPages DEF Whole
<1>6. ViewWrites(fn, p, d)
  BY <1>1, <1>4, WroteView DEF Whole
<1>7. CurrentHdr(fn) = PFftab[fd].hdr /\ CurrentPage(fn, p) = Seen(fd, p)
  BY <1>4, <1>5, ViewOpen DEF Whole, Good
<1>8. p < PFftab[fd].hdr.numpages
  BY <1>3, PinnedPages DEF Whole, SizeInv, PagesInFile
<1>9. Seen(fd, p).nextfree = PF_PAGE_USED
  BY <1>3, PinnedPages DEF Whole, Good, DiskInv, FixedPagesAreUsed, Seen
<1>10. CurrentContent(fn)'[p] = d
  BY <1>6, <1>7, <1>8, <1>9 DEF ViewWrites, ViewEdited, CurrentContent
<1>11. ViewEdited(fn, p, CurrentHdr(fn).firstfree, CurrentHdr(fn).numpages)
  BY <1>6 DEF ViewWrites
<1>12. Contents' = [Contents EXCEPT ![fn][p] = d]
  BY <1>5, <1>10, <1>11, EditedContents
<1>13. ret' = ret
  BY DEF ClientWrite
<1> QED
  BY <1>3, <1>5, <1>12, <1>13 DEF Abstract!Write, Names, Contents, Openers

-----------------------------------------------------------------------------
(* The initial states and the steps, together. *)

LEMMA InitRefines == PFInit => Abstract!PagedInit
<1> SUFFICES ASSUME PFInit PROVE Abstract!PagedInit
  OBVIOUS
<1>1. Names = {}
  BY DEF PFInit, Names, EmptyFile
<1>2. Openers = [fd \in FD |-> NULL]
  BY DEF PFInit, NoOpenFile, Openers
<1>3. Pinned = {}
  BY DEF PFInit, Pinned, IsPinned, NotFixed, PFhashFind, PFbufInit, PFE_OK, PFE_PAGENOTINBUF
<1>4. ASSUME NEW fn \in Fname PROVE CurrentContent(fn) = Abstract!NoPages
  <2>1. disk[fn].hdr.numpages = 0
    BY <1>4 DEF PFInit, EmptyFile, EmptyHdr
  <2>2. \A fd \in FD : PFftab[fd].fname # fn
    BY <1>4, PFAssumption DEF PFInit, NoOpenFile
  <2>3. CurrentHdr(fn).numpages = 0
    BY <1>4, <2>1, <2>2, ViewClosed
  <2>4. \A q \in PageNum : ~(q < 0)
    BY DEF PageNum
  <2> QED  BY <2>3, <2>4, SameConstants DEF CurrentContent, Abstract!NoPages
<1>5. Contents = [fn \in Fname |-> Abstract!NoPages]
  BY <1>4 DEF Contents
<1>6. ret = [code |-> PFE_OK, page |-> -1]
  BY DEF PFInit
<1> QED
  BY <1>1, <1>2, <1>3, <1>5, <1>6, SameConstants DEF Abstract!PagedInit, Names, Contents, Openers

(* Unseen is a stutter of Abstract. *)
LEMMA UnseenStutters ==
    ASSUME Unseen
    PROVE  UNCHANGED Abstract!pagedvars
BY DEF Unseen, Hidden, Names, Contents, Openers, Abstract!pagedvars

LEMMA NextRefines ==
    ~Undisciplined /\ Whole /\ Whole' /\ [PFNext]_pfvars =>
      [Abstract!PagedNext]_(Abstract!pagedvars)
<1> SUFFICES ASSUME ~Undisciplined, Whole, Whole', [PFNext]_pfvars
             PROVE  Abstract!PagedNext \/ UNCHANGED Abstract!pagedvars
  OBVIOUS
<1> DEFINE Goal == Abstract!PagedNext \/ UNCHANGED Abstract!pagedvars
<1>0. \A fd \in FD : Abstract!Close(fd) => Goal
  BY SameConstants DEF Abstract!PagedNext
<1>1. ASSUME NEW fn \in Fname, PF_CreateFile(fn) PROVE Goal
  BY <1>1, CreateRefines DEF Abstract!PagedNext
<1>2. ASSUME NEW fn \in Fname, PF_DestroyFile(fn) PROVE Goal
  BY <1>2, DestroyRefines DEF Abstract!PagedNext
<1>3. ASSUME NEW fn \in Fname, NEW strategy \in PF_Strategy, PF_OpenFile(fn, strategy)
      PROVE  Goal
  BY <1>3, OpenRefines DEF Abstract!PagedNext
<1>4. ASSUME NEW fd \in FD, PF_CloseFile(fd) PROVE Goal
  BY <1>4, CloseFileRefines, UnseenStutters, SameConstants DEF Abstract!PagedNext
<1>5. ASSUME PFbufReleaseFile PROVE Goal
  <2>1. call.fd \in FD
    BY <1>5, LoopOpen DEF PFbufReleaseFile, Whole, Good
  <2>2. Abstract!Close(call.fd) \/ Unseen
    BY <1>5, ReleaseRefines
  <2>3. Abstract!Close(call.fd) => Goal
    BY <1>0, <2>1 DEF Abstract!Close, Abstract!Refuse, Abstract!IsOpen
  <2> QED  BY <2>2, <2>3, UnseenStutters
<1>6. ASSUME FinishClose PROVE Goal
  <2>1. call.fd \in FD
    BY <1>6, LoopOpen DEF FinishClose, Whole, Good
  <2>2. Abstract!Close(call.fd)
    BY <1>6, FinishRefines
  <2>3. Abstract!Close(call.fd) => Goal
    BY <1>0, <2>1 DEF Abstract!Close, Abstract!Refuse, Abstract!IsOpen
  <2> QED  BY <2>2, <2>3
<1>7. ASSUME NEW fd \in FD, NEW q \in -2 .. MaxPages, PF_GetNextPage(fd, q) PROVE Goal
  BY <1>7, GetNextRefines, UnseenStutters, SameConstants DEF Abstract!PagedNext
<1>8. ASSUME NextPageStep PROVE Goal
  <2>1. call.fd \in FD
    BY <1>8, LoopOpen DEF NextPageStep, Whole, Good
  <2> QED  BY <1>8, <2>1, NextPageRefines, UnseenStutters, SameConstants DEF Abstract!PagedNext
<1>9. ASSUME EndOfFile PROVE Goal
  <2>1. call.fd \in FD
    BY <1>9, LoopOpen DEF EndOfFile, Whole, Good
  <2> QED  BY <1>9, <2>1, EndOfFileRefines, SameConstants DEF Abstract!PagedNext
<1>10. ASSUME NEW fd \in FD, NEW p \in PageNum, PF_GetThisPage(fd, p) PROVE Goal
  BY <1>10, GetThisRefines, SameConstants DEF Abstract!PagedNext
<1>11. ASSUME NEW fd \in FD, PF_AllocPage(fd) PROVE Goal
  BY <1>11, AllocRefines, SameConstants DEF Abstract!PagedNext
<1>12. ASSUME NEW fd \in FD, NEW p \in PageNum, PF_DisposePage(fd, p) PROVE Goal
  BY <1>12, DisposeRefines, SameConstants DEF Abstract!PagedNext
<1>13. ASSUME NEW fd \in FD, NEW p \in PageNum, NEW dirty \in BOOLEAN,
              PF_UnfixPage(fd, p, dirty)
       PROVE  Goal
  BY <1>13, UnfixRefines, SameConstants DEF Abstract!PagedNext
<1>14. ASSUME NEW fd \in FD, NEW p \in PageNum, PF_MarkDirty(fd, p) PROVE Goal
  BY <1>14, MarkRefines, SameConstants DEF Abstract!PagedNext
<1>15. ASSUME NEW fd \in FD, NEW p \in PageNum, NEW d \in Data, ClientWrite(fd, p, d) PROVE Goal
  BY <1>15, WriteRefines, SameConstants DEF Abstract!PagedNext
<1>16. ASSUME UNCHANGED pfvars PROVE Goal
  BY <1>16, StillHidden, UnseenStutters DEF pfvars, Still, Unseen
<1> HIDE DEF Goal
<1>17. ASSUME PFNext PROVE Goal
  BY <1>1, <1>2, <1>3, <1>4, <1>5, <1>6, <1>7, <1>8, <1>9, <1>10, <1>11, <1>12, <1>13, <1>14,
     <1>15, <1>17 DEF PFNext
<1> QED
  BY <1>16, <1>17 DEF Goal

(***************************************************************************)
(* The layer implements PagedFile: to a client that follows its rules the  *)
(* frames, their eviction, the chain of free pages and the headers kept in *)
(* memory cannot be told from files that are sets of pages, of which at    *)
(* most PF_MAX_BUFS are pinned at a time, whatever fails underneath.       *)
(***************************************************************************)
THEOREM PoolImplementsPagedFile ==
    ASSUME ~Undisciplined
    PROVE  PFSpec => ImplementsPagedFile
<1>1. PFSpec => []Whole
  BY WholeInvariance DEF Whole
<1>2. Whole /\ Whole' /\ [PFNext]_pfvars => [Abstract!PagedNext]_(Abstract!pagedvars)
  BY NextRefines
<1> QED
  BY <1>1, <1>2, InitRefines, PTL DEF PFSpec, ImplementsPagedFile, Abstract!PagedSpec
=============================================================================
