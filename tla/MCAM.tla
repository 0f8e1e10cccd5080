-------------------------------- MODULE MCAM --------------------------------
(* AMProps for TLC: values for its constants, and a view of its states. *)
EXTENDS AMProps
CONSTANTS r1, r2
OneRec == {r1}
TwoRec == {r1, r2}
Values2 == 1 .. 2
Values5 == 1 .. 5
Values7 == 1 .. 7

(* What later steps depend on.  Of a sound leaf they depend on the lists,  *)
(* the number of cells taken and of free ones, not on which cells these    *)
(* are; no step reads ret.                                                 *)
LeafView(l) ==
    IF LeafSound(l)
    THEN <<l.nextLeafPage, Values(l), [i \in DOMAIN l.keys |-> RecIds(l, i)],
           l.recIdPtr, l.numinfreeList>>
    ELSE <<l>>

Observable ==
    <<status, numpages, pinned, others, stack, call,
      [p \in Pages |-> IF page[p].pageType = "l" THEN LeafView(page[p]) ELSE page[p]]>>
=============================================================================
