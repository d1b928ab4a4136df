----------------------------- MODULE MCExtents -----------------------------
(***************************************************************************)
(* Trees over four blocks of two pointers: 1 and 2 hold data, 3 and 4      *)
(* pointers, and 5 cannot be read.  Block 4 may point at 3, which makes    *)
(* three levels, and 3 at itself; dn_nlevels may lie in either direction.  *)
(* With MaxRuns = 3 a level may be cut above the leaves and at them.       *)
(***************************************************************************)
EXTENDS Extents

Units == {Zero}

Data2 == [units |-> <<Zero, Zero>>, kids |-> <<Hole(1), Hole(1)>>]

Blocks ==
  {[id \in 1..4 |->
      CASE id = 3 -> [Data2 EXCEPT !.kids = k3]
        [] id = 4 -> [Data2 EXCEPT !.kids = k4]
        [] OTHER -> Data2] :
     k3 \in [1..2 -> {Hole(1), Ptr(1), Ptr(2), Ptr(3), Ditto(2), Inline(1)}],
     k4 \in [1..2 -> {Hole(2), Ptr(3), Ptr(5), Inline(3)}]}

Tops == {<<Hole(1)>>, <<Ptr(3)>>, <<Ptr(4)>>, <<Ptr(5), Ptr(3)>>, <<Ptr(4), Ptr(5), Ptr(4)>>,
         <<Hole(2), Ditto(4), Ptr(3)>>, <<Ptr(1), Inline(2), Ptr(2)>>}

AllCases ==
  [nlevels: 0..4, shift: {1}, maxblkid: {3}, bs: {2}, top: Tops, blocks: Blocks]
=============================================================================
