--------------------------- MODULE MCFileContent ---------------------------
(***************************************************************************)
(* Trees over five blocks: 1 and 2 hold data, 3 and 4 pointers, 5 cannot   *)
(* be read.  Block 3 is a bottom indirect block; 4 may point at 3, which   *)
(* makes a tree of three levels.  Blocks are two units long and a unit     *)
(* holds one pointer, so an indirect block has exactly two.  Holes have    *)
(* the length of one unit (no LSIZE recorded) or two.  dn_nlevels may lie, *)
(* and so may the fan-out.                                                 *)
(***************************************************************************)
EXTENDS FileContent

Units == {Zero} \cup (1..4) \X (1..2)

Two(id) == <<<<id, 1>>, <<id, 2>>>>

Blocks ==
  {[i \in 1..4 |->
      [units |-> IF i = 2 THEN <<<<2, 1>>, Zero>> ELSE Two(i),
       kids |-> CASE i = 3 -> k3 [] i = 4 -> k4 [] OTHER -> <<Hole(2), Hole(2)>>]] :
     k3 \in [1..2 -> {Hole(1), Hole(2), Ptr(1), Ptr(2), Ptr(5)}],
     k4 \in [1..2 -> {Hole(1), Ptr(3), Ptr(1)}]}

Tops == {<<Hole(1)>>, <<Ptr(1)>>, <<Ptr(3)>>, <<Ptr(4)>>, <<Ptr(5)>>, <<Ptr(3), Ptr(4)>>,
         <<Hole(1), Ptr(3)>>, <<Ptr(1), Ptr(2), Ptr(3)>>}

Requests ==
  {[what |-> "content", size |-> n] : n \in {NoSize, 3}}
    \cup {[what |-> "slot", obj |-> o] : o \in {1, 4, 7}}

Trees(levels, shifts, maxblkids, sizes, blocks) ==
  [nlevels: levels, shift: shifts, maxblkid: maxblkids, bs: sizes, top: Tops,
   blocks: blocks, request: Requests]

AllCases ==
  Trees(1..3, {1}, {1, 3}, {2}, Blocks)
    \cup Trees({0, 2, 4}, {0, 1, 2}, {2}, {0, 1, 2},
               {b \in Blocks : b[3].kids[2] = Ptr(2) /\ b[4].kids[2] = Ptr(3)})
=============================================================================
