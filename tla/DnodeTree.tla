------------------------------ MODULE DnodeTree ------------------------------
(***************************************************************************)
(* A dnode and the tree of blocks under it (core/src/dnode.rs, blkptr.rs,  *)
(* read.rs), as FileContent and Extents walk it.                           *)
(*                                                                         *)
(* Lengths are in units of 512 bytes, the smallest a hole or a block can   *)
(* have and the size of a dnode slot.  A block pointer is a hole with its  *)
(* own LSIZE, or names a block; a block read_block cannot read is absent   *)
(* from blocks.  A block has its units, and its bytes parsed as pointers   *)
(* (kids), which exist whether or not it was written as an indirect block. *)
(* The pool has one byte order.                                            *)
(***************************************************************************)
EXTENDS Integers, FiniteSets, Lists

CONSTANTS
  Unit,        \* what the 512 bytes of a unit may be
  Zero,        \* zero bytes, also a DMU_OT_NONE dnode slot
  PtrsPerUnit, \* pointers in a unit; 4 in the code
  MaxLevels    \* MAX_INDIRECT_LEVELS, 8 in the code

ASSUME TreeAssumption == {PtrsPerUnit, MaxLevels} \subseteq Nat \ {0}
ASSUME UnitAssumption == Zero \in Unit

VARIABLE d     \* the image and the dnode

\* at: the first copy is at DVA[0], only further copies are used, or the payload
\* is inline.
Hole(n) == [hole |-> TRUE, lsize |-> n, to |-> 0, at |-> "nowhere"]
Ptr(id) == [hole |-> FALSE, lsize |-> 0, to |-> id, at |-> "first"]
Ditto(id) == [Ptr(id) EXCEPT !.at = "ditto"]
Inline(id) == [Ptr(id) EXCEPT !.at = "inline"]

Bp == [hole: BOOLEAN, lsize: Nat, to: Nat, at: {"nowhere", "first", "ditto", "inline"}]

\* A pointer of the dnode or of an indirect block.
Pointer == {b \in Bp : b.hole <=> b.at = "nowhere"}

\* shift: log2 of the pointers per indirect block; top: dn_blkptr; bs: units per
\* data block.  No block has the id 0.
IsDnode(c) ==
  /\ {c.nlevels, c.shift, c.maxblkid, c.bs} \subseteq Nat
  /\ c.top \in Seq(Pointer)
  /\ 0 \notin DOMAIN c.blocks
  /\ \A id \in DOMAIN c.blocks : c.blocks[id].kids \in Seq(Pointer) /\ c.blocks[id].units \in Seq(Unit)

\* read_block: Ok, and the units it returns.
Readable(b) == b.hole \/ b.to \in DOMAIN d.blocks

Data(b) == IF b.hole THEN [k \in 1..b.lsize |-> Zero] ELSE d.blocks[b.to].units

\* The block's bytes as block pointers; zero bytes are holes of one unit.
Kids(b) ==
  IF b.hole THEN [k \in 1..b.lsize * PtrsPerUnit |-> Hole(1)] ELSE d.blocks[b.to].kids

Fanout == 2^d.shift

\* Mutant: dn_nlevels is not capped.
LevelsUncapped == d.nlevels

Levels == IF d.nlevels < MaxLevels THEN d.nlevels ELSE MaxLevels

-----------------------------------------------------------------------------
(***************************************************************************)
(* Reference: the tree's leaves, left to right.                            *)
(***************************************************************************)
\* A pointer that is not there.
Lost == [Ptr(0) EXCEPT !.at = "nowhere"]

\* What an indirect block stands for: Fanout pointers.
Children(b) ==
  [k \in 1..Fanout |->
     IF b.hole THEN b ELSE IF Readable(b) /\ k <= Len(Kids(b)) THEN Kids(b)[k] ELSE Lost]

\* Pointers k levels below the dnode's, in order.
Layer[k \in 0..MaxLevels - 1] ==
  IF k = 0 THEN d.top
  ELSE FlattenSeq([i \in DOMAIN Layer[k - 1] |-> Children(Layer[k - 1][i])])

Leaf(b) == IF b < Len(Layer[Levels - 1]) THEN Layer[Levels - 1][b + 1] ELSE Lost
=============================================================================
