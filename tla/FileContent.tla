----------------------------- MODULE FileContent -----------------------------
(***************************************************************************)
(* Logical block addressing: read_dnode_data (core/src/read.rs) descends   *)
(* the indirect-block tree of a dnode to logical block blkid, and its      *)
(* callers put the blocks together: zpl_read_file_with (core/src/zpl.rs)   *)
(* and read_zap_object (core/src/zap.rs) concatenate blocks 0..maxblkid,   *)
(* mos_dnode takes one 512-byte slot out of one block.                     *)
(***************************************************************************)
EXTENDS DnodeTree

CONSTANTS
  NoSize,      \* no attributes: the object's logical size is not known
  Cases,       \* images with a dnode and a request
  MaxUnits,    \* MAX_FILE_BYTES; read_zap_object has its own, of 64 MiB
  Width        \* bits of a blkid, 64 in the code

\* A request: the whole content, cut to size, or the dnode slot of an object.
Request == [what: {"content"}, size: Nat \cup {NoSize}] \cup [what: {"slot"}, obj: Nat]

IsCase(c) ==
  /\ IsDnode(c)
  /\ c.maxblkid < 2^Width
  /\ c.request \in Request

ASSUME BoundsAssumption == Width \in Nat \ {0} /\ MaxUnits \in Nat
ASSUME NoSizeAssumption == NoSize \notin Nat
ASSUME CasesAssumption == \A c \in Cases : IsCase(c)

VARIABLES
  pc,        \* "block" (the next blkid), "descend", "leaf", "returned"
  blkid,
  level,     \* the level of bp
  bp,
  out,       \* the units read
  result     \* "pending", "ok", "err", "panic"

vars == <<d, pc, blkid, level, bp, out, result>>

-----------------------------------------------------------------------------
TopLevel == Levels - 1

TopShift == TopLevel * d.shift

\* A shift by Width or more panics in a build with overflow checks; in one
\* without, the amount is taken modulo Width.
ShiftRight(n, s) == n \div 2^(s % Width)

\* Mutant: dn_maxblkid taken for the number of blocks.
NBlocksExclusive ==
  LET cap == IF d.bs > MaxUnits THEN 1 ELSE MaxUnits \div d.bs
  IN  IF d.maxblkid < cap THEN d.maxblkid ELSE cap

\* Blocks to read: all, within the cap, or the one that holds the slot.
NBlocks ==
  LET cap == IF d.bs > MaxUnits THEN 1 ELSE MaxUnits \div d.bs
  IN  IF d.maxblkid + 1 < cap THEN d.maxblkid + 1 ELSE cap

FirstBlock == IF d.request.what = "slot" /\ d.bs # 0 THEN d.request.obj \div d.bs ELSE 0

LastBlock == IF d.request.what = "slot" THEN FirstBlock ELSE NBlocks - 1

Init ==
  /\ d \in Cases
  /\ pc = "block"
  /\ blkid = FirstBlock
  /\ level = 0
  /\ bp = Hole(1)
  /\ out = <<>>
  /\ result = "pending"

Return(r) ==
  /\ result' = r
  /\ pc' = "returned"
  /\ UNCHANGED <<d, blkid, level, bp>>

\* An error anywhere discards what was read: `?`, or None from mos_dnode.
Fail(r) == out' = <<>> /\ Return(r)

\* The caller refuses a data block size of zero.
RefuseBlockSize ==
  /\ pc = "block"
  /\ d.bs = 0
  /\ Fail("err")

AtBlock == pc = "block" /\ d.bs # 0 /\ blkid <= LastBlock

Addressable == d.nlevels # 0 /\ blkid <= d.maxblkid

\* OutOfRange: no levels, or a block beyond dn_maxblkid.
RefuseBlock ==
  /\ AtBlock
  /\ ~Addressable
  /\ Fail("err")

ShiftPanics ==
  /\ AtBlock
  /\ Addressable
  /\ TopShift >= Width
  /\ Fail("panic")

\* Mutant: the top index is masked like the indices below it.
TopIndexMasked == ShiftRight(blkid, TopShift) % Fanout

TopIndex == ShiftRight(blkid, TopShift)

TopMissing ==
  /\ AtBlock
  /\ Addressable
  /\ TopIndex >= Len(d.top)
  /\ Fail("err")

FromTop ==
  /\ AtBlock
  /\ Addressable
  /\ TopIndex < Len(d.top)
  /\ bp' = d.top[TopIndex + 1]
  /\ level' = TopLevel
  /\ pc' = IF TopLevel = 0 THEN "leaf" ELSE "descend"
  /\ UNCHANGED <<d, blkid, out, result>>

-----------------------------------------------------------------------------
\* Mutant: the index of the level above.
ChildIndexAbove == ShiftRight(blkid, level * d.shift) % Fanout

\* (blkid >> shift * (level - 1)) & (ptrs_per_indirect - 1)
ChildIndex == ShiftRight(blkid, (level - 1) * d.shift) % Fanout

Unreadable ==
  /\ pc \in {"descend", "leaf"}
  /\ ~Readable(bp)
  /\ Fail("err")

ChildMissing ==
  /\ pc = "descend"
  /\ Readable(bp)
  /\ ChildIndex >= Len(Kids(bp))
  /\ Fail("err")

\* A hole ends the descent at whatever level it is.
Descend ==
  /\ pc = "descend"
  /\ Readable(bp)
  /\ ChildIndex < Len(Kids(bp))
  /\ bp' = Kids(bp)[ChildIndex + 1]
  /\ level' = level - 1
  /\ pc' = IF level = 1 \/ Kids(bp)[ChildIndex + 1].hole THEN "leaf" ELSE "descend"
  /\ UNCHANGED <<d, blkid, out, result>>

\* extend_from_slice, and the next block.
ReadLeaf ==
  /\ pc = "leaf"
  /\ d.request.what = "content"
  /\ Readable(bp)
  /\ out' = out \o Data(bp)
  /\ blkid' = blkid + 1
  /\ pc' = "block"
  /\ UNCHANGED <<d, level, bp, result>>

\* All blocks read: the content is truncated to the logical size, if known.
ReturnContent ==
  /\ pc = "block"
  /\ d.request.what = "content"
  /\ d.bs # 0
  /\ blkid > LastBlock
  /\ out' = IF d.request.size = NoSize \/ d.request.size >= Len(out) THEN out
            ELSE SubSeq(out, 1, d.request.size)
  /\ Return("ok")

\* mos_dnode slices the slot out of the block; an empty slot is None.
Slot == (d.request.obj % d.bs) + 1

ReturnSlot ==
  /\ pc = "leaf"
  /\ d.request.what = "slot"
  /\ Readable(bp)
  /\ IF Slot \in DOMAIN Data(bp) /\ Data(bp)[Slot] # Zero
     THEN out' = <<Data(bp)[Slot]>> /\ Return("ok")
     ELSE Fail("err")

Returned == pc = "returned" /\ UNCHANGED vars

Next ==
  \/ RefuseBlockSize
  \/ RefuseBlock
  \/ ShiftPanics
  \/ TopMissing
  \/ FromTop
  \/ Unreadable
  \/ ChildMissing
  \/ Descend
  \/ ReadLeaf
  \/ ReturnContent
  \/ ReturnSlot
  \/ Returned

\* One thread that nothing blocks: a step it can take, it takes.
Spec == Init /\ [][Next]_vars /\ WF_vars(Next)
-----------------------------------------------------------------------------
(***************************************************************************)
(* Reference: what the tree's leaves hold, left to right.                  *)
(***************************************************************************)
\* A tree no deeper than the reader follows, all of it within reach of a blkid.
WellFormed == d.nlevels \in 1..MaxLevels /\ TopShift < Width /\ d.bs # 0

ContentRead == pc = "returned" /\ d.request.what = "content" /\ WellFormed

\* The blocks of the file that lie within the cap, the first in any case.
Leaves == {b \in 0..d.maxblkid : b = 0 \/ (b + 1) * d.bs <= MaxUnits}

AllData ==
  FlattenSeq([i \in 1..Cardinality(Leaves) |->
                IF Readable(Leaf(i - 1)) THEN Data(Leaf(i - 1)) ELSE <<>>])

Stored(s) == Those(s, Unit \ {Zero})

-----------------------------------------------------------------------------
(***************************************************************************)
(* Properties                                                              *)
(***************************************************************************)
\* The types of the reader's variables.
TypeOK ==
  /\ IsCase(d)
  /\ pc \in {"block", "descend", "leaf", "returned"}
  /\ blkid \in Nat
  /\ level \in 0..MaxLevels - 1
  /\ bp \in Bp
  /\ Len(out) \in Nat
  /\ result \in {"pending", "ok", "err", "panic"}

\* A tree without holes is read whole or not at all: the shift-and-mask paths
\* visit its leaves left to right, each once, and one leaf that cannot be
\* reached or read fails the call.
WholeContent ==
  ContentRead /\ (\A b \in Leaves : ~Leaf(b).hole) =>
    IF \A b \in Leaves : Readable(Leaf(b))
    THEN /\ result = "ok"
         /\ out = IF d.request.size = NoSize \/ d.request.size >= Len(AllData) THEN AllData
                  ELSE SubSeq(AllData, 1, d.request.size)
    ELSE result = "err"

\* With holes anywhere, and whatever length they read as, the stored data that
\* is returned is the file's, in order, with nothing left out or repeated.
StoredDataInOrder ==
  ContentRead /\ result = "ok" =>
    /\ IsPrefix(Stored(out), Stored(AllData))
    /\ d.request.size = NoSize => Stored(out) = Stored(AllData)

\* mos_dnode finds object obj in the slot a reader of the whole meta-dnode would
\* find it in, and nowhere else; None means that slot is empty or out of reach.
SlotIsRight ==
  pc = "returned" /\ d.request.what = "slot" /\ WellFormed =>
    LET leaf == Leaf(FirstBlock)
        there == /\ FirstBlock <= d.maxblkid
                 /\ ~leaf.hole /\ Readable(leaf)
                 /\ Slot \in DOMAIN Data(leaf) /\ Data(leaf)[Slot] # Zero
    IN  IF there THEN result = "ok" /\ out = <<Data(leaf)[Slot]>> ELSE result = "err"

\* "all blocks share one dblk size, so leaf block n sits at n * block_size in the
\* concatenated buffer" (core/src/zap.rs:30-31).
ContentIsPlaced ==
  ContentRead /\ result = "ok" =>
    \A j \in DOMAIN out :
      LET leaf == Leaf((j - 1) \div d.bs)
          k == ((j - 1) % d.bs) + 1
      IN  out[j] = IF leaf.hole THEN Zero ELSE Data(leaf)[k]
=============================================================================
