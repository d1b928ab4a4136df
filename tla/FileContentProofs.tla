-------------------------- MODULE FileContentProofs --------------------------
(***************************************************************************)
(* Theorems about reading an object's blocks (core/src/read.rs:153-241,    *)
(* core/src/zpl.rs:171-206): the shifts and masks of read_dnode_data reach *)
(* the block they should, so a file is read whole and in order, and a      *)
(* dnode is found in its own slot.                                         *)
(***************************************************************************)
EXTENDS FileContent, DnodeTreeProofs

(***************************************************************************)
(* The way down.                                                           *)
(***************************************************************************)

\* The pointer over logical block b, k levels below the dnode's own: its index.
At(b, k) == b \div 2^((TopLevel - k) * d.shift)

InTree(b, k) == At(b, k) < Len(Layer[k])

Over(b, k) == Layer[k][At(b, k) + 1]

\* A tree the reader can follow has between one level and all (read.rs:154-168).
LEMMA LevelFacts ==
  ASSUME IsDnode(d), WellFormed
  PROVE  /\ TopLevel \in 0 .. MaxLevels - 1
         /\ d.shift \in Nat
         /\ d.bs \in Nat \ {0}
         /\ TopLevel + 1 = Levels
<1>1. d.nlevels \in 1 .. MaxLevels /\ d.bs # 0 /\ d.bs \in Nat /\ d.shift \in Nat
  BY DEF IsDnode, WellFormed
<1>2. Levels = d.nlevels
  BY <1>1, TreeAssumption DEF Levels
<1> QED
  BY <1>1, <1>2, TreeAssumption DEF TopLevel

\* A shift that fits the width is exact (read.rs:178-179, read.rs:191-192).
LEMMA Shifts ==
  ASSUME IsDnode(d), WellFormed, NEW b \in Nat, NEW k \in 0 .. TopLevel
  PROVE  /\ ShiftRight(b, (TopLevel - k) * d.shift) = At(b, k)
         /\ At(b, k) \in Nat
<1>1. TopLevel \in Nat /\ d.shift \in Nat /\ k \in Nat
  BY LevelFacts
<1>2. \A x, y, z \in Nat : x <= y => x * z <= y * z /\ x * z \in Nat
  OBVIOUS
<1>3. TopLevel - k \in Nat /\ TopLevel - k <= TopLevel
  BY <1>1
<1>4. (TopLevel - k) * d.shift \in Nat /\ (TopLevel - k) * d.shift <= TopLevel * d.shift
  BY <1>1, <1>2, <1>3
<1>5. TopLevel * d.shift < Width /\ TopLevel * d.shift \in Nat
  BY <1>1, <1>2 DEF WellFormed, TopShift
<1>s. PICK s : s = (TopLevel - k) * d.shift
  OBVIOUS
<1>6. s \in Nat /\ s < Width
  <2>1. \A x, y \in Nat : x <= y /\ y < Width => x < Width
    BY BoundsAssumption
  <2> QED
    BY <1>s, <1>4, <1>5, <2>1
<1>7. s % Width = s
  BY <1>6, BoundsAssumption
<1>8. 2^s \in Nat \ {0}
  BY <1>6, PowerStep
<1>9. b \div 2^s \in Nat
  BY <1>8, StepsBelow
<1> QED
  BY <1>s, <1>7, <1>9 DEF ShiftRight, At

\* The index one level up drops one mask's worth of bits (read.rs:191-192).
LEMMA IndexAbove ==
  ASSUME IsDnode(d), WellFormed, NEW b \in Nat, NEW k \in 0 .. TopLevel - 1
  PROVE  At(b, k) = At(b, k + 1) \div Fanout
<1>1. TopLevel \in Nat /\ d.shift \in Nat /\ k \in Nat /\ k \in 0 .. TopLevel /\ k + 1 \in 0 .. TopLevel
  BY LevelFacts
<1>n. PICK n : n = TopLevel - (k + 1)
  OBVIOUS
<1>2. n \in Nat /\ TopLevel - k = n + 1
  BY <1>1, <1>n
<1>3. \A x, y \in Nat : (x + 1) * y = x * y + y /\ x * y \in Nat
  OBVIOUS
<1>4. n * d.shift \in Nat /\ (TopLevel - k) * d.shift = n * d.shift + d.shift
  BY <1>1, <1>2, <1>3
<1>5. 2^((TopLevel - k) * d.shift) = 2^(n * d.shift) * 2^d.shift
  BY <1>1, <1>4, PowerSum
<1>6. 2^(n * d.shift) \in Nat \ {0} /\ 2^d.shift \in Nat \ {0}
  BY <1>1, <1>4, PowerStep
<1>7. (b \div 2^(n * d.shift)) \div 2^d.shift = b \div (2^(n * d.shift) * 2^d.shift)
  BY <1>6, TwoSteps
<1> QED
  BY <1>n, <1>5, <1>7 DEF At, Fanout

\* The last level is indexed by the block itself.
LEMMA IndexOfLeaf ==
  ASSUME IsDnode(d), WellFormed, NEW b \in Nat
  PROVE  At(b, TopLevel) = b
<1>1. TopLevel \in Nat /\ d.shift \in Nat
  BY LevelFacts
<1>2. (TopLevel - TopLevel) * d.shift = 0
  BY <1>1
<1>3. 2^0 = 1 /\ b \div 1 = b
  BY PowerStep
<1> QED
  BY <1>2, <1>3 DEF At

\* One step down: the pointer below is the child the mask picks.
LEMMA OneDown ==
  ASSUME IsDnode(d), WellFormed, NEW b \in Nat, NEW k \in 0 .. TopLevel - 1
  PROVE  /\ InTree(b, k + 1) <=> InTree(b, k)
         /\ At(b, k + 1) % Fanout \in 0 .. Fanout - 1
         /\ InTree(b, k) => Over(b, k) \in Bp
         /\ InTree(b, k) =>
              Over(b, k + 1) = Children(Over(b, k))[(At(b, k + 1) % Fanout) + 1]
<1>1. TopLevel \in 0 .. MaxLevels - 1 /\ MaxLevels \in Nat
  BY LevelFacts, TreeAssumption
<1>2. /\ k \in Nat /\ k \in 0 .. TopLevel /\ k + 1 \in 0 .. TopLevel /\ k + 1 # 0 /\ (k + 1) - 1 = k
      /\ k \in 0 .. MaxLevels - 1 /\ k + 1 \in 0 .. MaxLevels - 1
  BY <1>1
<1>f. PICK F : F = Fanout
  OBVIOUS
<1>3. F \in Nat \ {0}
  BY <1>f, PowerStep DEF Fanout, IsDnode
<1>r. PICK row : row = Layer[k]
  OBVIOUS
<1>4. row \in Seq(Bp)
  BY <1>r, <1>2, LayerTypes
<1>5. Layer[k + 1] = FlattenSeq([i \in DOMAIN row |-> Children(row[i])])
  BY <1>r, <1>2, LayerIs DEF Below
<1>6. /\ Len(Layer[k + 1]) = F * Len(row)
      /\ \A j \in 0 .. F * Len(row) - 1 : Layer[k + 1][j + 1] = Children(row[j \div F + 1])[(j % F) + 1]
  BY <1>f, <1>4, <1>5, ChildrenInOrder
<1>j. PICK j : j = At(b, k + 1)
  OBVIOUS
<1>7. j \in Nat /\ At(b, k) = j \div F
  BY <1>f, <1>j, <1>2, Shifts, IndexAbove
<1>8. Len(row) \in Nat
  BY <1>4
<1>9. (j < F * Len(row) <=> j \div F < Len(row)) /\ j \div F \in Nat /\ j % F \in 0 .. F - 1
  BY <1>3, <1>7, <1>8, StepsBelow
<1>10. InTree(b, k + 1) <=> InTree(b, k)
  BY <1>6, <1>7, <1>9, <1>j, <1>r DEF InTree
<1>11. ASSUME InTree(b, k) PROVE Over(b, k) \in Bp
  <2>1. j \div F + 1 \in 1 .. Len(row)
    BY <1>7, <1>8, <1>9, <1>11, <1>r DEF InTree
  <2>2. Over(b, k) = row[j \div F + 1]
    BY <1>7, <1>r DEF Over
  <2> HIDE DEF Bp
  <2> QED
    BY <1>4, <2>1, <2>2
<1>12. ASSUME InTree(b, k)
       PROVE  Over(b, k + 1) = Children(Over(b, k))[(j % F) + 1]
  <2>1. j \in 0 .. F * Len(row) - 1
    <3>1. F * Len(row) \in Nat
      BY <1>3, <1>8
    <3>2. j < F * Len(row)
      BY <1>9, <1>7, <1>12, <1>r DEF InTree
    <3> QED
      BY <1>7, <3>1, <3>2
  <2>2. Layer[k + 1][j + 1] = Children(row[j \div F + 1])[(j % F) + 1]
    BY <1>6, <2>1, Zenon
  <2>3. Over(b, k) = row[j \div F + 1] /\ Over(b, k + 1) = Layer[k + 1][j + 1]
    BY <1>7, <1>r, <1>j DEF Over
  <2> QED
    BY <2>2, <2>3, Zenon
<1> QED
  BY <1>9, <1>10, <1>11, <1>12, <1>f, <1>j

\* A pointer that is not there cannot be read (read_block fails, read.rs:189).
LEMMA LostIsUnreadable == IsDnode(d) => ~Readable(Lost) /\ ~Lost.hole
  BY DEF IsDnode, Readable, Lost, Ptr

\* What is over a block decides what the block is: out of the tree, a hole, or
\* behind a block that cannot be read.
LEMMA LeafBelow ==
  ASSUME IsDnode(d), WellFormed, NEW b \in Nat, NEW k \in 0 .. TopLevel
  PROVE  /\ ~InTree(b, k) => Leaf(b) = Lost
         /\ InTree(b, k) /\ Over(b, k).hole => Leaf(b).hole
         /\ InTree(b, k) /\ ~Readable(Over(b, k)) => ~Readable(Leaf(b)) /\ ~Leaf(b).hole
         /\ InTree(b, TopLevel) => Leaf(b) = Over(b, TopLevel)
<1> DEFINE Kept(i) == /\ InTree(b, i) <=> InTree(b, k)
                      /\ InTree(b, k) /\ Over(b, k).hole => Over(b, i).hole
                      /\ InTree(b, k) /\ ~Readable(Over(b, k)) => ~Readable(Over(b, i))
           S == {i \in Nat : i \in 0 .. TopLevel - k => Kept(k + i)}
<1>1. TopLevel \in Nat /\ k \in Nat /\ TopLevel - k \in Nat /\ k + (TopLevel - k) = TopLevel
  BY LevelFacts
<1>2. 0 \in S
  BY <1>1
<1>3. ASSUME NEW i \in 0 .. (TopLevel - k) - 1, i \in S PROVE i + 1 \in S
  <2>1. i \in Nat /\ i \in 0 .. TopLevel - k /\ k + i \in 0 .. TopLevel - 1 /\ k + (i + 1) = (k + i) + 1
    BY <1>1
  <2>2. Kept(k + i)
    BY <1>3, <2>1
  <2>j. PICK j : j = k + i
    OBVIOUS
  <2>3. j \in 0 .. TopLevel - 1 /\ Kept(j)
    BY <2>1, <2>2, <2>j
  <2>r. PICK r : r = At(b, j + 1) % Fanout
    OBVIOUS
  <2>4. /\ InTree(b, j + 1) <=> InTree(b, j)
        /\ r \in 0 .. Fanout - 1
        /\ InTree(b, j) => Over(b, j) \in Bp /\ Over(b, j + 1) = Children(Over(b, j))[r + 1]
    BY <2>3, <2>r, OneDown
  <2>5. Fanout \in Nat
    BY PowerStep DEF Fanout, IsDnode
  <2>6. r + 1 \in 1 .. Fanout
    BY <2>4, <2>5
  <2>7. ASSUME InTree(b, j), Over(b, j).hole PROVE Over(b, j + 1).hole
    BY <2>4, <2>6, <2>7 DEF Children
  <2>8. ASSUME InTree(b, j), ~Readable(Over(b, j)) PROVE ~Readable(Over(b, j + 1))
    <3>1. ~Over(b, j).hole
      BY <2>8 DEF Readable
    <3>2. Children(Over(b, j))[r + 1] = Lost
      BY <2>6, <2>8, <3>1 DEF Children
    <3> QED
      BY <2>4, <2>8, <3>2, LostIsUnreadable
  <2>9. Kept(j + 1)
    BY <2>3, <2>4, <2>7, <2>8
  <2> HIDE DEF Kept
  <2> QED
    BY <2>1, <2>9, <2>j
<1> HIDE DEF S
<1>4. \A i \in 0 .. TopLevel - k : i \in S
  BY <1>1, <1>2, <1>3, UpTo
<1>5. TopLevel - k \in S
  BY <1>1, <1>4
<1>6. Kept(TopLevel)
  BY <1>1, <1>5 DEF S
<1>7. InTree(b, TopLevel) <=> b < Len(Layer[Levels - 1])
  BY IndexOfLeaf DEF InTree, TopLevel
<1>8. InTree(b, TopLevel) => Leaf(b) = Over(b, TopLevel)
  BY <1>7, IndexOfLeaf DEF Leaf, Over, TopLevel
<1>9. ~InTree(b, TopLevel) => Leaf(b) = Lost
  BY <1>7 DEF Leaf
<1>10. \A p : ~Readable(p) => ~p.hole
  BY DEF Readable
<1> QED
  BY <1>6, <1>8, <1>9, <1>10

(***************************************************************************)
(* Types.                                                                  *)
(***************************************************************************)

\* What the reader's variables hold between two steps: an indirect block is below
\* the leaves' level.
Typed ==
  /\ TypeOK
  /\ out \in Seq(Unit)
  /\ pc = "descend" => level # 0

\* The indices of read_dnode_data are numbers (read.rs:178-179, read.rs:191-192).
LEMMA IndexTypes ==
  ASSUME Typed
  PROVE  /\ d.nlevels # 0 => TopLevel \in 0 .. MaxLevels - 1
         /\ d.nlevels # 0 => TopIndex \in Nat
         /\ level # 0 => ChildIndex \in Nat
         /\ FirstBlock \in Nat
<1>1. /\ IsDnode(d) /\ blkid \in Nat /\ level \in 0 .. MaxLevels - 1
      /\ d.nlevels \in Nat /\ d.shift \in Nat /\ d.bs \in Nat
  BY DEF Typed, TypeOK, IsCase, IsDnode
<1>2. \A n, s \in Nat : ShiftRight(n, s) \in Nat
  <2>1. TAKE n, s \in Nat
  <2>2. s % Width \in Nat
    BY BoundsAssumption
  <2>3. 2^(s % Width) \in Nat \ {0}
    BY <2>2, PowerStep
  <2> QED
    BY <2>3, StepsBelow DEF ShiftRight
<1>3. \A x, y \in Nat : x * y \in Nat
  OBVIOUS
<1>4. d.nlevels # 0 => TopLevel \in 0 .. MaxLevels - 1
  BY <1>1, TreeAssumption DEF TopLevel, Levels
<1>5. d.nlevels # 0 => TopIndex \in Nat
  <2>1. d.nlevels # 0 => TopLevel \in Nat
    BY <1>4
  <2> QED
    BY <1>1, <1>2, <1>3, <2>1 DEF TopIndex, TopShift
<1>6. ASSUME level # 0 PROVE ChildIndex \in Nat
  <2>1. level - 1 \in Nat
    BY <1>1, <1>6
  <2>2. (level - 1) * d.shift \in Nat
    BY <1>1, <1>3, <2>1
  <2>3. Fanout \in Nat \ {0}
    BY <1>1, PowerStep DEF Fanout
  <2>4. ShiftRight(blkid, (level - 1) * d.shift) \in Nat
    BY <1>1, <1>2, <2>2
  <2>5. \A x \in Nat : x % Fanout \in Nat
    BY <2>3
  <2> QED
    BY <2>4, <2>5 DEF ChildIndex
<1>7. FirstBlock \in Nat
  <2>1. d.request.what = "slot" => d.request.obj \in Nat
    BY DEF Typed, TypeOK, IsCase, Request
  <2>2. \A x, y \in Nat : y # 0 => x \div y \in Nat
    OBVIOUS
  <2> QED
    BY <1>1, <2>1, <2>2 DEF FirstBlock
<1> QED
  BY <1>4, <1>5, <1>6, <1>7

\* The first state, before any block is asked for.
LEMMA InitTyped == Init => Typed
<1>1. SUFFICES ASSUME Init PROVE Typed
  OBVIOUS
<1>2. IsCase(d)
  BY <1>1, CasesAssumption DEF Init
<1>3. FirstBlock \in Nat
  <2>1. d.request.what = "slot" => d.request.obj \in Nat
    BY <1>2 DEF IsCase, Request
  <2>2. d.bs \in Nat
    BY <1>2 DEF IsCase, IsDnode
  <2>3. \A x, y \in Nat : y # 0 => x \div y \in Nat
    OBVIOUS
  <2> QED
    BY <2>1, <2>2, <2>3 DEF FirstBlock
<1>4. Hole(1) \in Bp
  BY DEF Hole, Bp
<1>5. 0 \in 0 .. MaxLevels - 1
  BY TreeAssumption
<1> QED
  BY <1>1, <1>2, <1>3, <1>4, <1>5 DEF Init, Typed, TypeOK

\* Every step keeps the types.
LEMMA StepTyped == Typed /\ [Next]_vars => Typed'
<1> SUFFICES ASSUME Typed, [Next]_vars PROVE Typed'
  OBVIOUS
<1>1. /\ IsCase(d) /\ blkid \in Nat /\ level \in 0 .. MaxLevels - 1 /\ bp \in Bp
      /\ out \in Seq(Unit) /\ pc \in {"block", "descend", "leaf", "returned"}
      /\ result \in {"pending", "ok", "err", "panic"}
      /\ pc = "descend" => level # 0
  BY DEF Typed, TypeOK
<1>2. d' = d => IsCase(d')
  BY <1>1
<1>3. \A s : s \in Seq(Unit) => Len(s) \in Nat
  OBVIOUS
<1>4. <<>> \in Seq(Unit)
  OBVIOUS
<1>5. ASSUME NEW r \in {"ok", "err", "panic"}, Return(r), out' \in Seq(Unit)
      PROVE  Typed'
  <2>1. Len(out') \in Nat
    BY <1>3, <1>5
  <2> QED
    BY <1>1, <1>2, <1>5, <2>1 DEF Return, Typed, TypeOK
<1>6. ASSUME NEW r \in {"ok", "err", "panic"}, Fail(r) PROVE Typed'
  BY <1>4, <1>5, <1>6 DEF Fail
<1>7. CASE RefuseBlockSize
  BY <1>6, <1>7 DEF RefuseBlockSize
<1>8. CASE RefuseBlock
  BY <1>6, <1>8 DEF RefuseBlock
<1>9. CASE ShiftPanics
  BY <1>6, <1>9 DEF ShiftPanics
<1>10. CASE TopMissing
  BY <1>6, <1>10 DEF TopMissing
<1>11. CASE FromTop
  <2>1. d.nlevels # 0 /\ TopIndex < Len(d.top) /\ bp' = d.top[TopIndex + 1] /\ level' = TopLevel
    BY <1>11 DEF FromTop, Addressable
  <2>2. TopIndex \in Nat /\ TopLevel \in 0 .. MaxLevels - 1
    BY <2>1, IndexTypes
  <2>3. d.top \in Seq(Bp)
    <3> HIDE DEF Bp, Pointer
    <3> QED
      BY <1>1, PointersAreBps DEF IsCase, IsDnode
  <2>4. bp' \in Bp
    <3> HIDE DEF Bp
    <3> QED
      BY <2>1, <2>2, <2>3
  <2>5. UNCHANGED <<d, blkid, out, result>> /\ pc' = IF TopLevel = 0 THEN "leaf" ELSE "descend"
    BY <1>11 DEF FromTop
  <2> QED
    BY <1>1, <1>2, <1>3, <2>1, <2>2, <2>4, <2>5 DEF Typed, TypeOK
<1>12. CASE Unreadable
  BY <1>6, <1>12 DEF Unreadable
<1>13. CASE ChildMissing
  BY <1>6, <1>13 DEF ChildMissing
<1>14. CASE Descend
  <2>1. pc = "descend" /\ Readable(bp) /\ ChildIndex < Len(Kids(bp)) /\ level # 0
    BY <1>1, <1>14 DEF Descend
  <2>2. ChildIndex \in Nat
    BY <2>1, IndexTypes
  <2>3. Kids(bp) \in Seq(Bp)
    BY <1>1, <2>1, BlockTypes DEF IsCase
  <2>4. Kids(bp)[ChildIndex + 1] \in Bp
    <3> HIDE DEF Bp
    <3> QED
      BY <2>1, <2>2, <2>3
  <2>5. /\ UNCHANGED <<d, blkid, out, result>> /\ bp' = Kids(bp)[ChildIndex + 1] /\ level' = level - 1
        /\ pc' = IF level = 1 \/ Kids(bp)[ChildIndex + 1].hole THEN "leaf" ELSE "descend"
    BY <1>14 DEF Descend
  <2>6. level - 1 \in 0 .. MaxLevels - 1 /\ (level - 1 = 0 => level = 1)
    BY <1>1, <2>1, TreeAssumption
  <2> QED
    BY <1>1, <1>2, <1>3, <2>4, <2>5, <2>6 DEF Typed, TypeOK
<1>15. CASE ReadLeaf
  <2>1. Data(bp) \in Seq(Unit)
    BY <1>1, <1>15, BlockTypes DEF ReadLeaf, IsCase
  <2>2. out \o Data(bp) \in Seq(Unit)
    BY <1>1, <2>1
  <2>3. /\ UNCHANGED <<d, level, bp, result>> /\ out' = out \o Data(bp)
        /\ blkid' = blkid + 1 /\ pc' = "block"
    BY <1>15 DEF ReadLeaf
  <2>4. blkid + 1 \in Nat /\ Len(out') \in Nat
    BY <1>1, <1>3, <2>2, <2>3
  <2> QED
    BY <1>1, <1>2, <2>2, <2>3, <2>4 DEF Typed, TypeOK
<1>16. CASE ReturnContent
  <2>1. d.request.size # NoSize => d.request.size \in Nat
    BY <1>1, <1>16 DEF ReturnContent, IsCase, Request
  <2>2. \A n \in Nat : n < Len(out) => SubSeq(out, 1, n) \in Seq(Unit)
    BY <1>1
  <2>3. out' \in Seq(Unit)
    <3>1. CASE d.request.size = NoSize \/ d.request.size >= Len(out)
      BY <1>1, <1>16, <3>1 DEF ReturnContent
    <3>2. CASE ~ (d.request.size = NoSize \/ d.request.size >= Len(out))
      <4>1. d.request.size \in Nat /\ d.request.size < Len(out)
        BY <1>1, <1>3, <2>1, <3>2
      <4> QED
        BY <1>16, <2>2, <3>2, <4>1 DEF ReturnContent
    <3> QED
      BY <3>1, <3>2
  <2> QED
    BY <1>5, <1>16, <2>3 DEF ReturnContent
<1>17. CASE ReturnSlot
  <2>1. Data(bp) \in Seq(Unit)
    BY <1>1, <1>17, BlockTypes DEF ReturnSlot, IsCase
  <2>2. CASE Slot \in DOMAIN Data(bp) /\ Data(bp)[Slot] # Zero
    <3>1. <<Data(bp)[Slot]>> \in Seq(Unit)
      BY <2>1, <2>2
    <3> QED
      BY <1>5, <1>17, <2>2, <3>1 DEF ReturnSlot
  <2>3. CASE ~ (Slot \in DOMAIN Data(bp) /\ Data(bp)[Slot] # Zero)
    BY <1>6, <1>17, <2>3 DEF ReturnSlot
  <2> QED
    BY <2>2, <2>3
<1>18. CASE Returned \/ UNCHANGED vars
  BY <1>1, <1>3, <1>18 DEF Returned, vars, Typed, TypeOK
<1> QED
  BY <1>7, <1>8, <1>9, <1>10, <1>11, <1>12, <1>13, <1>14, <1>15, <1>16, <1>17, <1>18 DEF Next

\* Reading a dnode's blocks keeps its variables well formed, whatever the tree
\* and the request (read.rs:153-241, zpl.rs:171-206).
THEOREM ContentTypes == Spec => []TypeOK
<1>1. Typed => TypeOK
  BY DEF Typed
<1> QED
  BY <1>1, InitTyped, StepTyped, PTL DEF Spec

(***************************************************************************)
(* The pointer the reader holds is the one over the block it was asked for.*)
(***************************************************************************)

\* A hole that the reader made up stands for the hole over the block.
OnPath(b, l, p, ph) ==
  WellFormed /\ ph \in {"descend", "leaf"} =>
    /\ l \in 0 .. TopLevel
    /\ InTree(b, TopLevel - l)
    /\ p = Over(b, TopLevel - l) \/ (p.hole /\ Over(b, TopLevel - l).hole)
    /\ ph = "leaf" => l = 0 \/ p.hole

\* A block is only looked for within the blkids and the bounds of the request.
Asked == pc \in {"descend", "leaf"} => Addressable /\ d.bs # 0 /\ blkid <= LastBlock

PathInv == OnPath(blkid, level, bp, pc) /\ Asked

\* Nothing writes the image while it is read (pread on an immutable source).
LEMMA ImageStays ==
  [Next]_vars => d' = d
BY DEF Next, vars, RefuseBlockSize, RefuseBlock, ShiftPanics, TopMissing, FromTop, Unreadable,
       ChildMissing, Descend, ReadLeaf, ReturnContent, ReturnSlot, Returned, Fail, Return

\* What is said of the image alone stays true.
LEMMA ImageDecides ==
  ASSUME d' = d
  PROVE  /\ WellFormed' = WellFormed
         /\ \A b, l, p, ph : OnPath(b, l, p, ph)' = OnPath(b, l, p, ph)
         /\ \A b : Leaf(b)' = Leaf(b)
         /\ \A p : Readable(p)' = Readable(p) /\ Data(p)' = Data(p)
         /\ NBlocks' = NBlocks /\ FirstBlock' = FirstBlock /\ LastBlock' = LastBlock
         /\ Leaves' = Leaves
<1>1. WellFormed' = WellFormed
  BY DEF WellFormed, TopShift, TopLevel, Levels
<1>2. NBlocks' = NBlocks /\ FirstBlock' = FirstBlock /\ LastBlock' = LastBlock /\ Leaves' = Leaves
  BY DEF NBlocks, FirstBlock, LastBlock, Leaves
<1>3. \A p : Readable(p)' = Readable(p) /\ Data(p)' = Data(p)
  BY DEF Readable, Data
<1>4. \A b : Leaf(b)' = Leaf(b)
  BY DEF Leaf, Layer, Levels, Children, Fanout, Readable, Kids
<1>5. \A b, l, p, ph : OnPath(b, l, p, ph)' = OnPath(b, l, p, ph)
  BY DEF OnPath, WellFormed, TopShift, TopLevel, Levels, InTree, Over, At, Layer, Children, Fanout,
         Readable, Kids
<1> QED
  BY <1>1, <1>2, <1>3, <1>4, <1>5

\* From the dnode's own pointers (read.rs:177-184).
LEMMA StartsOnPath ==
  ASSUME Typed, FromTop
  PROVE  OnPath(blkid, TopLevel, d.top[TopIndex + 1], pc')
<1>1. SUFFICES ASSUME WellFormed PROVE OnPath(blkid, TopLevel, d.top[TopIndex + 1], pc')
  BY DEF OnPath
<1>2. IsDnode(d) /\ blkid \in Nat
  BY DEF Typed, TypeOK, IsCase
<1>3. TopLevel \in 0 .. MaxLevels - 1 /\ d.shift \in Nat /\ MaxLevels - 1 \in Nat
  BY <1>1, <1>2, LevelFacts, TreeAssumption
<1>4. 0 \in 0 .. TopLevel /\ TopLevel \in 0 .. TopLevel /\ TopLevel - 0 = TopLevel /\ TopLevel - TopLevel = 0
      /\ 0 \in 0 .. MaxLevels - 1
  BY <1>3
<1>5. TopIndex = At(blkid, 0)
  BY <1>1, <1>2, <1>4, Shifts DEF TopIndex, TopShift
<1>6. Layer[0] = d.top
  BY <1>4, LayerIs DEF Below
<1>7. TopIndex < Len(d.top) /\ pc' = IF TopLevel = 0 THEN "leaf" ELSE "descend"
  BY DEF FromTop
<1>8. InTree(blkid, 0) /\ Over(blkid, 0) = d.top[TopIndex + 1]
  BY <1>5, <1>6, <1>7 DEF InTree, Over
<1>9. pc' = "leaf" => TopLevel = 0
  BY <1>7
<1> QED
  BY <1>4, <1>8, <1>9 DEF OnPath

\* One level down (read.rs:186-209).
LEMMA StaysOnPath ==
  ASSUME Typed, OnPath(blkid, level, bp, pc), Descend
  PROVE  OnPath(blkid, level - 1, Kids(bp)[ChildIndex + 1], pc')
<1>1. SUFFICES ASSUME WellFormed PROVE OnPath(blkid, level - 1, Kids(bp)[ChildIndex + 1], pc')
  BY DEF OnPath
<1>2. IsDnode(d) /\ blkid \in Nat /\ bp \in Bp /\ level # 0
  BY DEF Typed, TypeOK, IsCase, Descend
<1>k. PICK k : k = TopLevel - level
  OBVIOUS
<1>3. /\ level \in 0 .. TopLevel /\ InTree(blkid, k)
      /\ bp = Over(blkid, k) \/ (bp.hole /\ Over(blkid, k).hole)
  BY <1>1, <1>k DEF OnPath, Descend
<1>4. TopLevel \in Nat
  BY <1>1, <1>2, LevelFacts
<1>5. /\ k \in 0 .. TopLevel - 1 /\ k + 1 \in 0 .. TopLevel /\ TopLevel - (k + 1) = level - 1
      /\ TopLevel - (level - 1) = k + 1 /\ level - 1 \in 0 .. TopLevel
  BY <1>2, <1>3, <1>4, <1>k
<1>r. PICK r : r = ChildIndex
  OBVIOUS
<1>6. r = At(blkid, k + 1) % Fanout
  BY <1>1, <1>2, <1>5, <1>r, Shifts DEF ChildIndex
<1>7. /\ InTree(blkid, k + 1)
      /\ r \in 0 .. Fanout - 1
      /\ Over(blkid, k + 1) = Children(Over(blkid, k))[r + 1]
  BY <1>1, <1>2, <1>3, <1>5, <1>6, OneDown
<1>8. Fanout \in Nat
  BY <1>2, PowerStep DEF Fanout, IsDnode
<1>9. r + 1 \in 1 .. Fanout
  BY <1>7, <1>8
<1>10. Readable(bp) /\ r < Len(Kids(bp)) /\ Kids(bp) \in Seq(Bp)
  BY <1>2, <1>r, BlockTypes DEF Descend
<1>11. r \in Nat /\ Len(Kids(bp)) \in Nat /\ r + 1 <= Len(Kids(bp))
  <2>1. Len(Kids(bp)) \in Nat
    BY <1>10
  <2> QED
    BY <1>7, <1>8, <1>10, <2>1
<1>12. CASE bp.hole
  <2>1. Kids(bp) = [j \in 1 .. bp.lsize * PtrsPerUnit |-> Hole(1)]
    BY <1>12 DEF Kids
  <2>2. bp.lsize * PtrsPerUnit \in Nat
    BY <1>2, TreeAssumption DEF Bp
  <2>3. Len(Kids(bp)) = bp.lsize * PtrsPerUnit
    BY <2>1, <2>2
  <2>4. r + 1 \in 1 .. bp.lsize * PtrsPerUnit
    BY <1>11, <2>2, <2>3
  <2>5. Kids(bp)[r + 1].hole
    BY <2>1, <2>4 DEF Hole
  <2>6. Over(blkid, k).hole
    BY <1>3, <1>12
  <2>7. Over(blkid, k + 1).hole
    BY <1>7, <1>9, <2>6 DEF Children
  <2> QED
    BY <1>5, <1>7, <1>r, <2>5, <2>7 DEF OnPath
<1>13. CASE ~bp.hole
  <2>1. bp = Over(blkid, k)
    BY <1>3, <1>13
  <2>2. Over(blkid, k + 1) = Kids(bp)[r + 1]
    BY <1>7, <1>9, <1>10, <1>11, <1>13, <2>1 DEF Children
  <2>3. pc' = IF level = 1 \/ Kids(bp)[r + 1].hole THEN "leaf" ELSE "descend"
    BY <1>r DEF Descend
  <2>4. pc' = "leaf" => level - 1 = 0 \/ Kids(bp)[r + 1].hole
    BY <2>3
  <2> QED
    BY <1>5, <1>7, <1>r, <2>2, <2>4 DEF OnPath
<1> QED
  BY <1>12, <1>13

\* Before the first block, nothing is held.
LEMMA InitPath == Init => PathInv
  BY DEF Init, PathInv, OnPath, Asked

\* The shifts and masks never leave the path to the block.
LEMMA StepPath == Typed /\ PathInv /\ [Next]_vars => PathInv'
<1> SUFFICES ASSUME Typed, PathInv, [Next]_vars PROVE PathInv'
  OBVIOUS
<1>1. d' = d
  BY ImageStays
<1>2. /\ \A b, l, p, ph : OnPath(b, l, p, ph)' = OnPath(b, l, p, ph)
      /\ LastBlock' = LastBlock
  BY <1>1, ImageDecides
<1>3. ASSUME pc' \notin {"descend", "leaf"} PROVE PathInv'
  BY <1>3 DEF PathInv, OnPath, Asked
<1>4. CASE RefuseBlockSize \/ RefuseBlock \/ ShiftPanics \/ TopMissing \/ Unreadable \/ ChildMissing
  <2>1. pc' = "returned"
    BY <1>4 DEF RefuseBlockSize, RefuseBlock, ShiftPanics, TopMissing, Unreadable, ChildMissing, Fail, Return
  <2> QED
    BY <1>3, <2>1
<1>5. CASE ReturnContent \/ ReturnSlot
  <2>1. pc' = "returned"
    BY <1>5 DEF ReturnContent, ReturnSlot, Fail, Return
  <2> QED
    BY <1>3, <2>1
<1>6. CASE ReadLeaf
  BY <1>3, <1>6 DEF ReadLeaf
<1>7. CASE FromTop
  <2>1. OnPath(blkid, TopLevel, d.top[TopIndex + 1], pc')
    BY <1>7, StartsOnPath
  <2>2. blkid' = blkid /\ level' = TopLevel /\ bp' = d.top[TopIndex + 1] /\ AtBlock /\ Addressable
    BY <1>7 DEF FromTop
  <2>3. OnPath(blkid, level, bp, pc)'
    BY <1>2, <2>1, <2>2 DEF OnPath, InTree, Over, At
  <2>4. Asked'
    BY <1>1, <1>2, <2>2 DEF Asked, AtBlock, Addressable
  <2> QED
    BY <2>3, <2>4 DEF PathInv
<1>8. CASE Descend
  <2>1. OnPath(blkid, level - 1, Kids(bp)[ChildIndex + 1], pc')
    BY <1>8, StaysOnPath DEF PathInv
  <2>2. blkid' = blkid /\ level' = level - 1 /\ bp' = Kids(bp)[ChildIndex + 1] /\ pc = "descend"
    BY <1>8 DEF Descend
  <2>3. OnPath(blkid, level, bp, pc)'
    BY <1>2, <2>1, <2>2 DEF OnPath, InTree, Over, At
  <2>4. Asked'
    BY <1>1, <1>2, <2>2 DEF PathInv, Asked, Addressable
  <2> QED
    BY <2>3, <2>4 DEF PathInv
<1>9. CASE Returned \/ UNCHANGED vars
  <2>1. UNCHANGED vars
    BY <1>9 DEF Returned
  <2>2. UNCHANGED <<blkid, level, bp, pc>>
    BY <2>1 DEF vars
  <2>3. OnPath(blkid, level, bp, pc)'
    BY <1>2, <2>2 DEF PathInv, OnPath, InTree, Over, At
  <2>4. Asked'
    BY <1>1, <1>2, <2>2 DEF PathInv, Asked, Addressable
  <2> QED
    BY <2>3, <2>4 DEF PathInv
<1> QED
  BY <1>4, <1>5, <1>6, <1>7, <1>8, <1>9 DEF Next

(***************************************************************************)
(* What the reader ends with.                                              *)
(***************************************************************************)

\* At the end of the path is the block asked for, or a hole in its place
\* (read.rs:205-211).
LEMMA ReachesLeaf ==
  ASSUME Typed, PathInv, WellFormed, pc = "leaf"
  PROVE  bp = Leaf(blkid) \/ (bp.hole /\ Leaf(blkid).hole)
<1>1. IsDnode(d) /\ blkid \in Nat
  BY DEF Typed, TypeOK, IsCase
<1>k. PICK k : k = TopLevel - level
  OBVIOUS
<1>2. /\ level \in 0 .. TopLevel /\ InTree(blkid, k)
      /\ bp = Over(blkid, k) \/ (bp.hole /\ Over(blkid, k).hole)
      /\ level = 0 \/ bp.hole
  BY <1>k DEF PathInv, OnPath
<1>3. TopLevel \in Nat
  BY <1>1, LevelFacts
<1>4. k \in 0 .. TopLevel /\ (level = 0 => k = TopLevel)
  BY <1>2, <1>3, <1>k
<1>5. Over(blkid, k).hole => Leaf(blkid).hole
  BY <1>1, <1>2, <1>4, LeafBelow
<1>6. level = 0 => Leaf(blkid) = Over(blkid, k)
  BY <1>1, <1>2, <1>4, LeafBelow
<1> QED
  BY <1>2, <1>5, <1>6

\* An error on the way down is the block's: it is a hole or cannot be reached
\* (OutOfRange, or read_block's error; read.rs:180, read.rs:189, read.rs:199).
LEMMA ErrorIsTheBlocks ==
  ASSUME Typed, PathInv, WellFormed, TopMissing \/ Unreadable \/ ChildMissing
  PROVE  Leaf(blkid).hole \/ ~Readable(Leaf(blkid))
<1>1. IsDnode(d) /\ blkid \in Nat /\ bp \in Bp
  BY DEF Typed, TypeOK, IsCase
<1>2. TopLevel \in 0 .. MaxLevels - 1 /\ TopLevel \in Nat /\ MaxLevels - 1 \in Nat
  BY <1>1, LevelFacts, TreeAssumption
<1>3. CASE TopMissing
  <2>1. 0 \in 0 .. TopLevel /\ TopLevel - 0 = TopLevel /\ 0 \in 0 .. MaxLevels - 1
    BY <1>2
  <2>2. TopIndex = At(blkid, 0) /\ At(blkid, 0) \in Nat
    BY <1>1, <2>1, Shifts DEF TopIndex, TopShift
  <2>3. Layer[0] = d.top /\ Len(d.top) \in Nat
    BY <1>1, <2>1, LayerIs DEF Below, IsDnode
  <2>4. ~InTree(blkid, 0)
    <3>1. TopIndex >= Len(d.top)
      BY <1>3 DEF TopMissing
    <3> QED
      BY <2>2, <2>3, <3>1 DEF InTree
  <2> QED
    BY <1>1, <2>1, <2>4, LeafBelow, LostIsUnreadable
<1>4. CASE Unreadable \/ ChildMissing
  <2>k. PICK k : k = TopLevel - level
    OBVIOUS
  <2>1. pc \in {"descend", "leaf"}
    BY <1>4 DEF Unreadable, ChildMissing
  <2>2. /\ level \in 0 .. TopLevel /\ InTree(blkid, k)
        /\ bp = Over(blkid, k) \/ (bp.hole /\ Over(blkid, k).hole)
    BY <2>1, <2>k DEF PathInv, OnPath
  <2>3. k \in 0 .. TopLevel
    BY <1>2, <2>2, <2>k
  <2>4. Over(blkid, k).hole => Leaf(blkid).hole
    BY <1>1, <2>2, <2>3, LeafBelow
  <2>5. ~Readable(Over(blkid, k)) => ~Readable(Leaf(blkid))
    BY <1>1, <2>2, <2>3, LeafBelow
  <2>6. CASE Unreadable
    <3>1. ~Readable(bp) /\ ~bp.hole
      BY <2>6 DEF Unreadable, Readable
    <3> QED
      BY <2>2, <2>5, <3>1
  <2>7. CASE ChildMissing
    <3>1. Readable(bp) /\ ChildIndex >= Len(Kids(bp)) /\ level # 0
      BY <2>7 DEF ChildMissing, Typed
    <3>2. CASE bp.hole
      BY <2>2, <2>4, <3>2
    <3>3. CASE ~bp.hole
      <4>1. bp = Over(blkid, k)
        BY <2>2, <3>3
      <4>r. PICK r : r = ChildIndex
        OBVIOUS
      <4>2. /\ k \in 0 .. TopLevel - 1 /\ k + 1 \in 0 .. TopLevel
            /\ TopLevel - (k + 1) = level - 1
        BY <1>2, <2>2, <2>3, <2>k, <3>1
      <4>3. r = At(blkid, k + 1) % Fanout
        BY <1>1, <4>2, <4>r, Shifts DEF ChildIndex
      <4>4. /\ InTree(blkid, k + 1)
            /\ r \in 0 .. Fanout - 1
            /\ Over(blkid, k + 1) = Children(bp)[r + 1]
        BY <1>1, <2>2, <4>1, <4>2, <4>3, OneDown
      <4>5. Fanout \in Nat /\ Len(Kids(bp)) \in Nat
        <5>1. Kids(bp) \in Seq(Bp)
          BY <1>1, <3>1, BlockTypes
        <5>2. Len(Kids(bp)) \in Nat
          BY <5>1
        <5> QED
          BY <1>1, <5>2, PowerStep DEF Fanout, IsDnode
      <4>6. r + 1 \in 1 .. Fanout /\ ~ (r + 1 <= Len(Kids(bp)))
        BY <3>1, <4>4, <4>5, <4>r
      <4>7. Children(bp)[r + 1] = Lost
        BY <3>3, <4>6 DEF Children
      <4>8. ~Readable(Over(blkid, k + 1))
        BY <1>1, <4>4, <4>7, LostIsUnreadable
      <4> QED
        BY <1>1, <4>2, <4>4, <4>8, LeafBelow
    <3> QED
      BY <3>2, <3>3
  <2> QED
    BY <1>4, <2>6, <2>7
<1> QED
  BY <1>3, <1>4

\* A leaf is a pointer, and what can be read of it is units.
LEMMA LeafTypes ==
  ASSUME IsDnode(d), WellFormed, NEW b \in Nat
  PROVE  Leaf(b) \in Bp /\ (Readable(Leaf(b)) => Data(Leaf(b)) \in Seq(Unit))
<1>1. Levels - 1 \in 0 .. MaxLevels - 1
  BY LevelFacts DEF TopLevel
<1>r. PICK row : row = Layer[Levels - 1]
  OBVIOUS
<1>2. row \in Seq(Bp)
  BY <1>1, <1>r, LayerTypes
<1>3. b < Len(row) => row[b + 1] \in Bp
  <2> HIDE DEF Bp
  <2> QED
    BY <1>2
<1>4. Lost \in Bp
  BY DEF Lost, Ptr, Bp
<1>5. Leaf(b) \in Bp
  BY <1>3, <1>4, <1>r DEF Leaf
<1> QED
  BY <1>5, BlockTypes

(***************************************************************************)
(* The slot of an object.                                                  *)
(***************************************************************************)

SlotInv ==
  /\ d.request.what = "slot" /\ pc # "returned" => blkid = FirstBlock
  /\ SlotIsRight

\* What is said of the finished call stays true.
LEMMA SlotStays == UNCHANGED <<d, pc, out, result>> /\ SlotIsRight => SlotIsRight'
<1> SUFFICES ASSUME UNCHANGED <<d, pc, out, result>>, SlotIsRight PROVE SlotIsRight'
  OBVIOUS
<1>1. d' = d
  OBVIOUS
<1>2. WellFormed' = WellFormed /\ FirstBlock' = FirstBlock
  BY <1>1, ImageDecides
<1>l. PICK leaf : leaf = Leaf(FirstBlock)
  OBVIOUS
<1>3. Leaf(FirstBlock)' = leaf
  <2>1. \A b : Leaf(b)' = Leaf(b)
    BY <1>1, ImageDecides
  <2> QED
    BY <1>2, <1>l, <2>1 DEF Leaf
<1>4. Readable(leaf)' = Readable(leaf) /\ Data(leaf)' = Data(leaf)
  BY <1>1, ImageDecides
<1> QED
  BY <1>1, <1>2, <1>3, <1>4, <1>l DEF SlotIsRight, Slot, Readable, Data

\* None when the slot is empty, out of range, or its block cannot be read; the
\* dnode in it otherwise (mos_dnode, read.rs:221-241).
LEMMA StepSlot == Typed /\ PathInv /\ SlotInv /\ [Next]_vars => SlotInv'
<1> SUFFICES ASSUME Typed, PathInv, SlotInv, [Next]_vars PROVE SlotInv'
  OBVIOUS
<1>1. d' = d
  BY ImageStays
<1>2. WellFormed' = WellFormed /\ FirstBlock' = FirstBlock /\ LastBlock' = LastBlock
  BY <1>1, ImageDecides
<1>3. ASSUME pc' # "returned", blkid' = blkid, pc # "returned" PROVE SlotInv'
  BY <1>1, <1>2, <1>3 DEF SlotInv, SlotIsRight
<1>4. ASSUME d.request.what # "slot" PROVE SlotInv'
  BY <1>1, <1>4 DEF SlotInv, SlotIsRight
<1>l. PICK leaf : leaf = Leaf(FirstBlock)
  OBVIOUS
<1>5. Leaf(FirstBlock)' = leaf
  <2>1. \A b : Leaf(b)' = Leaf(b)
    BY <1>1, ImageDecides
  <2> QED
    BY <1>2, <1>l, <2>1 DEF Leaf
<1>6. /\ Readable(leaf)' = Readable(leaf) /\ Data(leaf)' = Data(leaf) /\ Slot' = Slot
  BY <1>1, ImageDecides DEF Slot
<1> DEFINE There == /\ FirstBlock <= d.maxblkid
                    /\ ~leaf.hole /\ Readable(leaf)
                    /\ Slot \in DOMAIN Data(leaf) /\ Data(leaf)[Slot] # Zero
<1>7. ASSUME pc' = "returned",
             WellFormed => IF There THEN result' = "ok" /\ out' = <<Data(leaf)[Slot]>> ELSE result' = "err"
      PROVE  SlotInv'
  BY <1>1, <1>2, <1>5, <1>6, <1>7 DEF SlotInv, SlotIsRight, Slot, Readable, Data
<1>8. CASE RefuseBlockSize
  BY <1>7, <1>8 DEF RefuseBlockSize, Fail, Return, WellFormed
<1>9. CASE RefuseBlock
  <2>1. SUFFICES ASSUME d.request.what = "slot" PROVE SlotInv'
    BY <1>4
  <2>2. pc = "block" /\ pc' = "returned" /\ result' = "err" /\ ~Addressable
    BY <1>9 DEF RefuseBlock, AtBlock, Fail, Return
  <2>3. WellFormed => ~ (FirstBlock <= d.maxblkid)
    BY <2>1, <2>2 DEF SlotInv, Addressable, WellFormed
  <2> QED
    BY <1>7, <2>2, <2>3
<1>10. CASE ShiftPanics
  <2>1. ~WellFormed
    <3>1. \A x \in Nat : x >= Width => ~ (x < Width)
      BY BoundsAssumption
    <3>2. d.nlevels # 0 /\ TopShift >= Width
      BY <1>10 DEF ShiftPanics, Addressable
    <3>3. TopShift \in Nat
      <4>1. TopLevel \in Nat /\ d.shift \in Nat
        BY <3>2, IndexTypes DEF Typed, TypeOK, IsCase, IsDnode
      <4> QED
        BY <4>1 DEF TopShift
    <3> QED
      BY <3>1, <3>2, <3>3 DEF WellFormed
  <2> QED
    BY <1>7, <1>10, <2>1 DEF ShiftPanics, Fail, Return
<1>11. CASE TopMissing \/ Unreadable \/ ChildMissing
  <2>1. SUFFICES ASSUME d.request.what = "slot" PROVE SlotInv'
    BY <1>4
  <2>2. pc # "returned" /\ pc' = "returned" /\ result' = "err"
    BY <1>11 DEF TopMissing, AtBlock, Unreadable, ChildMissing, Fail, Return
  <2>3. WellFormed => leaf.hole \/ ~Readable(leaf)
    BY <1>11, <1>l, <2>1, <2>2, ErrorIsTheBlocks DEF SlotInv
  <2> QED
    BY <1>7, <2>2, <2>3
<1>12. CASE FromTop
  BY <1>3, <1>12 DEF FromTop, AtBlock
<1>13. CASE Descend
  BY <1>3, <1>13 DEF Descend
<1>14. CASE ReadLeaf
  BY <1>4, <1>14 DEF ReadLeaf
<1>15. CASE ReturnContent
  BY <1>4, <1>15 DEF ReturnContent
<1>16. CASE ReturnSlot
  <2>1. /\ pc = "leaf" /\ d.request.what = "slot" /\ Readable(bp)
        /\ IF Slot \in DOMAIN Data(bp) /\ Data(bp)[Slot] # Zero
           THEN out' = <<Data(bp)[Slot]>> /\ Return("ok") ELSE Fail("err")
    BY <1>16 DEF ReturnSlot
  <2>2. pc' = "returned"
    BY <2>1 DEF Fail, Return
  <2>3. ASSUME WellFormed
        PROVE  IF There THEN result' = "ok" /\ out' = <<Data(leaf)[Slot]>> ELSE result' = "err"
    <3>1. bp = leaf \/ (bp.hole /\ leaf.hole)
      BY <1>l, <2>1, <2>3, ReachesLeaf DEF SlotInv
    <3>2. FirstBlock <= d.maxblkid
      BY <2>1 DEF PathInv, Asked, Addressable, SlotInv
    <3>3. ASSUME bp.hole PROVE ~ (Slot \in DOMAIN Data(bp) /\ Data(bp)[Slot] # Zero)
      BY <3>3 DEF Data
    <3>4. CASE bp.hole
      <4>1. leaf.hole /\ result' = "err"
        BY <2>1, <3>1, <3>3, <3>4 DEF Fail, Return
      <4> QED
        BY <4>1
    <3>5. CASE ~bp.hole
      <4>1. bp = leaf /\ ~leaf.hole /\ Readable(leaf)
        BY <2>1, <3>1, <3>5
      <4> QED
        BY <2>1, <3>2, <4>1 DEF Fail, Return
    <3> QED
      BY <3>4, <3>5
  <2> QED
    BY <1>7, <2>2, <2>3
<1>17. CASE Returned \/ UNCHANGED vars
  <2>1. UNCHANGED <<d, pc, out, result, blkid>>
    BY <1>17 DEF Returned, vars
  <2>2. SlotIsRight'
    BY <2>1, SlotStays DEF SlotInv
  <2> QED
    BY <1>2, <2>1, <2>2 DEF SlotInv
<1> QED
  BY <1>8, <1>9, <1>10, <1>11, <1>12, <1>13, <1>14, <1>15, <1>16, <1>17 DEF Next

\* mos_dnode (read.rs:221-241) finds an object's dnode in the slot a reader of the
\* whole meta-dnode would find it in, and nowhere else, for every tree, fanout
\* and block size.
THEOREM SlotsAreRight == Spec => []SlotIsRight
<1>1. Init => SlotInv
  BY DEF Init, SlotInv, SlotIsRight
<1>2. SlotInv => SlotIsRight
  BY DEF SlotInv
<1> QED
  BY <1>1, <1>2, InitTyped, StepTyped, InitPath, StepPath, StepSlot, PTL DEF Spec

(***************************************************************************)
(* The content of an object.                                               *)
(***************************************************************************)

\* The blocks to read are the first NBlocks, and there is one (the cap of
\* zpl.rs:190-195).
LEMMA LeavesAreFirst ==
  ASSUME IsDnode(d), WellFormed
  PROVE  /\ NBlocks \in Nat \ {0}
         /\ NBlocks <= d.maxblkid + 1
         /\ Leaves = 0 .. NBlocks - 1
         /\ Cardinality(Leaves) = NBlocks
<1>b. PICK bs : bs = d.bs
  OBVIOUS
<1>m. PICK top : top = d.maxblkid
  OBVIOUS
<1>1. bs \in Nat \ {0} /\ top \in Nat /\ MaxUnits \in Nat
  BY <1>b, <1>m, BoundsAssumption DEF IsDnode, WellFormed
<1>2. CASE bs > MaxUnits
  <2>1. NBlocks = 1
    BY <1>1, <1>2, <1>b, <1>m DEF NBlocks
  <2>2. \A x, y \in Nat : (x + 1) * y = x * y + y /\ x * y \in Nat
    OBVIOUS
  <2>3. \A j \in 0 .. top : ~ ((j + 1) * bs <= MaxUnits)
    <3>1. TAKE j \in 0 .. top
    <3>2. (j + 1) * bs = j * bs + bs /\ j * bs \in Nat
      BY <1>1, <2>2
    <3> QED
      BY <1>1, <1>2, <3>2
  <2>4. Leaves = {0}
    BY <1>1, <1>b, <1>m, <2>3 DEF Leaves
  <2>5. 0 .. NBlocks - 1 = {0} /\ NBlocks \in Nat \ {0} /\ NBlocks <= top + 1
    BY <1>1, <2>1
  <2> QED
    BY <1>m, <2>1, <2>4, <2>5, FS_Singleton
<1>3. CASE ~ (bs > MaxUnits)
  <2>c. PICK cap : cap = MaxUnits \div bs
    OBVIOUS
  <2>1. cap \in Nat
    BY <1>1, <2>c, StepsBelow
  <2>2. ASSUME NEW n \in Nat PROVE n * bs <= MaxUnits <=> n <= cap
    <3>1. MaxUnits < bs * n <=> cap < n
      BY <1>1, <2>c, StepsBelow
    <3>2. n * bs = bs * n /\ bs * n \in Nat
      BY <1>1
    <3> QED
      BY <1>1, <2>1, <3>1, <3>2
  <2>3. 1 <= cap
    <3>1. 1 * bs <= MaxUnits
      BY <1>1, <1>3
    <3> QED
      BY <2>2, <3>1
  <2>4. NBlocks = IF top + 1 < cap THEN top + 1 ELSE cap
    BY <1>3, <1>b, <1>m, <2>c DEF NBlocks
  <2>5. NBlocks \in Nat \ {0} /\ NBlocks <= top + 1
        /\ \A j \in Nat : j < NBlocks <=> j <= top /\ j + 1 <= cap
    BY <1>1, <2>1, <2>3, <2>4
  <2>6. ASSUME NEW j \in 0 .. top PROVE (j = 0 \/ (j + 1) * bs <= MaxUnits) <=> j + 1 <= cap
    <3>1. j + 1 \in Nat /\ (j = 0 => j + 1 <= cap)
      BY <1>1, <2>1, <2>3
    <3> QED
      BY <2>2, <3>1
  <2>7. Leaves = {j \in 0 .. top : j + 1 <= cap}
    BY <1>b, <1>m, <2>6 DEF Leaves
  <2>8. {j \in 0 .. top : j + 1 <= cap} = 0 .. NBlocks - 1
    BY <1>1, <2>1, <2>5
  <2>n. PICK n : n = NBlocks
    OBVIOUS
  <2>9. Cardinality(0 .. n - 1) = n
    <3>1. n \in Nat \ {0}
      BY <2>5, <2>n
    <3>2. Cardinality(0 .. n - 1) = (n - 1) - 0 + 1
      BY <3>1, FS_Interval
    <3> QED
      BY <3>1, <3>2
  <2> QED
    BY <1>m, <2>5, <2>7, <2>8, <2>9, <2>n
<1> QED
  BY <1>2, <1>3

\* The first n blocks, one behind the other.
First(n) == FlattenSeq([i \in 1 .. n |-> Data(Leaf(i - 1))])

\* Of no blocks, nothing.
LEMMA FirstNone == First(0) = <<>>
<1>s. PICK seqs : seqs = [i \in 1 .. 0 |-> Data(Leaf(i - 1))]
  OBVIOUS
<1>1. seqs = <<>>
  BY <1>s
<1> QED
  BY <1>s, <1>1, FlattenEmpty DEF First

\* No hole in the way: every block of the file is data or cannot be read.
Solid == d.request.what = "content" /\ WellFormed /\ \A b \in Leaves : ~Leaf(b).hole

ReadSoFar ==
  Solid /\ pc # "returned" =>
    /\ blkid \in 0 .. NBlocks
    /\ \A b \in 0 .. blkid - 1 : Readable(Leaf(b))
    /\ out = First(blkid)

ContentInv == ReadSoFar /\ WholeContent

\* One more block is put behind those read (zpl.rs:199, zap.rs:113).
LEMMA FirstNext ==
  ASSUME IsDnode(d), WellFormed, NEW n \in Nat, \A b \in 0 .. n : Readable(Leaf(b))
  PROVE  First(n + 1) = First(n) \o Data(Leaf(n))
<1>s. PICK seqs : seqs = [i \in 1 .. n |-> Data(Leaf(i - 1))]
  OBVIOUS
<1>t. PICK t : t = Data(Leaf(n))
  OBVIOUS
<1>1. \A b \in 0 .. n : Data(Leaf(b)) \in Seq(Unit)
  <2>1. \A b \in 0 .. n : b \in Nat
    OBVIOUS
  <2> QED
    BY <2>1, LeafTypes
<1>2. \A i \in 1 .. n : Data(Leaf(i - 1)) \in Seq(Unit)
  <2>1. \A i \in 1 .. n : i - 1 \in 0 .. n
    OBVIOUS
  <2> QED
    BY <1>1, <2>1
<1>3. seqs \in Seq(Seq(Unit)) /\ Len(seqs) = n
  <2>1. \A i \in 1 .. n : seqs[i] \in Seq(Unit)
    BY <1>s, <1>2
  <2>2. seqs = [i \in 1 .. n |-> seqs[i]]
    BY <1>s
  <2> QED
    BY <2>1, <2>2
<1>4. t \in Seq(Unit)
  <2>1. n \in 0 .. n
    OBVIOUS
  <2> QED
    BY <1>1, <1>t, <2>1
<1>5. [i \in 1 .. n + 1 |-> Data(Leaf(i - 1))] = Append(seqs, t)
  <2>1. Append(seqs, t) = [i \in 1 .. n + 1 |-> IF i = n + 1 THEN t ELSE seqs[i]]
    <3>m. PICK more : more = Append(seqs, t)
      OBVIOUS
    <3>1. more \in Seq(Seq(Unit)) /\ Len(more) = n + 1
      BY <1>3, <1>4, <3>m
    <3>2. \A i \in 1 .. n + 1 : more[i] = IF i = n + 1 THEN t ELSE seqs[i]
      BY <1>3, <1>4, <3>m
    <3>3. more = [i \in 1 .. n + 1 |-> more[i]]
      BY <3>1
    <3> QED
      BY <3>2, <3>3, <3>m
  <2>2. ASSUME NEW i \in 1 .. n + 1
        PROVE  Data(Leaf(i - 1)) = IF i = n + 1 THEN t ELSE seqs[i]
    <3>1. CASE i = n + 1
      <4>1. i - 1 = n
        BY <3>1
      <4> QED
        BY <1>t, <3>1, <4>1
    <3>2. CASE i # n + 1
      <4>1. i \in 1 .. n
        BY <3>2
      <4> QED
        BY <1>s, <3>2, <4>1
    <3> QED
      BY <3>1, <3>2
  <2> QED
    BY <2>1, <2>2
<1>6. FlattenSeq(Append(seqs, t)) = FlattenSeq(seqs) \o t
  BY <1>3, <1>4, FlattenAppend
<1> QED
  BY <1>5, <1>6, <1>s, <1>t DEF First

\* What all blocks hold is the first NBlocks, when all can be read.
LEMMA AllIsFirst ==
  ASSUME IsDnode(d), WellFormed, \A b \in 0 .. NBlocks - 1 : Readable(Leaf(b))
  PROVE  AllData = First(NBlocks)
<1>n. PICK n : n = NBlocks
  OBVIOUS
<1>1. n \in Nat /\ Cardinality(Leaves) = n
  BY <1>n, LeavesAreFirst
<1>2. \A i \in 1 .. n : Readable(Leaf(i - 1))
  <2>1. \A i \in 1 .. n : i - 1 \in 0 .. n - 1
    BY <1>1
  <2> QED
    BY <1>n, <2>1
<1>3. [i \in 1 .. n |-> IF Readable(Leaf(i - 1)) THEN Data(Leaf(i - 1)) ELSE <<>>]
        = [i \in 1 .. n |-> Data(Leaf(i - 1))]
  BY <1>2
<1> QED
  BY <1>1, <1>3, <1>n DEF AllData, First

\* What is said of the blocks stays true.
LEMMA ContentStays ==
  ASSUME d' = d
  PROVE  /\ Solid' = Solid
         /\ AllData' = AllData
         /\ \A n : First(n)' = First(n)
         /\ (\A b \in Leaves : Readable(Leaf(b)))' = (\A b \in Leaves : Readable(Leaf(b)))
         /\ (\A b \in Leaves : ~Leaf(b).hole)' = (\A b \in Leaves : ~Leaf(b).hole)
<1>1. /\ WellFormed' = WellFormed /\ Leaves' = Leaves
      /\ \A b : Leaf(b)' = Leaf(b)
      /\ \A p : Readable(p)' = Readable(p) /\ Data(p)' = Data(p)
  BY ImageDecides
<1> USE DEF Leaf, Layer, Levels, Children, Fanout, Readable, Kids, Data
<1>2. (\A b \in Leaves : ~Leaf(b).hole)' = (\A b \in Leaves : ~Leaf(b).hole)
  BY DEF Leaves
<1>3. (\A b \in Leaves : Readable(Leaf(b)))' = (\A b \in Leaves : Readable(Leaf(b)))
  BY DEF Leaves
<1>4. Solid' = Solid
  BY <1>1, <1>2 DEF Solid
<1>5. AllData' = AllData
  BY DEF AllData, Leaves
<1>6. \A n : First(n)' = First(n)
  BY DEF First
<1> QED
  BY <1>2, <1>3, <1>4, <1>5, <1>6

\* Block by block: each is read behind the one before it, or the call fails
\* (zpl.rs:197-206, zap.rs:111-115).
LEMMA StepContent == Typed /\ PathInv /\ ContentInv /\ [Next]_vars => ContentInv'
<1> SUFFICES ASSUME Typed, PathInv, ContentInv, [Next]_vars PROVE ContentInv'
  OBVIOUS
<1>1. d' = d
  BY ImageStays
<1>2. /\ WellFormed' = WellFormed /\ NBlocks' = NBlocks
      /\ \A b : Leaf(b)' = Leaf(b)
      /\ \A p : Readable(p)' = Readable(p)
  BY <1>1, ImageDecides
<1>3. /\ Solid' = Solid /\ AllData' = AllData /\ \A n : First(n)' = First(n)
      /\ (\A b \in Leaves : Readable(Leaf(b)))' = (\A b \in Leaves : Readable(Leaf(b)))
      /\ (\A b \in Leaves : ~Leaf(b).hole)' = (\A b \in Leaves : ~Leaf(b).hole)
  BY <1>1, ContentStays
<1>4. IsDnode(d) /\ blkid \in Nat
  BY DEF Typed, TypeOK, IsCase
<1> DEFINE Cut == IF d.request.size = NoSize \/ d.request.size >= Len(AllData) THEN AllData
                  ELSE SubSeq(AllData, 1, d.request.size)
           Outcome == IF \A b \in Leaves : Readable(Leaf(b)) THEN result = "ok" /\ out = Cut
                      ELSE result = "err"
           Ended == IF \A b \in Leaves : Readable(Leaf(b)) THEN result' = "ok" /\ out' = Cut
                    ELSE result' = "err"
<1>5. WholeContent <=> (pc = "returned" /\ Solid => Outcome)
  BY DEF WholeContent, ContentRead, Solid
<1>6. WholeContent' <=> (pc' = "returned" /\ Solid => Ended)
  <2>1. Outcome' <=> Ended
    BY <1>1, <1>3
  <2>2. WholeContent' <=> (pc' = "returned" /\ Solid' => Outcome')
    BY DEF WholeContent, ContentRead, Solid
  <2> HIDE DEF Outcome, Ended
  <2> QED
    BY <1>3, <2>1, <2>2
<1> HIDE DEF Outcome, Ended
<1>7. ASSUME ~Solid PROVE ContentInv'
  BY <1>3, <1>6, <1>7 DEF ContentInv, ReadSoFar
<1>8. ASSUME Solid, pc' = "returned", Ended PROVE ContentInv'
  BY <1>6, <1>8 DEF ContentInv, ReadSoFar
<1>9. ASSUME pc # "returned", pc' # "returned", blkid' = blkid, out' = out PROVE ContentInv'
  <2>1. ReadSoFar'
    <3>1. SUFFICES ASSUME Solid PROVE ReadSoFar'
      BY <1>3 DEF ReadSoFar
    <3>2. /\ blkid \in 0 .. NBlocks /\ out = First(blkid)
          /\ \A b \in 0 .. blkid - 1 : Readable(Leaf(b))
      BY <1>9, <3>1 DEF ContentInv, ReadSoFar
    <3>3. \A b : Readable(Leaf(b))' = Readable(Leaf(b))
      BY <1>1, <1>2 DEF Readable
    <3>4. First(blkid)' = First(blkid)
      BY <1>3, <1>9 DEF First
    <3>5. (\A b \in 0 .. blkid - 1 : Readable(Leaf(b)))'
      BY <1>9, <3>2, <3>3
    <3> QED
      BY <1>2, <1>9, <3>2, <3>4, <3>5 DEF ReadSoFar
  <2> QED
    BY <1>6, <1>9, <2>1 DEF ContentInv
<1>10. ASSUME Solid
       PROVE  /\ WellFormed /\ d.bs # 0 /\ d.nlevels # 0 /\ d.request.what = "content"
              /\ NBlocks \in Nat \ {0} /\ NBlocks <= d.maxblkid + 1 /\ d.maxblkid \in Nat
              /\ Leaves = 0 .. NBlocks - 1
              /\ LastBlock = NBlocks - 1
  BY <1>4, <1>10, LeavesAreFirst DEF Solid, WellFormed, LastBlock, IsDnode
<1>11. ASSUME Solid, pc # "returned"
       PROVE  /\ blkid \in 0 .. NBlocks /\ out = First(blkid)
              /\ \A b \in 0 .. blkid - 1 : Readable(Leaf(b))
  BY <1>11 DEF ContentInv, ReadSoFar
<1>12. CASE RefuseBlockSize
  BY <1>7, <1>10, <1>12 DEF RefuseBlockSize
<1>13. CASE RefuseBlock
  <2>1. SUFFICES ASSUME Solid PROVE FALSE
    BY <1>7
  <2>2. blkid <= LastBlock /\ ~Addressable
    BY <1>13 DEF RefuseBlock, AtBlock
  <2>3. blkid <= d.maxblkid
    BY <1>4, <1>10, <2>1, <2>2
  <2> QED
    BY <1>10, <2>1, <2>2, <2>3 DEF Addressable
<1>14. CASE ShiftPanics
  <2>1. SUFFICES ASSUME Solid PROVE FALSE
    BY <1>7
  <2>2. TopShift \in Nat
    <3>1. TopLevel \in Nat /\ d.shift \in Nat
      BY <1>4, <1>10, <2>1, LevelFacts
    <3> QED
      BY <3>1 DEF TopShift
  <2>3. TopShift >= Width /\ TopShift < Width
    BY <1>10, <1>14, <2>1 DEF ShiftPanics, WellFormed
  <2> QED
    BY <2>2, <2>3, BoundsAssumption
<1>15. CASE TopMissing \/ Unreadable \/ ChildMissing
  <2>1. SUFFICES ASSUME Solid PROVE ContentInv'
    BY <1>7
  <2>2. pc # "returned" /\ pc' = "returned" /\ result' = "err" /\ blkid <= LastBlock
    BY <1>15 DEF TopMissing, AtBlock, Unreadable, ChildMissing, Fail, Return, PathInv, Asked
  <2>3. Leaf(blkid).hole \/ ~Readable(Leaf(blkid))
    BY <1>10, <1>15, <2>1, ErrorIsTheBlocks
  <2>4. blkid \in Leaves
    BY <1>4, <1>10, <2>1, <2>2
  <2>5. ~Readable(Leaf(blkid))
    BY <2>1, <2>3, <2>4 DEF Solid
  <2>6. Ended
    BY <2>2, <2>4, <2>5 DEF Ended
  <2> QED
    BY <1>8, <2>1, <2>2, <2>6
<1>16. CASE FromTop
  BY <1>9, <1>16 DEF FromTop, AtBlock
<1>17. CASE Descend
  BY <1>9, <1>17 DEF Descend
<1>18. CASE ReadLeaf
  <2>1. SUFFICES ASSUME Solid PROVE ContentInv'
    BY <1>7
  <2>2. /\ pc = "leaf" /\ Readable(bp) /\ out' = out \o Data(bp) /\ blkid' = blkid + 1
        /\ pc' = "block"
    BY <1>18 DEF ReadLeaf
  <2>3. blkid <= LastBlock
    BY <2>2 DEF PathInv, Asked
  <2>4. blkid \in Leaves /\ blkid + 1 \in 0 .. NBlocks
    BY <1>4, <1>10, <2>1, <2>3
  <2>5. bp = Leaf(blkid)
    BY <1>10, <2>1, <2>2, <2>4, ReachesLeaf DEF Solid
  <2>6. \A b \in 0 .. blkid : Readable(Leaf(b))
    <3>1. \A b \in 0 .. blkid : b = blkid \/ b \in 0 .. blkid - 1
      BY <1>4
    <3> QED
      BY <1>11, <2>1, <2>2, <2>5, <3>1
  <2>7. out' = First(blkid + 1)
    BY <1>4, <1>10, <1>11, <2>1, <2>2, <2>5, <2>6, FirstNext
  <2>8. First(blkid)' = First(blkid + 1)
    BY <1>3, <2>2 DEF First
  <2>9. (\A b \in 0 .. blkid - 1 : Readable(Leaf(b)))'
    <3>1. (blkid + 1) - 1 = blkid
      BY <1>4
    <3>2. \A b : Readable(Leaf(b))' = Readable(Leaf(b))
      BY <1>1, <1>2 DEF Readable
    <3> QED
      BY <2>2, <2>6, <3>1, <3>2
  <2>10. ReadSoFar'
    BY <1>2, <2>2, <2>4, <2>7, <2>8, <2>9 DEF ReadSoFar
  <2> QED
    BY <1>6, <2>2, <2>10 DEF ContentInv
<1>19. CASE ReturnContent
  <2>1. SUFFICES ASSUME Solid PROVE ContentInv'
    BY <1>7
  <2>2. /\ pc = "block" /\ blkid > LastBlock /\ result' = "ok" /\ pc' = "returned"
        /\ out' = IF d.request.size = NoSize \/ d.request.size >= Len(out) THEN out
                  ELSE SubSeq(out, 1, d.request.size)
    BY <1>19 DEF ReturnContent, Return
  <2>3. blkid = NBlocks
    BY <1>4, <1>10, <1>11, <2>1, <2>2
  <2>4. (\A b \in Leaves : Readable(Leaf(b))) /\ out = AllData
    <3>1. \A b \in 0 .. NBlocks - 1 : Readable(Leaf(b))
      BY <1>11, <2>1, <2>2, <2>3
    <3>2. AllData = First(NBlocks)
      BY <1>4, <1>10, <2>1, <3>1, AllIsFirst
    <3> QED
      BY <1>10, <1>11, <2>1, <2>2, <2>3, <3>1, <3>2
  <2>5. Ended
    BY <2>2, <2>4 DEF Ended
  <2> QED
    BY <1>8, <2>1, <2>2, <2>5
<1>20. CASE ReturnSlot
  <2>1. d.request.what = "slot"
    BY <1>20 DEF ReturnSlot
  <2> QED
    BY <1>7, <2>1 DEF Solid
<1>21. CASE Returned \/ UNCHANGED vars
  <2>1. UNCHANGED <<pc, blkid, out, result>>
    BY <1>21 DEF Returned, vars
  <2>2. CASE pc = "returned"
    <3>1. SUFFICES ASSUME Solid PROVE ContentInv'
      BY <1>7
    <3>2. Outcome
      BY <1>5, <2>2, <3>1 DEF ContentInv
    <3>3. Ended
      BY <2>1, <3>2 DEF Outcome, Ended
    <3> QED
      BY <1>8, <2>1, <2>2, <3>1, <3>3
  <2>3. CASE pc # "returned"
    BY <1>9, <2>1, <2>3
  <2> QED
    BY <2>2, <2>3
<1> QED
  BY <1>12, <1>13, <1>14, <1>15, <1>16, <1>17, <1>18, <1>19, <1>20, <1>21 DEF Next

\* Before the first block nothing is read, which is what none of them hold.
LEMMA InitContent == Init => ContentInv
<1> SUFFICES ASSUME Init PROVE ContentInv
  OBVIOUS
<1>1. pc = "block" /\ out = <<>> /\ blkid = FirstBlock
  BY DEF Init
<1>2. IsDnode(d)
  BY InitTyped DEF Typed, TypeOK, IsCase
<1>3. ReadSoFar
  <2>1. SUFFICES ASSUME Solid PROVE ReadSoFar
    BY DEF ReadSoFar
  <2>2. blkid = 0
    BY <1>1, <2>1 DEF Solid, FirstBlock
  <2>3. NBlocks \in Nat \ {0}
    BY <1>2, <2>1, LeavesAreFirst DEF Solid
  <2>4. 0 \in 0 .. NBlocks /\ 0 .. 0 - 1 = {}
    BY <2>3
  <2>5. First(0) = <<>>
    BY FirstNone
  <2> QED
    BY <1>1, <2>2, <2>4, <2>5 DEF ReadSoFar
<1>4. WholeContent
  BY <1>1 DEF WholeContent, ContentRead
<1> QED
  BY <1>3, <1>4 DEF ContentInv

\* A file without holes (zpl_read_file_with, zpl.rs:171-206; read_zap_object,
\* zap.rs:92-116) is read whole, each block once and in its place, or not at all,
\* for every depth, fanout, block size and cap.
THEOREM ContentIsWhole == Spec => []WholeContent
<1>1. ContentInv => WholeContent
  BY DEF ContentInv
<1> QED
  BY <1>1, InitTyped, StepTyped, InitPath, StepPath, InitContent, StepContent, PTL DEF Spec

(***************************************************************************)
(* The content of a file with holes.  A hole met on the way down reads at  *)
(* its own length, and zeros are not data.                                 *)
(***************************************************************************)

Reading == d.request.what = "content" /\ WellFormed

StoredSoFar ==
  Reading /\ pc # "returned" =>
    /\ blkid \in 0 .. NBlocks
    /\ \A b \in 0 .. blkid - 1 : Readable(Leaf(b))
    /\ out \in Seq(Unit)
    /\ Stored(out) = Stored(First(blkid))

StoredInv == StoredSoFar /\ StoredDataInOrder

\* A hole reads as zeros, whatever its length (read_block, read.rs:85-92).
LEMMA HolesHoldNothing ==
  ASSUME NEW b \in Bp, b.hole
  PROVE  Stored(Data(b)) = <<>>
<1>1. Data(b) = [k \in 1 .. b.lsize |-> Zero]
  BY DEF Data
<1>2. b.lsize \in Nat
  BY DEF Bp
<1>3. Data(b) \in Seq({Zero})
  BY <1>1, <1>2
<1>4. {Zero} \cap (Unit \ {Zero}) = {}
  OBVIOUS
<1> QED
  BY <1>3, <1>4, ThoseNone DEF Stored

\* The blocks read so far are units.
LEMMA FirstTypes ==
  ASSUME IsDnode(d), WellFormed, NEW n \in Nat, \A b \in 0 .. n - 1 : Readable(Leaf(b))
  PROVE  First(n) \in Seq(Unit)
<1>s. PICK seqs : seqs = [i \in 1 .. n |-> Data(Leaf(i - 1))]
  OBVIOUS
<1>1. \A i \in 1 .. n : i - 1 \in 0 .. n - 1 /\ i - 1 \in Nat
  OBVIOUS
<1>2. \A i \in 1 .. n : Data(Leaf(i - 1)) \in Seq(Unit)
  BY <1>1, LeafTypes
<1>3. seqs \in Seq(Seq(Unit))
  BY <1>s, <1>2
<1> QED
  BY <1>s, <1>3, FlattenTypes DEF First

\* What is said of the stored data stays true.
LEMMA StoredStays ==
  ASSUME d' = d
  PROVE  /\ Reading' = Reading
         /\ AllData' = AllData
         /\ \A n : First(n)' = First(n)
<1>1. WellFormed' = WellFormed
  BY ImageDecides
<1>2. AllData' = AllData /\ \A n : First(n)' = First(n)
  BY ContentStays
<1>3. Reading' = Reading
  BY <1>1 DEF Reading
<1> QED
  BY <1>2, <1>3

\* One more block: its data goes behind the data read before it, a hole in its
\* place adds none (zpl.rs:199, zap.rs:113).
LEMMA StoredNext ==
  ASSUME Typed, PathInv, StoredSoFar, Reading, ReadLeaf
  PROVE  /\ blkid + 1 \in 0 .. NBlocks
         /\ \A b \in 0 .. blkid : Readable(Leaf(b))
         /\ out' \in Seq(Unit)
         /\ Stored(out') = Stored(First(blkid + 1))
<1>1. IsDnode(d) /\ blkid \in Nat /\ bp \in Bp /\ WellFormed /\ d.request.what = "content"
  BY DEF Typed, TypeOK, IsCase, Reading
<1>2. pc = "leaf" /\ Readable(bp) /\ out' = out \o Data(bp)
  BY DEF ReadLeaf
<1>3. /\ blkid \in 0 .. NBlocks /\ out \in Seq(Unit) /\ Stored(out) = Stored(First(blkid))
      /\ \A b \in 0 .. blkid - 1 : Readable(Leaf(b))
  BY <1>2 DEF StoredSoFar
<1>4. NBlocks \in Nat \ {0} /\ LastBlock = NBlocks - 1
  BY <1>1, LeavesAreFirst DEF LastBlock
<1>5. blkid + 1 \in 0 .. NBlocks
  <2>1. blkid <= LastBlock
    BY <1>2 DEF PathInv, Asked
  <2> QED
    BY <1>1, <1>4, <2>1
<1>6. bp = Leaf(blkid) \/ (bp.hole /\ Leaf(blkid).hole)
  BY <1>1, <1>2, ReachesLeaf
<1>7. \A b \in 0 .. blkid : Readable(Leaf(b))
  <2>1. Readable(Leaf(blkid))
    BY <1>2, <1>6 DEF Readable
  <2>2. \A b \in 0 .. blkid : b = blkid \/ b \in 0 .. blkid - 1
    BY <1>1
  <2> QED
    BY <1>3, <2>1, <2>2
<1>l. PICK leaf : leaf = Leaf(blkid)
  OBVIOUS
<1>8. leaf \in Bp /\ Readable(leaf) /\ Data(leaf) \in Seq(Unit) /\ Data(bp) \in Seq(Unit)
  <2>1. blkid \in 0 .. blkid
    BY <1>1
  <2> QED
    BY <1>1, <1>2, <1>7, <1>l, <2>1, LeafTypes, BlockTypes
<1>9. Stored(Data(bp)) = Stored(Data(leaf))
  <2>1. CASE bp = leaf
    BY <2>1
  <2>2. CASE bp.hole /\ leaf.hole
    BY <1>1, <1>8, <2>2, HolesHoldNothing
  <2> QED
    BY <1>6, <1>l, <2>1, <2>2
<1>f. PICK first : first = First(blkid)
  OBVIOUS
<1>10. first \in Seq(Unit)
  BY <1>1, <1>3, <1>f, FirstTypes
<1>11. First(blkid + 1) = first \o Data(leaf)
  BY <1>1, <1>7, <1>f, <1>l, FirstNext
<1>12. Stored(first \o Data(leaf)) = Stored(first) \o Stored(Data(leaf))
  BY <1>8, <1>10, ThoseConcat DEF Stored
<1>13. Stored(out \o Data(bp)) = Stored(out) \o Stored(Data(bp))
  BY <1>3, <1>8, ThoseConcat, SMTT(30) DEF Stored
<1>14. Stored(out') = Stored(First(blkid + 1))
  BY <1>2, <1>3, <1>9, <1>11, <1>12, <1>13, <1>f
<1>15. out' \in Seq(Unit)
  <2>1. out \o Data(bp) \in Seq(Unit)
    BY <1>3, <1>8, ConcatParts
  <2> QED
    BY <1>2, <2>1
<1> QED
  BY <1>5, <1>7, <1>14, <1>15

\* What is cut off at the logical size is the end (truncate, zpl.rs:204).
LEMMA StoredCut ==
  ASSUME NEW s \in Seq(Unit), NEW size \in Nat, ~ (size >= Len(s))
  PROVE  IsPrefix(Stored(SubSeq(s, 1, size)), Stored(s))
<1>n. PICK n : n = Len(s)
  OBVIOUS
<1>1. n \in Nat
  BY <1>n
<1>2. size \in 0 .. Len(s)
  BY <1>1, <1>n
<1>3. SubSeq(s, 1, size) \in Seq(Unit) /\ IsPrefix(SubSeq(s, 1, size), s)
  BY <1>2, CutIsPrefix
<1> QED
  BY <1>3, ThosePrefix DEF Stored

\* A sequence is a prefix of itself.
LEMMA PrefixOfItself == \A s \in Seq(Unit) : IsPrefix(s, s)
<1> TAKE s \in Seq(Unit)
<1>1. <<>> \in Seq(Unit) /\ s = s \o <<>>
  OBVIOUS
<1> QED
  BY <1>1, PrefixIs

\* Block by block, and at the end the cut.
LEMMA StepStored == Typed /\ PathInv /\ StoredInv /\ [Next]_vars => StoredInv'
<1> SUFFICES ASSUME Typed, PathInv, StoredInv, [Next]_vars PROVE StoredInv'
  OBVIOUS
<1>1. d' = d
  BY ImageStays
<1>2. /\ Reading' = Reading /\ AllData' = AllData /\ NBlocks' = NBlocks
      /\ \A n : First(n)' = First(n)
      /\ \A b : Readable(Leaf(b))' = Readable(Leaf(b))
  <2>1. /\ NBlocks' = NBlocks /\ \A b : Leaf(b)' = Leaf(b)
        /\ \A p : Readable(p)' = Readable(p)
    BY <1>1, ImageDecides
  <2>2. \A b : Readable(Leaf(b))' = Readable(Leaf(b))
    BY <1>1, <2>1 DEF Readable
  <2> QED
    BY <1>1, <2>1, <2>2, StoredStays
<1>3. IsDnode(d) /\ blkid \in Nat /\ d.request \in Request
  BY DEF Typed, TypeOK, IsCase
<1> DEFINE Ended == /\ IsPrefix(Stored(out'), Stored(AllData))
                    /\ d.request.size = NoSize => Stored(out') = Stored(AllData)
<1>4. StoredDataInOrder' <=> (pc' = "returned" /\ Reading /\ result' = "ok" => Ended)
  <2>1. StoredDataInOrder <=> (pc = "returned" /\ Reading /\ result = "ok" =>
          /\ IsPrefix(Stored(out), Stored(AllData))
          /\ d.request.size = NoSize => Stored(out) = Stored(AllData))
    BY DEF StoredDataInOrder, ContentRead, Reading
  <2>2. StoredDataInOrder' <=> (pc' = "returned" /\ Reading' /\ result' = "ok" =>
          /\ IsPrefix(Stored(out'), Stored(AllData'))
          /\ d'.request.size = NoSize => Stored(out') = Stored(AllData'))
    BY DEF StoredDataInOrder, ContentRead, Reading, Stored
  <2> QED
    BY <1>1, <1>2, <2>2
<1> HIDE DEF Ended
<1>5. ASSUME ~Reading PROVE StoredInv'
  BY <1>2, <1>4, <1>5 DEF StoredInv, StoredSoFar
<1>6. ASSUME pc' = "returned", result' # "ok" PROVE StoredInv'
  BY <1>4, <1>6 DEF StoredInv, StoredSoFar
<1>7. ASSUME pc' = "returned", Ended PROVE StoredInv'
  BY <1>4, <1>7 DEF StoredInv, StoredSoFar
<1>8. ASSUME pc # "returned", pc' # "returned", blkid' = blkid, out' = out PROVE StoredInv'
  <2>1. StoredDataInOrder'
    BY <1>4, <1>8
  <2>2. StoredSoFar'
    <3>1. SUFFICES ASSUME Reading PROVE StoredSoFar'
      BY <1>2 DEF StoredSoFar
    <3>2. /\ blkid \in 0 .. NBlocks /\ out \in Seq(Unit) /\ Stored(out) = Stored(First(blkid))
          /\ \A b \in 0 .. blkid - 1 : Readable(Leaf(b))
      BY <1>8, <3>1 DEF StoredInv, StoredSoFar
    <3>3. First(blkid)' = First(blkid)
      BY <1>2, <1>8 DEF First
    <3>4. Stored(out)' = Stored(First(blkid))'
      BY <1>8, <3>2, <3>3 DEF Stored
    <3>5. (\A b \in 0 .. blkid - 1 : Readable(Leaf(b)))'
      BY <1>2, <1>8, <3>2
    <3> QED
      BY <1>2, <1>8, <3>2, <3>4, <3>5 DEF StoredSoFar
  <2> QED
    BY <2>1, <2>2 DEF StoredInv
<1>9. CASE RefuseBlockSize \/ RefuseBlock \/ ShiftPanics \/ TopMissing \/ Unreadable \/ ChildMissing
  <2>1. pc' = "returned" /\ result' # "ok"
    BY <1>9 DEF RefuseBlockSize, RefuseBlock, ShiftPanics, TopMissing, Unreadable, ChildMissing, Fail, Return
  <2> QED
    BY <1>6, <2>1
<1>10. CASE FromTop
  BY <1>8, <1>10 DEF FromTop, AtBlock
<1>11. CASE Descend
  BY <1>8, <1>11 DEF Descend
<1>12. CASE ReadLeaf
  <2>1. SUFFICES ASSUME Reading PROVE StoredInv'
    BY <1>5
  <2>2. /\ blkid + 1 \in 0 .. NBlocks
        /\ \A b \in 0 .. blkid : Readable(Leaf(b))
        /\ out' \in Seq(Unit)
        /\ Stored(out') = Stored(First(blkid + 1))
    BY <1>12, <2>1, StoredNext DEF StoredInv
  <2>3. blkid' = blkid + 1 /\ pc' = "block" /\ (blkid + 1) - 1 = blkid
    BY <1>3, <1>12 DEF ReadLeaf
  <2>4. First(blkid)' = First(blkid + 1)
    BY <1>2, <2>3 DEF First
  <2>5. Stored(out)' = Stored(First(blkid))'
    BY <2>2, <2>4 DEF Stored
  <2>6. (\A b \in 0 .. blkid - 1 : Readable(Leaf(b)))'
    BY <1>2, <2>2, <2>3
  <2>7. StoredSoFar'
    BY <1>2, <2>2, <2>3, <2>5, <2>6 DEF StoredSoFar
  <2>8. StoredDataInOrder'
    BY <1>4, <2>3
  <2> QED
    BY <2>7, <2>8 DEF StoredInv
<1>13. CASE ReturnContent
  <2>1. SUFFICES ASSUME Reading PROVE StoredInv'
    BY <1>5
  <2>2. /\ pc = "block" /\ blkid > LastBlock /\ pc' = "returned"
        /\ out' = IF d.request.size = NoSize \/ d.request.size >= Len(out) THEN out
                  ELSE SubSeq(out, 1, d.request.size)
    BY <1>13 DEF ReturnContent, Return
  <2>3. /\ blkid \in 0 .. NBlocks /\ out \in Seq(Unit) /\ Stored(out) = Stored(First(blkid))
        /\ \A b \in 0 .. blkid - 1 : Readable(Leaf(b))
    BY <2>1, <2>2 DEF StoredInv, StoredSoFar
  <2>4. WellFormed /\ d.request.what = "content"
    BY <2>1 DEF Reading
  <2>5. NBlocks \in Nat \ {0} /\ LastBlock = NBlocks - 1
    BY <1>3, <2>4, LeavesAreFirst DEF LastBlock
  <2>6. blkid = NBlocks
    BY <1>3, <2>2, <2>3, <2>5
  <2>7. Stored(out) = Stored(AllData)
    BY <1>3, <2>3, <2>4, <2>6, AllIsFirst
  <2>8. Ended
    <3>1. CASE out' = out
      <4>1. Stored(out) \in Seq(Unit)
        BY <2>3, ThoseTypes DEF Stored
      <4>2. IsPrefix(Stored(out), Stored(out))
        BY <4>1, PrefixOfItself
      <4> QED
        BY <2>7, <3>1, <4>2 DEF Ended
    <3>2. CASE out' # out
      <4>1. /\ d.request.size # NoSize /\ ~ (d.request.size >= Len(out))
            /\ out' = SubSeq(out, 1, d.request.size)
        BY <2>2, <3>2
      <4>2. d.request.size \in Nat
        BY <1>3, <2>4, <4>1 DEF Request
      <4>3. IsPrefix(Stored(out'), Stored(out))
        BY <2>3, <4>1, <4>2, StoredCut
      <4> QED
        BY <2>7, <4>1, <4>3 DEF Ended
    <3> QED
      BY <3>1, <3>2
  <2> QED
    BY <1>7, <2>2, <2>8
<1>14. CASE ReturnSlot
  <2>1. d.request.what = "slot"
    BY <1>14 DEF ReturnSlot
  <2> QED
    BY <1>5, <2>1 DEF Reading
<1>15. CASE Returned \/ UNCHANGED vars
  <2>1. UNCHANGED <<d, pc, blkid, out, result>>
    BY <1>15 DEF Returned, vars
  <2>2. CASE pc = "returned"
    <3>1. StoredDataInOrder'
      <4>1. pc = "returned" /\ Reading /\ result = "ok" =>
              /\ IsPrefix(Stored(out), Stored(AllData))
              /\ d.request.size = NoSize => Stored(out) = Stored(AllData)
        BY DEF StoredInv, StoredDataInOrder, ContentRead, Reading
      <4> QED
        BY <1>4, <2>1, <4>1 DEF Ended
    <3> QED
      BY <2>1, <2>2, <3>1 DEF StoredInv, StoredSoFar
  <2>3. CASE pc # "returned"
    BY <1>8, <2>1, <2>3
  <2> QED
    BY <2>2, <2>3
<1> QED
  BY <1>9, <1>10, <1>11, <1>12, <1>13, <1>14, <1>15 DEF Next

\* Before the first block nothing is read, which is what none of them hold.
LEMMA InitStored == Init => StoredInv
<1> SUFFICES ASSUME Init PROVE StoredInv
  OBVIOUS
<1>1. pc = "block" /\ out = <<>> /\ blkid = FirstBlock
  BY DEF Init
<1>2. IsDnode(d)
  BY InitTyped DEF Typed, TypeOK, IsCase
<1>3. StoredSoFar
  <2>1. SUFFICES ASSUME Reading PROVE StoredSoFar
    BY DEF StoredSoFar
  <2>2. blkid = 0
    BY <1>1, <2>1 DEF Reading, FirstBlock
  <2>3. NBlocks \in Nat \ {0}
    BY <1>2, <2>1, LeavesAreFirst DEF Reading
  <2>4. 0 \in 0 .. NBlocks /\ 0 .. 0 - 1 = {} /\ <<>> \in Seq(Unit)
    BY <2>3
  <2>5. First(0) = <<>>
    BY FirstNone
  <2> QED
    BY <1>1, <2>2, <2>4, <2>5 DEF StoredSoFar
<1>4. StoredDataInOrder
  BY <1>1 DEF StoredDataInOrder, ContentRead
<1> QED
  BY <1>3, <1>4 DEF StoredInv

\* What is returned of a sparse file is its stored data, in order, nothing left
\* out or repeated, wherever the holes are and whatever length they read as
\* (zpl_read_file_with, read_zap_object); a known size only cuts the end off.
THEOREM StoredDataIsInOrder == Spec => []StoredDataInOrder
<1>1. StoredInv => StoredDataInOrder
  BY DEF StoredInv
<1> QED
  BY <1>1, InitTyped, StepTyped, InitPath, StepPath, InitStored, StepStored, PTL DEF Spec
=============================================================================
