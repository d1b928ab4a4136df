------------------------------ MODULE ZapProofs ------------------------------
(***************************************************************************)
(* Theorems about the listing of a ZAP object (core/src/zap.rs:127-350):   *)
(* no chain of chunks yields more than the leaf holds, and an object whose *)
(* chains end is listed entry by entry, with whole names and values,       *)
(* whatever the chains of its other entries do.                            *)
(***************************************************************************)
EXTENDS Zap, DnodeTreeProofs

(***************************************************************************)
(* Types.                                                                  *)
(***************************************************************************)

\* A chunk's fields by its type byte (zap.rs:224-350).
LEMMA ChunkKinds ==
  ASSUME NEW c \in Chunk
  PROVE  /\ c.type = "entry" => c \in EntryChunk
         /\ c.type = "array" => c \in ArrayChunk
BY DEF Chunk, EntryChunk, ArrayChunk, FreeChunk

\* The payload of an array chunk, as bytes (zap.rs:345).
LEMMA PayloadType ==
  ASSUME NEW c \in ArrayChunk
  PROVE  c.bytes \in Seq(Byte) /\ Len(c.bytes) = ArrayBytes /\ c.next \in 0 .. End
<1>1. c.bytes \in [1 .. ArrayBytes -> Byte] /\ c.next \in 0 .. End
  BY DEF ArrayChunk
<1>2. ArrayBytes \in Nat
  BY SizesAssumption
<1> QED
  BY <1>1, <1>2

\* A chain element is an array chunk of the leaf (array_bytes, zap.rs:331-345).
LEMMA ArrayInLeaf ==
  ASSUME NEW cs \in Seq(Chunk), NEW c \in Nat, IsArray(cs, c)
  PROVE  cs[c + 1] \in ArrayChunk /\ c + 1 \in DOMAIN cs
<1>1. c + 1 \in 1 .. Len(cs) /\ DOMAIN cs = 1 .. Len(cs)
  BY DEF IsArray
<1>2. cs[c + 1] \in Chunk
  BY <1>1
<1> QED
  BY <1>1, <1>2, ChunkKinds DEF IsArray

\* One more entry, and the list is a list of entries (out.push, zap.rs:153, 214).
LEMMA AppendType ==
  ASSUME NEW S, NEW s \in Seq(S), NEW x \in S
  PROVE  Append(s, x) \in Seq(S) /\ Len(Append(s, x)) = Len(s) + 1
OBVIOUS

\* A name without its terminator, a value cut to its length, are bytes still.
LEMMA CutTypes ==
  ASSUME NEW s \in Seq(Byte), NEW n \in Nat
  PROVE  Truncate(s, n) \in Seq(Byte) /\ Unterminated(s) \in Seq(Byte)
<1>1. Truncate(s, n) \in Seq(Byte)
  <2>1. CASE Len(s) <= n
    BY <2>1 DEF Truncate
  <2>2. CASE ~(Len(s) <= n)
    <3>1. n \in 0 .. Len(s)
      BY <2>2
    <3> QED
      BY <2>2, <3>1, CutIsPrefix DEF Truncate
  <2> QED
    BY <2>1, <2>2
<1>2. Unterminated(s) \in Seq(Byte)
  <2>1. CASE s # <<>>
    <3>1. Len(s) - 1 \in 0 .. Len(s)
      BY <2>1
    <3>2. Front(s) \in Seq(Byte)
      BY <3>1, CutIsPrefix DEF Front
    <3> QED
      BY <3>2 DEF Unterminated
  <2>2. CASE s = <<>>
    BY <2>2 DEF Unterminated
  <2> QED
    BY <2>1, <2>2
<1> QED
  BY <1>1, <1>2

\* Where the walk is: a leaf is only entered under a size at which a leaf begins, and a
\* chain only followed for an entry of it.
Cursor ==
  /\ ci \in Nat
  /\ pc = "dispatch" => ci = 0
  /\ pc = "micro" => ci <= Len(z.slots)
  /\ pc \in {"block", "chunk", "name", "value"} => bs \in z.sig \/ off >= z.len
  /\ pc \in {"chunk", "name", "value"} => off \in z.sig
  /\ pc \in {"name", "value"} => ci < Len(Chunks) /\ Entry.type = "entry"

Typed == TypeOK /\ Cursor

\* The object is only read.
LEMMA ObjectStays == [Next]_vars => z' = z
BY DEF Next, vars, Dispatch, MicroSlot, MicroEnds, ProbeFinds, ProbeNext, ProbeFails, FirstBlock,
       SkipBlock, EnterLeaf, EndOfObject, SkipChunk, LeaveLeaf, EnterEntry, Follow, NameRead,
       ValueRead, Returned

\* In a leaf, the chunks are chunks, fewer than a chain's end can name.
LEMMA LeafTypes ==
  ASSUME Typed, pc \in {"chunk", "name", "value"}
  PROVE  /\ Chunks \in Seq(Chunk) /\ Len(Chunks) < End /\ Len(Chunks) \in Nat
         /\ ci < Len(Chunks) => Entry \in Chunk
<1>1. Chunks \in Seq(Chunk) /\ Len(Chunks) < End
  BY DEF Typed, TypeOK, IsObject, Chunks
<1>2. ASSUME ci < Len(Chunks)
      PROVE  Entry \in Chunk
  <2>1. ci + 1 \in 1 .. Len(Chunks)
    BY <1>2 DEF Typed, Cursor
  <2> QED
    BY <1>1, <2>1 DEF Entry
<1> QED
  BY <1>1, <1>2

\* The entry under the cursor says where its chains start and how much it wants of them.
LEMMA EntryTypes ==
  ASSUME Typed, pc \in {"name", "value"}
  PROVE  Entry \in EntryChunk /\ Want \in Nat
<1>1. Entry \in EntryChunk
  BY LeafTypes, ChunkKinds DEF Typed, Cursor
<1> QED
  BY <1>1 DEF EntryChunk, Want

\* A chain starts within the object's chunk numbers, with nothing read.
LEMMA InitTyped == Init => Typed
<1> SUFFICES ASSUME Init
             PROVE  Typed
  OBVIOUS
<1>1. IsObject(z)
  BY ObjectsAssumption DEF Init
<1>2. End \in Nat
  BY SizesAssumption
<1> QED
  BY <1>1, <1>2 DEF Init, Typed, TypeOK, Cursor

\* What each step of the walk does to the types and to the place of its cursor.
LEMMA StepTyped == Typed /\ [Next]_vars => Typed'
<1> SUFFICES ASSUME Typed, [Next]_vars
             PROVE  Typed'
  OBVIOUS
<1> USE DEF Typed
<1>z. z' = z /\ IsObject(z) /\ End \in Nat /\ MaxBlock \in Nat
  BY ObjectStays, SizesAssumption DEF TypeOK
<1>k. z.kind \in {"micro", "fat", "other"} /\ z.len \in Nat /\ z.slots \in Seq([name: Seq(Byte), value: Seq(Byte)])
  BY <1>z DEF IsObject
<1>1. CASE Dispatch
  BY <1>1, <1>z, <1>k DEF Dispatch, TypeOK, Cursor, chain
<1>2. CASE MicroSlot
  <2> DEFINE P == [name: Seq(Byte), value: Seq(Byte)]
  <2>3. Len(z.slots) \in Nat /\ z.slots \in Seq(P) /\ out \in Seq(P)
    BY <1>k DEF TypeOK
  <2> HIDE DEF P
  <2>1. ci + 1 \in 1 .. Len(z.slots) /\ z.slots[ci + 1] \in P
    BY <1>2, <2>3 DEF MicroSlot, Cursor
  <2>4. out' \in Seq(P)
    BY <1>2, <2>1, <2>3, AppendType DEF MicroSlot
  <2>2. out' \in Seq([name: Seq(Byte), value: Seq(Byte)])
    BY <2>4 DEF P
  <2> QED
    BY <1>2, <1>z, <2>1, <2>2, <2>3 DEF MicroSlot, TypeOK, Cursor, chain
<1>3. CASE MicroEnds
  BY <1>3, <1>z DEF MicroEnds, TypeOK, Cursor, chain
<1>4. CASE ProbeFinds
  BY <1>4, <1>z DEF ProbeFinds, Probing, FirstBlock, TypeOK, Cursor, chain
<1>5. CASE ProbeNext
  BY <1>5, <1>z DEF ProbeNext, Probing, TypeOK, Cursor, chain
<1>6. CASE ProbeFails
  BY <1>6, <1>z, <1>k DEF ProbeFails, Probing, FirstBlock, TypeOK, Cursor, chain
<1>7. CASE SkipBlock
  BY <1>7, <1>z, <1>k DEF SkipBlock, NextBlock, TypeOK, Cursor, chain
<1>8. CASE EnterLeaf
  <2>1. bs \in z.sig /\ off \in z.sig /\ <<off, bs>> \in DOMAIN z.leaf
    <3>1. bs \in z.sig /\ off \in z.sig
      BY <1>8, <1>k DEF EnterLeaf, Cursor, TypeOK
    <3>2. z.sig \X z.sig \subseteq DOMAIN z.leaf
      BY <1>z DEF IsObject
    <3> QED
      BY <3>1, <3>2
  <2>2. Chunks' = Chunks /\ Len(Chunks) \in Nat
    <3>1. Chunks \in Seq(Chunk)
      BY <1>z, <2>1 DEF IsObject, Chunks
    <3> QED
      BY <1>8, <1>z, <3>1 DEF EnterLeaf, Chunks
  <2> QED
    BY <1>8, <1>z, <2>1, <2>2 DEF EnterLeaf, TypeOK, Cursor, chain
<1>9. CASE EndOfObject
  BY <1>9, <1>z DEF EndOfObject, TypeOK, Cursor, chain
<1>10. CASE SkipChunk
  <2>1. Chunks' = Chunks /\ Len(Chunks) \in Nat
    BY <1>10, <1>z, LeafTypes DEF SkipChunk, Chunks
  <2> QED
    BY <1>10, <1>z, <2>1 DEF SkipChunk, TypeOK, Cursor, chain
<1>11. CASE LeaveLeaf
  BY <1>11, <1>z, <1>k DEF LeaveLeaf, NextBlock, TypeOK, Cursor, chain
<1>12. CASE EnterEntry
  <2>1. Chunks' = Chunks /\ Entry' = Entry /\ Entry \in EntryChunk
    <3>1. Entry \in Chunk
      BY <1>12, LeafTypes DEF EnterEntry
    <3> QED
      BY <1>12, <1>z, <3>1, ChunkKinds DEF EnterEntry, Chunks, Entry
  <2>2. nc' \in 0 .. End
    BY <1>12, <2>1 DEF EnterEntry, StartChain, EntryChunk
  <2> QED
    BY <1>12, <1>z, <2>1, <2>2 DEF EnterEntry, StartChain, TypeOK, Cursor
<1>13. CASE Follow
  <2>1. Chunks' = Chunks /\ Entry' = Entry
    BY <1>13, <1>z DEF Follow, Chunks, Entry
  <2>2. Chunks[nc + 1].bytes \in Seq(Byte) /\ Chunks[nc + 1].next \in 0 .. End
    <3>1. Chunks \in Seq(Chunk) /\ nc \in Nat /\ IsArray(Chunks, nc)
      BY <1>13, <1>z, LeafTypes DEF Follow, Followable, TypeOK
    <3> QED
      BY <3>1, ArrayInLeaf, PayloadType
  <2>3. acc' \in Seq(Byte) /\ hops' \in Nat
    BY <1>13, <2>2, ConcatParts DEF Follow, TypeOK
  <2>4. pc' = pc /\ UNCHANGED <<bs, off, ci, name, out>> /\ nc' \in 0 .. End
    BY <1>13, <2>2 DEF Follow
  <2> QED
    BY <1>z, <2>1, <2>3, <2>4 DEF TypeOK, Cursor
<1>14. CASE NameRead
  <2>1. Chunks' = Chunks /\ Entry' = Entry
    BY <1>14, <1>z DEF NameRead, Chunks, Entry
  <2>2. Want \in Nat /\ Entry.value \in 0 .. End
    BY <1>14, EntryTypes DEF NameRead, EntryChunk
  <2>3. name' \in Seq(Byte) /\ nc' \in 0 .. End
    BY <1>14, <2>2, CutTypes DEF NameRead, StartChain, TypeOK
  <2> QED
    BY <1>14, <1>z, <2>1, <2>3 DEF NameRead, StartChain, TypeOK, Cursor
<1>15. CASE ValueRead
  <2>1. Chunks' = Chunks /\ Len(Chunks) \in Nat
    BY <1>15, <1>z, LeafTypes DEF ValueRead, Chunks
  <2>2. Truncate(acc, Want) \in Seq(Byte)
    BY <1>15, EntryTypes, CutTypes DEF ValueRead, TypeOK
  <2>3. out' \in Seq([name: Seq(Byte), value: Seq(Byte)])
    <3> DEFINE P == [name: Seq(Byte), value: Seq(Byte)]
    <3>1. out \in Seq(P) /\ [name |-> name, value |-> Truncate(acc, Want)] \in P
      BY <2>2 DEF TypeOK
    <3> HIDE DEF P
    <3>2. out' \in Seq(P)
      BY <1>15, <3>1, AppendType DEF ValueRead
    <3> QED
      BY <3>2 DEF P
  <2> QED
    BY <1>15, <1>z, <2>1, <2>3 DEF ValueRead, TypeOK, Cursor, chain
<1>16. CASE Returned \/ UNCHANGED vars
  BY <1>16, <1>z DEF Returned, vars, TypeOK, Cursor, Chunks, Entry
<1> QED
  BY <1>1, <1>2, <1>3, <1>4, <1>5, <1>6, <1>7, <1>8, <1>9, <1>10, <1>11, <1>12, <1>13, <1>14,
     <1>15, <1>16 DEF Next

\* Every variable of zap_list stays in its type, whatever the object's chunks hold
\* (zap.rs:127-350): no chunk outside the leaf is ever touched.
THEOREM ListTypes == Spec => []TypeOK
<1>1. Typed => TypeOK
  BY DEF Typed
<1> QED
  BY <1>1, InitTyped, StepTyped, PTL DEF Spec

(***************************************************************************)
(* The cap on a chain.                                                     *)
(***************************************************************************)

\* One more chunk, so many more bytes.
LEMMA OneMore ==
  ASSUME NEW n \in Nat, NEW k \in Nat
  PROVE  (n + 1) * k = n * k + k /\ n * k \in Nat
OBVIOUS

CappedInv == Typed /\ ChainIsCapped

\* An action that starts, leaves or has no chain keeps the cap.
LEMMA NoChain ==
  ASSUME pc' \notin {"name", "value"} \/ (hops' = 0 /\ acc' = <<>> /\ Len(Chunks') \in Nat)
  PROVE  ChainIsCapped'
<1>1. ArrayBytes \in Nat
  BY SizesAssumption
<1> QED
  BY <1>1 DEF ChainIsCapped

\* The actions outside a chain.
LEMMA NotInChain ==
  ASSUME \/ Dispatch \/ MicroSlot \/ MicroEnds \/ ProbeFinds \/ ProbeNext \/ ProbeFails \/ SkipBlock
         \/ EnterLeaf \/ EndOfObject \/ SkipChunk \/ LeaveLeaf \/ ValueRead
  PROVE  pc' \notin {"name", "value"}
<1>1. Dispatch => pc' \in {"micro", "probe", "returned"}
  BY DEF Dispatch
<1>2. MicroSlot => pc' = "micro"
  BY DEF MicroSlot, chain
<1>3. MicroEnds \/ EndOfObject => pc' = "returned"
  BY DEF MicroEnds, EndOfObject
<1>4. ProbeFinds \/ ProbeFails \/ LeaveLeaf => pc' = "block"
  BY DEF ProbeFinds, ProbeFails, FirstBlock, LeaveLeaf
<1>5. ProbeNext => pc' = "probe"
  BY DEF ProbeNext, Probing, chain
<1>6. SkipBlock => pc' = "block"
  BY DEF SkipBlock, chain
<1>7. EnterLeaf \/ ValueRead => pc' = "chunk"
  BY DEF EnterLeaf, ValueRead
<1>8. SkipChunk => pc' = "chunk"
  BY DEF SkipChunk, chain
<1> QED
  BY <1>1, <1>2, <1>3, <1>4, <1>5, <1>6, <1>7, <1>8

\* Each hop adds one chunk's payload, and only while fewer bytes are there than wanted.
LEMMA CapStep == CappedInv /\ [Next]_vars => ChainIsCapped'
<1> SUFFICES ASSUME CappedInv, [Next]_vars
             PROVE  ChainIsCapped'
  OBVIOUS
<1> USE DEF CappedInv
<1>1. CASE Dispatch \/ MicroSlot \/ MicroEnds \/ ProbeFinds \/ ProbeNext \/ ProbeFails \/ SkipBlock
           \/ EnterLeaf \/ EndOfObject \/ SkipChunk \/ LeaveLeaf \/ ValueRead
  <2>1. pc' \notin {"name", "value"}
    BY <1>1, NotInChain
  <2> QED
    BY <2>1, NoChain
<1>2. CASE EnterEntry
  BY <1>2, LeafTypes, NoChain DEF EnterEntry, StartChain, Chunks
<1>3. CASE NameRead
  BY <1>3, LeafTypes, NoChain DEF NameRead, StartChain, Chunks
<1>4. CASE Follow
  <2>1. /\ Chunks' = Chunks /\ Want' = Want
        /\ pc \in {"name", "value"} /\ pc' = pc
        /\ hops' = hops + 1 /\ hops < Len(Chunks) /\ Len(acc) < Want
    BY <1>4 DEF Follow, Followable, Chunks, Want, Entry
  <2>2. /\ Len(Chunks) \in Nat /\ Want \in Nat /\ hops \in Nat /\ Len(acc) \in Nat
        /\ ArrayBytes \in Nat
    BY <2>1, LeafTypes, EntryTypes, SizesAssumption DEF Typed, TypeOK
  <2>3. Len(acc') = Len(acc) + ArrayBytes
    <3>1. Chunks \in Seq(Chunk) /\ nc \in Nat /\ IsArray(Chunks, nc)
      BY <1>4, <2>1, LeafTypes, SizesAssumption DEF Follow, Followable, Typed, TypeOK
    <3>2. Chunks[nc + 1].bytes \in Seq(Byte) /\ Len(Chunks[nc + 1].bytes) = ArrayBytes
      BY <3>1, ArrayInLeaf, PayloadType
    <3> QED
      BY <1>4, <3>2, ConcatParts DEF Follow, Typed, TypeOK
  <2>4. Len(acc) = hops * ArrayBytes
    BY <2>1 DEF ChainIsCapped
  <2>5. Len(acc') = hops' * ArrayBytes
    BY <2>1, <2>2, <2>3, <2>4, OneMore
  <2>6. hops' <= Len(Chunks') /\ Len(acc') < Want' + ArrayBytes
    BY <2>1, <2>2, <2>3
  <2> QED
    BY <2>5, <2>6 DEF ChainIsCapped
<1>5. CASE Returned \/ UNCHANGED vars
  BY <1>5 DEF Returned, vars, ChainIsCapped, Chunks, Want, Entry
<1> QED
  BY <1>1, <1>2, <1>3, <1>4, <1>5 DEF Next

\* "names and values are capped at the block size" (zap.rs:47): no chain, looping or
\* not, yields more than its leaf's chunks, or a chunk more than is asked of it.
THEOREM ChainsAreCapped == Spec => []ChainIsCapped
<1>1. Init => CappedInv
  <2>1. Init => pc \notin {"name", "value"}
    BY DEF Init
  <2> QED
    BY <2>1, InitTyped DEF CappedInv, ChainIsCapped
<1>2. CappedInv /\ [Next]_vars => CappedInv'
  BY CapStep, StepTyped DEF CappedInv
<1>3. CappedInv => ChainIsCapped
  BY DEF CappedInv
<1> QED
  BY <1>1, <1>2, <1>3, PTL DEF Spec

(***************************************************************************)
(* Lists put together from the front.                                      *)
(***************************************************************************)

\* What the first n pieces of g are, put together.
Joint(g, n) == FlattenSeq(SubSeq(g, 1, n))

\* A piece more is that piece behind what there was (buf.extend, zap.rs:345).
LEMMA JointStep ==
  ASSUME NEW S, NEW g \in Seq(Seq(S)), NEW n \in Nat, n < Len(g)
  PROVE  /\ Joint(g, n) \in Seq(S)
         /\ g[n + 1] \in Seq(S)
         /\ Joint(g, n + 1) = Joint(g, n) \o g[n + 1]
<1>f. PICK f : f = SubSeq(g, 1, n)
  OBVIOUS
<1>t. PICK t : t = g[n + 1]
  OBVIOUS
<1>1. n + 1 \in 1 .. Len(g) /\ n \in 0 .. Len(g) /\ Len(g) \in Nat
  OBVIOUS
<1>2. t \in Seq(S)
  BY <1>1, <1>t
<1>3. f \in Seq(Seq(S)) /\ Len(f) = n
  BY <1>1, <1>f, CutIsPrefix
<1>4. SubSeq(g, 1, n + 1) = Append(f, t)
  BY <1>1, <1>f, <1>t
<1>5. FlattenSeq(Append(f, t)) = FlattenSeq(f) \o t
  BY <1>2, <1>3, FlattenAppend
<1>6. FlattenSeq(f) \in Seq(S)
  BY <1>3, FlattenTypes
<1> QED
  BY <1>2, <1>4, <1>5, <1>6, <1>f, <1>t DEF Joint

\* Nothing, and everything.
LEMMA JointEnds ==
  ASSUME NEW S, NEW g \in Seq(Seq(S))
  PROVE  /\ Joint(g, 0) = <<>>
         /\ Joint(g, Len(g)) = FlattenSeq(g)
         /\ FlattenSeq(g) \in Seq(S)
<1>1. SubSeq(g, 1, 0) = <<>> /\ SubSeq(g, 1, Len(g)) = g
  OBVIOUS
<1>2. FlattenSeq(g) \in Seq(S)
  BY FlattenTypes
<1> QED
  BY <1>1, <1>2, FlattenEmpty DEF Joint

\* A piece that is more of the same, or nothing at all.
LEMMA JointGrows ==
  ASSUME NEW S, NEW g \in Seq(Seq(S)), NEW n \in 0 .. Len(g)
  PROVE  /\ Joint(g, n) \in Seq(S)
         /\ IsPrefix(Joint(g, n), FlattenSeq(g))
         /\ (\A k \in n + 1 .. Len(g) : g[k] = <<>>) => Joint(g, n) = FlattenSeq(g)
<1> DEFINE T == {m \in Nat : /\ Joint(g, m) \in Seq(S)
                             /\ n <= m => IsPrefix(Joint(g, n), Joint(g, m))
                             /\ n <= m /\ (\A k \in n + 1 .. Len(g) : g[k] = <<>>)
                                  => Joint(g, n) = Joint(g, m)}
<1>l. Len(g) \in Nat /\ n \in Nat /\ n <= Len(g)
  OBVIOUS
<1>p. \A s \in Seq(S) : IsPrefix(s, s)
  BY DEF IsPrefix
<1>t. Joint(g, n) \in Seq(S)
  <2>1. SubSeq(g, 1, n) \in Seq(Seq(S))
    BY CutIsPrefix
  <2> QED
    BY <2>1, FlattenTypes DEF Joint
<1>1. 0 \in T
  <2>1. Joint(g, 0) \in Seq(S)
    <3>1. <<>> \in Seq(S)
      OBVIOUS
    <3> QED
      BY <3>1, JointEnds
  <2>2. n <= 0 => n = 0
    BY <1>l
  <2> QED
    BY <1>p, <2>1, <2>2
<1>2. ASSUME NEW m \in 0 .. Len(g) - 1, m \in T PROVE m + 1 \in T
  <2>1. /\ Joint(g, m) \in Seq(S) /\ g[m + 1] \in Seq(S)
        /\ Joint(g, m + 1) = Joint(g, m) \o g[m + 1]
    BY JointStep
  <2>2. Joint(g, m + 1) \in Seq(S)
    BY <2>1, ConcatParts
  <2>3. IsPrefix(Joint(g, m), Joint(g, m + 1))
    BY <2>1, <2>2, PrefixIs
  <2>4. CASE n = m + 1
    <3>1. m + 1 \in Nat
      OBVIOUS
    <3> QED
      BY <1>p, <2>2, <2>4, <3>1
  <2>5. CASE n <= m
    <3>1. IsPrefix(Joint(g, n), Joint(g, m))
      BY <1>2, <2>5
    <3>2. IsPrefix(Joint(g, n), Joint(g, m + 1))
      BY <1>t, <2>1, <2>2, <2>3, <3>1, PrefixOfPrefix
    <3>3. ASSUME \A k \in n + 1 .. Len(g) : g[k] = <<>>
          PROVE  Joint(g, n) = Joint(g, m + 1)
      <4>1. g[m + 1] = <<>>
        BY <1>l, <2>5, <3>3
      <4>2. Joint(g, n) = Joint(g, m)
        BY <1>2, <2>5, <3>3
      <4> QED
        BY <2>1, <4>1, <4>2, ConcatFacts
    <3> QED
      BY <2>2, <3>2, <3>3
  <2>6. CASE m + 1 < n
    <3>1. ~ (n <= m + 1) /\ m + 1 \in Nat
      BY <1>l, <2>6
    <3> QED
      BY <2>2, <3>1
  <2> QED
    BY <1>l, <2>4, <2>5, <2>6
<1> HIDE DEF T
<1>3. Len(g) \in T
  <2>1. Len(g) \in 0 .. Len(g)
    BY <1>l
  <2> QED
    BY <1>l, <1>1, <1>2, <2>1, UpTo
<1> QED
  BY <1>l, <1>t, <1>3, JointEnds DEF T

\* The bytes of a chain that go beyond what is wanted make no difference (buf.truncate,
\* zap.rs:349).
LEMMA CutAgrees ==
  ASSUME NEW S, NEW s \in Seq(S), NEW t \in Seq(S), NEW n \in Nat, IsPrefix(s, t), n <= Len(s)
  PROVE  Truncate(s, n) = Truncate(t, n)
<1>1. PICK u \in Seq(S) : t = s \o u
  BY PrefixIs
<1>m. PICK m, k : m = Len(s) /\ k = Len(t)
  OBVIOUS
<1>2. m \in Nat /\ k \in Nat /\ m <= k /\ n <= m /\ \A i \in 1 .. m : t[i] = s[i]
  BY <1>1, <1>m
<1>3. SubSeq(s, 1, n) = SubSeq(t, 1, n)
  <2>1. SubSeq(s, 1, n) \in Seq(S) /\ Len(SubSeq(s, 1, n)) = n
    BY <1>2, <1>m, CutIsPrefix
  <2>2. SubSeq(t, 1, n) \in Seq(S) /\ Len(SubSeq(t, 1, n)) = n
    <3>1. n \in 0 .. Len(t)
      BY <1>2, <1>m
    <3> QED
      BY <3>1, CutIsPrefix
  <2>3. \A i \in 1 .. n : SubSeq(s, 1, n)[i] = s[i] /\ SubSeq(t, 1, n)[i] = t[i] /\ s[i] = t[i]
    BY <1>2, <1>m
  <2> QED
    BY <2>1, <2>2, <2>3, SameSeq
<1>4. CASE n < m
  <2>1. ~ (Len(s) <= n) /\ ~ (Len(t) <= n)
    BY <1>2, <1>4, <1>m
  <2> QED
    BY <1>3, <2>1 DEF Truncate
<1>5. CASE n = m
  <2>1. SubSeq(s, 1, n) = s
    BY <1>5, <1>m
  <2>2. Truncate(s, n) = s
    BY <1>5, <1>m, <1>2 DEF Truncate
  <2>3. CASE k <= n
    <3>1. k = n /\ SubSeq(t, 1, n) = t
      BY <1>2, <1>5, <2>3, <1>m
    <3> QED
      BY <1>3, <2>1, <2>2, <3>1, <1>m, <2>3 DEF Truncate
  <2>4. CASE ~(k <= n)
    BY <1>3, <2>1, <2>2, <2>4, <1>m DEF Truncate
  <2> QED
    BY <2>3, <2>4
<1> QED
  BY <1>2, <1>4, <1>5

(***************************************************************************)
(* A chain that ends is followed along its path.                           *)
(***************************************************************************)

Path(cs, start) == CHOOSE p \in Paths(cs, start) : TRUE

\* Where h hops along it lead.
Reached(cs, start, h) == IF h = 0 THEN start ELSE cs[Path(cs, start)[h] + 1].next

Pieces(cs, start) == [k \in DOMAIN Path(cs, start) |-> cs[Path(cs, start)[k] + 1].bytes]

\* The chunk numbers of a path are distinct, so there are no more than chunks; each is
\* where the one before it points, and the last points to no array chunk
\* (zap.rs:331-347).
LEMMA PathFacts ==
  ASSUME NEW cs \in Seq(Chunk), NEW start \in 0 .. End, Straight(cs, start)
  PROVE  /\ Path(cs, start) \in Seq(Nat)
         /\ Len(Path(cs, start)) <= Len(cs)
         /\ \A k \in 1 .. Len(Path(cs, start)) : IsArray(cs, Path(cs, start)[k])
         /\ \A h \in 0 .. Len(Path(cs, start)) - 1 :
              Path(cs, start)[h + 1] = Reached(cs, start, h)
         /\ ~ IsArray(cs, Reached(cs, start, Len(Path(cs, start))))
<1>p. PICK p : p = Path(cs, start)
  OBVIOUS
<1>c. Len(cs) \in Nat
  OBVIOUS
<1>1. p \in Paths(cs, start)
  BY <1>p DEF Path, Straight
<1>2. PICK m \in 0 .. Len(cs) : p \in [1 .. m -> 0 .. Len(cs) - 1]
  BY <1>1 DEF Paths, BoundedSeq, SeqOf
<1>3. p \in Seq(Nat) /\ Len(p) = m /\ DOMAIN p = 1 .. m /\ m \in Nat /\ m <= Len(cs)
  <2>1. p \in [1 .. m -> Nat] /\ m \in Nat /\ m <= Len(cs)
    BY <1>c, <1>2
  <2> QED
    BY <1>2, <2>1
<1> DEFINE rest == [k \in DOMAIN p |-> IF IsArray(cs, p[k]) THEN cs[p[k] + 1].next ELSE End]
<1>4. /\ \A k \in DOMAIN p : IsArray(cs, p[k]) /\ p[k] = (<<start>> \o rest)[k]
      /\ ~ IsArray(cs, Last(<<start>> \o rest))
  BY <1>1 DEF Paths
<1>5. rest \in Seq(0 .. End) /\ Len(rest) = m /\ \A k \in 1 .. m : rest[k] = cs[p[k] + 1].next
  <2>1. ASSUME NEW k \in 1 .. m
        PROVE  rest[k] = cs[p[k] + 1].next /\ rest[k] \in 0 .. End
    <3>1. IsArray(cs, p[k]) /\ p[k] \in Nat
      BY <1>2, <1>3, <1>4
    <3>2. cs[p[k] + 1].next \in 0 .. End
      BY <3>1, ArrayInLeaf, PayloadType
    <3> QED
      BY <1>3, <3>1, <3>2
  <2>2. rest \in [1 .. m -> 0 .. End]
    BY <1>3, <2>1
  <2>3. rest \in Seq(0 .. End) /\ Len(rest) = m
    <3>1. PICK r : r = rest
      OBVIOUS
    <3>2. r \in [1 .. m -> 0 .. End]
      BY <2>2, <3>1
    <3>3. PICK E : E = 0 .. End
      OBVIOUS
    <3>4. r \in Seq(E) /\ Len(r) = m
      <4>1. r \in [1 .. m -> E] /\ m \in Nat
        BY <1>3, <3>2, <3>3
      <4> HIDE <3>3
      <4> QED
        BY <4>1
    <3> QED
      BY <3>1, <3>3, <3>4
  <2> QED
    BY <2>1, <2>3
<1> HIDE DEF rest
<1>a. PICK at : at = <<start>> \o rest
  OBVIOUS
<1>6. /\ at \in Seq(0 .. End) /\ Len(at) = m + 1 /\ at[1] = start
      /\ \A k \in 1 .. m : at[k + 1] = rest[k]
  <2>o. PICK one : one = <<start>>
    OBVIOUS
  <2>1. one \in Seq(0 .. End) /\ Len(one) = 1 /\ one[1] = start
    BY <2>o
  <2>2. /\ at \in Seq(0 .. End) /\ Len(at) = Len(one) + Len(rest)
        /\ \A i \in 1 .. Len(one) : at[i] = one[i]
        /\ \A i \in 1 .. Len(rest) : at[Len(one) + i] = rest[i]
    BY <1>5, <1>a, <2>o, <2>1, ConcatParts
  <2>3. ASSUME NEW k \in 1 .. m PROVE at[k + 1] = rest[k]
    <3>1. k \in 1 .. Len(rest) /\ Len(one) + k = k + 1
      BY <1>3, <1>5, <2>1
    <3> QED
      BY <2>2, <3>1
  <2>4. Len(at) = m + 1 /\ at[1] = start
    BY <1>3, <1>5, <2>1, <2>2
  <2> QED
    BY <2>2, <2>3, <2>4
<1>7. ASSUME NEW h \in 0 .. m
      PROVE  Reached(cs, start, h) = at[h + 1]
  <2>1. CASE h = 0
    BY <1>6, <2>1 DEF Reached
  <2>2. CASE h # 0
    <3>1. h \in 1 .. m
      BY <1>3, <2>2
    <3> QED
      BY <1>5, <1>6, <1>p, <2>2, <3>1 DEF Reached
  <2> QED
    BY <2>1, <2>2
<1>8. ASSUME NEW h \in 0 .. m - 1
      PROVE  p[h + 1] = Reached(cs, start, h)
  <2>1. h + 1 \in DOMAIN p /\ h \in 0 .. m
    BY <1>3
  <2> QED
    BY <1>4, <1>7, <1>a, <2>1
<1>9. Last(at) = Reached(cs, start, m)
  BY <1>3, <1>6, <1>7 DEF Last
<1>10. \A k \in 1 .. m : IsArray(cs, p[k])
  BY <1>3, <1>4
<1> QED
  BY <1>3, <1>4, <1>8, <1>9, <1>10, <1>a, <1>p

\* The payloads along a path, and what the writer stored in it.
LEMMA PieceFacts ==
  ASSUME NEW cs \in Seq(Chunk), NEW start \in 0 .. End, Straight(cs, start)
  PROVE  /\ Pieces(cs, start) \in Seq(Seq(Byte))
         /\ Len(Pieces(cs, start)) = Len(Path(cs, start))
         /\ \A k \in 1 .. Len(Path(cs, start)) :
              Pieces(cs, start)[k] = cs[Path(cs, start)[k] + 1].bytes
         /\ \A want : Stored(cs, start, want) = Truncate(FlattenSeq(Pieces(cs, start)), want)
<1>p. PICK p, g : p = Path(cs, start) /\ g = Pieces(cs, start)
  OBVIOUS
<1>m. PICK m : m = Len(p)
  OBVIOUS
<1>1. p \in Seq(Nat) /\ m \in Nat /\ DOMAIN p = 1 .. m /\ \A k \in 1 .. m : IsArray(cs, p[k])
  <2>1. p \in Seq(Nat) /\ \A k \in 1 .. m : IsArray(cs, p[k])
    BY <1>p, <1>m, PathFacts
  <2> QED
    BY <1>m, <2>1
<1>2. ASSUME NEW k \in 1 .. m
      PROVE  cs[p[k] + 1].bytes \in Seq(Byte)
  <2>1. p[k] \in Nat /\ IsArray(cs, p[k])
    BY <1>1
  <2> QED
    BY <2>1, ArrayInLeaf, PayloadType
<1>3. g = [k \in 1 .. m |-> cs[p[k] + 1].bytes]
  BY <1>1, <1>p DEF Pieces
<1>4. g \in [1 .. m -> Seq(Byte)]
  BY <1>2, <1>3
<1>5. g \in Seq(Seq(Byte)) /\ Len(g) = m
  <2>b. PICK B : B = Seq(Byte)
    OBVIOUS
  <2>1. g \in [1 .. m -> B]
    BY <1>4, <2>b
  <2>2. g \in Seq(B) /\ Len(g) = m
    <3> HIDE <2>b
    <3> QED
      BY <1>1, <2>1
  <2> QED
    BY <2>2, <2>b
<1>6. \A k \in 1 .. m : g[k] = cs[p[k] + 1].bytes
  BY <1>3
<1>7. \A want : Stored(cs, start, want) = Truncate(FlattenSeq(g), want)
  BY <1>p DEF Stored, Pieces, Path
<1> QED
  BY <1>5, <1>6, <1>7, <1>p, <1>m

\* What is stored is bytes.
LEMMA StoredTypes ==
  ASSUME NEW cs \in Seq(Chunk), NEW start \in 0 .. End, Straight(cs, start), NEW want \in Nat
  PROVE  Stored(cs, start, want) \in Seq(Byte)
<1>g. PICK g : g = Pieces(cs, start)
  OBVIOUS
<1>1. g \in Seq(Seq(Byte)) /\ Stored(cs, start, want) = Truncate(FlattenSeq(g), want)
  BY <1>g, PieceFacts
<1>2. FlattenSeq(g) \in Seq(Byte)
  BY <1>1, FlattenTypes
<1> QED
  BY <1>1, <1>2, CutTypes

\* The walk of a chain that ends is somewhere on its path.
OnPath(cs, start) ==
  Straight(cs, start) =>
    /\ hops \in 0 .. Len(Path(cs, start))
    /\ nc = Reached(cs, start, hops)
    /\ acc = Joint(Pieces(cs, start), hops)

\* It starts there (zap.rs:327-330).
LEMMA ChainStarts ==
  ASSUME NEW cs \in Seq(Chunk), NEW start \in 0 .. End,
         hops' = 0, acc' = <<>>, nc' = start
  PROVE  Straight(cs, start) =>
           /\ hops' \in 0 .. Len(Path(cs, start))
           /\ nc' = Reached(cs, start, hops')
           /\ acc' = Joint(Pieces(cs, start), hops')
<1>1. SUFFICES ASSUME Straight(cs, start)
               PROVE  /\ 0 \in 0 .. Len(Path(cs, start))
                      /\ start = Reached(cs, start, 0)
                      /\ <<>> = Joint(Pieces(cs, start), 0)
  OBVIOUS
<1>2. Path(cs, start) \in Seq(Nat) /\ Pieces(cs, start) \in Seq(Seq(Byte))
  BY <1>1, PathFacts, PieceFacts
<1>3. Joint(Pieces(cs, start), 0) = <<>>
  BY <1>2, JointEnds
<1>4. Len(Path(cs, start)) \in Nat
  BY <1>2
<1> QED
  BY <1>3, <1>4 DEF Reached

\* It stays there, a hop at a time (zap.rs:331-347).
LEMMA ChainGoesOn ==
  ASSUME Typed, pc \in {"name", "value"}, Follow,
         NEW start \in 0 .. End, OnPath(Chunks, start), Straight(Chunks, start)
  PROVE  /\ hops' \in 0 .. Len(Path(Chunks, start))
         /\ nc' = Reached(Chunks, start, hops')
         /\ acc' = Joint(Pieces(Chunks, start), hops')
<1>c. PICK cs : cs = Chunks
  OBVIOUS
<1>0. cs \in Seq(Chunk) /\ hops \in Nat
  BY <1>c, LeafTypes DEF Typed, TypeOK
<1>p. PICK p, g, m : p = Path(cs, start) /\ g = Pieces(cs, start) /\ m = Len(p)
  OBVIOUS
<1>1. /\ p \in Seq(Nat) /\ m \in Nat
      /\ \A h \in 0 .. m - 1 : p[h + 1] = Reached(cs, start, h)
      /\ ~ IsArray(cs, Reached(cs, start, m))
  <2>1. /\ p \in Seq(Nat)
        /\ \A h \in 0 .. m - 1 : p[h + 1] = Reached(cs, start, h)
        /\ ~ IsArray(cs, Reached(cs, start, m))
    BY <1>0, <1>c, <1>p, PathFacts
  <2> QED
    BY <1>p, <2>1
<1>2. g \in Seq(Seq(Byte)) /\ Len(g) = m /\ \A k \in 1 .. m : g[k] = cs[p[k] + 1].bytes
  BY <1>0, <1>c, <1>p, PieceFacts
<1>3. hops \in 0 .. m /\ nc = Reached(cs, start, hops) /\ acc = Joint(g, hops)
  BY <1>c, <1>p DEF OnPath
<1>4. /\ IsArray(cs, nc) /\ hops' = hops + 1
      /\ acc' = acc \o cs[nc + 1].bytes /\ nc' = cs[nc + 1].next
  BY <1>c DEF Follow, Followable
<1>5. hops \in 0 .. m - 1 /\ hops + 1 \in 1 .. m /\ hops + 1 \in 0 .. m /\ hops + 1 # 0
  <2>1. hops # m
    BY <1>1, <1>3, <1>4
  <2> QED
    BY <1>1, <1>3, <2>1
<1>6. p[hops + 1] = nc
  BY <1>1, <1>3, <1>5
<1>7. nc' = Reached(cs, start, hops + 1)
  BY <1>4, <1>5, <1>6, <1>p DEF Reached
<1>8. Joint(g, hops + 1) = Joint(g, hops) \o g[hops + 1]
  <2>1. hops < Len(g)
    BY <1>1, <1>2, <1>5
  <2> QED
    BY <1>0, <1>2, <2>1, JointStep
<1>9. acc' = Joint(g, hops + 1)
  BY <1>2, <1>3, <1>4, <1>5, <1>6, <1>8
<1> QED
  BY <1>4, <1>5, <1>7, <1>9, <1>c, <1>p

\* When it stops, what it has is what the writer stored, up to what is wanted: the hop
\* bound does not stop it before (zap.rs:331-350).
LEMMA ChainEnds ==
  ASSUME Typed, pc \in {"name", "value"}, ~ Followable,
         NEW start \in 0 .. End, OnPath(Chunks, start), Straight(Chunks, start)
  PROVE  Truncate(acc, Want) = Stored(Chunks, start, Want)
<1>c. PICK cs : cs = Chunks
  OBVIOUS
<1>0. /\ cs \in Seq(Chunk) /\ hops \in Nat /\ Len(cs) \in Nat /\ Len(cs) < End
      /\ Want \in Nat /\ End \in Nat
  BY <1>c, LeafTypes, EntryTypes, SizesAssumption DEF Typed, TypeOK
<1>p. PICK p, g, m : p = Path(cs, start) /\ g = Pieces(cs, start) /\ m = Len(p)
  OBVIOUS
<1>1. /\ p \in Seq(Nat) /\ m \in Nat /\ m <= Len(cs)
      /\ \A k \in 1 .. m : IsArray(cs, p[k])
      /\ \A h \in 0 .. m - 1 : p[h + 1] = Reached(cs, start, h)
  <2>1. /\ p \in Seq(Nat) /\ m <= Len(cs)
        /\ \A k \in 1 .. m : IsArray(cs, p[k])
        /\ \A h \in 0 .. m - 1 : p[h + 1] = Reached(cs, start, h)
    BY <1>0, <1>c, <1>p, PathFacts
  <2> QED
    BY <1>p, <2>1
<1>2. /\ g \in Seq(Seq(Byte)) /\ Len(g) = m
      /\ Stored(cs, start, Want) = Truncate(FlattenSeq(g), Want)
  BY <1>0, <1>c, <1>p, PieceFacts
<1>3. hops \in 0 .. m /\ nc = Reached(cs, start, hops) /\ acc = Joint(g, hops)
  BY <1>c, <1>p DEF OnPath
<1>4. Joint(g, hops) \in Seq(Byte) /\ IsPrefix(Joint(g, hops), FlattenSeq(g))
      /\ FlattenSeq(g) \in Seq(Byte) /\ Joint(g, m) = FlattenSeq(g)
  <2>1. hops \in 0 .. Len(g)
    BY <1>2, <1>3
  <2> QED
    BY <1>2, <2>1, JointGrows, JointEnds
<1>5. CASE hops = m
  BY <1>2, <1>3, <1>4, <1>5, <1>c
<1>6. CASE hops # m
  <2>1. hops \in 0 .. m - 1 /\ hops + 1 \in 1 .. m
    BY <1>1, <1>3, <1>6
  <2>2. IsArray(cs, nc)
    BY <1>1, <1>3, <2>1
  <2>3. nc # End /\ hops < Len(cs)
    BY <1>0, <1>1, <2>1, <2>2 DEF IsArray
  <2>4. Want <= Len(acc)
    <3>1. ~ (Len(acc) < Want)
      BY <1>c, <2>2, <2>3 DEF Followable
    <3>2. Len(acc) \in Nat
      BY <1>3, <1>4
    <3> QED
      BY <1>0, <3>1, <3>2
  <2>5. Truncate(acc, Want) = Truncate(FlattenSeq(g), Want)
    BY <1>0, <1>3, <1>4, <2>4, CutAgrees
  <2> QED
    BY <1>2, <1>c, <2>5
<1> QED
  BY <1>5, <1>6

\* What the walk knows of the chain it is on, and of the name it has read.
Chained ==
  /\ pc = "name" => OnPath(Chunks, Entry.name)
  /\ pc = "value" => OnPath(Chunks, Entry.value)
  /\ pc = "value" /\ Straight(Chunks, Entry.name) => name = NameOf(Chunks, Entry)

\* The chain's variables, unchanged, are where they were.
LEMMA ChainStays ==
  ASSUME Chained, Chunks' = Chunks, Entry' = Entry, UNCHANGED chain, pc' = pc
  PROVE  Chained'
BY DEF Chained, OnPath, chain

\* A step starts a chain, goes on along it, or leaves it with the name read.
LEMMA ChainedStep == Typed /\ Chained /\ [Next]_vars => Chained'
<1> SUFFICES ASSUME Typed, Chained, [Next]_vars
             PROVE  Chained'
  OBVIOUS
<1>z. z' = z
  BY ObjectStays
<1>1. CASE Dispatch \/ MicroSlot \/ MicroEnds \/ ProbeFinds \/ ProbeNext \/ ProbeFails \/ SkipBlock
           \/ EnterLeaf \/ EndOfObject \/ SkipChunk \/ LeaveLeaf \/ ValueRead
  BY <1>1, NotInChain DEF Chained
<1>2. CASE EnterEntry
  <2>c. PICK cs : cs = Chunks
    OBVIOUS
  <2>1. /\ Chunks' = cs /\ Entry' = Entry /\ pc' = "name"
        /\ hops' = 0 /\ acc' = <<>> /\ nc' = Entry.name
    BY <1>2, <1>z, <2>c DEF EnterEntry, StartChain, Chunks, Entry
  <2>2. cs \in Seq(Chunk) /\ Entry \in EntryChunk
    BY <1>2, <2>c, LeafTypes, ChunkKinds DEF EnterEntry
  <2>e. PICK e : e = Entry
    OBVIOUS
  <2>3. e.name \in 0 .. End
    BY <2>2, <2>e DEF EntryChunk
  <2>4. Straight(cs, e.name) =>
          /\ hops' \in 0 .. Len(Path(cs, e.name))
          /\ nc' = Reached(cs, e.name, hops')
          /\ acc' = Joint(Pieces(cs, e.name), hops')
    BY <2>1, <2>2, <2>3, <2>e, ChainStarts
  <2>5. OnPath(Chunks, Entry.name)'
    BY <2>1, <2>4, <2>e DEF OnPath
  <2> QED
    BY <2>1, <2>5 DEF Chained
<1>3. CASE Follow
  <2>c. PICK cs, e : cs = Chunks /\ e = Entry
    OBVIOUS
  <2>1. Chunks' = cs /\ Entry' = e /\ pc' = pc /\ pc \in {"name", "value"} /\ name' = name
    BY <1>3, <1>z, <2>c DEF Follow, Followable, Chunks, Entry
  <2>2. e.name \in 0 .. End /\ e.value \in 0 .. End
    BY <2>1, <2>c, EntryTypes DEF EntryChunk
  <2>3. ASSUME NEW start \in 0 .. End, OnPath(cs, start)
        PROVE  Straight(cs, start) =>
                 /\ hops' \in 0 .. Len(Path(cs, start))
                 /\ nc' = Reached(cs, start, hops')
                 /\ acc' = Joint(Pieces(cs, start), hops')
    BY <1>3, <2>1, <2>3, <2>c, ChainGoesOn
  <2>4. pc = "name" => OnPath(Chunks, Entry.name)'
    BY <2>1, <2>2, <2>3, <2>c DEF Chained, OnPath
  <2>5. pc = "value" => OnPath(Chunks, Entry.value)'
    BY <2>1, <2>2, <2>3, <2>c DEF Chained, OnPath
  <2>6. pc = "value" /\ Straight(cs, e.name) => name = NameOf(cs, e)
    BY <2>c DEF Chained
  <2> QED
    BY <2>1, <2>4, <2>5, <2>6 DEF Chained
<1>4. CASE NameRead
  <2>c. PICK cs, e : cs = Chunks /\ e = Entry
    OBVIOUS
  <2>1. /\ Chunks' = cs /\ Entry' = e /\ pc = "name" /\ pc' = "value"
        /\ hops' = 0 /\ acc' = <<>> /\ nc' = e.value
        /\ name' = Unterminated(Truncate(acc, Want)) /\ ~ Followable
    BY <1>4, <1>z, <2>c DEF NameRead, StartChain, Chunks, Entry
  <2>2. cs \in Seq(Chunk) /\ e.name \in 0 .. End /\ e.value \in 0 .. End
    BY <2>1, <2>c, LeafTypes, EntryTypes DEF EntryChunk
  <2>3. Straight(cs, e.value) =>
          /\ hops' \in 0 .. Len(Path(cs, e.value))
          /\ nc' = Reached(cs, e.value, hops')
          /\ acc' = Joint(Pieces(cs, e.value), hops')
    BY <2>1, <2>2, ChainStarts
  <2>4. OnPath(Chunks, Entry.value)'
    BY <2>1, <2>3 DEF OnPath
  <2>5. ASSUME Straight(cs, e.name)
        PROVE  name' = NameOf(cs, e)
    <3>1. OnPath(cs, e.name)
      BY <2>1, <2>c DEF Chained
    <3>2. Truncate(acc, Want) = Stored(cs, e.name, Want)
      BY <2>1, <2>2, <2>5, <2>c, <3>1, ChainEnds
    <3>3. Want = e.nameLen
      BY <2>1, <2>c DEF Want
    <3> QED
      BY <2>1, <3>2, <3>3 DEF NameOf
  <2> QED
    BY <2>1, <2>4, <2>5 DEF Chained
<1>5. CASE Returned \/ UNCHANGED vars
  <2>1. UNCHANGED vars
    BY <1>5 DEF Returned
  <2> QED
    BY <2>1, ChainStays DEF vars, Chunks, Entry, chain
<1> QED
  BY <1>1, <1>2, <1>3, <1>4, <1>5 DEF Next

(***************************************************************************)
(* What is listed, beside what the leaves hold.                            *)
(***************************************************************************)

\* An entry of the reference: a value left open is <<End>>.
Known == [name: Seq(Byte), value: Seq(Byte) \cup {<<End>>}]

\* The same entries, but for the values left open.
Same(s, t) ==
  /\ Len(s) = Len(t)
  /\ \A i \in 1 .. Len(s) :
       s[i].name = t[i].name /\ (t[i].value # <<End>> => s[i].value = t[i].value)

\* One more of the same (out.push, zap.rs:214).
LEMMA SamePut ==
  ASSUME NEW A, NEW B, NEW s \in Seq(A), NEW t \in Seq(B), Same(s, t),
         NEW x \in A, NEW y \in B,
         x.name = y.name, y.value # <<End>> => x.value = y.value
  PROVE  Same(Put(s, x), Put(t, y))
<1>u. PICK u, v : u = Put(s, x) /\ v = Put(t, y)
  OBVIOUS
<1>n. PICK n : n = Len(s)
  OBVIOUS
<1>1. n \in Nat /\ Len(t) = n
  BY <1>n DEF Same
<1>2. Len(u) = n + 1 /\ u[n + 1] = x /\ \A i \in 1 .. n : u[i] = s[i]
  BY <1>u, <1>n DEF Put
<1>3. Len(v) = n + 1 /\ v[n + 1] = y /\ \A i \in 1 .. n : v[i] = t[i]
  <2>1. Len(v) = Len(t) + 1 /\ v[Len(t) + 1] = y /\ \A i \in 1 .. Len(t) : v[i] = t[i]
    BY <1>u DEF Put
  <2> QED
    BY <1>1, <2>1
<1>4. \A i \in 1 .. n :
        s[i].name = t[i].name /\ (t[i].value # <<End>> => s[i].value = t[i].value)
  BY <1>n DEF Same
<1>5. ASSUME NEW i \in 1 .. n + 1
      PROVE  u[i].name = v[i].name /\ (v[i].value # <<End>> => u[i].value = v[i].value)
  <2>1. CASE i \in 1 .. n
    BY <1>2, <1>3, <1>4, <2>1
  <2>2. CASE i = n + 1
    BY <1>2, <1>3, <2>2
  <2> QED
    BY <1>1, <2>1, <2>2
<1> QED
  BY <1>2, <1>3, <1>5, <1>u DEF Same

\* An entry with a name is a chunk of the leaf, and its name and value are bytes.
LEMMA KnownTypes ==
  ASSUME NEW cs \in Seq(Chunk), NEW e \in Named(cs)
  PROVE  EntryOf(cs, e) \in Known
<1>1. e \in Range(cs) /\ e.type = "entry" /\ Straight(cs, e.name)
  BY DEF Named
<1>2. e \in EntryChunk
  <2>1. e \in Chunk
    BY <1>1 DEF Range
  <2> QED
    BY <1>1, <2>1, ChunkKinds
<1>3. e.name \in 0 .. End /\ e.value \in 0 .. End /\ e.nameLen \in Nat /\ e.want \in Nat
  BY <1>2 DEF EntryChunk
<1>4. NameOf(cs, e) \in Seq(Byte)
  <2>1. Stored(cs, e.name, e.nameLen) \in Seq(Byte)
    BY <1>1, <1>3, StoredTypes
  <2> QED
    BY <1>3, <2>1, CutTypes DEF NameOf
<1>5. Straight(cs, e.value) => Stored(cs, e.value, e.want) \in Seq(Byte)
  BY <1>3, StoredTypes
<1> QED
  BY <1>4, <1>5 DEF EntryOf, Known

\* A chunk more of a leaf is an entry more if it is one that has a name
\* (fat_list's loop over the chunks, zap.rs:193-216).
LEMMA EntriesStep ==
  ASSUME NEW cs \in Seq(Chunk), NEW n \in Nat, n < Len(cs)
  PROVE  EntriesIn(cs, n + 1) =
           IF cs[n + 1] \in Named(cs) THEN Put(EntriesIn(cs, n), EntryOf(cs, cs[n + 1]))
           ELSE EntriesIn(cs, n)
<1>x. PICK x, N : x = cs[n + 1] /\ N = Named(cs)
  OBVIOUS
<1>f. PICK f : f = SubSeq(cs, 1, n)
  OBVIOUS
<1>1. n + 1 \in 1 .. Len(cs) /\ n \in 0 .. Len(cs) /\ x \in Chunk
  BY <1>x
<1>2. f \in Seq(Chunk) /\ Len(f) = n /\ SubSeq(cs, 1, n + 1) = Append(f, x)
  <2>1. f \in Seq(Chunk) /\ Len(f) = n
    BY <1>1, <1>f, CutIsPrefix
  <2>2. SubSeq(cs, 1, n + 1) = Append(f, x)
    BY <1>1, <1>f, <1>x
  <2> QED
    BY <2>1, <2>2
<1>e. PICK es, fs : es = Those(f, N) /\ fs = Those(Append(f, x), N)
  OBVIOUS
<1>3. fs = (IF x \in N THEN Append(es, x) ELSE es) /\ es \in Seq(Chunk)
  BY <1>1, <1>2, <1>e, ThoseAppend, ThoseTypes
<1>4. /\ EntriesIn(cs, n) = [k \in DOMAIN es |-> EntryOf(cs, es[k])]
      /\ EntriesIn(cs, n + 1) = [k \in DOMAIN fs |-> EntryOf(cs, fs[k])]
  BY <1>2, <1>e, <1>f, <1>x DEF EntriesIn
<1>5. CASE x \notin N
  BY <1>3, <1>4, <1>5, <1>x
<1>6. CASE x \in N
  <2>g. PICK g : g = [k \in DOMAIN es |-> EntryOf(cs, es[k])]
    OBVIOUS
  <2>m. PICK m : m = Len(es)
    OBVIOUS
  <2>1. m \in Nat /\ DOMAIN es = 1 .. m
    BY <1>3, <2>m
  <2>2. fs = Append(es, x)
    BY <1>3, <1>6
  <2>3. DOMAIN fs = 1 .. m + 1 /\ fs[m + 1] = x /\ \A k \in 1 .. m : fs[k] = es[k]
    BY <1>3, <2>2, <2>m
  <2>4. DOMAIN g = 1 .. m /\ Len(g) = m /\ \A k \in 1 .. m : g[k] = EntryOf(cs, es[k])
    BY <2>1, <2>g
  <2>y. PICK y, q, S : /\ y = EntryOf(cs, x)
                       /\ q = [k \in 1 .. m + 1 |-> EntryOf(cs, fs[k])]
                       /\ S = {EntryOf(cs, fs[k]) : k \in 1 .. m + 1}
    OBVIOUS
  <2>p. PICK p : p = Put(g, y)
    OBVIOUS
  <2>5. /\ q \in [1 .. m + 1 -> S] /\ q[m + 1] = y /\ y \in S
        /\ \A k \in 1 .. m : q[k] = g[k] /\ g[k] \in S
    BY <2>1, <2>3, <2>4, <2>y
  <2>6. q \in Seq(S) /\ Len(q) = m + 1
    <3>1. m + 1 \in Nat /\ q \in [1 .. m + 1 -> S]
      BY <2>1, <2>5
    <3> HIDE <2>y
    <3> QED
      BY <3>1
  <2>7. p \in Seq(S) /\ Len(p) = m + 1 /\ p[m + 1] = y /\ \A k \in 1 .. m : p[k] = g[k]
    <3>1. g \in [1 .. m -> S]
      BY <2>4, <2>5, <2>g, <2>1
    <3>2. g \in Seq(S) /\ y \in S /\ Len(g) = m
      <4> HIDE <2>y
      <4> QED
        BY <2>1, <2>4, <2>5, <3>1
    <3> QED
      BY <2>1, <2>p, <3>2 DEF Put
  <2>9. p = q
    <3>1. ASSUME NEW k \in 1 .. Len(q) PROVE p[k] = q[k]
      <4>1. k \in 1 .. m \/ k = m + 1
        BY <2>1, <2>6
      <4> QED
        BY <2>5, <2>7, <4>1
    <3> QED
      BY <2>6, <2>7, <3>1, SameSeq
  <2>8. EntriesIn(cs, n + 1) = p /\ EntriesIn(cs, n) = g
    BY <1>4, <2>3, <2>9, <2>g, <2>y
  <2> QED
    BY <1>6, <1>x, <2>8, <2>p, <2>y
<1> QED
  BY <1>5, <1>6

\* From none of its chunks to all of them.
LEMMA EntriesTypes ==
  ASSUME NEW cs \in Seq(Chunk)
  PROVE  /\ EntriesIn(cs, 0) = <<>>
         /\ \A n \in 0 .. Len(cs) : EntriesIn(cs, n) \in Seq(Known)
<1>1. EntriesIn(cs, 0) = <<>>
  <2>1. SubSeq(cs, 1, 0) = <<>>
    OBVIOUS
  <2>2. Those(<<>>, Named(cs)) = <<>>
    BY ThoseEmpty
  <2>3. EntriesIn(cs, 0) = [k \in DOMAIN <<>> |-> EntryOf(cs, <<>>[k])]
    BY <2>1, <2>2 DEF EntriesIn
  <2> QED
    BY <2>3
<1> DEFINE T == {n \in Nat : EntriesIn(cs, n) \in Seq(Known)}
<1>2. 0 \in T
  <2>1. <<>> \in Seq(Known)
    OBVIOUS
  <2> QED
    BY <1>1, <2>1
<1>3. ASSUME NEW n \in 0 .. Len(cs) - 1, n \in T PROVE n + 1 \in T
  <2>1. n \in Nat /\ n < Len(cs) /\ EntriesIn(cs, n) \in Seq(Known)
    BY <1>3
  <2>2. cs[n + 1] \in Named(cs) => EntryOf(cs, cs[n + 1]) \in Known
    BY KnownTypes
  <2>k. PICK K, es, x : K = Known /\ es = EntriesIn(cs, n) /\ x = EntryOf(cs, cs[n + 1])
    OBVIOUS
  <2>3. es \in Seq(K) /\ (cs[n + 1] \in Named(cs) => x \in K)
    BY <2>1, <2>2, <2>k
  <2>4. x \in K => Put(es, x) \in Seq(K)
    BY <2>3 DEF Put
  <2>5. EntriesIn(cs, n + 1) = (IF cs[n + 1] \in Named(cs) THEN Put(es, x) ELSE es)
    BY <2>1, <2>k, EntriesStep
  <2>6. EntriesIn(cs, n + 1) \in Seq(K)
    BY <2>3, <2>4, <2>5
  <2> QED
    BY <2>1, <2>6, <2>k
<1> HIDE DEF T
<1>4. \A n \in 0 .. Len(cs) : n \in T
  BY <1>2, <1>3, UpTo
<1> QED
  BY <1>1, <1>4 DEF T

(***************************************************************************)
(* The listing.                                                            *)
(***************************************************************************)

\* An object whose blocks are of this size, and whose names end.
Honest(size) == z.kind = "fat" /\ WrittenAt(size) /\ NamesStraight(size)

BlockList(size) == [k \in 1 .. z.len |-> BlockEntries(size, k)]

\* What the leaves before block n hold, and in block n the chunks before the cursor.
SoFar(size, n) ==
  IF pc = "block" THEN Joint(BlockList(size), n - 1)
  ELSE Plus(Joint(BlockList(size), n - 1), EntriesIn(Chunks, ci))

InBlocks == pc \in {"block", "chunk", "name", "value"}
InLeaf == pc \in {"chunk", "name", "value"}

\* The probe has not passed the block size; the walk has listed what it has passed.
Progress(size) ==
  /\ pc # "micro"
  /\ pc = "dispatch" => bs = 1 /\ out = <<>>
  /\ pc = "probe" => out = <<>> /\ \E i \in Nat : bs * 2^i = size
  /\ InBlocks => bs = size /\ \E n \in 1 .. z.len : off = n * size /\ Same(out, SoFar(size, n))
  /\ InLeaf => off < z.len
  /\ pc = "returned" => Same(out, Listed(size))

\* The blocks of such an object, and what they hold (fat_list, zap.rs:178-220).
LEMMA BlockFacts ==
  ASSUME IsObject(z), NEW size \in Nat \ {0}, WrittenAt(size)
  PROVE  /\ z.len \in Nat
         /\ size < z.len
         /\ BlockList(size) \in Seq(Seq(Known))
         /\ Len(BlockList(size)) = z.len
         /\ \A k \in 1 .. z.len : BlockList(size)[k] = BlockEntries(size, k)
         /\ Listed(size) = FlattenSeq(BlockList(size))
         /\ \A k \in Nat : LeafAt(size, k) => z.leaf[<<k * size, size>>] \in Seq(Chunk)
<1>1. z.len \in Nat /\ size \in z.sig /\ size < z.len
  BY DEF IsObject, WrittenAt, LeafAt
<1>2. ASSUME NEW k \in Nat, LeafAt(size, k)
      PROVE  z.leaf[<<k * size, size>>] \in Seq(Chunk)
  <2>1. k * size \in z.sig
    BY <1>2 DEF LeafAt
  <2>2. <<k * size, size>> \in z.sig \X z.sig
    BY <1>1, <2>1
  <2> QED
    BY <2>2 DEF IsObject
<1>3. ASSUME NEW k \in 1 .. z.len
      PROVE  BlockEntries(size, k) \in Seq(Known)
  <2>c. PICK cs : cs = z.leaf[<<k * size, size>>]
    OBVIOUS
  <2>1. CASE LeafAt(size, k)
    <3>1. cs \in Seq(Chunk)
      BY <1>1, <1>2, <2>1, <2>c
    <3>2. EntriesIn(cs, Len(cs)) \in Seq(Known)
      BY <3>1, EntriesTypes
    <3> QED
      BY <2>1, <2>c, <3>2 DEF BlockEntries
  <2>2. CASE ~ LeafAt(size, k)
    <3>1. BlockEntries(size, k) = <<>>
      BY <2>2 DEF BlockEntries
    <3> QED
      BY <3>1
  <2> QED
    BY <2>1, <2>2
<1>b. PICK b, K, m : b = BlockList(size) /\ K = Seq(Known) /\ m = z.len
  OBVIOUS
<1>4. b \in [1 .. m -> K] /\ m \in Nat /\ \A k \in 1 .. m : b[k] = BlockEntries(size, k)
  BY <1>1, <1>3, <1>b DEF BlockList
<1>5. b \in Seq(K) /\ Len(b) = m
  <2> HIDE <1>b
  <2> QED
    BY <1>4
<1>6. Listed(size) = FlattenSeq(BlockList(size))
  BY DEF Listed, BlockList
<1> QED
  BY <1>1, <1>2, <1>4, <1>5, <1>6, <1>b

\* A block more is what it holds behind what there was, and nothing if it is no leaf.
LEMMA BlockMore ==
  ASSUME IsObject(z), NEW size \in Nat \ {0}, WrittenAt(size), NEW n \in 1 .. z.len
  PROVE  /\ Joint(BlockList(size), n - 1) \in Seq(Known)
         /\ BlockEntries(size, n) \in Seq(Known)
         /\ Joint(BlockList(size), n) = Plus(Joint(BlockList(size), n - 1), BlockEntries(size, n))
<1>m. PICK m, g : m = n - 1 /\ g = BlockList(size)
  OBVIOUS
<1>1. z.len \in Nat /\ g \in Seq(Seq(Known)) /\ Len(g) = z.len /\ g[n] = BlockEntries(size, n)
  BY <1>m, BlockFacts
<1>2. m \in Nat /\ m < Len(g) /\ m + 1 = n
  BY <1>1, <1>m
<1>3. Joint(g, m) \in Seq(Known) /\ g[m + 1] \in Seq(Known) /\ Joint(g, m + 1) = Joint(g, m) \o g[m + 1]
  BY <1>1, <1>2, JointStep
<1> QED
  BY <1>1, <1>2, <1>3, <1>m DEF Plus

\* Block n begins in the object only if there is room for n units.
LEMMA BlockNumber ==
  ASSUME NEW n \in Nat, NEW size \in Nat \ {0}, NEW len \in Nat
  PROVE  /\ n * size < len => n < len
         /\ n * size + size = (n + 1) * size
         /\ n * size \in Nat
         /\ \A k \in Nat : n <= k => n * size <= k * size
<1>1. n * size \in Nat /\ n <= n * size
  OBVIOUS
<1>2. n * size + size = (n + 1) * size
  OBVIOUS
<1>3. ASSUME NEW k \in Nat, n <= k PROVE n * size <= k * size
  <2>1. PICK j \in Nat : k = n + j
    BY <1>3
  <2>2. k * size = n * size + j * size /\ j * size \in Nat
    BY <2>1
  <2> QED
    BY <1>1, <2>2
<1> QED
  BY <1>1, <1>2, <1>3

\* Before the blocks: the probe goes through the smaller powers of two, none of which is
\* where a leaf begins (fat_block_size, zap.rs:226-240).
LEMMA ProbeSteps ==
  ASSUME Typed, NEW size \in Nat \ {0}, size <= MaxBlock, Honest(size), Progress(size),
         pc = "probe"
  PROVE  /\ ProbeFinds => bs = size
         /\ ProbeNext => \E i \in Nat : (2 * bs) * 2^i = size
         /\ ~ ProbeFails
<1>1. PICK i \in Nat : bs * 2^i = size
  BY DEF Progress
<1>2. bs \in Nat /\ MaxBlock \in Nat /\ z.len \in Nat /\ size < z.len /\ size \in z.sig
  BY BlockFacts, SizesAssumption DEF Typed, TypeOK, Honest, WrittenAt, LeafAt
<1>p. PICK p : p = 2^i
  OBVIOUS
<1>3. p \in Nat \ {0} /\ bs * p = size
  BY <1>1, <1>p, PowerStep
<1>4. bs \in 1 .. size
  BY <1>2, <1>3
<1>5. bs \in z.sig => bs = size
  <2>1. \A u \in 1 .. size - 1 : u \notin z.sig
    BY DEF Honest, WrittenAt
  <2> QED
    BY <1>2, <1>4, <2>1
<1>6. bs # size => \E j \in Nat : (2 * bs) * 2^j = size
  <2>1. SUFFICES ASSUME bs # size PROVE \E j \in Nat : (2 * bs) * 2^j = size
    OBVIOUS
  <2>2. i # 0
    <3>1. i = 0 => p = 1
      BY <1>p, PowerStep
    <3> QED
      BY <1>2, <1>3, <2>1, <3>1
  <2>3. PICK j \in Nat : i = j + 1
    <3>1. i - 1 \in Nat /\ i = (i - 1) + 1
      BY <2>2
    <3> QED
      BY <3>1
  <2>q. PICK q : q = 2^j
    OBVIOUS
  <2>4. q \in Nat /\ p = 2 * q
    BY <1>p, <2>3, <2>q, PowerStep
  <2>5. (2 * bs) * q = size
    BY <1>2, <1>3, <2>4
  <2> QED
    BY <2>5, <2>q
<1>7. bs # size => bs \notin z.sig
  BY <1>5
<1>8. Probing
  BY <1>2, <1>4 DEF Probing
<1> QED
  BY <1>2, <1>5, <1>6, <1>8 DEF ProbeFinds, ProbeNext, ProbeFails

\* In a leaf: it is block n of the object.
LEMMA LeafIs ==
  ASSUME Typed, NEW size \in Nat \ {0}, Honest(size), Progress(size), InLeaf
  PROVE  \E n \in 1 .. z.len :
           /\ n \in Nat /\ off = n * size /\ bs = size /\ off < z.len
           /\ Same(out, Plus(Joint(BlockList(size), n - 1), EntriesIn(Chunks, ci)))
           /\ Joint(BlockList(size), n - 1) \in Seq(Known)
           /\ LeafAt(size, n)
           /\ Chunks \in Seq(Chunk)
           /\ ci \in 0 .. Len(Chunks)
           /\ EntriesIn(Chunks, ci) \in Seq(Known)
           /\ BlockEntries(size, n) = EntriesIn(Chunks, Len(Chunks))
<1>1. PICK n \in 1 .. z.len : off = n * size /\ Same(out, SoFar(size, n))
  BY DEF Progress, InBlocks, InLeaf
<1>2. bs = size /\ off < z.len /\ off \in z.sig /\ ci \in 0 .. Len(Chunks) /\ pc # "block"
  BY DEF Progress, InBlocks, InLeaf, Typed, TypeOK, Cursor
<1>3. Same(out, Plus(Joint(BlockList(size), n - 1), EntriesIn(Chunks, ci)))
  BY <1>1, <1>2 DEF SoFar
<1>4. LeafAt(size, n)
  BY <1>1, <1>2 DEF LeafAt
<1>5. Chunks \in Seq(Chunk)
  BY LeafTypes DEF InLeaf
<1>6. Chunks = z.leaf[<<n * size, size>>]
  BY <1>1, <1>2 DEF Chunks
<1>7. BlockEntries(size, n) = EntriesIn(Chunks, Len(Chunks))
  BY <1>4, <1>6 DEF BlockEntries
<1>8. Joint(BlockList(size), n - 1) \in Seq(Known)
  BY BlockMore DEF Honest, Typed, TypeOK
<1>9. EntriesIn(Chunks, ci) \in Seq(Known)
  BY <1>2, <1>5, EntriesTypes
<1>10. n \in Nat
  BY DEF Typed, TypeOK, IsObject
<1> QED
  BY <1>1, <1>2, <1>3, <1>4, <1>5, <1>7, <1>8, <1>9, <1>10

\* Within a leaf, a step that lists nothing and moves to no other chunk.
LEMMA LeafStays ==
  ASSUME NEW size, Progress(size), InLeaf, InLeaf',
         UNCHANGED <<z, bs, off, ci, out>>
  PROVE  Progress(size)'
<1>1. PICK n \in 1 .. z.len : off = n * size /\ Same(out, SoFar(size, n))
  BY DEF Progress, InBlocks, InLeaf
<1>2. /\ BlockList(size)' = BlockList(size) /\ Chunks' = Chunks
      /\ pc # "block" /\ pc' # "block" /\ bs = size /\ off < z.len
  BY DEF BlockList, BlockEntries, LeafAt, Chunks, InLeaf, Progress, InBlocks
<1>3. SoFar(size, n)' = SoFar(size, n)
  BY <1>2 DEF SoFar
<1>4. n \in 1 .. z'.len /\ off' = n * size /\ Same(out, SoFar(size, n))'
  BY <1>1, <1>3 DEF Same
<1> QED
  BY <1>2, <1>4 DEF Progress, InLeaf, InBlocks

\* A chunk of a leaf is done with: what it gave is what it holds.
LEMMA ChunkDone ==
  ASSUME Typed, NEW size \in Nat \ {0}, Honest(size), Progress(size), InLeaf,
         ci < Len(Chunks), ci' = ci + 1, pc' = "chunk", UNCHANGED <<z, bs, off>>,
         Chunks[ci + 1] \notin Named(Chunks) => out' = out,
         Chunks[ci + 1] \in Named(Chunks) =>
           \E x \in [name: Seq(Byte), value: Seq(Byte)] :
             LET y == EntryOf(Chunks, Chunks[ci + 1])
             IN  /\ out' = Put(out, x)
                 /\ x.name = y.name
                 /\ y.value # <<End>> => x.value = y.value
  PROVE  Progress(size)'
<1>1. PICK n \in 1 .. z.len :
           /\ off = n * size /\ bs = size /\ off < z.len
           /\ Same(out, Plus(Joint(BlockList(size), n - 1), EntriesIn(Chunks, ci)))
           /\ Joint(BlockList(size), n - 1) \in Seq(Known)
           /\ Chunks \in Seq(Chunk)
           /\ ci \in 0 .. Len(Chunks)
           /\ EntriesIn(Chunks, ci) \in Seq(Known)
  BY LeafIs
<1>c. PICK cs, c, j, es : /\ cs = Chunks /\ c = Chunks[ci + 1]
                          /\ j = Joint(BlockList(size), n - 1) /\ es = EntriesIn(Chunks, ci)
  OBVIOUS
<1>2. EntriesIn(cs, ci + 1) = IF c \in Named(cs) THEN Put(es, EntryOf(cs, c)) ELSE es
  BY <1>1, <1>c, EntriesStep DEF Typed, Cursor
<1>3. /\ BlockList(size)' = BlockList(size) /\ Chunks' = cs
  BY <1>c DEF BlockList, BlockEntries, LeafAt, Chunks
<1>4. SoFar(size, n)' = Plus(j, EntriesIn(cs, ci + 1))
  BY <1>3, <1>c DEF SoFar
<1>5. Same(out', Plus(j, EntriesIn(cs, ci + 1)))
  <2>1. CASE c \notin Named(cs)
    BY <1>1, <1>2, <1>c, <2>1
  <2>2. CASE c \in Named(cs)
    <3>y. PICK y, P, K : y = EntryOf(cs, c) /\ P = [name: Seq(Byte), value: Seq(Byte)] /\ K = Known
      OBVIOUS
    <3>1. PICK x \in P : /\ out' = Put(out, x) /\ x.name = y.name
                         /\ y.value # <<End>> => x.value = y.value
      BY <1>c, <2>2, <3>y
    <3>2. y \in K /\ out \in Seq(P)
      BY <1>1, <1>c, <2>2, <3>y, KnownTypes DEF Typed, TypeOK
    <3>3. j \in Seq(K) /\ es \in Seq(K) /\ Same(out, Plus(j, es))
      BY <1>1, <1>c, <3>y
    <3>4. Plus(j, es) \in Seq(K)
      BY <3>3, ConcatParts DEF Plus
    <3>5. Same(Put(out, x), Put(Plus(j, es), y))
      BY <3>1, <3>2, <3>3, <3>4, SamePut
    <3>6. Plus(j, Put(es, y)) = Put(Plus(j, es), y)
      BY <3>2, <3>3, PlusPut
    <3>7. EntriesIn(cs, ci + 1) = Put(es, y)
      BY <1>2, <2>2, <3>y
    <3> QED
      BY <3>1, <3>5, <3>6, <3>7
  <2> QED
    BY <2>1, <2>2
<1>6. Same(out, SoFar(size, n))'
  BY <1>4, <1>5 DEF Same
<1>7. n \in 1 .. z'.len /\ off' = n * size /\ bs' = size /\ off' < z'.len
  BY <1>1
<1> QED
  BY <1>6, <1>7 DEF Progress, InLeaf, InBlocks

\* Block n is done with: what has been listed is what the blocks up to it hold.
LEMMA BlockDone ==
  ASSUME Typed, NEW size \in Nat \ {0}, Honest(size), NEW n \in 1 .. z.len,
         n * size < z.len, off = n * size, bs = size, off' = off + bs, pc' = "block",
         Same(out, Plus(Joint(BlockList(size), n - 1), BlockEntries(size, n))),
         UNCHANGED <<z, bs, out>>
  PROVE  Progress(size)'
<1>1. z.len \in Nat /\ n \in Nat
  BY DEF Typed, TypeOK, IsObject
<1>2. n + 1 \in 1 .. z.len /\ off' = (n + 1) * size
  BY <1>1, BlockNumber
<1>3. Same(out, Joint(BlockList(size), n))
  BY BlockMore DEF Honest, Typed, TypeOK
<1>4. BlockList(size)' = BlockList(size)
  BY DEF BlockList, BlockEntries, LeafAt
<1>m. PICK m : m = n + 1
  OBVIOUS
<1>5. m \in 1 .. z.len /\ off' = m * size /\ m - 1 = n
  BY <1>1, <1>2, <1>m
<1>6. Same(out, SoFar(size, m))'
  BY <1>3, <1>4, <1>5 DEF SoFar, Same
<1> QED
  BY <1>5, <1>6 DEF Progress, InLeaf, InBlocks

\* A step passes a chunk, a block or a size probed, and lists what it has passed.
LEMMA ProgressStep ==
  ASSUME Typed, Chained, [Next]_vars,
         NEW size \in Nat \ {0}, size <= MaxBlock, \E k \in Nat : size = 2^k,
         Honest(size), Progress(size)
  PROVE  Progress(size)'
<1>z. z' = z /\ IsObject(z) /\ z.len \in Nat /\ z.kind = "fat"
  BY ObjectStays DEF Typed, TypeOK, IsObject, Honest
<1>b. /\ BlockList(size)' = BlockList(size) /\ Listed(size)' = Listed(size)
  BY <1>z DEF BlockList, Listed, BlockEntries, LeafAt
<1>t. /\ BlockList(size) \in Seq(Seq(Known)) /\ Len(BlockList(size)) = z.len /\ size < z.len
      /\ Listed(size) = FlattenSeq(BlockList(size))
  BY <1>z, BlockFacts DEF Honest
<1>1. CASE Dispatch
  <2>1. pc' = "probe" /\ bs' = 1 /\ out' = <<>>
    BY <1>1, <1>z DEF Dispatch, Progress
  <2>2. PICK k \in Nat : size = 2^k
    OBVIOUS
  <2>3. bs' * 2^k = size
    BY <2>1, <2>2
  <2> QED
    BY <2>1, <2>3 DEF Progress, InBlocks, InLeaf
<1>2. CASE MicroSlot \/ MicroEnds
  BY <1>2 DEF MicroSlot, MicroEnds, Progress
<1>3. CASE ProbeFinds
  <2>1. bs = size /\ bs' = size /\ off' = size /\ pc' = "block" /\ out' = <<>>
    BY <1>3, ProbeSteps DEF ProbeFinds, Probing, FirstBlock, Progress
  <2>2. 1 \in 1 .. z.len /\ off' = 1 * size
    BY <1>t, <1>z, <2>1
  <2>3. Joint(BlockList(size), 1 - 1) = <<>>
    BY <1>t, JointEnds
  <2>4. Same(out, SoFar(size, 1))'
    BY <1>b, <2>1, <2>3 DEF SoFar, Same
  <2> QED
    BY <1>z, <2>1, <2>2, <2>4 DEF Progress, InBlocks, InLeaf
<1>4. CASE ProbeNext
  <2>1. pc = "probe" /\ pc' = "probe" /\ out' = <<>> /\ bs' = 2 * bs
    BY <1>4 DEF ProbeNext, Probing, Progress, chain
  <2>2. \E i \in Nat : bs' * 2^i = size
    BY <1>4, <2>1, ProbeSteps
  <2> QED
    BY <2>1, <2>2 DEF Progress, InBlocks, InLeaf
<1>5. CASE ProbeFails
  BY <1>5, ProbeSteps DEF ProbeFails
<1>6. CASE SkipBlock
  <2>1. pc = "block" /\ bs = size /\ off < z.len /\ off \notin z.sig
    BY <1>6 DEF SkipBlock, Progress, InBlocks
  <2>2. PICK n \in 1 .. z.len : off = n * size /\ Same(out, Joint(BlockList(size), n - 1))
    BY <2>1 DEF Progress, InBlocks, SoFar
  <2>3. BlockEntries(size, n) = <<>>
    BY <2>1, <2>2 DEF BlockEntries, LeafAt
  <2>4. Joint(BlockList(size), n - 1) \in Seq(Known)
    BY <1>z, BlockMore DEF Honest
  <2>5. Plus(Joint(BlockList(size), n - 1), BlockEntries(size, n)) = Joint(BlockList(size), n - 1)
    BY <2>3, <2>4, ConcatFacts DEF Plus
  <2>6. UNCHANGED <<z, bs, out>> /\ off' = off + bs /\ pc' = "block"
    BY <1>6, <2>1 DEF SkipBlock, NextBlock, chain
  <2> QED
    BY <2>1, <2>2, <2>5, <2>6, BlockDone
<1>7. CASE EnterLeaf
  <2>1. /\ pc = "block" /\ bs = size /\ off < z.len /\ off \in z.sig
        /\ UNCHANGED <<z, bs, off, out>> /\ ci' = 0 /\ pc' = "chunk"
    BY <1>7 DEF EnterLeaf, Progress, InBlocks
  <2>2. PICK n \in 1 .. z.len : off = n * size /\ Same(out, Joint(BlockList(size), n - 1))
    BY <2>1 DEF Progress, InBlocks, SoFar
  <2>j. PICK j : j = Joint(BlockList(size), n - 1)
    OBVIOUS
  <2>3. j \in Seq(Known)
    BY <1>z, <2>j, BlockMore DEF Honest
  <2>4. Chunks \in Seq(Chunk)
    <3>1. LeafAt(size, n) /\ n \in Nat
      BY <1>z, <2>1, <2>2 DEF LeafAt
    <3> QED
      BY <1>z, <2>1, <2>2, <3>1, BlockFacts DEF Honest, Chunks
  <2>5. EntriesIn(Chunks, 0) = <<>>
    BY <2>4, EntriesTypes
  <2>6. Chunks' = Chunks
    BY <2>1 DEF Chunks
  <2>7. SoFar(size, n)' = j
    <3>1. SoFar(size, n)' = Plus(j, EntriesIn(Chunks, 0))
      BY <1>b, <2>1, <2>6, <2>j DEF SoFar
    <3> QED
      BY <2>3, <2>5, <3>1, ConcatFacts DEF Plus
  <2>8. Same(out, SoFar(size, n))'
    BY <2>1, <2>2, <2>7, <2>j DEF Same
  <2>9. n \in 1 .. z'.len /\ off' = n * size /\ bs' = size /\ off' < z'.len
    BY <2>1, <2>2
  <2> QED
    BY <2>1, <2>8, <2>9 DEF Progress, InBlocks, InLeaf
<1>8. CASE EndOfObject
  <2>1. pc = "block" /\ off >= z.len /\ pc' = "returned" /\ out' = out
    BY <1>8 DEF EndOfObject
  <2>2. PICK n \in 1 .. z.len : off = n * size /\ Same(out, Joint(BlockList(size), n - 1))
    BY <2>1 DEF Progress, InBlocks, SoFar
  <2>g. PICK g, m : g = BlockList(size) /\ m = n - 1
    OBVIOUS
  <2>3. \A k \in m + 1 .. Len(g) : g[k] = <<>>
    <3>1. SUFFICES ASSUME NEW k \in m + 1 .. Len(g) PROVE g[k] = <<>>
      OBVIOUS
    <3>2. k \in 1 .. z.len /\ n <= k /\ k \in Nat /\ n \in Nat
      BY <1>t, <1>z, <2>g
    <3>3. n * size <= k * size /\ n * size \in Nat /\ k * size \in Nat
      BY <1>z, <3>2, BlockNumber
    <3>4. ~ LeafAt(size, k)
      BY <1>z, <2>1, <2>2, <3>3 DEF LeafAt
    <3>5. g[k] = BlockEntries(size, k)
      BY <1>z, <2>g, <3>2, BlockFacts DEF Honest
    <3> QED
      BY <3>4, <3>5 DEF BlockEntries
  <2>4. Joint(g, m) = FlattenSeq(g)
    <3>1. m \in 0 .. Len(g) /\ g \in Seq(Seq(Known))
      BY <1>t, <1>z, <2>g
    <3> QED
      BY <2>3, <3>1, JointGrows
  <2>5. Same(out, Listed(size))
    BY <1>t, <2>2, <2>4, <2>g
  <2>6. Same(out, Listed(size))'
    BY <1>b, <2>1, <2>5 DEF Same
  <2> QED
    BY <2>1, <2>6 DEF Progress, InBlocks, InLeaf
<1>9. CASE SkipChunk
  <2>1. /\ InLeaf /\ ci < Len(Chunks) /\ ci' = ci + 1 /\ pc' = "chunk"
        /\ UNCHANGED <<z, bs, off>> /\ out' = out /\ Chunks[ci + 1].type # "entry"
    BY <1>9 DEF SkipChunk, InLeaf, chain
  <2>2. Chunks[ci + 1] \notin Named(Chunks)
    BY <2>1 DEF Named
  <2> QED
    BY <2>1, <2>2, ChunkDone
<1>10. CASE LeaveLeaf
  <2>1. /\ InLeaf /\ ci >= Len(Chunks) /\ off' = off + bs /\ pc' = "block"
        /\ UNCHANGED <<z, bs, out>>
    BY <1>10 DEF LeaveLeaf, NextBlock, InLeaf, chain
  <2>2. PICK n \in 1 .. z.len :
           /\ off = n * size /\ bs = size /\ off < z.len
           /\ Same(out, Plus(Joint(BlockList(size), n - 1), EntriesIn(Chunks, ci)))
           /\ Chunks \in Seq(Chunk)
           /\ ci \in 0 .. Len(Chunks)
           /\ BlockEntries(size, n) = EntriesIn(Chunks, Len(Chunks))
    BY <2>1, LeafIs
  <2>3. ci = Len(Chunks)
    BY <2>1, <2>2
  <2> QED
    BY <2>1, <2>2, <2>3, BlockDone
<1>11. CASE EnterEntry \/ Follow \/ NameRead
  <2>1. InLeaf /\ InLeaf' /\ UNCHANGED <<z, bs, off, ci, out>>
    BY <1>11 DEF EnterEntry, Follow, Followable, NameRead, StartChain, InLeaf
  <2> QED
    BY <2>1, LeafStays
<1>12. CASE ValueRead
  <2>c. PICK cs, e, w : cs = Chunks /\ e = Entry /\ w = Truncate(acc, Want)
    OBVIOUS
  <2>1. /\ InLeaf /\ pc = "value" /\ ci < Len(cs) /\ ci' = ci + 1 /\ pc' = "chunk"
        /\ UNCHANGED <<z, bs, off>> /\ e.type = "entry" /\ ~ Followable /\ e = cs[ci + 1]
        /\ out' = IF name = <<>> THEN out ELSE Put(out, [name |-> name, value |-> w])
    BY <1>12, <2>c DEF ValueRead, InLeaf, Typed, Cursor, Entry, Put, chain
  <2>2. /\ cs \in Seq(Chunk) /\ e \in EntryChunk /\ Want \in Nat /\ e.value \in 0 .. End
    BY <2>1, <2>c, LeafTypes, EntryTypes DEF EntryChunk
  <2>3. e \in Range(cs)
    <3>1. ci + 1 \in DOMAIN cs
      BY <2>1, <2>2 DEF Typed, Cursor
    <3> QED
      BY <2>1, <3>1 DEF Range
  <2>4. Straight(cs, e.name)
    <3>1. PICK n \in 1 .. z.len : n \in Nat /\ off = n * size /\ bs = size /\ off < z.len /\ LeafAt(size, n)
      BY <2>1, LeafIs
    <3>2. n \in Blocks(size) /\ cs = z.leaf[<<n * size, size>>]
      BY <2>c, <3>1 DEF Blocks, Chunks
    <3> QED
      BY <2>1, <2>3, <3>1, <3>2 DEF Honest, NamesStraight
  <2>5. name = NameOf(cs, e)
    BY <2>1, <2>4, <2>c DEF Chained
  <2>6. e \in Named(cs) <=> name # <<>>
    BY <2>1, <2>3, <2>4, <2>5 DEF Named
  <2>7. Straight(cs, e.value) => w = Stored(cs, e.value, e.want)
    <3>1. OnPath(cs, e.value)
      BY <2>1, <2>c DEF Chained
    <3>2. Want = e.want
      BY <2>1, <2>c DEF Want
    <3> QED
      BY <2>1, <2>2, <2>c, <3>1, <3>2, ChainEnds
  <2>y. PICK x, y : x = [name |-> name, value |-> w] /\ y = EntryOf(cs, e)
    OBVIOUS
  <2>8. x.name = y.name /\ (y.value # <<End>> => x.value = y.value)
    BY <2>5, <2>7, <2>y DEF EntryOf
  <2>9. x \in [name: Seq(Byte), value: Seq(Byte)]
    BY <2>2, <2>c, <2>y, CutTypes DEF Typed, TypeOK
  <2>10. cs[ci + 1] \notin Named(cs) => out' = out
    BY <2>1, <2>6
  <2>11. cs[ci + 1] \in Named(cs) => out' = Put(out, x)
    BY <2>1, <2>6, <2>y
  <2> QED
    BY <2>1, <2>8, <2>9, <2>10, <2>11, <2>c, <2>y, ChunkDone
<1>13. CASE Returned \/ UNCHANGED vars
  <2>1. UNCHANGED vars
    BY <1>13 DEF Returned
  <2>2. UNCHANGED <<z, pc, bs, off, ci, out>> /\ Chunks' = Chunks
    BY <2>1 DEF vars, Chunks
  <2>3. \A n : SoFar(size, n)' = SoFar(size, n)
    BY <1>b, <2>2 DEF SoFar
  <2>4. (\E n \in 1 .. z.len : off = n * size /\ Same(out, SoFar(size, n)))
          => \E n \in 1 .. z'.len : off' = n * size /\ Same(out, SoFar(size, n))'
    BY <2>2, <2>3 DEF Same
  <2>5. Same(out, Listed(size)) => Same(out, Listed(size))'
    BY <1>b, <2>2 DEF Same
  <2> QED
    BY <2>2, <2>4, <2>5 DEF Progress, InBlocks, InLeaf
<1> QED
  BY <1>1, <1>2, <1>3, <1>4, <1>5, <1>6, <1>7, <1>8, <1>9, <1>10, <1>11, <1>12, <1>13 DEF Next

\* The probe tries the powers of two up to 128 KiB.
AllInv ==
  /\ Typed
  /\ Chained
  /\ \A k \in 0 .. 8 : 2^k <= MaxBlock /\ Honest(2^k) => Progress(2^k)

\* Whatever the chains of its other entries do, every entry of every leaf is listed, in
\* order, with its whole name and its whole value (zap.rs:127-350).
THEOREM EveryEntryIsListed == Spec => []ListsEveryEntry
<1>1. Init => AllInv
  <2>1. Init => \A size : Progress(size)
    BY DEF Init, Progress, InBlocks, InLeaf
  <2>2. Init => Chained
    BY DEF Init, Chained
  <2> QED
    BY <2>1, <2>2, InitTyped DEF AllInv
<1>2. AllInv /\ [Next]_vars => AllInv'
  <2>1. SUFFICES ASSUME AllInv, [Next]_vars PROVE AllInv'
    OBVIOUS
  <2>2. Typed /\ Chained /\ Typed' /\ Chained'
    BY <2>1, StepTyped, ChainedStep DEF AllInv
  <2>3. ASSUME NEW k \in 0 .. 8, 2^k <= MaxBlock, Honest(2^k)'
        PROVE  Progress(2^k)'
    <3>s. PICK size : size = 2^k
      OBVIOUS
    <3>1. k \in Nat /\ size \in Nat \ {0} /\ size <= MaxBlock
      BY <2>3, <3>s, PowerStep
    <3>2. Honest(size)' <=> Honest(size)
      BY <2>1, ObjectStays DEF Honest, WrittenAt, NamesStraight, LeafAt, Blocks
    <3>3. Honest(size) /\ Progress(size)
      BY <2>1, <2>3, <3>2, <3>s DEF AllInv
    <3>4. Progress(size)'
      BY <2>1, <2>2, <3>1, <3>3, <3>s, ProgressStep
    <3> QED
      BY <3>4, <3>s
  <2> QED
    BY <2>2, <2>3 DEF AllInv
<1>3. AllInv => ListsEveryEntry
  <2>1. SUFFICES ASSUME AllInv, pc = "returned", z.kind = "fat",
                        NEW size \in {2^k : k \in 0 .. 8},
                        size <= MaxBlock, WrittenAt(size), NamesStraight(size)
                 PROVE  Same(out, Listed(size)) /\ DOMAIN out = 1 .. Len(out)
    BY DEF ListsEveryEntry, Same
  <2>2. Same(out, Listed(size))
    BY <2>1 DEF AllInv, Honest, Progress
  <2>3. DOMAIN out = 1 .. Len(out)
    BY <2>1 DEF AllInv, Typed, TypeOK
  <2> QED
    BY <2>2, <2>3
<1> QED
  BY <1>1, <1>2, <1>3, PTL DEF Spec

=============================================================================
