--------------------------------- MODULE Zap ---------------------------------
(***************************************************************************)
(* The enumeration of a ZAP object (core/src/zap.rs): zap_list_arrays, and *)
(* zap_list, which is the same walk and then folds each value to its first *)
(* eight bytes.                                                            *)
(*                                                                         *)
(* Offsets and sizes are in 512-byte units, the smallest block.  What a    *)
(* block decodes to depends on the block size the reader infers, which     *)
(* moves the chunk area: leaf[<<off, bs>>] is the sequence of chunks of    *)
(* the block at off under block size bs, shorter if the object ends inside *)
(* the block.  sig is the set of units that begin with a leaf's type and   *)
(* magic.  Chunk numbers are from 0, as on disk.                           *)
(***************************************************************************)
EXTENDS Lists, Functions

CONSTANTS
  Byte,
  Nul,         \* the byte that terminates a name
  End,         \* u16::MAX, the end of a chunk chain
  ArrayBytes,  \* payload bytes of an array chunk; 21 in the code
  MaxBlock,    \* the largest block size probed; 256 units in the code
  Objects      \* objects to list

EntryChunk ==
  [type: {"entry"}, name: 0..End, nameLen: Nat, value: 0..End, want: Nat]
ArrayChunk == [type: {"array"}, bytes: [1..ArrayBytes -> Byte], next: 0..End]
FreeChunk == [type: {"free"}]
Chunk == EntryChunk \cup ArrayChunk \cup FreeChunk

\* slots: the entries of a micro-ZAP, an empty slot with the empty name.
IsObject(z) ==
  /\ z.kind \in {"micro", "fat", "other"}
  /\ z.len \in Nat
  /\ z.sig \subseteq 1..z.len
  /\ z.sig \X z.sig \subseteq DOMAIN z.leaf
  /\ \A at \in DOMAIN z.leaf : z.leaf[at] \in Seq(Chunk) /\ Len(z.leaf[at]) < End
  /\ z.slots \in Seq([name: Seq(Byte), value: Seq(Byte)])

ASSUME NulAssumption == Nul \in Byte
ASSUME SizesAssumption == {ArrayBytes, End, MaxBlock} \subseteq Nat \ {0}
ASSUME ObjectsAssumption == \A z \in Objects : IsObject(z)

VARIABLES
  z,       \* the object
  pc,      \* "dispatch", "micro", "probe", "block", "chunk", "name", "value", "returned"
  bs,      \* the block size, or the size probed
  off,     \* the block
  ci,      \* the chunk, or the micro-ZAP slot
  nc,      \* the next chunk of the chain
  hops,    \* chunks of the chain followed
  acc,     \* bytes of the chain collected
  name,    \* the name of the entry whose value is being collected
  out      \* the entries listed

vars == <<z, pc, bs, off, ci, nc, hops, acc, name, out>>
chain == <<nc, hops, acc, name>>

-----------------------------------------------------------------------------
Init ==
  /\ z \in Objects
  /\ pc = "dispatch"
  /\ bs = 1
  /\ off = 0
  /\ ci = 0
  /\ nc = 0
  /\ hops = 0
  /\ acc = <<>>
  /\ name = <<>>
  /\ out = <<>>

\* On the block-type word.
Dispatch ==
  /\ pc = "dispatch"
  /\ pc' = CASE z.kind = "micro" -> "micro" [] z.kind = "fat" -> "probe" [] OTHER -> "returned"
  /\ UNCHANGED <<z, bs, off, ci, chain, out>>

-----------------------------------------------------------------------------
(***************************************************************************)
(* micro_list                                                              *)
(***************************************************************************)
MicroSlot ==
  /\ pc = "micro"
  /\ ci < Len(z.slots)
  /\ out' = IF z.slots[ci + 1].name = <<>> THEN out ELSE Append(out, z.slots[ci + 1])
  /\ ci' = ci + 1
  /\ UNCHANGED <<z, pc, bs, off, chain>>

MicroEnds ==
  /\ pc = "micro"
  /\ ci = Len(z.slots)
  /\ pc' = "returned"
  /\ UNCHANGED <<z, bs, off, ci, chain, out>>

-----------------------------------------------------------------------------
(***************************************************************************)
(* fat_block_size: the smallest power of two at which a leaf begins        *)
(***************************************************************************)
Probing == pc = "probe" /\ bs <= MaxBlock /\ bs < z.len

\* The leaves start at block 1.
FirstBlock(size) ==
  /\ bs' = size
  /\ off' = size
  /\ pc' = "block"
  /\ UNCHANGED <<z, ci, chain, out>>

ProbeFinds ==
  /\ Probing
  /\ bs \in z.sig
  /\ FirstBlock(bs)

ProbeNext ==
  /\ Probing
  /\ bs \notin z.sig
  /\ bs' = 2 * bs
  /\ UNCHANGED <<z, pc, off, ci, chain, out>>

ProbeFails ==
  /\ pc = "probe"
  /\ ~Probing
  /\ FirstBlock(z.len)

-----------------------------------------------------------------------------
(***************************************************************************)
(* fat_list: the blocks, and the chunks of a leaf                          *)
(***************************************************************************)
Chunks == z.leaf[<<off, bs>>]

NextBlock == off' = off + bs

SkipBlock ==
  /\ pc = "block"
  /\ off < z.len
  /\ off \notin z.sig
  /\ NextBlock
  /\ UNCHANGED <<z, pc, bs, ci, chain, out>>

EnterLeaf ==
  /\ pc = "block"
  /\ off < z.len
  /\ off \in z.sig
  /\ ci' = 0
  /\ pc' = "chunk"
  /\ UNCHANGED <<z, bs, off, chain, out>>

EndOfObject ==
  /\ pc = "block"
  /\ off >= z.len
  /\ pc' = "returned"
  /\ UNCHANGED <<z, bs, off, ci, chain, out>>

\* Mutant: an array chunk is stepped over together with its successor.
SkipChunkTwice ==
  /\ pc = "chunk"
  /\ ci < Len(Chunks)
  /\ Chunks[ci + 1].type # "entry"
  /\ ci' = ci + 2
  /\ UNCHANGED <<z, pc, bs, off, chain, out>>

SkipChunk ==
  /\ pc = "chunk"
  /\ ci < Len(Chunks)
  /\ Chunks[ci + 1].type # "entry"
  /\ ci' = ci + 1
  /\ UNCHANGED <<z, pc, bs, off, chain, out>>

LeaveLeaf ==
  /\ pc = "chunk"
  /\ ci >= Len(Chunks)
  /\ NextBlock
  /\ pc' = "block"
  /\ UNCHANGED <<z, bs, ci, chain, out>>

Entry == Chunks[ci + 1]

\* Mutant: the hops of one chain count against the next.
StartChainCounting(from, start) ==
  /\ pc' = from
  /\ nc' = start
  /\ acc' = <<>>
  /\ UNCHANGED hops

StartChain(from, start) ==
  /\ pc' = from
  /\ nc' = start
  /\ hops' = 0
  /\ acc' = <<>>

EnterEntry ==
  /\ pc = "chunk"
  /\ ci < Len(Chunks)
  /\ Entry.type = "entry"
  /\ StartChain("name", Entry.name)
  /\ UNCHANGED <<z, bs, off, ci, name, out>>

-----------------------------------------------------------------------------
(***************************************************************************)
(* array_bytes, for the name and then for the value of an entry            *)
(***************************************************************************)
Want == IF pc = "name" THEN Entry.nameLen ELSE Entry.want

IsArray(cs, c) == c < Len(cs) /\ cs[c + 1].type = "array"

\* Mutant: the chain is read to its end, whatever the entry asks for.
FollowableUncapped ==
  /\ pc \in {"name", "value"}
  /\ nc # End
  /\ IsArray(Chunks, nc)
  /\ hops < Len(Chunks)

Followable ==
  /\ pc \in {"name", "value"}
  /\ nc # End
  /\ IsArray(Chunks, nc)
  /\ hops < Len(Chunks)
  /\ Len(acc) < Want

Follow ==
  /\ Followable
  /\ acc' = acc \o Chunks[nc + 1].bytes
  /\ nc' = Chunks[nc + 1].next
  /\ hops' = hops + 1
  /\ UNCHANGED <<z, pc, bs, off, ci, name, out>>

Truncate(s, n) == IF Len(s) <= n THEN s ELSE SubSeq(s, 1, n)

Unterminated(s) == IF s # <<>> /\ Last(s) = Nul THEN Front(s) ELSE s

NameRead ==
  /\ pc = "name"
  /\ ~Followable
  /\ name' = Unterminated(Truncate(acc, Want))
  /\ StartChain("value", Entry.value)
  /\ UNCHANGED <<z, bs, off, ci, out>>

\* An entry without a name is dropped.
ValueRead ==
  /\ pc = "value"
  /\ ~Followable
  /\ out' = IF name = <<>> THEN out
            ELSE Append(out, [name |-> name, value |-> Truncate(acc, Want)])
  /\ ci' = ci + 1
  /\ pc' = "chunk"
  /\ UNCHANGED <<z, bs, off, chain>>

Returned == pc = "returned" /\ UNCHANGED vars

Next ==
  \/ Dispatch
  \/ MicroSlot
  \/ MicroEnds
  \/ ProbeFinds
  \/ ProbeNext
  \/ ProbeFails
  \/ SkipBlock
  \/ EnterLeaf
  \/ EndOfObject
  \/ SkipChunk
  \/ LeaveLeaf
  \/ EnterEntry
  \/ Follow
  \/ NameRead
  \/ ValueRead
  \/ Returned

\* One thread that nothing blocks: a step it can take, it takes.
Spec == Init /\ [][Next]_vars /\ WF_vars(Next)

-----------------------------------------------------------------------------
(***************************************************************************)
(* Reference: the chain a writer laid out, as a path of distinct chunks    *)
(***************************************************************************)
Paths(cs, start) ==
  {p \in BoundedSeq(0..Len(cs) - 1, Len(cs)) :
     LET at == <<start>> \o
                 [k \in DOMAIN p |-> IF IsArray(cs, p[k]) THEN cs[p[k] + 1].next ELSE End]
     IN  /\ IsInjective(p)
         /\ \A k \in DOMAIN p : IsArray(cs, p[k]) /\ p[k] = at[k]
         /\ ~IsArray(cs, Last(at))}

\* The chain ends: it does not lead back to one of its own chunks.
Straight(cs, start) == Paths(cs, start) # {}

Stored(cs, start, want) ==
  LET p == CHOOSE p \in Paths(cs, start) : TRUE
  IN  Truncate(FlattenSeq([k \in DOMAIN p |-> cs[p[k] + 1].bytes]), want)

NameOf(cs, e) == Unterminated(Stored(cs, e.name, e.nameLen))

\* The entries of a leaf that have a name.
Named(cs) ==
  {c \in Range(cs) : c.type = "entry" /\ Straight(cs, c.name) /\ NameOf(cs, c) # <<>>}

\* A value that never ends is left open.
EntryOf(cs, e) ==
  [name |-> NameOf(cs, e),
   value |-> IF Straight(cs, e.value) THEN Stored(cs, e.value, e.want) ELSE <<End>>]

\* What the first n chunks of a leaf hold.
EntriesIn(cs, n) ==
  LET es == Those(SubSeq(cs, 1, n), Named(cs)) IN [k \in DOMAIN es |-> EntryOf(cs, es[k])]

\* Block k of an object of block size size is a leaf.
LeafAt(size, k) == k * size < z.len /\ k * size \in z.sig

Blocks(size) == {k \in 1..z.len : k * size < z.len}

\* What it holds.
BlockEntries(size, k) ==
  LET cs == z.leaf[<<k * size, size>>]
  IN  IF LeafAt(size, k) THEN EntriesIn(cs, Len(cs)) ELSE <<>>

Listed(size) == FlattenSeq([k \in 1..z.len |-> BlockEntries(size, k)])

NamesStraight(size) ==
  \A k \in Blocks(size) : LeafAt(size, k) =>
    LET cs == z.leaf[<<k * size, size>>]
    IN  \A c \in Range(cs) : c.type = "entry" => Straight(cs, c.name)

\* An object written with this block size: its block 1 is a leaf, and nothing in
\* its header block looks like one.
WrittenAt(size) == LeafAt(size, 1) /\ \A u \in 1..size - 1 : u \notin z.sig

-----------------------------------------------------------------------------
(***************************************************************************)
(* Properties                                                              *)
(***************************************************************************)
\* The types of the walk's variables.
TypeOK ==
  /\ IsObject(z)
  /\ pc \in {"dispatch", "micro", "probe", "block", "chunk", "name", "value", "returned"}
  /\ {bs, off, hops} \subseteq Nat
  /\ pc \in {"chunk", "name", "value"} => <<off, bs>> \in DOMAIN z.leaf /\ ci \in 0..Len(Chunks)
  /\ nc \in 0..End
  /\ acc \in Seq(Byte)
  /\ name \in Seq(Byte)
  /\ out \in Seq([name: Seq(Byte), value: Seq(Byte)])

\* Every entry of every leaf is listed, in order, with its whole name and value:
\* neither the hop bound nor a chain that never ends, in the same entry or in
\* another, costs an honest chain a byte.
ListsEveryEntry ==
  pc = "returned" /\ z.kind = "fat" =>
    \A size \in {2^k : k \in 0..8} :
      size <= MaxBlock /\ WrittenAt(size) /\ NamesStraight(size) =>
        /\ Len(out) = Len(Listed(size))
        /\ \A i \in DOMAIN out :
             /\ out[i].name = Listed(size)[i].name
             /\ Listed(size)[i].value # <<End>> => out[i].value = Listed(size)[i].value

\* "names and values are capped at the block size" (core/src/zap.rs:47): a chain
\* never yields more than the leaf's chunks hold, however it loops, and collection
\* overshoots what the entry asks for by less than a chunk.
ChainIsCapped ==
  pc \in {"name", "value"} =>
    /\ hops <= Len(Chunks)
    /\ Len(acc) = hops * ArrayBytes
    /\ hops > 0 => Len(acc) < Want + ArrayBytes
=============================================================================
