------------------------------- MODULE Codec -------------------------------
(***************************************************************************)
(* One block on its way from its stored bytes to its logical bytes:        *)
(* verify (checksum.rs) and decompress (compress.rs).                      *)
(*                                                                         *)
(* LZJB and ZLE are loops of the code, an iteration is a step.  LZ4,       *)
(* DEFLATE and zstd are other crates, modelled by what they promise of the *)
(* stream a block was compressed to, of a stream that is cut, and of any   *)
(* other; so is SHA-256.  A checksum word is a byte here.                  *)
(***************************************************************************)
EXTENDS Integers, Sequences, SequencesExt

CONSTANTS
  Blocks,     \* the blocks, with what was written
  SumWidth    \* bits of a fletcher sum, 64 in the code

ASSUME SumWidthAssumption == SumWidth \in Nat \ {0}

VARIABLES
  block,      \* the block
  pc,         \* "verify", "decode", "returned"
  verdict,    \* what verify returned: "good", "bad", "none"
  si,         \* the bytes consumed
  copymap,    \* LZJB: the flags of eight items, and the bit of the last one
  bit,
  left,       \* LZJB: the bytes of a match still to copy, and where the next is
  cpy,
  output,     \* the bytes produced
  result      \* "pending", "ok", "malformed", "unsupported"

codecVars == <<block, pc, verdict, si, copymap, bit, left, cpy, output, result>>

-----------------------------------------------------------------------------
(***************************************************************************)
(* checksum.rs                                                             *)
(***************************************************************************)
\* ChecksumType::from_raw, as far as verify tells the types apart.
ChecksumType(v) == CASE v = 6 -> "fletcher2" [] v = 7 -> "fletcher4" [] v = 8 -> "sha256" [] OTHER -> "none"

Sum(x, y) == (x + y) % 2^SumWidth

\* Mutant: sums that do not run.
Fletcher4Flat(words) ==
  FoldLeft(LAMBDA s, w : <<Sum(s[1], w), Sum(s[2], w), Sum(s[3], w), Sum(s[4], w)>>,
           <<0, 0, 0, 0>>, words)

Fletcher4(words) ==
  FoldLeft(LAMBDA s, w :
             LET a == Sum(s[1], w) IN LET b == Sum(s[2], a) IN LET c == Sum(s[3], b)
             IN  <<a, b, c, Sum(s[4], c)>>,
           <<0, 0, 0, 0>>, words)

\* Two lanes; a word without its pair is ignored.
Fletcher2(words) ==
  FoldLeft(LAMBDA s, i :
             LET a0 == Sum(s[1], words[2 * i - 1])
                 a1 == Sum(s[2], words[2 * i])
             IN  <<a0, a1, Sum(s[3], a0), Sum(s[4], a1)>>,
           <<0, 0, 0, 0>>, [i \in 1 .. Len(words) \div 2 |-> i])

\* No two contents have the same digest.
Sha256(words) == words

Checksum(kind, words) ==
  CASE kind = "fletcher4" -> Fletcher4(words)
    [] kind = "fletcher2" -> Fletcher2(words)
    [] kind = "sha256" -> Sha256(words)

Verify ==
  /\ pc = "verify"
  /\ verdict' = LET kind == ChecksumType(block.cksum)
                IN  IF kind = "none" THEN "none"
                    ELSE IF Checksum(kind, block.src) = block.expected THEN "good" ELSE "bad"
  /\ pc' = "decode"
  /\ UNCHANGED <<block, si, copymap, bit, left, cpy, output, result>>

-----------------------------------------------------------------------------
(***************************************************************************)
(* compress.rs                                                             *)
(***************************************************************************)
\* CompressType::from_raw.
CompressType(v) ==
  CASE v = 0 -> "inherit" [] v = 1 -> "on" [] v = 2 -> "off" [] v = 3 -> "lzjb" [] v = 4 -> "empty"
    [] v \in 5 .. 13 -> "gzip" [] v = 14 -> "zle" [] v = 15 -> "lz4" [] v = 16 -> "zstd"
    [] OTHER -> "other"

Shorter(s) == IF Len(s) > block.lsize THEN SubSeq(s, 1, block.lsize) ELSE s

Padded(s) == [i \in 1 .. block.lsize |-> IF i <= Len(s) THEN s[i] ELSE 0]

CodecInit ==
  /\ block \in Blocks
  /\ pc = "verify" /\ verdict = "none"
  /\ si = 0 /\ copymap = 0 /\ bit = 7 /\ left = 0 /\ cpy = 0
  /\ output = <<>> /\ result = "pending"

Decoding(kinds) == pc = "decode" /\ CompressType(block.comp) \in kinds

Return(r) == result' = r /\ pc' = "returned" /\ UNCHANGED <<block, verdict, si, copymap, bit, left, cpy>>

Malformed == output' = <<>> /\ Return("malformed")

Unsupported == Decoding({"inherit", "other"}) /\ output' = <<>> /\ Return("unsupported")

Empty == Decoding({"empty"}) /\ output' = Padded(<<>>) /\ Return("ok")

Off == Decoding({"off"}) /\ output' = Padded(block.src) /\ Return("ok")

(***************************************************************************)
(* The other crates.  Given the stream the block was compressed to they    *)
(* yield what was written; given a part of it, a part, and may or may not  *)
(* report the end; given anything else, anything.                          *)
(***************************************************************************)
Yields(stream) ==
  IF IsPrefix(block.packed, stream) THEN {[data |-> block.data, broken |-> FALSE]}
  ELSE IF IsPrefix(stream, block.packed)
       THEN [data: {SubSeq(block.data, 1, n) : n \in {0, 1, Len(block.data) - 1} \cap 0 .. Len(block.data)},
             broken: BOOLEAN]
       ELSE [data: {<<>>, <<99>>, [i \in 1 .. block.lsize + 1 |-> 99]}, broken: BOOLEAN]

\* A reader under take(lsize): what lies beyond is not read, nor whether the
\* stream is whole; what is missing is zeros.
Unframed(bytes) ==
  IF CompressType(block.comp) = "zstd" THEN SubSeq(bytes, 9, Len(bytes)) ELSE bytes

ZstdShort == Decoding({"zstd"}) /\ Len(block.src) < 8 /\ Malformed

Inflate ==
  /\ Decoding({"gzip", "on", "zstd"})
  /\ CompressType(block.comp) = "zstd" => Len(block.src) >= 8
  /\ \E y \in Yields(Unframed(block.src)) :
       \/ y.broken /\ Malformed
       \/ /\ y.broken => Len(y.data) >= block.lsize
          /\ output' = Padded(y.data)
          /\ Return("ok")

\* The length in front of an LZ4 block, big-endian.
Clen(bytes) == 16777216 * bytes[1] + 65536 * bytes[2] + 256 * bytes[3] + bytes[4]

Lz4Framed(bytes) == Len(bytes) >= 4 /\ 4 + Clen(bytes) <= Len(bytes)

Lz4Frame(bytes) == SubSeq(bytes, 5, 4 + Clen(bytes))

Lz4Short == Decoding({"lz4"}) /\ ~Lz4Framed(block.src) /\ Malformed

\* The crate takes the block as it is, and may yield less than lsize.
Lz4 ==
  /\ Decoding({"lz4"})
  /\ Lz4Framed(block.src)
  /\ \E y \in Yields(Lz4Frame(block.src)) :
       IF y.broken \/ Len(y.data) > block.lsize
            \/ (Lz4Frame(block.src) # block.packed /\ IsPrefix(block.packed, Lz4Frame(block.src)))
       THEN Malformed ELSE output' = y.data /\ Return("ok")

(***************************************************************************)
(* LZJB.                                                                   *)
(***************************************************************************)
AtItem == Decoding({"lzjb"}) /\ Len(output) < block.lsize /\ left = 0

\* Every eighth item is preceded by a new copymap.
Bit == (bit + 1) % 8
At == IF Bit = 0 THEN si + 1 ELSE si
Copymap == IF Bit = 0 /\ si < Len(block.src) THEN block.src[si + 1] ELSE copymap
Flag(map, i) == (map \div 2^i) % 2
IsMatch == Flag(Copymap, Bit) = 1

ItemCut ==
  /\ AtItem
  /\ At > Len(block.src) \/ At + (IF IsMatch THEN 2 ELSE 1) > Len(block.src)
  /\ Malformed

Item(isMatch) ==
  /\ AtItem /\ At <= Len(block.src) /\ IsMatch = isMatch
  /\ At + (IF isMatch THEN 2 ELSE 1) <= Len(block.src)

TakeItem(n) ==
  /\ si' = At + n /\ bit' = Bit /\ copymap' = Copymap
  /\ UNCHANGED <<block, pc, verdict, result>>

Literal ==
  /\ Item(FALSE) /\ TakeItem(1)
  /\ output' = Append(output, block.src[At + 1])
  /\ UNCHANGED <<left, cpy>>

MatchLen(b0) == b0 \div 4 + 3
Offset(b0, b1) == (256 * b0 + b1) % 1024
OffsetHere == Offset(block.src[At + 1], block.src[At + 2])

\* A reference to before the start, or to the byte about to be written.
BadMatch == Item(TRUE) /\ OffsetHere \notin 1 .. Len(output) /\ Malformed

Match ==
  /\ Item(TRUE) /\ OffsetHere \in 1 .. Len(output) /\ TakeItem(2)
  /\ left' = MatchLen(block.src[At + 1]) /\ cpy' = Len(output) - OffsetHere
  /\ UNCHANGED output

Copying == Decoding({"lzjb"}) /\ left > 0

Copy(next) ==
  /\ output' = Append(output, output[cpy + 1])
  /\ left' = left - 1 /\ cpy' = next
  /\ UNCHANGED <<block, pc, verdict, si, copymap, bit, result>>

\* Mutant: the match is not cut at lsize.
CopyByteBeyond == Copying /\ Copy(cpy + 1)

\* Mutant: every byte is the one the reference points to.
CopyByteAgain == Copying /\ Len(output) < block.lsize /\ Copy(cpy)

\* Byte by byte, so that a match may run into its own output.
CopyByte == Copying /\ Len(output) < block.lsize /\ Copy(cpy + 1)

(***************************************************************************)
(* ZLE.                                                                    *)
(***************************************************************************)
AtRun == Decoding({"zle"}) /\ Len(output) < block.lsize

Ctrl == block.src[si + 1]

RunCut ==
  /\ AtRun
  /\ si < Len(block.src) => Ctrl < 128 /\ si + 1 + Ctrl + 1 > Len(block.src)
  /\ Malformed

TakeRun(bytes, n) ==
  /\ output' = Shorter(output \o bytes)
  /\ si' = si + 1 + n
  /\ UNCHANGED <<block, pc, verdict, copymap, bit, left, cpy, result>>

Literals ==
  /\ AtRun /\ si + 1 <= Len(block.src) /\ Ctrl < 128 /\ si + 1 + Ctrl + 1 <= Len(block.src)
  /\ TakeRun(SubSeq(block.src, si + 2, si + 2 + Ctrl), Ctrl + 1)

Zeros ==
  /\ AtRun /\ si + 1 <= Len(block.src) /\ Ctrl >= 128
  /\ TakeRun([i \in 1 .. Ctrl - 128 + 64 |-> 0], 0)

Finish == Decoding({"lzjb", "zle"}) /\ Len(output) >= block.lsize /\ output' = output /\ Return("ok")

CodecReturned == pc = "returned" /\ UNCHANGED codecVars

CodecNext ==
  \/ Verify \/ Unsupported \/ Empty \/ Off \/ ZstdShort \/ Inflate \/ Lz4Short \/ Lz4
  \/ ItemCut \/ Literal \/ BadMatch \/ Match \/ CopyByte \/ RunCut \/ Literals \/ Zeros \/ Finish
  \/ CodecReturned

\* One thread that nothing blocks: a step it can take, it takes.
CodecSpec == CodecInit /\ [][CodecNext]_codecVars /\ WF_codecVars(CodecNext)

-----------------------------------------------------------------------------
(***************************************************************************)
(* The blocks.  Each has the stream that was written (whole), the data it  *)
(* stands for, for the other crates the stream they made of it (packed),   *)
(* and what was done to it since (harm): nothing, cut short, a word        *)
(* changed, two words exchanged.  Of the streams the code itself reads it  *)
(* has where each item begins in the stream (at) and in the data (from)    *)
(* and, of LZJB, the copymap of each (map).                                *)
(***************************************************************************)
Bytes == 0 .. 255

ItemsWritten(x, n) ==
  /\ x.at \in [1 .. n + 1 -> Nat] /\ x.from \in [1 .. n + 1 -> Nat]
  /\ x.at[1] = 0 /\ x.at[n + 1] <= Len(x.whole)
  /\ x.from[1] = 0 /\ x.from[n + 1] = Len(x.data)
  /\ \A i \in 1 .. n : x.at[i] < x.at[i + 1]

\* An item: a byte of the data, or two that say how far back its bytes repeat
\* and how many they are.
LzjbWritten(x) ==
  LET n == Len(x.map) IN
  /\ x.map \in Seq(Bytes) /\ ItemsWritten(x, n)
  /\ \A i \in 1 .. n :
       LET first == (i - 1) % 8 = 0
           at == IF first THEN x.at[i] + 1 ELSE x.at[i]
           b0 == x.whole[at + 1]
           b1 == x.whole[at + 2] IN
       /\ x.map[i] = IF first THEN x.whole[at] ELSE x.map[i - 1]
       /\ IF Flag(x.map[i], (i - 1) % 8) = 1
          THEN /\ x.at[i + 1] = at + 2 /\ x.from[i + 1] = x.from[i] + MatchLen(b0)
               /\ Offset(b0, b1) \in 1 .. x.from[i]
               /\ \A k \in x.from[i] + 1 .. x.from[i + 1] : x.data[k] = x.data[k - Offset(b0, b1)]
          ELSE /\ x.at[i + 1] = at + 1 /\ x.from[i + 1] = x.from[i] + 1
               /\ x.data[x.from[i + 1]] = b0

\* A run: as many bytes of the data as it says, or zeros.
ZleWritten(x) ==
  LET n == Len(x.at) - 1 IN
  /\ x.at \in Seq(Nat) /\ n \in Nat /\ ItemsWritten(x, n)
  /\ \A i \in 1 .. n :
       LET ctrl == x.whole[x.at[i] + 1] IN
       IF ctrl < 128
       THEN /\ x.at[i + 1] = x.at[i] + ctrl + 2 /\ x.from[i + 1] = x.from[i] + ctrl + 1
            /\ \A k \in 1 .. ctrl + 1 : x.data[x.from[i] + k] = x.whole[x.at[i] + 1 + k]
       ELSE /\ x.at[i + 1] = x.at[i] + 1 /\ x.from[i + 1] = x.from[i] + (ctrl - 128 + 64)
            /\ \A k \in x.from[i] + 1 .. x.from[i + 1] : x.data[k] = 0

StreamWritten(x) ==
  LET kind == CompressType(x.comp) IN
  /\ x.lsize <= Len(x.data)
  /\ kind = "off" => x.whole = x.data
  /\ kind = "empty" => \A i \in DOMAIN x.data : x.data[i] = 0
  /\ kind \in {"gzip", "on"} => IsPrefix(x.packed, x.whole)
  /\ kind = "zstd" => Len(x.whole) >= 8 /\ IsPrefix(x.packed, SubSeq(x.whole, 9, Len(x.whole)))
  /\ kind = "lz4" => Lz4Framed(x.whole) /\ Lz4Frame(x.whole) = x.packed /\ Len(x.data) = x.lsize
  /\ kind = "lzjb" => LzjbWritten(x)
  /\ kind = "zle" => ZleWritten(x)

BlockWritten(x) ==
  /\ x.src \in Seq(Bytes) /\ x.data \in Seq(Bytes) /\ x.packed \in Seq(Bytes)
  /\ x.lsize \in Nat
  /\ x.harm \in {"none", "cut"} =>
       /\ x.whole \in Seq(Bytes) /\ StreamWritten(x)
       /\ \E n \in 0 .. Len(x.whole) : x.src = SubSeq(x.whole, 1, n)
  /\ x.harm = "none" => x.src = x.whole

ASSUME BlocksAssumption == \A x \in Blocks : BlockWritten(x)

-----------------------------------------------------------------------------
(***************************************************************************)
(* Properties.                                                             *)
(***************************************************************************)
\* No stream, whatever it declares, makes the output longer than lsize or is
\* read past its end, and no match reaches bytes that are not yet there.
CodecTypeOK ==
  /\ pc \in {"verify", "decode", "returned"}
  /\ verdict \in {"good", "bad", "none"}
  /\ result \in {"pending", "ok", "malformed", "unsupported"}
  /\ si \in 0 .. Len(block.src) /\ bit \in 0 .. 7 /\ copymap \in Bytes
  /\ left \in Nat /\ (Copying => cpy \in 0 .. Len(output) - 1)
  /\ Len(output) <= block.lsize

\* The first lsize bytes of what was written come back from an undamaged block,
\* however matches overlap and flags fall.  A stream cut short never gives
\* wrong bytes: all of them, or an error, or, where another crate ends quietly,
\* the first ones and zeros.
DataComesBack ==
  pc = "returned" =>
    /\ block.harm = "none" =>
         IF CompressType(block.comp) \in {"inherit", "other"} THEN result = "unsupported"
         ELSE result = "ok" /\ output = Shorter(block.data)
    /\ block.harm = "cut" /\ result = "ok" =>
         IF CompressType(block.comp) \in {"lzjb", "zle"} THEN output = Shorter(block.data)
         ELSE \E n \in 0 .. Len(block.data) : output = Padded(SubSeq(block.data, 1, n))

\* A word changed and two words exchanged are seen by the checksum, and no
\* damage where there is none: what was written, summed by the weight of each
\* word, verifies.
DamageIsSeen ==
  pc # "verify" =>
    /\ block.harm = "none" => verdict # "bad"
    /\ block.harm \in {"word", "swap"} => verdict = "bad"
=============================================================================
