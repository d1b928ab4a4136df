---------------------------- MODULE BlockPointer ----------------------------
(***************************************************************************)
(* Block pointers and the bytes they name (core/src/blkptr.rs, and what    *)
(* checksum.rs and compress.rs promise to the readers of a block).         *)
(*                                                                         *)
(* Offsets and lengths are in 512-byte sectors, and a block is one sector  *)
(* long: two copies name the same bytes or bytes that do not overlap.      *)
(* Bytes are members of Content.  A checksum is represented by the content *)
(* it is the checksum of, a codec by the set of contents it decompresses   *)
(* to exactly LSIZE bytes.                                                 *)
(*                                                                         *)
(* LSIZE is a 16-bit sector count (25 bits of bytes when embedded), so a   *)
(* parsed pointer never breaches the 32 MiB cap that read_block and the    *)
(* audit guard against: neither guard appears here.                        *)
(***************************************************************************)
EXTENDS Naturals, Sequences

CONSTANTS
  Content,   \* what a block-sized range of the image may hold
  Zeroes,    \* the all-zero content
  NoDva,     \* an unused ditto slot
  Wrap,      \* number of sectors a 64-bit byte offset can address: 2^55
  Skew       \* sectors before the allocatable region: BOOT_SKEW

Dvas == 1..3

\* The DVA offset field is wider than the address: by 8 bits in the code, by one here.
MaxOffset == 2 * Wrap - 1

\* cksum: "skipped" (off, inherit, on), "unsupported" (verify returns None), or
\* "verified" against sum.  inline: an embedded payload decompresses.
Blkptr == [embedded: BOOLEAN, inline: BOOLEAN, dvas: [Dvas -> 0..MaxOffset \cup {NoDva}],
           cksum: {"skipped", "unsupported", "verified"}, sum: Content,
           codec: SUBSET Content]

ASSUME ContentAssumption == Zeroes \in Content
ASSUME WrapAssumption == Wrap \in Nat \ {0}
ASSUME SkewAssumption == Skew \in Nat
ASSUME NoDvaAssumption == NoDva \notin Nat

IsHole(bp) == ~bp.embedded /\ \A i \in Dvas : bp.dvas[i] = NoDva

\* (offset << 9).saturating_add(BOOT_SKEW): the shift drops the bits above 2^64.
\* A saturated sum, like one of Wrap or more, lies past the end of every image.
PhysicalByteOffset(offset) == (offset % Wrap) + Skew

\* image.get(phys..phys + psize) is Some.  Positions of img are from 1.
InImage(img, bp, i) ==
  bp.dvas[i] # NoDva /\ PhysicalByteOffset(bp.dvas[i]) < Len(img)

Raw(img, bp, i) == img[PhysicalByteOffset(bp.dvas[i]) + 1]

\* checksum::verify: "good", "bad", or "none" when the function is not verified.
Verify(bp, raw) ==
  IF bp.cksum = "verified" THEN IF raw = bp.sum THEN "good" ELSE "bad" ELSE "none"

Decompresses(bp, raw) == raw \in bp.codec
=============================================================================
