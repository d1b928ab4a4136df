------------------------------ MODULE BlockRead ------------------------------
(***************************************************************************)
(* The two loops over the ditto copies of one block pointer, in the order  *)
(* audit_image runs them on the root block pointer: first the auditor      *)
(* judges the block's checksum (blkptr_checksum_verdict,                   *)
(* forensic/src/lib.rs), then the reader reads it (read_block,             *)
(* core/src/read.rs).  They pick a copy by different rules.  The module's  *)
(* names are its own, so that it can stand beside the audit it is part of. *)
(***************************************************************************)
EXTENDS BlockPointer

CONSTANT Cases     \* pairs of an image and a block pointer into it

ASSUME CasesAssumption ==
  \A c \in Cases : c.img \in Seq(Content) /\ Len(c.img) < Wrap /\ c.bp \in Blkptr

VARIABLES
  img, bp,
  loop,        \* "judge", "read", "returned"
  copy,      \* the copy the running loop looks at
  verdict,   \* ChecksumVerdict, "pending" before
  judged,    \* the copy the verdict is about, 0 for none
  result     \* of read_block: used is dva_used, valid is checksum_valid

blockVars == <<img, bp, loop, copy, verdict, judged, result>>

\* The data is the decompressed content of the copy used: 0 stands for an inline
\* payload, or the zeroes of a hole.
Pending == [kind |-> "pending", used |-> 0, valid |-> "none"]
Err == [kind |-> "err", used |-> 0, valid |-> "none"]
Block(valid, used) == [kind |-> "ok", used |-> used, valid |-> valid]

-----------------------------------------------------------------------------
BlockInit ==
  /\ \E c \in Cases : img = c.img /\ bp = c.bp
  /\ loop = "judge"
  /\ copy = 1
  /\ verdict = "pending"
  /\ judged = 0
  /\ result = Pending

\* blkptr_checksum_verdict returns, and read_block is called.
Judge(v, i) ==
  /\ loop = "judge"
  /\ verdict' = v
  /\ judged' = i
  /\ loop' = "read"
  /\ copy' = 1
  /\ UNCHANGED <<img, bp, result>>

HasCopies == ~bp.embedded /\ ~IsHole(bp)

Judging == loop = "judge" /\ HasCopies /\ bp.cksum # "skipped" /\ copy \in Dvas

\* Nothing to verify: an embedded payload, a hole, or a checksum function that
\* is off or not stored on disk.
JudgeUnverifiable ==
  /\ ~HasCopies \/ bp.cksum = "skipped"
  /\ Judge("unverified", 0)

\* Mutant: the loop does not stop at the third copy.
JudgeNextCopyUnbounded ==
  /\ loop = "judge" /\ HasCopies /\ bp.cksum # "skipped"
  /\ copy \in Dvas => ~InImage(img, bp, copy)
  /\ copy' = copy + 1
  /\ UNCHANGED <<img, bp, loop, verdict, judged, result>>

\* `continue`: an unused slot, or a range outside the image.
JudgeNextCopy ==
  /\ Judging
  /\ ~InImage(img, bp, copy)
  /\ copy' = copy + 1
  /\ UNCHANGED <<img, bp, loop, verdict, judged, result>>

\* An all-zero range returns at once; the other copies are not looked at.
JudgeZeroes ==
  /\ Judging
  /\ InImage(img, bp, copy)
  /\ Raw(img, bp, copy) = Zeroes
  /\ Judge("unreadable", copy)

Verdict(i) ==
  IF Verify(bp, Raw(img, bp, i)) = "none" THEN "unverified"
  ELSE IF Verify(bp, Raw(img, bp, i)) = "good" THEN "ok" ELSE "mismatch"

\* Mutant: no special case for an all-zero range.
JudgeCopyZeroToo ==
  /\ Judging
  /\ InImage(img, bp, copy)
  /\ Judge(Verdict(copy), copy)

\* Mutant: another copy in the image may be judged in this one's place.
JudgeAnyCopy ==
  /\ Judging
  /\ \E i \in copy..3 :
       /\ InImage(img, bp, i)
       /\ Raw(img, bp, i) # Zeroes
       /\ Judge(Verdict(i), i)

JudgeCopy ==
  /\ Judging
  /\ InImage(img, bp, copy)
  /\ Raw(img, bp, copy) # Zeroes
  /\ Judge(Verdict(copy), copy)

JudgeNoCopy ==
  /\ HasCopies /\ bp.cksum # "skipped" /\ copy \notin Dvas
  /\ Judge("unreadable", 0)

-----------------------------------------------------------------------------
\* read_block returns r.
Return(r) ==
  /\ loop = "read"
  /\ result' = r
  /\ loop' = "returned"
  /\ UNCHANGED <<img, bp, copy, verdict, judged>>

\* The payload is inline: no checksum; a malformed one is an error.
ReadEmbedded ==
  /\ bp.embedded
  /\ Return(IF bp.inline THEN Block("none", 0) ELSE Err)

ReadHole ==
  /\ IsHole(bp)
  /\ Return(Block("none", 0))

Reading == loop = "read" /\ HasCopies /\ copy \in Dvas

\* An unused slot, a range outside the image, or a malformed stream: `last_err`
\* is replaced and the next ditto copy tried.
ReadNextCopy ==
  /\ Reading
  /\ ~(InImage(img, bp, copy) /\ Decompresses(bp, Raw(img, bp, copy)))
  /\ copy' = copy + 1
  /\ UNCHANGED <<img, bp, loop, verdict, judged, result>>

\* Mutant: copies that fail their checksum are not returned.
ReadCopyVerified ==
  /\ Reading
  /\ InImage(img, bp, copy)
  /\ Decompresses(bp, Raw(img, bp, copy))
  /\ Return(IF Verify(bp, Raw(img, bp, copy)) = "bad" THEN Err
            ELSE Block(Verify(bp, Raw(img, bp, copy)), copy))

\* The first copy that decompresses is returned, its checksum good or bad.
ReadCopy ==
  /\ Reading
  /\ InImage(img, bp, copy)
  /\ Decompresses(bp, Raw(img, bp, copy))
  /\ Return(Block(Verify(bp, Raw(img, bp, copy)), copy))

ReadFails ==
  /\ HasCopies /\ copy \notin Dvas
  /\ Return(Err)

BlockReturned == loop = "returned" /\ UNCHANGED blockVars

BlockNext ==
  \/ JudgeUnverifiable
  \/ JudgeNextCopy
  \/ JudgeZeroes
  \/ JudgeCopy
  \/ JudgeNoCopy
  \/ ReadEmbedded
  \/ ReadHole
  \/ ReadNextCopy
  \/ ReadCopy
  \/ ReadFails
  \/ BlockReturned

\* One thread that nothing blocks: a step it can take, it takes.
BlockSpec == BlockInit /\ [][BlockNext]_blockVars /\ WF_blockVars(BlockNext)
-----------------------------------------------------------------------------
(***************************************************************************)
(* Properties                                                              *)
(***************************************************************************)
Result == [kind: {"pending", "err", "ok"}, used: 0..3, valid: {"none", "good", "bad"}]

\* The types of the two loops' variables.
BlockTypeOK ==
  /\ img \in Seq(Content) /\ bp \in Blkptr
  /\ loop \in {"judge", "read", "returned"}
  /\ copy \in 1..4
  /\ verdict \in {"pending", "ok", "mismatch", "unverified", "unreadable"}
  /\ judged \in 0..3
  /\ result \in Result

\* Where a copy is: an offset beyond the address space is in no image, whether
\* it is taken as it stands or saturates.
There(i) == bp.dvas[i] # NoDva /\ bp.dvas[i] + Skew < Len(img)
Stored(i) == img[bp.dvas[i] + Skew + 1]
Usable(i) == There(i) /\ Decompresses(bp, Stored(i))

\* A copy that is in no image, and found in this one because its offset wraps.
Wraps(i) == ~There(i) /\ InImage(img, bp, i)

\* Of a pointer none of whose offsets wraps into the image, read_block returns
\* the first ditto copy that lies in the image and decompresses, whatever its
\* checksum says, and fails only when there is none.
ReadsFirstUsable ==
  loop = "returned" /\ HasCopies /\ (\A i \in Dvas : ~Wraps(i)) =>
    IF \E i \in Dvas : Usable(i)
    THEN /\ result.kind = "ok"
         /\ result.used \in Dvas
         /\ Usable(result.used)
         /\ \A i \in 1..result.used - 1 : ~Usable(i)
         /\ result.valid = Verify(bp, Stored(result.used))
    ELSE result = Err

\* On a verifiable pointer the reader never uses a copy before the one the
\* auditor judged.  Where both chose the same copy the verdict is the reader's
\* checksum_valid, or the range was all zeroes; where the reader went further,
\* the judged copy does not decompress.
AuditorMeetsReader ==
  loop = "returned" /\ HasCopies /\ bp.cksum = "verified" /\ result.kind = "ok" =>
    /\ judged \in 1..result.used
    /\ judged = result.used =>
         \/ verdict = "ok" /\ result.valid = "good"
         \/ verdict = "mismatch" /\ result.valid = "bad"
         \/ verdict = "unreadable" /\ Raw(img, bp, judged) = Zeroes
    /\ judged < result.used => ~Decompresses(bp, Raw(img, bp, judged))

\* A truncated or sparsely carved image is not reported as tampered: if every
\* copy in the image is intact or unallocated (all zeroes), there is no mismatch.
TruncationIsNotTamper ==
  (\A i \in Dvas : InImage(img, bp, i) => Raw(img, bp, i) \in {bp.sum, Zeroes})
    => verdict # "mismatch"
=============================================================================
