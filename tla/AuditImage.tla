----------------------------- MODULE AuditImage -----------------------------
(***************************************************************************)
(* audit_image (forensic/src/lib.rs): three checks in a row, each of which *)
(* may find nothing to work on and must not take the others down with it.  *)
(*                                                                         *)
(* Of a label the audit sees whether its config nvlist and its uberblock   *)
(* ring parse, and what the config says (txg is decoded and dropped).  Of  *)
(* a block pointer it sees the checksum verdict (BlockRead models how it   *)
(* is reached); of the root block pointer also what reading it yields: the *)
(* block pointers of the MOS meta-dnode, or NoMos.  Those are at most 1023 *)
(* in a dnode, so the sweep's budget of 4096 cannot run out and is left    *)
(* out; the same goes for the over-cap LSIZE a parsed pointer cannot have. *)
(***************************************************************************)
EXTENDS Integers, Sequences, FiniteSets

CONSTANTS
  Guid, Ashift,   \* values of the config fields compared
  NoGuid,         \* a config without a pool_guid
  NoMos,
  Images

Labels == 0..3

Verdicts == {"ok", "mismatch", "unverified", "unreadable"}

Label == [config: BOOLEAN, ring: BOOLEAN, guid: Guid \cup {NoGuid}, ashift: Ashift]

\* whole: the image has room for four labels.  A sub-window of it starts with L0
\* or is too short for it, which is a label that does not parse.
IsImage(im) ==
  /\ im.whole \in BOOLEAN
  /\ im.labels \in [Labels -> Label]
  /\ im.rootbp \in Verdicts
  /\ im.mos = NoMos \/ im.mos \in Seq(Verdicts)

ASSUME NoGuidAssumption == NoGuid \notin Guid
ASSUME NoMosAssumption == NoMos \notin Seq(Verdicts)
ASSUME ImagesAssumption == \A im \in Images : IsImage(im)

VARIABLES
  image,
  pc,      \* "parse", "rootbp", "labels", "compare", "read mos", "sweep", "returned"
  next,    \* the next label to compare, or the next pointer to verify
  out      \* the anomalies, in order

vars == <<image, pc, next, out>>

UberblockMismatch == [kind |-> "uberblock", field |-> "rootbp", at |-> 0]
Divergence(field, l) == [kind |-> "label", field |-> field, at |-> l]
BlkptrMismatch(i) == [kind |-> "blkptr", field |-> "checksum", at |-> i]

-----------------------------------------------------------------------------
\* VdevLabel::parse wants the config and an uberblock.
Parses(l) == image.labels[l].config /\ image.labels[l].ring

\* label_identity is Some.
Identified(l) == Parses(l) /\ image.labels[l].guid # NoGuid

Init ==
  /\ image \in Images
  /\ pc = "parse"
  /\ next = 0
  /\ out = <<>>

Goto(there) == pc' = there /\ UNCHANGED image

\* L0 does not parse: nothing is audited.
NothingToAudit ==
  /\ pc = "parse"
  /\ ~Parses(0)
  /\ Goto("returned")
  /\ UNCHANGED <<next, out>>

ParseL0 ==
  /\ pc = "parse"
  /\ Parses(0)
  /\ Goto("rootbp")
  /\ UNCHANGED <<next, out>>

\* Mutant: a mismatching root ends the audit.
CheckRootbpAndStop ==
  /\ pc = "rootbp"
  /\ out' = IF image.rootbp = "mismatch" THEN <<UberblockMismatch>> ELSE <<>>
  /\ Goto(IF image.rootbp = "mismatch" THEN "returned" ELSE "labels")
  /\ UNCHANGED next

CheckRootbp ==
  /\ pc = "rootbp"
  /\ out' = IF image.rootbp = "mismatch" THEN <<UberblockMismatch>> ELSE <<>>
  /\ Goto("labels")
  /\ UNCHANGED next

\* Mutant: no look at L3 first.
WholeVdevUngated == image.labels[0].guid # NoGuid /\ image.whole

\* Four labels to compare: L0 has an identity, and the tail of the image is a
\* label.
WholeVdev == image.labels[0].guid # NoGuid /\ image.whole /\ Identified(3)

SkipLabels ==
  /\ pc = "labels"
  /\ ~WholeVdev
  /\ Goto("read mos")
  /\ UNCHANGED <<next, out>>

EnterLabels ==
  /\ pc = "labels"
  /\ WholeVdev
  /\ next' = 1
  /\ Goto("compare")
  /\ UNCHANGED out

Differing(l, field) ==
  IF image.labels[l][field] = image.labels[0][field] THEN <<>> ELSE <<Divergence(field, l)>>

CompareLabel ==
  /\ pc = "compare"
  /\ next \in Labels
  /\ out' = out \o IF Identified(next)
                   THEN Differing(next, "guid") \o Differing(next, "ashift")
                   ELSE <<Divergence("config", next)>>
  /\ next' = next + 1
  /\ Goto("compare")

LabelsCompared ==
  /\ pc = "compare"
  /\ next \notin Labels
  /\ Goto("read mos")
  /\ UNCHANGED <<next, out>>

\* read_block or ObjsetPhys::parse fails: there is nothing to sweep.
NothingToSweep ==
  /\ pc = "read mos"
  /\ image.mos = NoMos
  /\ Goto("returned")
  /\ UNCHANGED <<next, out>>

ReadMos ==
  /\ pc = "read mos"
  /\ image.mos # NoMos
  /\ next' = 1
  /\ Goto("sweep")
  /\ UNCHANGED out

\* Only a mismatch is a finding: a hole, an embedded pointer, an unverified or an
\* unreadable block is not.
SweepQuiet ==
  /\ pc = "sweep"
  /\ next \in DOMAIN image.mos
  /\ image.mos[next] # "mismatch"
  /\ next' = next + 1
  /\ Goto("sweep")
  /\ UNCHANGED out

SweepMismatch ==
  /\ pc = "sweep"
  /\ next \in DOMAIN image.mos
  /\ image.mos[next] = "mismatch"
  /\ out' = Append(out, BlkptrMismatch(next))
  /\ next' = next + 1
  /\ Goto("sweep")

Swept ==
  /\ pc = "sweep"
  /\ next \notin DOMAIN image.mos
  /\ Goto("returned")
  /\ UNCHANGED <<next, out>>

Returned == pc = "returned" /\ UNCHANGED vars

Next ==
  \/ NothingToAudit
  \/ ParseL0
  \/ CheckRootbp
  \/ SkipLabels
  \/ EnterLabels
  \/ CompareLabel
  \/ LabelsCompared
  \/ NothingToSweep
  \/ ReadMos
  \/ SweepQuiet
  \/ SweepMismatch
  \/ Swept
  \/ Returned

\* One thread that nothing blocks: a step it can take, it takes.
Spec == Init /\ [][Next]_vars /\ WF_vars(Next)

-----------------------------------------------------------------------------
(***************************************************************************)
(* Properties                                                              *)
(***************************************************************************)
Anomaly == [kind: {"uberblock", "label", "blkptr"},
            field: {"rootbp", "guid", "ashift", "config", "checksum"}, at: Nat]

\* The types of the audit's variables.
TypeOK ==
  /\ IsImage(image)
  /\ pc \in {"parse", "rootbp", "labels", "compare", "read mos", "sweep", "returned"}
  /\ next \in Nat
  /\ out \in Seq(Anomaly)

Found(k) == {out[i] : i \in {i \in DOMAIN out : out[i].kind = k}}

Count(k) == Cardinality({i \in DOMAIN out : out[i].kind = k})

\* Label l is damaged, and what the audit should call it.
LabelDamage(l) ==
  IF Identified(l)
  THEN {Divergence(f, l) :
          f \in {f \in {"guid", "ashift"} : image.labels[l][f] # image.labels[0][f]}}
  ELSE {Divergence("config", l)}

\* Each check reports exactly the damage in its part of the image, once,
\* whatever the other two found or failed to read.
ChecksAreIndependent ==
  pc = "returned" /\ Parses(0) =>
    /\ Found("uberblock") = IF image.rootbp = "mismatch" THEN {UberblockMismatch} ELSE {}
    /\ Found("label") =
         IF WholeVdev THEN UNION {LabelDamage(l) : l \in {1, 2, 3}} ELSE {}
    /\ Found("blkptr") =
         IF image.mos = NoMos THEN {}
         ELSE {BlkptrMismatch(i) : i \in {i \in DOMAIN image.mos : image.mos[i] = "mismatch"}}
    /\ \A k \in {"uberblock", "label", "blkptr"} : Count(k) = Cardinality(Found(k))

\* An undamaged vdev, or the front of one (a partition slice, a truncated image),
\* is not evidence: whatever bytes the two back label slots fall on, as long as
\* the last is not a label, and whatever blocks are out of reach, nothing is
\* reported.
SliceOfIntact ==
  /\ image.rootbp # "mismatch"
  /\ image.mos # NoMos => \A i \in DOMAIN image.mos : image.mos[i] # "mismatch"
  /\ \A l \in {0, 1} : image.labels[l].guid = image.labels[0].guid
                       /\ image.labels[l].ashift = image.labels[0].ashift
                       /\ Identified(l)
  /\ \/ ~Parses(3)
     \/ \A l \in {2, 3} : /\ image.labels[l].guid = image.labels[0].guid
                          /\ image.labels[l].ashift = image.labels[0].ashift
                          /\ Identified(l)

IntactIsSilent == SliceOfIntact => out = <<>>
=============================================================================
