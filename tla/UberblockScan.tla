---------------------------- MODULE UberblockScan ----------------------------
(***************************************************************************)
(* Which uberblock the two entry points start from.  The auditor and the   *)
(* carver parse label L0 alone and scan its ring at the slot size that     *)
(* ashift gives (VdevLabel::parse, core/src/label.rs); the mount scans the *)
(* rings of all four labels at 1 KiB granularity, without the config       *)
(* (active_uberblock_across_labels, core/src/vfs.rs).  Both call           *)
(* active_uberblock, modelled slot by slot.                                *)
(*                                                                         *)
(* A ring is a sequence of 1 KiB units.  A unit holds NoUb or an uberblock *)
(* whose magic is intact; whole says whether the rest of it is (a write    *)
(* torn by a crash leaves the magic and loses the rest).  A slot of an     *)
(* ashift ring is stride units long and its uberblock is in the first.  A  *)
(* truncated image cuts a ring short, or off altogether.  The module's     *)
(* names are its own, so that it can stand beside the mount that starts    *)
(* from what it chooses.                                                   *)
(***************************************************************************)
EXTENDS Naturals, Sequences

CONSTANTS
  Txg,       \* transaction group numbers
  Images,    \* the images to scan
  RingUnits, \* units in a whole ring; 128 in the code
  NoUb

Labels == 1..4     \* L0, L1, L2, L3 in the order the mount scans them

Uberblock == [txg: Txg, whole: BOOLEAN]

\* An uberblock with the place it was found at.
FoundType == [txg: Txg, whole: BOOLEAN, label: Labels, unit: Nat \ {0}]

\* config: L0's nvlist parses; stride: units per slot of L0, from its ashift.
IsImage(im) ==
  /\ im.config \in BOOLEAN
  /\ im.stride \in 1..RingUnits
  /\ im.rings \in [Labels -> Seq(Uberblock \cup {NoUb})]
  /\ \A l \in Labels : Len(im.rings[l]) <= RingUnits

ASSUME RingAssumption == RingUnits \in Nat \ {0}
ASSUME TxgAssumption == Txg \subseteq Nat
ASSUME NoUbAssumption == NoUb \notin Uberblock \cup FoundType
ASSUME ImagesAssumption == \A im \in Images : IsImage(im)

VARIABLES
  vdev,      \* the image
  pc,        \* "parse" (L0 alone), "mount" (all labels), "done"
  label,     \* the label being scanned
  slot,      \* index of the next slot of its ring, from 0
  best,      \* active_uberblock's best, with its label and unit, or NoUb
  active,    \* what VdevLabel::parse returns: NoUb stands for any error
  mounted    \* what active_uberblock_across_labels returns

scanVars == <<vdev, pc, label, slot, best, active, mounted>>

\* Mutant: units counted from 0.
FoundFromZero(u, l, k) == [txg |-> u.txg, whole |-> u.whole, label |-> l, unit |-> k - 1]

Found(u, l, k) == [txg |-> u.txg, whole |-> u.whole, label |-> l, unit |-> k]

-----------------------------------------------------------------------------
Ring == vdev.rings[label]

Stride == IF pc = "parse" THEN vdev.stride ELSE 1

\* First unit of the slot under the scan.
Unit == slot * Stride + 1

\* slot < slot_count, and the whole slot lies inside the ring.
InRing ==
  /\ slot < (IF pc = "parse" THEN RingUnits \div Stride ELSE Len(Ring))
  /\ Unit + Stride - 1 <= Len(Ring)

ScanInit ==
  /\ vdev \in Images
  /\ pc = "parse"
  /\ label = 1
  /\ slot = 0
  /\ best = NoUb
  /\ active = NoUb
  /\ mounted = NoUb

Scanning == pc \in {"parse", "mount"} /\ label \in Labels

\* VdevLabel::parse gives up before the scan: a short label, or a bad config.
Unparsable == pc = "parse" /\ (Len(Ring) < RingUnits \/ ~vdev.config)

ParseFails ==
  /\ Unparsable
  /\ pc' = "mount"
  /\ UNCHANGED <<vdev, label, slot, best, active, mounted>>

\* Uberblock::parse returns None: no magic in this slot.
SkipSlot ==
  /\ Scanning
  /\ ~Unparsable
  /\ InRing
  /\ Ring[Unit] = NoUb
  /\ slot' = slot + 1
  /\ UNCHANGED <<vdev, pc, label, best, active, mounted>>

\* Mutant: `<` for `<=`, a later slot wins a tie.
NotNewerLoose(u, b) == b # NoUb /\ u.txg < b.txg

NotNewer(u, b) == b # NoUb /\ u.txg <= b.txg

KeepBest ==
  /\ Scanning
  /\ ~Unparsable
  /\ InRing
  /\ Ring[Unit] # NoUb
  /\ NotNewer(Ring[Unit], best)
  /\ slot' = slot + 1
  /\ UNCHANGED <<vdev, pc, label, best, active, mounted>>

TakeSlot ==
  /\ Scanning
  /\ ~Unparsable
  /\ InRing
  /\ Ring[Unit] # NoUb
  /\ ~NotNewer(Ring[Unit], best)
  /\ best' = Found(Ring[Unit], label, Unit)
  /\ slot' = slot + 1
  /\ UNCHANGED <<vdev, pc, label, active, mounted>>

\* The scan of L0 ends: NoUberblock, or the label's active uberblock.
ParseReturns ==
  /\ pc = "parse"
  /\ ~Unparsable
  /\ ~InRing
  /\ active' = best
  /\ pc' = "mount"
  /\ slot' = 0
  /\ best' = NoUb
  /\ UNCHANGED <<vdev, label, mounted>>

\* Mutant: the last label that has an uberblock wins.
LabelEndsKeeping ==
  /\ pc = "mount"
  /\ label \in Labels
  /\ ~InRing
  /\ mounted' = IF best = NoUb THEN mounted ELSE best
  /\ label' = label + 1
  /\ slot' = 0
  /\ best' = NoUb
  /\ UNCHANGED <<vdev, pc, active>>

\* The scan of one label ends (at once, if its ring is cut off).
LabelEnds ==
  /\ pc = "mount"
  /\ label \in Labels
  /\ ~InRing
  /\ mounted' = IF best = NoUb \/ NotNewer(best, mounted) THEN mounted ELSE best
  /\ label' = label + 1
  /\ slot' = 0
  /\ best' = NoUb
  /\ UNCHANGED <<vdev, pc, active>>

MountReturns ==
  /\ pc = "mount"
  /\ label \notin Labels
  /\ pc' = "done"
  /\ UNCHANGED <<vdev, label, slot, best, active, mounted>>

Done == pc = "done" /\ UNCHANGED scanVars

ScanNext ==
  \/ ParseFails
  \/ SkipSlot
  \/ KeepBest
  \/ TakeSlot
  \/ ParseReturns
  \/ LabelEnds
  \/ MountReturns
  \/ Done

ScanSpec == ScanInit /\ [][ScanNext]_scanVars /\ WF_scanVars(ScanNext)

-----------------------------------------------------------------------------
(***************************************************************************)
(* Properties                                                              *)
(***************************************************************************)
\* The types of the scan's variables.
ScanTypeOK ==
  /\ IsImage(vdev)
  /\ pc \in {"parse", "mount", "done"}
  /\ label \in 1..5
  /\ slot \in Nat
  /\ best \in FoundType \cup {NoUb}
  /\ active \in FoundType \cup {NoUb}
  /\ mounted \in FoundType \cup {NoUb}

\* Unit k of label l holds an uberblock a scan may choose.
Holds(l, k) == k \in DOMAIN vdev.rings[l] /\ vdev.rings[l][k] # NoUb

\* f is the newest uberblock among the units in S of label l; the first, on a tie.
NewestOf(f, l, S) ==
  /\ f.label = l
  /\ f.unit \in S
  /\ Holds(l, f.unit)
  /\ f = Found(vdev.rings[l][f.unit], l, f.unit)
  /\ \A k \in S : Holds(l, k) =>
       /\ vdev.rings[l][k].txg <= f.txg
       /\ k < f.unit => vdev.rings[l][k].txg < f.txg

\* First units of the slots of L0's ring, as ashift divides it.
SlotUnits == {k \in 1..RingUnits :
                (k - 1) % vdev.stride = 0 /\ k + vdev.stride - 1 <= RingUnits}

\* VdevLabel::parse selects the highest txg in L0's ring, the first slot on a
\* tie, and fails only if L0 is short, its config bad, or its ring empty.
ParseSelectsNewest ==
  pc \in {"mount", "done"} =>
    IF /\ vdev.config
       /\ Len(vdev.rings[1]) = RingUnits
       /\ \E k \in SlotUnits : Holds(1, k)
    THEN active # NoUb /\ NewestOf(active, 1, SlotUnits)
    ELSE active = NoUb

\* The mount selects the newest uberblock of any label, the first label on a tie,
\* and finds one as long as a single unit of a single label still holds one: it never
\* shows an older pool than the auditor and the carver, who look at L0 alone.
MountSelectsNewest ==
  pc = "done" =>
    IF \E l \in Labels : \E k \in DOMAIN vdev.rings[l] : Holds(l, k)
    THEN /\ mounted # NoUb
         /\ NewestOf(mounted, mounted.label, DOMAIN vdev.rings[mounted.label])
         /\ \A l \in Labels : \A k \in DOMAIN vdev.rings[l] : Holds(l, k) =>
              /\ vdev.rings[l][k].txg <= mounted.txg
              /\ l < mounted.label => vdev.rings[l][k].txg < mounted.txg
    ELSE mounted = NoUb
=============================================================================
