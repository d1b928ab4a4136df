-------------------------- MODULE AuditImageProofs --------------------------
(***************************************************************************)
(* What audit_image reports of any image: only anomalies (AuditTypes),     *)
(* none of an intact vdev or of the front of one (IntactSliceIsSilent),    *)
(* and of any other exactly its damage, part by part and once each         *)
(* (EachCheckReportsItsDamage); and what the loops of BlockRead over the   *)
(* root block pointer's copies guarantee for every image and pointer.      *)
(***************************************************************************)
EXTENDS AuditImage, BlockRead, FiniteSetTheorems, FunctionTheorems, TLAPS

\* Labels are compared only behind the gate, and never L0 with itself; pointers
\* are swept only of a MOS that was read.
Gate ==
  /\ pc = "compare" => WholeVdev /\ next >= 1
  /\ pc = "sweep" => image.mos # NoMos

IInv == TypeOK /\ Gate /\ IntactIsSilent

\* One more anomaly, or none, keeps the list of anomalies (out.push, lib.rs:425
\* and 482).
LEMMA PushKeepsType ==
  ASSUME NEW s \in Seq(Anomaly), NEW t \in Seq(Anomaly)
  PROVE  s \o t \in Seq(Anomaly)
  OBVIOUS

\* Each of the anomalies the checks build is one (lib.rs:270, 425-446, 482).
LEMMA AnomalyTypes ==
  /\ UberblockMismatch \in Anomaly
  /\ \A field \in {"guid", "ashift", "config"}, l \in Nat : Divergence(field, l) \in Anomaly
  /\ \A i \in Nat : BlkptrMismatch(i) \in Anomaly
  BY DEF Anomaly, UberblockMismatch, Divergence, BlkptrMismatch

\* The three checks start with nothing found (audit_image, lib.rs:240).
LEMMA InitInv == Init => IInv
  BY ImagesAssumption
  DEF Init, IInv, TypeOK, Gate, IntactIsSilent

\* A comparison adds at most two divergences (lib.rs:423-449).
LEMMA ComparedType ==
  ASSUME TypeOK, next \in Labels
  PROVE  /\ Differing(next, "guid") \o Differing(next, "ashift") \in Seq(Anomaly)
         /\ <<Divergence("config", next)>> \in Seq(Anomaly)
  <1>1. next \in Nat
    BY DEF TypeOK
  <1>2. /\ Differing(next, "guid") \in Seq(Anomaly)
        /\ Differing(next, "ashift") \in Seq(Anomaly)
    BY <1>1, AnomalyTypes DEF Differing
  <1>3. <<Divergence("config", next)>> \in Seq(Anomaly)
    BY <1>1, AnomalyTypes
  <1> QED
    BY <1>2, <1>3, PushKeepsType

\* Every step keeps the types (audit_image, lib.rs:240-261).
LEMMA TypeStep == TypeOK /\ [Next]_vars => TypeOK'
  <1> SUFFICES ASSUME TypeOK, [Next]_vars
               PROVE  TypeOK'
    OBVIOUS
  <1> USE DEF TypeOK, Goto
  <1>1. CASE NothingToAudit
    BY <1>1 DEF NothingToAudit
  <1>2. CASE ParseL0
    BY <1>2 DEF ParseL0
  <1>3. CASE CheckRootbp
    BY <1>3, AnomalyTypes DEF CheckRootbp
  <1>4. CASE SkipLabels
    BY <1>4 DEF SkipLabels
  <1>5. CASE EnterLabels
    BY <1>5 DEF EnterLabels
  <1>6. CASE CompareLabel
    <2>1. out' \in Seq(Anomaly)
      BY <1>6, ComparedType, PushKeepsType DEF CompareLabel
    <2> QED
      BY <1>6, <2>1 DEF CompareLabel
  <1>7. CASE LabelsCompared
    BY <1>7 DEF LabelsCompared
  <1>8. CASE NothingToSweep
    BY <1>8 DEF NothingToSweep
  <1>9. CASE ReadMos
    BY <1>9 DEF ReadMos
  <1>10. CASE SweepQuiet
    BY <1>10 DEF SweepQuiet
  <1>11. CASE SweepMismatch
    BY <1>11, AnomalyTypes DEF SweepMismatch
  <1>12. CASE Swept
    BY <1>12 DEF Swept
  <1>13. CASE Returned \/ UNCHANGED vars
    BY <1>13 DEF Returned, vars
  <1> QED
    BY <1>1, <1>2, <1>3, <1>4, <1>5, <1>6, <1>7, <1>8, <1>9, <1>10, <1>11, <1>12, <1>13 DEF Next

\* No step gets past the gate, or into the sweep without a MOS (lib.rs:396-423,
\* 458-473).
LEMMA GateStep == TypeOK /\ Gate /\ [Next]_vars => Gate'
  <1> SUFFICES ASSUME TypeOK, Gate, [Next]_vars
               PROVE  Gate'
    OBVIOUS
  <1>1. image' = image
    BY DEF Next, NothingToAudit, ParseL0, CheckRootbp, SkipLabels, EnterLabels, CompareLabel,
           LabelsCompared, NothingToSweep, ReadMos, SweepQuiet, SweepMismatch, Swept, Returned,
           Goto, vars
  <1>2. WholeVdev' <=> WholeVdev
    BY <1>1 DEF WholeVdev, Identified, Parses
  <1>3. CASE EnterLabels
    BY <1>1, <1>2, <1>3 DEF EnterLabels, Gate, Goto
  <1>4. CASE CompareLabel
    BY <1>1, <1>2, <1>4 DEF CompareLabel, Gate, Goto, TypeOK
  <1>5. CASE ~EnterLabels /\ ~CompareLabel
    BY <1>1, <1>2, <1>5
    DEF Next, NothingToAudit, ParseL0, CheckRootbp, SkipLabels, LabelsCompared, NothingToSweep,
        ReadMos, SweepQuiet, SweepMismatch, Swept, Returned, Goto, Gate, vars
  <1> QED
    BY <1>3, <1>4, <1>5

\* Behind the gate of an undamaged vdev every label says the same (lib.rs:432-446).
LEMMA IntactLabelsAgree ==
  ASSUME TypeOK, Gate, SliceOfIntact, pc = "compare", next \in Labels
  PROVE  /\ Identified(next)
         /\ Differing(next, "guid") = <<>>
         /\ Differing(next, "ashift") = <<>>
  <1>1. Parses(3)
    BY DEF Gate, WholeVdev, Identified
  <1>2. next \in {1, 2, 3}
    BY DEF Gate, Labels, TypeOK
  <1>3. /\ Identified(next)
        /\ image.labels[next].guid = image.labels[0].guid
        /\ image.labels[next].ashift = image.labels[0].ashift
    BY <1>1, <1>2 DEF SliceOfIntact
  <1> QED
    BY <1>3 DEF Differing

\* No check speaks of an intact vdev or a slice of one (lib.rs:263-296, 396-450,
\* 458-493).
LEMMA SilentStep == IInv /\ [Next]_vars => IntactIsSilent'
  <1> SUFFICES ASSUME TypeOK, Gate, IntactIsSilent, [Next]_vars, SliceOfIntact'
               PROVE  out' = <<>>
    BY DEF IInv, IntactIsSilent
  <1>1. image' = image
    BY DEF Next, NothingToAudit, ParseL0, CheckRootbp, SkipLabels, EnterLabels, CompareLabel,
           LabelsCompared, NothingToSweep, ReadMos, SweepQuiet, SweepMismatch, Swept, Returned,
           Goto, vars
  <1>2. SliceOfIntact
    BY <1>1 DEF SliceOfIntact, Identified, Parses
  <1>3. out = <<>>
    BY <1>2 DEF IntactIsSilent
  <1>4. CASE CheckRootbp
    BY <1>2, <1>4 DEF CheckRootbp, SliceOfIntact
  <1>5. CASE CompareLabel
    BY <1>2, <1>3, <1>5, IntactLabelsAgree DEF CompareLabel
  <1>6. CASE SweepMismatch
    <2>1. image.mos # NoMos => \A i \in DOMAIN image.mos : image.mos[i] # "mismatch"
      BY <1>2 DEF SliceOfIntact
    <2> QED
      BY <1>6, <2>1 DEF SweepMismatch, Gate
  <1>7. CASE ~CheckRootbp /\ ~CompareLabel /\ ~SweepMismatch
    BY <1>3, <1>7
    DEF Next, NothingToAudit, ParseL0, SkipLabels, EnterLabels, LabelsCompared, NothingToSweep,
        ReadMos, SweepQuiet, Swept, Returned, vars
  <1> QED
    BY <1>4, <1>5, <1>6, <1>7

\* Whatever the image holds, the audit returns a list of anomalies of the three
\* kinds it knows (audit_image, lib.rs:240-261).
THEOREM AuditTypes == Spec => []TypeOK
  <1>1. Init => TypeOK
    BY InitInv DEF IInv
  <1> QED
    BY <1>1, TypeStep, PTL DEF Spec

\* An undamaged vdev, and the front of one, of any size and content, is never
\* reported on (the L3 gate, lib.rs:396-414).
THEOREM IntactSliceIsSilent == Spec => []IntactIsSilent
  <1>1. IInv /\ [Next]_vars => IInv'
    BY TypeStep, GateStep, SilentStep DEF IInv
  <1>2. IInv => IntactIsSilent
    BY DEF IInv
  <1> QED
    BY InitInv, <1>1, <1>2, PTL DEF Spec

-----------------------------------------------------------------------------
(***************************************************************************)
(* Independence of the checks.  The invariant says, at every point of the  *)
(* audit, which set of anomalies has been reported (Progress), and that    *)
(* none was reported twice (NoneTwice).                                    *)
(***************************************************************************)
Reported(s) == {s[i] : i \in DOMAIN s}

NoneTwice(s) == \A i, j \in DOMAIN s : s[i] = s[j] => i = j

\* What each check reports by the time it has dealt with everything before n.
RootbpReport == IF image.rootbp = "mismatch" THEN {UberblockMismatch} ELSE {}

LabelsReport(n) ==
  IF WholeVdev THEN UNION {LabelDamage(l) : l \in {l \in {1, 2, 3} : l < n}} ELSE {}

SweepReport(n) ==
  {BlkptrMismatch(i) : i \in {i \in DOMAIN image.mos : i < n /\ image.mos[i] = "mismatch"}}

Progress ==
  /\ pc \in {"parse", "rootbp"} => Reported(out) = {}
  /\ pc = "labels" => Reported(out) = RootbpReport
  /\ pc = "compare" => Reported(out) = RootbpReport \cup LabelsReport(next)
  /\ pc = "read mos" => Reported(out) = RootbpReport \cup LabelsReport(4)
  /\ pc = "sweep" =>
       /\ next >= 1
       /\ Reported(out) = RootbpReport \cup LabelsReport(4) \cup SweepReport(next)
  /\ pc = "returned" /\ Parses(0) =>
       Reported(out) = RootbpReport \cup LabelsReport(4) \cup
                         (IF image.mos = NoMos THEN {} ELSE SweepReport(Len(image.mos) + 1))

ReportInv == TypeOK /\ Gate /\ NoneTwice(out) /\ Progress

\* Lists of different anomalies, put together, repeat none.
LEMMA ConcatReports ==
  ASSUME NEW S, NEW s \in Seq(S), NEW t \in Seq(S)
  PROVE  /\ Reported(s \o t) = Reported(s) \cup Reported(t)
         /\ NoneTwice(s) /\ NoneTwice(t) /\ Reported(s) \cap Reported(t) = {}
              => NoneTwice(s \o t)
  <1>1. /\ Len(s) \in Nat /\ Len(t) \in Nat
        /\ DOMAIN s = 1..Len(s) /\ DOMAIN t = 1..Len(t)
        /\ DOMAIN (s \o t) = 1..Len(s) + Len(t)
        /\ \A i \in 1..Len(s) : (s \o t)[i] = s[i]
        /\ \A i \in 1..Len(t) : (s \o t)[Len(s) + i] = t[i]
    OBVIOUS
  <1>2. \A i \in DOMAIN (s \o t) :
           \/ i \in DOMAIN s /\ (s \o t)[i] = s[i]
           \/ i - Len(s) \in DOMAIN t /\ (s \o t)[i] = t[i - Len(s)]
    <2> SUFFICES ASSUME NEW i \in 1..Len(s) + Len(t), i \notin 1..Len(s)
                 PROVE  i - Len(s) \in 1..Len(t) /\ (s \o t)[i] = t[i - Len(s)]
      BY <1>1
    <2>1. i - Len(s) \in 1..Len(t) /\ i = Len(s) + (i - Len(s))
      BY <1>1
    <2> QED
      BY <1>1, <2>1
  <1>3. Reported(s \o t) = Reported(s) \cup Reported(t)
    <2>1. Reported(s \o t) \subseteq Reported(s) \cup Reported(t)
      BY <1>2 DEF Reported
    <2>2. Reported(s) \subseteq Reported(s \o t)
      BY <1>1 DEF Reported
    <2>3. Reported(t) \subseteq Reported(s \o t)
      <3>1. \A i \in 1..Len(t) : Len(s) + i \in 1..Len(s) + Len(t)
        BY <1>1
      <3> QED
        BY <1>1, <3>1 DEF Reported
    <2> QED
      BY <2>1, <2>2, <2>3
  <1>4. ASSUME NoneTwice(s), NoneTwice(t), Reported(s) \cap Reported(t) = {},
               NEW i \in DOMAIN (s \o t), NEW j \in DOMAIN (s \o t), (s \o t)[i] = (s \o t)[j]
        PROVE  i = j
    <2>1. CASE i \in DOMAIN s /\ (s \o t)[i] = s[i] /\ j \in DOMAIN s /\ (s \o t)[j] = s[j]
      BY <1>4, <2>1 DEF NoneTwice
    <2>2. CASE /\ i - Len(s) \in DOMAIN t /\ (s \o t)[i] = t[i - Len(s)]
               /\ j - Len(s) \in DOMAIN t /\ (s \o t)[j] = t[j - Len(s)]
      <3>1. t[i - Len(s)] = t[j - Len(s)]
        BY <1>4, <2>2
      <3>2. i - Len(s) = j - Len(s)
        BY <1>4, <2>2, <3>1 DEF NoneTwice
      <3>3. i \in Nat /\ j \in Nat /\ Len(s) \in Nat
        BY <1>1
      <3> QED
        BY <3>2, <3>3
    <2>3. CASE /\ i \in DOMAIN s /\ (s \o t)[i] = s[i]
               /\ j - Len(s) \in DOMAIN t /\ (s \o t)[j] = t[j - Len(s)]
      BY <1>4, <2>3 DEF Reported
    <2>4. CASE /\ j \in DOMAIN s /\ (s \o t)[j] = s[j]
               /\ i - Len(s) \in DOMAIN t /\ (s \o t)[i] = t[i - Len(s)]
      BY <1>4, <2>4 DEF Reported
    <2> QED
      BY <1>2, <2>1, <2>2, <2>3, <2>4
  <1> QED
    BY <1>3, <1>4 DEF NoneTwice

\* A check that reports a single anomaly, or none.
LEMMA ShortReports ==
  /\ Reported(<<>>) = {} /\ NoneTwice(<<>>)
  /\ \A a : Reported(<<a>>) = {a} /\ NoneTwice(<<a>>)
  BY DEF Reported, NoneTwice

\* What is said of a label says which label and that it is one (lib.rs:428-446).
LEMMA DamageIsOfLabel ==
  ASSUME NEW l
  PROVE  \A a \in LabelDamage(l) : a.kind = "label" /\ a.at = l
  BY DEF LabelDamage, Divergence

\* The comparison with L0 reports the label's damage, each field once (lib.rs:423-449).
LEMMA ComparedReports ==
  ASSUME TypeOK, next \in Labels
  PROVE  LET t == IF Identified(next)
                  THEN Differing(next, "guid") \o Differing(next, "ashift")
                  ELSE <<Divergence("config", next)>>
         IN  t \in Seq(Anomaly) /\ Reported(t) = LabelDamage(next) /\ NoneTwice(t)
  <1>1. CASE ~Identified(next)
    BY <1>1, ComparedType, ShortReports DEF LabelDamage
  <1>2. CASE Identified(next)
    <2> DEFINE same(f) == image.labels[next][f] = image.labels[0][f]
    <2> DEFINE g == Differing(next, "guid")
    <2> DEFINE h == Differing(next, "ashift")
    <2>1. /\ g \in Seq(Anomaly) /\ h \in Seq(Anomaly)
      <3>1. next \in Nat
        BY DEF TypeOK
      <3>2. Divergence("guid", next) \in Anomaly /\ Divergence("ashift", next) \in Anomaly
        BY <3>1, AnomalyTypes
      <3> QED
        BY <3>2 DEF Differing
    <2>2. /\ Reported(g) = (IF same("guid") THEN {} ELSE {Divergence("guid", next)})
          /\ NoneTwice(g)
      BY ShortReports DEF Differing
    <2>3. /\ Reported(h) = (IF same("ashift") THEN {} ELSE {Divergence("ashift", next)})
          /\ NoneTwice(h)
      BY ShortReports DEF Differing
    <2>4. Reported(g) \cap Reported(h) = {}
      <3>1. Divergence("guid", next) # Divergence("ashift", next)
        BY DEF Divergence
      <3> QED
        BY <2>2, <2>3, <3>1
    <2>5. LabelDamage(next) = Reported(g) \cup Reported(h)
      <3>1. LabelDamage(next) = {Divergence(f, next) : f \in {f \in {"guid", "ashift"} : ~same(f)}}
        BY <1>2 DEF LabelDamage
      <3> HIDE DEF same
      <3> QED
        BY <2>2, <2>3, <3>1
    <2> HIDE DEF g, h
    <2>6. g \o h \in Seq(Anomaly) /\ Reported(g \o h) = LabelDamage(next) /\ NoneTwice(g \o h)
      BY <2>1, <2>2, <2>3, <2>4, <2>5, ConcatReports, PushKeepsType
    <2> QED
      BY <1>2, <2>6 DEF g, h
  <1> QED
    BY <1>1, <1>2

\* One more label, one more label's damage, which nothing said before resembles.
LEMMA NextLabel ==
  ASSUME WholeVdev, next \in {1, 2, 3}
  PROVE  /\ LabelsReport(next + 1) = LabelsReport(next) \cup LabelDamage(next)
         /\ (RootbpReport \cup LabelsReport(next)) \cap LabelDamage(next) = {}
  <1>1. {l \in {1, 2, 3} : l < next + 1} = {l \in {1, 2, 3} : l < next} \cup {next}
    OBVIOUS
  <1>2. LabelsReport(next + 1) = LabelsReport(next) \cup LabelDamage(next)
    BY <1>1 DEF LabelsReport
  <1>3. \A a \in LabelsReport(next) : a.at # next
    <2> SUFFICES ASSUME NEW l \in {1, 2, 3}, l < next, NEW a \in LabelDamage(l)
                 PROVE  a.at # next
      BY DEF LabelsReport
    <2>1. a.at = l
      BY DamageIsOfLabel
    <2> QED
      BY <2>1
  <1>4. \A a \in RootbpReport : a.kind = "uberblock"
    BY DEF RootbpReport, UberblockMismatch
  <1> QED
    BY <1>2, <1>3, <1>4, DamageIsOfLabel

\* The pointers of a MOS that was read are numbered from 1.
LEMMA PointersFrom1 ==
  ASSUME NEW mos \in Seq(Verdicts)
  PROVE  /\ DOMAIN mos = 1..Len(mos) /\ Len(mos) \in Nat
         /\ \A i \in DOMAIN mos : ~(i < 1)
  OBVIOUS

\* One more pointer of the sweep, which nothing said before resembles.
LEMMA NextPointer ==
  ASSUME TypeOK, next \in DOMAIN image.mos, image.mos \in Seq(Verdicts)
  PROVE  /\ SweepReport(next + 1) = SweepReport(next) \cup
              (IF image.mos[next] = "mismatch" THEN {BlkptrMismatch(next)} ELSE {})
         /\ BlkptrMismatch(next) \notin RootbpReport \cup LabelsReport(4) \cup SweepReport(next)
  <1>1. DOMAIN image.mos \subseteq Nat /\ next \in Nat
    <2>1. DOMAIN image.mos = 1..Len(image.mos) /\ Len(image.mos) \in Nat
      BY PointersFrom1
    <2>2. next \in Nat
      BY DEF TypeOK
    <2>3. \A n \in Nat : 1..n \subseteq Nat
      OBVIOUS
    <2> QED
      BY <2>1, <2>2, <2>3
  <1>2. \A i \in DOMAIN image.mos : i < next + 1 <=> i < next \/ i = next
    BY <1>1
  <1>3. SweepReport(next + 1) = SweepReport(next) \cup
              (IF image.mos[next] = "mismatch" THEN {BlkptrMismatch(next)} ELSE {})
    BY <1>2 DEF SweepReport
  <1>4. \A a \in SweepReport(next) : a.at # next
    BY <1>1 DEF SweepReport, BlkptrMismatch
  <1>5. \A a \in RootbpReport \cup LabelsReport(4) : a.kind # "blkptr"
    BY DamageIsOfLabel DEF RootbpReport, UberblockMismatch, LabelsReport
  <1>6. BlkptrMismatch(next).kind = "blkptr" /\ BlkptrMismatch(next).at = next
    BY DEF BlkptrMismatch
  <1> QED
    BY <1>3, <1>4, <1>5, <1>6

\* Every step reports what its check must, and nothing a second time (lib.rs:240-261).
LEMMA ReportStep ==
  ASSUME ReportInv, [Next]_vars
  PROVE  NoneTwice(out') /\ Progress'
  <1> USE DEF ReportInv, Goto
  <1>1. UNCHANGED image
    BY DEF Next, NothingToAudit, ParseL0, CheckRootbp, SkipLabels, EnterLabels, CompareLabel,
           LabelsCompared, NothingToSweep, ReadMos, SweepQuiet, SweepMismatch, Swept, Returned,
           vars
  <1>2. /\ RootbpReport' = RootbpReport
        /\ (WholeVdev' <=> WholeVdev)
        /\ (Parses(0)' <=> Parses(0))
        /\ LabelsReport(4)' = LabelsReport(4)
        /\ LabelsReport(next)' = LabelsReport(next')
        /\ SweepReport(next)' = SweepReport(next')
        /\ SweepReport(Len(image.mos) + 1)' = SweepReport(Len(image.mos) + 1)
    BY <1>1 DEF RootbpReport, WholeVdev, Identified, Parses, LabelsReport, LabelDamage, SweepReport
  <1>3. CASE NothingToAudit \/ ParseL0
    BY <1>2, <1>3 DEF NothingToAudit, ParseL0, Progress
  <1>4. CASE CheckRootbp
    <2>1. /\ pc' = "labels"
          /\ out' = IF image.rootbp = "mismatch" THEN <<UberblockMismatch>> ELSE <<>>
      BY <1>4 DEF CheckRootbp
    <2>2. Reported(out') = RootbpReport /\ NoneTwice(out')
      BY <2>1, ShortReports DEF RootbpReport
    <2> QED
      BY <1>2, <2>1, <2>2 DEF Progress
  <1>5. CASE SkipLabels \/ EnterLabels
    <2>1. UNCHANGED out /\ Reported(out) = RootbpReport
      BY <1>5 DEF SkipLabels, EnterLabels, Progress
    <2>2. CASE SkipLabels
      BY <1>2, <2>1, <2>2 DEF SkipLabels, Progress, LabelsReport, Reported
    <2>3. CASE EnterLabels
      <3>1. LabelsReport(1) = {}
        BY DEF LabelsReport
      <3> QED
        BY <1>2, <2>1, <2>3, <3>1 DEF EnterLabels, Progress
    <2> QED
      BY <1>5, <2>2, <2>3
  <1>6. CASE CompareLabel
    <2> DEFINE t == IF Identified(next)
                    THEN Differing(next, "guid") \o Differing(next, "ashift")
                    ELSE <<Divergence("config", next)>>
    <2>1. /\ pc = "compare" /\ pc' = "compare" /\ next' = next + 1
          /\ out' = out \o t
          /\ out \in Seq(Anomaly)
          /\ WholeVdev /\ next \in {1, 2, 3} /\ next \in Labels
      BY <1>6 DEF CompareLabel, Gate, Labels, TypeOK
    <2>2. t \in Seq(Anomaly) /\ Reported(t) = LabelDamage(next) /\ NoneTwice(t)
      BY <2>1, ComparedReports
    <2> HIDE DEF t
    <2>3. Reported(out) = RootbpReport \cup LabelsReport(next)
      BY <2>1 DEF Progress
    <2>4. Reported(out') = Reported(out) \cup LabelDamage(next) /\ NoneTwice(out')
      BY <2>1, <2>2, <2>3, ConcatReports, NextLabel
    <2>5. Reported(out') = RootbpReport \cup LabelsReport(next + 1)
      BY <2>1, <2>3, <2>4, NextLabel
    <2> QED
      BY <1>2, <2>1, <2>4, <2>5 DEF Progress
  <1>7. CASE LabelsCompared
    <2>1. pc = "compare" /\ pc' = "read mos" /\ UNCHANGED out
      BY <1>7 DEF LabelsCompared
    <2>2. next \notin Labels /\ next \in Nat
      BY <1>7 DEF LabelsCompared, TypeOK
    <2>3. LabelsReport(next) = LabelsReport(4)
      BY <2>2 DEF LabelsReport, Labels
    <2> QED
      BY <1>2, <2>1, <2>3 DEF Progress
  <1>8. CASE NothingToSweep
    BY <1>1, <1>2, <1>8 DEF NothingToSweep, Progress
  <1>9. CASE ReadMos
    <2>1. /\ pc = "read mos" /\ pc' = "sweep" /\ next' = 1 /\ UNCHANGED out
          /\ image.mos \in Seq(Verdicts)
      BY <1>9 DEF ReadMos, TypeOK, IsImage
    <2>2. SweepReport(1) = {}
      <3>1. \A i \in DOMAIN image.mos : ~(i < 1)
        BY <2>1, PointersFrom1
      <3> QED
        BY <3>1 DEF SweepReport
    <2>3. Reported(out') = RootbpReport \cup LabelsReport(4) \cup SweepReport(next')
      BY <2>1, <2>2 DEF Progress
    <2>4. NoneTwice(out')
      BY <2>1
    <2>5. pc' = "sweep" /\ next' >= 1
      <3>1. pc' = "sweep" /\ next' = 1
        BY <2>1
      <3> QED
        BY <3>1
    <2>6. Progress'
      BY <1>2, <2>3, <2>5 DEF Progress
    <2> QED
      BY <2>4, <2>6
  <1>10. CASE SweepQuiet \/ SweepMismatch
    <2>1. /\ pc = "sweep" /\ pc' = "sweep" /\ next' = next + 1 /\ next >= 1
          /\ next \in DOMAIN image.mos /\ next \in Nat
          /\ image.mos \in Seq(Verdicts)
          /\ out \in Seq(Anomaly)
      BY <1>10 DEF SweepQuiet, SweepMismatch, Gate, Progress, TypeOK, IsImage
    <2>2. Reported(out) = RootbpReport \cup LabelsReport(4) \cup SweepReport(next)
      BY <2>1 DEF Progress
    <2>3. CASE SweepQuiet
      <3>1. SweepReport(next + 1) = SweepReport(next)
        BY <2>1, <2>3, NextPointer DEF SweepQuiet
      <3> QED
        BY <1>2, <2>1, <2>2, <2>3, <3>1 DEF SweepQuiet, Progress
    <2>4. CASE SweepMismatch
      <3> DEFINE t == <<BlkptrMismatch(next)>>
      <3>1. out' = out \o t
        BY <2>1, <2>4, AnomalyTypes DEF SweepMismatch
      <3>2. t \in Seq(Anomaly)
        BY <2>1, AnomalyTypes
      <3>3. Reported(t) = {BlkptrMismatch(next)} /\ NoneTwice(t)
        BY ShortReports
      <3> HIDE DEF t
      <3>4. SweepReport(next + 1) = SweepReport(next) \cup {BlkptrMismatch(next)}
        BY <2>1, <2>4, NextPointer DEF SweepMismatch
      <3>5. Reported(out) \cap {BlkptrMismatch(next)} = {}
        BY <2>1, <2>2, NextPointer
      <3>6. NoneTwice(out') /\ Reported(out') = Reported(out) \cup {BlkptrMismatch(next)}
        BY <2>1, <3>1, <3>2, <3>3, <3>5, ConcatReports
      <3>7. Reported(out') = RootbpReport \cup LabelsReport(4) \cup SweepReport(next + 1)
        BY <2>2, <3>4, <3>6
      <3> QED
        BY <1>2, <2>1, <3>6, <3>7 DEF Progress
    <2> QED
      BY <1>10, <2>3, <2>4
  <1>11. CASE Swept
    <2>1. /\ pc = "sweep" /\ pc' = "returned" /\ UNCHANGED out
          /\ next \notin DOMAIN image.mos /\ next \in Nat /\ next >= 1
          /\ image.mos # NoMos /\ image.mos \in Seq(Verdicts)
      BY <1>11 DEF Swept, Gate, Progress, TypeOK, IsImage
    <2>2. SweepReport(next) = SweepReport(Len(image.mos) + 1)
      <3>1. DOMAIN image.mos = 1..Len(image.mos) /\ Len(image.mos) \in Nat
        BY <2>1, PointersFrom1
      <3>2. Len(image.mos) < next
        BY <2>1, <3>1
      <3>3. \A i \in DOMAIN image.mos : i < next /\ i < Len(image.mos) + 1
        BY <2>1, <3>1, <3>2
      <3> QED
        BY <3>3 DEF SweepReport
    <2> QED
      BY <1>1, <1>2, <2>1, <2>2 DEF Progress
  <1>12. CASE Returned \/ UNCHANGED vars
    BY <1>2, <1>12 DEF Returned, vars, Progress
  <1> QED
    BY <1>3, <1>4, <1>5, <1>6, <1>7, <1>8, <1>9, <1>10, <1>11, <1>12 DEF Next

\* A list without repetitions has as many anomalies of a kind as there are different
\* ones.
LEMMA CountIsCardinality ==
  ASSUME TypeOK, NoneTwice(out), NEW k
  PROVE  Count(k) = Cardinality(Found(k))
  <1> DEFINE D == {i \in DOMAIN out : out[i].kind = k}
  <1> DEFINE f == [i \in D |-> out[i]]
  <1>1. IsFiniteSet(D)
    <2>1. DOMAIN out = 1..Len(out) /\ Len(out) \in Nat
      <3>1. out \in Seq(Anomaly)
        BY DEF TypeOK
      <3> QED
        BY <3>1
    <2>2. IsFiniteSet(DOMAIN out)
      <3>1. 1 \in Int /\ Len(out) \in Int
        BY <2>1
      <3>2. IsFiniteSet(1..Len(out))
        BY <3>1, FS_Interval
      <3> QED
        BY <2>1, <3>2
    <2> QED
      BY <2>2, FS_Subset
  <1>2. f \in Bijection(D, Found(k))
    <2>1. f \in [D -> Found(k)]
      BY DEF Found
    <2>2. \A i, j \in D : f[i] = f[j] => i = j
      BY DEF NoneTwice
    <2>3. \A a \in Found(k) : \E i \in D : f[i] = a
      BY DEF Found
    <2> QED
      BY <2>1, <2>2, <2>3, Fun_IsBij
  <1>3. ExistsBijection(D, Found(k))
    BY <1>2 DEF ExistsBijection
  <1> QED
    BY <1>1, <1>3, FS_Bijection DEF Count

\* What has been reported when the audit returns, sorted by kind.
LEMMA ReturnedReports ==
  ASSUME ReportInv
  PROVE  ChecksAreIndependent
  <1> SUFFICES ASSUME pc = "returned", Parses(0)
               PROVE  ChecksAreIndependent
    BY DEF ChecksAreIndependent
  <1> DEFINE sweep == IF image.mos = NoMos THEN {} ELSE SweepReport(Len(image.mos) + 1)
  <1>1. Reported(out) = RootbpReport \cup LabelsReport(4) \cup sweep
    BY DEF ReportInv, Progress
  <1>2. /\ \A a \in RootbpReport : a.kind = "uberblock"
        /\ \A a \in LabelsReport(4) : a.kind = "label"
        /\ \A a \in sweep : a.kind = "blkptr"
    BY DamageIsOfLabel DEF RootbpReport, UberblockMismatch, LabelsReport, SweepReport, BlkptrMismatch
  <1>3. LabelsReport(4) = IF WholeVdev THEN UNION {LabelDamage(l) : l \in {1, 2, 3}} ELSE {}
    <2>1. {l \in {1, 2, 3} : l < 4} = {1, 2, 3}
      OBVIOUS
    <2> QED
      BY <2>1 DEF LabelsReport
  <1>4. image.mos # NoMos => SweepReport(Len(image.mos) + 1) =
          {BlkptrMismatch(i) : i \in {i \in DOMAIN image.mos : image.mos[i] = "mismatch"}}
    <2> SUFFICES ASSUME image.mos # NoMos
                 PROVE  \A i \in DOMAIN image.mos : i < Len(image.mos) + 1
      BY DEF SweepReport
    <2>1. image.mos \in Seq(Verdicts)
      BY DEF ReportInv, TypeOK, IsImage
    <2>2. DOMAIN image.mos = 1..Len(image.mos) /\ Len(image.mos) \in Nat
      BY <2>1, PointersFrom1
    <2> QED
      BY <2>2
  <1>5. \A k : Found(k) = {a \in Reported(out) : a.kind = k}
    BY DEF Found, Reported
  <1> HIDE DEF sweep
  <1>6. /\ Found("uberblock") = RootbpReport
        /\ Found("label") = LabelsReport(4)
        /\ Found("blkptr") = sweep
    BY <1>1, <1>2, <1>5
  <1>7. \A k : Count(k) = Cardinality(Found(k))
    BY CountIsCardinality DEF ReportInv
  <1> QED
    BY <1>3, <1>4, <1>6, <1>7 DEF ChecksAreIndependent, RootbpReport, sweep

\* Whatever two of the checks found or failed to read, the third reports exactly the
\* damage in its part of the image, and none of it twice (lib.rs:240-261).
THEOREM EachCheckReportsItsDamage == Spec => []ChecksAreIndependent
  <1>1. Init => ReportInv
    <2> SUFFICES ASSUME Init
                 PROVE  ReportInv
      OBVIOUS
    <2>1. TypeOK /\ Gate
      BY InitInv DEF IInv
    <2>2. Reported(out) = {} /\ NoneTwice(out) /\ pc = "parse"
      BY ShortReports DEF Init
    <2> QED
      BY <2>1, <2>2 DEF ReportInv, Progress
  <1>2. ReportInv /\ [Next]_vars => ReportInv'
    BY TypeStep, GateStep, ReportStep DEF ReportInv
  <1>3. ReportInv => ChecksAreIndependent
    BY ReturnedReports
  <1> QED
    BY <1>1, <1>2, <1>3, PTL DEF Spec

-----------------------------------------------------------------------------
(***************************************************************************)
(* The root block pointer, which audit_image judges and then reads, one    *)
(* ditto copy after another (BlockRead).  The loops forget why they passed *)
(* a copy over; Passed says it: every copy before the running loop's is    *)
(* unusable to that loop, and the verdict, once there, is about the first  *)
(* copy in the image.                                                      *)
(***************************************************************************)

\* The verdict v about copy i, for a pointer that can be verified.
VerdictOn(v, i) ==
  \/ /\ i = 0
     /\ v = "unreadable"
     /\ \A j \in Dvas : ~InImage(img, bp, j)
  \/ /\ i \in Dvas
     /\ InImage(img, bp, i)
     /\ \A j \in 1..i - 1 : ~InImage(img, bp, j)
     /\ \/ Raw(img, bp, i) = Zeroes /\ v = "unreadable"
        \/ Raw(img, bp, i) # Zeroes /\ v = Verdict(i)

Verifiable == HasCopies /\ bp.cksum # "skipped"

\* Copy i is in the image, at the place the code looks for it, and decompresses.
CopyReads(i) == InImage(img, bp, i) /\ Decompresses(bp, Raw(img, bp, i))

Passed ==
  /\ loop = "judge" => verdict = "pending" /\ \A j \in 1..copy - 1 : ~InImage(img, bp, j)
  /\ loop # "judge" => IF Verifiable THEN VerdictOn(verdict, judged) ELSE verdict = "unverified"
  /\ loop = "read" => \A j \in 1..copy - 1 : ~CopyReads(j)
  /\ loop # "returned" => result = Pending

\* What read_block returns, by the place it reads a copy at.
FirstRead ==
  loop = "returned" /\ HasCopies =>
    IF \E i \in Dvas : CopyReads(i)
    THEN /\ result.kind = "ok"
         /\ result.used \in Dvas
         /\ CopyReads(result.used)
         /\ \A i \in 1..result.used - 1 : ~CopyReads(i)
         /\ result.valid = Verify(bp, Raw(img, bp, result.used))
    ELSE result = Err

ReadInv == BlockTypeOK /\ Passed /\ FirstRead /\ Len(img) < Wrap

\* Neither loop writes the image or the pointer.
LEMMA BlockStays ==
  ASSUME [BlockNext]_blockVars
  PROVE  img' = img /\ bp' = bp
BY DEF BlockNext, blockVars, JudgeUnverifiable, JudgeNextCopy, JudgeZeroes, JudgeCopy, JudgeNoCopy,
       ReadEmbedded, ReadHole, ReadNextCopy, ReadCopy, ReadFails, BlockReturned, Judge, Return

\* The strengthened invariant: the types, the passed copies, and the result.
LEMMA ReadSteps == BlockSpec => []ReadInv
<1>1. BlockInit => ReadInv
  BY CasesAssumption
  DEF BlockInit, ReadInv, BlockTypeOK, Passed, FirstRead, Pending, Result, Dvas
<1>2. ReadInv /\ [BlockNext]_blockVars => ReadInv'
  <2> SUFFICES ASSUME ReadInv, [BlockNext]_blockVars PROVE ReadInv'
    OBVIOUS
  <2>0. img' = img /\ bp' = bp
    BY BlockStays
  <2> USE DEF ReadInv
  <2>1. ASSUME NEW v \in {"ok", "mismatch", "unverified", "unreadable"},
               NEW i \in 0..3, Judge(v, i),
               IF Verifiable THEN VerdictOn(v, i) ELSE v = "unverified"
        PROVE  ReadInv'
    <3>1. BlockTypeOK'
      BY <2>1 DEF Judge, BlockTypeOK
    <3>2. Passed'
      BY <2>1 DEF Judge, BlockTypeOK, Passed, VerdictOn, Verifiable, HasCopies, IsHole, Verdict,
                  Verify, InImage, Raw, CopyReads
    <3> QED
      BY <3>1, <3>2, <2>1 DEF Judge, FirstRead
  <2>2. ASSUME NEW r \in Result, Return(r), r # Pending,
               HasCopies => IF \E i \in Dvas : CopyReads(i)
                            THEN /\ r.kind = "ok"
                                 /\ r.used \in Dvas
                                 /\ CopyReads(r.used)
                                 /\ \A i \in 1..r.used - 1 : ~CopyReads(i)
                                 /\ r.valid = Verify(bp, Raw(img, bp, r.used))
                            ELSE r = Err
        PROVE  ReadInv'
    <3>1. BlockTypeOK'
      BY <2>2 DEF Return, BlockTypeOK
    <3>2. Passed'
      BY <2>2 DEF Return, BlockTypeOK, Passed, VerdictOn, Verifiable, HasCopies, IsHole, Verdict,
                  Verify, InImage, Raw
    <3>3. FirstRead'
      BY <2>2 DEF Return, FirstRead, HasCopies, IsHole, CopyReads, InImage, Decompresses,
                  Raw, Verify
    <3> QED
      BY <3>1, <3>2, <3>3, <2>0
  <2>3. CASE JudgeUnverifiable
    BY <2>3, <2>1 DEF JudgeUnverifiable, Verifiable
  <2>4. CASE JudgeNextCopy
    BY <2>4 DEF JudgeNextCopy, Judging, BlockTypeOK, Passed, FirstRead, Dvas, InImage
  <2>5. CASE JudgeZeroes
    <3>1. copy \in 0..3 /\ VerdictOn("unreadable", copy)
      BY <2>5 DEF JudgeZeroes, Judging, Passed, VerdictOn, Dvas
    <3> QED
      BY <2>5, <3>1, <2>1 DEF JudgeZeroes, Judging, Verifiable
  <2>6. CASE JudgeCopy
    <3>1. copy \in 0..3 /\ VerdictOn(Verdict(copy), copy)
      BY <2>6 DEF JudgeCopy, Judging, Passed, VerdictOn, Dvas
    <3>2. Verdict(copy) \in {"ok", "mismatch", "unverified"}
      BY DEF Verdict
    <3> QED
      BY <2>6, <3>1, <3>2, <2>1 DEF JudgeCopy, Judging, Verifiable
  <2>7. CASE JudgeNoCopy
    <3>1. loop = "judge" /\ copy = 4
      BY <2>7 DEF JudgeNoCopy, Judge, BlockTypeOK, Dvas
    <3>2. VerdictOn("unreadable", 0)
      BY <3>1 DEF Passed, VerdictOn, Dvas
    <3> QED
      BY <2>7, <3>2, <2>1 DEF JudgeNoCopy, Verifiable
  <2>8. CASE ReadEmbedded
    <3>1. ~HasCopies
      BY <2>8 DEF ReadEmbedded, HasCopies
    <3>2. Block("none", 0) \in Result \ {Pending} /\ Err \in Result \ {Pending}
      BY DEF Block, Err, Pending, Result
    <3> QED
      BY <2>8, <3>1, <3>2, <2>2 DEF ReadEmbedded
  <2>9. CASE ReadHole
    <3>1. Block("none", 0) \in Result \ {Pending}
      BY DEF Block, Pending, Result
    <3> QED
      BY <2>9, <3>1, <2>2 DEF ReadHole, HasCopies
  <2>10. CASE ReadNextCopy
    BY <2>10 DEF ReadNextCopy, Reading, BlockTypeOK, Passed, FirstRead, Dvas, CopyReads,
                 InImage, Decompresses, Raw, VerdictOn, Verifiable, HasCopies, IsHole,
                 Verdict, Verify
  <2>11. CASE ReadCopy
    <3> DEFINE r == Block(Verify(bp, Raw(img, bp, copy)), copy)
    <3>1. r \in Result \ {Pending}
      BY <2>11 DEF ReadCopy, Reading, Block, Pending, Result, Verify, Dvas
    <3>2. r.kind = "ok" /\ r.used = copy /\ r.valid = Verify(bp, Raw(img, bp, copy))
      BY DEF Block
    <3>3. copy \in Dvas /\ CopyReads(copy) /\ \A i \in 1..copy - 1 : ~CopyReads(i)
      BY <2>11 DEF ReadCopy, Reading, Passed, CopyReads
    <3>4. Return(r)
      BY <2>11 DEF ReadCopy
    <3> HIDE DEF r
    <3> QED
      BY <3>1, <3>2, <3>3, <3>4, <2>2
  <2>12. CASE ReadFails
    <3>1. loop = "read" /\ copy = 4
      BY <2>12 DEF ReadFails, Return, BlockTypeOK, Dvas
    <3>2. \A i \in Dvas : ~CopyReads(i)
      BY <3>1 DEF Passed, Dvas
    <3>3. Err \in Result \ {Pending}
      BY DEF Err, Pending, Result
    <3> QED
      BY <2>12, <3>2, <3>3, <2>2 DEF ReadFails
  <2>13. CASE UNCHANGED blockVars
    BY <2>13 DEF blockVars, BlockTypeOK, Passed, FirstRead, VerdictOn, Verifiable, HasCopies,
                 IsHole, Verdict, Verify, CopyReads, InImage, Decompresses, Raw
  <2> QED
    BY <2>3, <2>4, <2>5, <2>6, <2>7, <2>8, <2>9, <2>10, <2>11, <2>12, <2>13
    DEF BlockNext, BlockReturned
<1> QED
  BY <1>1, <1>2, PTL DEF BlockSpec

\* The types of both loops' variables hold for every image and pointer.
THEOREM BlockReadTypes == BlockSpec => []BlockTypeOK
BY ReadSteps, PTL DEF ReadInv

\* A copy that does not wrap is read where it is (blkptr.rs:85-87).
LEMMA PlaceRead ==
  ASSUME ReadInv, NEW i \in Dvas, ~Wraps(i)
  PROVE  /\ CopyReads(i) <=> Usable(i)
         /\ Usable(i) => Raw(img, bp, i) = Stored(i)
<1>1. bp.dvas[i] = NoDva \/ bp.dvas[i] \in 0 .. MaxOffset
  BY DEF ReadInv, BlockTypeOK, Blkptr
<1>2. Len(img) \in Nat /\ Len(img) < Wrap /\ Wrap \in Nat \ {0} /\ Skew \in Nat
  BY WrapAssumption, SkewAssumption DEF ReadInv, BlockTypeOK
<1>3. ASSUME There(i)
      PROVE  PhysicalByteOffset(bp.dvas[i]) = bp.dvas[i] + Skew
  <2>1. bp.dvas[i] \in Nat /\ bp.dvas[i] < Wrap
    BY <1>1, <1>2, <1>3 DEF There, MaxOffset
  <2>2. bp.dvas[i] % Wrap = bp.dvas[i]
    BY <1>2, <2>1
  <2> QED
    BY <2>2 DEF PhysicalByteOffset
<1>4. There(i) <=> InImage(img, bp, i)
  BY <1>3 DEF There, InImage, Wraps
<1>5. There(i) => Raw(img, bp, i) = Stored(i)
  BY <1>3 DEF Raw, Stored
<1> QED
  BY <1>4, <1>5 DEF CopyReads, Usable

\* read_block returns the first ditto copy that is in the image and decompresses, of
\* a pointer none of whose offsets wraps into the image.
THEOREM FirstUsableIsRead == BlockSpec => []ReadsFirstUsable
<1>1. ReadInv => ReadsFirstUsable
  <2> SUFFICES ASSUME ReadInv, loop = "returned", HasCopies, \A i \in Dvas : ~Wraps(i)
               PROVE  IF \E i \in Dvas : Usable(i)
                      THEN /\ result.kind = "ok"
                           /\ result.used \in Dvas
                           /\ Usable(result.used)
                           /\ \A i \in 1..result.used - 1 : ~Usable(i)
                           /\ result.valid = Verify(bp, Stored(result.used))
                      ELSE result = Err
    BY DEF ReadsFirstUsable
  <2>1. \A i \in Dvas : /\ CopyReads(i) <=> Usable(i)
                        /\ Usable(i) => Raw(img, bp, i) = Stored(i)
    BY PlaceRead
  <2>2. IF \E i \in Dvas : CopyReads(i)
        THEN /\ result.kind = "ok" /\ result.used \in Dvas /\ CopyReads(result.used)
             /\ \A i \in 1..result.used - 1 : ~CopyReads(i)
             /\ result.valid = Verify(bp, Raw(img, bp, result.used))
        ELSE result = Err
    BY DEF ReadInv, FirstRead
  <2>3. result.used \in Dvas => \A i \in 1..result.used - 1 : i \in Dvas
    BY DEF Dvas
  <2> QED
    BY <2>1, <2>2, <2>3
<1> QED
  BY <1>1, ReadSteps, PTL

\* Auditor and reader choose comparable copies, and agree on a shared one.
THEOREM AuditAgreesWithRead == BlockSpec => []AuditorMeetsReader
<1>1. ReadInv => AuditorMeetsReader
  <2> SUFFICES ASSUME ReadInv, loop = "returned", HasCopies, bp.cksum = "verified",
                      result.kind = "ok"
               PROVE  /\ judged \in 1..result.used
                      /\ judged = result.used =>
                           \/ verdict = "ok" /\ result.valid = "good"
                           \/ verdict = "mismatch" /\ result.valid = "bad"
                           \/ verdict = "unreadable" /\ Raw(img, bp, judged) = Zeroes
                      /\ judged < result.used => ~Decompresses(bp, Raw(img, bp, judged))
    BY DEF AuditorMeetsReader
  <2>1. VerdictOn(verdict, judged)
    BY DEF ReadInv, Passed, Verifiable
  <2>2. /\ result.used \in Dvas
        /\ CopyReads(result.used)
        /\ \A i \in 1..result.used - 1 : ~CopyReads(i)
        /\ result.valid = Verify(bp, Raw(img, bp, result.used))
    BY DEF ReadInv, FirstRead, Err
  <2>3. /\ judged \in Dvas
        /\ InImage(img, bp, judged)
        /\ \A j \in 1..judged - 1 : ~InImage(img, bp, j)
    BY <2>1, <2>2 DEF VerdictOn, CopyReads
  <2>4. judged \in 1..result.used
    BY <2>2, <2>3 DEF CopyReads, Dvas
  <2>5. judged = result.used => \/ verdict = "ok" /\ result.valid = "good"
                                \/ verdict = "mismatch" /\ result.valid = "bad"
                                \/ verdict = "unreadable" /\ Raw(img, bp, judged) = Zeroes
    BY <2>1, <2>2, <2>3 DEF VerdictOn, Verdict, Verify, Dvas
  <2>6. judged < result.used => ~Decompresses(bp, Raw(img, bp, judged))
    BY <2>2, <2>3 DEF CopyReads, Dvas
  <2> QED
    BY <2>4, <2>5, <2>6
<1> QED
  BY <1>1, ReadSteps, PTL

\* Missing or zeroed copies of an intact block are never a checksum finding.
THEOREM TruncationIsSilent == BlockSpec => []TruncationIsNotTamper
<1>1. ReadInv => TruncationIsNotTamper
  BY DEF ReadInv, Passed, TruncationIsNotTamper, VerdictOn, Verdict, Verify, Dvas
<1> QED
  BY <1>1, ReadSteps, PTL
=============================================================================
