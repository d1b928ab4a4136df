--------------------------- MODULE VfsMountProofs ---------------------------
(***************************************************************************)
(* What is proved of the mount and its client, for every source, however   *)
(* it is cut up or cut short, every dataset and every bound on the path;   *)
(* and, at the end, of the scans for the uberblock a mount starts from.    *)
(***************************************************************************)
EXTENDS VfsMount, UberblockScan, SequenceTheorems, WellFoundedInduction, TLAPS

(***************************************************************************)
(* Facts about the operators.                                              *)
(***************************************************************************)

\* A set of numbers that is not empty has a least one, and Min is it.
LEMMA MinIsLeast ==
  ASSUME NEW S, S \subseteq Nat, S # {}
  PROVE  /\ Min(S) \in S
         /\ \A y \in S : Min(S) <= y
<1>1. PICK x \in S : \A y \in S : ~ (<<y, x>> \in OpToRel(<, Nat))
  BY NatLessThanWellFounded, WFMin, Zenon
<1>2. \A y \in S : ~ (y < x)
  BY <1>1 DEF OpToRel
<1>3. \E z \in S : \A y \in S : z <= y
  BY <1>2
<1> QED
  BY <1>3 DEF Min

\* An object as the dataset has it.
LEMMA ObjectIs ==
  ASSUME NEW obj \in DOMAIN Objects
  PROVE  /\ Objects[obj].size \in Nat
         /\ Objects[obj].blockSize \in Nat
         /\ Objects[obj].blocks \in Seq(Nat)
         /\ Objects[obj].entries \in Seq(Names \X Nat)
         /\ Objects[obj].xattrs \in Seq(Seq(Nat))
  BY ObjectsAssumption DEF ObjectsAssumption

\* ZfsFs::lookup (vfs.rs:563-567) finds nothing or an object id: the type bits
\* of the entry are gone.
LEMMA FoundIsObject ==
  ASSUME NEW obj, DirReadable(obj), NEW name
  PROVE  FirstNamed(DirEntries(obj), name) \in {Absent} \cup 0 .. IdBits - 1
<1> DEFINE raw == Objects[obj].entries
           named == {i \in DOMAIN DirEntries(obj) : DirEntries(obj)[i][1] = name}
<1>1. raw \in Seq(Names \X Nat)
  BY ObjectIs DEF DirReadable, Dnode
<1>2. DirEntries(obj) = [i \in DOMAIN raw |-> <<raw[i][1], raw[i][2] % IdBits>>]
  BY DEF DirEntries, Masked
<1>3. CASE named = {}
  BY <1>3 DEF FirstNamed
<1>4. CASE named # {}
  <2>1. DOMAIN raw \subseteq Nat
    BY <1>1
  <2>2. named \subseteq DOMAIN raw
    BY <1>2
  <2>3. Min(named) \in named
    BY <1>4, <2>1, <2>2, MinIsLeast
  <2>4. FirstNamed(DirEntries(obj), name) = DirEntries(obj)[Min(named)][2]
    BY <1>4 DEF FirstNamed
  <2>5. PICK i \in DOMAIN raw : i = Min(named)
    BY <2>2, <2>3
  <2>6. FirstNamed(DirEntries(obj), name) = raw[i][2] % IdBits
    <3>1. DirEntries(obj)[i] = <<raw[i][1], raw[i][2] % IdBits>>
      BY <1>2, <2>5
    <3>2. FirstNamed(DirEntries(obj), name) = DirEntries(obj)[i][2]
      BY <2>4, <2>5
    <3>3. \A a, b : <<a, b>>[2] = b
      OBVIOUS
    <3>4. DirEntries(obj)[i][2] = <<raw[i][1], raw[i][2] % IdBits>>[2]
      BY <3>1
    <3> QED
      BY <3>2, <3>3, <3>4, Zenon
  <2>7. raw[i] \in Names \X Nat
    BY <1>1, <2>5
  <2>8. raw[i][2] \in Nat
    BY <2>7
  <2>9. raw[i][2] % IdBits \in 0 .. IdBits - 1
    BY <2>8 DEF IdBits
  <2> QED
    BY <2>6, <2>9
<1> QED
  BY <1>3, <1>4

\* One round of zpl_lookup's loop (zpl.rs:237-242).
Resolved(at, names, i) ==
  IF i = 0 THEN RootId
  ELSE IF at[i - 1] = Absent THEN Absent ELSE FirstNamed(ListDir(at[i - 1]), names[i])

\* The loop of zpl_lookup has a value after every number of rounds.
LEMMA WalkIs ==
  ASSUME NEW names \in Seq(Names)
  PROVE  ZplWalk(names) = [i \in 0 .. Len(names) |-> Resolved(ZplWalk(names), names, i)]
<1> DEFINE Walks(f, n) == f = [i \in 0 .. n |-> Resolved(f, names, i)]
           Stuck == {n \in 0 .. Len(names) : ~ \E f : Walks(f, n)}
<1>1. Stuck = {}
  <2>1. SUFFICES ASSUME Stuck # {} PROVE FALSE
    OBVIOUS
  <2>2. Stuck \subseteq Nat
    OBVIOUS
  <2>3. PICK m \in Stuck : \A n \in Stuck : m <= n
    BY <2>1, <2>2, MinIsLeast
  <2>4. m \in 0 .. Len(names) /\ ~ \E f : Walks(f, m)
    OBVIOUS
  <2>5. CASE m = 0
    <3> DEFINE f == [i \in 0 .. 0 |-> RootId]
    <3>1. \A i \in 0 .. 0 : Resolved(f, names, i) = RootId
      BY DEF Resolved
    <3>2. Walks(f, 0)
      BY <3>1
    <3>3. \E h : Walks(h, 0)
      <4> HIDE DEF f, Walks
      <4> QED
        BY <3>2
    <3> HIDE DEF Walks
    <3> QED
      BY <2>4, <2>5, <3>3, Zenon
  <2>6. CASE m # 0
    <3>1. m \in Nat /\ m - 1 \in 0 .. Len(names) /\ m - 1 < m
      BY <2>4, <2>6
    <3>2. m - 1 \notin Stuck
      <4>1. ~ (m <= m - 1)
        BY <3>1
      <4> HIDE DEF Stuck
      <4> QED
        BY <2>3, <4>1, Zenon
    <3>3. PICK f : Walks(f, m - 1)
      BY <3>1, <3>2
    <3> DEFINE g == [i \in 0 .. m |-> IF i = m THEN Resolved(f, names, m) ELSE f[i]]
    <3>4. \A i \in 0 .. m - 1 : g[i] = f[i]
      BY <3>1
    <3>5. \A i \in 0 .. m : Resolved(g, names, i) = Resolved(f, names, i)
      BY <3>1, <3>4 DEF Resolved
    <3>6. \A i \in 0 .. m - 1 : f[i] = Resolved(f, names, i)
      BY <3>3
    <3>7. \A i \in 0 .. m : g[i] = Resolved(g, names, i)
      BY <3>1, <3>4, <3>5, <3>6
    <3>8. Walks(g, m)
      BY <3>7
    <3> QED
      BY <2>4, <3>8
  <2> QED
    BY <2>5, <2>6
<1>2. \E f : Walks(f, Len(names))
  BY <1>1
<1>3. ZplWalk(names) = CHOOSE f : Walks(f, Len(names))
  BY DEF ZplWalk, Resolved
<1> QED
  BY <1>2, <1>3

\* One more name is one more round.
LEMMA WalkOn ==
  ASSUME NEW names \in Seq(Names), NEW name \in Names
  PROVE  ZplWalk(Append(names, name))[Len(names) + 1] =
           IF ZplWalk(names)[Len(names)] = Absent THEN Absent
           ELSE FirstNamed(ListDir(ZplWalk(names)[Len(names)]), name)
<1> DEFINE more == Append(names, name)
           short == ZplWalk(names)
           long == ZplWalk(more)
           Apart == {i \in 0 .. Len(names) : long[i] # short[i]}
<1>1. /\ more \in Seq(Names) /\ Len(more) = Len(names) + 1
      /\ more[Len(names) + 1] = name
      /\ \A i \in 1 .. Len(names) : more[i] = names[i]
      /\ Len(names) \in Nat
  OBVIOUS
<1> HIDE DEF more
<1>2. \A i \in 0 .. Len(names) : short[i] = Resolved(short, names, i)
  <2>1. short = [i \in 0 .. Len(names) |-> Resolved(short, names, i)]
    BY WalkIs
  <2> HIDE DEF short
  <2> QED
    BY <2>1
<1>3. \A i \in 0 .. Len(names) + 1 : long[i] = Resolved(long, more, i)
  <2>1. long = [i \in 0 .. Len(names) + 1 |-> Resolved(long, more, i)]
    BY <1>1, WalkIs
  <2> HIDE DEF long
  <2> QED
    BY <2>1
<1> HIDE DEF short, long
<1>4. Apart = {}
  <2>1. SUFFICES ASSUME Apart # {} PROVE FALSE
    OBVIOUS
  <2>2. PICK m \in Apart : \A n \in Apart : m <= n
    <3>1. Apart \subseteq Nat
      OBVIOUS
    <3> QED
      BY <2>1, <3>1, MinIsLeast
  <2>3. m \in 0 .. Len(names) /\ m \in Nat /\ long[m] # short[m]
    BY <1>1
  <2>4. m # 0
    <3>1. SUFFICES ASSUME m = 0 PROVE FALSE
      OBVIOUS
    <3>2. 0 \in 0 .. Len(names) + 1 /\ 0 \in 0 .. Len(names)
      BY <1>1
    <3>3. long[0] = RootId /\ short[0] = RootId
      BY <1>2, <1>3, <3>2 DEF Resolved
    <3> QED
      BY <2>3, <3>1, <3>3
  <2>5. m - 1 \in 0 .. Len(names) /\ ~ (m <= m - 1)
    BY <1>1, <2>3, <2>4
  <2>6. m - 1 \notin Apart
    <3> HIDE DEF Apart
    <3> QED
      BY <2>2, <2>5, Zenon
  <2>7. long[m - 1] = short[m - 1]
    BY <2>5, <2>6
  <2>8. m \in 0 .. Len(names) + 1 /\ m \in 1 .. Len(names)
    BY <1>1, <2>3, <2>4
  <2>9. Resolved(long, more, m) = Resolved(short, names, m)
    BY <1>1, <2>7, <2>8 DEF Resolved
  <2> QED
    BY <1>2, <1>3, <2>3, <2>8, <2>9
<1>5. long[Len(names)] = short[Len(names)]
  BY <1>1, <1>4
<1>6. long[Len(names) + 1] = Resolved(long, more, Len(names) + 1)
  BY <1>1, <1>3
<1>7. Len(names) + 1 # 0 /\ Len(names) + 1 - 1 = Len(names)
  BY <1>1
<1>8. long[Len(names) + 1] = IF short[Len(names)] = Absent THEN Absent
                            ELSE FirstNamed(ListDir(short[Len(names)]), name)
  BY <1>1, <1>5, <1>6, <1>7 DEF Resolved
<1> QED
  BY <1>8 DEF more, short, long

\* What the client sees depends on the image and the tables only.
LEMMA ImageDecides ==
  ASSUME UNCHANGED image
  PROVE  /\ \A names : ZplWalk(names)' = ZplWalk(names)
         /\ \A obj, i : tables' = tables => Bytes(obj, i)' = Bytes(obj, i)
         /\ \A obj : DirReadable(obj)' = DirReadable(obj)
         /\ \A i \in 1 .. 6 : Made[i]' = Made[i]
<1> USE DEF Dnode, Data, Present
<1>1. \A names : ZplWalk(names)' = ZplWalk(names)
  BY DEF ZplWalk, ListDir, DirReadable, DirEntries, Masked, FirstNamed
<1>2. \A obj, i : tables' = tables => Bytes(obj, i)' = Bytes(obj, i)
  BY DEF Bytes, Content, ReadFileWith, HasAttrs, SizeOf, Xattrs, Shorter
<1>3. \A obj : DirReadable(obj)' = DirReadable(obj)
  BY DEF DirReadable
<1>4. \A i \in 1 .. 6 : Made[i]' = Made[i]
  BY DEF Made, HasUberblock, LabelCells, Chain
<1> QED
  BY <1>1, <1>2, <1>3, <1>4

-----------------------------------------------------------------------------
(***************************************************************************)
(* The invariant.                                                          *)
(***************************************************************************)

\* read_all holds the front of the source (vfs.rs:453-470).
ImageIsFront ==
  /\ Len(image) <= Len(source)
  /\ image = SubSeq(source, 1, Len(image))

\* How many of its hops open has made (vfs.rs:295-346).
Passed ==
  CASE phase = "mos_block" -> 1 [] phase = "mos" -> 2 [] phase = "chain" -> 3
    [] phase = "type" -> 4 [] phase = "root" -> 5 [] phase \in {"tables", "mounted"} -> 6
    [] OTHER -> 0

HopsMade == \A i \in 1 .. Passed : Made[i]

\* A mount that failed names the first hop it could not make.
FirstHopNamed ==
  phase = "failed" /\ stage # "io" =>
    \E i \in 1 .. 6 : stage = Stages[i] /\ ~Made[i] /\ \A j \in 1 .. i - 1 : Made[j]

\* Nothing is asked of a file system that is not mounted.
ClientWaits ==
  /\ phase # "mounted" => path = <<>> /\ node = RootId /\ stream = NoStream
  /\ stream = NoStream => got = <<>> /\ ~ended

\* Step by step and in one call, to the same object.
NodeIsWalked == node = ZplWalk(path)[Len(path)]

\* What was read is the front of the stream, and all of it at its end.
PiecesAreFront ==
  stream # NoStream =>
    IF Bytes(node, stream) = Failure THEN got = <<>>
    ELSE /\ got \in Seq(Nat) /\ Len(got) <= Len(Bytes(node, stream))
         /\ got = SubSeq(Bytes(node, stream), 1, Len(got))
         /\ ended => got = Bytes(node, stream)

MountInv ==
  /\ TypeOK /\ ImageIsFront /\ HopsMade /\ FirstHopNamed
  /\ ClientWaits /\ NodeIsWalked /\ PiecesAreFront

\* A walk of no names ends at the root (zpl.rs:236).
LEMMA RootIsWalked == ZplWalk(<<>>)[0] = RootId
<1> DEFINE walk == ZplWalk(<<>>)
<1>1. <<>> \in Seq(Names) /\ Len(<<>>) = 0
  OBVIOUS
<1>2. walk = [i \in 0 .. 0 |-> Resolved(walk, <<>>, i)]
  BY <1>1, WalkIs
<1> HIDE DEF walk
<1>3. walk[0] = Resolved(walk, <<>>, 0)
  BY <1>2
<1>4. walk[0] = RootId
  BY <1>3 DEF Resolved
<1> QED
  BY <1>4 DEF walk

\* open starts with nothing read (vfs.rs:293).
LEMMA InitInv == Init => MountInv
<1>1. SUFFICES ASSUME Init PROVE MountInv
  OBVIOUS
<1>2. TypeOK
  <2>1. path \in Seq(Names) /\ Len(path) <= MaxPath
    BY <1>1, MaxPathAssumption DEF Init
  <2>2. node \in 0 .. IdBits - 1
    BY <1>1, ObjectsAssumption DEF Init, ObjectsAssumption
  <2>3. /\ source \in Sources /\ phase = "reading" /\ recordSize = 0
        /\ tables = FALSE /\ poolName = FALSE /\ stream = NoStream /\ ended = FALSE
    BY <1>1 DEF Init
  <2>4. 0 \in Nat /\ NoStream \in -1 .. 2
    BY DEF NoStream
  <2> QED
    BY <2>1, <2>2, <2>3, <2>4 DEF TypeOK
<1>3. ImageIsFront
  <2>1. Len(source) \in Nat
    BY <1>1, SourcesAssumption DEF Init, SourcesAssumption
  <2>2. SubSeq(source, 1, 0) = <<>>
    BY <1>1, SourcesAssumption DEF Init, SourcesAssumption
  <2> QED
    BY <1>1, <2>1, <2>2 DEF Init, ImageIsFront
<1>4. HopsMade
  BY <1>1 DEF Init, HopsMade, Passed
<1>5. FirstHopNamed
  BY <1>1 DEF Init, FirstHopNamed
<1>6. ClientWaits /\ PiecesAreFront
  BY <1>1 DEF Init, ClientWaits, PiecesAreFront
<1>7. NodeIsWalked
  BY <1>1, RootIsWalked DEF Init, NodeIsWalked
<1> QED
  BY <1>2, <1>3, <1>4, <1>5, <1>6, <1>7 DEF MountInv

\* What the six hops are.
LEMMA MadeAre ==
  /\ Made[1] = HasUberblock
  /\ Made[2] = (Present(Cell("mos")) \/ Present(Cell("short_mos")))
  /\ Made[3] = Present(Cell("mos"))
  /\ Made[4] = Chain
  /\ Made[5] = Present(Cell("zpl"))
  /\ Made[6] = Present(Cell("master"))
  /\ Made \in [1 .. 6 -> BOOLEAN]
<1>1. /\ HasUberblock \in BOOLEAN /\ Chain \in BOOLEAN
      /\ \A cell : Present(cell) \in BOOLEAN
  BY DEF HasUberblock, Chain, Present
<1>2. \A a, b, c, d, e, f \in BOOLEAN : <<a, b, c, d, e, f>> \in [1 .. 6 -> BOOLEAN]
  OBVIOUS
<1>3. Made \in [1 .. 6 -> BOOLEAN]
  BY <1>1, <1>2, Zenon DEF Made
<1> QED
  BY <1>1, <1>3 DEF Made

\* The first i of six.
LEMMA FrontOf ==
  /\ 1 .. 0 = {}
  /\ \A i \in 1 .. 6 : \A j \in 1 .. i : j \in 1 .. 6 /\ (j \in 1 .. i - 1 \/ j = i)
  OBVIOUS

\* Until the mount is there, the client waits.
LEMMA WaitingStep ==
  ASSUME MountInv, phase # "mounted", UNCHANGED client,
         TypeOK', ImageIsFront', HopsMade', FirstHopNamed'
  PROVE  MountInv'
<1>1. path = <<>> /\ node = RootId /\ stream = NoStream /\ got = <<>> /\ ~ended
  BY DEF MountInv, ClientWaits
<1>2. path' = <<>> /\ node' = RootId /\ stream' = NoStream /\ got' = <<>> /\ ~ended'
  BY <1>1 DEF client
<1>3. ClientWaits'
  BY <1>2 DEF ClientWaits
<1>4. PiecesAreFront'
  BY <1>2 DEF PiecesAreFront
<1>5. (ZplWalk(<<>>)[0] = RootId)'
  BY RootIsWalked, PTL
<1>6. NodeIsWalked'
  <2>1. Len(<<>>) = 0
    OBVIOUS
  <2> QED
    BY <1>2, <1>5, <2>1 DEF NodeIsWalked
<1> QED
  BY <1>3, <1>4, <1>6 DEF MountInv

\* A hop that can be made leads to the phase after it, one that cannot to failure.
LEMMA HopStep ==
  ASSUME MountInv, NEW i \in 1 .. 6, Passed = i - 1, phase # "mounted",
         phase' = "failed" \/ Passed' = i,
         phase' \in {"mos_block", "mos", "chain", "type", "root", "tables", "failed"},
         IF Made[i] THEN phase' # "failed" ELSE phase' = "failed" /\ stage' = Stages[i],
         UNCHANGED <<source, image, tables, poolName, recordSize, client>>
  PROVE  MountInv'
<1>1. TypeOK'
  BY DEF MountInv, TypeOK, client
<1>2. ImageIsFront'
  BY DEF MountInv, ImageIsFront
<1>3. \A j \in 1 .. i - 1 : Made[j]
  BY DEF MountInv, HopsMade
<1>4. \A j \in 1 .. 6 : Made[j]' = Made[j]
  BY ImageDecides
<1>5. HopsMade'
  <2>1. CASE phase' = "failed"
    <3>1. Passed' = 0
      BY <2>1 DEF Passed
    <3> QED
      BY <3>1, FrontOf DEF HopsMade
  <2>2. CASE phase' # "failed"
    <3>1. Passed' = i /\ Made[i]
      BY <2>2
    <3>2. \A j \in 1 .. i : j \in 1 .. 6 /\ (j \in 1 .. i - 1 \/ j = i)
      BY FrontOf, Zenon
    <3>3. \A j \in 1 .. i : Made[j]'
      BY <1>3, <1>4, <3>1, <3>2, Zenon
    <3> QED
      BY <3>1, <3>3 DEF HopsMade
  <2> QED
    BY <2>1, <2>2
<1>6. FirstHopNamed'
  BY <1>3, <1>4 DEF FirstHopNamed
<1> QED
  BY <1>1, <1>2, <1>5, <1>6, WaitingStep

\* A read_exact that gives less than it was asked for is followed by another
\* (read_all, vfs.rs:453-470).
LEMMA FillStep == ASSUME MountInv, Fill PROVE MountInv'
<1>1. PICK n \in Pieces : image' = SubSeq(source, 1, IF Len(image) + n < Len(source)
                                                  THEN Len(image) + n ELSE Len(source))
  BY DEF Fill
<1>2. source \in Seq(Range(source))
  BY SourcesAssumption DEF MountInv, TypeOK, SourcesAssumption
<1>3. Len(source) \in Nat /\ Len(image) \in Nat
  BY <1>2 DEF MountInv, ImageIsFront
<1>4. PICK k \in 0 .. Len(source) : image' = SubSeq(source, 1, k)
  BY <1>1, <1>3, PiecesAssumption DEF PiecesAssumption
<1>5. phase = "reading" /\ UNCHANGED <<source, phase, mount, client>>
  BY DEF Fill, Filling
<1>6. TypeOK'
  BY <1>5 DEF MountInv, TypeOK, mount, client
<1>7. ImageIsFront'
  BY <1>2, <1>4, <1>5 DEF ImageIsFront
<1>8. HopsMade' /\ FirstHopNamed'
  BY <1>5, FrontOf DEF HopsMade, Passed, FirstHopNamed
<1> QED
  BY <1>5, <1>6, <1>7, <1>8, WaitingStep

\* A source that fails ends the mount (vfs.rs:461).
LEMMA FillFailsStep == ASSUME MountInv, FillFails PROVE MountInv'
<1>1. /\ phase = "reading" /\ phase' = "failed" /\ stage' = "io"
      /\ UNCHANGED <<source, image, tables, poolName, recordSize, client>>
  BY DEF FillFails, Filling
<1>2. TypeOK'
  BY <1>1 DEF MountInv, TypeOK, client
<1>3. ImageIsFront'
  BY <1>1 DEF MountInv, ImageIsFront
<1>4. HopsMade' /\ FirstHopNamed'
  BY <1>1, FrontOf DEF HopsMade, Passed, FirstHopNamed
<1> QED
  BY <1>1, <1>2, <1>3, <1>4, WaitingStep

\* The buffer is cut to what was read (vfs.rs:468).
LEMMA FilledStep == ASSUME MountInv, Filled PROVE MountInv'
<1>1. /\ phase = "reading" /\ phase' = "uberblock"
      /\ UNCHANGED <<source, image, mount, client>>
  BY DEF Filled
<1>2. TypeOK'
  BY <1>1 DEF MountInv, TypeOK, mount, client
<1>3. ImageIsFront'
  BY <1>1 DEF MountInv, ImageIsFront
<1>4. HopsMade' /\ FirstHopNamed'
  BY <1>1, FrontOf DEF HopsMade, Passed, FirstHopNamed
<1> QED
  BY <1>1, <1>2, <1>3, <1>4, WaitingStep

\* Each stage of open is a hop (vfs.rs:295-346).
LEMMA StageStep ==
  ASSUME MountInv,
         FindUberblock \/ ReadMos \/ ParseMos \/ ResolveZpl \/ CheckType \/ FindRoot
  PROVE  MountInv'
<1>1. CASE FindUberblock
  <2>1. /\ phase = "uberblock"
        /\ UNCHANGED <<source, image, tables, poolName, recordSize, client>>
    BY <1>1 DEF FindUberblock, Hop
  <2>2. IF Made[1] THEN phase' = "mos_block" ELSE phase' = "failed" /\ stage' = "uberblock_ring"
    BY <1>1, MadeAre DEF FindUberblock, Hop
  <2>3. /\ Passed = 1 - 1 /\ phase # "mounted"
        /\ phase' = "failed" \/ Passed' = 1
        /\ phase' \in {"mos_block", "mos", "chain", "type", "root", "tables", "failed"}
    BY <2>1, <2>2 DEF Passed
  <2>4. IF Made[1] THEN phase' # "failed" ELSE phase' = "failed" /\ stage' = Stages[1]
    BY <2>2 DEF Stages
  <2> QED
    BY <2>1, <2>3, <2>4, 1 \in 1 .. 6, HopStep
<1>2. CASE ReadMos
  <2>1. /\ phase = "mos_block"
        /\ UNCHANGED <<source, image, tables, poolName, recordSize, client>>
    BY <1>2 DEF ReadMos, Hop
  <2>2. IF Made[2] THEN phase' = "mos" ELSE phase' = "failed" /\ stage' = "MOS_block"
    BY <1>2, MadeAre DEF ReadMos, Hop
  <2>3. /\ Passed = 2 - 1 /\ phase # "mounted"
        /\ phase' = "failed" \/ Passed' = 2
        /\ phase' \in {"mos_block", "mos", "chain", "type", "root", "tables", "failed"}
    BY <2>1, <2>2 DEF Passed
  <2>4. IF Made[2] THEN phase' # "failed" ELSE phase' = "failed" /\ stage' = Stages[2]
    BY <2>2 DEF Stages
  <2> QED
    BY <2>1, <2>3, <2>4, 2 \in 1 .. 6, HopStep
<1>3. CASE ParseMos
  <2>1. /\ phase = "mos"
        /\ UNCHANGED <<source, image, tables, poolName, recordSize, client>>
    BY <1>3 DEF ParseMos, Hop
  <2>2. IF Made[3] THEN phase' = "chain" ELSE phase' = "failed" /\ stage' = "MOS_objset"
    BY <1>3, MadeAre DEF ParseMos, Hop
  <2>3. /\ Passed = 3 - 1 /\ phase # "mounted"
        /\ phase' = "failed" \/ Passed' = 3
        /\ phase' \in {"mos_block", "mos", "chain", "type", "root", "tables", "failed"}
    BY <2>1, <2>2 DEF Passed
  <2>4. IF Made[3] THEN phase' # "failed" ELSE phase' = "failed" /\ stage' = Stages[3]
    BY <2>2 DEF Stages
  <2> QED
    BY <2>1, <2>3, <2>4, 3 \in 1 .. 6, HopStep
<1>4. CASE ResolveZpl
  <2>1. /\ phase = "chain"
        /\ UNCHANGED <<source, image, tables, poolName, recordSize, client>>
    BY <1>4 DEF ResolveZpl, Hop
  <2>2. IF Made[4] THEN phase' = "type" ELSE phase' = "failed" /\ stage' = "root_dataset_chain"
    BY <1>4, MadeAre DEF ResolveZpl, Hop
  <2>3. /\ Passed = 4 - 1 /\ phase # "mounted"
        /\ phase' = "failed" \/ Passed' = 4
        /\ phase' \in {"mos_block", "mos", "chain", "type", "root", "tables", "failed"}
    BY <2>1, <2>2 DEF Passed
  <2>4. IF Made[4] THEN phase' # "failed" ELSE phase' = "failed" /\ stage' = Stages[4]
    BY <2>2 DEF Stages
  <2> QED
    BY <2>1, <2>3, <2>4, 4 \in 1 .. 6, HopStep
<1>5. CASE CheckType
  <2>1. /\ phase = "type"
        /\ UNCHANGED <<source, image, tables, poolName, recordSize, client>>
    BY <1>5 DEF CheckType, Hop
  <2>2. IF Made[5] THEN phase' = "root" ELSE phase' = "failed" /\ stage' = "objset_type"
    BY <1>5, MadeAre DEF CheckType, Hop
  <2>3. /\ Passed = 5 - 1 /\ phase # "mounted"
        /\ phase' = "failed" \/ Passed' = 5
        /\ phase' \in {"mos_block", "mos", "chain", "type", "root", "tables", "failed"}
    BY <2>1, <2>2 DEF Passed
  <2>4. IF Made[5] THEN phase' # "failed" ELSE phase' = "failed" /\ stage' = Stages[5]
    BY <2>2 DEF Stages
  <2> QED
    BY <2>1, <2>3, <2>4, 5 \in 1 .. 6, HopStep
<1>6. CASE FindRoot
  <2>1. /\ phase = "root"
        /\ UNCHANGED <<source, image, tables, poolName, recordSize, client>>
    BY <1>6 DEF FindRoot, Hop
  <2>2. IF Made[6] THEN phase' = "tables" ELSE phase' = "failed" /\ stage' = "ROOT_entry"
    BY <1>6, MadeAre DEF FindRoot, Hop
  <2>3. /\ Passed = 6 - 1 /\ phase # "mounted"
        /\ phase' = "failed" \/ Passed' = 6
        /\ phase' \in {"mos_block", "mos", "chain", "type", "root", "tables", "failed"}
    BY <2>1, <2>2 DEF Passed
  <2>4. IF Made[6] THEN phase' # "failed" ELSE phase' = "failed" /\ stage' = Stages[6]
    BY <2>2 DEF Stages
  <2> QED
    BY <2>1, <2>3, <2>4, 6 \in 1 .. 6, HopStep
<1> QED
  BY <1>1, <1>2, <1>3, <1>4, <1>5, <1>6

\* The rest of open degrades and does not fail (vfs.rs:348-367).
LEMMA MountStep == ASSUME MountInv, Mount PROVE MountInv'
<1>1. /\ phase = "tables" /\ phase' = "mounted"
      /\ UNCHANGED <<source, image, stage, client>>
  BY DEF Mount
<1>2. TypeOK'
  <2>1. /\ recordSize' = IF Dnode(RootId) THEN Objects[RootId].blockSize ELSE 0
        /\ tables' = SaContext /\ poolName' = PoolConfig
    BY DEF Mount
  <2>2. recordSize' \in Nat
    BY <2>1, ObjectIs DEF Dnode
  <2>3. tables' \in BOOLEAN /\ poolName' \in BOOLEAN
    BY <2>1 DEF SaContext, PoolConfig
  <2>4. UNCHANGED <<source, path, node, stream, ended>>
    BY <1>1 DEF client
  <2> QED
    BY <1>1, <2>2, <2>3, <2>4 DEF MountInv, TypeOK
<1>3. ImageIsFront'
  BY <1>1 DEF MountInv, ImageIsFront
<1>4. HopsMade'
  <2>1. Passed = 6 /\ Passed' = 6
    BY <1>1 DEF Passed
  <2>2. \A i \in 1 .. 6 : Made[i]' = Made[i]
    BY <1>1, ImageDecides
  <2> QED
    BY <2>1, <2>2 DEF MountInv, HopsMade
<1>5. FirstHopNamed'
  BY <1>1 DEF FirstHopNamed
<1> QED
  BY <1>1, <1>2, <1>3, <1>4, <1>5, WaitingStep

\* What a client does leaves the mount as it is (ZfsFs's methods take &self,
\* vfs.rs:489-725).
LEMMA ClientStep ==
  ASSUME MountInv, phase = "mounted", UNCHANGED <<source, image, phase, mount>>,
         path' \in Seq(Names), Len(path') <= MaxPath,
         node' \in {Absent} \cup 0 .. IdBits - 1, stream' \in -1 .. 2, ended' \in BOOLEAN,
         stream' = NoStream => got' = <<>> /\ ~ended',
         NodeIsWalked', PiecesAreFront'
  PROVE  MountInv'
<1>1. TypeOK'
  BY DEF MountInv, TypeOK, mount
<1>2. ImageIsFront'
  BY DEF MountInv, ImageIsFront
<1>3. HopsMade'
  <2>1. Passed' = Passed /\ Passed = 6
    BY DEF Passed
  <2>2. \A i \in 1 .. 6 : Made[i]' = Made[i]
    BY ImageDecides
  <2> QED
    BY <2>1, <2>2 DEF MountInv, HopsMade
<1>4. FirstHopNamed'
  BY DEF FirstHopNamed
<1>5. ClientWaits'
  BY DEF ClientWaits
<1> QED
  BY <1>1, <1>2, <1>3, <1>4, <1>5 DEF MountInv

\* A directory that cannot be read has no names (zpl.rs:99-104).
LEMMA NoneNamed == \A name : FirstNamed(<<>>, name) = Absent
  BY DEF FirstNamed

\* lookup goes where the loop of zpl_lookup goes (vfs.rs:561-568, zpl.rs:237-242).
LEMMA LookupIsWalk ==
  ASSUME NEW obj, NEW name
  PROVE  Lookup(obj, name) = FirstNamed(ListDir(obj), name)
  BY NoneNamed DEF Lookup, ListDir, DirEntries

\* One more name looked up (vfs.rs:561-568).
LEMMA StepStep == ASSUME MountInv, Step PROVE MountInv'
<1>1. /\ phase = "mounted" /\ Len(path) < MaxPath /\ node # Absent /\ stream = NoStream
      /\ UNCHANGED <<source, image, phase, mount, stream, got, ended>>
  BY DEF Step, Mounted
<1>2. PICK name \in Names : path' = Append(path, name) /\ node' = Lookup(node, name)
  BY DEF Step
<1>3. path \in Seq(Names) /\ stream \in -1 .. 2 /\ ended \in BOOLEAN
  BY DEF MountInv, TypeOK
<1>4. /\ path' \in Seq(Names) /\ Len(path') <= MaxPath
      /\ Len(path') = Len(path) + 1
  BY <1>1, <1>2, <1>3, MaxPathAssumption
<1>5. node' \in {Absent} \cup 0 .. IdBits - 1
  BY <1>2, FoundIsObject DEF Lookup
<1>6. stream' = NoStream /\ got' = <<>> /\ ~ended'
  BY <1>1 DEF MountInv, ClientWaits
<1>7. NodeIsWalked'
  <2>1. node = ZplWalk(path)[Len(path)]
    BY DEF MountInv, NodeIsWalked
  <2>2. ZplWalk(Append(path, name))[Len(path) + 1] = FirstNamed(ListDir(node), name)
    BY <1>1, <1>3, <2>1, WalkOn, Zenon
  <2>3. ZplWalk(path') = ZplWalk(Append(path, name)) /\ ZplWalk(path)' = ZplWalk(path')
    BY <1>1, <1>2, ImageDecides
  <2> QED
    BY <1>2, <1>4, <2>2, <2>3, LookupIsWalk DEF NodeIsWalked
<1>8. PiecesAreFront'
  BY <1>6 DEF PiecesAreFront
<1>9. stream' \in -1 .. 2 /\ ended' \in BOOLEAN
  BY <1>1, <1>3
<1> QED
  BY <1>1, <1>4, <1>5, <1>6, <1>7, <1>8, <1>9, ClientStep

\* A front of a sequence is one.
LEMMA FrontType ==
  ASSUME NEW S, NEW s \in Seq(S), NEW n \in Nat
  PROVE  /\ Shorter(s, n) \in Seq(S)
         /\ Len(Shorter(s, n)) = IF n < Len(s) THEN n ELSE Len(s)
  BY DEF Shorter

\* A stream that can be read is bytes (data_streams and read_at, vfs.rs:630-692).
LEMMA BytesType ==
  ASSUME NEW obj, NEW i \in 0 .. 2
  PROVE  Bytes(obj, i) = Failure \/ Bytes(obj, i) \in Seq(Nat)
<1>1. CASE i = 0
  <2>1. Bytes(obj, i) = ReadFileWith(obj, HasAttrs(obj), SizeOf(obj))
    BY <1>1 DEF Bytes, Content
  <2>2. CASE ~Dnode(obj) \/ ~Data(obj) \/ Objects[obj].blockSize = 0
    BY <2>1, <2>2 DEF ReadFileWith
  <2>3. CASE Dnode(obj) /\ Data(obj) /\ Objects[obj].blockSize # 0
    <3>1. obj \in DOMAIN Objects
      BY <2>3 DEF Dnode
    <3>2. Objects[obj].blocks \in Seq(Nat) /\ SizeOf(obj) \in Nat
      BY <3>1, ObjectIs DEF SizeOf
    <3>3. Shorter(Objects[obj].blocks, SizeOf(obj)) \in Seq(Nat)
      BY <3>2, FrontType
    <3> QED
      BY <2>1, <2>3, <3>2, <3>3 DEF ReadFileWith
  <2> QED
    BY <2>2, <2>3
<1>2. CASE i # 0
  <2>1. Xattrs(obj) \in Seq(Seq(Nat))
    BY ObjectIs DEF Xattrs, Dnode
  <2>2. Bytes(obj, i) = IF i <= Len(Xattrs(obj)) THEN Xattrs(obj)[i] ELSE Failure
    BY <1>2 DEF Bytes
  <2>3. i \in 1 .. Len(Xattrs(obj)) => Xattrs(obj)[i] \in Seq(Nat)
    BY <2>1
  <2>4. i <= Len(Xattrs(obj)) => i \in 1 .. Len(Xattrs(obj))
    BY <1>2, <2>1
  <2> QED
    BY <2>2, <2>3, <2>4
<1> QED
  BY <1>1, <1>2

\* An error is not a sequence of bytes.
LEMMA FailureIsNoBytes == Failure \notin Seq(Nat)
<1>1. Failure[1] \notin Nat /\ Len(Failure) = 1
  BY DEF Failure
<1>2. \A s \in Seq(Nat) : \A i \in 1 .. Len(s) : s[i] \in Nat
  OBVIOUS
<1>3. 1 \in 1 .. 1
  OBVIOUS
<1> QED
  BY <1>1, <1>2, <1>3, Zenon

\* A piece behind the front of a stream makes a longer front; one that is empty
\* comes at the end (read_at, vfs.rs:657-692).
LEMMA NextPiece ==
  ASSUME NEW b \in Seq(Nat), NEW k \in 0 .. Len(b), NEW n \in Nat \ {0},
         NEW piece, piece = Shorter(SubSeq(b, k + 1, Len(b)), n)
  PROVE  /\ piece \in Seq(Nat)
         /\ SubSeq(b, 1, k) \o piece = SubSeq(b, 1, Len(SubSeq(b, 1, k) \o piece))
         /\ Len(SubSeq(b, 1, k) \o piece) <= Len(b)
         /\ piece = <<>> => k = Len(b)
<1> DEFINE rest == SubSeq(b, k + 1, Len(b))
           m == IF n < Len(rest) THEN n ELSE Len(rest)
<1>1. /\ rest \in Seq(Nat) /\ Len(rest) = Len(b) - k
      /\ \A i \in 1 .. Len(rest) : rest[i] = b[k + i]
  <2>1. k \in Nat /\ Len(b) \in Nat /\ k <= Len(b)
    OBVIOUS
  <2>2. rest \in Seq(Nat) /\ Len(rest) = Len(b) - k
    BY <2>1
  <2>3. \A i \in 1 .. Len(b) - k : rest[i] = b[k + i]
    BY <2>1
  <2> QED
    BY <2>2, <2>3
<1>2. Len(rest) \in Nat /\ m \in Nat /\ m <= Len(rest) /\ k + m <= Len(b)
  BY <1>1
<1> HIDE DEF rest
<1>3. /\ piece \in Seq(Nat) /\ Len(piece) = m
      /\ \A i \in 1 .. m : piece[i] = rest[i]
  BY <1>1, <1>2, SMTT(30) DEF Shorter, rest
<1> HIDE DEF m
<1> DEFINE passed == SubSeq(b, 1, k)
<1>7. /\ passed \in Seq(Nat) /\ Len(passed) = k /\ k \in Nat
      /\ \A i \in 1 .. k : passed[i] = b[i]
  OBVIOUS
<1> HIDE DEF passed
<1>8. /\ passed \o piece \in Seq(Nat)
      /\ Len(passed \o piece) = k + m
      /\ \A i \in 1 .. k + m :
           (passed \o piece)[i] = IF i <= k THEN passed[i] ELSE piece[i - k]
  <2>1. /\ passed \o piece \in Seq(Nat)
        /\ Len(passed \o piece) = Len(passed) + Len(piece)
        /\ \A i \in 1 .. Len(passed) + Len(piece) :
             (passed \o piece)[i] = IF i <= Len(passed) THEN passed[i] ELSE piece[i - Len(passed)]
    <3>1. passed \in Seq(Nat) /\ piece \in Seq(Nat)
      BY <1>3, <1>7
    <3> QED
      BY <3>1, ConcatProperties, Zenon
  <2> QED
    BY <1>3, <1>7, <2>1, ZenonT(30)
<1>4. SubSeq(b, 1, k) \o piece = SubSeq(b, 1, k + m)
  <2>1. ASSUME NEW i \in 1 .. k + m PROVE (passed \o piece)[i] = b[i]
    <3>1. CASE i <= k
      BY <1>2, <1>7, <1>8, <3>1
    <3>2. CASE i > k
      <4>1. i - k \in 1 .. m /\ i - k \in 1 .. Len(rest) /\ k + (i - k) = i
        BY <1>2, <1>7, <3>2
      <4>2. (passed \o piece)[i] = piece[i - k]
        BY <1>2, <1>7, <1>8, <3>2, SMTT(30)
      <4> QED
        BY <1>1, <1>3, <4>1, <4>2
    <3>3. i <= k \/ i > k
      BY <1>2, <1>7
    <3> QED
      BY <3>1, <3>2, <3>3
  <2>2. /\ SubSeq(b, 1, k + m) \in Seq(Nat) /\ Len(SubSeq(b, 1, k + m)) = k + m
        /\ \A i \in 1 .. k + m : SubSeq(b, 1, k + m)[i] = b[i]
    BY <1>2, <1>7
  <2>3. passed \o piece = SubSeq(b, 1, k + m)
    BY <1>8, <2>1, <2>2, SeqEqual
  <2> QED
    BY <2>3 DEF passed
<1>5. Len(SubSeq(b, 1, k) \o piece) = k + m
  BY <1>8 DEF passed
<1>6. piece = <<>> => k = Len(b)
  BY <1>1, <1>2, <1>3 DEF m
<1> QED
  BY <1>2, <1>3, <1>4, <1>5, <1>6

\* A stream is opened at its start (data_streams, vfs.rs:630-655).
LEMMA OpenStep == ASSUME MountInv, OpenStream PROVE MountInv'
<1>1. /\ phase = "mounted" /\ stream = NoStream
      /\ UNCHANGED <<source, image, phase, mount, path, node, got, ended>>
      /\ stream' \in 0 .. 2
  BY DEF OpenStream, Mounted
<1>2. got = <<>> /\ ~ended
  BY <1>1 DEF MountInv, ClientWaits
<1>3. /\ path' \in Seq(Names) /\ Len(path') <= MaxPath
      /\ node' \in {Absent} \cup 0 .. IdBits - 1 /\ ended' \in BOOLEAN
  BY <1>1 DEF MountInv, TypeOK
<1>4. stream' \in -1 .. 2 /\ stream' # NoStream
  BY <1>1 DEF NoStream
<1>5. NodeIsWalked'
  BY <1>1, ImageDecides DEF MountInv, NodeIsWalked
<1>6. PiecesAreFront'
  <2>1. got' = <<>> /\ ~ended'
    BY <1>1, <1>2
  <2>2. Bytes(node', stream') = Bytes(node, stream')
    BY <1>1
  <2>3. Bytes(node, stream)' = Bytes(node', stream')
    BY <1>1, ImageDecides DEF mount
  <2>4. CASE Bytes(node, stream)' = Failure
    BY <2>1, <2>4 DEF PiecesAreFront
  <2>5. CASE Bytes(node, stream)' # Failure
    <3>1. Bytes(node', stream') \in Seq(Nat)
      BY <1>1, <2>3, <2>5, BytesType
    <3>2. /\ <<>> \in Seq(Nat) /\ Len(<<>>) = 0
          /\ \A b \in Seq(Nat) : SubSeq(b, 1, 0) = <<>> /\ 0 <= Len(b)
      OBVIOUS
    <3> QED
      BY <2>1, <2>3, <2>5, <3>1, <3>2 DEF PiecesAreFront
  <2> QED
    BY <2>4, <2>5
<1> QED
  BY <1>1, <1>3, <1>4, <1>5, <1>6, ClientStep

\* A read continues where the one before it ended (read_at, vfs.rs:657-692).
LEMMA ReadStep == ASSUME MountInv, Read PROVE MountInv'
<1>1. /\ phase = "mounted" /\ stream # NoStream /\ ~ended
      /\ UNCHANGED <<source, image, phase, mount, path, node, stream>>
  BY DEF Read, Mounted
<1> DEFINE b == Bytes(node, stream)
<1>2. PICK n \in Pieces :
        /\ got' = IF ReadAt(node, stream, Len(got), n) = Failure THEN got
                  ELSE got \o ReadAt(node, stream, Len(got), n)
        /\ ended' = (ReadAt(node, stream, Len(got), n) \in {Failure, <<>>})
  BY DEF Read
<1>3. /\ path' \in Seq(Names) /\ Len(path') <= MaxPath
      /\ node' \in {Absent} \cup 0 .. IdBits - 1 /\ stream' \in -1 .. 2
      /\ stream \in 0 .. 2
  BY <1>1 DEF MountInv, TypeOK, NoStream
<1>4. ended' \in BOOLEAN
  BY <1>2
<1>5. NodeIsWalked'
  BY <1>1, ImageDecides DEF MountInv, NodeIsWalked
<1>6. Bytes(node, stream)' = b
  BY <1>1, ImageDecides DEF mount
<1>7. PiecesAreFront'
  <2>1. CASE b = Failure
    <3>1. ReadAt(node, stream, Len(got), n) = Failure /\ got = <<>>
      BY <1>1, <2>1 DEF ReadAt, MountInv, PiecesAreFront
    <3> QED
      BY <1>2, <1>6, <2>1, <3>1 DEF PiecesAreFront
  <2>2. CASE b # Failure
    <3>1. b \in Seq(Nat)
      BY <1>3, <2>2, BytesType
    <3>2. got \in Seq(Nat) /\ Len(got) <= Len(b) /\ got = SubSeq(b, 1, Len(got))
      BY <1>1, <2>2 DEF MountInv, PiecesAreFront
    <3> HIDE DEF b
    <3> DEFINE k == Len(got)
               piece == Shorter(SubSeq(b, k + 1, Len(b)), n)
    <3>3. k \in 0 .. Len(b)
      <4>1. Len(got) \in Nat /\ Len(b) \in Nat
        BY <3>1, <3>2
      <4> QED
        BY <3>2, <4>1
    <3>4. ReadAt(node, stream, Len(got), n) = piece
      BY <2>2, <3>1, <3>3 DEF ReadAt, b
    <3>5. n \in Nat \ {0}
      BY PiecesAssumption DEF PiecesAssumption
    <3> HIDE DEF k
    <3>6. /\ piece \in Seq(Nat)
          /\ SubSeq(b, 1, k) \o piece = SubSeq(b, 1, Len(SubSeq(b, 1, k) \o piece))
          /\ Len(SubSeq(b, 1, k) \o piece) <= Len(b)
          /\ piece = <<>> => k = Len(b)
      BY <3>1, <3>3, <3>5, NextPiece
    <3> HIDE DEF piece
    <3>7. piece # Failure
      BY <3>6, FailureIsNoBytes
    <3>8. got = SubSeq(b, 1, k)
      BY <3>2 DEF k
    <3>9. got' = SubSeq(b, 1, k) \o piece /\ (ended' => piece = <<>>)
      BY <1>2, <3>4, <3>7, <3>8, Zenon
    <3>10. ended' => got' = b
      <4>1. SUFFICES ASSUME piece = <<>> PROVE got' = b
        BY <3>9
      <4>2. \A s \in Seq(Nat) : SubSeq(s, 1, Len(s)) \o <<>> = s
        OBVIOUS
      <4> QED
        BY <3>1, <3>6, <3>9, <4>1, <4>2
    <3>11. got' \in Seq(Nat)
      <4>1. \A s, t \in Seq(Nat) : s \o t \in Seq(Nat)
        OBVIOUS
      <4> QED
        BY <3>2, <3>6, <3>8, <3>9, <4>1
    <3> QED
      BY <1>6, <2>2, <3>6, <3>9, <3>10, <3>11 DEF PiecesAreFront
  <2> QED
    BY <2>1, <2>2
<1>8. stream' # NoStream
  BY <1>1
<1> QED
  BY <1>1, <1>3, <1>4, <1>5, <1>7, <1>8, ClientStep

\* The invariant of the mount and its client.
LEMMA MountInvariant == Spec => []MountInv
<1>1. Init => MountInv
  BY InitInv
<1>2. MountInv /\ [Next]_vars => MountInv'
  <2>1. SUFFICES ASSUME MountInv, [Next]_vars PROVE MountInv'
    OBVIOUS
  <2>2. CASE Fill
    BY <2>1, <2>2, FillStep
  <2>3. CASE FillFails
    BY <2>1, <2>3, FillFailsStep
  <2>4. CASE Filled
    BY <2>1, <2>4, FilledStep
  <2>5. CASE FindUberblock \/ ReadMos \/ ParseMos \/ ResolveZpl \/ CheckType \/ FindRoot
    BY <2>1, <2>5, StageStep
  <2>6. CASE Mount
    BY <2>1, <2>6, MountStep
  <2>7. CASE Step
    BY <2>1, <2>7, StepStep
  <2>8. CASE OpenStream
    BY <2>1, <2>8, OpenStep
  <2>9. CASE Read
    BY <2>1, <2>9, ReadStep
  <2>10. CASE Rest \/ UNCHANGED vars
    <3>1. UNCHANGED vars
      BY <2>10 DEF Rest
    <3>2. UNCHANGED <<source, image, phase, stage, tables, poolName, recordSize,
                      path, node, stream, got, ended>>
      BY <3>1 DEF vars, mount, client
    <3>3. \A i \in 1 .. 6 : Made[i]' = Made[i]
      BY <3>2, ImageDecides
    <3>4. TypeOK' /\ ImageIsFront' /\ ClientWaits'
      BY <2>1, <3>2 DEF MountInv, TypeOK, ImageIsFront, ClientWaits
    <3>5. HopsMade'
      <4>1. Passed \in 0 .. 6 /\ Passed' = Passed
        BY <3>2 DEF Passed
      <4>2. \A i \in 1 .. Passed : i \in 1 .. 6
        BY <4>1
      <4> QED
        BY <2>1, <3>3, <4>1, <4>2, Zenon DEF MountInv, HopsMade
    <3>6. FirstHopNamed'
      <4>1. \A i \in 1 .. 6 : \A j \in 1 .. i - 1 : j \in 1 .. 6
        OBVIOUS
      <4> QED
        BY <2>1, <3>2, <3>3, <4>1, Zenon DEF MountInv, FirstHopNamed
    <3>7. NodeIsWalked' /\ PiecesAreFront'
      BY <2>1, <3>2, ImageDecides DEF MountInv, NodeIsWalked, PiecesAreFront
    <3> QED
      BY <3>4, <3>5, <3>6, <3>7 DEF MountInv
  <2> QED
    BY <2>1, <2>2, <2>3, <2>4, <2>5, <2>6, <2>7, <2>8, <2>9, <2>10 DEF Next
<1> QED
  BY <1>1, <1>2, PTL DEF Spec

-----------------------------------------------------------------------------
(***************************************************************************)
(* What follows from it.                                                   *)
(***************************************************************************)

\* The hop a failed mount names is the first one missing (vfs.rs:295-346).
LEMMA InvFollowsChain == MountInv => MountFollowsChain
<1>1. SUFFICES ASSUME MountInv PROVE MountFollowsChain
  OBVIOUS
<1>2. IsPrefix(image, source)
  <2>1. source \in Seq(Range(source))
    BY <1>1, SourcesAssumption DEF MountInv, TypeOK, SourcesAssumption
  <2>2. Len(image) <= Len(source) /\ image = SubSeq(source, 1, Len(image))
    BY <1>1 DEF MountInv, ImageIsFront
  <2>3. Len(image) \in Nat /\ SubSeq(image, 1, Len(image)) = image
    BY <2>1, <2>2
  <2> QED
    BY <2>2, <2>3 DEF IsPrefix
<1>3. DOMAIN Made = 1 .. 6 /\ Broken = {i \in 1 .. 6 : ~Made[i]}
  BY MadeAre DEF Broken
<1>4. phase = "mounted" => Broken = {}
  <2>1. phase = "mounted" => \A i \in 1 .. 6 : Made[i]
    BY <1>1 DEF MountInv, HopsMade, Passed
  <2> QED
    BY <1>3, <2>1, Zenon
<1>5. ASSUME phase = "failed" /\ stage # "io"
      PROVE  Broken # {} /\ stage = Stages[Min(Broken)]
  <2>1. PICK i \in 1 .. 6 : stage = Stages[i] /\ ~Made[i] /\ \A j \in 1 .. i - 1 : Made[j]
    BY <1>1, <1>5 DEF MountInv, FirstHopNamed
  <2>2. i \in Broken
    BY <1>3, <2>1, Zenon
  <2>3. Broken \subseteq Nat /\ Broken \subseteq 1 .. 6
    BY <1>3
  <2>4. Min(Broken) \in Broken /\ \A j \in Broken : Min(Broken) <= j
    BY <2>2, <2>3, MinIsLeast
  <2>5. Min(Broken) \in 1 .. 6 /\ Min(Broken) <= i
    BY <2>2, <2>3, <2>4
  <2>6. Min(Broken) \notin 1 .. i - 1
    BY <1>3, <2>1, <2>4, Zenon
  <2>7. Min(Broken) = i
    BY <2>5, <2>6
  <2> QED
    BY <2>1, <2>2, <2>7
<1> QED
  BY <1>2, <1>4, <1>5 DEF MountFollowsChain

\* What read_at gave together is what the one read of zpl_read_path and of
\* read_link give (zpl.rs:255-262, vfs.rs:694-709).
LEMMA InvReassembles == MountInv => ReadsReassemble
<1>1. SUFFICES ASSUME MountInv PROVE ReadsReassemble
  OBVIOUS
<1> DEFINE b == Bytes(node, stream)
<1>2. TypeOK /\ PiecesAreFront /\ ClientWaits /\ NodeIsWalked
  BY <1>1 DEF MountInv
<1>3. stream # NoStream /\ got # <<>> => IsPrefix(got, b)
  <2>1. SUFFICES ASSUME stream # NoStream, got # <<>> PROVE IsPrefix(got, b)
    OBVIOUS
  <2>2. got \in Seq(Nat) /\ Len(got) <= Len(b) /\ got = SubSeq(b, 1, Len(got))
    BY <1>2, <2>1 DEF PiecesAreFront
  <2>3. SubSeq(got, 1, Len(got)) = got
    BY <2>2
  <2> QED
    BY <2>2, <2>3 DEF IsPrefix
<1>4. ASSUME ended, b # Failure
      PROVE  /\ got = b
             /\ Honest(node) /\ HasAttrs(node) => Len(got) = StreamSize(node)[stream]
             /\ stream = 0 /\ ReadPath(path) # Failure => ReadPath(path) = got
             /\ stream = 0 => \A n \in Pieces : ReadLink(node, n) \in {<<>>, Shorter(got, n)}
  <2>1. stream # NoStream
    BY <1>2, <1>4 DEF ClientWaits
  <2>2. stream \in 0 .. 2
    BY <1>2, <2>1 DEF TypeOK, NoStream
  <2>3. got = b
    BY <1>2, <1>4, <2>1 DEF PiecesAreFront
  <2>4. stream = 0 => b = Content(node)
    BY DEF Bytes
  <2>5. stream # 0 => stream <= Len(Xattrs(node)) /\ b = Xattrs(node)[stream]
    BY <1>4 DEF Bytes
  <2>6. ASSUME Honest(node), HasAttrs(node) PROVE Len(got) = StreamSize(node)[stream]
    <3>1. Xattrs(node) \in Seq(Seq(Nat))
      BY ObjectIs DEF Xattrs, Dnode
    <3>2. stream \in 0 .. Len(Xattrs(node))
      BY <2>2, <2>5, <3>1
    <3>3. StreamSize(node)[stream] = IF stream = 0 THEN SizeOf(node) ELSE Len(Xattrs(node)[stream])
      BY <3>2 DEF StreamSize
    <3>4. CASE stream # 0
      BY <2>3, <2>5, <3>3, <3>4
    <3>5. CASE stream = 0
      <4>1. node \in DOMAIN Objects /\ SizeOf(node) = Objects[node].size
        BY <2>6 DEF HasAttrs, Dnode, SizeOf
      <4>2. /\ Objects[node].size \in Nat /\ Objects[node].blocks \in Seq(Nat)
            /\ Objects[node].size <= Len(Objects[node].blocks)
        BY <2>6, <4>1, ObjectIs DEF Honest
      <4>3. b = Shorter(Objects[node].blocks, Objects[node].size)
        BY <1>4, <2>4, <2>6, <3>5, <4>1 DEF Content, ReadFileWith
      <4>4. Len(b) = Objects[node].size
        BY <4>2, <4>3, FrontType
      <4> QED
        BY <2>3, <3>3, <3>5, <4>1, <4>4
    <3> QED
      BY <3>4, <3>5
  <2>7. ASSUME stream = 0, ReadPath(path) # Failure PROVE ReadPath(path) = got
    <3>1. ZplLookup(path) = node /\ HasAttrs(node)
      BY <1>2, <2>7 DEF ReadPath, ZplLookup, NodeIsWalked
    <3>2. ReadPath(path) = ReadFileWith(node, TRUE, SizeOf(node))
      BY <2>7, <3>1 DEF ReadPath
    <3>3. Content(node) = ReadFileWith(node, TRUE, SizeOf(node))
      BY <3>1 DEF Content, ReadFileWith
    <3> QED
      BY <2>3, <2>4, <2>7, <3>2, <3>3
  <2>8. ASSUME stream = 0, NEW n \in Pieces
        PROVE  ReadLink(node, n) \in {<<>>, Shorter(got, n)}
    BY <1>4, <2>3, <2>4, <2>8 DEF ReadLink
  <2> QED
    BY <2>3, <2>6, <2>7, <2>8
<1> QED
  BY <1>3, <1>4 DEF ReadsReassemble

\* The steps of a client and zpl_lookup end at the same object
\* (vfs.rs:561-568, zpl.rs:232-246).
LEMMA InvPathsAgree == MountInv => PathsAgree
<1>1. SUFFICES ASSUME MountInv, phase = "mounted" PROVE PathsAgree
  BY DEF PathsAgree
<1>2. node = ZplWalk(path)[Len(path)]
  BY <1>1 DEF MountInv, NodeIsWalked
<1>3. ZplLookup(path) # Absent => ZplLookup(path) = node
  BY <1>2 DEF ZplLookup
<1>4. node # Absent /\ tables /\ HasAttrs(node) => ZplLookup(path) = node
  BY <1>2 DEF ZplLookup
<1> QED
  BY <1>3, <1>4 DEF PathsAgree

\* The mount and its client keep to their types: an object id has no type bits
\* left (vfs.rs:563-567).
THEOREM MountTypes == Spec => []TypeOK
<1>1. MountInv => TypeOK
  BY DEF MountInv
<1> QED
  BY <1>1, MountInvariant, PTL

\* However a source is cut up and wherever it fails, open works on its front
\* and fails at the first hop that is missing, naming it (vfs.rs:292-346).
THEOREM OpenFollowsChain == Spec => []MountFollowsChain
  BY InvFollowsChain, MountInvariant, PTL

\* For every stream and every cut of it into pieces, the pieces are the stream
\* (read_at, data_streams, read_link, zpl_read_path; vfs.rs:630-709).
THEOREM PiecesAreTheStream == Spec => []ReadsReassemble
  BY InvReassembles, MountInvariant, PTL

\* For every path of any length, the client's steps and zpl_lookup agree
\* (vfs.rs:561-568, zpl.rs:232-246).
THEOREM StepsAreTheWalk == Spec => []PathsAgree
  BY InvPathsAgree, MountInvariant, PTL

-----------------------------------------------------------------------------
(***************************************************************************)
(* The uberblock (UberblockScan).  Both scans select the newest there is   *)
(* for them, for rings of any size and content, any stride of L0's slots   *)
(* and any cut of the image.                                               *)
(*                                                                         *)
(* The invariant of the inner loop (BestOf) says that best is the newest   *)
(* of the units passed, the first on a tie; that of the mount's outer loop *)
(* (BestOfLabels) says the same of mounted and the labels passed.          *)
(***************************************************************************)

-----------------------------------------------------------------------------
(***************************************************************************)
(* Types.                                                                  *)
(***************************************************************************)
\* A unit inside a ring is an uberblock or nothing (IsImage).
LEMMA RingType ==
  ASSUME ScanTypeOK, label \in Labels
  PROVE  /\ Ring \in Seq(Uberblock \cup {NoUb})
         /\ Len(Ring) <= RingUnits
         /\ vdev.stride \in 1..RingUnits
         /\ Stride \in Nat \ {0}
  BY RingAssumption DEF ScanTypeOK, IsImage, Ring, Stride

\* The slot under the scan starts inside the ring (label.rs:142-146).
LEMMA UnitInRing ==
  ASSUME ScanTypeOK, label \in Labels, InRing
  PROVE  Unit \in Nat \ {0} /\ Unit \in DOMAIN Ring
  <1>1. /\ Ring \in Seq(Uberblock \cup {NoUb})
        /\ Stride \in Nat \ {0}
    BY RingType
  <1>2. slot * Stride \in Nat
    BY <1>1 DEF ScanTypeOK
  <1> QED
    BY <1>1, <1>2 DEF InRing, Unit

\* What a scan takes note of is an uberblock with its place.
LEMMA FoundIsTyped ==
  ASSUME ScanTypeOK, label \in Labels, InRing, Ring[Unit] # NoUb
  PROVE  Found(Ring[Unit], label, Unit) \in FoundType
  BY RingType, UnitInRing DEF Found, FoundType, Uberblock

\* The image never changes; every step of the scans reads it.
LEMMA ImageStep ==
  ASSUME [ScanNext]_scanVars
  PROVE  UNCHANGED vdev
  BY DEF ScanNext, scanVars, ParseFails, SkipSlot, KeepBest, TakeSlot, ParseReturns, LabelEnds,
         MountReturns, Done

\* Every step of the scans keeps the types.
LEMMA TypeStep ==
  ASSUME ScanTypeOK, [ScanNext]_scanVars
  PROVE  ScanTypeOK'
  <1>1. CASE ParseFails \/ SkipSlot \/ KeepBest \/ ParseReturns \/ MountReturns \/ Done
    BY <1>1 DEF ParseFails, SkipSlot, KeepBest, ParseReturns, MountReturns, Done, scanVars, ScanTypeOK
  <1>2. CASE TakeSlot
    BY <1>2, FoundIsTyped DEF TakeSlot, Scanning, ScanTypeOK
  <1>3. CASE LabelEnds
    BY <1>3 DEF LabelEnds, Labels, ScanTypeOK
  <1>4. CASE UNCHANGED scanVars
    BY <1>4 DEF scanVars, ScanTypeOK
  <1> QED
    BY <1>1, <1>2, <1>3, <1>4 DEF ScanNext

\* The variables of both scans keep their types, for any image.
THEOREM ScanTypes == ScanSpec => []ScanTypeOK
  <1>1. ScanInit => ScanTypeOK
    BY ImagesAssumption DEF ScanInit, ScanTypeOK
  <1>2. ScanTypeOK /\ [ScanNext]_scanVars => ScanTypeOK'
    BY TypeStep
  <1> QED
    BY <1>1, <1>2, PTL DEF ScanSpec

-----------------------------------------------------------------------------
(***************************************************************************)
(* One ring.                                                               *)
(***************************************************************************)
\* b is what a scan of the units in S of label l must have kept.
BestOf(b, l, S) ==
  IF \E k \in S : Holds(l, k) THEN b # NoUb /\ NewestOf(b, l, S) ELSE b = NoUb

\* A unit without an uberblock changes nothing (label.rs:147-149).
LEMMA SkipKeepsBest ==
  ASSUME NEW l, NEW S, NEW T, NEW b, BestOf(b, l, S),
         S \subseteq T, \A k \in T \ S : ~Holds(l, k)
  PROVE  BestOf(b, l, T)
  BY DEF BestOf, NewestOf

\* One more unit, behind all of S: the code's choice between it and best is the
\* newest of both, and best wins a tie (label.rs:150-153).
LEMMA TakeOrKeep ==
  ASSUME ScanTypeOK, NEW l \in Labels, NEW S \in SUBSET Nat, NEW u \in Nat, Holds(l, u),
         \A k \in S : k < u,
         NEW b \in FoundType \cup {NoUb}, BestOf(b, l, S)
  PROVE  LET ub == vdev.rings[l][u]
         IN  BestOf(IF NotNewer(ub, b) THEN b ELSE Found(ub, l, u), l, S \cup {u})
  <1> DEFINE ub == vdev.rings[l][u]
  <1> DEFINE new == Found(ub, l, u)
  <1>1. /\ \A k : Holds(l, k) => k \in Nat \ {0} /\ vdev.rings[l][k] \in Uberblock
        /\ \A k : Holds(l, k) => vdev.rings[l][k].txg \in Nat
    <2>1. vdev.rings[l] \in Seq(Uberblock \cup {NoUb})
      BY DEF ScanTypeOK, IsImage
    <2>2. \A k : Holds(l, k) => k \in Nat \ {0} /\ vdev.rings[l][k] \in Uberblock
      BY <2>1 DEF Holds
    <2>3. \A x \in Uberblock : x.txg \in Nat
      BY TxgAssumption DEF Uberblock
    <2> QED
      BY <2>2, <2>3
  <1>2. /\ new.label = l /\ new.unit = u /\ new.txg = ub.txg
        /\ new \in FoundType
        /\ new # NoUb
    BY <1>1, NoUbAssumption DEF Found, FoundType, Uberblock
  <1>3. CASE b = NoUb
    <2>1. \A k \in S : ~Holds(l, k)
      BY <1>3 DEF BestOf
    <2> QED
      BY <2>1, <1>1, <1>2, <1>3 DEF BestOf, NewestOf, NotNewer
  <1>4. CASE b # NoUb
    <2>1. NewestOf(b, l, S) /\ b.unit \in S /\ b.txg \in Nat
      BY <1>4, TxgAssumption DEF BestOf, NewestOf, FoundType
    <2>2. CASE ub.txg <= b.txg
      <3>1. NewestOf(b, l, S \cup {u})
        BY <1>1, <2>1, <2>2 DEF NewestOf
      <3> QED
        BY <3>1, <1>4, <2>2 DEF BestOf, NotNewer
    <2>3. CASE ~(ub.txg <= b.txg)
      <3>1. \A k \in S : Holds(l, k) => vdev.rings[l][k].txg < ub.txg
        BY <1>1, <2>1, <2>3 DEF NewestOf
      <3>2. NewestOf(new, l, S \cup {u})
        BY <1>1, <1>2, <3>1 DEF NewestOf
      <3> QED
        BY <3>2, <1>2, <2>3 DEF BestOf, NotNewer
    <2> QED
      BY <2>2, <2>3
  <1> QED
    BY <1>3, <1>4

-----------------------------------------------------------------------------
(***************************************************************************)
(* The slots of a ring.                                                    *)
(***************************************************************************)
\* The units a scan looks at: one per slot of L0, every unit for the mount.
ScanUnits == IF pc = "parse" THEN SlotUnits ELSE DOMAIN Ring

\* Those it has passed.
UnitsPassed == {k \in ScanUnits : k < Unit}

\* A multiple of s in the i-th interval of s numbers is its first.
LEMMA OnlyMultiple ==
  ASSUME NEW s \in Nat \ {0}, NEW i \in Nat, NEW m \in Nat, m % s = 0,
         i * s <= m, m < i * s + s
  PROVE  m = i * s
  <1> DEFINE q == m \div s
  <1>1. q \in Nat /\ m = s * q + (m % s)
    OBVIOUS
  <1>2. m = q * s
    BY <1>1
  <1> HIDE DEF q
  <1>3. CASE q < i
    BY <1>1, <1>2, <1>3, (q + 1) * s <= i * s, (q + 1) * s = q * s + s
  <1>4. CASE q > i
    BY <1>1, <1>2, <1>4, (i + 1) * s <= q * s, (i + 1) * s = i * s + s
  <1> QED
    BY <1>1, <1>2, <1>3, <1>4

\* i * s is a multiple of s.
LEMMA IsMultiple ==
  ASSUME NEW s \in Nat \ {0}, NEW i \in Nat
  PROVE  (i * s) % s = 0
  OBVIOUS

\* Stepping over a slot passes its first unit and no other (label.rs:142-154).
LEMMA NextSlot ==
  ASSUME ScanTypeOK, Scanning, ~Unparsable, InRing, pc = "parse" => label = 1
  PROVE  /\ Unit \in ScanUnits
         /\ \A k \in ScanUnits : k < Unit + Stride <=> k < Unit \/ k = Unit
  <1>1. /\ Ring \in Seq(Uberblock \cup {NoUb}) /\ Len(Ring) \in Nat
        /\ Stride \in Nat \ {0}
        /\ slot \in Nat
        /\ slot * Stride \in Nat
        /\ Len(Ring) <= RingUnits
    BY RingType DEF ScanTypeOK, Scanning
  <1>2. CASE pc = "parse"
    <2>1. Stride = vdev.stride
      BY <1>2 DEF Stride
    <2> DEFINE first == slot * Stride
    <2>2. first \in Nat /\ first % Stride = 0
      BY <1>1, IsMultiple
    <2>3. Unit = first + 1
      BY DEF Unit
    <2>4. Unit + Stride - 1 <= RingUnits
      <3>1. first + 1 + Stride - 1 <= Len(Ring)
        BY <2>3 DEF InRing
      <3> HIDE DEF first
      <3> QED
        BY <1>1, <2>2, <2>3, <3>1, RingAssumption
    <2> HIDE DEF first
    <2>5. \A k : k \in SlotUnits <=> /\ k \in 1..RingUnits
                                     /\ (k - 1) % Stride = 0
                                     /\ k + Stride - 1 <= RingUnits
      BY <2>1 DEF SlotUnits
    <2>6. Unit \in SlotUnits
      <3>1. Unit \in 1..RingUnits /\ Unit - 1 = first
        BY <1>1, <2>2, <2>3, <2>4, RingAssumption
      <3> QED
        BY <2>5, <2>2, <2>4, <3>1
    <2>7. ASSUME NEW k \in SlotUnits, k < Unit + Stride, ~(k < Unit)
          PROVE  k = Unit
      <3>1. k \in Nat \ {0} /\ (k - 1) % Stride = 0
        BY <2>5, RingAssumption
      <3>2. k - 1 \in Nat /\ first <= k - 1 /\ k - 1 < first + Stride
        BY <1>1, <2>7, <2>2, <2>3, <3>1
      <3>3. k - 1 = first
        BY <1>1, <3>1, <3>2, OnlyMultiple DEF first
      <3> QED
        BY <2>2, <2>3, <3>1, <3>3
    <2>8. \A k \in SlotUnits : k \in Nat
      BY <2>5, RingAssumption
    <2>9. Unit \in Nat /\ Unit < Unit + Stride
      BY <1>1, <2>2, <2>3
    <2>10. \A k \in SlotUnits : k < Unit + Stride <=> k < Unit \/ k = Unit
      BY <1>1, <2>7, <2>8, <2>9
    <2> QED
      BY <1>2, <2>6, <2>10 DEF ScanUnits
  <1>3. CASE pc = "mount"
    BY <1>1, <1>3 DEF ScanUnits, Stride, Unit, InRing
  <1> QED
    BY <1>2, <1>3 DEF Scanning

\* A scan that stops has passed every slot (label.rs:142-146).
LEMMA EndOfRing ==
  ASSUME ScanTypeOK, Scanning, ~Unparsable, ~InRing, pc = "parse" => label = 1
  PROVE  UnitsPassed = ScanUnits
  <1>1. /\ Ring \in Seq(Uberblock \cup {NoUb}) /\ Len(Ring) \in Nat
        /\ Stride \in Nat \ {0}
        /\ slot \in Nat
        /\ slot * Stride \in Nat
        /\ Len(Ring) <= RingUnits
        /\ RingUnits \in Nat
    BY RingType, RingAssumption DEF ScanTypeOK, Scanning
  <1>2. CASE pc = "parse"
    <2>1. /\ Stride = vdev.stride
          /\ Len(Ring) = RingUnits
      BY <1>1, <1>2 DEF Stride, Unparsable
    <2>2. RingUnits < slot * Stride + Stride
      <3>1. CASE Unit + Stride - 1 <= Len(Ring)
        <4> DEFINE q == RingUnits \div Stride
                   r == RingUnits % Stride
        <4>1. q \in Nat /\ r \in 0 .. Stride - 1 /\ RingUnits = Stride * q + r
          BY <1>1
        <4>2. q <= slot
          BY <1>1, <1>2, <3>1, <4>1 DEF InRing
        <4> HIDE DEF q, r
        <4>3. Stride * q <= slot * Stride /\ Stride * q \in Nat
          BY <1>1, <4>1, <4>2
        <4> QED
          BY <1>1, <4>1, <4>3
      <3>2. CASE ~(Unit + Stride - 1 <= Len(Ring))
        <4> DEFINE s == slot * Stride
        <4>1. s \in Nat /\ Unit = s + 1
          BY <1>1 DEF Unit
        <4>2. RingUnits < s + Stride
          <5> HIDE DEF s
          <5> QED BY <1>1, <2>1, <3>2, <4>1
        <4> QED
          BY <4>2
      <3> QED
        BY <3>1, <3>2
    <2>3. \A k \in SlotUnits : k < Unit
      BY <1>1, <2>1, <2>2, SMTT(30) DEF SlotUnits, Unit
    <2> QED
      BY <1>2, <2>3 DEF UnitsPassed, ScanUnits
  <1>3. CASE pc = "mount"
    <2>1. Stride = 1 /\ Unit = slot + 1
      BY <1>1, <1>3 DEF Stride, Unit
    <2>2. Len(Ring) <= slot
      BY <1>1, <1>3, <2>1 DEF InRing
    <2>3. DOMAIN Ring = 1..Len(Ring)
      BY <1>1
    <2> QED
      BY <1>1, <1>3, <2>1, <2>2, <2>3 DEF UnitsPassed, ScanUnits
  <1> QED
    BY <1>2, <1>3 DEF Scanning

-----------------------------------------------------------------------------
(***************************************************************************)
(* The invariant.                                                          *)
(***************************************************************************)
\* m is what the mount must have kept of the labels before n.
BestOfLabels(m, n) ==
  IF \E l \in 1..(n - 1) : \E k \in DOMAIN vdev.rings[l] : Holds(l, k)
  THEN /\ m # NoUb
       /\ m.label \in 1..(n - 1)
       /\ NewestOf(m, m.label, DOMAIN vdev.rings[m.label])
       /\ \A l \in 1..(n - 1) : \A k \in DOMAIN vdev.rings[l] : Holds(l, k) =>
            /\ vdev.rings[l][k].txg <= m.txg
            /\ l < m.label => vdev.rings[l][k].txg < m.txg
  ELSE m = NoUb

\* L0 is parsed first, and nothing else happens until that has ended.
ParsePhase ==
  /\ pc = "parse" => label = 1 /\ mounted = NoUb
  /\ Unparsable => slot = 0 /\ best = NoUb /\ active = NoUb

\* The inner loop: best is the newest of the slots passed.
InnerLoop ==
  Scanning /\ ~Unparsable => BestOf(best, label, UnitsPassed)

\* The outer loop: mounted is the newest of the labels passed.
OuterLoop ==
  /\ pc = "mount" => BestOfLabels(mounted, label)
  /\ pc = "done" => BestOfLabels(mounted, 5)

ScanInv ==
  /\ ScanTypeOK
  /\ ParsePhase
  /\ InnerLoop
  /\ OuterLoop
  /\ ParseSelectsNewest

\* A step within a ring passes one unit.
LEMMA SlotPassed ==
  ASSUME ScanInv, Scanning, ~Unparsable, InRing, slot' = slot + 1,
         UNCHANGED <<vdev, pc, label>>
  PROVE  /\ UnitsPassed' = UnitsPassed \cup {Unit}
         /\ UnitsPassed \in SUBSET Nat
         /\ \A k \in UnitsPassed : k < Unit
         /\ Unit \in Nat
  <1>1. /\ slot \in Nat /\ Stride \in Nat \ {0}
        /\ pc = "parse" => label = 1
        /\ ScanTypeOK
    BY RingType DEF ScanInv, Scanning, ParsePhase, ScanTypeOK
  <1>2. ScanUnits' = ScanUnits
    BY DEF ScanUnits, SlotUnits, Ring
  <1>3. Unit' = Unit + Stride
    <2>1. Unit' = (slot + 1) * Stride + 1
      BY DEF Unit, Stride
    <2>2. (slot + 1) * Stride = slot * Stride + Stride /\ slot * Stride \in Nat
      BY <1>1
    <2> QED
      BY <1>1, <2>1, <2>2 DEF Unit
  <1>4. /\ Unit \in ScanUnits
        /\ \A k \in ScanUnits : k < Unit + Stride <=> k < Unit \/ k = Unit
    BY <1>1, NextSlot
  <1>5. ScanUnits \in SUBSET Nat
    BY <1>1, RingType, RingAssumption DEF ScanUnits, SlotUnits, Scanning
  <1> QED
    BY <1>2, <1>3, <1>4, <1>5 DEF UnitsPassed

\* Whatever a slot holds, the inner loop keeps its invariant.
LEMMA SlotStep ==
  ASSUME ScanInv, SkipSlot \/ KeepBest \/ TakeSlot
  PROVE  BestOf(best', label, UnitsPassed')
  <1>1. /\ ScanTypeOK /\ Scanning /\ ~Unparsable /\ InRing /\ label \in Labels
        /\ BestOf(best, label, UnitsPassed)
        /\ best \in FoundType \cup {NoUb}
    BY DEF SkipSlot, KeepBest, TakeSlot, ScanInv, InnerLoop, Scanning, ScanTypeOK
  <1>2. /\ UnitsPassed' = UnitsPassed \cup {Unit}
        /\ UnitsPassed \in SUBSET Nat
        /\ \A k \in UnitsPassed : k < Unit
        /\ Unit \in Nat
    BY <1>1, SlotPassed DEF SkipSlot, KeepBest, TakeSlot
  <1>3. CASE SkipSlot
    <2>1. best' = best /\ ~Holds(label, Unit)
      BY <1>3 DEF SkipSlot, Holds, Ring
    <2> QED
      BY <1>1, <1>2, <2>1, SkipKeepsBest
  <1>4. CASE KeepBest \/ TakeSlot
    <2>1. Holds(label, Unit) /\ Ring = vdev.rings[label]
      BY <1>1, <1>4, UnitInRing DEF KeepBest, TakeSlot, Holds, Ring
    <2>2. best' = IF NotNewer(vdev.rings[label][Unit], best)
                  THEN best ELSE Found(vdev.rings[label][Unit], label, Unit)
      BY <1>4, <2>1 DEF KeepBest, TakeSlot
    <2> QED
      BY <1>1, <1>2, <2>1, <2>2, TakeOrKeep
  <1> QED
    BY <1>3, <1>4

\* After the last slot, best is the newest of the ring.
LEMMA RingEnds ==
  ASSUME ScanInv, Scanning, ~Unparsable, ~InRing
  PROVE  BestOf(best, label, ScanUnits)
  BY EndOfRing DEF ScanInv, InnerLoop, ParsePhase

\* A scan that is about to look at its first slot has nothing to remember.
LEMMA RingStarts ==
  ASSUME ScanTypeOK', label' \in Labels, slot' = 0, best' = NoUb
  PROVE  InnerLoop'
  <1>1. Stride' \in Nat
    <2>1. vdev'.stride \in Nat
      BY RingAssumption DEF ScanTypeOK, IsImage
    <2>2. Stride' = IF pc' = "parse" THEN vdev'.stride ELSE 1
      BY DEF Stride
    <2> QED
      BY <2>1, <2>2
  <1>2. Unit' = 1
    <2>1. \A n \in Nat : 0 * n + 1 = 1
      OBVIOUS
    <2>2. Unit' = slot' * Stride' + 1
      BY DEF Unit
    <2> QED
      BY <1>1, <2>1, <2>2
  <1>3. \A k \in ScanUnits' : ~(k < 1)
    <2>1. DOMAIN Ring' \subseteq Nat \ {0}
      BY DEF ScanTypeOK, IsImage, Ring
    <2>2. SlotUnits' \subseteq Nat \ {0}
      BY RingAssumption DEF SlotUnits
    <2> QED
      BY <2>1, <2>2 DEF ScanUnits
  <1>4. UnitsPassed' = {}
    BY <1>2, <1>3 DEF UnitsPassed
  <1> QED
    BY <1>4 DEF InnerLoop, BestOf

\* The choice between a label's uberblock and what the labels before it had
\* (vfs.rs:191-196).
LEMMA LabelStep ==
  ASSUME ScanInv, LabelEnds
  PROVE  BestOfLabels(mounted', label + 1)
  <1>1. /\ ScanTypeOK /\ Scanning /\ ~Unparsable /\ ~InRing /\ label \in Labels /\ label \in Nat
        /\ ScanUnits = DOMAIN vdev.rings[label]
        /\ BestOfLabels(mounted, label)
        /\ mounted \in FoundType \cup {NoUb}
        /\ best \in FoundType \cup {NoUb}
    BY DEF LabelEnds, ScanInv, OuterLoop, Scanning, Unparsable, ScanUnits, Ring, ScanTypeOK, Labels
  <1>2. BestOf(best, label, DOMAIN vdev.rings[label])
    BY <1>1, RingEnds
  <1>3. 1..(label + 1 - 1) = 1..(label - 1) \cup {label} /\ label \notin 1..(label - 1)
    BY <1>1 DEF Labels
  <1>4. \A l \in 1..label : \A k : Holds(l, k) => vdev.rings[l][k].txg \in Nat
    <2> SUFFICES ASSUME NEW l \in 1..label, NEW k, Holds(l, k)
                 PROVE  vdev.rings[l][k].txg \in Nat
      OBVIOUS
    <2>1. vdev.rings[l] \in Seq(Uberblock \cup {NoUb})
      BY <1>1 DEF ScanTypeOK, IsImage, Labels
    <2>2. vdev.rings[l][k] \in Uberblock
      BY <2>1 DEF Holds
    <2> QED
      BY <2>2, TxgAssumption DEF Uberblock
  <1>5. \A f \in FoundType : f.txg \in Nat
    BY TxgAssumption DEF FoundType
  <1>6. CASE best = NoUb
    <2>1. \A k \in DOMAIN vdev.rings[label] : ~Holds(label, k)
      BY <1>2, <1>6 DEF BestOf
    <2>2. mounted' = mounted
      BY <1>6 DEF LabelEnds
    <2> QED
      BY <1>1, <1>3, <2>1, <2>2 DEF BestOfLabels
  <1>7. CASE best # NoUb /\ mounted = NoUb
    <2>1. \A l \in 1..(label - 1) : \A k \in DOMAIN vdev.rings[l] : ~Holds(l, k)
      BY <1>1, <1>7 DEF BestOfLabels
    <2>2. mounted' = best
      BY <1>7 DEF LabelEnds, NotNewer
    <2>3. NewestOf(best, label, DOMAIN vdev.rings[label])
      BY <1>2, <1>7 DEF BestOf
    <2> QED
      BY <1>3, <1>7, <2>1, <2>2, <2>3 DEF BestOfLabels, NewestOf
  <1>8. CASE best # NoUb /\ mounted # NoUb
    <2>1. /\ NewestOf(best, label, DOMAIN vdev.rings[label])
          /\ best.label = label
          /\ best.txg \in Nat /\ mounted.txg \in Nat
      BY <1>1, <1>2, <1>5, <1>8 DEF BestOf, NewestOf
    <2>2. /\ mounted.label \in 1..(label - 1)
          /\ NewestOf(mounted, mounted.label, DOMAIN vdev.rings[mounted.label])
          /\ \A l \in 1..(label - 1) : \A k \in DOMAIN vdev.rings[l] : Holds(l, k) =>
                /\ vdev.rings[l][k].txg <= mounted.txg
                /\ l < mounted.label => vdev.rings[l][k].txg < mounted.txg
      BY <1>1, <1>8 DEF BestOfLabels
    <2>3. CASE best.txg <= mounted.txg
      <3>1. mounted' = mounted
        BY <1>8, <2>3 DEF LabelEnds, NotNewer
      <3>2. \A k \in DOMAIN vdev.rings[label] : Holds(label, k) =>
               vdev.rings[label][k].txg <= mounted.txg
        <4> SUFFICES ASSUME NEW k \in DOMAIN vdev.rings[label], Holds(label, k)
                     PROVE  vdev.rings[label][k].txg <= mounted.txg
          OBVIOUS
        <4>1. vdev.rings[label][k].txg \in Nat
          BY <1>1, <1>4, label \in 1..label DEF Labels
        <4>2. vdev.rings[label][k].txg <= best.txg
          BY <2>1 DEF NewestOf
        <4> QED
          BY <2>1, <2>3, <4>1, <4>2
      <3>3. ~(label < mounted.label)
        BY <1>1, <2>2
      <3> QED
        BY <1>3, <1>8, <2>2, <3>1, <3>2, <3>3 DEF BestOfLabels, NewestOf
    <2>4. CASE ~(best.txg <= mounted.txg)
      <3>1. mounted' = best
        BY <1>8, <2>4 DEF LabelEnds, NotNewer
      <3>2. \A l \in 1..(label - 1) : \A k \in DOMAIN vdev.rings[l] : Holds(l, k) =>
               vdev.rings[l][k].txg < best.txg /\ vdev.rings[l][k].txg <= best.txg
        BY <1>1, <1>4, <2>1, <2>2, <2>4
      <3>3. \A k \in DOMAIN vdev.rings[label] : Holds(label, k) =>
               vdev.rings[label][k].txg <= best.txg
        BY <2>1 DEF NewestOf
      <3> QED
        BY <1>1, <1>3, <1>8, <2>1, <3>1, <3>2, <3>3 DEF BestOfLabels, NewestOf
    <2> QED
      BY <2>3, <2>4
  <1> QED
    BY <1>6, <1>7, <1>8

\* Before a scan, nothing is kept, and no label has been passed.
LEMMA ScanStart ==
  ASSUME ScanInit
  PROVE  ScanInv
  <1>1. ScanTypeOK
    BY ImagesAssumption DEF ScanInit, ScanTypeOK
  <1>2. ParsePhase /\ OuterLoop /\ ParseSelectsNewest
    BY DEF ScanInit, ParsePhase, OuterLoop, ParseSelectsNewest
  <1>3. InnerLoop
    <2>1. slot = 0 /\ best = NoUb /\ label \in Labels /\ pc = "parse"
      BY DEF ScanInit, Labels
    <2>2. vdev.stride \in Nat
      BY <1>1, RingAssumption DEF ScanTypeOK, IsImage
    <2>3. Unit = 1
      BY <2>1, <2>2 DEF Unit, Stride
    <2>4. UnitsPassed = {}
      BY <2>1, <2>3, RingAssumption DEF UnitsPassed, ScanUnits, SlotUnits
    <2> QED
      BY <2>1, <2>4 DEF InnerLoop, BestOf
  <1> QED
    BY <1>1, <1>2, <1>3 DEF ScanInv

\* Every step of either scan keeps the invariant.
LEMMA StepInv ==
  ASSUME ScanInv, [ScanNext]_scanVars
  PROVE  ScanInv'
  <1> USE DEF ScanInv
  <1>1. ScanTypeOK'
    BY TypeStep
  <1>2. UNCHANGED vdev
    BY ImageStep
  <1>3. CASE ParseFails
    <2>1. /\ label' = 1 /\ slot' = 0 /\ best' = NoUb /\ active' = NoUb /\ mounted' = NoUb
          /\ pc' = "mount"
      BY <1>3 DEF ParseFails, ParsePhase, Unparsable
    <2>2. ~(vdev.config /\ Len(vdev.rings[1]) = RingUnits)
      BY <1>3, <2>1 DEF ParseFails, Unparsable, Ring
    <2>3. ParsePhase' /\ OuterLoop'
      BY <2>1 DEF ParsePhase, Unparsable, OuterLoop, BestOfLabels
    <2>4. InnerLoop'
      BY <1>1, <2>1, RingStarts DEF Labels
    <2>5. ParseSelectsNewest'
      BY <1>2, <2>1, <2>2 DEF ParseSelectsNewest
    <2> QED
      BY <1>1, <2>3, <2>4, <2>5
  <1>4. CASE SkipSlot \/ KeepBest \/ TakeSlot
    <2>1. /\ UNCHANGED <<vdev, pc, label, active, mounted>>
          /\ ~Unparsable /\ Scanning
      BY <1>4 DEF SkipSlot, KeepBest, TakeSlot
    <2>2. ~Unparsable' /\ ParsePhase'
      BY <2>1 DEF Unparsable, Ring, ParsePhase
    <2>3. InnerLoop'
      <3>1. BestOf(best', label, UnitsPassed')
        BY <1>4, SlotStep
      <3> QED
        BY <2>1, <3>1 DEF InnerLoop, BestOf, NewestOf, Holds
    <2>4. OuterLoop' /\ ParseSelectsNewest'
      BY <2>1 DEF OuterLoop, BestOfLabels, ParseSelectsNewest, SlotUnits, NewestOf, Holds
    <2> QED
      BY <1>1, <2>2, <2>3, <2>4
  <1>5. CASE ParseReturns
    <2>1. /\ label = 1 /\ label' = 1 /\ slot' = 0 /\ best' = NoUb /\ active' = best
          /\ mounted' = NoUb /\ pc = "parse" /\ pc' = "mount"
          /\ Scanning /\ ~Unparsable /\ ~InRing
      BY <1>5 DEF ParseReturns, ParsePhase, Scanning, Labels
    <2>2. vdev.config /\ Len(vdev.rings[1]) = RingUnits
      BY <2>1, RingAssumption DEF Unparsable, Ring, ScanTypeOK, IsImage, Labels
    <2>3. ParsePhase' /\ OuterLoop'
      BY <2>1 DEF ParsePhase, Unparsable, OuterLoop, BestOfLabels
    <2>4. InnerLoop'
      BY <1>1, <2>1, RingStarts DEF Labels
    <2>5. BestOf(active', 1, SlotUnits)
      BY <2>1, RingEnds DEF ScanUnits
    <2>6. ParseSelectsNewest'
      BY <1>2, <2>1, <2>2, <2>5 DEF ParseSelectsNewest, BestOf, NewestOf, SlotUnits, Holds
    <2> QED
      BY <1>1, <2>3, <2>4, <2>6
  <1>6. CASE LabelEnds
    <2>1. /\ label' = label + 1 /\ slot' = 0 /\ best' = NoUb
          /\ pc = "mount" /\ pc' = "mount" /\ UNCHANGED <<vdev, active>>
      BY <1>6 DEF LabelEnds
    <2>2. ParsePhase' /\ ParseSelectsNewest'
      BY <2>1 DEF ParsePhase, Unparsable, ParseSelectsNewest, SlotUnits, NewestOf, Holds
    <2>3. InnerLoop'
      <3>1. CASE label' \in Labels
        BY <1>1, <2>1, <3>1, RingStarts
      <3>2. CASE label' \notin Labels
        BY <3>2 DEF InnerLoop, Scanning
      <3> QED
        BY <3>1, <3>2
    <2>4. BestOfLabels(mounted', label + 1)
      BY <1>6, LabelStep
    <2>5. OuterLoop'
      BY <2>1, <2>4 DEF OuterLoop, BestOfLabels, NewestOf, Holds
    <2> QED
      BY <1>1, <2>2, <2>3, <2>5
  <1>7. CASE MountReturns
    <2>1. /\ pc = "mount" /\ pc' = "done" /\ label = 5
          /\ UNCHANGED <<vdev, label, slot, best, active, mounted>>
      BY <1>7 DEF MountReturns, Labels, ScanTypeOK
    <2> QED
      BY <1>1, <2>1 DEF ParsePhase, Unparsable, InnerLoop, Scanning, OuterLoop, BestOfLabels,
             ParseSelectsNewest, SlotUnits, NewestOf, Holds
  <1>8. CASE UNCHANGED scanVars
    BY <1>1, <1>8 DEF scanVars, ParsePhase, Unparsable, InnerLoop, Scanning, OuterLoop,
           BestOfLabels, BestOf, UnitsPassed, ScanUnits, Unit, Stride, Ring,
           ParseSelectsNewest, SlotUnits, NewestOf, Holds
  <1> QED
    BY <1>3, <1>4, <1>5, <1>6, <1>7, <1>8 DEF ScanNext, Done

\* The loops' invariant holds throughout.
LEMMA Invariant == ScanSpec => []ScanInv
  <1>1. ScanInit => ScanInv
    BY ScanStart
  <1>2. ScanInv /\ [ScanNext]_scanVars => ScanInv'
    BY StepInv
  <1> QED
    BY <1>1, <1>2, PTL DEF ScanSpec

\* The auditor and the carver start from the newest uberblock of L0, the first slot on
\* a tie, whatever the ring holds and however ashift divides it; they start from none
\* only if L0 is short, its config bad or its ring empty (label.rs:98-156).
THEOREM ParseIsNewest == ScanSpec => []ParseSelectsNewest
  <1>1. ScanInv => ParseSelectsNewest
    BY DEF ScanInv
  <1> QED
    BY <1>1, Invariant, PTL

\* The mount starts from the newest uberblock of all four labels, the first label on a
\* tie, and finds one wherever it is left, however the image is cut (vfs.rs:173-199).
THEOREM MountIsNewest == ScanSpec => []MountSelectsNewest
  <1>1. ScanInv => MountSelectsNewest
    <2> SUFFICES ASSUME ScanInv, pc = "done"
                 PROVE  MountSelectsNewest
      BY DEF MountSelectsNewest
    <2>1. BestOfLabels(mounted, 5) /\ 1..(5 - 1) = Labels
      BY DEF ScanInv, OuterLoop, Labels
    <2> QED
      BY <2>1 DEF BestOfLabels, MountSelectsNewest
  <1> QED
    BY <1>1, Invariant, PTL
=============================================================================
