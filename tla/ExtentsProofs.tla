---------------------------- MODULE ExtentsProofs ----------------------------
(***************************************************************************)
(* Theorems about the byte runs of an object (core/src/vfs.rs:409-442):    *)
(* gathered a level at a time, with what cannot be read or is a hole left  *)
(* out on the way and every level cut to MAX_RUNS, they are the runs of    *)
(* the file's blocks in order, and the cut only takes from the end.        *)
(***************************************************************************)
EXTENDS Extents, DnodeTreeProofs

(***************************************************************************)
(* Types.                                                                  *)
(***************************************************************************)

\* take(MAX_RUNS) and the break on next.len() leave a prefix; what is shorter
\* than the bound is left whole (vfs.rs:415, 422, 429).
LEMMA CutFacts ==
  ASSUME NEW A, NEW s \in Seq(A)
  PROVE  /\ Cut(s) \in Seq(A)
         /\ Len(Cut(s)) <= MaxRuns
         /\ IsPrefix(Cut(s), s)
         /\ Cut(s) = s \/ Len(Cut(s)) = MaxRuns
<1>n. PICK n : n = Len(s)
  OBVIOUS
<1>1. n \in Nat /\ MaxRuns \in Nat
  BY <1>n, RunsAssumption
<1>2. CASE n > MaxRuns
  <2>1. MaxRuns \in 0 .. Len(s)
    BY <1>1, <1>2, <1>n
  <2>2. Cut(s) = SubSeq(s, 1, MaxRuns)
    BY <1>2, <1>n DEF Cut
  <2>3. Cut(s) \in Seq(A) /\ Len(Cut(s)) = MaxRuns /\ IsPrefix(Cut(s), s)
    BY <2>1, <2>2, CutIsPrefix
  <2>4. Len(Cut(s)) <= MaxRuns
    BY <1>1, <2>3
  <2> QED
    BY <2>3, <2>4
<1>3. CASE ~ (n > MaxRuns)
  <2>1. Cut(s) = s
    BY <1>3, <1>n DEF Cut
  <2>2. <<>> \in Seq(A) /\ s = s \o <<>>
    OBVIOUS
  <2>3. IsPrefix(s, s)
    BY <2>2, PrefixIs
  <2>4. Len(s) <= MaxRuns
    BY <1>1, <1>3, <1>n
  <2> QED
    BY <2>1, <2>3, <2>4
<1> QED
  BY <1>2, <1>3

\* Levels is what is left to go down at the start (vfs.rs:417).
LEMMA LevelsTypes ==
  ASSUME IsDnode(d)
  PROVE  /\ Levels \in 0 .. MaxLevels
         /\ Depth \in 0 .. MaxLevels - 1
         /\ Levels > 0 => Depth = Levels - 1
<1>1. d.nlevels \in Nat /\ MaxLevels \in Nat \ {0}
  BY TreeAssumption DEF IsDnode
<1>2. Levels \in 0 .. MaxLevels
  BY <1>1 DEF Levels
<1> QED
  BY <1>1, <1>2 DEF Depth

\* Only the dnode's own pointers are there at the start (vfs.rs:410-417).
LEMMA InitTypes == Init => TypeOK
<1> SUFFICES ASSUME Init PROVE TypeOK
  OBVIOUS
<1>1. IsDnode(d)
  BY CasesAssumption DEF Init
<1>2. d.top \in Seq(Bp)
  <2> HIDE DEF Bp, Pointer
  <2> QED
    BY <1>1, PointersAreBps DEF IsDnode
<1>3. Those(d.top, Present) \in Seq(Bp)
  BY <1>2, ThoseTypes
<1>4. level \in Seq(Bp) /\ Len(level) <= MaxRuns
  BY <1>3, CutFacts DEF Init
<1>5. next \in Seq(Bp) /\ Len(next) <= MaxRuns /\ i \in 1 .. MaxRuns + 1
  <2>1. next = <<>> /\ i = 1 /\ <<>> \in Seq(Bp) /\ Len(<<>>) = 0
    BY DEF Init
  <2> QED
    BY <2>1, RunsAssumption
<1>6. remaining \in 0 .. MaxLevels /\ pc = "level"
  BY <1>1, LevelsTypes DEF Init
<1> QED
  BY <1>1, <1>4, <1>5, <1>6 DEF TypeOK

\* The pointer at hand is one of the level's.
LEMMA AtPointerTypes ==
  ASSUME TypeOK, AtPointer
  PROVE  /\ i \in 1 .. Len(level) /\ Len(level) \in Nat /\ Len(next) \in Nat
         /\ level[i] \in Bp
         /\ i + 1 \in 1 .. MaxRuns + 1
<1>1. level \in Seq(Bp) /\ next \in Seq(Bp)
  BY DEF TypeOK
<1>2. Len(level) \in Nat /\ Len(next) \in Nat
  BY <1>1
<1>3. i \in 1 .. Len(level) /\ i + 1 \in 1 .. MaxRuns + 1
  <2>1. i \in 1 .. MaxRuns + 1 /\ i <= Len(level) /\ Len(level) <= MaxRuns
    BY DEF TypeOK, AtPointer
  <2> QED
    BY <1>2, <2>1, RunsAssumption
<1>4. level[i] \in Bp
  <2> HIDE DEF Bp
  <2> QED
    BY <1>1, <1>3
<1> QED
  BY <1>2, <1>3, <1>4

\* What one pointer adds to the level below (vfs.rs:428-436).
LEMMA KidsPresent ==
  ASSUME IsDnode(d), NEW b \in Bp, Readable(b)
  PROVE  Those(Kids(b), Present) \in Seq(Bp)
BY BlockTypes, ThoseTypes

\* Each step keeps the variables well formed and the levels within the bound.
LEMMA StepTypes == TypeOK /\ [Next]_vars => TypeOK'
<1> SUFFICES ASSUME TypeOK, [Next]_vars PROVE TypeOK'
  OBVIOUS
<1>1. /\ IsDnode(d) /\ pc \in {"level", "pointers", "returned"}
      /\ level \in Seq(Bp) /\ Len(level) <= MaxRuns
      /\ next \in Seq(Bp) /\ Len(next) <= MaxRuns
      /\ remaining \in 0 .. MaxLevels /\ i \in 1 .. MaxRuns + 1
  BY DEF TypeOK
<1>2. ASSUME d' = d PROVE IsDnode(d)'
  BY <1>1, <1>2
<1>3. CASE EnterLevel
  <2>1. remaining' \in 0 .. MaxLevels
    BY <1>1, <1>3, TreeAssumption DEF EnterLevel
  <2>2. <<>> \in Seq(Bp) /\ Len(<<>>) <= MaxRuns /\ 1 \in 1 .. MaxRuns + 1
    <3>1. <<>> \in Seq(Bp) /\ Len(<<>>) = 0
      OBVIOUS
    <3> QED
      BY <3>1, RunsAssumption
  <2>3. /\ d' = d /\ level' = level /\ next' = <<>> /\ i' = 1 /\ pc' = "pointers"
    BY <1>3 DEF EnterLevel
  <2> HIDE DEF Bp
  <2> QED
    BY <1>1, <2>1, <2>2, <2>3 DEF TypeOK
<1>4. CASE SkipUnreadable
  <2>1. i + 1 \in 1 .. MaxRuns + 1
    BY <1>4, AtPointerTypes DEF SkipUnreadable
  <2>2. /\ d' = d /\ level' = level /\ next' = next /\ i' = i + 1 /\ pc' = pc
        /\ remaining' = remaining
    BY <1>4 DEF SkipUnreadable
  <2> HIDE DEF Bp
  <2> QED
    BY <1>1, <2>1, <2>2 DEF TypeOK
<1>5. CASE Expand
  <2>1. i + 1 \in 1 .. MaxRuns + 1 /\ level[i] \in Bp
    BY <1>5, AtPointerTypes DEF Expand
  <2>2. /\ d' = d /\ level' = level /\ i' = i + 1 /\ pc' = pc
        /\ remaining' = remaining /\ Readable(level[i])
        /\ next' = Cut(next \o Those(Kids(level[i]), Present))
    BY <1>5 DEF Expand
  <2>3. next \o Those(Kids(level[i]), Present) \in Seq(Bp)
    <3>1. Those(Kids(level[i]), Present) \in Seq(Bp)
      BY <1>1, <2>1, <2>2, KidsPresent
    <3> QED
      BY <1>1, <3>1, ConcatParts
  <2>4. next' \in Seq(Bp) /\ Len(next') <= MaxRuns
    BY <2>2, <2>3, CutFacts
  <2> HIDE DEF Bp
  <2> QED
    BY <1>1, <2>1, <2>2, <2>4 DEF TypeOK
<1>6. CASE LeaveLevel
  <2>1. /\ d' = d /\ level' = next /\ next' = next /\ i' = i /\ pc' = "level"
        /\ remaining' = remaining
    BY <1>6 DEF LeaveLevel
  <2> HIDE DEF Bp
  <2> QED
    BY <1>1, <2>1 DEF TypeOK
<1>7. CASE Return
  <2>1. /\ d' = d /\ level' = Those(level, WithRun) /\ next' = next /\ i' = i /\ pc' = "returned"
        /\ remaining' = remaining
    BY <1>7 DEF Return
  <2>2. level' \in Seq(Bp) /\ Len(level') <= Len(level)
    BY <1>1, <2>1, ThoseTypes
  <2>3. Len(level') <= MaxRuns
    <3>1. Len(level') \in Nat /\ Len(level) \in Nat
      BY <1>1, <2>2
    <3> QED
      BY <1>1, <2>2, <3>1, RunsAssumption
  <2> HIDE DEF Bp
  <2> QED
    BY <1>1, <2>1, <2>2, <2>3 DEF TypeOK
<1>8. CASE Returned \/ UNCHANGED vars
  <2>1. UNCHANGED vars
    BY <1>8 DEF Returned
  <2> HIDE DEF Bp
  <2> QED
    BY <1>1, <2>1 DEF TypeOK, vars
<1> QED
  BY <1>3, <1>4, <1>5, <1>6, <1>7, <1>8 DEF Next

\* No level of the tree is ever held with more than MAX_RUNS pointers, and no
\* more levels are gone down than the dnode has (l0_blkptrs, vfs.rs:409-442).
THEOREM RunsTypes == Spec => []TypeOK
BY InitTypes, StepTypes, PTL DEF Spec

(***************************************************************************)
(* The rows of the tree.  A row is what is there of a layer; the row below *)
(* is gathered from it alone.                                              *)
(***************************************************************************)

There == Present \ {Lost}

Row(k) == Those(Layer[k], There)

\* What one pointer adds to the row below (vfs.rs:425-436).
Adds(b) == IF Readable(b) THEN Those(Kids(b), Present) ELSE <<>>

Gather(s) == FlattenSeq([k \in DOMAIN s |-> Adds(s[k])])

Spread(s) == FlattenSeq([k \in DOMAIN s |-> Children(s[k])])

\* An unreadable pointer adds nothing, a readable one adds pointers.
LEMMA AddsTypes ==
  ASSUME IsDnode(d), NEW b \in Bp
  PROVE  Adds(b) \in Seq(Bp)
<1>1. <<>> \in Seq(Bp)
  OBVIOUS
<1>2. Readable(b) => Those(Kids(b), Present) \in Seq(Bp)
  BY KidsPresent
<1> QED
  BY <1>1, <1>2 DEF Adds

\* What a map makes of each element of a sequence.
Mapped(f, s) == [k \in DOMAIN s |-> f[s[k]]]

\* A sequence mapped element by element, and one more at its end.
LEMMA MapAppend ==
  ASSUME NEW A, NEW s \in Seq(A), NEW x \in A, NEW T, NEW f \in [A -> T]
  PROVE  Mapped(f, Put(s, x)) = Put(Mapped(f, s), f[x]) /\ Mapped(f, s) \in Seq(T)
<1>n. PICK n : n = Len(s)
  OBVIOUS
<1>a. PICK a : a = Append(s, x)
  OBVIOUS
<1>m. PICK m : m = [k \in DOMAIN s |-> f[s[k]]]
  OBVIOUS
<1>b. PICK b : b = Append(m, f[x])
  OBVIOUS
<1>1. n \in Nat /\ DOMAIN s = 1 .. n /\ \A k \in 1 .. n : s[k] \in A
  BY <1>n
<1>2. a \in Seq(A) /\ DOMAIN a = 1 .. n + 1 /\ a[n + 1] = x /\ \A k \in 1 .. n : a[k] = s[k]
  BY <1>n, <1>a
<1>3. m \in Seq(T) /\ Len(m) = n /\ \A k \in 1 .. n : m[k] = f[s[k]]
  BY <1>1, <1>m
<1>4. f[x] \in T
  OBVIOUS
<1>5. b \in Seq(T) /\ Len(b) = n + 1 /\ b[n + 1] = f[x] /\ \A k \in 1 .. n : b[k] = m[k]
  BY <1>3, <1>4, <1>b
<1>6. b = [k \in 1 .. n + 1 |-> b[k]]
  BY <1>5
<1>7. ASSUME NEW k \in 1 .. n + 1 PROVE f[a[k]] = b[k]
  <2>1. k \in 1 .. n \/ k = n + 1
    BY <1>1
  <2> QED
    BY <1>2, <1>3, <1>5, <2>1
<1>8. [k \in 1 .. n + 1 |-> f[a[k]]] = [k \in 1 .. n + 1 |-> b[k]]
  BY <1>7
<1> QED
  BY <1>1, <1>2, <1>3, <1>6, <1>8, <1>a, <1>b, <1>m DEF Mapped, Put

\* One more pointer's children go behind the others' (next.push, vfs.rs:434).
LEMMA GatherAppend ==
  ASSUME IsDnode(d), NEW s \in Seq(Bp), NEW x \in Bp
  PROVE  /\ Gather(Put(s, x)) = Plus(Gather(s), Adds(x))
         /\ Gather(s) \in Seq(Bp)
<1>f. PICK f : f = [b \in Bp |-> Adds(b)]
  OBVIOUS
<1>1. f \in [Bp -> Seq(Bp)] /\ \A b \in Bp : f[b] = Adds(b)
  BY <1>f, AddsTypes
<1>m. PICK m : m = Mapped(f, s)
  OBVIOUS
<1>2. Mapped(f, Put(s, x)) = Put(m, f[x]) /\ m \in Seq(Seq(Bp))
  BY <1>1, <1>m, MapAppend
<1>3. \A t \in Seq(Bp) : Gather(t) = FlattenSeq(Mapped(f, t))
  <2> HIDE DEF Bp
  <2>1. \A t \in Seq(Bp) : \A k \in DOMAIN t : t[k] \in Bp
    OBVIOUS
  <2> QED
    BY <1>1, <2>1 DEF Gather, Mapped
<1>4. Put(s, x) \in Seq(Bp)
  BY DEF Put
<1>5. Gather(s) = FlattenSeq(m) /\ Gather(Put(s, x)) = FlattenSeq(Put(m, f[x]))
  BY <1>2, <1>3, <1>4, <1>m
<1>6. f[x] \in Seq(Bp) /\ f[x] = Adds(x)
  BY <1>1
<1>7. FlattenSeq(Put(m, f[x])) = Plus(FlattenSeq(m), f[x]) /\ FlattenSeq(m) \in Seq(Bp)
  BY <1>2, <1>6, FlattenAppend, FlattenTypes DEF Put, Plus
<1> QED
  BY <1>5, <1>6, <1>7

\* The same of a layer, each block standing for a full set of pointers.
LEMMA SpreadAppend ==
  ASSUME IsDnode(d), NEW s \in Seq(Bp), NEW x \in Bp
  PROVE  /\ Spread(Put(s, x)) = Plus(Spread(s), Children(x))
         /\ Spread(s) \in Seq(Bp)
<1>f. PICK f : f = [b \in Bp |-> Children(b)]
  OBVIOUS
<1>1. f \in [Bp -> Seq(Bp)] /\ \A b \in Bp : f[b] = Children(b)
  BY <1>f, ChildTypes
<1>m. PICK m : m = Mapped(f, s)
  OBVIOUS
<1>2. Mapped(f, Put(s, x)) = Put(m, f[x]) /\ m \in Seq(Seq(Bp))
  BY <1>1, <1>m, MapAppend
<1>3. \A t \in Seq(Bp) : Spread(t) = FlattenSeq(Mapped(f, t))
  <2> HIDE DEF Bp
  <2>1. \A t \in Seq(Bp) : \A k \in DOMAIN t : t[k] \in Bp
    OBVIOUS
  <2> QED
    BY <1>1, <2>1 DEF Spread, Mapped
<1>4. Put(s, x) \in Seq(Bp)
  BY DEF Put
<1>5. Spread(s) = FlattenSeq(m) /\ Spread(Put(s, x)) = FlattenSeq(Put(m, f[x]))
  BY <1>2, <1>3, <1>4, <1>m
<1>6. f[x] \in Seq(Bp) /\ f[x] = Children(x)
  BY <1>1
<1>7. FlattenSeq(Put(m, f[x])) = Plus(FlattenSeq(m), f[x]) /\ FlattenSeq(m) \in Seq(Bp)
  BY <1>2, <1>6, FlattenAppend, FlattenTypes DEF Put, Plus
<1> QED
  BY <1>5, <1>6, <1>7

\* What is gathered are pointers.
LEMMA GatherTypes ==
  ASSUME IsDnode(d), NEW s \in Seq(Bp)
  PROVE  Gather(s) \in Seq(Bp) /\ Spread(s) \in Seq(Bp)
<1>1. Lost \in Bp
  BY DEF Lost, Ptr, Bp
<1> QED
  BY <1>1, GatherAppend, SpreadAppend

\* Nothing is gathered from nothing.
LEMMA GatherNone == Gather(<<>>) = <<>> /\ Spread(<<>>) = <<>>
<1>1. [k \in DOMAIN <<>> |-> Adds(<<>>[k])] = <<>> /\ [k \in DOMAIN <<>> |-> Children(<<>>[k])] = <<>>
  OBVIOUS
<1> QED
  BY <1>1, FlattenEmpty DEF Gather, Spread

\* What is gathered from two parts is gathered from the whole.
LEMMA GatherConcat ==
  ASSUME IsDnode(d), NEW s \in Seq(Bp), NEW t \in Seq(Bp)
  PROVE  Gather(Plus(s, t)) = Plus(Gather(s), Gather(t))
<1> DEFINE Q == {r \in Seq(Bp) : Gather(Plus(s, r)) = Plus(Gather(s), Gather(r))}
<1>g. PICK g : g = Gather(s)
  OBVIOUS
<1>0. g \in Seq(Bp)
  BY <1>g, GatherTypes
<1>1. <<>> \in Q
  <2>1. Plus(s, <<>>) = s
    BY ConcatFacts DEF Plus
  <2>2. Plus(g, <<>>) = g /\ <<>> \in Seq(Bp)
    BY <1>0, ConcatFacts DEF Plus
  <2> QED
    BY <1>g, <2>1, <2>2, GatherNone
<1>2. ASSUME NEW r \in Seq(Bp), NEW x \in Bp, r \in Q PROVE Append(r, x) \in Q
  <2>p. PICK sr : sr = Plus(s, r)
    OBVIOUS
  <2>h. PICK h : h = Gather(r)
    OBVIOUS
  <2>a. PICK a : a = Adds(x)
    OBVIOUS
  <2>1. sr \in Seq(Bp)
    BY <2>p, ConcatParts DEF Plus
  <2>2. Plus(s, Put(r, x)) = Put(sr, x)
    BY <2>p, PlusPut
  <2>3. Gather(Put(sr, x)) = Plus(Gather(sr), a)
    BY <2>1, <2>a, GatherAppend
  <2>4. Gather(Put(r, x)) = Plus(h, a)
    BY <2>a, <2>h, GatherAppend
  <2>5. Gather(sr) = Plus(g, h)
    BY <1>2, <1>g, <2>h, <2>p
  <2>6. a \in Seq(Bp) /\ h \in Seq(Bp)
    BY <2>a, <2>h, AddsTypes, GatherTypes
  <2>7. Plus(Plus(g, h), a) = Plus(g, Plus(h, a))
    BY <1>0, <2>6, PlusAssoc
  <2>8. Gather(Plus(s, Put(r, x))) = Plus(g, Gather(Put(r, x)))
    BY <2>2, <2>3, <2>4, <2>5, <2>7, Zenon
  <2>9. Put(r, x) \in Seq(Bp) /\ Append(r, x) = Put(r, x)
    BY DEF Put
  <2>10. Put(r, x) \in Q
    BY <1>g, <2>8, <2>9
  <2> QED
    BY <2>9, <2>10, Zenon
<1> HIDE DEF Q
<1>3. t \in Q
  BY <1>1, <1>2, SeqInduction
<1> QED
  BY <1>3 DEF Q

\* A prefix gathers a prefix.
LEMMA GatherPrefix ==
  ASSUME IsDnode(d), NEW s \in Seq(Bp), NEW t \in Seq(Bp), IsPrefix(s, t)
  PROVE  IsPrefix(Gather(s), Gather(t))
<1>1. PICK u \in Seq(Bp) : t = s \o u
  BY PrefixIs
<1>2. Gather(t) = Plus(Gather(s), Gather(u))
  BY <1>1, GatherConcat DEF Plus
<1>3. Gather(s) \in Seq(Bp) /\ Gather(t) \in Seq(Bp) /\ Gather(u) \in Seq(Bp)
  BY GatherTypes
<1> QED
  BY <1>2, <1>3, PrefixIs DEF Plus

\* No block has the id 0: a pointer that is not there cannot be read.
LEMMA LostCannotBeRead == IsDnode(d) => ~Readable(Lost)
  BY DEF IsDnode, Readable, Lost, Ptr

\* Every indirect block holds as many pointers as dn_indblkshift says.
Full == \A id \in DOMAIN d.blocks : Len(d.blocks[id].kids) = Fanout

\* A sequence of one element over and over has nothing of a set it is not in.
LEMMA NoneOfThem ==
  ASSUME NEW x, NEW n \in Nat, NEW S, x \notin S
  PROVE  Those([k \in 1 .. n |-> x], S) = <<>>
<1>1. [k \in 1 .. n |-> x] \in Seq({x})
  OBVIOUS
<1>2. {x} \cap S = {}
  OBVIOUS
<1> QED
  BY <1>1, <1>2, ThoseNone

\* What is there of a block's children is what l0_blkptrs adds for it: nothing
\* for a hole, or where the block cannot be read (vfs.rs:425-436).
LEMMA ChildrenThere ==
  ASSUME IsDnode(d), Full, NEW b \in Bp
  PROVE  Those(Children(b), There) = IF b \in There THEN Adds(b) ELSE <<>>
<1>f. PICK F : F = Fanout
  OBVIOUS
<1>1. F \in Nat
  BY <1>f, PowerStep DEF Fanout, IsDnode
<1>2. CASE b.hole
  <2>1. Children(b) = [k \in 1 .. F |-> b]
    BY <1>2, <1>f DEF Children
  <2>2. b \notin There
    BY <1>2 DEF There, Present
  <2> QED
    BY <1>1, <2>1, <2>2, NoneOfThem
<1>3. CASE ~b.hole /\ ~Readable(b)
  <2>1. Children(b) = [k \in 1 .. F |-> Lost]
    BY <1>3, <1>f DEF Children
  <2>2. Lost \notin There
    BY DEF There
  <2>3. Those(Children(b), There) = <<>>
    BY <1>1, <2>1, <2>2, NoneOfThem
  <2>4. Adds(b) = <<>>
    BY <1>3 DEF Adds
  <2> QED
    BY <2>3, <2>4
<1>4. CASE ~b.hole /\ Readable(b)
  <2>k. PICK kids : kids = Kids(b)
    OBVIOUS
  <2>1. b.to \in DOMAIN d.blocks /\ kids = d.blocks[b.to].kids
    BY <1>4, <2>k DEF Readable, Kids
  <2>2. kids \in Seq(Pointer) /\ Len(kids) = F
    <3> HIDE DEF Pointer
    <3> QED
      BY <1>f, <2>1 DEF IsDnode, Full
  <2>3. Children(b) = [k \in 1 .. F |-> IF k <= Len(kids) THEN kids[k] ELSE Lost]
    BY <1>4, <1>f, <2>k DEF Children
  <2>4. kids = [k \in 1 .. F |-> kids[k]]
    <3> HIDE DEF Pointer
    <3> QED
      BY <2>2
  <2>5. Children(b) = kids
    <3>1. \A k \in 1 .. F : k <= Len(kids)
      BY <1>1, <2>2
    <3> QED
      BY <2>3, <2>4, <3>1
  <2>6. Pointer \cap There = Pointer \cap Present
    BY DEF Pointer, There, Lost, Ptr
  <2>7. Those(kids, There) = Those(kids, Present)
    <3> HIDE DEF Pointer
    <3> QED
      BY <2>2, <2>6, ThoseSame
  <2>8. Adds(b) = Those(kids, Present)
    BY <1>4, <2>k DEF Adds
  <2>9. b \in There
    <3>1. b # Lost
      BY <1>4, LostCannotBeRead
    <3> QED
      BY <1>4, <3>1 DEF There, Present
  <2> QED
    BY <2>5, <2>7, <2>8, <2>9
<1> QED
  BY <1>2, <1>3, <1>4

\* What is there of the layer below is gathered from what is there of the layer:
\* leaving a hole or an unreadable block out on the way loses nothing but what is
\* below it (vfs.rs:421-437).
LEMMA SpreadThere ==
  ASSUME IsDnode(d), Full, NEW s \in Seq(Bp)
  PROVE  Those(Spread(s), There) = Gather(Those(s, There))
<1> DEFINE Q == {r \in Seq(Bp) : Those(Spread(r), There) = Gather(Those(r, There))}
<1>1. <<>> \in Q
  <2>1. <<>> \in Seq(Bp)
    OBVIOUS
  <2> QED
    BY <2>1, ThoseEmpty, GatherNone
<1>2. ASSUME NEW r \in Seq(Bp), NEW x \in Bp, r \in Q PROVE Append(r, x) \in Q
  <2>k. PICK k : k = Those(r, There)
    OBVIOUS
  <2>c. PICK c : c = Those(Children(x), There)
    OBVIOUS
  <2>1. k \in Seq(Bp)
    BY <2>k, ThoseTypes
  <2>s. PICK spread, kids : spread = Spread(r) /\ kids = Children(x)
    OBVIOUS
  <2>2. spread \in Seq(Bp) /\ kids \in Seq(Bp)
    BY <2>s, GatherTypes, ChildTypes
  <2>3. Those(Plus(spread, kids), There) = Plus(Those(spread, There), Those(kids, There))
    BY <2>2, ThoseConcat DEF Plus
  <2>4. Those(Spread(Put(r, x)), There) = Plus(Gather(k), c)
    BY <1>2, <2>c, <2>k, <2>s, <2>3, SpreadAppend
  <2>5. Those(Put(r, x), There) = IF x \in There THEN Put(k, x) ELSE k
    BY <2>k, ThoseAppend DEF Put
  <2>6. c = IF x \in There THEN Adds(x) ELSE <<>>
    BY <2>c, ChildrenThere
  <2>7. Gather(Put(k, x)) = Plus(Gather(k), Adds(x))
    BY <2>1, GatherAppend
  <2>8. Plus(Gather(k), <<>>) = Gather(k)
    BY <2>1, GatherTypes, ConcatFacts DEF Plus
  <2>9. Those(Spread(Put(r, x)), There) = Gather(Those(Put(r, x), There))
    <3>1. CASE x \in There
      BY <2>4, <2>5, <2>6, <2>7, <3>1, Zenon
    <3>2. CASE x \notin There
      BY <2>4, <2>5, <2>6, <2>8, <3>2, Zenon
    <3> QED
      BY <3>1, <3>2
  <2>10. Put(r, x) \in Seq(Bp) /\ Append(r, x) = Put(r, x)
    BY DEF Put
  <2>11. Put(r, x) \in Q
    BY <2>9, <2>10
  <2> QED
    BY <2>10, <2>11, Zenon
<1> HIDE DEF Q
<1>3. s \in Q
  BY <1>1, <1>2, SeqInduction
<1> QED
  BY <1>3 DEF Q

\* Row by row down the tree.
LEMMA RowBelow ==
  ASSUME IsDnode(d), Full, NEW k \in 0 .. MaxLevels - 2
  PROVE  Row(k + 1) = Gather(Row(k)) /\ Row(k) \in Seq(Bp)
<1>1. k \in 0 .. MaxLevels - 1 /\ k + 1 \in 0 .. MaxLevels - 1 /\ k + 1 # 0 /\ (k + 1) - 1 = k
  BY TreeAssumption
<1>2. Layer[k] \in Seq(Bp)
  BY <1>1, LayerTypes
<1>3. Layer[k + 1] = Spread(Layer[k])
  BY <1>1, LayerIs DEF Below, Spread
<1> QED
  BY <1>2, <1>3, SpreadThere, ThoseTypes DEF Row

\* The dnode's own pointers that are there are those that are no holes
\* (vfs.rs:414).
LEMMA FirstRow ==
  ASSUME IsDnode(d)
  PROVE  Row(0) = Those(d.top, Present)
<1>1. 0 \in 0 .. MaxLevels - 1
  BY TreeAssumption
<1>2. Layer[0] = d.top
  BY <1>1, LayerIs DEF Below
<1>3. d.top \in Seq(Pointer)
  BY DEF IsDnode
<1>4. Pointer \cap There = Pointer \cap Present
  BY DEF Pointer, There, Lost, Ptr
<1> HIDE DEF Pointer
<1> QED
  BY <1>2, <1>3, <1>4, ThoseSame DEF Row

\* Below an empty row there is nothing, down to the leaves: the loop may end early
\* (vfs.rs:418).
LEMMA NothingBelow ==
  ASSUME IsDnode(d), Full, NEW k \in 0 .. Depth, Row(k) = <<>>
  PROVE  Row(Depth) = <<>>
<1>n. PICK depth : depth = Depth
  OBVIOUS
<1>1. MaxLevels \in Nat \ {0} /\ depth \in 0 .. MaxLevels - 1 /\ k \in 0 .. depth
  BY <1>n, LevelsTypes, TreeAssumption
<1> DEFINE T == {n \in Nat : n < k \/ Row(n) = <<>>}
<1>2. 0 \in T
  <2>1. 0 < k \/ 0 = k
    BY <1>1
  <2> QED
    BY <2>1
<1>3. ASSUME NEW n \in 0 .. depth - 1, n \in T PROVE n + 1 \in T
  <2>1. n \in Nat /\ n + 1 \in Nat /\ n \in 0 .. MaxLevels - 2
    BY <1>1
  <2>2. CASE n < k
    <3>1. n + 1 < k \/ n + 1 = k
      BY <1>1, <2>1, <2>2
    <3> QED
      BY <2>1, <3>1
  <2>3. CASE ~ (n < k)
    <3>1. Row(n) = <<>>
      BY <1>3, <2>3
    <3>2. Row(n + 1) = <<>>
      BY <2>1, <3>1, RowBelow, GatherNone
    <3> QED
      BY <2>1, <3>2
  <2> QED
    BY <2>2, <2>3
<1> HIDE DEF T
<1>4. \A n \in 0 .. depth : n \in T
  <2>1. depth \in Nat
    BY <1>1
  <2> QED
    BY <1>2, <1>3, <2>1, UpTo
<1>5. depth \in 0 .. depth /\ ~ (depth < k)
  BY <1>1
<1>6. depth \in T
  BY <1>4, <1>5
<1> QED
  BY <1>5, <1>6, <1>n DEF T

\* Every pointer of a layer is the dnode's, an indirect block's, or not there.
LEMMA LayerPointers ==
  ASSUME IsDnode(d), NEW k \in 0 .. MaxLevels - 1
  PROVE  Layer[k] \in Seq(Pointer \cup {Lost})
<1>a. PICK A : A = Pointer \cup {Lost}
  OBVIOUS
<1>0. MaxLevels \in Nat \ {0}
  BY TreeAssumption
<1>1. ASSUME NEW b \in A PROVE Children(b) \in Seq(A)
  <2>f. PICK F : F = Fanout
    OBVIOUS
  <2>1. F \in Nat
    BY <2>f, PowerStep DEF Fanout, IsDnode
  <2>2. ASSUME NEW n \in 1 .. F, ~b.hole, Readable(b), n <= Len(Kids(b)) PROVE Kids(b)[n] \in A
    <3>1. Kids(b) \in Seq(Pointer)
      <4> HIDE DEF Pointer
      <4> QED
        BY <2>2 DEF Kids, Readable, IsDnode
    <3> HIDE DEF Pointer
    <3>2. Kids(b)[n] \in Pointer
      BY <2>1, <2>2, <3>1
    <3> QED
      BY <1>a, <3>2
  <2> DEFINE child(n) == IF b.hole THEN b ELSE IF Readable(b) /\ n <= Len(Kids(b)) THEN Kids(b)[n] ELSE Lost
  <2>3. Children(b) = [n \in 1 .. F |-> child(n)]
    BY <2>f DEF Children
  <2>4. \A n \in 1 .. F : child(n) \in A
    BY <1>1, <1>a, <2>2
  <2> HIDE DEF child
  <2> QED
    BY <2>1, <2>3, <2>4
<1>2. ASSUME NEW s \in Seq(A) PROVE Spread(s) \in Seq(A)
  <2>f. PICK f : f = [b \in A |-> Children(b)]
    OBVIOUS
  <2>1. f \in [A -> Seq(A)]
    BY <1>1, <2>f
  <2>2. Lost \in A
    BY <1>a
  <2>3. Mapped(f, s) \in Seq(Seq(A))
    BY <2>1, <2>2, MapAppend
  <2>4. Spread(s) = FlattenSeq(Mapped(f, s))
    <3>1. \A n \in DOMAIN s : s[n] \in A
      OBVIOUS
    <3>2. \A n \in DOMAIN s : f[s[n]] = Children(s[n])
      BY <2>f, <3>1
    <3> QED
      BY <3>2 DEF Spread, Mapped
  <2> QED
    BY <2>3, <2>4, FlattenTypes
<1> DEFINE T == {n \in Nat : n \in 0 .. MaxLevels - 1 => Layer[n] \in Seq(A)}
<1>3. 0 \in T
  <2>1. 0 \in 0 .. MaxLevels - 1
    BY <1>0
  <2>2. Layer[0] = d.top
    BY <2>1, LayerIs DEF Below
  <2>3. d.top \in Seq(A)
    <3> HIDE DEF Pointer
    <3>1. d.top \in Seq(Pointer) /\ Pointer \subseteq A
      BY <1>a DEF IsDnode
    <3> QED
      BY <3>1
  <2> QED
    BY <2>2, <2>3
<1>4. ASSUME NEW n \in 0 .. MaxLevels - 2, n \in T PROVE n + 1 \in T
  <2>1. n \in Nat /\ n \in 0 .. MaxLevels - 1 /\ n + 1 \in 0 .. MaxLevels - 1 /\ n + 1 # 0 /\ (n + 1) - 1 = n
    BY <1>0
  <2>2. Layer[n] \in Seq(A)
    BY <1>4, <2>1
  <2>3. Layer[n + 1] = Spread(Layer[n])
    BY <2>1, LayerIs DEF Below, Spread
  <2>4. Layer[n + 1] \in Seq(A)
    BY <1>2, <2>2, <2>3
  <2> QED
    BY <2>1, <2>4
<1> HIDE DEF T
<1>5. \A n \in 0 .. MaxLevels - 1 : n \in T
  <2>1. MaxLevels - 1 \in Nat /\ (MaxLevels - 1) - 1 = MaxLevels - 2
    BY <1>0
  <2> QED
    BY <1>3, <1>4, <2>1, UpTo
<1> QED
  BY <1>5, <1>a DEF T

\* Keeping the pointers with a run at the end keeps the leaves with a run: what was
\* left out on the way has none (retain, vfs.rs:440).
LEMMA RetainAtTheEnd ==
  ASSUME IsDnode(d)
  PROVE  Those(Row(Depth), WithRun) = LeavesWithRun
<1>1. Depth \in 0 .. MaxLevels - 1
  BY LevelsTypes
<1>2. Layer[Depth] \in Seq(Pointer \cup {Lost})
  BY <1>1, LayerPointers
<1>3. Those(Those(Layer[Depth], There), WithRun) = Those(Layer[Depth], There \cap WithRun)
  BY <1>2, ThoseTwice
<1>4. (Pointer \cup {Lost}) \cap (There \cap WithRun) = (Pointer \cup {Lost}) \cap WithRun
  BY DEF Pointer, There, Present, WithRun, Lost, Ptr
<1>5. Those(Layer[Depth], There \cap WithRun) = Those(Layer[Depth], WithRun)
  <2> HIDE DEF Pointer
  <2> QED
    BY <1>2, <1>4, ThoseSame
<1> QED
  BY <1>3, <1>5 DEF Row, LeavesWithRun

\* One more element of a front.
LEMMA FrontNext ==
  ASSUME NEW A, NEW s \in Seq(A), NEW n \in 1 .. Len(s)
  PROVE  /\ SubSeq(s, 1, n - 1) \in Seq(A)
         /\ s[n] \in A
         /\ SubSeq(s, 1, n) \in Seq(A)
         /\ SubSeq(s, 1, n) = Put(SubSeq(s, 1, n - 1), s[n])
<1>m. PICK m : m = Len(s)
  OBVIOUS
<1>1. m \in Nat /\ n \in 1 .. m /\ n \in Nat /\ n - 1 \in Nat /\ n - 1 <= m /\ n <= m
  BY <1>m
<1>f. PICK front : front = SubSeq(s, 1, n - 1)
  OBVIOUS
<1>2. front \in Seq(A) /\ Len(front) = n - 1 /\ \A k \in 1 .. n - 1 : front[k] = s[k]
  BY <1>f, <1>m, <1>1
<1>3. s[n] \in A
  OBVIOUS
<1>p. PICK put : put = Put(front, s[n])
  OBVIOUS
<1>4. put \in Seq(A) /\ Len(put) = n /\ put[n] = s[n] /\ \A k \in 1 .. n - 1 : put[k] = front[k]
  BY <1>1, <1>2, <1>3, <1>p DEF Put
<1>c. PICK c : c = SubSeq(s, 1, n)
  OBVIOUS
<1>5. c \in Seq(A) /\ Len(c) = n /\ \A k \in 1 .. n : c[k] = s[k]
  BY <1>c, <1>m, <1>1
<1>6. \A k \in 1 .. n : c[k] = put[k]
  <2>1. \A k \in 1 .. n : k \in 1 .. n - 1 \/ k = n
    BY <1>1
  <2> QED
    BY <1>2, <1>4, <1>5, <2>1
<1>7. c = put
  BY <1>4, <1>5, <1>6, SameSeq
<1> QED
  BY <1>2, <1>3, <1>5, <1>7, <1>c, <1>f, <1>p

(***************************************************************************)
(* The way down.                                                           *)
(***************************************************************************)

\* No row of the tree is longer than the bound.
Fits == \A k \in 0 .. Depth : Len(Row(k)) <= MaxRuns

\* The front of row k, and all of it if nothing was ever cut.
Holds(s, k) == IsPrefix(s, Row(k)) /\ (Fits => s = Row(k))

\* What l0_blkptrs has gathered from the first n pointers of s: the front of it
\* once the bound is reached.
Gathered(t, s, n) ==
  LET all == Gather(SubSeq(s, 1, n)) IN IsPrefix(t, all) /\ (t = all \/ Len(t) = MaxRuns)

DownInv ==
  WellFormed =>
    /\ pc = "level" => remaining \in 1 .. Levels /\ Holds(level, Levels - remaining)
    /\ pc = "pointers" =>
         /\ remaining \in 1 .. Levels - 1
         /\ Holds(level, Levels - 1 - remaining)
         /\ i \in 1 .. Len(level) + 1
         /\ Gathered(next, level, i - 1)

RunsInv == DownInv /\ RunsAreTheFiles

\* Nothing writes the image while it is read (pread on an immutable source).
LEMMA ImageIsFixed == [Next]_vars => d' = d
BY DEF Next, vars, EnterLevel, SkipUnreadable, Expand, LeaveLevel, Return, Returned

\* What is said of the image alone stays true.
LEMMA RowsStay ==
  ASSUME d' = d
  PROVE  /\ WellFormed' = WellFormed
         /\ Levels' = Levels
         /\ Depth' = Depth
         /\ \A s, k : Holds(s, k)' = Holds(s, k)
         /\ \A t, s, n : Gathered(t, s, n)' = Gathered(t, s, n)
         /\ LeavesWithRun' = LeavesWithRun
         /\ Fits' = Fits
<1>1. WellFormed' = WellFormed
  BY DEF WellFormed, Fanout
<1>2. Levels' = Levels /\ Depth' = Depth
  BY DEF Levels, Depth
<1>3. Fits' = Fits
  BY DEF Fits, Row, Layer, Children, Fanout, Readable, Kids, Depth, Levels
<1>4. \A s, k : Holds(s, k)' = Holds(s, k)
  BY <1>3 DEF Holds, Row, Layer, Children, Fanout, Readable, Kids
<1>5. \A t, s, n : Gathered(t, s, n)' = Gathered(t, s, n)
  BY DEF Gathered, Gather, Adds, Readable, Kids
<1>6. LeavesWithRun' = LeavesWithRun
  BY DEF LeavesWithRun, Layer, Children, Fanout, Readable, Kids, Depth, Levels
<1> QED
  BY <1>1, <1>2, <1>3, <1>4, <1>5, <1>6

\* What a tree that is well formed has.
LEMMA WellFormedFacts ==
  ASSUME IsDnode(d), WellFormed
  PROVE  /\ Full
         /\ Levels \in 1 .. MaxLevels
         /\ Depth = Levels - 1
         /\ Depth \in 0 .. MaxLevels - 1
<1>1. d.nlevels \in Nat /\ d.nlevels > 0 /\ MaxLevels \in Nat \ {0}
  BY TreeAssumption DEF IsDnode, WellFormed
<1>2. Levels \in 1 .. MaxLevels
  BY <1>1 DEF Levels
<1>3. Full
  BY DEF WellFormed, Full
<1> QED
  BY <1>1, <1>2, <1>3, LevelsTypes

\* A row is a sequence of pointers.
LEMMA RowTypes ==
  ASSUME IsDnode(d), NEW k \in 0 .. MaxLevels - 1
  PROVE  Row(k) \in Seq(Bp)
BY LayerTypes, ThoseTypes DEF Row

\* The cut keeps the front of a row (take, vfs.rs:415; break, vfs.rs:422, 429).
LEMMA HeldIsWhole ==
  ASSUME IsDnode(d), NEW k \in 0 .. Depth, NEW s \in Seq(Bp), IsPrefix(s, Row(k)),
         s = Row(k) \/ Len(s) = MaxRuns
  PROVE  Holds(s, k)
<1>1. Row(k) \in Seq(Bp)
  <2>1. k \in 0 .. MaxLevels - 1
    BY LevelsTypes, TreeAssumption
  <2> QED
    BY <2>1, RowTypes
<1>2. ASSUME Fits PROVE s = Row(k)
  <2>1. Len(Row(k)) <= MaxRuns
    BY <1>2 DEF Fits
  <2>2. CASE Len(s) = MaxRuns
    <3>1. Len(Row(k)) <= Len(s)
      BY <2>1, <2>2
    <3> QED
      BY <1>1, <3>1, PrefixWhole
  <2> QED
    BY <2>2
<1> QED
  BY <1>2 DEF Holds

\* At the start the dnode's own pointers are held (vfs.rs:410-417).
LEMMA InitDown == Init => DownInv
<1> SUFFICES ASSUME Init, WellFormed PROVE DownInv
  BY DEF DownInv
<1>1. IsDnode(d)
  BY InitTypes DEF TypeOK
<1>2. Levels \in 1 .. MaxLevels /\ Depth = Levels - 1 /\ MaxLevels \in Nat
  BY <1>1, WellFormedFacts, TreeAssumption
<1>3. level = Cut(Row(0)) /\ remaining = Levels /\ pc = "level"
  BY <1>1, FirstRow DEF Init
<1>4. 0 \in 0 .. MaxLevels - 1 /\ 0 \in 0 .. Depth /\ remaining \in 1 .. Levels /\ Levels - remaining = 0
  BY <1>2, <1>3
<1>5. Row(0) \in Seq(Bp)
  BY <1>1, <1>4, RowTypes
<1>6. level \in Seq(Bp) /\ IsPrefix(level, Row(0)) /\ (level = Row(0) \/ Len(level) = MaxRuns)
  BY <1>3, <1>5, CutFacts
<1>7. Holds(level, 0)
  BY <1>1, <1>4, <1>6, HeldIsWhole
<1> QED
  BY <1>3, <1>4, <1>7 DEF DownInv

\* A level that is entered has nothing gathered below it yet (vfs.rs:418-420).
LEMMA EnterDown ==
  ASSUME TypeOK, DownInv, WellFormed, EnterLevel
  PROVE  /\ remaining' \in 1 .. Levels - 1
         /\ Holds(level, Levels - 1 - remaining')
         /\ i' \in 1 .. Len(level) + 1
         /\ Gathered(next', level, i' - 1)
<1>1. /\ pc = "level" /\ remaining > 1 /\ remaining' = remaining - 1
      /\ next' = <<>> /\ i' = 1
  BY DEF EnterLevel
<1>2. remaining \in 1 .. Levels /\ Holds(level, Levels - remaining)
  BY <1>1 DEF DownInv
<1>3. IsDnode(d) /\ level \in Seq(Bp) /\ Levels \in 1 .. MaxLevels /\ MaxLevels \in Nat
  BY WellFormedFacts, TreeAssumption DEF TypeOK
<1>4. remaining - 1 \in 1 .. Levels - 1 /\ Levels - 1 - (remaining - 1) = Levels - remaining
  BY <1>1, <1>2, <1>3
<1>5. Len(level) \in Nat
  BY <1>3
<1>6. i' \in 1 .. Len(level) + 1 /\ i' - 1 = 0
  BY <1>1, <1>5
<1>7. SubSeq(level, 1, 0) = <<>>
  BY <1>3
<1>8. <<>> \in Seq(Bp) /\ <<>> = <<>> \o <<>>
  OBVIOUS
<1>9. IsPrefix(<<>>, <<>>)
  BY <1>8, PrefixIs
<1>10. Gathered(<<>>, level, 0)
  BY <1>7, <1>9, GatherNone DEF Gathered
<1> QED
  BY <1>1, <1>2, <1>4, <1>6, <1>10

\* One pointer more, whether it can be read or not (vfs.rs:421-437).
LEMMA PointerDown ==
  ASSUME TypeOK, AtPointer, Gathered(next, level, i - 1), NEW t, t = Cut(next \o Adds(level[i]))
  PROVE  i + 1 \in 1 .. Len(level) + 1 /\ Gathered(t, level, (i + 1) - 1)
<1>1. IsDnode(d) /\ level \in Seq(Bp) /\ next \in Seq(Bp)
  BY DEF TypeOK
<1>2. i \in 1 .. Len(level) /\ Len(level) \in Nat /\ Len(next) \in Nat /\ level[i] \in Bp
  BY AtPointerTypes
<1>3. i + 1 \in 1 .. Len(level) + 1 /\ (i + 1) - 1 = i
  BY <1>2
<1>f. PICK front : front = SubSeq(level, 1, i - 1)
  OBVIOUS
<1>4. /\ front \in Seq(Bp) /\ SubSeq(level, 1, i) \in Seq(Bp)
      /\ SubSeq(level, 1, i) = Put(front, level[i])
  BY <1>1, <1>2, <1>f, FrontNext
<1>5. next = Gather(front)
  <2>1. next = Gather(front) \/ Len(next) = MaxRuns
    BY <1>f DEF Gathered
  <2>2. Len(next) < MaxRuns
    BY DEF AtPointer
  <2> QED
    BY <1>2, <2>1, <2>2, RunsAssumption
<1>a. PICK all : all = Gather(SubSeq(level, 1, i))
  OBVIOUS
<1>6. all = Plus(next, Adds(level[i]))
  BY <1>1, <1>2, <1>4, <1>5, <1>a, GatherAppend
<1>7. all \in Seq(Bp)
  BY <1>1, <1>4, <1>a, GatherTypes
<1>8. t = Cut(all)
  BY <1>6 DEF Plus
<1>9. IsPrefix(t, all) /\ (t = all \/ Len(t) = MaxRuns)
  BY <1>7, <1>8, CutFacts
<1>10. Gathered(t, level, i)
  BY <1>9, <1>a DEF Gathered
<1> QED
  BY <1>3, <1>10

\* A level that is left hands its row to the one below: gathered whole, or cut at
\* the bound (vfs.rs:438).
LEMMA LeaveDown ==
  ASSUME TypeOK, DownInv, WellFormed, LeaveLevel
  PROVE  remaining \in 1 .. Levels /\ Holds(next, Levels - remaining)
<1>1. pc = "pointers" /\ ~AtPointer
  BY DEF LeaveLevel
<1>2. /\ remaining \in 1 .. Levels - 1
      /\ Holds(level, Levels - 1 - remaining)
      /\ i \in 1 .. Len(level) + 1
      /\ Gathered(next, level, i - 1)
  BY <1>1 DEF DownInv
<1>3. IsDnode(d) /\ level \in Seq(Bp) /\ next \in Seq(Bp) /\ Len(next) <= MaxRuns
  BY DEF TypeOK
<1>4. Full /\ Levels \in 1 .. MaxLevels /\ MaxLevels \in Nat /\ Depth = Levels - 1
  BY <1>3, WellFormedFacts, TreeAssumption
<1>k. PICK k : k = Levels - 1 - remaining
  OBVIOUS
<1>5. /\ k \in 0 .. MaxLevels - 2 /\ k \in 0 .. Depth /\ k + 1 \in 0 .. Depth
      /\ k + 1 \in 0 .. MaxLevels - 1 /\ k + 1 = Levels - remaining /\ remaining \in 1 .. Levels
  BY <1>2, <1>4, <1>k
<1>6. Len(level) \in Nat /\ Len(next) \in Nat
  BY <1>3
<1>f. PICK front : front = SubSeq(level, 1, i - 1)
  OBVIOUS
<1>7. i - 1 \in 0 .. Len(level)
  BY <1>2, <1>6
<1>8. front \in Seq(Bp) /\ IsPrefix(front, level) /\ (i - 1 = Len(level) => front = level)
  <2>1. front \in Seq(Bp) /\ Len(front) = i - 1 /\ IsPrefix(front, level)
    BY <1>3, <1>7, <1>f, CutIsPrefix
  <2>2. ASSUME i - 1 = Len(level) PROVE front = level
    <3>1. Len(level) <= Len(front)
      BY <1>6, <2>1, <2>2
    <3> QED
      BY <1>3, <2>1, <3>1, PrefixWhole
  <2> QED
    BY <2>1, <2>2
<1>9. Row(k + 1) = Gather(Row(k)) /\ Row(k) \in Seq(Bp) /\ Row(k + 1) \in Seq(Bp)
  BY <1>3, <1>4, <1>5, RowBelow, RowTypes
<1>10. IsPrefix(level, Row(k)) /\ (Fits => level = Row(k))
  BY <1>2, <1>k DEF Holds
<1>11. IsPrefix(next, Gather(front)) /\ (next = Gather(front) \/ Len(next) = MaxRuns)
  BY <1>2, <1>f DEF Gathered
<1>12. IsPrefix(next, Row(k + 1))
  <2>1. IsPrefix(Gather(front), Gather(level)) /\ IsPrefix(Gather(level), Gather(Row(k)))
    BY <1>3, <1>8, <1>9, <1>10, GatherPrefix
  <2>2. Gather(front) \in Seq(Bp) /\ Gather(level) \in Seq(Bp)
    BY <1>3, <1>8, GatherTypes
  <2>3. IsPrefix(next, Gather(level))
    BY <1>3, <1>11, <2>1, <2>2, PrefixOfPrefix
  <2> QED
    BY <1>3, <1>9, <2>1, <2>2, <2>3, PrefixOfPrefix
<1>13. CASE Len(next) = MaxRuns
  BY <1>3, <1>5, <1>12, <1>13, HeldIsWhole
<1>14. CASE Len(next) # MaxRuns
  <2>1. ~ (i <= Len(level))
    <3>1. Len(next) < MaxRuns
      BY <1>3, <1>6, <1>14, RunsAssumption
    <3> QED
      BY <1>1, <3>1 DEF AtPointer
  <2>2. i - 1 = Len(level)
    BY <1>2, <1>6, <2>1
  <2>3. next = Gather(level)
    BY <1>8, <1>11, <1>14, <2>2
  <2>4. Fits => next = Row(k + 1)
    BY <1>9, <1>10, <2>3
  <2> QED
    BY <1>5, <1>12, <2>4 DEF Holds
<1> QED
  BY <1>13, <1>14

\* The last row that was held, with what has no run left out, is the leaves' runs
\* (vfs.rs:418, 440).
LEMMA ReturnDown ==
  ASSUME TypeOK, DownInv, WellFormed, Return
  PROVE  /\ IsPrefix(Those(level, WithRun), LeavesWithRun)
         /\ Fits => Those(level, WithRun) = LeavesWithRun
<1>1. pc = "level" /\ (remaining <= 1 \/ level = <<>>)
  BY DEF Return
<1>2. remaining \in 1 .. Levels /\ Holds(level, Levels - remaining)
  BY <1>1 DEF DownInv
<1>3. IsDnode(d) /\ level \in Seq(Bp)
  BY DEF TypeOK
<1>4. /\ Full /\ Levels \in 1 .. MaxLevels /\ MaxLevels \in Nat
      /\ Depth = Levels - 1 /\ Depth \in 0 .. MaxLevels - 1
  BY <1>3, WellFormedFacts, TreeAssumption
<1>k. PICK k : k = Levels - remaining
  OBVIOUS
<1>5. k \in 0 .. Depth /\ (remaining <= 1 => k = Depth)
  BY <1>2, <1>4, <1>k
<1>6. IsPrefix(level, Row(k)) /\ (Fits => level = Row(k))
  BY <1>2, <1>k DEF Holds
<1>7. Row(Depth) \in Seq(Bp) /\ Those(Row(Depth), WithRun) = LeavesWithRun
  BY <1>3, <1>4, RowTypes, RetainAtTheEnd
<1>8. CASE remaining <= 1
  BY <1>3, <1>5, <1>6, <1>7, <1>8, ThosePrefix
<1>9. CASE level = <<>>
  <2>1. Those(level, WithRun) = <<>>
    BY <1>9, ThoseEmpty
  <2>2. LeavesWithRun \in Seq(Bp)
    BY <1>7, ThoseTypes
  <2>3. IsPrefix(<<>>, LeavesWithRun)
    <3>1. <<>> \in Seq(Bp) /\ LeavesWithRun = <<>> \o LeavesWithRun
      BY <2>2, ConcatFacts
    <3> QED
      BY <2>2, <3>1, PrefixIs
  <2>4. ASSUME Fits PROVE LeavesWithRun = <<>>
    <3>1. Row(k) = <<>>
      BY <1>6, <1>9, <2>4
    <3>2. Row(Depth) = <<>>
      BY <1>3, <1>4, <1>5, <3>1, NothingBelow
    <3> QED
      BY <1>7, <3>2, ThoseEmpty
  <2> QED
    BY <2>1, <2>3, <2>4
<1> QED
  BY <1>1, <1>8, <1>9

\* Level by level, what is held is the front of its row.
LEMMA StepDown == TypeOK /\ DownInv /\ [Next]_vars => DownInv'
<1> SUFFICES ASSUME TypeOK, DownInv, [Next]_vars PROVE DownInv'
  OBVIOUS
<1>1. d' = d
  BY ImageIsFixed
<1>2. /\ WellFormed' = WellFormed /\ Levels' = Levels
      /\ \A s, k : Holds(s, k)' = Holds(s, k)
      /\ \A t, s, n : Gathered(t, s, n)' = Gathered(t, s, n)
  BY <1>1, RowsStay
<1>3. SUFFICES ASSUME WellFormed PROVE DownInv'
  BY <1>2 DEF DownInv
<1>4. ASSUME pc' = "level", remaining' \in 1 .. Levels, Holds(level', Levels - remaining')
      PROVE  DownInv'
  <2>1. Holds(level, Levels - remaining)'
    BY <1>2, <1>4 DEF Holds, Row
  <2> QED
    BY <1>2, <1>4, <2>1 DEF DownInv
<1>5. ASSUME pc' = "pointers", remaining' \in 1 .. Levels - 1, Holds(level', Levels - 1 - remaining'),
             i' \in 1 .. Len(level') + 1, Gathered(next', level', i' - 1)
      PROVE  DownInv'
  <2>1. Holds(level, Levels - 1 - remaining)'
    BY <1>2, <1>5 DEF Holds, Row
  <2>2. Gathered(next, level, i - 1)'
    BY <1>2, <1>5 DEF Gathered, Gather
  <2> QED
    BY <1>2, <1>5, <2>1, <2>2 DEF DownInv
<1>6. CASE EnterLevel
  <2>1. pc' = "pointers" /\ level' = level
    BY <1>6 DEF EnterLevel
  <2>2. /\ remaining' \in 1 .. Levels - 1 /\ Holds(level, Levels - 1 - remaining')
        /\ i' \in 1 .. Len(level) + 1 /\ Gathered(next', level, i' - 1)
    BY <1>3, <1>6, EnterDown
  <2> QED
    BY <1>5, <2>1, <2>2
<1>7. CASE SkipUnreadable \/ Expand
  <2>1. pc = "pointers" /\ pc' = pc /\ level' = level /\ remaining' = remaining /\ i' = i + 1 /\ AtPointer
    BY <1>7 DEF SkipUnreadable, Expand, AtPointer
  <2>2. /\ remaining \in 1 .. Levels - 1 /\ Holds(level, Levels - 1 - remaining)
        /\ Gathered(next, level, i - 1)
    BY <1>3, <2>1 DEF DownInv
  <2>3. next' = Cut(next \o Adds(level[i]))
    <3>1. CASE SkipUnreadable
      <4>1. next' = next /\ Adds(level[i]) = <<>>
        BY <3>1 DEF SkipUnreadable, Adds
      <4>2. next \o <<>> = next /\ Cut(next) = next
        <5>1. next \in Seq(Bp) /\ Len(next) <= MaxRuns
          BY DEF TypeOK
        <5>2. ~ (Len(next) > MaxRuns)
          <6>1. Len(next) \in Nat
            BY <5>1
          <6> QED
            BY <5>1, <6>1, RunsAssumption
        <5> QED
          BY <5>1, <5>2, ConcatFacts DEF Cut
      <4> QED
        BY <4>1, <4>2
    <3>2. CASE Expand
      BY <3>2 DEF Expand, Adds
    <3> QED
      BY <1>7, <3>1, <3>2
  <2>4. i + 1 \in 1 .. Len(level) + 1 /\ Gathered(next', level, (i + 1) - 1)
    BY <2>1, <2>2, <2>3, PointerDown
  <2> QED
    BY <1>5, <2>1, <2>2, <2>4
<1>8. CASE LeaveLevel
  <2>1. pc' = "level" /\ level' = next /\ remaining' = remaining
    BY <1>8 DEF LeaveLevel
  <2>2. remaining \in 1 .. Levels /\ Holds(next, Levels - remaining)
    BY <1>3, <1>8, LeaveDown
  <2> QED
    BY <1>4, <2>1, <2>2
<1>9. CASE Return
  BY <1>9 DEF Return, DownInv
<1>10. CASE Returned \/ UNCHANGED vars
  <2>1. UNCHANGED <<pc, level, remaining, i, next>>
    BY <1>10 DEF Returned, vars
  <2>2. CASE pc = "level"
    <3>1. remaining \in 1 .. Levels /\ Holds(level, Levels - remaining)
      BY <1>3, <2>2 DEF DownInv
    <3> QED
      BY <1>4, <2>1, <2>2, <3>1
  <2>3. CASE pc = "pointers"
    <3>1. /\ remaining \in 1 .. Levels - 1 /\ Holds(level, Levels - 1 - remaining)
          /\ i \in 1 .. Len(level) + 1 /\ Gathered(next, level, i - 1)
      BY <1>3, <2>3 DEF DownInv
    <3> QED
      BY <1>5, <2>1, <2>3, <3>1
  <2>4. CASE pc \notin {"level", "pointers"}
    BY <2>1, <2>4 DEF DownInv
  <2> QED
    BY <2>2, <2>3, <2>4
<1> QED
  BY <1>6, <1>7, <1>8, <1>9, <1>10 DEF Next

\* What is returned stays what was returned.
LEMMA StepRuns == TypeOK /\ RunsInv /\ [Next]_vars => RunsInv'
<1> SUFFICES ASSUME TypeOK, RunsInv, [Next]_vars PROVE RunsInv'
  OBVIOUS
<1>1. d' = d
  BY ImageIsFixed
<1>2. WellFormed' = WellFormed /\ LeavesWithRun' = LeavesWithRun /\ Fits' = Fits
  BY <1>1, RowsStay
<1>3. DownInv'
  BY StepDown DEF RunsInv
<1>4. Fits <=> \A k \in 0 .. Depth : Len(Those(Layer[k], Present \ {Lost})) <= MaxRuns
  BY DEF Fits, Row, There
<1>5. RunsAreTheFiles <=> (pc = "returned" /\ WellFormed =>
        IsPrefix(level, LeavesWithRun) /\ (Fits => level = LeavesWithRun))
  BY <1>4 DEF RunsAreTheFiles
<1>6. RunsAreTheFiles' <=> (pc' = "returned" /\ WellFormed =>
        IsPrefix(level', LeavesWithRun) /\ (Fits => level' = LeavesWithRun))
  <2>1. RunsAreTheFiles' <=> (pc' = "returned" /\ WellFormed' =>
          IsPrefix(level', LeavesWithRun') /\ (Fits' => level' = LeavesWithRun'))
    BY DEF RunsAreTheFiles, Fits, Row, There
  <2> QED
    BY <1>2, <2>1
<1>7. RunsAreTheFiles'
  <2>1. CASE Return
    <3>1. level' = Those(level, WithRun)
      BY <2>1 DEF Return
    <3>2. WellFormed => /\ IsPrefix(Those(level, WithRun), LeavesWithRun)
                        /\ Fits => Those(level, WithRun) = LeavesWithRun
      BY <2>1, ReturnDown DEF RunsInv
    <3> QED
      BY <1>6, <3>1, <3>2
  <2>2. CASE Returned \/ UNCHANGED vars
    <3>1. pc' = pc /\ level' = level
      BY <2>2 DEF Returned, vars
    <3> QED
      BY <1>5, <1>6, <3>1 DEF RunsInv
  <2>3. CASE EnterLevel \/ SkipUnreadable \/ Expand \/ LeaveLevel
    <3>1. pc' # "returned"
      BY <2>3 DEF EnterLevel, SkipUnreadable, Expand, LeaveLevel, AtPointer
    <3> QED
      BY <1>6, <3>1
  <2> QED
    BY <2>1, <2>2, <2>3 DEF Next
<1> QED
  BY <1>3, <1>7 DEF RunsInv

\* The runs of an object are those of its blocks, in order, none invented, repeated
\* or lost but what MAX_RUNS cuts off the end or is behind an unreadable block
\* (l0_blkptrs, vfs.rs:409-442; extents, vfs.rs:531-559), for every tree, fanout
\* and bound.
THEOREM RunsAreInOrder == Spec => []RunsAreTheFiles
<1>1. Init => RunsInv
  <2>1. Init => RunsAreTheFiles
    BY DEF Init, RunsAreTheFiles
  <2> QED
    BY <2>1, InitDown DEF RunsInv
<1>2. RunsInv => RunsAreTheFiles
  BY DEF RunsInv
<1> QED
  BY <1>1, <1>2, InitTypes, StepTypes, StepRuns, PTL DEF Spec
==============================================================================
