------------------------ MODULE RecoverDeletedProofs ------------------------
(***************************************************************************)
(* Proofs about recover_deleted, for every set of images, every set of     *)
(* file names and every budget.                                            *)
(*                                                                         *)
(* TypeOK is inductive by itself.  Control relates pc to the loop's        *)
(* variables and is the strengthening every other invariant rests on.      *)
(***************************************************************************)
EXTENDS RecoverDeleted, TLAPS

\* What appending does to a sequence's positions.
LEMMA AppendFacts ==
  ASSUME NEW S, NEW s \in Seq(S), NEW e \in S
  PROVE  /\ Append(s, e) \in Seq(S)
         /\ Append(s, e) # <<>>
         /\ Len(Append(s, e)) = Len(s) + 1
         /\ DOMAIN Append(s, e) = DOMAIN s \cup {Len(s) + 1}
         /\ Len(s) + 1 \notin DOMAIN s
         /\ Append(s, e)[Len(s) + 1] = e
         /\ \A k \in DOMAIN s : Append(s, e)[k] = s[k]
OBVIOUS

\* A dataset's listing is a sequence of entries, whatever could be read.
LEMMA ListingType ==
  ASSUME NEW ds \in Dataset
  PROVE  Listing(ds) \in Seq(Entry)
BY DEF Listing, Dataset

\* The names a listing yields are names.
LEMMA ListedNamesType ==
  ASSUME NEW ds \in Dataset
  PROVE  ListedNames(ds) \subseteq Name
<1>1. \A i \in DOMAIN Listing(ds) : Listing(ds)[i] \in Entry
  BY ListingType
<1>2. \A i \in DOMAIN Listing(ds) : Listing(ds)[i].name \in Name
  BY <1>1 DEF Entry
<1> QED BY <1>2 DEF ListedNames

\* The entry under the loop has an entry's type.
LEMMA CurrentType ==
  ASSUME TypeOK, InListing, Readable(snap)
  PROVE  /\ Current \in Entry
         /\ File(Current, snap) \in FileType
<1>1. image.snaps[snap] \in Dataset
  BY DEF TypeOK, IsImage, Readable
<1>2. CurrentListing \in Seq(Entry)
  BY <1>1, ListingType DEF CurrentListing
<1>3. Current \in Entry
  BY <1>2 DEF InListing, Current
<1> QED BY <1>3 DEF File, FileType, Entry, TypeOK

\* What pc says of the loop's variables.
Control ==
  /\ pc = "boot" => live = {} /\ seen = <<>> /\ out = <<>> /\ budget = MaxBudget
  /\ pc \in {"walk", "diff"} => /\ step = BootLookups
                                /\ live = ListedNames(image.head)
                                /\ budget + Len(seen) = MaxBudget
                                /\ \A k \in DOMAIN seen : Readable(seen[k])
  /\ pc = "walk" => snap = NextOfChain
  /\ pc = "diff" => seen # <<>> /\ snap = seen[Len(seen)]

TypeInv == TypeOK /\ (pc = "diff" => Readable(snap))

\* The loop's variables keep their types: no lookup outside the objects that can
\* be read, and a budget that never goes below zero.
THEOREM TypeCorrect == Spec => []TypeOK
<1>1. Init => TypeInv
  BY ImageAssumption, BudgetAssumption DEF Init, TypeInv, TypeOK, BootLookups
<1>2. TypeInv /\ [Next]_vars => TypeInv'
  <2> SUFFICES ASSUME TypeInv, [Next]_vars
               PROVE  TypeInv'
    OBVIOUS
  <2> USE DEF TypeInv, TypeOK, walkVars
  <2>1. CASE Lookup
    BY <2>1 DEF Lookup, IsImage, Readable, BootLookups
  <2>2. CASE LookupFails
    BY <2>2 DEF LookupFails
  <2>3. CASE ListLive
    <3>1. image.head \in Dataset
      BY DEF IsImage
    <3>2. ListedNames(image.head) \subseteq Name
      BY <3>1, ListedNamesType
    <3> QED BY <2>3, <3>1, <3>2 DEF ListLive, Dataset
  <2>4. CASE EndWalk
    BY <2>4 DEF EndWalk
  <2>5. CASE BreakOnCycle
    BY <2>5, BudgetAssumption DEF BreakOnCycle, Iterate
  <2>6. CASE BreakOnDangling
    BY <2>6, BudgetAssumption DEF BreakOnDangling, Iterate
  <2>7. CASE EnterSnapshot
    BY <2>7, BudgetAssumption DEF EnterSnapshot, Iterate, Readable
  <2>8. CASE SkipLive \/ SkipRecovered \/ SkipUnreadable
    BY <2>8 DEF SkipLive, SkipRecovered, SkipUnreadable, NextEntry, Readable
  <2>9. CASE Carve
    <3>1. File(Current, snap) \in FileType
      BY <2>9, CurrentType DEF Carve, InListing
    <3> QED BY <2>9, <3>1 DEF Carve, NextEntry, Readable
  <2>10. CASE LeaveSnapshot
    BY <2>10 DEF LeaveSnapshot, IsImage, Readable, Dataset
  <2>11. CASE Returned \/ UNCHANGED vars
    BY <2>11 DEF Returned, vars, Readable
  <2> QED
    BY <2>1, <2>2, <2>3, <2>4, <2>5, <2>6, <2>7, <2>8, <2>9, <2>10, <2>11 DEF Next
<1> QED BY <1>1, <1>2, PTL DEF Spec, TypeInv

-----------------------------------------------------------------------------
(***************************************************************************)
(* Control.  EnterSnapshot is where it earns its keep: the snapshot that   *)
(* joins seen is the chain's next, it is readable, and it took one unit of *)
(* the budget.                                                             *)
(***************************************************************************)
LEMMA ControlInvariant == Spec => []Control
<1>1. Init => Control
  BY DEF Init, Control
<1>2. TypeOK /\ Control /\ [Next]_vars => Control'
  <2> SUFFICES ASSUME TypeOK, Control, [Next]_vars
               PROVE  Control'
    OBVIOUS
  <2> USE DEF Control, walkVars
  <2>1. CASE Lookup \/ LookupFails
    BY <2>1 DEF Lookup, LookupFails
  <2>2. CASE ListLive
    BY <2>2, BudgetAssumption DEF ListLive, NextOfChain, ListedNames, Listing
  <2>3. CASE EndWalk \/ BreakOnCycle \/ BreakOnDangling
    BY <2>3 DEF EndWalk, BreakOnCycle, BreakOnDangling, Iterate
  <2>4. CASE EnterSnapshot
    <3>1. /\ seen' = Append(seen, snap)
          /\ budget' = budget - 1
          /\ pc = "walk" /\ pc' = "diff"
          /\ Readable(snap)
          /\ UNCHANGED <<image, step, live, snap>>
      BY <2>4 DEF EnterSnapshot, Iterate, Readable
    <3>2. /\ seen' # <<>>
          /\ Len(seen') = Len(seen) + 1
          /\ seen'[Len(seen')] = snap
          /\ DOMAIN seen' = DOMAIN seen \cup {Len(seen')}
          /\ \A k \in DOMAIN seen : seen'[k] = seen[k]
      BY <3>1, AppendFacts DEF TypeOK
    <3>3. \A k \in DOMAIN seen' : seen'[k] \in DOMAIN image'.snaps
      BY <3>1, <3>2 DEF Readable
    <3>4. budget' + Len(seen') = MaxBudget
      BY <3>1, <3>2, BudgetAssumption DEF TypeOK
    <3>5. live' = ListedNames(image.head)'
      BY <3>1 DEF ListedNames, Listing
    <3> QED BY <3>1, <3>2, <3>3, <3>4, <3>5 DEF Readable
  <2>5. CASE SkipLive \/ SkipRecovered \/ SkipUnreadable \/ Carve
    BY <2>5 DEF SkipLive, SkipRecovered, SkipUnreadable, Carve, InListing, NextEntry,
                ListedNames, Listing, Readable
  <2>6. CASE LeaveSnapshot
    BY <2>6 DEF LeaveSnapshot, ListedNames, Listing, Readable, NextOfChain
  <2>7. CASE Returned \/ UNCHANGED vars
    BY <2>7 DEF Returned, vars, ListedNames, Listing, Readable, NextOfChain
  <2> QED BY <2>1, <2>2, <2>3, <2>4, <2>5, <2>6, <2>7 DEF Next
<1> QED BY <1>1, <1>2, TypeCorrect, PTL DEF Spec

-----------------------------------------------------------------------------
\* A step changes out only by appending the file under the loop.
LEMMA OutStep ==
  ASSUME TypeOK, Control, [Next]_vars
  PROVE  \/ UNCHANGED out
         \/ Carve /\ Current \in Entry /\ File(Current, snap) \in FileType
<1>1. CASE Carve
  <2>1. Readable(snap)
    BY <1>1 DEF Carve, InListing, Control, TypeOK
  <2> QED BY <1>1, <2>1, CurrentType DEF Carve
<1>2. CASE ~Carve
  BY <1>2 DEF Next, vars, Lookup, LookupFails, ListLive, EndWalk, BreakOnCycle,
              BreakOnDangling, EnterSnapshot, SkipLive, SkipRecovered, SkipUnreadable,
              LeaveSnapshot, Returned
<1> QED BY <1>1, <1>2

\* No step changes the image.
LEMMA ImageStep ==
  ASSUME [Next]_vars
  PROVE  UNCHANGED image
BY DEF Next, vars, walkVars, Lookup, LookupFails, ListLive, EndWalk, BreakOnCycle,
       BreakOnDangling, EnterSnapshot, SkipLive, SkipRecovered, SkipUnreadable, Carve,
       NextEntry, LeaveSnapshot, Returned

\* Whatever the chain of snapshots looks like, a name that the readable live
\* root lists is never reported as deleted.
THEOREM LiveSafe == Spec => []LiveNeverReported
<1>1. Init => LiveNeverReported
  BY DEF Init, LiveNeverReported
<1>2. TypeOK /\ Control /\ LiveNeverReported /\ [Next]_vars => LiveNeverReported'
  <2> SUFFICES ASSUME TypeOK, Control, LiveNeverReported, [Next]_vars, image'.head.root,
                      NEW i \in DOMAIN out'
               PROVE  out'[i].name \notin RootNames(image.head)
    BY ImageStep DEF LiveNeverReported, RootNames
  <2>1. CASE UNCHANGED out
    BY <2>1, ImageStep DEF LiveNeverReported
  <2>2. CASE Carve /\ Current \in Entry /\ File(Current, snap) \in FileType
    <3>1. out' = Append(out, File(Current, snap))
      BY <2>2 DEF Carve
    <3>2. CASE i \in DOMAIN out
      BY <3>1, <3>2, <2>2, AppendFacts, ImageStep DEF LiveNeverReported, TypeOK
    <3>3. CASE i \notin DOMAIN out
      <4>1. out'[i] = File(Current, snap)
        BY <3>1, <3>3, <2>2, AppendFacts DEF TypeOK
      <4>2. live = RootNames(image.head)
        BY <2>2, ImageStep DEF Carve, InListing, Control, ListedNames, Listing, RootNames
      <4> QED BY <4>1, <4>2, <2>2 DEF Carve, File
    <3> QED BY <3>2, <3>3
  <2> QED BY <2>1, <2>2, OutStep
<1> QED BY <1>1, <1>2, TypeCorrect, ControlInvariant, PTL DEF Spec

\* One report per name, however often the snapshots repeat it.
THEOREM NoDuplicateReport == Spec => []OneFilePerName
<1>1. Init => OneFilePerName
  BY DEF Init, OneFilePerName
<1>2. TypeOK /\ Control /\ OneFilePerName /\ [Next]_vars => OneFilePerName'
  <2> SUFFICES ASSUME TypeOK, Control, OneFilePerName, [Next]_vars
               PROVE  OneFilePerName'
    OBVIOUS
  <2>1. CASE UNCHANGED out
    BY <2>1 DEF OneFilePerName
  <2>2. CASE Carve /\ Current \in Entry /\ File(Current, snap) \in FileType
    <3>1. /\ out' = Append(out, File(Current, snap))
          /\ \A i \in DOMAIN out : out[i].name # Current.name
      BY <2>2 DEF Carve, HasName
    <3>2. /\ DOMAIN out' = DOMAIN out \cup {Len(out) + 1}
          /\ out'[Len(out) + 1].name = Current.name
          /\ \A i \in DOMAIN out : out'[i] = out[i]
      BY <3>1, <2>2, AppendFacts DEF TypeOK, File
    <3> QED BY <3>1, <3>2 DEF OneFilePerName
  <2> QED BY <2>1, <2>2, OutStep
<1> QED BY <1>1, <1>2, TypeCorrect, ControlInvariant, PTL DEF Spec

-----------------------------------------------------------------------------
\* How a step may change seen: the chain's next snapshot joins it, or nothing.
LEMMA SeenStep ==
  ASSUME TypeOK, Control, [Next]_vars
  PROVE  \/ UNCHANGED seen
         \/ /\ pc = "walk" /\ budget > 0 /\ budget' = budget - 1
            /\ snap = NextOfChain /\ snap \notin Elements(seen)
            /\ seen' = Append(seen, snap)
            /\ \/ pc' = "diff" /\ pos' = 1 /\ Readable(snap)
               \/ pc' = "returned" /\ ~Readable(snap)
            /\ UNCHANGED <<snap, out>>
BY DEF Control, Next, vars, Readable, Iterate, Lookup, LookupFails, ListLive, EndWalk,
       BreakOnCycle, BreakOnDangling, EnterSnapshot, SkipLive, SkipRecovered,
       SkipUnreadable, Carve, NextEntry, LeaveSnapshot, Returned

\* The snapshots visited are the head's chain, each once, within the budget.
LEMMA ChainInvariant == Spec => []FollowsChain
<1>1. Init => FollowsChain
  BY BudgetAssumption DEF Init, FollowsChain
<1>2. TypeOK /\ Control /\ FollowsChain /\ [Next]_vars => FollowsChain'
  <2> SUFFICES ASSUME TypeOK, Control, FollowsChain, [Next]_vars
               PROVE  FollowsChain'
    OBVIOUS
  <2>1. CASE UNCHANGED seen
    BY <2>1, ImageStep DEF FollowsChain, Readable
  <2>2. CASE /\ pc = "walk" /\ budget > 0
             /\ snap = NextOfChain /\ snap \notin Elements(seen)
             /\ seen' = Append(seen, snap)
    <3>1. /\ Len(seen') = Len(seen) + 1
          /\ DOMAIN seen' = DOMAIN seen \cup {Len(seen) + 1}
          /\ seen'[Len(seen) + 1] = snap
          /\ \A k \in DOMAIN seen : seen'[k] = seen[k]
          /\ DOMAIN seen = 1..Len(seen)
          /\ Len(seen) \in Nat
      BY <2>2, AppendFacts DEF TypeOK
    <3>2. Len(seen') <= MaxBudget
      BY <2>2, <3>1, BudgetAssumption DEF Control, TypeOK
    <3>3. seen'[1] = image'.head.prev
      <4>1. CASE seen = <<>>
        BY <4>1, <2>2, <3>1, ImageStep DEF NextOfChain
      <4>2. CASE seen # <<>>
        <5>1. 1 \in DOMAIN seen
          BY <4>2 DEF TypeOK
        <5> QED BY <5>1, <4>2, <3>1, ImageStep DEF FollowsChain
      <4> QED BY <4>1, <4>2
    <3>4. ASSUME NEW k \in 1..Len(seen') - 1
          PROVE  seen'[k] \in DOMAIN image'.snaps /\ seen'[k + 1] = image'.snaps[seen'[k]].prev
      <4>1. k \in DOMAIN seen /\ seen'[k] = seen[k] /\ Readable(seen[k])
        BY <3>1, <2>2 DEF Control
      <4>2. CASE k < Len(seen)
        <5>1. k + 1 \in DOMAIN seen /\ k \in 1..Len(seen) - 1
          BY <4>2, <3>1
        <5> QED BY <4>1, <5>1, <3>1, ImageStep DEF FollowsChain, Readable
      <4>3. CASE k = Len(seen)
        <5>1. seen # <<>>
          BY <4>3, <3>1
        <5> QED BY <4>1, <4>3, <5>1, <3>1, <2>2, ImageStep DEF NextOfChain, Readable
      <4> QED BY <4>1, <4>2, <4>3, <3>1
    <3>5. \A j, k \in DOMAIN seen' : seen'[j] = seen'[k] => j = k
      BY <3>1, <2>2 DEF FollowsChain, Elements
    <3> QED BY <3>2, <3>3, <3>4, <3>5 DEF FollowsChain, Readable
  <2> QED BY <2>1, <2>2, SeenStep
<1> QED BY <1>1, <1>2, TypeCorrect, ControlInvariant, PTL DEF Spec

\* What the walk knows when it has returned.
Exhausted ==
  pc = "returned" /\ step = BootLookups =>
    \/ Len(seen) = MaxBudget
    \/ seen # <<>> /\ ~Readable(seen[Len(seen)])
    \/ NextOfChain \in {0} \cup Elements(seen)

\* The walk visits the chain of ds_prev_snap_obj pointers, each snapshot once,
\* and stops only at its end, at a cycle, at an unreadable object or at the
\* budget.
THEOREM WalkIsExhaustive == Spec => []WalksWholeChain
<1>1. Init => Exhausted
  BY DEF Init, Exhausted
<1>2. TypeOK /\ Control /\ Exhausted /\ [Next]_vars => Exhausted'
  <2> SUFFICES ASSUME TypeOK, Control, Exhausted, [Next]_vars
               PROVE  Exhausted'
    OBVIOUS
  <2> USE DEF Exhausted
  <2>1. CASE LookupFails
    BY <2>1 DEF LookupFails, walkVars, BootLookups, TypeOK
  <2>2. CASE EndWalk
    <3>1. UNCHANGED <<image, seen>> /\ pc = "walk" /\ (snap = 0 \/ budget = 0)
      BY <2>2 DEF EndWalk, walkVars
    <3>2. CASE snap = 0
      BY <3>1, <3>2 DEF Control, NextOfChain
    <3>3. CASE budget = 0
      BY <3>1, <3>3, BudgetAssumption DEF Control, TypeOK
    <3> QED BY <3>1, <3>2, <3>3
  <2>3. CASE BreakOnCycle
    BY <2>3 DEF BreakOnCycle, Iterate, walkVars, Control, NextOfChain, Elements
  <2>4. CASE BreakOnDangling
    <3>1. seen' # <<>> /\ seen'[Len(seen')] = snap
      BY <2>4, AppendFacts DEF BreakOnDangling, TypeOK
    <3> QED BY <2>4, <3>1 DEF BreakOnDangling, walkVars, Readable
  <2>5. CASE Lookup \/ ListLive \/ EnterSnapshot \/ LeaveSnapshot
             \/ SkipLive \/ SkipRecovered \/ SkipUnreadable \/ Carve
    BY <2>5 DEF Lookup, ListLive, EnterSnapshot, LeaveSnapshot, SkipLive,
                SkipRecovered, SkipUnreadable, Carve, NextEntry, InListing
  <2>6. CASE Returned \/ UNCHANGED vars
    BY <2>6 DEF Returned, vars, NextOfChain, Elements, Readable
  <2> QED BY <2>1, <2>2, <2>3, <2>4, <2>5, <2>6 DEF Next
<1>3. FollowsChain /\ Exhausted => WalksWholeChain
  BY DEF WalksWholeChain, Exhausted
<1> QED BY <1>1, <1>2, <1>3, TypeCorrect, ControlInvariant, ChainInvariant, PTL DEF Spec

-----------------------------------------------------------------------------
\* A name once reported stays reported.
LEMMA HasNameStable ==
  ASSUME TypeOK, Control, [Next]_vars, NEW n, HasName(out, n)
  PROVE  HasName(out', n)
<1>1. CASE UNCHANGED out
  BY <1>1
<1>2. CASE Carve /\ Current \in Entry /\ File(Current, snap) \in FileType
  <2>1. out' = Append(out, File(Current, snap))
    BY <1>2 DEF Carve
  <2>2. /\ DOMAIN out \subseteq DOMAIN out'
        /\ \A i \in DOMAIN out : out'[i] = out[i]
    BY <2>1, <1>2, AppendFacts DEF TypeOK
  <2> QED BY <2>2 DEF HasName
<1> QED BY <1>1, <1>2, OutStep

\* Where the loop has passed after a step: where it had passed before, or, when
\* the step looks at an entry, that entry.
LEMMA PassedStep ==
  ASSUME TypeOK, Control, [Next]_vars,
         NEW k \in DOMAIN seen', Readable(seen'[k]),
         NEW p \in DOMAIN Listing(image.snaps[seen'[k]]), Passed(k, p)'
  PROVE  /\ k \in DOMAIN seen /\ seen'[k] = seen[k]
         /\ \/ Passed(k, p)
            \/ /\ SkipLive \/ SkipRecovered \/ SkipUnreadable \/ Carve
               /\ seen[k] = snap /\ p = pos
<1>0. DOMAIN seen = 1..Len(seen) /\ Len(seen) \in Nat
  BY DEF TypeOK
<1>1. CASE UNCHANGED seen
  <2>1. CASE SkipLive \/ SkipRecovered \/ SkipUnreadable \/ Carve
    <3>1. pos' = pos + 1 /\ pc' = pc /\ pc = "diff" /\ snap = seen[Len(seen)]
      BY <2>1 DEF SkipLive, SkipRecovered, SkipUnreadable, Carve, NextEntry, InListing, Control
    <3>2. CASE k < Len(seen)
      BY <3>2, <1>1 DEF Passed
    <3>3. CASE k = Len(seen)
      <4>1. p < pos + 1
        BY <3>1, <3>3, <1>1 DEF Passed
      <4>2. p \in Nat
        <5>1. image.snaps[seen'[k]] \in Dataset
          BY DEF TypeOK, IsImage, Readable
        <5> QED BY <5>1, ListingType
      <4> QED BY <4>1, <4>2, <3>1, <3>3, <2>1, <1>1 DEF Passed, TypeOK
    <3> QED BY <3>2, <3>3, <1>0, <1>1
  <2>2. CASE LeaveSnapshot
    <3>1. pc = "diff" /\ pos > Len(CurrentListing) /\ snap = seen[Len(seen)]
      BY <2>2 DEF LeaveSnapshot, Control
    <3>2. CASE k < Len(seen)
      BY <3>2, <1>1 DEF Passed
    <3>3. CASE k = Len(seen)
      <4>1. image.snaps[seen'[k]] \in Dataset
        BY DEF TypeOK, IsImage, Readable
      <4>2. CurrentListing = Listing(image.snaps[seen'[k]])
        BY <3>1, <3>3, <1>1 DEF CurrentListing
      <4>3. p \in 1..Len(CurrentListing)
        BY <4>1, <4>2, ListingType
      <4>4. p < pos
        BY <4>1, <4>2, <4>3, <3>1, ListingType DEF TypeOK
      <4> QED BY <4>4, <1>1 DEF Passed
    <3> QED BY <3>2, <3>3, <1>0, <1>1
  <2>3. CASE pc # "diff"
    BY <2>3, <1>1 DEF Passed
  <2>4. CASE Returned \/ UNCHANGED vars
    BY <2>4 DEF Passed, Returned, vars
  <2> QED
    BY <2>1, <2>2, <2>3, <2>4 DEF Next, Lookup, LookupFails, ListLive, EndWalk, Iterate,
                                  BreakOnCycle, BreakOnDangling, EnterSnapshot
<1>2. CASE /\ pc = "walk"
           /\ seen' = Append(seen, snap)
           /\ \/ pc' = "diff" /\ pos' = 1 /\ Readable(snap)
              \/ pc' = "returned" /\ ~Readable(snap)
  <2>1. /\ Len(seen') = Len(seen) + 1
        /\ DOMAIN seen' = DOMAIN seen \cup {Len(seen) + 1}
        /\ seen'[Len(seen) + 1] = snap
        /\ \A j \in DOMAIN seen : seen'[j] = seen[j]
    BY <1>2, AppendFacts DEF TypeOK
  <2>2. k # Len(seen) + 1
    <3>1. image.snaps[seen'[k]] \in Dataset
      BY DEF TypeOK, IsImage, Readable
    <3>2. p \in Nat /\ p >= 1
      BY <3>1, ListingType
    <3> QED BY <3>2, <2>1, <1>2 DEF Passed
  <2> QED BY <2>1, <2>2, <1>2 DEF Passed
<1> QED BY <1>1, <1>2, SeenStep

\* No read error makes the walk lose a file it can still reach: every readable
\* entry passed, in any snapshot, is live or reported.
THEOREM NothingIsMissed == Spec => []NothingMissed
<1>1. Init => NothingMissed
  BY DEF Init, NothingMissed
<1>2. TypeOK /\ Control /\ NothingMissed /\ [Next]_vars => NothingMissed'
  <2> SUFFICES ASSUME TypeOK, Control, NothingMissed, [Next]_vars,
                      NEW k \in DOMAIN seen', Readable(seen'[k]),
                      NEW p \in DOMAIN Listing(image.snaps[seen'[k]]),
                      Passed(k, p)', Listing(image.snaps[seen'[k]])[p].carves
               PROVE  \/ Listing(image.snaps[seen'[k]])[p].name \in live'
                      \/ HasName(out', Listing(image.snaps[seen'[k]])[p].name)
    BY ImageStep DEF NothingMissed, Readable
  <2> DEFINE e == Listing(image.snaps[seen'[k]])[p]
  <2>0. k \in DOMAIN seen /\ seen'[k] = seen[k]
    BY PassedStep
  <2>1. CASE Passed(k, p)
    <3>1. e.name \in live \/ HasName(out, e.name)
      BY <2>0, <2>1 DEF NothingMissed
    <3>2. e.name \in live => e.name \in live'
      BY <2>0 DEF Next, vars, walkVars, Lookup, LookupFails, ListLive, EndWalk, BreakOnCycle,
                  BreakOnDangling, EnterSnapshot, SkipLive, SkipRecovered, SkipUnreadable,
                  Carve, NextEntry, LeaveSnapshot, Returned, Control
    <3> QED BY <3>1, <3>2, HasNameStable
  <2>2. CASE /\ SkipLive \/ SkipRecovered \/ SkipUnreadable \/ Carve
             /\ seen[k] = snap /\ p = pos
    <3>1. e = Current /\ UNCHANGED live
      BY <2>0, <2>2 DEF Current, CurrentListing, SkipLive, SkipRecovered, SkipUnreadable,
                        Carve, NextEntry, walkVars
    <3>2. CASE SkipLive
      BY <3>1, <3>2 DEF SkipLive
    <3>3. CASE SkipRecovered
      BY <3>1, <3>3 DEF SkipRecovered
    <3>4. CASE SkipUnreadable
      BY <3>1, <3>4 DEF SkipUnreadable
    <3>5. CASE Carve
      <4>1. Readable(snap)
        BY <2>0, <2>2
      <4>2. out' = Append(out, File(Current, snap)) /\ File(Current, snap) \in FileType
        BY <3>5, <4>1, CurrentType DEF Carve
      <4>3. Len(out) + 1 \in DOMAIN out' /\ out'[Len(out) + 1] = File(Current, snap)
        BY <4>2, AppendFacts DEF TypeOK
      <4> QED BY <4>3, <3>1 DEF HasName, File
    <3> QED BY <2>2, <3>2, <3>3, <3>4, <3>5
  <2> QED BY <2>1, <2>2, PassedStep
<1> QED BY <1>1, <1>2, TypeCorrect, ControlInvariant, PTL DEF Spec

-----------------------------------------------------------------------------
\* The entry being carved is the first readable one of its name: NothingMissed
\* says that an earlier one would have been live or reported.
LEMMA CarvesFirstReadable ==
  ASSUME TypeOK, Control, NothingMissed, Carve
  PROVE  Len(seen) \in DOMAIN seen /\ FirstReadable(File(Current, snap), Len(seen))
<1> DEFINE f == File(Current, snap)
<1>1. /\ Len(seen) \in DOMAIN seen
      /\ seen[Len(seen)] = snap
      /\ Readable(snap)
      /\ image.snaps[snap] \in Dataset
      /\ pos \in DOMAIN Listing(image.snaps[snap])
      /\ Current = Listing(image.snaps[snap])[pos]
      /\ Current.name \notin live /\ ~HasName(out, Current.name) /\ Current.carves
      /\ pc = "diff"
  BY DEF Carve, InListing, Current, CurrentListing, Control, TypeOK, IsImage, Readable
<1>2. f.name = Current.name /\ f.inode = Current.obj /\ f.source = snap
  BY DEF File
<1>3. ASSUME NEW j \in DOMAIN seen, Readable(seen[j]),
             NEW q \in DOMAIN Listing(image.snaps[seen[j]]), Passed(j, q)
      PROVE  ~Offers(seen[j], q, f.name)
  BY <1>1, <1>2, <1>3 DEF NothingMissed, Offers
<1>4. \A q \in 1..pos - 1 : ~Offers(snap, q, f.name)
  <2> SUFFICES ASSUME NEW q \in 1..pos - 1, Offers(snap, q, f.name)
               PROVE  FALSE
    OBVIOUS
  <2>1. Passed(Len(seen), q)
    BY DEF Passed, TypeOK
  <2> QED BY <2>1, <1>1, <1>3 DEF Offers
<1>5. \A j \in 1..Len(seen) - 1 : Readable(seen[j]) =>
        \A q \in DOMAIN Listing(image.snaps[seen[j]]) : ~Offers(seen[j], q, f.name)
  <2> SUFFICES ASSUME NEW j \in 1..Len(seen) - 1
               PROVE  j \in DOMAIN seen /\ \A q : Passed(j, q)
    BY <1>3
  <2> QED BY DEF Passed, TypeOK
<1>6. Offers(snap, pos, f.name)
  BY <1>1, <1>2 DEF Offers
<1> QED BY <1>1, <1>2, <1>4, <1>5, <1>6 DEF FirstReadable

\* A later snapshot on the chain does not change which file was the first.
LEMMA FirstReadableStable ==
  ASSUME TypeOK, Control, [Next]_vars, NEW f, NEW k \in DOMAIN seen, FirstReadable(f, k)
  PROVE  k \in DOMAIN seen' /\ FirstReadable(f, k)'
<1>1. UNCHANGED image
  BY ImageStep
<1>2. /\ k \in DOMAIN seen'
      /\ seen'[k] = seen[k]
      /\ \A j \in 1..k - 1 : seen'[j] = seen[j]
  <2>1. CASE UNCHANGED seen
    BY <2>1
  <2>2. CASE seen' = Append(seen, snap)
    <3>1. \A j \in DOMAIN seen : j \in DOMAIN seen' /\ seen'[j] = seen[j]
      BY <2>2, AppendFacts DEF TypeOK
    <3> QED BY <3>1 DEF TypeOK
  <2> QED BY <2>1, <2>2, SeenStep
<1> QED BY <1>1, <1>2 DEF FirstReadable, Offers, Readable

\* A reported file is the newest state of its name that can be read.
THEOREM NewestWins == Spec => []NewestReadableWins
<1>1. Init => NewestReadableWins
  BY DEF Init, NewestReadableWins
<1>2. TypeOK /\ Control /\ NothingMissed /\ NewestReadableWins /\ [Next]_vars
        => NewestReadableWins'
  <2> SUFFICES ASSUME TypeOK, Control, NothingMissed, NewestReadableWins, [Next]_vars,
                      NEW i \in DOMAIN out'
               PROVE  \E k \in DOMAIN seen' : FirstReadable(out[i], k)'
    BY DEF NewestReadableWins
  <2>1. CASE i \in DOMAIN out /\ out'[i] = out[i]
    <3>1. PICK f : f = out[i]
      OBVIOUS
    <3>2. PICK k \in DOMAIN seen : FirstReadable(f, k)
      BY <2>1, <3>1 DEF NewestReadableWins
    <3>3. k \in DOMAIN seen' /\ FirstReadable(f, k)'
      BY <3>2, FirstReadableStable
    <3>4. f = out'[i]
      BY <2>1, <3>1
    <3> QED BY <3>3, <3>4 DEF FirstReadable
  <2>2. CASE Carve /\ out'[i] = File(Current, snap)
    <3>1. PICK f : f = File(Current, snap)
      OBVIOUS
    <3>2. PICK k : k = Len(seen)
      OBVIOUS
    <3>3. k \in DOMAIN seen /\ FirstReadable(f, k)
      BY <2>2, <3>1, <3>2, CarvesFirstReadable
    <3>4. k \in DOMAIN seen' /\ FirstReadable(f, k)'
      BY <3>3, FirstReadableStable
    <3>5. f = out'[i]
      BY <2>2, <3>1
    <3> QED BY <3>4, <3>5 DEF FirstReadable
  <2>3. CASE UNCHANGED out
    BY <2>3, <2>1
  <2>4. CASE Carve /\ Current \in Entry /\ File(Current, snap) \in FileType
    <3>1. out' = Append(out, File(Current, snap))
      BY <2>4 DEF Carve
    <3>2. \/ i \in DOMAIN out /\ out'[i] = out[i]
          \/ out'[i] = File(Current, snap)
      BY <3>1, <2>4, AppendFacts DEF TypeOK
    <3> QED BY <3>2, <2>4, <2>1, <2>2
  <2> QED BY <2>3, <2>4, OutStep
<1> QED BY <1>1, <1>2, TypeCorrect, ControlInvariant, NothingIsMissed, PTL DEF Spec

-----------------------------------------------------------------------------
(***************************************************************************)
(* Refinement of SnapshotDiff.                                             *)
(***************************************************************************)
\* What the loops carry from the bootstrap and from the while's condition: the walk
\* runs only if every lookup succeeds, and never into object 0.
Entered ==
  /\ step <= image.boot
  /\ pc = "diff" => snap # 0

\* The carver only reaches a stage of the bootstrap that succeeded, and diffs a snapshot that exists.
LEMMA EnteredInvariant == Spec => []Entered
<1>1. Init => Entered
  BY ImageAssumption DEF Init, Entered, IsImage
<1>2. TypeOK /\ Entered /\ [Next]_vars => Entered'
  BY DEF TypeOK, IsImage, Entered, Next, vars, walkVars, Iterate, Lookup, LookupFails, ListLive,
         EndWalk, BreakOnCycle, BreakOnDangling, EnterSnapshot, SkipLive, SkipRecovered,
         SkipUnreadable, Carve, NextEntry, LeaveSnapshot, Returned
<1> QED BY <1>1, <1>2, TypeCorrect, PTL DEF Spec

\* Everything that is known of a state of the walk.
WalkInv ==
  /\ TypeOK
  /\ Control
  /\ Entered
  /\ FollowsChain
  /\ LiveNeverReported
  /\ OneFilePerName
  /\ NothingMissed
  /\ NewestReadableWins

\* At every step of recover_deleted all the proved invariants hold together.
LEMMA WalkInvariant == Spec => []WalkInv
<1> QED
  BY TypeCorrect, ControlInvariant, EnteredInvariant, ChainInvariant, WalkIsExhaustive, LiveSafe,
     NoDuplicateReport, NothingIsMissed, NewestWins, PTL DEF WalkInv

\* While the walk goes on, the snapshots absorbed are those seen but the current one.
LEMMA AbsorbedIs ==
  ASSUME TypeOK, Control
  PROVE  /\ pc = "boot" => Absorbed = <<>>
         /\ pc = "walk" => Absorbed = seen
         /\ pc = "diff" => Absorbed = SubSeq(seen, 1, Len(seen) - 1)
<1>1. pc = "boot" => Finished = 0
  BY DEF Finished, Control
<1>2. pc = "walk" => Finished = Len(seen)
  BY DEF Finished, Control, TypeOK
<1>3. pc = "diff" => Finished = Len(seen) - 1
  BY DEF Finished
<1>4. SubSeq(seen, 1, Len(seen)) = seen /\ SubSeq(seen, 1, 0) = <<>>
  BY DEF TypeOK
<1> QED BY <1>1, <1>2, <1>3, <1>4 DEF Absorbed

\* The last element joins the rest of its sequence again.
LEMMA FrontAndLast ==
  ASSUME NEW S, NEW s \in Seq(S), s # <<>>
  PROVE  LET front == SubSeq(s, 1, Len(s) - 1)
         IN  /\ front \in Seq(S)
             /\ Len(front) = Len(s) - 1
             /\ \A k \in 1..Len(s) - 1 : front[k] = s[k]
             /\ s = Append(front, s[Len(s)])
             /\ Elements(s) = Elements(front) \cup {s[Len(s)]}
<1> DEFINE front == SubSeq(s, 1, Len(s) - 1)
<1>1. Len(s) \in Nat \ {0} /\ DOMAIN s = 1..Len(s)
  OBVIOUS
<1>2. /\ front \in Seq(S) /\ Len(front) = Len(s) - 1
      /\ \A k \in 1..Len(s) - 1 : front[k] = s[k]
  BY <1>1
<1>3. s = Append(front, s[Len(s)])
  BY <1>1, <1>2
<1>4. Elements(s) = Elements(front) \cup {s[Len(s)]}
  <2>1. DOMAIN front = 1..Len(s) - 1
    BY <1>2
  <2>2. DOMAIN s = (1..Len(s) - 1) \cup {Len(s)}
    BY <1>1
  <2> QED BY <1>2, <2>1, <2>2 DEF Elements
<1> QED BY <1>2, <1>3, <1>4

\* The head's names are the same ones for both specifications.
LEMMA SameNames ==
  ASSUME NEW ds
  PROVE  /\ Diff!Listed(ds) = Listing(ds)
         /\ Diff!NamesOf(ds) = ListedNames(ds)
BY DEF Diff!Listed, Diff!NamesOf, Listing, ListedNames

\* The current snapshot is the last seen, and was not seen before.
LEMMA CurrentSnapshot ==
  ASSUME WalkInv, pc = "diff"
  PROVE  /\ seen # <<>> /\ Len(seen) \in DOMAIN seen /\ seen[Len(seen)] = snap
         /\ Readable(snap)
         /\ Listing(image.snaps[snap]) \in Seq(Entry)
         /\ Elements(seen) = Elements(Absorbed) \cup {snap}
         /\ snap \notin Elements(Absorbed)
         /\ \A k \in DOMAIN seen : k # Len(seen) => seen[k] \in Elements(Absorbed)
<1>1. /\ seen # <<>> /\ Len(seen) \in DOMAIN seen /\ seen[Len(seen)] = snap
      /\ DOMAIN seen = 1..Len(seen) /\ Len(seen) \in Nat \ {0}
      /\ seen \in Seq(Nat)
  BY DEF WalkInv, TypeOK, Control
<1>2. Readable(snap) /\ Listing(image.snaps[snap]) \in Seq(Entry)
  BY <1>1, ListingType DEF WalkInv, TypeOK, IsImage, Control, Readable
<1>3. Absorbed = SubSeq(seen, 1, Len(seen) - 1)
  BY AbsorbedIs DEF WalkInv
<1>4. /\ Elements(seen) = Elements(Absorbed) \cup {snap}
      /\ Len(Absorbed) = Len(seen) - 1
      /\ Absorbed \in Seq(Nat)
      /\ \A k \in 1..Len(seen) - 1 : Absorbed[k] = seen[k]
  BY <1>1, <1>3, FrontAndLast
<1>5. DOMAIN Absorbed = 1..Len(seen) - 1
  BY <1>4
<1>6. \A k \in DOMAIN seen : k # Len(seen) => seen[k] \in Elements(Absorbed)
  <2>1. \A j \in DOMAIN seen : seen[j] \in Elements(seen)
    BY DEF Elements
  <2>2. \A j \in DOMAIN seen : seen[j] = snap => j = Len(seen)
    BY <1>1 DEF WalkInv, FollowsChain
  <2> QED BY <1>4, <2>1, <2>2
<1>7. snap \notin Elements(Absorbed)
  BY <1>1, <1>4, <1>5 DEF Elements, WalkInv, FollowsChain
<1> QED BY <1>1, <1>2, <1>4, <1>6, <1>7

\* What the for loop has carved out of a snapshot whose listing is finished is what the
\* abstract specification finds there in one step (lib.rs:666-688).
LEMMA DiffOfSnapshot ==
  ASSUME WalkInv, pc = "diff", pos > Len(CurrentListing)
  PROVE  {f \in Elements(out) : f.source \in Elements(seen)}
           = FoundInAbsorbed \cup Diff!DeletedIn(snap)
<1> DEFINE l == Listing(image.snaps[snap])
<1> DEFINE n == Len(seen)
<1>1. /\ n \in DOMAIN seen /\ seen[n] = snap /\ Readable(snap)
      /\ l \in Seq(Entry)
      /\ Elements(seen) = Elements(Absorbed) \cup {snap}
      /\ snap \notin Elements(Absorbed)
      /\ \A k \in DOMAIN seen : k # n => seen[k] \in Elements(Absorbed)
  BY CurrentSnapshot
<1>2. /\ DOMAIN out = 1..Len(out)
      /\ \A i \in DOMAIN out : out[i] \in FileType
  BY DEF WalkInv, TypeOK
<1>3. /\ Diff!Listed(image.snaps[snap]) = l
      /\ Diff!NamesOf(image.head) = ListedNames(image.head)
  BY SameNames
<1>4. ASSUME NEW i \in DOMAIN out, out[i].source = snap
      PROVE  FirstReadable(out[i], n)
  <2>1. PICK k \in DOMAIN seen : FirstReadable(out[i], k)
    BY DEF WalkInv, NewestReadableWins
  <2>2. k = n
    BY <1>1, <1>4, <2>1 DEF FirstReadable
  <2> QED BY <2>1, <2>2
<1>5. ASSUME NEW f \in Elements(out), f.source = snap
      PROVE  f \in Diff!DeletedIn(snap)
  <2>1. PICK i \in DOMAIN out : f = out[i]
    BY DEF Elements
  <2>2. PICK p \in DOMAIN l : /\ Offers(snap, p, f.name)
                              /\ l[p].obj = f.inode
                              /\ \A q \in 1..p - 1 : ~Offers(snap, q, f.name)
    BY <1>1, <1>4, <1>5, <2>1 DEF FirstReadable
  <2>3. f.name \notin ListedNames(image.head)
    BY <2>1 DEF WalkInv, LiveNeverReported, ListedNames, Listing, RootNames
  <2>4. \A g \in FoundInAbsorbed : g.name # f.name
    <3> SUFFICES ASSUME NEW j \in DOMAIN out, out[j].source \in Elements(Absorbed),
                        out[j].name = f.name
                 PROVE  FALSE
      BY DEF FoundInAbsorbed, Elements
    <3> QED BY <1>1, <1>5, <2>1 DEF WalkInv, OneFilePerName
  <2>5. p \in Diff!FirstReadable(l) /\ l[p].name = f.name
    <3>1. p \in Nat /\ \A q \in 1..p - 1 : q \in DOMAIN l
      BY <1>1
    <3> QED BY <2>2, <3>1 DEF Diff!FirstReadable, Offers
  <2>6. f = [name |-> l[p].name, inode |-> l[p].obj, source |-> snap]
    BY <1>2, <1>5, <2>1, <2>2, <2>5 DEF FileType
  <2> QED BY <1>3, <2>3, <2>4, <2>5, <2>6 DEF Diff!DeletedIn
<1>6. ASSUME NEW f \in Diff!DeletedIn(snap)
      PROVE  f \in Elements(out) /\ f.source = snap
  <2>1. PICK p \in Diff!FirstReadable(l) :
          /\ f = [name |-> l[p].name, inode |-> l[p].obj, source |-> snap]
          /\ l[p].name \notin ListedNames(image.head)
          /\ \A g \in FoundInAbsorbed : g.name # l[p].name
    BY <1>3 DEF Diff!DeletedIn
  <2>2. /\ p \in DOMAIN l /\ l[p].carves
        /\ \A q \in 1..p - 1 : l[q].name = l[p].name => ~l[q].carves
    BY DEF Diff!FirstReadable
  <2>3. HasName(out, l[p].name)
    <3>1. Passed(n, p)
      <4>1. p \in 1..Len(l) /\ CurrentListing = l /\ Len(l) \in Nat
        BY <1>1, <2>2 DEF CurrentListing
      <4> QED BY <4>1 DEF Passed, WalkInv, TypeOK
    <3>2. l[p].name \notin live
      BY <2>1 DEF WalkInv, Control
    <3> QED BY <1>1, <2>2, <3>1, <3>2 DEF WalkInv, NothingMissed
  <2>4. PICK i \in DOMAIN out : out[i].name = l[p].name
    BY <2>3 DEF HasName
  <2>5. out[i].source = snap
    <3>1. PICK k \in DOMAIN seen : FirstReadable(out[i], k)
      BY DEF WalkInv, NewestReadableWins
    <3>2. out[i].source = seen[k]
      BY <3>1 DEF FirstReadable
    <3>3. out[i].source \notin Elements(Absorbed)
      BY <2>1, <2>4 DEF FoundInAbsorbed, Elements
    <3> QED BY <1>1, <3>2, <3>3
  <2>6. PICK r \in DOMAIN l : /\ Offers(snap, r, l[p].name)
                              /\ l[r].obj = out[i].inode
                              /\ \A q \in 1..r - 1 : ~Offers(snap, q, l[p].name)
    BY <1>1, <1>4, <2>4, <2>5 DEF FirstReadable
  <2>7. r = p
    <3>1. /\ p \in Nat \ {0} /\ r \in Nat \ {0}
          /\ Offers(snap, p, l[p].name)
      BY <1>1, <2>2 DEF Offers
    <3>2. ~(p < r)
      BY <2>6, <3>1
    <3>3. ~(r < p)
      BY <2>2, <2>6, <3>1 DEF Offers
    <3> QED BY <3>1, <3>2, <3>3
  <2>8. out[i] = f
    BY <1>2, <2>1, <2>4, <2>5, <2>6, <2>7 DEF FileType
  <2> QED BY <2>5, <2>8 DEF Elements
<1> QED BY <1>1, <1>5, <1>6 DEF FoundInAbsorbed

\* The next snapshot of the chain, as both specifications compute it.
LEMMA OldestIs ==
  ASSUME WalkInv
  PROVE  /\ pc = "walk" => Diff!Oldest.prev = snap
         /\ pc = "diff" => Diff!Oldest.prev = snap
<1>1. CASE pc = "walk"
  <2>1. Absorbed = seen /\ snap = NextOfChain
    BY <1>1, AbsorbedIs DEF WalkInv, Control
  <2> QED BY <1>1, <2>1 DEF Diff!Oldest, NextOfChain
<1>2. CASE pc = "diff"
  <2>1. /\ seen \in Seq(Nat) /\ seen # <<>> /\ Len(seen) \in Nat \ {0}
        /\ seen[Len(seen)] = snap
        /\ Absorbed = SubSeq(seen, 1, Len(seen) - 1)
    BY <1>2, AbsorbedIs, CurrentSnapshot DEF WalkInv, TypeOK
  <2>2. /\ Len(Absorbed) = Len(seen) - 1
        /\ \A k \in 1..Len(seen) - 1 : Absorbed[k] = seen[k]
        /\ Absorbed \in Seq(Nat)
    BY <2>1, FrontAndLast
  <2>3. CASE Len(seen) = 1
    <3>1. Absorbed = <<>>
      BY <2>2, <2>3
    <3>2. snap = image.head.prev
      BY <2>1, <2>3 DEF WalkInv, FollowsChain
    <3> QED BY <3>1, <3>2 DEF Diff!Oldest
  <2>4. CASE Len(seen) # 1
    <3>1. Absorbed # <<>> /\ Absorbed[Len(Absorbed)] = seen[Len(seen) - 1]
      BY <2>1, <2>2, <2>4
    <3>2. snap = image.snaps[seen[Len(seen) - 1]].prev
      <4> DEFINE k == Len(seen) - 1
      <4>1. k \in 1..Len(seen) - 1 /\ k + 1 = Len(seen)
        <5>1. \A n \in Nat \ {0} : n # 1 => n - 1 \in 1..n - 1 /\ n - 1 + 1 = n
          OBVIOUS
        <5> QED BY <2>1, <2>4, <5>1
      <4>2. seen[k + 1] = image.snaps[seen[k]].prev
        BY <4>1 DEF WalkInv, FollowsChain
      <4> QED BY <2>1, <4>1, <4>2
    <3> QED BY <3>1, <3>2 DEF Diff!Oldest
  <2> QED BY <1>2, <2>3, <2>4
<1> QED BY <1>1, <1>2

\* The walk starts where the abstract specification does.
LEMMA InitIsDiff ==
  ASSUME Init
  PROVE  Diff!Init
<1>1. Elements(out) = {} /\ Absorbed = <<>>
  BY DEF Init, Elements, Absorbed, Finished
<1> QED BY <1>1 DEF Init, Diff!Init, FoundInAbsorbed

\* The three ways out of the while are the abstract specification's return: no
\* snapshot can be visited (lib.rs:592-601).
LEMMA EndIsReturn ==
  ASSUME WalkInv, EndWalk \/ BreakOnCycle \/ BreakOnDangling
  PROVE  Diff!Return
<1>1. /\ pc = "walk" /\ pc' = "returned"
      /\ UNCHANGED <<image, out, snap>>
      /\ Absorbed = seen /\ Diff!Oldest.prev = snap
      /\ seen \in Seq(Nat)
      /\ \A k \in DOMAIN seen : Readable(seen[k])
  BY AbsorbedIs, OldestIs DEF EndWalk, BreakOnCycle, BreakOnDangling, Iterate, walkVars,
     WalkInv, Control, TypeOK
<1>2. Absorbed' = seen /\ ~Diff!Visitable
  <2>1. CASE UNCHANGED seen
    <3>1. Finished' = Len(seen)
      <4>1. seen # <<>> => Len(seen) \in DOMAIN seen
        BY <1>1
      <4> QED BY <1>1, <2>1, <4>1 DEF Finished, Readable
    <3>2. Absorbed' = seen
      BY <1>1, <2>1, <3>1 DEF Absorbed
    <3>3. snap = 0 \/ budget = 0 \/ snap \in Elements(seen)
      <4>1. CASE EndWalk
        BY <4>1 DEF EndWalk
      <4>2. CASE BreakOnCycle
        BY <4>2 DEF BreakOnCycle
      <4>3. CASE BreakOnDangling
        <5>1. seen' = Append(seen, snap) /\ snap \in Nat
          BY <4>3 DEF BreakOnDangling, WalkInv, TypeOK
        <5>2. Len(seen') = Len(seen) + 1 /\ Len(seen) \in Nat
          BY <1>1, <5>1, AppendFacts
        <5> QED BY <2>1, <5>2
      <4> QED BY <4>1, <4>2, <4>3
    <3>4. budget = 0 => Len(seen) = MaxBudget
      BY <1>1, BudgetAssumption DEF WalkInv, Control, TypeOK
    <3> QED BY <1>1, <3>2, <3>3, <3>4, BudgetAssumption DEF Diff!Visitable, Elements
  <2>2. CASE BreakOnDangling
    <3>1. seen' = Append(seen, snap) /\ ~Readable(snap) /\ snap \in Nat
      BY <2>2 DEF BreakOnDangling, Readable, WalkInv, TypeOK
    <3>2. /\ seen' # <<>> /\ Len(seen') = Len(seen) + 1
          /\ seen'[Len(seen')] = snap
      BY <1>1, <3>1, AppendFacts
    <3>3. Finished' = Len(seen)
      BY <1>1, <3>1, <3>2 DEF Finished, Readable
    <3>4. Absorbed' = seen
      BY <1>1, <3>1, <3>3 DEF Absorbed
    <3> QED BY <1>1, <3>1, <3>4 DEF Diff!Visitable, Readable
  <2> QED BY <2>1, <2>2 DEF EndWalk, BreakOnCycle
<1>3. FoundInAbsorbed' = FoundInAbsorbed
  BY <1>1, <1>2 DEF FoundInAbsorbed, Elements
<1> QED BY <1>1, <1>2, <1>3 DEF Diff!Return

\* Leaving a snapshot is absorbing it: the whole of its listing in one abstract step.
LEMMA LeaveIsAbsorb ==
  ASSUME WalkInv, LeaveSnapshot
  PROVE  Diff!Absorb
<1>1. /\ pc = "diff" /\ pc' = "walk" /\ pos > Len(CurrentListing)
      /\ UNCHANGED <<image, seen, out>>
  BY DEF LeaveSnapshot, walkVars
<1>2. /\ seen \in Seq(Nat) /\ seen # <<>> /\ seen[Len(seen)] = snap
      /\ Absorbed = SubSeq(seen, 1, Len(seen) - 1)
      /\ \A k \in DOMAIN seen : Readable(seen[k])
      /\ Len(seen) <= MaxBudget
  BY <1>1, AbsorbedIs DEF WalkInv, TypeOK, Control, FollowsChain
<1>3. /\ seen = Append(Absorbed, snap)
      /\ Len(Absorbed) = Len(seen) - 1
      /\ Absorbed \in Seq(Nat)
  BY <1>2, FrontAndLast
<1>4. Absorbed' = Append(Absorbed, snap)
  <2>1. Finished' = Len(seen)
    <3>1. Len(seen) \in DOMAIN seen
      BY <1>2
    <3> QED BY <1>1, <1>2, <3>1 DEF Finished, Readable
  <2>2. Absorbed' = seen
    BY <1>1, <1>2, <2>1 DEF Absorbed
  <2> QED BY <1>3, <2>2
<1>5. Diff!Oldest.prev = snap
  BY <1>1, OldestIs
<1>6. Diff!Visitable
  <2>1. image.boot = BootLookups
    BY <1>1 DEF WalkInv, TypeOK, IsImage, Control, Entered, BootLookups
  <2>2. snap \in DOMAIN image.snaps \ {0}
    BY <1>1, CurrentSnapshot DEF WalkInv, Entered, Readable
  <2>3. \A i \in DOMAIN Absorbed : Absorbed[i] # snap
    BY <1>1, CurrentSnapshot DEF Elements
  <2>4. Len(Absorbed) < MaxBudget
    BY <1>2, <1>3, BudgetAssumption
  <2> QED BY <1>5, <2>1, <2>2, <2>3, <2>4 DEF Diff!Visitable
<1>7. FoundInAbsorbed' = FoundInAbsorbed \cup Diff!DeletedIn(snap)
  <2>1. Absorbed' = seen
    BY <1>3, <1>4
  <2>2. FoundInAbsorbed' = {f \in Elements(out) : f.source \in Elements(seen)}
    BY <1>1, <2>1 DEF FoundInAbsorbed, Elements
  <2> QED BY <1>1, <2>2, DiffOfSnapshot
<1> QED BY <1>1, <1>4, <1>5, <1>6, <1>7 DEF Diff!Absorb

\* Inside a snapshot's listing the abstract state does not move: what the for loop
\* carves counts only when the listing is finished.
LEMMA InsideIsStutter ==
  ASSUME WalkInv, EnterSnapshot \/ SkipLive \/ SkipRecovered \/ SkipUnreadable \/ Carve
  PROVE  UNCHANGED Diff!vars
<1>1. CASE EnterSnapshot
  <2>1. /\ pc = "walk" /\ pc' = "diff" /\ seen' = Append(seen, snap)
        /\ UNCHANGED <<image, out>> /\ snap \in Nat /\ seen \in Seq(Nat)
    BY <1>1 DEF EnterSnapshot, Iterate, walkVars, WalkInv, TypeOK
  <2>2. Absorbed = seen
    BY <2>1, AbsorbedIs DEF WalkInv
  <2>3. Finished' = Len(seen)
    BY <2>1, AppendFacts DEF Finished
  <2>4. Absorbed' = seen
    BY <2>1, <2>3 DEF Absorbed
  <2>5. FoundInAbsorbed' = FoundInAbsorbed
    BY <2>1, <2>2, <2>4 DEF FoundInAbsorbed, Elements
  <2> QED BY <2>1, <2>2, <2>4, <2>5 DEF Diff!vars
<1>2. CASE SkipLive \/ SkipRecovered \/ SkipUnreadable \/ Carve
  <2>1. pc = "diff" /\ pc' = "diff" /\ UNCHANGED <<image, seen>>
    BY <1>2 DEF SkipLive, SkipRecovered, SkipUnreadable, Carve, InListing, NextEntry, walkVars
  <2>2. Absorbed' = Absorbed
    BY <2>1 DEF Absorbed, Finished, Readable
  <2>3. FoundInAbsorbed' = FoundInAbsorbed
    <3>1. CASE UNCHANGED out
      BY <2>2, <3>1 DEF FoundInAbsorbed, Elements
    <3>2. CASE Carve
      <4>1. /\ out' = Append(out, File(Current, snap))
            /\ out \in Seq(FileType) /\ File(Current, snap) \in FileType
        BY <2>1, <3>2, CurrentType, CurrentSnapshot DEF Carve, WalkInv, TypeOK
      <4>2. Elements(out') = Elements(out) \cup {File(Current, snap)}
        <5>1. /\ DOMAIN out' = DOMAIN out \cup {Len(out) + 1}
              /\ out'[Len(out) + 1] = File(Current, snap)
              /\ \A i \in DOMAIN out : out'[i] = out[i]
          BY <4>1, AppendFacts
        <5> QED BY <5>1 DEF Elements
      <4>3. File(Current, snap).source \notin Elements(Absorbed)
        BY <2>1, CurrentSnapshot DEF File
      <4>4. Elements(Absorbed)' = Elements(Absorbed)
        BY <2>2 DEF Elements
      <4> QED BY <4>2, <4>3, <4>4 DEF FoundInAbsorbed
    <3> QED BY <1>2, <3>1, <3>2 DEF SkipLive, SkipRecovered, SkipUnreadable
  <2> QED BY <2>1, <2>2, <2>3 DEF Diff!vars
<1> QED BY <1>1, <1>2

\* Before the walk nothing is absorbed and nothing found.
LEMMA BootStep ==
  ASSUME WalkInv, Lookup \/ LookupFails \/ ListLive
  PROVE  Diff!Return \/ UNCHANGED Diff!vars
<1>1. /\ pc = "boot" /\ seen = <<>> /\ UNCHANGED <<image, seen, out>>
  BY DEF Lookup, LookupFails, ListLive, walkVars, WalkInv, Control
<1>2. Absorbed = <<>> /\ Absorbed' = <<>>
  BY <1>1 DEF Absorbed, Finished
<1>3. FoundInAbsorbed' = FoundInAbsorbed
  BY <1>1, <1>2 DEF FoundInAbsorbed, Elements
<1>4. CASE LookupFails
  <2>1. image.boot # BootLookups /\ pc' = "returned"
    BY <1>4 DEF LookupFails, BootLookups
  <2> QED BY <1>1, <1>2, <1>3, <2>1 DEF Diff!Return, Diff!Visitable
<1>5. CASE Lookup \/ ListLive
  BY <1>1, <1>2, <1>3, <1>5 DEF Lookup, ListLive, Diff!vars
<1> QED BY <1>4, <1>5

\* recover_deleted implements the diff: every step of its two loops is a step of the
\* specification that absorbs whole snapshots, or changes nothing it can see.
THEOREM LoopsImplementDiff == Spec => Diff!Init /\ [][Diff!Next]_(Diff!vars)
<1>1. Init => Diff!Init
  BY InitIsDiff
<1>2. WalkInv /\ [Next]_vars => [Diff!Next]_(Diff!vars)
  <2> SUFFICES ASSUME WalkInv, [Next]_vars
               PROVE  Diff!Next \/ UNCHANGED Diff!vars
    OBVIOUS
  <2>1. CASE Lookup \/ LookupFails \/ ListLive
    BY <2>1, BootStep DEF Diff!Next
  <2>2. CASE EndWalk \/ BreakOnCycle \/ BreakOnDangling
    BY <2>2, EndIsReturn DEF Diff!Next
  <2>3. CASE EnterSnapshot \/ SkipLive \/ SkipRecovered \/ SkipUnreadable \/ Carve
    BY <2>3, InsideIsStutter
  <2>4. CASE LeaveSnapshot
    BY <2>4, LeaveIsAbsorb DEF Diff!Next
  <2>5. CASE Returned \/ UNCHANGED vars
    BY <2>5 DEF Returned, vars, Diff!vars, Absorbed, Finished, Readable, FoundInAbsorbed, Elements
  <2> QED BY <2>1, <2>2, <2>3, <2>4, <2>5 DEF Next
<1> QED BY <1>1, <1>2, WalkInvariant, PTL DEF Spec
=============================================================================
