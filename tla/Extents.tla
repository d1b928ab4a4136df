------------------------------ MODULE Extents ------------------------------
(***************************************************************************)
(* The byte runs of an object: ZfsFs::extents (core/src/vfs.rs) gathers    *)
(* the pointers of the bottom level breadth first, one whole level of the  *)
(* indirect tree after the other.  A pointer that cannot be read costs     *)
(* what is below it and no more; holes are dropped at every level, and     *)
(* pointers with no byte run of their own at the end.  Every level is cut  *)
(* to MAX_RUNS pointers.  FileContent reads the same tree one block at a   *)
(* time.                                                                   *)
(***************************************************************************)
EXTENDS DnodeTree

CONSTANTS
  MaxRuns,     \* MAX_RUNS, 65536 in the code
  Cases        \* images with a dnode

ASSUME RunsAssumption == MaxRuns \in Nat \ {0}
ASSUME CasesAssumption == \A c \in Cases : IsDnode(c)

VARIABLES
  pc,          \* "level" (between levels), "pointers" (in one), "returned"
  level,       \* the pointers of this level
  remaining,   \* remaining_levels
  i,           \* the next of them
  next         \* the pointers of the level below

vars == <<d, pc, level, remaining, i, next>>

-----------------------------------------------------------------------------
Present == {b \in Bp : ~b.hole}

WithRun == {b \in Bp : b.at = "first"}

\* Mutant: the bound is tested once per indirect block only.
CutPerBlock(s) == s

Cut(s) == IF Len(s) > MaxRuns THEN SubSeq(s, 1, MaxRuns) ELSE s

Init ==
  /\ d \in Cases
  /\ pc = "level"
  /\ level = Cut(Those(d.top, Present))
  /\ remaining = Levels
  /\ i = 1
  /\ next = <<>>

\* Mutant: levels are not counted; an indirect block may lead back to itself.
EnterLevelUncounted ==
  /\ pc = "level"
  /\ remaining > 1
  /\ level # <<>>
  /\ next' = <<>>
  /\ i' = 1
  /\ pc' = "pointers"
  /\ UNCHANGED <<d, level, remaining>>

EnterLevel ==
  /\ pc = "level"
  /\ remaining > 1
  /\ level # <<>>
  /\ remaining' = remaining - 1
  /\ next' = <<>>
  /\ i' = 1
  /\ pc' = "pointers"
  /\ UNCHANGED <<d, level>>

AtPointer == pc = "pointers" /\ i <= Len(level) /\ Len(next) < MaxRuns

SkipUnreadable ==
  /\ AtPointer
  /\ ~Readable(level[i])
  /\ i' = i + 1
  /\ UNCHANGED <<d, pc, level, remaining, next>>

\* Mutant: the level below in the reverse order.
ExpandInFront ==
  /\ AtPointer
  /\ Readable(level[i])
  /\ next' = Cut(Those(Kids(level[i]), Present) \o next)
  /\ i' = i + 1
  /\ UNCHANGED <<d, pc, level, remaining>>

Expand ==
  /\ AtPointer
  /\ Readable(level[i])
  /\ next' = Cut(next \o Those(Kids(level[i]), Present))
  /\ i' = i + 1
  /\ UNCHANGED <<d, pc, level, remaining>>

LeaveLevel ==
  /\ pc = "pointers"
  /\ ~AtPointer
  /\ level' = next
  /\ pc' = "level"
  /\ UNCHANGED <<d, remaining, i, next>>

\* level.retain: only pointers whose first copy names a place in the image.
Return ==
  /\ pc = "level"
  /\ remaining <= 1 \/ level = <<>>
  /\ level' = Those(level, WithRun)
  /\ pc' = "returned"
  /\ UNCHANGED <<d, remaining, i, next>>

Returned == pc = "returned" /\ UNCHANGED vars

Next ==
  \/ EnterLevel
  \/ SkipUnreadable
  \/ Expand
  \/ LeaveLevel
  \/ Return
  \/ Returned

\* One thread that nothing blocks: a step it can take, it takes.
Spec == Init /\ [][Next]_vars /\ WF_vars(Next)

-----------------------------------------------------------------------------
(***************************************************************************)
(* Properties                                                              *)
(***************************************************************************)
\* Where an indirect block holds as many pointers as dn_indblkshift says, the
\* tree that extents walks is the one read_dnode_data addresses.
WellFormed ==
  /\ d.nlevels > 0
  /\ \A id \in DOMAIN d.blocks : Len(d.blocks[id].kids) = Fanout

Depth == IF Levels > 0 THEN Levels - 1 ELSE 0

\* The leaves that have a byte run, in the order of their block ids.
LeavesWithRun == Those(Layer[Depth], WithRun)

\* The types of the variables; no level is ever longer than MAX_RUNS.
TypeOK ==
  /\ IsDnode(d)
  /\ pc \in {"level", "pointers", "returned"}
  /\ level \in Seq(Bp) /\ Len(level) <= MaxRuns
  /\ next \in Seq(Bp) /\ Len(next) <= MaxRuns
  /\ remaining \in 0..MaxLevels
  /\ i \in 1..MaxRuns + 1

\* The runs are in the order of the file's blocks, none is invented or repeated,
\* and the bound only cuts the end off, whichever level it struck at.  An
\* unreadable indirect block, or a hole in place of one, costs the runs below it
\* only: where no level is longer than MAX_RUNS, every leaf read_dnode_data can
\* reach has its run.
RunsAreTheFiles ==
  pc = "returned" /\ WellFormed =>
    /\ IsPrefix(level, LeavesWithRun)
    /\ (\A k \in 0..Depth :
          Len(Those(Layer[k], Present \ {Lost})) <= MaxRuns) =>
         level = LeavesWithRun

\* The call returns, also where an indirect block leads back to itself.
Terminates == <>(pc = "returned")
=============================================================================
