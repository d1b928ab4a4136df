--------------------------- MODULE RecoverDeleted ---------------------------
(***************************************************************************)
(* recover_deleted (forensic/src/lib.rs): the walk of the DSL snapshot     *)
(* chain that carves files deleted from the live filesystem.               *)
(*                                                                         *)
(* The program is one thread over an immutable image, so the image is a    *)
(* variable that Init chooses and no action changes.  Everything read from *)
(* it is untrusted: object numbers may dangle or form a cycle, any object  *)
(* may be unreadable, a directory may name one file twice.                 *)
(*                                                                         *)
(* An image, as far as this function looks at it:                          *)
(*   boot   how many of the lookups from the L0 label to the head dataset  *)
(*          succeed, in the order the code makes them;                     *)
(*   head   the head dataset, the live filesystem;                         *)
(*   snaps  the snapshot datasets mos_dnode can read, by object number.    *)
(* A dataset: prev is ds_prev_snap_obj, root says whether the objset, the  *)
(* master node and the root directory's ZAP can all be read, entries is    *)
(* the root directory in the order zap_list yields it.  A directory entry  *)
(* carves when zpl_read_file returns Ok for its object.                    *)
(***************************************************************************)
EXTENDS Naturals, Sequences

CONSTANTS
  Name,       \* file names
  Image,      \* the images the function may be called on
  MaxBudget   \* snapshots visited at most; 4096 in the code

BootLookups == 7    \* label, objdir, its ZAP, root_dataset, DSL dir, head, head_ds

Entry == [name: Name, obj: Nat, carves: BOOLEAN]
Dataset == [prev: Nat, root: BOOLEAN, entries: Seq(Entry)]

ASSUME BudgetAssumption == MaxBudget \in Nat

IsImage(im) ==
  /\ im.boot \in 0..BootLookups
  /\ im.head \in Dataset
  /\ DOMAIN im.snaps \in SUBSET Nat
  /\ \A s \in DOMAIN im.snaps : im.snaps[s] \in Dataset

ASSUME ImageAssumption == \A im \in Image : IsImage(im)

VARIABLES
  image,    \* the bytes under analysis
  pc,       \* "boot", "walk" (the while), "diff" (the for), "returned"
  step,     \* bootstrap lookups made
  live,     \* names in live_names
  snap,     \* snap_obj
  budget,
  seen,     \* the snapshots visited, in order
  pos,     \* position of the for loop in the current snapshot's listing
  out       \* the files recovered, in order

vars == <<image, pc, step, live, snap, budget, seen, pos, out>>
walkVars == <<image, step, live>>

-----------------------------------------------------------------------------
\* zpl_list_dir on the dataset's root: any failure on the way reads as "empty".
Listing(ds) == IF ds.root THEN ds.entries ELSE <<>>

ListedNames(ds) == {Listing(ds)[i].name : i \in DOMAIN Listing(ds)}

Elements(s) == {s[i] : i \in DOMAIN s}

HasName(files, n) == \E i \in DOMAIN files : files[i].name = n

CurrentListing == Listing(image.snaps[snap])

File(e, s) == [name |-> e.name, inode |-> e.obj, source |-> s]

-----------------------------------------------------------------------------
Init ==
  /\ image \in Image
  /\ pc = "boot"
  /\ step = 0
  /\ live = {}
  /\ snap = 0
  /\ budget = MaxBudget
  /\ seen = <<>>
  /\ pos = 1
  /\ out = <<>>

\* One lookup of the path label -> MOS -> object directory -> head dataset.
Lookup ==
  /\ pc = "boot"
  /\ step < image.boot
  /\ step' = step + 1
  /\ UNCHANGED <<image, pc, live, snap, budget, seen, pos, out>>

\* A lookup fails: `else { return out }`.
LookupFails ==
  /\ pc = "boot"
  /\ step = image.boot
  /\ step < BootLookups
  /\ pc' = "returned"
  /\ UNCHANGED <<walkVars, snap, budget, seen, pos, out>>

\* dataset_root_names of the head, then the head's ds_prev_snap_obj.
ListLive ==
  /\ pc = "boot"
  /\ step = BootLookups
  /\ pc' = "walk"
  /\ live' = ListedNames(image.head)
  /\ snap' = image.head.prev
  /\ UNCHANGED <<image, step, budget, seen, pos, out>>

\* The loop condition fails: the chain ends, or the budget is spent.
EndWalk ==
  /\ pc = "walk"
  /\ snap = 0 \/ budget = 0
  /\ pc' = "returned"
  /\ UNCHANGED <<walkVars, snap, budget, seen, pos, out>>

\* Mutant: the loop does not look at the budget.
IterateUnbounded ==
  /\ pc = "walk"
  /\ snap # 0
  /\ budget' = budget - 1

Iterate ==
  /\ pc = "walk"
  /\ snap # 0
  /\ budget > 0
  /\ budget' = budget - 1

\* The pointer leads back into the chain: break.
BreakOnCycle ==
  /\ Iterate
  /\ snap \in Elements(seen)
  /\ pc' = "returned"
  /\ UNCHANGED <<walkVars, snap, seen, pos, out>>

\* The snapshot's dnode cannot be read: break.
BreakOnDangling ==
  /\ Iterate
  /\ snap \notin Elements(seen)
  /\ seen' = Append(seen, snap)
  /\ snap \notin DOMAIN image.snaps
  /\ pc' = "returned"
  /\ UNCHANGED <<walkVars, snap, pos, out>>

\* Mutant: no look at seen.
EnterAgain ==
  /\ Iterate
  /\ seen' = Append(seen, snap)
  /\ snap \in DOMAIN image.snaps
  /\ pc' = "diff"
  /\ pos' = 1
  /\ UNCHANGED <<walkVars, snap, out>>

\* Mutant: the for loop resumes where the last snapshot's listing ended.
EnterMidway ==
  /\ Iterate
  /\ snap \notin Elements(seen)
  /\ seen' = Append(seen, snap)
  /\ snap \in DOMAIN image.snaps
  /\ pc' = "diff"
  /\ UNCHANGED <<walkVars, snap, pos, out>>

\* recover_from_snapshot is called.
EnterSnapshot ==
  /\ Iterate
  /\ snap \notin Elements(seen)
  /\ seen' = Append(seen, snap)
  /\ snap \in DOMAIN image.snaps
  /\ pc' = "diff"
  /\ pos' = 1
  /\ UNCHANGED <<walkVars, snap, out>>

-----------------------------------------------------------------------------
Current == CurrentListing[pos]

InListing == pc = "diff" /\ pos \in DOMAIN CurrentListing

NextEntry ==
  /\ pos' = pos + 1
  /\ UNCHANGED <<walkVars, pc, snap, budget, seen>>

\* Present live: not deleted.
SkipLive ==
  /\ InListing
  /\ Current.name \in live
  /\ NextEntry
  /\ UNCHANGED out

\* Already recovered, from this snapshot or a newer one: keep the first.
SkipRecovered ==
  /\ InListing
  /\ Current.name \notin live
  /\ HasName(out, Current.name)
  /\ NextEntry
  /\ UNCHANGED out

\* Mutant: a read error abandons the rest of the snapshot.
AbandonUnreadable ==
  /\ InListing
  /\ Current.name \notin live
  /\ ~HasName(out, Current.name)
  /\ ~Current.carves
  /\ pos' = Len(CurrentListing) + 1
  /\ UNCHANGED <<walkVars, pc, snap, budget, seen, out>>

\* zpl_read_file returns Err: the name stays recoverable further down.
SkipUnreadable ==
  /\ InListing
  /\ Current.name \notin live
  /\ ~HasName(out, Current.name)
  /\ ~Current.carves
  /\ NextEntry
  /\ UNCHANGED out

\* Mutant: no comparison with the live root.
CarveLiveToo ==
  /\ InListing
  /\ ~HasName(out, Current.name)
  /\ Current.carves
  /\ out' = Append(out, File(Current, snap))
  /\ NextEntry

\* Mutant: no dedup.
CarveTwice ==
  /\ InListing
  /\ Current.name \notin live
  /\ Current.carves
  /\ out' = Append(out, File(Current, snap))
  /\ NextEntry

\* Mutant: an older snapshot's file replaces a newer one's.
CarveOldest ==
  /\ InListing
  /\ Current.name \notin live
  /\ Current.carves
  /\ out' = Append(SelectSeq(out, LAMBDA f : f.name # Current.name), File(Current, snap))
  /\ NextEntry

Carve ==
  /\ InListing
  /\ Current.name \notin live
  /\ ~HasName(out, Current.name)
  /\ Current.carves
  /\ out' = Append(out, File(Current, snap))
  /\ NextEntry

\* The listing is exhausted: on to the previous snapshot.
LeaveSnapshot ==
  /\ pc = "diff"
  /\ pos > Len(CurrentListing)
  /\ pc' = "walk"
  /\ snap' = image.snaps[snap].prev
  /\ UNCHANGED <<walkVars, budget, seen, pos, out>>

Returned == pc = "returned" /\ UNCHANGED vars

Next ==
  \/ Lookup
  \/ LookupFails
  \/ ListLive
  \/ EndWalk
  \/ BreakOnCycle
  \/ BreakOnDangling
  \/ EnterSnapshot
  \/ SkipLive
  \/ SkipRecovered
  \/ SkipUnreadable
  \/ Carve
  \/ LeaveSnapshot
  \/ Returned

\* One thread that nothing blocks: a step it can take, it takes.
Spec == Init /\ [][Next]_vars /\ WF_vars(Next)
-----------------------------------------------------------------------------
(***************************************************************************)
(* Properties                                                              *)
(***************************************************************************)
FileType == [name: Name, inode: Nat, source: Nat]

\* The types of the loop's variables.
TypeOK ==
  /\ IsImage(image)
  /\ pc \in {"boot", "walk", "diff", "returned"}
  /\ step \in 0..BootLookups
  /\ live \in SUBSET Name
  /\ snap \in Nat
  /\ budget \in 0..MaxBudget
  /\ seen \in Seq(Nat)
  /\ pos \in Nat \ {0}
  /\ out \in Seq(FileType)

Readable(s) == s \in DOMAIN image.snaps

\* Position p of snapshot s's listing offers the content of a file named n.
Offers(s, p, n) ==
  /\ p \in DOMAIN Listing(image.snaps[s])
  /\ Listing(image.snaps[s])[p].name = n
  /\ Listing(image.snaps[s])[p].carves

RootNames(ds) == {ds.entries[i].name : i \in DOMAIN ds.entries}

\* Nothing that the live root lists is reported as deleted, provided the live
\* root could be read at all.
LiveNeverReported ==
  image.head.root => \A i \in DOMAIN out : out[i].name \notin RootNames(image.head)

\* However often the snapshots (or one snapshot's directory) repeat a name, one
\* file is reported for it.
OneFilePerName ==
  \A i, j \in DOMAIN out : out[i].name = out[j].name => i = j

\* A reported file is the newest state of its name that can be read: its source
\* is on the chain, it is the first readable entry of that name there, and no
\* newer snapshot on the chain had a readable one.
FirstReadable(f, k) ==
  /\ seen[k] = f.source
  /\ Readable(seen[k])
  /\ \E p \in DOMAIN Listing(image.snaps[f.source]) :
       /\ Offers(seen[k], p, f.name)
       /\ Listing(image.snaps[seen[k]])[p].obj = f.inode
       /\ \A q \in 1..p - 1 : ~Offers(seen[k], q, f.name)
  /\ \A j \in 1..k - 1 : Readable(seen[j]) =>
       \A q \in DOMAIN Listing(image.snaps[seen[j]]) : ~Offers(seen[j], q, f.name)

NewestReadableWins ==
  \A i \in DOMAIN out : \E k \in DOMAIN seen : FirstReadable(out[i], k)

\* A failed read loses only what was behind it: every readable entry the loop
\* has passed, in any snapshot, is live or reported.
Passed(k, p) ==
  \/ k < Len(seen)
  \/ pc # "diff"
  \/ p < pos

NothingMissed ==
  \A k \in DOMAIN seen : Readable(seen[k]) =>
    \A p \in DOMAIN Listing(image.snaps[seen[k]]) :
      LET e == Listing(image.snaps[seen[k]])[p]
      IN  Passed(k, p) /\ e.carves => e.name \in live \/ HasName(out, e.name)

\* The snapshots visited are the head's chain, each once, within the budget; and
\* the walk stops only where the chain does: at its end, at a pointer back into
\* it, at an object that cannot be read, or with the budget spent.
FollowsChain ==
  /\ seen # <<>> => seen[1] = image.head.prev
  /\ \A k \in 1..Len(seen) - 1 :
       Readable(seen[k]) /\ seen[k + 1] = image.snaps[seen[k]].prev
  /\ \A j, k \in DOMAIN seen : seen[j] = seen[k] => j = k
  /\ Len(seen) <= MaxBudget

NextOfChain ==
  IF seen = <<>> THEN image.head.prev ELSE image.snaps[seen[Len(seen)]].prev

WalksWholeChain ==
  /\ FollowsChain
  /\ pc = "returned" /\ step = BootLookups =>
       \/ Len(seen) = MaxBudget
       \/ seen # <<>> /\ ~Readable(seen[Len(seen)])
       \/ NextOfChain \in {0} \cup Elements(seen)

-----------------------------------------------------------------------------
(***************************************************************************)
(* Refinement: a snapshot counts as absorbed when its listing is finished; *)
(* one that cannot be read, the last one seen, never is.                   *)
(***************************************************************************)
Finished ==
  IF pc = "diff" \/ (seen # <<>> /\ ~Readable(seen[Len(seen)]))
  THEN Len(seen) - 1
  ELSE Len(seen)

Absorbed == SubSeq(seen, 1, Finished)

FoundInAbsorbed == {f \in Elements(out) : f.source \in Elements(Absorbed)}

Diff == INSTANCE SnapshotDiff WITH
  visited <- Absorbed,
  found <- FoundInAbsorbed,
  returned <- pc = "returned"

\* The nested loops implement the one-step-per-snapshot diff, and finish when it
\* does (safety and liveness).
ImplementsDiff == Diff!Spec
=============================================================================
