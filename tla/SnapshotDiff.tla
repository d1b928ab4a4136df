---------------------------- MODULE SnapshotDiff ----------------------------
(***************************************************************************)
(* What recover_deleted promises, without its loops: snapshots are taken   *)
(* off the head's chain newest first, and each adds, in one step, the      *)
(* first readable file of every name that is neither live nor found yet.   *)
(***************************************************************************)
EXTENDS Naturals, Sequences

CONSTANTS BootLookups, MaxBudget

VARIABLES
  image,     \* any image: the instantiation says which
  visited,   \* snapshots absorbed, newest first
  found,     \* the set of files recovered
  returned

vars == <<image, visited, found, returned>>

Listed(ds) == IF ds.root THEN ds.entries ELSE <<>>

NamesOf(ds) == {Listed(ds)[i].name : i \in DOMAIN Listed(ds)}

\* Positions of the first readable entry of each name in a listing.
FirstReadable(l) ==
  {p \in DOMAIN l : l[p].carves /\ \A q \in 1..p - 1 : l[q].name = l[p].name => ~l[q].carves}

DeletedIn(s) ==
  LET l == Listed(image.snaps[s])
  IN  {[name |-> l[p].name, inode |-> l[p].obj, source |-> s] :
         p \in {p \in FirstReadable(l) : /\ l[p].name \notin NamesOf(image.head)
                                         /\ \A f \in found : f.name # l[p].name}}

Oldest == IF visited = <<>> THEN image.head ELSE image.snaps[visited[Len(visited)]]

Init ==
  /\ visited = <<>>
  /\ found = {}
  /\ returned = FALSE

Visitable ==
  /\ image.boot = BootLookups
  /\ Oldest.prev \in DOMAIN image.snaps \ {0}
  /\ \A i \in DOMAIN visited : visited[i] # Oldest.prev
  /\ Len(visited) < MaxBudget

Absorb ==
  /\ ~returned
  /\ Visitable
  /\ visited' = Append(visited, Oldest.prev)
  /\ found' = found \cup DeletedIn(Oldest.prev)
  /\ UNCHANGED <<image, returned>>

Return ==
  /\ ~returned
  /\ ~Visitable
  /\ returned' = TRUE
  /\ UNCHANGED <<image, visited, found>>

Next == Absorb \/ Return

Spec == Init /\ [][Next]_vars /\ WF_vars(Next)
=============================================================================
