-------------------------------- MODULE Lists --------------------------------
(***************************************************************************)
(* Lists that are filtered.  The test is a set and the loop a recursive    *)
(* function, so that what it keeps can be reasoned about.                  *)
(***************************************************************************)
EXTENDS Naturals, Sequences, SequencesExt

\* The elements of s that are in S, in their order: filter, or retain.
Those(s, S) ==
  LET kept[n \in 0..Len(s)] ==
        IF n = 0 THEN <<>> ELSE IF s[n] \in S THEN Append(kept[n - 1], s[n]) ELSE kept[n - 1]
  IN  kept[Len(s)]
=============================================================================
