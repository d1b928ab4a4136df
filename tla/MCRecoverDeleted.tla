-------------------------- MODULE MCRecoverDeleted --------------------------
(***************************************************************************)
(* Small images for TLC.                                                   *)
(*                                                                         *)
(* ChainImages: three snapshot objects whose pointers are arbitrary (also  *)
(* dangling, cyclic or 0), each with no readable root, or a root that      *)
(* lists one file, readable or not.                                        *)
(* ListingImages: two snapshot objects whose roots list up to two entries, *)
(* a repeated name included.                                               *)
(***************************************************************************)
EXTENDS RecoverDeleted

CONSTANTS a, b

E(n, o, c) == [name |-> n, obj |-> o, carves |-> c]

Unlisted == [root: {FALSE}, entries: {<<E(a, 9, TRUE)>>}]
OneFile == [root: {TRUE}, entries: {<<E(a, 1, c)>> : c \in BOOLEAN}]
TwoFiles ==
  [root: {TRUE},
   entries: {<<E(a, 1, c), E(n, 2, d)>> : c \in BOOLEAN, n \in {a, b}, d \in BOOLEAN}]

WithPrev(roots, objs) ==
  {[prev |-> p, root |-> r.root, entries |-> r.entries] : p \in objs, r \in roots}

Images(objs, roots, lives) ==
  LET prevs == objs \cup {0}
      datasets == WithPrev(roots, prevs)
  IN  {[boot |-> BootLookups, head |-> h, snaps |-> f] :
         h \in WithPrev(lives, prevs),
         f \in UNION {[d -> datasets] : d \in SUBSET objs}}

Unbootable ==
  {[boot |-> k, head |-> h, snaps |-> <<>>] :
     k \in 0..BootLookups - 1, h \in WithPrev(Unlisted, {0})}

LiveRoots == Unlisted \cup [root: {TRUE}, entries: {<<>>, <<E(b, 3, TRUE)>>}]

ChainImages ==
  Images(1..3, Unlisted \cup OneFile, [root: {TRUE}, entries: {<<>>}]) \cup Unbootable

ListingImages == Images(1..2, Unlisted \cup TwoFiles, LiveRoots)

AllImages == ChainImages \cup ListingImages
=============================================================================
