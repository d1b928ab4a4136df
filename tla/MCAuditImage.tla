---------------------------- MODULE MCAuditImage ----------------------------
(***************************************************************************)
(* Two values of each config field.  Each label is intact, differs from L0 *)
(* in one field or in all, lacks its pool_guid, or has lost its config or  *)
(* its ring; all combinations of the four.  The MOS has up to two          *)
(* pointers, of every verdict.                                             *)
(***************************************************************************)
EXTENDS AuditImage

L(c, r, g, a) == [config |-> c, ring |-> r, guid |-> g, ashift |-> a]

SomeLabels ==
  {L(TRUE, TRUE, 1, 9), L(TRUE, TRUE, 2, 9), L(TRUE, TRUE, 1, 12), L(TRUE, TRUE, 2, 12),
   L(TRUE, TRUE, NoGuid, 9), L(FALSE, TRUE, 1, 9), L(TRUE, FALSE, 1, 9)}

Moses == {NoMos} \cup UNION {[1..n -> Verdicts] : n \in 0..1}
           \cup {<<"mismatch", v>> : v \in Verdicts}

Vdevs ==
  [whole: BOOLEAN, labels: [Labels -> SomeLabels], rootbp: {"mismatch", "ok"},
   mos: {<<"mismatch">>, NoMos}]

Blocks ==
  [whole: {TRUE}, labels: {[l \in Labels |-> L(TRUE, TRUE, 1, 9)]}, rootbp: Verdicts,
   mos: Moses]

AllImages == Vdevs \cup Blocks
=============================================================================
