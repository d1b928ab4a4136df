--------------------------- MODULE MCUberblockScan ---------------------------
(***************************************************************************)
(* Rings of two units, slots of one unit or two, txgs 1 and 2 on every     *)
(* unit of every label; labels L1..L3 may be cut short or off.  Torn       *)
(* uberblocks occur in L0.                                                 *)
(***************************************************************************)
EXTENDS UberblockScan

Whole == {[txg |-> t, whole |-> TRUE] : t \in Txg}
Torn == {[txg |-> t, whole |-> FALSE] : t \in Txg}

RingsOf(units) == UNION {[1..n -> units] : n \in 0..RingUnits}

SmallImages ==
  {[config |-> c, stride |-> s, rings |-> <<l0, l1, l2, l2>>] :
     c \in BOOLEAN, s \in 1..2,
     l0 \in RingsOf(Whole \cup Torn \cup {NoUb}),
     l1 \in RingsOf(Whole \cup {NoUb}),
     l2 \in RingsOf({[txg |-> 2, whole |-> TRUE], NoUb})}
=============================================================================
