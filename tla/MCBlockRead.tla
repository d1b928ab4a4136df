---------------------------- MODULE MCBlockRead ----------------------------
(***************************************************************************)
(* Images of up to three allocatable sectors and pointers with up to three *)
(* copies anywhere in them, past the end, or past the address space (6     *)
(* wraps to 1).  z is all zeroes, g and x are data.  The codecs: one that  *)
(* takes anything (off), one that rejects x or one that rejects g (a       *)
(* compressed stream), one that rejects everything (unsupported).          *)
(***************************************************************************)
EXTENDS BlockRead

CONSTANTS z, g, x

Imgs == {<<z>> \o s : s \in UNION {[1..n -> Content] : n \in 0..3}}

\* An image too short to hold the boot region.
Imgs0 == Imgs \cup {<<>>}

Codecs == {Content, {g}, {x}, {}}

Pointers ==
  {[embedded |-> FALSE, inline |-> FALSE, dvas |-> d, cksum |-> c.cksum, sum |-> c.sum,
    codec |-> k] :
     d \in [Dvas -> {0, 1, 2, 6, NoDva}],
     c \in [cksum: {"verified"}, sum: {g, z}] \cup [cksum: {"skipped", "unsupported"}, sum: {g}],
     k \in Codecs}

EmbeddedPointers ==
  {[embedded |-> TRUE, inline |-> i, dvas |-> [d \in Dvas |-> NoDva], cksum |-> "verified",
    sum |-> g, codec |-> {g}] : i \in BOOLEAN}

AllCases == [img: Imgs0, bp: Pointers] \cup [img: {<<z>>}, bp: EmbeddedPointers]
=============================================================================
