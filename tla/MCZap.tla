-------------------------------- MODULE MCZap --------------------------------
(***************************************************************************)
(* Leaves of three and four chunks whose chains are arbitrary: straight,   *)
(* cyclic, shared, out of range, through an entry or a free chunk.  An     *)
(* array chunk holds two bytes.  Objects of one leaf with every such leaf, *)
(* and of up to four blocks of one or two units, each a leaf or not, with  *)
(* one honest leaf.                                                        *)
(***************************************************************************)
EXTENDS Zap

CONSTANTS x, y

E(n, nl, v, w) == [type |-> "entry", name |-> n, nameLen |-> nl, value |-> v, want |-> w]
A(b, nx) == [type |-> "array", bytes |-> b, next |-> nx]
Free == [type |-> "free"]

Ends == {0, 1, 2, 3, End}

\* One entry: its name in chunk 1, its value anywhere.
OneEntry ==
  {<<E(1, nl, v, w), A(<<x, Nul>>, n1), A(<<y, x>>, n2)>> :
     nl \in {0, 1, 2}, v \in {1, 2, 3}, w \in {0, 1, 3, 4, 7}, n1 \in Ends, n2 \in Ends}

\* Two entries that share their name chunk, or not, with a free chunk.
TwoEntries ==
  {<<A(<<x, y>>, n1), E(0, 2, 3, w), E(m, 3, v, 3), A(<<y, Nul>>, n2), Free>> :
     n1 \in {3, 4, End}, w \in {1, 4}, m \in {0, 3, 4}, v \in {0, 3}, n2 \in {0, 2, 3, End}}

Honest(b) == <<E(1, 2, 2, 2), A(<<b, Nul>>, End), A(<<y, x>>, End)>>

Object(len, sig, leaves) ==
  [kind |-> "fat", len |-> len, sig |-> sig, leaf |-> leaves, slots |-> <<>>]

OneLeaf ==
  {Object(2, {1}, [at \in {<<1, 1>>} |-> cs]) : cs \in OneEntry \cup TwoEntries}

\* Under a wrong block size a leaf decodes to nothing of use.
Decoded(size) ==
  [at \in (1..8) \X (1..8) |->
     IF at[2] = size THEN Honest(IF at[1] = size THEN x ELSE y) ELSE <<Free, Free, Free>>]

ManyBlocks ==
  {Object(n * size, {k * size : k \in s}, Decoded(size)) :
     size \in {1, 2}, n \in 1..4, s \in SUBSET (1..3)}

Micro ==
  {[kind |-> "micro", len |-> 1, sig |-> {}, leaf |-> <<>>, slots |-> s] :
     s \in {<<>>} \cup [1..2 -> {[name |-> n, value |-> <<x>>] : n \in {<<>>, <<y>>}}]}

Other == {[kind |-> "other", len |-> 1, sig |-> {}, leaf |-> <<>>, slots |-> <<>>]}

InLength(o) == \A u \in o.sig : u < o.len

AllObjects == OneLeaf \cup {o \in ManyBlocks : InLength(o)} \cup Micro \cup Other
=============================================================================
