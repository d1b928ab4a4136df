----------------------------- MODULE MCNvList -----------------------------
(***************************************************************************)
(* Streams for the nvlist decoder: every list of up to four pairs of a     *)
(* small set, encoded as ZFS does, whole, cut at any word, or with one     *)
(* word overwritten.                                                       *)
(***************************************************************************)
EXTENDS NvList, SequencesExt

\* Names are one word, beyond any length and any type code.
Guid == <<101>>
Tree == <<102>>
Shift == <<103>>
Version == <<104>>

\* Pairs to write are <<name, kind, payload>>; "other" is a type the decoder
\* has no use for.
RECURSIVE Body(_), Kept(_), Depth(_), Longest(_), Widest(_), Count(_), Describe(_, _, _, _)

Encode(pair) ==
  LET payload ==
        CASE pair[2] = "u64"   -> <<8, 1>> \o pair[3]
          [] pair[2] = "str"   -> <<9, 1, Len(pair[3])>> \o pair[3]
          [] pair[2] = "bytes" -> <<26, Len(pair[3])>> \o pair[3]
          [] pair[2] = "other" -> <<1, 1>> \o pair[3]
          [] pair[2] = "list"  -> <<19, 1>> \o Body(pair[3])
      rest == <<Len(pair[1])>> \o pair[1] \o payload
  IN <<Len(rest) + 2, 0>> \o rest

Body(list) == <<0, 0>> \o FlattenSeq([i \in DOMAIN list |-> Encode(list[i])]) \o <<0, 0>>

Kept(list) ==
  LET known == SelectSeq(list, LAMBDA pair : pair[2] # "other")
  IN [i \in DOMAIN known |->
        <<known[i][1], <<known[i][2], IF known[i][2] = "list" THEN Kept(known[i][3])
                                      ELSE known[i][3]>> >>]

Nested(list) == {list[i][3] : i \in {i \in DOMAIN list : list[i][2] = "list"}}

Depth(list) == IF Nested(list) = {} THEN 0 ELSE 1 + Max({Depth(l) : l \in Nested(list)})

Longest(list) == Max({Len(list)} \cup {Longest(l) : l \in Nested(list)})

P(name, kind, payload) == <<name, kind, payload>>
Nest(list) == P(Tree, "list", list)

Inner == { << >>, << P(Shift, "u64", <<0, 7>>) >>,
           << P(Guid, "other", <<5>>), P(Guid, "str", <<104>>) >> }

Pairs ==
  { P(Guid, "u64", <<0, 9>>), P(Tree, "bytes", <<4, 5>>), P(Guid, "str", <<104, 105>>),
    P(Tree, "other", <<0>>), P(Guid, "str", <<1, 2, 3, 4>>),
    P(<<101, 101, 101, 101>>, "u64", <<0, 9>>) } \cup {Nest(list) : list \in Inner}

Lists ==
  UNION {[1 .. n -> Pairs] : n \in 0 .. 2}
    \cup {<<p, q, p>> : p \in {P(Guid, "u64", <<0, 8>>)}, q \in Pairs}
    \cup {<<Nest(<<Nest(list)>>), q>> : list \in Inner, q \in Pairs}
    \cup {<<Nest(<<Nest(<<Nest(<< >>)>>)>>)>>}
    \cup {[i \in 1 .. 4 |-> p] : p \in Pairs}
    \cup {<<P(Version, "u64", <<0, 1>>), P(Guid, "u64", <<0, 9>>), p>> : p \in Pairs}

\* The longest name, string or byte array.
Widest(list) ==
  Max({0} \cup {Len(list[i][1]) : i \in DOMAIN list}
          \cup {Len(list[i][3]) : i \in {i \in DOMAIN list : list[i][2] \in {"str", "bytes"}}}
          \cup {Widest(l) : l \in Nested(list)})

\* A pair's lists: the one it holds and those nested in it.
Count(pair) == IF pair[2] = "list" THEN FoldLeft(LAMBDA n, p : n + Count(p), 1, pair[3]) ELSE 0

\* The lists written: this one, which begins at word at, then those nested in it.
Describe(list, number, at, depth) ==
  LET ats == FoldLeft(LAMBDA a, pair : Append(a, Last(a) + Len(Encode(pair))), <<at>>, list)
      numbers == FoldLeft(LAMBDA a, pair : Append(a, Last(a) + Count(pair)), <<number + 1>>, list)
      pair(i) == [name |-> list[i][1], kind |-> list[i][2],
                  value |-> IF list[i][2] = "list" THEN <<>> ELSE list[i][3],
                  list |-> IF list[i][2] = "list" THEN numbers[i] ELSE 0]
      inner(i) == IF list[i][2] # "list" THEN <<>>
                  ELSE Describe(list[i][3], numbers[i], ats[i] + Len(list[i][1]) + 7, depth + 1)
  IN  << [at |-> ats, pairs |-> [i \in DOMAIN list |-> pair(i)],
          kept |-> [i \in 1 .. Len(list) + 1 |-> Kept(SubSeq(list, 1, i - 1))], depth |-> depth,
          fits |-> /\ Longest(list) < MaxPairs /\ depth + Depth(list) <= MaxDepth
                   /\ Widest(list) <= MaxLen] >>
      \o FlattenSeq([i \in DOMAIN list |-> inner(i)])

Undamaged(list) ==
  LET words == <<1>> \o Body(list)
  IN  [lists |-> Describe(list, 1, 4, 0), words |-> words, data |-> words, harmed |-> 0]

Damaged(whole) ==
  {whole}
    \cup {[whole EXCEPT !.data = SubSeq(@, 1, n), !.harmed = n + 1] : n \in 0 .. Len(whole.words) - 1}
    \cup {[whole EXCEPT !.data[i] = w, !.harmed = i] :
             i \in DOMAIN whole.words, w \in {-1, 0, 3, 19}}

AllStreams == UNION {Damaged(whole) : whole \in {Undamaged(list) : list \in Lists}}
=============================================================================
