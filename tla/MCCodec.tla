------------------------------ MODULE MCCodec ------------------------------
(***************************************************************************)
(* Blocks for the codecs: every list of up to four LZJB items over a small *)
(* set, and lists of nine to eleven, which need a second copymap; ZLE runs *)
(* of one to 64 bytes; streams of the other crates.  Each is whole, cut at *)
(* any byte, with two words exchanged or with one overwritten, and read at *)
(* its length or one byte less.                                            *)
(***************************************************************************)
EXTENDS Codec, FiniteSets

Lit(x) == <<x, 0>>
Ref(len, offset) == <<len, offset>>
IsRef(item) == item[2] # 0

Items == {Lit(1), Lit(200), Ref(3, 1), Ref(5, 2), Ref(4, 3)}

\* What an item appends, in closed form: a match repeats its last offset bytes.
Expand(data, item) ==
  IF IsRef(item)
  THEN data \o [k \in 1 .. item[1] |-> data[Len(data) - item[2] + ((k - 1) % item[2]) + 1]]
  ELSE Append(data, item[1])

Expanded(items) == FoldLeft(Expand, <<>>, items)

Valid(items) ==
  \A i \in DOMAIN items : IsRef(items[i]) => Len(Expanded(SubSeq(items, 1, i - 1))) >= items[i][2]

ItemLists ==
  LET short == {l \in UNION {[1 .. n -> Items] : n \in 1 .. 4} : ~IsRef(l[1])}
      seven == [i \in 1 .. 7 |-> IF i % 2 = 1 THEN Lit(i) ELSE Ref(3, 1)]
  IN  {l \in short \cup {seven \o l : l \in {l \in short : Len(l) \in 2 .. 3}} : Valid(l)}

Code(item) ==
  IF IsRef(item) THEN <<4 * (item[1] - 3) + item[2] \div 256, item[2] % 256>> ELSE <<item[1]>>

Flags(items) ==
  FoldLeft(+, 0, [i \in DOMAIN items |-> IF IsRef(items[i]) THEN 2^(i - 1) ELSE 0])

Group(items) == <<Flags(items)>> \o FlattenSeq([i \in DOMAIN items |-> Code(items[i])])

Lzjb(items) ==
  IF Len(items) <= 8 THEN Group(items)
  ELSE Group(SubSeq(items, 1, 8)) \o Group(SubSeq(items, 9, Len(items)))

\* The checksum of n words as weighted sums of them.
Weighted(words, weight(_)) ==
  FoldLeft(+, 0, [i \in DOMAIN words |-> weight(Len(words) + 1 - i) * words[i]]) % 2^SumWidth

Expected(cksum, words) ==
  CASE cksum = 7 -> <<Weighted(words, LAMBDA k : 1), Weighted(words, LAMBDA k : k),
                      Weighted(words, LAMBDA k : (k * (k + 1)) \div 2),
                      Weighted(words, LAMBDA k : (k * (k + 1) * (k + 2)) \div 6)>>
    [] cksum = 6 -> LET lane(r) == [i \in 1 .. Len(words) \div 2 |-> words[2 * i - r]]
                    IN  <<Weighted(lane(1), LAMBDA k : 1), Weighted(lane(0), LAMBDA k : 1),
                          Weighted(lane(1), LAMBDA k : k), Weighted(lane(0), LAMBDA k : k)>>
    [] OTHER -> words

ItemBlock(comp, cksum, src, data, packed, short, at, from, map) ==
  [comp |-> comp, cksum |-> cksum, src |-> src, whole |-> src, data |-> data, packed |-> packed,
   lsize |-> Len(data) - short, expected |-> Expected(cksum, src), harm |-> "none",
   at |-> at, from |-> from, map |-> map]

Block(comp, cksum, src, data, packed, short) ==
  ItemBlock(comp, cksum, src, data, packed, short, <<>>, <<>>, <<>>)

\* The items of an LZJB stream: where each begins, in the stream and in the
\* data, and the flags it is under.
LzjbBlock(items, short) ==
  LET fronts == [i \in 1 .. Len(items) + 1 |-> SubSeq(items, 1, i - 1)]
      group(i) == SubSeq(items, 8 * ((i - 1) \div 8) + 1,
                         IF 8 * ((i - 1) \div 8) + 8 < Len(items) THEN 8 * ((i - 1) \div 8) + 8
                                                                  ELSE Len(items))
  IN  ItemBlock(3, 7, Lzjb(items), Expanded(items), <<>>, short,
                [i \in DOMAIN fronts |-> IF i = 1 THEN 0 ELSE Len(Lzjb(fronts[i]))],
                [i \in DOMAIN fronts |-> Len(Expanded(fronts[i]))],
                [i \in DOMAIN items |-> Flags(group(i))])

Run(n) == [i \in 1 .. n |-> i + 9]
None(n) == [i \in 1 .. n |-> 0]

\* Literals, zeros and literals; zeros at the end.
Zle ==
  {ItemBlock(14, 7, <<m - 1>> \o Run(m) \o <<128 + z - 64, 1, 8, 8>>, Run(m) \o None(z) \o <<8, 8>>,
             <<>>, s, <<0, m + 1, m + 2, m + 5>>, <<0, m, m + z, m + z + 2>>, <<>>) :
     m \in {1, 64}, z \in {64, 70}, s \in 0 .. 1}
   \cup {ItemBlock(14, 7, <<0, 5, 128>>, <<5>> \o None(64), <<>>, s, <<0, 2, 3>>, <<0, 1, 65>>, <<>>) :
            s \in 0 .. 1}

Packed == <<31, 32, 33, 34>>
Header(comp) == CASE comp = 15 -> <<0, 0, 0, 4>> [] comp = 16 -> <<0, 0, 0, 4, 1, 2, 3, 4>> [] OTHER -> <<>>

Others ==
  {Block(c, k, Header(c) \o Packed \o <<0, 0>>, Run(3), Packed, IF c = 15 THEN 0 ELSE s) :
     c \in {0, 1, 9, 15, 16, 17}, k \in {2, 6, 7, 8, 9}, s \in 0 .. 1}
   \cup {Block(2, k, Run(4), Run(4), <<>>, s) : k \in {2, 6, 7, 8}, s \in 0 .. 1}
   \cup {Block(4, 2, Run(2), None(3), <<>>, 0)}

Whole == {LzjbBlock(l, s) : l \in ItemLists, s \in 0 .. 1} \cup Zle \cup Others

Verified(blk) == blk.cksum \in 6 .. 8

Swap(s, i, j) == [s EXCEPT ![i] = s[j], ![j] = s[i]]

Damaged(blk) ==
  {[blk EXCEPT !.src = SubSeq(@, 1, n), !.harm = "cut"] :
     n \in IF blk.comp \in {0, 4, 17} THEN {} ELSE 0 .. Len(blk.src) - 1}
   \cup {[blk EXCEPT !.src[i] = w, !.harm = IF Verified(blk) THEN "word" ELSE "unseen"] :
           w \in {0, 100} , i \in {i \in DOMAIN blk.src : i <= 12 /\ blk.src[i] \notin {0, 100}}}
   \cup {[blk EXCEPT !.src = Swap(blk.src, 1, j), !.harm = IF Verified(blk) THEN "swap" ELSE "unseen"] :
           j \in {j \in DOMAIN blk.src : blk.src[j] # blk.src[1]}}

AllBlocks == Whole \cup UNION {Damaged(blk) : blk \in Whole}
=============================================================================
