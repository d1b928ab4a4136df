--------------------------- MODULE MCSystemAttrs ---------------------------
(***************************************************************************)
(* Objects for SystemAttrs: six layouts of fixed- and variable-length      *)
(* attributes, a packed list and a directory of attributes or neither, and *)
(* the bonus whole, cut at every byte, with a short lengths array or with  *)
(* a wrong length.                                                         *)
(***************************************************************************)
EXTENDS SystemAttrs

MCScalars == <<"MODE", "SIZE">>
MCTimes == <<"MTIME">>
MCZnodeAt == [n \in {"MODE", "MTIME"} |-> IF n = "MODE" THEN 16 ELSE 0]

IdFor == [MTIME |-> 1, DACL |-> 2, DXATTR |-> 3, XATTR |-> 4, MODE |-> 5, SIZE |-> 6, ODD |-> 9]
Length0 == [MTIME |-> 16, DACL |-> 0, DXATTR |-> 0, XATTR |-> 8, MODE |-> 8, SIZE |-> 8]

\* [length : byteswap : id]; ODD is in layouts and not in the registry.
MCRegistry ==
  LET names == <<"MTIME", "DACL", "DXATTR", "XATTR", "MODE", "SIZE">>
  IN [i \in DOMAIN names |-> <<names[i], 16777216 * Length0[names[i]] + 65536 + IdFor[names[i]]>>]

LayoutNames ==
  { <<"MODE", "SIZE", "MTIME", "DXATTR">>, <<"SIZE", "MTIME", "DACL", "XATTR", "DXATTR", "MODE">>,
    <<"MODE", "XATTR", "DACL", "DXATTR", "SIZE">>, <<"SIZE", "DACL">>, <<"MTIME", "MODE", "XATTR">>,
    <<"MODE", "ODD", "SIZE", "DXATTR">> }

Eight(b) == <<b, 0, 0, 0, 0, 0, 0, 0>>
Packed == <<1, 7, 7>>
Bytes == [MTIME |-> Eight(21) \o Eight(22), DACL |-> <<31, 32>>, DXATTR |-> Packed,
          XATTR |-> Eight(41), MODE |-> Eight(51), SIZE |-> Eight(61), ODD |-> <<91>>]

OfAnyLength(n) == n \in {"DACL", "DXATTR"}

LE2(n) == <<n % 256, n \div 256>>

\* An SA bonus: magic, layout number and header size, lengths, values.
Encode(names, hdr, lengths) ==
  LET head == <<90, 80, 47, 0>> \o LE2(7 + 1024 * (hdr \div 8)) \o lengths
      pad == [i \in 1 .. hdr - Len(head) |-> 0]
  IN head \o pad \o FlattenSeq([i \in DOMAIN names |-> Bytes[names[i]]])

Lengths(names) ==
  LET vs == SelectSeq(names, OfAnyLength)
  IN FlattenSeq([i \in DOMAIN vs |-> LE2(Len(Bytes[vs[i]]))])

Hdr(names) == IF Len(Lengths(names)) <= 2 THEN 8 ELSE 16

Leading(names) ==
  {names[i] : i \in {i \in DOMAIN names : \A j \in 1 .. i : ~OfAnyLength(names[j]) /\ names[j] # "ODD"}}

\* Where each attribute begins, and the last one ends.
Places(names, hdr) ==
  [i \in 1 .. Len(names) + 1 |->
     FoldLeft(LAMBDA n, name : n + Len(Bytes[name]), hdr, SubSeq(names, 1, i - 1))]

Object(names, pairs, entries, spill) ==
  LET has(n) == \E i \in DOMAIN names : names[i] = n
      reach == ~has("ODD")
      whole == Encode(names, Hdr(names), Lengths(names))
  IN [bonustype |-> "sa", bonus |-> whole, full |-> whole, at |-> Places(names, Hdr(names)),
      registry |-> MCRegistry,
      layouts |-> << <<7, FlattenSeq([i \in DOMAIN names |-> <<0, IdFor[names[i]]>>])>> >>,
      packed |-> Packed, pairs |-> pairs,
      dirs |-> [d \in {Eight(41)} |-> entries], files |-> [f \in {81, 82} |-> <<f>>],
      spill |-> spill,
      written |-> [n \in {"MODE", "SIZE", "MTIME"} |-> IF has(n) THEN Bytes[n] ELSE <<>>],
      leading |-> Leading(names) \cap {"MODE", "SIZE", "MTIME"},
      inSa |-> IF has("DXATTR") /\ reach
               THEN LET b == SelectSeq(pairs, LAMBDA p : p[2] = "bytes")
                    IN [i \in DOMAIN b |-> <<b[i][1], b[i][3]>>] ELSE <<>>,
      inDir |-> IF has("XATTR")
                THEN LET e == SelectSeq(entries, LAMBDA x : x[2] # 83)
                     IN [i \in DOMAIN e |-> <<e[i][1], <<e[i][2]>> >>] ELSE <<>>,
      inSpill |-> spill /\ ~has("DXATTR"), harm |-> "none"]

PairLists == { <<>>, << <<"a", "bytes", <<1>> >> >>, << <<"a", "u64", <<2>> >>, <<"b", "bytes", <<>> >> >> }
EntryLists == { <<>>, << <<"c", 81>>, <<"a", 83>>, <<"d", 82>> >> }

Whole == {Object(n, p, e, s) : n \in LayoutNames, p \in PairLists, e \in EntryLists, s \in BOOLEAN}

Cuts(obj) ==
  {[obj EXCEPT !.bonus = SubSeq(@, 1, i), !.harm = "cut"] : i \in 0 .. Len(obj.bonus) - 1}

\* A length that lies, a layout nobody defined, and bonuses of other types.
Others(obj) ==
  LET znode == Bytes["MTIME"] \o Bytes["MODE"] IN
  {[obj EXCEPT !.bonus[7] = b, !.full[7] = b, !.harm = "lies"] : b \in {0, 1, 9}}
    \cup {[obj EXCEPT !.layouts = <<>>, !.harm = "lies"]}
    \cup {[obj EXCEPT !.bonustype = "other", !.harm = "lies"]}
    \cup {[obj EXCEPT !.bonustype = "znode", !.harm = "znode", !.leading = {},
            !.written = [Bytes EXCEPT !.SIZE = <<>>], !.full = znode,
            !.bonus = SubSeq(znode, 1, n)] : n \in {23, 24}}

ShortHeader(names, obj) ==
  LET bonus == Encode(names, 8, SubSeq(Lengths(names), 1, 2)) IN
  [obj EXCEPT !.bonus = bonus, !.full = bonus, !.at = Places(names, 8), !.harm = "lies"]

AllObjects ==
  Whole \cup UNION {Cuts(obj) \cup Others(obj) : obj \in {w \in Whole : ~w.spill}}
        \cup {ShortHeader(n, Object(n, p, <<>>, FALSE)) : n \in {l \in LayoutNames : Hdr(l) = 16}, p \in PairLists}
=============================================================================
