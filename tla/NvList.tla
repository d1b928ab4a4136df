------------------------------ MODULE NvList ------------------------------
(***************************************************************************)
(* The decoder of the packed XDR nvlist that holds a label's pool          *)
(* configuration and the packed extended attributes (nvlist.rs).           *)
(*                                                                         *)
(* The stream is a sequence of XDR words; the decoder's offsets and        *)
(* lengths are counted in words, so a name is its words and a byte array   *)
(* is its words.  parse_body calls itself for a nested list: its           *)
(* activations are the frames of a stack.                                  *)
(***************************************************************************)
EXTENDS Integers, Sequences

CONSTANTS
  Streams,    \* the streams parse is called on
  MaxPairs,   \* MAX_PAIRS
  MaxDepth,   \* MAX_DEPTH
  MaxLen,     \* MAX_NAME_LEN and MAX_STRING_LEN
  VersionName, PoolGuid, VdevTreeName, AshiftName   \* names looked up in a configuration

ASSUME CapsAssumption == MaxPairs \in Nat /\ MaxDepth \in Nat /\ MaxLen \in Nat

VARIABLES
  stream,     \* the stream being decoded
  stack,      \* the activations of parse_body, innermost last
  out         \* what parse returned

vars == <<stream, stack, out>>

\* Encoding byte and DATA_TYPE_* codes.
XDR == 1
U64 == 8
Str == 9
ByteArrays == {10, 26}
List == 19

Pending == <<"pending", <<>> >>
Ok(pairs) == <<"ok", pairs>>
Err(error) == <<error, <<>> >>

(***************************************************************************)
(* A read outside the buffer gives 0.                                      *)
(***************************************************************************)
Word(i) == IF i <= Len(stream.data) THEN stream.data[i] ELSE 0

Past(i) == i > Len(stream.data)

Span(i, n) == SubSeq(stream.data, i, i + n - 1)

Fits(i, n) == i + n - 1 <= Len(stream.data)

\* read_xdr_string at word i: its length is sane, and its words are there.
StringError(i) ==
  IF Word(i) < 0 \/ Word(i) > MaxLen THEN "bomb"
  ELSE IF ~Fits(i + 1, Word(i)) THEN "truncated" ELSE "none"

(***************************************************************************)
(* An activation: where its next pair begins, what it has decoded, how     *)
(* many pairs it has looked at, and the name and the end of the pair whose *)
(* nested list is being decoded.                                           *)
(***************************************************************************)
Frame(at) == [at |-> at, pairs |-> <<>>, seen |-> 0, name |-> <<>>, end |-> 0, over |-> FALSE]

Top == stack[Len(stack)]

Replace(frame) == [stack EXCEPT ![Len(stack)] = frame]

\* list.pairs.push, then on to where the pair says it ends.
Push(frame, name, value, end) ==
  [frame EXCEPT !.pairs = Append(@, <<name, value>>), !.at = end,
                !.seen = @ + 1, !.over = Past(end)]

Init ==
  /\ stream \in Streams
  /\ stack = <<>>
  /\ out = Pending

Parse ==
  /\ out = Pending /\ stack = <<>>
  /\ IF Word(1) = XDR THEN stack' = <<Frame(4)>> /\ UNCHANGED out
                      ELSE out' = Err("encoding") /\ UNCHANGED stack
  /\ UNCHANGED stream

\* The top of the loop over the pairs of the innermost list.
Looping == out = Pending /\ stack # <<>> /\ ~Top.over /\ Top.seen < MaxPairs

AtPair == Looping /\ Word(Top.at) > 0

\* The parts of the pair at the top of the loop.
NameAt == Top.at + 2
Name == Span(NameAt + 1, Word(NameAt))
TypeAt == NameAt + 1 + Word(NameAt)
ValueAt == TypeAt + 2
End == Top.at + Word(Top.at)

Fail(error) == out' = Err(error) /\ UNCHANGED <<stream, stack>>

TooManyPairs ==
  /\ out = Pending /\ stack # <<>> /\ ~Top.over /\ Top.seen = MaxPairs
  /\ Fail("bomb")

NegativeSize == Looping /\ Word(Top.at) < 0 /\ Fail("bomb")

BadName == AtPair /\ StringError(NameAt) # "none" /\ Fail(StringError(NameAt))

Named == AtPair /\ StringError(NameAt) = "none"

BadString ==
  /\ Named /\ Word(TypeAt) = Str /\ StringError(ValueAt) # "none"
  /\ Fail(StringError(ValueAt))

BadByteCount ==
  /\ Named /\ Word(TypeAt) \in ByteArrays
  /\ Word(TypeAt + 1) < 0 \/ Word(TypeAt + 1) > MaxLen
  /\ Fail("bomb")

\* The value of a pair that is not a list: a cut integer reads as 0, a cut
\* byte array as empty, a cut string is an error.
IntegerWord(i) == IF Fits(ValueAt, 2) THEN Word(i) ELSE 0

ByteArray(n) == IF Fits(ValueAt, n) THEN Span(ValueAt, n) ELSE <<>>

\* Mutant: the end of the buffer tested before the pair is pushed.
LeafUnlessPast(value) ==
  /\ stack' = Replace(IF Past(End) THEN [Top EXCEPT !.over = TRUE]
                                   ELSE Push(Top, Name, value, End))
  /\ UNCHANGED <<stream, out>>

Leaf(value) ==
  /\ stack' = Replace(Push(Top, Name, value, End))
  /\ UNCHANGED <<stream, out>>

TakeInteger ==
  /\ Named /\ Word(TypeAt) = U64
  /\ Leaf(<<"u64", <<IntegerWord(ValueAt), IntegerWord(ValueAt + 1)>> >>)

TakeString ==
  /\ Named /\ Word(TypeAt) = Str /\ StringError(ValueAt) = "none"
  /\ Leaf(<<"str", Span(ValueAt + 1, Word(ValueAt))>>)

TakeBytes ==
  /\ Named /\ Word(TypeAt) \in ByteArrays /\ Word(TypeAt + 1) \in 0 .. MaxLen
  /\ Leaf(<<"bytes", ByteArray(Word(TypeAt + 1))>>)

\* Mutant.
EnterListTooDeep ==
  /\ Named /\ Word(TypeAt) = List /\ Len(stack) <= MaxDepth + 1
  /\ stack' = Append(Replace([Top EXCEPT !.name = Name, !.end = End]), Frame(ValueAt + 2))
  /\ UNCHANGED <<stream, out>>

\* Mutant: the body header of a nested list taken for a pair.
EnterListAtHeader ==
  /\ Named /\ Word(TypeAt) = List
  /\ stack' = Append(Replace([Top EXCEPT !.name = Name, !.end = End]), Frame(ValueAt))
  /\ UNCHANGED <<stream, out>>

EnterList ==
  /\ Named /\ Word(TypeAt) = List
  /\ IF Len(stack) > MaxDepth
     THEN Fail("bomb")
     ELSE /\ stack' = Append(Replace([Top EXCEPT !.name = Name, !.end = End]),
                             Frame(ValueAt + 2))
          /\ UNCHANGED <<stream, out>>

\* A type the decoder has no use for is stepped over by its size.
SkipPair ==
  /\ Named /\ Word(TypeAt) \notin ByteArrays \cup {U64, Str, List}
  /\ stack' = Replace([Top EXCEPT !.at = End, !.seen = @ + 1])
  /\ UNCHANGED <<stream, out>>

\* Mutant: the caller goes on where the nested list ended.
EndListWhereItEnded ==
  /\ out = Pending /\ stack # <<>>
  /\ Top.over \/ (Looping /\ Word(Top.at) = 0)
  /\ IF Len(stack) = 1
     THEN out' = Ok(Top.pairs) /\ UNCHANGED stack
     ELSE LET caller == stack[Len(stack) - 1] IN
          /\ stack' = Append(SubSeq(stack, 1, Len(stack) - 2),
                             Push(caller, caller.name, <<"list", Top.pairs>>, Top.at + 2))
          /\ UNCHANGED out
  /\ UNCHANGED stream

\* A list ends at a terminator or where the buffer does.  The caller of a
\* nested list goes on at the end of the pair that holds it, whatever the
\* nested list consumed.
EndList ==
  /\ out = Pending /\ stack # <<>>
  /\ Top.over \/ (Looping /\ Word(Top.at) = 0)
  /\ IF Len(stack) = 1
     THEN out' = Ok(Top.pairs) /\ UNCHANGED stack
     ELSE LET caller == stack[Len(stack) - 1] IN
          /\ stack' = Append(SubSeq(stack, 1, Len(stack) - 2),
                             Push(caller, caller.name, <<"list", Top.pairs>>, caller.end))
          /\ UNCHANGED out
  /\ UNCHANGED stream

Returned == out # Pending /\ UNCHANGED vars

Next ==
  \/ Parse \/ TooManyPairs \/ NegativeSize \/ BadName \/ BadString
  \/ BadByteCount \/ TakeInteger \/ TakeString \/ TakeBytes \/ EnterList
  \/ SkipPair \/ EndList \/ Returned

Spec == Init /\ [][Next]_vars /\ WF_vars(Next)

(***************************************************************************)
(* What the label and the probe take from a decoded configuration: the     *)
(* first pair of a name, if it has the kind that is asked for.             *)
(***************************************************************************)
First(pairs, name) ==
  {i \in DOMAIN pairs : pairs[i][1] = name /\ \A j \in 1 .. i - 1 : pairs[j][1] # name}

Has(pairs, name, kind) == \E i \in First(pairs, name) : pairs[i][2][1] = kind

Get(pairs, name, kind, default) ==
  IF Has(pairs, name, kind)
  THEN pairs[CHOOSE i \in First(pairs, name) : TRUE][2][2]
  ELSE default

VdevTree(pairs) == Get(pairs, VdevTreeName, "list", <<>>)

Ashift(pairs) == Get(VdevTree(pairs), AshiftName, "u64", <<0, 0>>)

IsPoolConfig(pairs) ==
  /\ Has(pairs, VersionName, "u64") /\ Has(pairs, PoolGuid, "u64")
  /\ Has(pairs, VdevTreeName, "list")

(***************************************************************************)
(* The streams.  Each has the words ZFS wrote and what became of them      *)
(* (data): whole, cut, or with one word overwritten (the one at harmed).   *)
(* The lists written are numbered, the outermost first.  A list has the    *)
(* places of its pairs and its terminator (at), the pairs, what is kept of *)
(* those before each place (kept), how deep it is nested, and whether it   *)
(* and the lists in it are within the caps (fits).                         *)
(***************************************************************************)
Everything(list) == list.kept[Len(list.pairs) + 1]

\* What a pair decodes to.
Meaning(s, pair) ==
  <<pair.name,
    <<pair.kind, IF pair.kind = "list" THEN Everything(s.lists[pair.list]) ELSE pair.value>> >>

\* The type and the value of a pair, from word i to the word before end.
ValueWritten(s, pair, i, end) ==
  \/ /\ pair.kind = "u64" /\ s.words[i] = U64
     /\ pair.value = <<s.words[i + 2], s.words[i + 3]>>
     /\ end = i + 4
  \/ /\ pair.kind = "str" /\ s.words[i] = Str
     /\ s.words[i + 2] = Len(pair.value)
     /\ end = i + 3 + Len(pair.value)
     /\ pair.value = SubSeq(s.words, i + 3, end - 1)
  \/ /\ pair.kind = "bytes" /\ s.words[i] \in ByteArrays
     /\ s.words[i + 1] = Len(pair.value)
     /\ end = i + 2 + Len(pair.value)
     /\ pair.value = SubSeq(s.words, i + 2, end - 1)
  \/ /\ pair.kind = "list" /\ s.words[i] = List
     /\ pair.list \in DOMAIN s.lists
     /\ LET at == s.lists[pair.list].at IN at[1] = i + 4 /\ at[Len(at)] + 2 = end
  \/ /\ pair.kind = "other" /\ s.words[i] \notin ByteArrays \cup {U64, Str, List}
     /\ i + 2 <= end

\* A pair: its size, its name, and the rest.
PairWritten(s, pair, i, end) ==
  LET type == i + 3 + Len(pair.name) IN
  /\ s.words[i] = end - i
  /\ s.words[i + 2] = Len(pair.name)
  /\ pair.name = SubSeq(s.words, i + 3, type - 1)
  /\ ValueWritten(s, pair, type, end)

Pair == [name: Seq(Int), kind: {"u64", "str", "bytes", "list", "other"}, value: Seq(Int), list: Nat]

PairFits(s, pair) ==
  /\ Len(pair.name) <= MaxLen
  /\ pair.kind \in {"str", "bytes"} => Len(pair.value) <= MaxLen
  /\ pair.kind = "list" => s.lists[pair.list].fits

\* A list: its pairs one after the other, and its terminator.
ListWritten(s, list) ==
  LET n == Len(list.pairs) IN
  /\ list.pairs \in Seq(Pair) /\ list.depth \in Nat /\ list.fits \in BOOLEAN
  /\ list.at \in [1 .. n + 1 -> Nat \ {0}]
  /\ \A i, j \in 1 .. n + 1 : i < j => list.at[i] < list.at[j]
  /\ list.at[n + 1] < Len(s.words) /\ s.words[list.at[n + 1]] = 0
  /\ \A i \in 1 .. n : PairWritten(s, list.pairs[i], list.at[i], list.at[i + 1])
  /\ DOMAIN list.kept = 1 .. n + 1 /\ list.kept[1] = <<>>
  /\ \A i \in 1 .. n :
       list.kept[i + 1] = IF list.pairs[i].kind = "other" THEN list.kept[i]
                          ELSE Append(list.kept[i], Meaning(s, list.pairs[i]))
  /\ \A i \in 1 .. n :
       list.pairs[i].kind = "list" => s.lists[list.pairs[i].list].depth = list.depth + 1
  /\ list.fits <=>
       /\ n < MaxPairs /\ list.depth <= MaxDepth
       /\ \A i \in 1 .. n : PairFits(s, list.pairs[i])

CutAt(s, n) == n \in 0 .. Len(s.words) /\ s.data = SubSeq(s.words, 1, n)

Written(s) ==
  /\ s.words \in Seq(Int) /\ s.data \in Seq(Int)
  /\ s.words[1] = XDR
  /\ 1 \in DOMAIN s.lists /\ s.lists[1].at[1] = 4 /\ s.lists[1].depth = 0
  /\ \A l \in DOMAIN s.lists : ListWritten(s, s.lists[l])
  /\ \/ \E n \in 0 .. Len(s.words) : CutAt(s, n)
     \/ /\ Len(s.data) = Len(s.words)
        /\ \A i \in DOMAIN s.words : i # s.harmed => s.data[i] = s.words[i]

ASSUME StreamsAssumption == \A s \in Streams : Written(s)

(***************************************************************************)
(* Properties.                                                             *)
(***************************************************************************)
TypeOK ==
  /\ stream.data \in Seq(Int)
  /\ out[1] \in {"pending", "ok", "bomb", "truncated", "encoding"}
  /\ Len(stack) <= MaxDepth + 1
  /\ \A i \in DOMAIN stack : /\ stack[i].at \in Nat \ {0}
                             /\ stack[i].seen \in 0 .. MaxPairs
                             /\ Len(stack[i].pairs) <= stack[i].seen

Decoded == out[1] = "ok"

Outermost == stream.lists[1]

\* parse of an undamaged stream gives back what was written, in order, at
\* every depth, without the pairs of unknown type; it refuses exactly the
\* streams that exceed a cap.
RoundTrip ==
  out # Pending /\ stream.data = stream.words =>
    out = IF Outermost.fits THEN Ok(Everything(Outermost)) ELSE Err("bomb")

Cut == \E n \in 0 .. Len(stream.words) : CutAt(stream, n)

\* Pair i of the outermost list is there to its last word.
Whole(i) == Outermost.at[i + 1] - 1 <= Len(stream.data)

\* parse of a stream that ends early gives every pair that is there as a whole
\* and at most one more, the one that is cut, under its own name and type: only
\* its value may be other than what was written.  So the probe takes a cut
\* configuration for a pool only if the one written was, and its ashift is the
\* one written or none.
CutKeepsPrefix ==
  Decoded /\ Cut =>
    /\ \E i \in DOMAIN Outermost.kept :
         LET before == Outermost.kept[i] IN
         /\ \A j \in DOMAIN Outermost.pairs : j < i <=> Whole(j)
         /\ \/ out[2] = before
            \/ /\ i \in DOMAIN Outermost.pairs
               /\ Len(out[2]) = Len(before) + 1 /\ SubSeq(out[2], 1, Len(before)) = before
               /\ LET last == out[2][Len(out[2])] IN
                  last[1] = Outermost.pairs[i].name /\ last[2][1] = Outermost.pairs[i].kind
    /\ IsPoolConfig(out[2]) => IsPoolConfig(Everything(Outermost))
    /\ Ashift(out[2]) \in {Ashift(Everything(Outermost)), <<0, 0>>}

\* Damage inside one pair reaches no pair before it and, if it is not the
\* size of the pair that is damaged, none after it either: whatever the pair
\* decodes to or a nested list in it consumes, parse_body goes on at the end
\* the pair declares.
DamageStaysInside ==
  Decoded /\ ~Cut =>
    \A i \in DOMAIN Outermost.pairs :
      stream.harmed \in Outermost.at[i] .. Outermost.at[i + 1] - 1 =>
        LET before == Outermost.kept[i]
            all == Everything(Outermost)
            after == SubSeq(all, Len(Outermost.kept[i + 1]) + 1, Len(all)) IN
        /\ SubSeq(out[2], 1, Len(before)) = before
        /\ stream.harmed # Outermost.at[i] =>
             \/ out[2] = before \o after
             \/ \E j \in DOMAIN out[2] : out[2] = before \o <<out[2][j]>> \o after
=============================================================================
