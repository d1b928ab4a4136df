---------------------------- MODULE DecoderProofs ----------------------------
(***************************************************************************)
(* What the decoders of self-describing data guarantee whatever they are   *)
(* given: of an nvlist (NvList), of the bonus of an object with the        *)
(* attributes found by it (SystemAttrs), and of a compressed block         *)
(* (Codec).                                                                *)
(***************************************************************************)
EXTENDS NvList, SystemAttrs, Codec, SequenceTheorems, FiniteSetTheorems, WellFoundedInduction, TLAPS

(***************************************************************************)
(* Sequences of anything.                                                  *)
(***************************************************************************)
IsSeq(s) == \E S : s \in Seq(S)

\* Two sequences and a value have a common set.
LEMMA CommonSet ==
  ASSUME NEW s, IsSeq(s), NEW t, IsSeq(t), NEW x
  PROVE  \E S : s \in Seq(S) /\ t \in Seq(S) /\ x \in S
<1>1. PICK S1 : s \in Seq(S1)
  BY DEF IsSeq
<1>2. PICK S2 : t \in Seq(S2)
  BY DEF IsSeq
<1> DEFINE S == S1 \cup S2 \cup {x}
<1>3. S1 \subseteq S /\ S2 \subseteq S /\ x \in S
  OBVIOUS
<1> HIDE DEF S
<1>4. s \in Seq(S) /\ t \in Seq(S)
  BY <1>1, <1>2, <1>3, SeqMonotonic, Zenon
<1> QED
  BY <1>3, <1>4

\* Length and places of a sequence.
LEMMA SeqIs ==
  ASSUME NEW s, IsSeq(s)
  PROVE  Len(s) \in Nat /\ DOMAIN s = 1 .. Len(s)
<1>1. PICK S : s \in Seq(S)
  BY DEF IsSeq
<1> QED
  BY <1>1

\* list.pairs.push (nvlist.rs:262).
LEMMA AppendIs ==
  ASSUME NEW s, IsSeq(s), NEW x
  PROVE  /\ IsSeq(Append(s, x))
         /\ Len(Append(s, x)) = Len(s) + 1
         /\ \A i \in 1 .. Len(s) : Append(s, x)[i] = s[i]
         /\ Append(s, x)[Len(s) + 1] = x
<1>1. PICK S : s \in Seq(S) /\ x \in S
  BY CommonSet
<1>2. Append(s, x) \in Seq(S)
  BY <1>1
<1> QED
  BY <1>1, <1>2 DEF IsSeq

\* The empty sequence is one, and adds nothing.
LEMMA EmptyIs ==
  /\ IsSeq(<<>>) /\ Len(<<>>) = 0
  /\ \A s : IsSeq(s) => <<>> \o s = s
<1>1. <<>> \in Seq({})
  OBVIOUS
<1>2. ASSUME NEW s, IsSeq(s) PROVE <<>> \o s = s
  <2>1. PICK S : s \in Seq(S)
    BY <1>2 DEF IsSeq
  <2> QED
    BY <2>1, ConcatEmptySeq, Zenon
<1> QED
  BY <1>1, <1>2 DEF IsSeq

\* Two sequences one after the other, and each of them taken out again.
LEMMA ConcatIs ==
  ASSUME NEW s, IsSeq(s), NEW t, IsSeq(t)
  PROVE  /\ IsSeq(s \o t)
         /\ Len(s \o t) = Len(s) + Len(t)
         /\ \A i \in 1 .. Len(s) : (s \o t)[i] = s[i]
         /\ \A i \in 1 .. Len(t) : (s \o t)[Len(s) + i] = t[i]
<1>1. PICK S : s \in Seq(S) /\ t \in Seq(S)
  BY CommonSet
<1>2. /\ s \o t \in Seq(S)
      /\ Len(s \o t) = Len(s) + Len(t)
      /\ \A i \in 1 .. Len(s) + Len(t) : (s \o t)[i] = IF i <= Len(s) THEN s[i] ELSE t[i - Len(s)]
  BY <1>1, ConcatProperties, Zenon
<1>3. Len(s) \in Nat /\ Len(t) \in Nat
  BY <1>1
<1>4. ASSUME NEW i \in 1 .. Len(t) PROVE (s \o t)[Len(s) + i] = t[i]
  <2>1. Len(s) + i \in 1 .. Len(s) + Len(t) /\ ~ (Len(s) + i <= Len(s)) /\ Len(s) + i - Len(s) = i
    BY <1>3
  <2> QED
    BY <1>2, <2>1
<1>5. ASSUME NEW i \in 1 .. Len(s) PROVE (s \o t)[i] = s[i]
  <2>1. i \in 1 .. Len(s) + Len(t) /\ i <= Len(s)
    BY <1>3
  <2> QED
    BY <1>2, <2>1
<1> QED
  BY <1>2, <1>4, <1>5 DEF IsSeq

\* Sequences of the same length with the same elements are the same.
LEMMA SameSeq ==
  ASSUME NEW s, IsSeq(s), NEW t, IsSeq(t), Len(s) = Len(t), \A i \in 1 .. Len(s) : s[i] = t[i]
  PROVE  s = t
<1>1. PICK S : s \in Seq(S) /\ t \in Seq(S)
  BY CommonSet
<1> QED
  BY <1>1, SeqEqual, Zenon

\* Part of a sequence.
LEMMA PartIs ==
  ASSUME NEW s, IsSeq(s), NEW m \in Nat \ {0}, NEW n \in Nat, n <= Len(s)
  PROVE  /\ IsSeq(SubSeq(s, m, n))
         /\ Len(SubSeq(s, m, n)) = IF m <= n THEN n - m + 1 ELSE 0
         /\ \A i \in 1 .. n - m + 1 : SubSeq(s, m, n)[i] = s[m + i - 1]
<1>1. PICK S : s \in Seq(S)
  BY DEF IsSeq
<1>2. \A i \in m .. n : s[i] \in S
  BY <1>1
<1>3. m \in Int /\ n \in Int
  OBVIOUS
<1>4. SubSeq(s, m, n) \in Seq(S)
  BY <1>1
<1>5. Len(SubSeq(s, m, n)) = IF m <= n THEN n - m + 1 ELSE 0
  BY <1>1
<1>6. \A i \in 1 .. n - m + 1 : SubSeq(s, m, n)[i] = s[m + i - 1]
  BY <1>1
<1> QED
  BY <1>4, <1>5, <1>6 DEF IsSeq

\* The first k of a sequence.
LEMMA BeginningIs ==
  ASSUME NEW s, IsSeq(s), NEW k \in Nat, k <= Len(s)
  PROVE  /\ IsSeq(SubSeq(s, 1, k)) /\ Len(SubSeq(s, 1, k)) = k
         /\ \A i \in 1 .. k : SubSeq(s, 1, k)[i] = s[i]
<1>1. PICK S : s \in Seq(S)
  BY DEF IsSeq
<1>2. SubSeq(s, 1, k) \in Seq(S) /\ Len(SubSeq(s, 1, k)) = k
  BY <1>1
<1>3. \A i \in 1 .. k : SubSeq(s, 1, k)[i] = s[i]
  BY <1>1
<1> QED
  BY <1>2, <1>3 DEF IsSeq

LEMMA AppendToConcat ==
  ASSUME NEW s, IsSeq(s), NEW t, IsSeq(t), NEW x
  PROVE  Append(s \o t, x) = s \o Append(t, x)
<1> DEFINE u == Append(s \o t, x)
           v == s \o Append(t, x)
<1>1. IsSeq(s \o t) /\ Len(s \o t) = Len(s) + Len(t)
  BY ConcatIs
<1>2. IsSeq(u) /\ Len(u) = Len(s) + Len(t) + 1
  BY <1>1, AppendIs
<1>3. IsSeq(Append(t, x)) /\ Len(Append(t, x)) = Len(t) + 1
  BY AppendIs
<1>4. IsSeq(v) /\ Len(v) = Len(s) + (Len(t) + 1)
  BY <1>3, ConcatIs
<1>5. Len(s) \in Nat /\ Len(t) \in Nat
  BY SeqIs
<1>6. ASSUME NEW i \in 1 .. Len(u) PROVE u[i] = v[i]
  <2>1. CASE i \in 1 .. Len(s)
    <3>1. i \in 1 .. Len(s \o t)
      BY <1>1, <1>5, <2>1
    <3>2. u[i] = (s \o t)[i]
      BY <1>1, <3>1, AppendIs
    <3>3. (s \o t)[i] = s[i]
      BY <2>1, ConcatIs
    <3>4. v[i] = s[i]
      BY <1>3, <2>1, ConcatIs
    <3> QED
      BY <3>2, <3>3, <3>4
  <2>2. CASE i \in Len(s) + 1 .. Len(s) + Len(t)
    <3> DEFINE j == i - Len(s)
    <3>1. j \in 1 .. Len(t) /\ j \in 1 .. Len(t) + 1 /\ i = Len(s) + j /\ i \in 1 .. Len(s \o t)
      BY <1>1, <1>5, <2>2
    <3> HIDE DEF j
    <3>2. u[i] = (s \o t)[i]
      BY <1>1, <3>1, AppendIs
    <3>3. (s \o t)[Len(s) + j] = t[j]
      BY <3>1, ConcatIs
    <3>4. v[Len(s) + j] = Append(t, x)[j]
      BY <1>3, <3>1, ConcatIs
    <3>5. Append(t, x)[j] = t[j]
      BY <3>1, AppendIs
    <3> QED
      BY <3>1, <3>2, <3>3, <3>4, <3>5
  <2>3. CASE i = Len(s) + Len(t) + 1
    <3>1. u[i] = x
      BY <1>1, <2>3, AppendIs
    <3>2. Len(t) + 1 \in 1 .. Len(Append(t, x)) /\ i = Len(s) + (Len(t) + 1)
      BY <1>3, <1>5, <2>3
    <3>3. v[Len(s) + (Len(t) + 1)] = Append(t, x)[Len(t) + 1]
      BY <1>3, <3>2, ConcatIs
    <3>4. Append(t, x)[Len(t) + 1] = x
      BY AppendIs
    <3> QED
      BY <3>1, <3>2, <3>3, <3>4
  <2>4. i \in 1 .. Len(s) \/ i \in Len(s) + 1 .. Len(s) + Len(t) \/ i = Len(s) + Len(t) + 1
    BY <1>2, <1>5
  <2> QED
    BY <2>1, <2>2, <2>3, <2>4
<1>7. Len(u) = Len(v)
  BY <1>2, <1>4, <1>5
<1> HIDE DEF u, v
<1>8. u = v
  BY <1>2, <1>4, <1>6, <1>7, SameSeq
<1> QED
  BY <1>8 DEF u, v

LEMMA TakenOut ==
  ASSUME NEW s, IsSeq(s), NEW t, IsSeq(t)
  PROVE  /\ SubSeq(s \o t, 1, Len(s)) = s
         /\ SubSeq(s \o t, Len(s) + 1, Len(s \o t)) = t
<1> DEFINE u == s \o t
<1>1. /\ IsSeq(u) /\ Len(u) = Len(s) + Len(t)
      /\ \A i \in 1 .. Len(s) : u[i] = s[i]
      /\ \A i \in 1 .. Len(t) : u[Len(s) + i] = t[i]
  BY ConcatIs
<1>2. Len(s) \in Nat /\ Len(t) \in Nat
  BY SeqIs
<1> HIDE DEF u
<1>3. SubSeq(u, 1, Len(s)) = s
  <2> DEFINE k == Len(s)
             f == SubSeq(u, 1, k)
  <2>1. k \in Nat /\ k <= Len(u)
    BY <1>1, <1>2
  <2> HIDE DEF k
  <2>2. /\ IsSeq(f)
        /\ Len(f) = IF 1 <= k THEN k - 1 + 1 ELSE 0
        /\ \A i \in 1 .. k - 1 + 1 : f[i] = u[1 + i - 1]
    BY <1>1, <2>1, PartIs
  <2> HIDE DEF f
  <2>3. Len(f) = k
    BY <2>1, <2>2
  <2>4. ASSUME NEW i \in 1 .. Len(f) PROVE f[i] = s[i]
    <3>1. i \in 1 .. k - 1 + 1 /\ i \in 1 .. k /\ 1 + i - 1 = i
      BY <2>1, <2>3
    <3> QED
      BY <1>1, <2>2, <3>1 DEF k
  <2>5. f = s
    BY <2>2, <2>3, <2>4, SameSeq DEF k
  <2> QED
    BY <2>5 DEF f, k
<1>4. SubSeq(u, Len(s) + 1, Len(u)) = t
  <2> DEFINE m == Len(s) + 1
             n == Len(u)
             f == SubSeq(u, m, n)
  <2>1. m \in Nat \ {0} /\ n \in Nat /\ n <= Len(u)
    BY <1>1, <1>2
  <2>2. /\ IsSeq(f)
        /\ Len(f) = IF m <= n THEN n - m + 1 ELSE 0
        /\ \A i \in 1 .. n - m + 1 : f[i] = u[m + i - 1]
    <3> HIDE DEF m, n
    <3> QED
      BY <1>1, <2>1, PartIs
  <2> HIDE DEF f
  <2>3. Len(f) = Len(t)
    BY <1>1, <1>2, <2>2
  <2>4. ASSUME NEW i \in 1 .. Len(f) PROVE f[i] = t[i]
    <3>1. i \in 1 .. n - m + 1 /\ i \in 1 .. Len(t) /\ m + i - 1 = Len(s) + i
      BY <1>1, <1>2, <2>3
    <3> QED
      BY <1>1, <2>2, <3>1
  <2>5. f = t
    BY <2>2, <2>3, <2>4, SameSeq
  <2> QED
    BY <2>5 DEF f
<1> QED
  BY <1>3, <1>4 DEF u

-----------------------------------------------------------------------------
(***************************************************************************)
(* The nvlist decoder: types.  A frame below the top waits in the middle   *)
(* of a pair, which it has not counted yet.                                *)
(***************************************************************************)
IsFrame(f) ==
  /\ DOMAIN f = {"at", "pairs", "seen", "name", "end", "over"}
  /\ f.at \in Nat \ {0} /\ f.seen \in 0 .. MaxPairs /\ f.end \in Nat /\ f.over \in BOOLEAN
  /\ IsSeq(f.pairs) /\ Len(f.pairs) <= f.seen

Outcome ==
  \/ out = Pending
  \/ \E pairs : out = Ok(pairs)
  \/ \E error \in {"bomb", "truncated", "encoding"} : out = Err(error)

NvTypes ==
  /\ stream \in Streams
  /\ IsSeq(stack) /\ Len(stack) <= MaxDepth + 1
  /\ \A k \in 1 .. Len(stack) : IsFrame(stack[k])
  /\ \A k \in 1 .. Len(stack) - 1 : stack[k].seen < MaxPairs /\ stack[k].end # 0
  /\ Outcome

\* The data of a stream is words (Written).
LEMMA DataIs ==
  ASSUME stream \in Streams
  PROVE  /\ stream.data \in Seq(Int) /\ stream.words \in Seq(Int)
         /\ Len(stream.data) \in Nat /\ Len(stream.words) \in Nat
  BY StreamsAssumption DEF Written

\* be_u32 of any place gives a number (bytes.rs:78-96).
LEMMA WordIs ==
  ASSUME stream \in Streams, NEW i \in Nat \ {0}
  PROVE  Word(i) \in Int
  BY DataIs DEF Word

\* The stack is empty or has a top.
LEMMA TopIs ==
  ASSUME NvTypes, stack # <<>>
  PROVE  Len(stack) \in Nat \ {0} /\ Len(stack) \in 1 .. Len(stack) /\ IsFrame(Top)
<1>1. PICK S : stack \in Seq(S)
  BY DEF NvTypes, IsSeq
<1>2. Len(stack) \in Nat \ {0}
  BY <1>1, EmptySeq
<1> QED
  BY <1>2 DEF NvTypes, Top

\* The innermost activation goes on (nvlist.rs:262-266).
LEMMA ReplaceIs ==
  ASSUME NvTypes, stack # <<>>, NEW f
  PROVE  /\ IsSeq(Replace(f)) /\ Len(Replace(f)) = Len(stack) /\ Replace(f) # <<>>
         /\ Replace(f)[Len(stack)] = f
         /\ \A k \in 1 .. Len(stack) - 1 : Replace(f)[k] = stack[k]
<1>1. PICK S : stack \in Seq(S) /\ f \in S
  <2>1. IsSeq(stack)
    BY DEF NvTypes
  <2> QED
    BY <2>1, CommonSet
<1>2. Len(stack) \in 1 .. Len(stack) /\ Len(stack) \in Nat \ {0}
  BY TopIs
<1>3. /\ Replace(f) \in Seq(S) /\ Len(Replace(f)) = Len(stack)
      /\ \A j \in 1 .. Len(stack) : Replace(f)[j] = IF j = Len(stack) THEN f ELSE stack[j]
  BY <1>1, <1>2, ExceptSeq DEF Replace
<1>4. Replace(f) # <<>>
  BY <1>2, <1>3
<1> QED
  BY <1>2, <1>3, <1>4 DEF IsSeq

\* parse_body calls itself for a nested list (nvlist.rs:228-231).
Deeper(f, g) == Append(Replace(f), g)

LEMMA EnterIs ==
  ASSUME NvTypes, stack # <<>>, NEW f, NEW g
  PROVE  LET s == Deeper(f, g) IN
         /\ IsSeq(s) /\ Len(s) = Len(stack) + 1
         /\ s[Len(stack) + 1] = g /\ s[Len(stack)] = f
         /\ \A k \in 1 .. Len(stack) - 1 : s[k] = stack[k]
<1> DEFINE r == Replace(f)
<1>1. /\ IsSeq(r) /\ Len(r) = Len(stack) /\ r[Len(stack)] = f
      /\ \A k \in 1 .. Len(stack) - 1 : r[k] = stack[k]
  BY ReplaceIs
<1>2. Len(stack) \in Nat \ {0}
  BY TopIs
<1> HIDE DEF r
<1>3. /\ IsSeq(Append(r, g)) /\ Len(Append(r, g)) = Len(r) + 1
      /\ \A i \in 1 .. Len(r) : Append(r, g)[i] = r[i]
      /\ Append(r, g)[Len(r) + 1] = g
  BY <1>1, AppendIs
<1>4. Deeper(f, g) = Append(r, g)
  BY DEF r, Deeper
<1> QED
  BY <1>1, <1>2, <1>3, <1>4

\* ... and returns to its caller.
LEMMA LeaveIs ==
  ASSUME NvTypes, Len(stack) > 1, NEW f
  PROVE  LET s == Append(SubSeq(stack, 1, Len(stack) - 2), f) IN
         /\ IsSeq(s) /\ Len(s) = Len(stack) - 1
         /\ s[Len(stack) - 1] = f
         /\ \A k \in 1 .. Len(stack) - 2 : s[k] = stack[k]
<1> DEFINE n == Len(stack) - 2
           r == SubSeq(stack, 1, n)
<1>1. IsSeq(stack) /\ Len(stack) \in Nat
  BY SeqIs DEF NvTypes
<1>2. 1 \in Nat \ {0} /\ n \in Nat /\ n <= Len(stack)
  BY <1>1
<1>3. /\ IsSeq(r) /\ Len(r) = IF 1 <= n THEN n - 1 + 1 ELSE 0
      /\ \A i \in 1 .. n - 1 + 1 : r[i] = stack[1 + i - 1]
  <2> HIDE DEF n
  <2> QED
    BY <1>1, <1>2, PartIs
<1>4. Len(r) = n /\ \A i \in 1 .. n : r[i] = stack[i]
  <2> HIDE DEF r, n
  <2>1. Len(r) = n
    BY <1>2, <1>3
  <2>2. ASSUME NEW i \in 1 .. n PROVE r[i] = stack[i]
    <3>1. i \in 1 .. n - 1 + 1 /\ 1 + i - 1 = i
      BY <1>2
    <3> QED
      BY <1>3, <3>1
  <2> QED
    BY <2>1, <2>2
<1> HIDE DEF r
<1>5. /\ IsSeq(Append(r, f)) /\ Len(Append(r, f)) = Len(r) + 1
      /\ \A i \in 1 .. Len(r) : Append(r, f)[i] = r[i]
      /\ Append(r, f)[Len(r) + 1] = f
  BY <1>3, AppendIs
<1> QED
  BY <1>1, <1>4, <1>5 DEF r

\* The places of a pair's parts (nvlist.rs:214-220).
LEMMA PlacesAre ==
  ASSUME NvTypes, Named
  PROVE  /\ Top.at \in Nat \ {0} /\ Word(Top.at) \in Nat \ {0} /\ End \in Nat \ {0}
         /\ NameAt \in Nat \ {0} /\ Word(NameAt) \in Nat /\ Word(NameAt) <= MaxLen
         /\ TypeAt \in Nat \ {0} /\ Word(TypeAt) \in Int
         /\ ValueAt \in Nat \ {0} /\ Top.seen < MaxPairs
<1>1. IsFrame(Top) /\ stream \in Streams
  BY TopIs DEF Named, AtPair, Looping, NvTypes
<1>2. Top.at \in Nat \ {0} /\ Word(Top.at) \in Nat \ {0} /\ Top.seen < MaxPairs
  BY <1>1, WordIs DEF Named, AtPair, Looping, IsFrame
<1>3. End \in Nat \ {0} /\ NameAt \in Nat \ {0}
  BY <1>2 DEF End, NameAt
<1>4. Word(NameAt) \in Nat /\ Word(NameAt) <= MaxLen
  BY <1>1, <1>3, WordIs, CapsAssumption DEF Named, StringError
<1>5. TypeAt \in Nat \ {0}
  BY <1>3, <1>4 DEF TypeAt
<1> QED
  BY <1>1, <1>2, <1>3, <1>4, <1>5, WordIs DEF ValueAt

\* A pair is added and the frame goes on where the pair ends (nvlist.rs:262-266).
LEMMA PushIs ==
  ASSUME NEW f, IsFrame(f), f.seen < MaxPairs, stream \in Streams,
         NEW name, NEW value, NEW end \in Nat \ {0}
  PROVE  LET g == Push(f, name, value, end) IN
         /\ IsFrame(g) /\ g.at = end /\ g.seen = f.seen + 1 /\ (g.over <=> Past(end))
         /\ g.pairs = Append(f.pairs, <<name, value>>)
<1> DEFINE g == Push(f, name, value, end)
<1>1. /\ DOMAIN g = DOMAIN f /\ g.at = end /\ g.pairs = Append(f.pairs, <<name, value>>)
      /\ g.seen = f.seen + 1 /\ g.over = Past(end) /\ g.end = f.end
  BY DEF Push, IsFrame
<1>2. IsSeq(Append(f.pairs, <<name, value>>)) /\ Len(Append(f.pairs, <<name, value>>)) = Len(f.pairs) + 1
  BY AppendIs DEF IsFrame
<1>3. Len(f.pairs) \in Nat
  BY SeqIs DEF IsFrame
<1>4. Past(end) \in BOOLEAN
  BY DEF Past
<1> HIDE DEF g
<1>5. IsFrame(g)
  BY <1>1, <1>2, <1>3, <1>4, CapsAssumption DEF IsFrame
<1> QED
  BY <1>1, <1>5 DEF g

\* A pair is stepped over (nvlist.rs:253-259).
LEMMA SkipIs ==
  ASSUME NEW f, IsFrame(f), f.seen < MaxPairs, NEW end \in Nat \ {0}
  PROVE  LET g == [f EXCEPT !.at = end, !.seen = @ + 1] IN
         /\ IsFrame(g) /\ g.at = end /\ g.seen = f.seen + 1 /\ g.over = f.over
         /\ g.pairs = f.pairs
<1> DEFINE g == [f EXCEPT !.at = end, !.seen = @ + 1]
<1>1. /\ DOMAIN g = DOMAIN f /\ g.at = end /\ g.pairs = f.pairs /\ g.seen = f.seen + 1
      /\ g.over = f.over /\ g.end = f.end
  BY DEF IsFrame
<1>3. Len(f.pairs) \in Nat
  BY SeqIs DEF IsFrame
<1> HIDE DEF g
<1>5. IsFrame(g)
  BY <1>1, <1>3, CapsAssumption DEF IsFrame
<1> QED
  BY <1>1, <1>5 DEF g

\* A frame waits for the list it holds, and the one of that list begins.
Waiting(frame, name, end) == [frame EXCEPT !.name = name, !.end = end]

LEMMA CallIs ==
  ASSUME NEW f, IsFrame(f), NEW name, NEW end \in Nat \ {0}
  PROVE  LET g == Waiting(f, name, end) IN
         /\ IsFrame(g) /\ g.at = f.at /\ g.pairs = f.pairs /\ g.seen = f.seen
         /\ g.name = name /\ g.end = end /\ g.over = f.over
<1> DEFINE g == Waiting(f, name, end)
<1>1. /\ DOMAIN g = DOMAIN f /\ g.at = f.at /\ g.pairs = f.pairs /\ g.seen = f.seen
      /\ g.over = f.over /\ g.name = name /\ g.end = end
  BY DEF IsFrame, Waiting
<1> HIDE DEF g
<1>2. IsFrame(g)
  BY <1>1 DEF IsFrame
<1> QED
  BY <1>1, <1>2 DEF g

LEMMA FrameIs ==
  ASSUME NEW at \in Nat \ {0}
  PROVE  /\ IsFrame(Frame(at)) /\ Frame(at).at = at /\ Frame(at).pairs = <<>>
         /\ Frame(at).seen = 0 /\ Frame(at).over = FALSE
<1>1. IsFrame(Frame(at))
  BY EmptyIs, CapsAssumption DEF IsFrame, Frame
<1> QED
  BY <1>1 DEF Frame

\* A step that only returns (an error) leaves the types alone.
LEMMA ErrorKeepsTypes ==
  ASSUME NvTypes, NEW error \in {"bomb", "truncated", "encoding"}, Fail(error)
  PROVE  NvTypes'
  BY DEF NvTypes, Fail, Outcome, IsFrame

\* The top frame is replaced by one that may have counted one more pair.
LEMMA ReplaceKeepsTypes ==
  ASSUME NvTypes, stack # <<>>, NEW f, IsFrame(f), stack' = Replace(f), UNCHANGED <<stream, out>>
  PROVE  NvTypes'
<1>1. /\ IsSeq(stack') /\ Len(stack') = Len(stack) /\ stack'[Len(stack)] = f
      /\ \A k \in 1 .. Len(stack) - 1 : stack'[k] = stack[k]
  BY ReplaceIs
<1>2. Len(stack) \in Nat \ {0}
  BY TopIs
<1>3. \A k \in 1 .. Len(stack') : IsFrame(stack'[k])
  <2> TAKE k \in 1 .. Len(stack')
  <2>1. CASE k = Len(stack)
    BY <1>1, <2>1
  <2>2. CASE k \in 1 .. Len(stack) - 1
    <3>1. k \in 1 .. Len(stack)
      BY <1>2, <2>2
    <3> QED
      BY <1>1, <2>2, <3>1 DEF NvTypes
  <2> QED
    BY <1>1, <1>2, <2>1, <2>2
<1>4. \A k \in 1 .. Len(stack') - 1 : stack'[k].seen < MaxPairs /\ stack'[k].end # 0
  BY <1>1 DEF NvTypes
<1> QED
  BY <1>1, <1>3, <1>4 DEF NvTypes, Outcome, IsFrame

\* A list is entered: the caller waits, and has room to count the pair.
LEMMA EnterKeepsTypes ==
  ASSUME NvTypes, EnterList
  PROVE  NvTypes'
<1>1. CASE Len(stack) > MaxDepth
  <2>1. Fail("bomb")
    BY <1>1 DEF EnterList
  <2> QED
    BY <2>1, ErrorKeepsTypes
<1>2. CASE ~ (Len(stack) > MaxDepth)
  <2> DEFINE f == Waiting(Top, Name, End)
             g == Frame(ValueAt + 2)
  <2>1. stack # <<>> /\ Named
    BY DEF EnterList, Named, AtPair, Looping
  <2>2. IsFrame(Top) /\ Len(stack) \in Nat \ {0}
    BY <2>1, TopIs
  <2>3. End \in Nat \ {0} /\ ValueAt + 2 \in Nat \ {0} /\ Top.seen < MaxPairs
    BY <2>1, PlacesAre
  <2>4. IsFrame(f) /\ f.seen = Top.seen /\ f.end = End
    BY <2>2, <2>3, CallIs
  <2>10. IsFrame(g)
    BY <2>3, FrameIs
  <2>5. stack' = Append(Replace(f), g) /\ UNCHANGED <<stream, out>>
    BY <1>2 DEF EnterList, Waiting
  <2> HIDE DEF f, g
  <2>6. /\ IsSeq(stack') /\ Len(stack') = Len(stack) + 1
        /\ stack'[Len(stack) + 1] = g /\ stack'[Len(stack)] = f
        /\ \A k \in 1 .. Len(stack) - 1 : stack'[k] = stack[k]
    <3>1. stack # <<>> /\ stack' = Deeper(f, g)
      BY <2>1, <2>5 DEF Deeper
    <3> QED
      BY <3>1, EnterIs
  <2>7. \A k \in 1 .. Len(stack') : IsFrame(stack'[k])
    <3> TAKE k \in 1 .. Len(stack')
    <3>1. k \in 1 .. Len(stack) - 1 \/ k = Len(stack) \/ k = Len(stack) + 1
      BY <2>2, <2>6
    <3>2. CASE k \in 1 .. Len(stack) - 1
      <4>1. k \in 1 .. Len(stack)
        BY <2>2, <3>2
      <4> QED
        BY <2>6, <3>2, <4>1 DEF NvTypes
    <3> QED
      BY <2>4, <2>10, <2>6, <3>1, <3>2
  <2>8. \A k \in 1 .. Len(stack') - 1 : stack'[k].seen < MaxPairs /\ stack'[k].end # 0
    <3> TAKE k \in 1 .. Len(stack') - 1
    <3>1. k \in 1 .. Len(stack) - 1 \/ k = Len(stack)
      BY <2>2, <2>6
    <3>2. CASE k \in 1 .. Len(stack) - 1
      BY <2>6, <3>2 DEF NvTypes
    <3>3. CASE k = Len(stack)
      BY <2>3, <2>4, <2>6, <3>3
    <3> QED
      BY <3>1, <3>2, <3>3
  <2>9. Len(stack') <= MaxDepth + 1
    BY <1>2, <2>2, <2>6, CapsAssumption
  <2> QED
    BY <2>5, <2>6, <2>7, <2>8, <2>9 DEF NvTypes, Outcome, IsFrame
<1> QED
  BY <1>1, <1>2

\* A list ends: its caller counts the pair that held it.
LEMMA EndKeepsTypes ==
  ASSUME NvTypes, EndList
  PROVE  NvTypes'
<1>1. stack # <<>> /\ Len(stack) \in Nat \ {0}
  BY TopIs DEF EndList
<1>2. CASE Len(stack) = 1
  BY <1>2 DEF EndList, NvTypes, Outcome, IsFrame
<1>3. CASE Len(stack) # 1
  <2> DEFINE c == stack[Len(stack) - 1]
             f == Push(c, c.name, <<"list", Top.pairs>>, c.end)
  <2>1. stack' = Append(SubSeq(stack, 1, Len(stack) - 2), f) /\ UNCHANGED <<stream, out>>
    BY <1>3 DEF EndList
  <2>2. /\ Len(stack) > 1 /\ Len(stack) - 1 \in 1 .. Len(stack) - 1
        /\ Len(stack) - 1 \in 1 .. Len(stack)
    <3> DEFINE n == Len(stack)
    <3>1. n \in Nat \ {0} /\ n # 1
      BY <1>1, <1>3
    <3> HIDE DEF n
    <3>2. n > 1 /\ n - 1 \in 1 .. n - 1 /\ n - 1 \in 1 .. n
      BY <3>1
    <3> QED
      BY <3>2 DEF n
  <2>3. IsFrame(c) /\ c.seen < MaxPairs /\ c.end # 0
    BY <2>2 DEF NvTypes
  <2>4. IsFrame(f)
    <3>1. c.end \in Nat \ {0} /\ stream \in Streams
      BY <2>3 DEF IsFrame, NvTypes
    <3> HIDE DEF c
    <3> QED
      BY <2>3, <3>1, PushIs
  <2> HIDE DEF f
  <2>5. /\ IsSeq(stack') /\ Len(stack') = Len(stack) - 1
        /\ stack'[Len(stack) - 1] = f
        /\ \A k \in 1 .. Len(stack) - 2 : stack'[k] = stack[k]
    BY <2>1, <2>2, LeaveIs
  <2>6. \A k \in 1 .. Len(stack') : IsFrame(stack'[k])
    <3> TAKE k \in 1 .. Len(stack')
    <3>1. CASE k = Len(stack) - 1
      BY <2>4, <2>5, <3>1
    <3>2. CASE k \in 1 .. Len(stack) - 2
      <4>1. k \in 1 .. Len(stack)
        BY <1>1, <3>2
      <4> QED
        BY <2>5, <3>2, <4>1 DEF NvTypes
    <3> QED
      BY <1>1, <2>5, <3>1, <3>2
  <2>7. \A k \in 1 .. Len(stack') - 1 : stack'[k].seen < MaxPairs /\ stack'[k].end # 0
    <3> TAKE k \in 1 .. Len(stack') - 1
    <3>1. k \in 1 .. Len(stack) - 2 /\ k \in 1 .. Len(stack) - 1
      BY <1>1, <2>5
    <3> QED
      BY <2>5, <3>1 DEF NvTypes
  <2>8. Len(stack') <= MaxDepth + 1
    BY <1>1, <2>5, CapsAssumption DEF NvTypes
  <2> QED
    BY <2>1, <2>5, <2>6, <2>7, <2>8 DEF NvTypes, Outcome, IsFrame
<1> QED
  BY <1>2, <1>3

LEMMA LeafKeepsTypes ==
  ASSUME NvTypes, Named, NEW value, Leaf(value)
  PROVE  NvTypes'
<1>1. stack # <<>>
  BY DEF Named, AtPair, Looping
<1>2. IsFrame(Top) /\ Top.seen < MaxPairs /\ End \in Nat \ {0} /\ stream \in Streams
  BY <1>1, TopIs, PlacesAre DEF NvTypes
<1>3. IsFrame(Push(Top, Name, value, End))
  BY <1>2, PushIs
<1> QED
  BY <1>1, <1>3, ReplaceKeepsTypes DEF Leaf

LEMMA NvTypesInit == Init => NvTypes
<1> SUFFICES ASSUME Init PROVE NvTypes
  OBVIOUS
<1> QED
  BY EmptyIs, CapsAssumption DEF Init, NvTypes, Outcome

LEMMA NvTypesStep ==
  ASSUME NvTypes, [Next]_vars
  PROVE  NvTypes'
<1>1. ASSUME Parse PROVE NvTypes'
  <2>1. CASE Word(1) = XDR
    <3>1. stack' = <<Frame(4)>> /\ UNCHANGED <<stream, out>> /\ stack = <<>>
      BY <1>1, <2>1 DEF Parse
    <3>2. IsFrame(Frame(4))
      BY EmptyIs, CapsAssumption DEF IsFrame, Frame
    <3>3. IsSeq(stack')
      <4>1. stack' \in Seq({Frame(4)})
        BY <3>1
      <4> QED
        BY <4>1 DEF IsSeq
    <3> QED
      BY <3>1, <3>2, <3>3, CapsAssumption DEF NvTypes, Outcome, IsFrame
  <2>2. CASE Word(1) # XDR
    BY <1>1, <2>2 DEF Parse, NvTypes, Outcome, IsFrame
  <2> QED
    BY <2>1, <2>2
<1>2. ASSUME TooManyPairs \/ NegativeSize \/ BadByteCount PROVE NvTypes'
  BY <1>2, ErrorKeepsTypes DEF TooManyPairs, NegativeSize, BadByteCount
<1>3. ASSUME BadName \/ BadString PROVE NvTypes'
  BY <1>3, ErrorKeepsTypes DEF BadName, BadString, StringError
<1>4. ASSUME TakeInteger \/ TakeString \/ TakeBytes PROVE NvTypes'
  BY <1>4, LeafKeepsTypes DEF TakeInteger, TakeString, TakeBytes
<1>5. ASSUME SkipPair PROVE NvTypes'
  <2>1. stack # <<>> /\ Named
    BY <1>5 DEF SkipPair, Named, AtPair, Looping
  <2>2. IsFrame(Top) /\ Top.seen < MaxPairs /\ End \in Nat \ {0}
    BY <2>1, TopIs, PlacesAre
  <2>3. IsFrame([Top EXCEPT !.at = End, !.seen = @ + 1])
    BY <2>2, SkipIs
  <2> QED
    BY <1>5, <2>1, <2>3, ReplaceKeepsTypes DEF SkipPair
<1>6. ASSUME Returned \/ UNCHANGED vars PROVE NvTypes'
  BY <1>6 DEF Returned, vars, NvTypes, Outcome, IsFrame
<1> QED
  BY <1>1, <1>2, <1>3, <1>4, <1>5, <1>6, EnterKeepsTypes, EndKeepsTypes DEF Next

\* The decoder's cursor and what it has gathered are in their types, however
\* the stream lies about its sizes: the stack of parse_body's activations has
\* at most MAX_DEPTH + 1 frames, and none has looked at more pairs than
\* MAX_PAIRS (nvlist.rs:193-207).
THEOREM DecoderTypes == Spec => []TypeOK
<1>1. NvTypes /\ [Next]_vars => NvTypes'
  BY NvTypesStep
<1>2. NvTypes => TypeOK
  <2> SUFFICES ASSUME NvTypes PROVE TypeOK
    OBVIOUS
  <2>1. stream.data \in Seq(Int)
    BY DataIs DEF NvTypes
  <2>2. out[1] \in {"pending", "ok", "bomb", "truncated", "encoding"}
    BY DEF NvTypes, Outcome, Pending, Ok, Err
  <2>3. DOMAIN stack = 1 .. Len(stack)
    BY SeqIs DEF NvTypes
  <2> QED
    BY <2>1, <2>2, <2>3 DEF NvTypes, IsFrame, TypeOK
<1> QED
  BY <1>1, <1>2, NvTypesInit, PTL DEF Spec

-----------------------------------------------------------------------------
(***************************************************************************)
(* The lists of a stream as it was written.                                *)
(***************************************************************************)

\* What holds at the first of a run of numbers, and goes on to the next, holds
\* at all of them (where a walk over pairs goes wrong it goes wrong first).
LEMMA Onward ==
  ASSUME NEW m \in Nat, NEW n \in Nat, NEW S, m \in S,
         \A i \in m .. n - 1 : i \in S => i + 1 \in S
  PROVE  \A i \in m .. n : i \in S
<1> DEFINE T == {i \in m .. n : i \notin S}
<1>1. SUFFICES ASSUME T # {} PROVE FALSE
  OBVIOUS
<1>2. T \subseteq Nat
  OBVIOUS
<1>3. PICK x \in T : \A y \in T : ~ (<<y, x>> \in OpToRel(<, Nat))
  BY <1>1, <1>2, NatLessThanWellFounded, WFMin, Zenon
<1>4. x \in m .. n /\ x \notin S /\ x # m
  OBVIOUS
<1>5. x - 1 \in m .. n - 1 /\ x - 1 \in Nat /\ x \in Nat /\ x - 1 < x /\ x - 1 + 1 = x
  BY <1>4
<1>6. x - 1 \notin T
  BY <1>3, <1>5 DEF OpToRel
<1> QED
  BY <1>4, <1>5, <1>6

Count(d, l) == Len(d.lists[l].pairs)
Place(d, l, i) == d.lists[l].at[i]
PairOf(d, l, i) == d.lists[l].pairs[i]
KeptAt(d, l, i) == d.lists[l].kept[i]

\* What a pair adds to what is kept.
Grown(d, kept, pair) ==
  IF pair.kind = "other" THEN kept ELSE Append(kept, Meaning(d, pair))

\* The word that gives a pair's type.
TypePlace(d, l, i) == Place(d, l, i) + 3 + Len(PairOf(d, l, i).name)

LEMMA ListIs ==
  ASSUME NEW d \in Streams, NEW l \in DOMAIN d.lists
  PROVE  /\ Count(d, l) \in Nat
         /\ \A i \in 1 .. Count(d, l) + 1 : Place(d, l, i) \in Nat \ {0}
         /\ \A i, j \in 1 .. Count(d, l) + 1 : i < j => Place(d, l, i) < Place(d, l, j)
         /\ Place(d, l, Count(d, l) + 1) < Len(d.words)
         /\ d.words[Place(d, l, Count(d, l) + 1)] = 0
         /\ \A i \in 1 .. Count(d, l) :
              /\ PairOf(d, l, i) \in Pair
              /\ PairWritten(d, PairOf(d, l, i), Place(d, l, i), Place(d, l, i + 1))
         /\ KeptAt(d, l, 1) = <<>>
         /\ \A i \in 1 .. Count(d, l) :
              KeptAt(d, l, i + 1) = Grown(d, KeptAt(d, l, i), PairOf(d, l, i))
<1>1. ListWritten(d, d.lists[l])
  BY StreamsAssumption DEF Written
<1> DEFINE L == d.lists[l]
           n == Len(L.pairs)
<1>2. L.pairs \in Seq(Pair)
  BY <1>1 DEF ListWritten
<1>3. n \in Nat /\ \A i \in 1 .. n : L.pairs[i] \in Pair
  BY <1>2
<1>4. L.at \in [1 .. n + 1 -> Nat \ {0}]
  BY <1>1 DEF ListWritten
<1>5. \A i \in 1 .. n + 1 : L.at[i] \in Nat \ {0}
  BY <1>4
<1>6. /\ \A i, j \in 1 .. n + 1 : i < j => L.at[i] < L.at[j]
      /\ L.at[n + 1] < Len(d.words) /\ d.words[L.at[n + 1]] = 0
      /\ \A i \in 1 .. n : PairWritten(d, L.pairs[i], L.at[i], L.at[i + 1])
      /\ L.kept[1] = <<>>
      /\ \A i \in 1 .. n : L.kept[i + 1] = IF L.pairs[i].kind = "other" THEN L.kept[i]
                                           ELSE Append(L.kept[i], Meaning(d, L.pairs[i]))
  BY <1>1, Zenon DEF ListWritten
<1> QED
  BY <1>3, <1>5, <1>6 DEF Count, Place, PairOf, KeptAt, Grown

\* The caps a list is within, and the depth of those in it.
LEMMA ListFits ==
  ASSUME NEW d \in Streams, NEW l \in DOMAIN d.lists
  PROVE  /\ d.lists[l].depth \in Nat /\ d.lists[l].fits \in BOOLEAN
         /\ \A i \in 1 .. Count(d, l) : PairOf(d, l, i).kind = "list" =>
              d.lists[PairOf(d, l, i).list].depth = d.lists[l].depth + 1
         /\ d.lists[l].fits <=>
              /\ Count(d, l) < MaxPairs /\ d.lists[l].depth <= MaxDepth
              /\ \A i \in 1 .. Count(d, l) : PairFits(d, PairOf(d, l, i))
<1>1. ListWritten(d, d.lists[l])
  BY StreamsAssumption DEF Written
<1> QED
  BY <1>1, Zenon DEF ListWritten, Count, PairOf

\* The outermost list begins at the fourth word (nvlist.rs:105-119).
LEMMA OutermostIs ==
  ASSUME NEW d \in Streams
  PROVE  /\ 1 \in DOMAIN d.lists /\ Place(d, 1, 1) = 4 /\ d.lists[1].depth = 0
         /\ d.words[1] = XDR
  BY StreamsAssumption DEF Written, Place

LEMMA KeptIsSeq ==
  ASSUME NEW d \in Streams, NEW l \in DOMAIN d.lists
  PROVE  \A i \in 1 .. Count(d, l) + 1 : IsSeq(KeptAt(d, l, i))
<1> DEFINE n == Count(d, l)
           S == {i \in 1 .. n + 1 : IsSeq(KeptAt(d, l, i))}
<1>1. n \in Nat
  BY ListIs
<1>2. 1 \in S
  BY <1>1, ListIs, EmptyIs
<1>3. ASSUME NEW i \in 1 .. n, i \in S PROVE i + 1 \in S
  <2>1. IsSeq(KeptAt(d, l, i))
    BY <1>3
  <2>2. KeptAt(d, l, i + 1) = Grown(d, KeptAt(d, l, i), PairOf(d, l, i))
    BY ListIs
  <2>3. IsSeq(KeptAt(d, l, i + 1))
    BY <2>1, <2>2, AppendIs DEF Grown
  <2> QED
    BY <1>1, <2>3
<1> HIDE DEF S, n
<1>4. \A i \in 1 .. n + 1 : i \in S
  <2> DEFINE e == n + 1
  <2>1. e \in Nat /\ \A i \in 1 .. e - 1 : i \in S => i + 1 \in S
    BY <1>1, <1>3
  <2> HIDE DEF e
  <2>2. \A i \in 1 .. e : i \in S
    BY <1>2, <2>1, Onward
  <2> QED
    BY <2>2 DEF e
<1> QED
  BY <1>4 DEF S, n

\* What is kept only grows at its end.
LEMMA KeptGrows ==
  ASSUME NEW d \in Streams, NEW l \in DOMAIN d.lists, NEW i \in 1 .. Count(d, l) + 1
  PROVE  \A j \in i .. Count(d, l) + 1 :
           /\ Len(KeptAt(d, l, i)) <= Len(KeptAt(d, l, j))
           /\ \A m \in 1 .. Len(KeptAt(d, l, i)) : KeptAt(d, l, j)[m] = KeptAt(d, l, i)[m]
<1> DEFINE n == Count(d, l)
           k(j) == KeptAt(d, l, j)
           S == {j \in i .. n + 1 : /\ Len(k(i)) <= Len(k(j))
                                    /\ \A m \in 1 .. Len(k(i)) : k(j)[m] = k(i)[m]}
<1>1. n \in Nat
  BY ListIs
<1>2. \A j \in 1 .. n + 1 : IsSeq(k(j)) /\ Len(k(j)) \in Nat
  BY KeptIsSeq, SeqIs
<1>3. i \in S
  BY <1>1, <1>2
<1>4. ASSUME NEW j \in i .. n, j \in S PROVE j + 1 \in S
  <2>1. j \in 1 .. n /\ j \in 1 .. n + 1 /\ j + 1 \in i .. n + 1 /\ j + 1 \in 1 .. n + 1
    BY <1>1
  <2>2. k(j + 1) = Grown(d, k(j), PairOf(d, l, j))
    BY <2>1, ListIs
  <2>3. IsSeq(k(j)) /\ Len(k(j)) \in Nat /\ Len(k(j + 1)) \in Nat /\ Len(k(i)) \in Nat
    BY <1>1, <1>2, <2>1
  <2>4. Len(k(j)) <= Len(k(j + 1)) /\ \A m \in 1 .. Len(k(j)) : k(j + 1)[m] = k(j)[m]
    <3> HIDE DEF k
    <3>1. CASE k(j + 1) = k(j)
      BY <2>3, <3>1
    <3>2. ASSUME NEW x, k(j + 1) = Append(k(j), x)
          PROVE  Len(k(j)) <= Len(k(j + 1)) /\ \A m \in 1 .. Len(k(j)) : k(j + 1)[m] = k(j)[m]
      <4>1. /\ Len(Append(k(j), x)) = Len(k(j)) + 1
            /\ \A m \in 1 .. Len(k(j)) : Append(k(j), x)[m] = k(j)[m]
        BY <2>3, AppendIs
      <4> QED
        BY <2>3, <3>2, <4>1
    <3> QED
      BY <2>2, <3>1, <3>2 DEF Grown
  <2>5. Len(k(i)) <= Len(k(j)) /\ \A m \in 1 .. Len(k(i)) : k(j)[m] = k(i)[m]
    BY <1>4
  <2> HIDE DEF k
  <2>6. \A m \in 1 .. Len(k(i)) : m \in 1 .. Len(k(j))
    BY <2>3, <2>5
  <2> QED
    BY <2>1, <2>3, <2>4, <2>5, <2>6
<1> HIDE DEF S, n
<1>5. \A j \in i .. n + 1 : j \in S
  <2> DEFINE e == n + 1
  <2>1. i \in Nat /\ e \in Nat /\ \A j \in i .. e - 1 : j \in S => j + 1 \in S
    BY <1>1, <1>4 DEF n
  <2> HIDE DEF e
  <2>2. \A j \in i .. e : j \in S
    BY <1>3, <2>1, Onward
  <2> QED
    BY <2>2 DEF e
<1> QED
  BY <1>5 DEF S, n

\* Where a pair's parts are, and what is in them.
LEMMA PairIs ==
  ASSUME NEW d \in Streams, NEW l \in DOMAIN d.lists, NEW i \in 1 .. Count(d, l)
  PROVE  LET p == PairOf(d, l, i)
             a == Place(d, l, i)
             e == Place(d, l, i + 1)
             t == TypePlace(d, l, i) IN
         /\ p \in Pair /\ Len(p.name) \in Nat /\ Len(p.value) \in Nat
         /\ a \in Nat \ {0} /\ e \in Nat \ {0} /\ t \in Nat \ {0} /\ t = a + 3 + Len(p.name)
         /\ e < Len(d.words)
         /\ d.words[a] = e - a /\ d.words[a + 2] = Len(p.name)
         /\ p.name = SubSeq(d.words, a + 3, t - 1)
         /\ ValueWritten(d, p, t, e)
<1> DEFINE p == PairOf(d, l, i)
           a == Place(d, l, i)
           n == Count(d, l)
           e == Place(d, l, i + 1)
           t == TypePlace(d, l, i)
<1>1. n \in Nat /\ i \in 1 .. n + 1 /\ i + 1 \in 1 .. n + 1
  BY ListIs
<1>2. a \in Nat \ {0} /\ e \in Nat \ {0}
  BY <1>1, ListIs
<1>3. p \in Pair /\ PairWritten(d, p, a, e)
  BY ListIs
<1>4. Len(p.name) \in Nat /\ Len(p.value) \in Nat
  <2> HIDE DEF p
  <2> QED
    BY <1>3 DEF Pair
<1>5. t = a + 3 + Len(p.name)
  BY DEF TypePlace
<1>6. e < Len(d.words)
  <2>1. Place(d, l, n + 1) < Len(d.words) /\ Len(d.words) \in Nat /\ Place(d, l, n + 1) \in Nat
    BY <1>1, ListIs, StreamsAssumption DEF Written
  <2>2. i + 1 = n + 1 \/ i + 1 < n + 1
    BY <1>1
  <2>3. n + 1 \in 1 .. n + 1
    BY <1>1
  <2>4. i + 1 < n + 1 => e < Place(d, l, n + 1)
    BY <1>1, <2>3, ListIs
  <2> QED
    BY <1>2, <2>1, <2>2, <2>4
<1> HIDE DEF p, a, e, t
<1>7. /\ d.words[a] = e - a /\ d.words[a + 2] = Len(p.name)
      /\ p.name = SubSeq(d.words, a + 3, t - 1)
      /\ ValueWritten(d, p, t, e)
  <2>1. a + 3 + Len(p.name) = t
    BY <1>5
  <2>2. i + 1 \in 1 .. n + 1
    BY <1>1
  <2>3. a + 3 + Len(p.name) = t /\ i \in Nat
    BY <1>5
  <2>4. LET type == a + 3 + Len(p.name) IN
        /\ d.words[a] = e - a /\ d.words[a + 2] = Len(p.name)
        /\ p.name = SubSeq(d.words, a + 3, type - 1)
        /\ ValueWritten(d, p, type, e)
    BY <1>3, Zenon DEF PairWritten
  <2> QED
    BY <2>1, <2>4
<1>8. t \in Nat \ {0}
  <2> DEFINE m == Len(p.name)
  <2>1. m \in Nat /\ t = a + 3 + m
    BY <1>4, <1>5
  <2> HIDE DEF m
  <2> QED
    BY <1>2, <2>1
<1> QED
  BY <1>2, <1>3, <1>4, <1>5, <1>6, <1>7, <1>8 DEF p, a, e, t

\* A nested list lies between the type of the pair that holds it and the
\* pair's end.
LEMMA ChildIs ==
  ASSUME NEW d \in Streams, NEW l \in DOMAIN d.lists, NEW i \in 1 .. Count(d, l),
         PairOf(d, l, i).kind = "list"
  PROVE  LET c == PairOf(d, l, i).list IN
         /\ c \in DOMAIN d.lists /\ d.words[TypePlace(d, l, i)] = List
         /\ Place(d, c, 1) = TypePlace(d, l, i) + 4
         /\ Place(d, c, Count(d, c) + 1) + 2 = Place(d, l, i + 1)
         /\ Count(d, c) \in Nat
<1> DEFINE p == PairOf(d, l, i)
           t == TypePlace(d, l, i)
           e == Place(d, l, i + 1)
           at == d.lists[p.list].at
<1>1. ValueWritten(d, p, t, e)
  BY PairIs
<1>2. /\ d.words[t] = List /\ p.list \in DOMAIN d.lists
      /\ at[1] = t + 4 /\ at[Len(at)] + 2 = e
  <2> HIDE DEF t, e
  <2> QED
    BY <1>1 DEF ValueWritten
<1>3. Count(d, p.list) \in Nat
  BY <1>2, ListIs
<1>4. at \in [1 .. Count(d, p.list) + 1 -> Nat \ {0}]
  BY <1>2, StreamsAssumption DEF Written, ListWritten, Count
<1>5. Len(at) = Count(d, p.list) + 1
  <2> DEFINE m == Count(d, p.list) + 1
             f == at
  <2>1. m \in Nat /\ f \in [1 .. m -> Nat \ {0}]
    BY <1>3, <1>4
  <2> HIDE DEF m, f
  <2>2. Len(f) = m
    BY <2>1, LenProperties
  <2> QED
    BY <2>2 DEF m, f
<1> QED
  BY <1>2, <1>3, <1>5 DEF Place

\* A pair has at least its size, its flags, its name's length, its type and its
\* count.
LEMMA PairIsLong ==
  ASSUME NEW d \in Streams, NEW l \in DOMAIN d.lists, NEW i \in 1 .. Count(d, l)
  PROVE  TypePlace(d, l, i) + 2 <= Place(d, l, i + 1)
<1> DEFINE p == PairOf(d, l, i)
           t == TypePlace(d, l, i)
           e == Place(d, l, i + 1)
<1>1. /\ t \in Nat /\ e \in Nat /\ Len(p.value) \in Nat
      /\ ValueWritten(d, p, t, e)
  BY PairIs
<1>2. CASE p.kind = "list"
  <2> DEFINE c == p.list
             n == Count(d, c)
  <2>1. /\ c \in DOMAIN d.lists /\ Place(d, c, 1) = t + 4
        /\ Place(d, c, n + 1) + 2 = e /\ n \in Nat
    BY <1>2, ChildIs
  <2> HIDE DEF c, n
  <2>2. 1 \in 1 .. n + 1 /\ n + 1 \in 1 .. n + 1 /\ (n + 1 = 1 \/ 1 < n + 1)
    BY <2>1
  <2>3. 1 < n + 1 => Place(d, c, 1) < Place(d, c, n + 1)
    BY <2>1, <2>2, ListIs DEF n
  <2>4. Place(d, c, n + 1) \in Nat
    BY <2>1, <2>2, ListIs DEF n
  <2> QED
    BY <1>1, <2>1, <2>2, <2>3, <2>4
<1>3. CASE p.kind # "list"
  <2> DEFINE m == Len(p.value)
  <2>1. m \in Nat
    BY <1>1
  <2>2. e = t + 4 \/ e = t + 3 + m \/ e = t + 2 + m \/ t + 2 <= e
    <3> HIDE DEF t, e, p
    <3> QED
      BY <1>1, <1>3 DEF ValueWritten
  <2>3. t \in Nat /\ e \in Nat
    BY <1>1
  <2> HIDE DEF m, t, e
  <2>4. t + 2 <= e
    BY <2>1, <2>2, <2>3
  <2> QED
    BY <2>4 DEF t, e
<1> QED
  BY <1>2, <1>3

\* What follows the type of a pair, by the type.
LEMMA KindIs ==
  ASSUME NEW d \in Streams, NEW l \in DOMAIN d.lists, NEW i \in 1 .. Count(d, l)
  PROVE  LET p == PairOf(d, l, i)
             e == Place(d, l, i + 1)
             t == TypePlace(d, l, i) IN
         /\ d.words[t] = U64 =>
              p.kind = "u64" /\ p.value = <<d.words[t + 2], d.words[t + 3]>> /\ e = t + 4
         /\ d.words[t] = Str =>
              /\ p.kind = "str" /\ d.words[t + 2] = Len(p.value) /\ e = t + 3 + Len(p.value)
              /\ p.value = SubSeq(d.words, t + 3, e - 1)
         /\ d.words[t] \in ByteArrays =>
              /\ p.kind = "bytes" /\ d.words[t + 1] = Len(p.value) /\ e = t + 2 + Len(p.value)
              /\ p.value = SubSeq(d.words, t + 2, e - 1)
         /\ d.words[t] = List => p.kind = "list"
         /\ d.words[t] \notin ByteArrays \cup {U64, Str, List} => p.kind = "other"
<1> DEFINE p == PairOf(d, l, i)
           t == TypePlace(d, l, i)
           e == Place(d, l, i + 1)
<1>1. ValueWritten(d, p, t, e)
  BY PairIs
<1> HIDE DEF p, t, e
<1>2. U64 = 8 /\ Str = 9 /\ ByteArrays = {10, 26} /\ List = 19
  BY DEF U64, Str, ByteArrays, List
<1>3. /\ d.words[t] = U64 =>
           p.kind = "u64" /\ p.value = <<d.words[t + 2], d.words[t + 3]>> /\ e = t + 4
      /\ d.words[t] = Str =>
           /\ p.kind = "str" /\ d.words[t + 2] = Len(p.value) /\ e = t + 3 + Len(p.value)
           /\ p.value = SubSeq(d.words, t + 3, e - 1)
      /\ d.words[t] \in ByteArrays =>
           /\ p.kind = "bytes" /\ d.words[t + 1] = Len(p.value) /\ e = t + 2 + Len(p.value)
           /\ p.value = SubSeq(d.words, t + 2, e - 1)
      /\ d.words[t] = List => p.kind = "list"
      /\ d.words[t] \notin ByteArrays \cup {U64, Str, List} => p.kind = "other"
  BY <1>1, <1>2 DEF ValueWritten
<1> QED
  BY <1>3 DEF p, t, e

-----------------------------------------------------------------------------
(***************************************************************************)
(* Reading a pair that is as it was written, as far as the data goes.      *)
(***************************************************************************)
Clean(d, w) == w > Len(d.data) \/ d.data[w] = d.words[w]

PairClean(d, l, i) ==
  \A w \in Place(d, l, i) .. (IF i = Count(d, l) + 1 THEN Place(d, l, i) ELSE Place(d, l, i + 1) - 1) :
    Clean(d, w)

ListClean(d, l) == \A i \in 1 .. Count(d, l) + 1 : PairClean(d, l, i)

\* A pair is there to its last word.
Present(d, l, i) == Place(d, l, i + 1) - 1 <= Len(d.data)

\* The top frame is at a pair of a list.
Facing(l, i) ==
  /\ l \in DOMAIN stream.lists /\ i \in 1 .. Count(stream, l)
  /\ Top.at = Place(stream, l, i) /\ PairClean(stream, l, i)

\* be_u32 of a word that is as written (bytes.rs:78-96).
LEMMA ReadIs ==
  ASSUME stream \in Streams, NEW w \in Nat \ {0}, Clean(stream, w)
  PROVE  Word(w) = IF w <= Len(stream.data) THEN stream.words[w] ELSE 0
  BY DataIs DEF Word, Clean

\* A run of words that are as written.
LEMMA SpanIs ==
  ASSUME stream \in Streams, NEW i \in Nat \ {0}, NEW m \in Nat,
         m <= Len(stream.data), m <= Len(stream.words), i <= m + 1,
         \A w \in i .. m : Clean(stream, w)
  PROVE  Span(i, m - i + 1) = SubSeq(stream.words, i, m)
<1> DEFINE f == SubSeq(stream.data, i, m)
           g == SubSeq(stream.words, i, m)
<1>1. IsSeq(stream.data) /\ IsSeq(stream.words) /\ Len(stream.data) \in Nat
  BY DataIs DEF IsSeq
<1>2. /\ IsSeq(f) /\ Len(f) = IF i <= m THEN m - i + 1 ELSE 0
      /\ \A k \in 1 .. m - i + 1 : f[k] = stream.data[i + k - 1]
  BY <1>1, PartIs
<1>3. /\ IsSeq(g) /\ Len(g) = IF i <= m THEN m - i + 1 ELSE 0
      /\ \A k \in 1 .. m - i + 1 : g[k] = stream.words[i + k - 1]
  BY <1>1, PartIs
<1> HIDE DEF f, g
<1>4. ASSUME NEW k \in 1 .. Len(f) PROVE f[k] = g[k]
  <2>1. k \in 1 .. m - i + 1 /\ i + k - 1 \in i .. m
    BY <1>2
  <2>2. stream.data[i + k - 1] = stream.words[i + k - 1]
    <3> DEFINE w == i + k - 1
    <3>1. Clean(stream, w) /\ w \in Int /\ w <= m
      BY <2>1
    <3> HIDE DEF w
    <3>2. stream.data[w] = stream.words[w]
      BY <1>1, <3>1 DEF Clean
    <3> QED
      BY <3>2 DEF w
  <2> QED
    BY <1>2, <1>3, <2>1, <2>2
<1>5. f = g
  BY <1>2, <1>3, <1>4, SameSeq
<1>6. i + (m - i + 1) - 1 = m
  OBVIOUS
<1> QED
  BY <1>5, <1>6 DEF f, g, Span

LEMMA FacingIs ==
  ASSUME NvTypes, NEW l, NEW i, Facing(l, i)
  PROVE  LET a == Place(stream, l, i)
             e == Place(stream, l, i + 1)
             t == TypePlace(stream, l, i)
             size == Len(stream.data) IN
         /\ stream \in Streams /\ l \in DOMAIN stream.lists /\ i \in 1 .. Count(stream, l)
         /\ a \in Nat \ {0} /\ e \in Nat \ {0} /\ t \in Nat \ {0}
         /\ size \in Nat /\ Len(stream.words) \in Nat
         /\ Len(PairOf(stream, l, i).name) \in Nat /\ Len(PairOf(stream, l, i).value) \in Nat
         /\ t = a + 3 + Len(PairOf(stream, l, i).name) /\ t + 2 <= e /\ e < Len(stream.words)
         /\ \A w \in a .. e - 1 :
              Clean(stream, w) /\ Word(w) = IF w <= size THEN stream.words[w] ELSE 0
         /\ Word(a) = IF a <= size THEN e - a ELSE 0
         /\ Word(a + 2) = IF a + 2 <= size THEN Len(PairOf(stream, l, i).name) ELSE 0
<1> DEFINE a == Place(stream, l, i)
           e == Place(stream, l, i + 1)
           t == TypePlace(stream, l, i)
           m == Len(PairOf(stream, l, i).name)
           size == Len(stream.data)
<1>1. stream \in Streams /\ l \in DOMAIN stream.lists /\ i \in 1 .. Count(stream, l)
  BY DEF NvTypes, Facing
<1>2. size \in Nat /\ Len(stream.words) \in Nat
  BY <1>1, DataIs
<1>3. /\ a \in Nat \ {0} /\ e \in Nat \ {0} /\ t \in Nat \ {0} /\ m \in Nat
      /\ t = a + 3 + m /\ e < Len(stream.words)
      /\ stream.words[a] = e - a /\ stream.words[a + 2] = m
      /\ Len(PairOf(stream, l, i).value) \in Nat
  BY <1>1, PairIs
<1>4. t + 2 <= e
  BY <1>1, PairIsLong
<1>5. i # Count(stream, l) + 1
  BY <1>1, ListIs
<1>6. \A w \in a .. e - 1 : Clean(stream, w)
  BY <1>5 DEF Facing, PairClean
<1> HIDE DEF a, e, t, m, size
<1>7. ASSUME NEW w \in a .. e - 1 PROVE Word(w) = IF w <= size THEN stream.words[w] ELSE 0
  <2>1. w \in Nat \ {0}
    BY <1>3
  <2>2. Clean(stream, w)
    BY <1>6
  <2> QED
    BY <1>1, <2>1, <2>2, ReadIs DEF size
<1>8. a \in a .. e - 1 /\ a + 2 \in a .. e - 1
  BY <1>3, <1>4
<1>9. Word(a) = (IF a <= size THEN e - a ELSE 0) /\ Word(a + 2) = IF a + 2 <= size THEN m ELSE 0
  BY <1>3, <1>7, <1>8
<1> QED
  BY <1>1, <1>2, <1>3, <1>4, <1>6, <1>7, <1>9 DEF a, e, t, m, size

\* A pair whose name is read is the one that was written there
\* (nvlist.rs:210-220).
LEMMA NameIsRead ==
  ASSUME NvTypes, Named, NEW l, NEW i, Facing(l, i)
  PROVE  /\ End = Place(stream, l, i + 1) /\ Name = PairOf(stream, l, i).name
         /\ TypeAt = TypePlace(stream, l, i) /\ ValueAt = TypePlace(stream, l, i) + 2
         /\ TypePlace(stream, l, i) - 1 <= Len(stream.data)
         /\ Len(PairOf(stream, l, i).name) <= MaxLen
<1> DEFINE a == Place(stream, l, i)
           e == Place(stream, l, i + 1)
           t == TypePlace(stream, l, i)
           name == PairOf(stream, l, i).name
           m == Len(name)
           size == Len(stream.data)
<1>1. /\ stream \in Streams /\ l \in DOMAIN stream.lists /\ i \in 1 .. Count(stream, l)
      /\ a \in Nat \ {0} /\ e \in Nat \ {0} /\ t \in Nat \ {0} /\ m \in Nat
      /\ size \in Nat /\ Len(stream.words) \in Nat
      /\ t = a + 3 + m /\ t + 2 <= e /\ e < Len(stream.words)
      /\ \A w \in a .. e - 1 : Clean(stream, w)
      /\ Word(a) = IF a <= size THEN e - a ELSE 0
      /\ Word(a + 2) = IF a + 2 <= size THEN m ELSE 0
  BY FacingIs
<1>2. Top.at = a /\ name = SubSeq(stream.words, a + 3, t - 1)
  BY <1>1, PairIs DEF Facing
<1> HIDE DEF a, e, t, name, m, size
<1>3. Word(Top.at) > 0 /\ StringError(NameAt) = "none"
  BY DEF Named, AtPair
<1>4. a <= size /\ End = e
  BY <1>1, <1>2, <1>3 DEF End
<1>5. NameAt = a + 2
  BY <1>2 DEF NameAt
<1>6. Word(NameAt) <= MaxLen /\ Fits(NameAt + 1, Word(NameAt))
  <2>1. Word(NameAt) \in Nat /\ MaxLen \in Nat
    BY <1>1, <1>5, CapsAssumption
  <2> QED
    BY <1>3, <2>1 DEF StringError
<1>7. a + 2 <= size
  <2>1. CASE a + 2 > size
    <3>1. Word(NameAt) = 0
      BY <1>1, <1>5, <2>1
    <3>2. Fits(a + 3, 0)
      BY <1>5, <1>6, <3>1, <1>1
    <3> QED
      BY <1>1, <2>1, <3>2 DEF Fits, size
  <2> QED
    BY <1>1, <2>1
<1>8. Word(NameAt) = m /\ m <= MaxLen /\ TypeAt = t /\ ValueAt = t + 2
  BY <1>1, <1>5, <1>6, <1>7 DEF TypeAt, ValueAt
<1>9. t - 1 <= size
  <2>1. Fits(a + 3, m)
    BY <1>1, <1>5, <1>6, <1>8
  <2> QED
    BY <1>1, <2>1 DEF Fits, size
<1>10. Name = name
  <2> DEFINE j == a + 3
             k == t - 1
  <2>1. /\ j \in Nat \ {0} /\ k \in Nat /\ k <= size /\ k <= Len(stream.words) /\ j <= k + 1
        /\ \A w \in j .. k : Clean(stream, w)
    BY <1>1, <1>9
  <2>2. Span(j, k - j + 1) = SubSeq(stream.words, j, k)
    <3> HIDE DEF j, k
    <3> QED
      BY <1>1, <2>1, SpanIs DEF size
  <2>3. k - j + 1 = m /\ NameAt + 1 = j
    BY <1>1, <1>5
  <2> QED
    BY <1>2, <1>8, <2>2, <2>3 DEF Name
<1> QED
  BY <1>4, <1>8, <1>9, <1>10 DEF e, name, t, size, m

\* A name is refused for its length, or because it is cut (nvlist.rs:270-282).
LEMMA NameIsRefused ==
  ASSUME NvTypes, AtPair, StringError(NameAt) # "none", NEW l, NEW i, Facing(l, i)
  PROVE  \/ Len(stream.data) < Len(stream.words)
         \/ StringError(NameAt) = "bomb" /\ ~ PairFits(stream, PairOf(stream, l, i))
<1> DEFINE a == Place(stream, l, i)
           e == Place(stream, l, i + 1)
           t == TypePlace(stream, l, i)
           m == Len(PairOf(stream, l, i).name)
           size == Len(stream.data)
<1>1. /\ a \in Nat \ {0} /\ e \in Nat \ {0} /\ t \in Nat \ {0} /\ m \in Nat
      /\ size \in Nat /\ Len(stream.words) \in Nat
      /\ t = a + 3 + m /\ t + 2 <= e /\ e < Len(stream.words)
      /\ Word(a + 2) = IF a + 2 <= size THEN m ELSE 0
  BY FacingIs
<1>2. Top.at = a
  BY DEF Facing
<1>3. PairFits(stream, PairOf(stream, l, i)) => m <= MaxLen
  BY DEF PairFits
<1> HIDE DEF a, e, t, m, size
<1>4. NameAt = a + 2 /\ NameAt + 1 = a + 3
  BY <1>1, <1>2 DEF NameAt
<1>5. ASSUME ~ (size < Len(stream.words))
      PROVE  StringError(NameAt) = "bomb" /\ ~ PairFits(stream, PairOf(stream, l, i))
  <2>1. a + 2 <= size /\ Word(NameAt) = m
    BY <1>1, <1>4, <1>5
  <2>2. Fits(NameAt + 1, Word(NameAt))
    BY <1>1, <1>4, <1>5, <2>1 DEF Fits, size
  <2>3. ~ (m <= MaxLen) /\ StringError(NameAt) = "bomb"
    <3>1. MaxLen \in Nat
      BY CapsAssumption
    <3> QED
      BY <1>1, <2>1, <2>2, <3>1 DEF StringError
  <2> QED
    BY <1>3, <2>3
<1> QED
  BY <1>5 DEF size

\* What a leaf is read as: the value written, if it is all there.
LeafRead(d, l, i, value) ==
  LET p == PairOf(d, l, i) IN
  /\ p.kind \notin {"list", "other"}
  /\ \E x : /\ value = <<p.kind, x>>
            /\ Present(d, l, i) => x = p.value /\ PairFits(d, p)
            /\ ~ Present(d, l, i) /\ p.kind = "u64" => x = <<0, 0>>

\* The type and the words after it.
LEMMA TypeIsRead ==
  ASSUME NvTypes, Named, NEW l, NEW i, Facing(l, i)
  PROVE  LET t == TypePlace(stream, l, i)
             e == Place(stream, l, i + 1)
             size == Len(stream.data) IN
         /\ TypeAt = t /\ ValueAt = t + 2 /\ End = e /\ Name = PairOf(stream, l, i).name
         /\ Len(PairOf(stream, l, i).name) <= MaxLen
         /\ stream \in Streams /\ l \in DOMAIN stream.lists /\ i \in 1 .. Count(stream, l)
         /\ t \in Nat \ {0} /\ e \in Nat \ {0} /\ size \in Nat /\ Len(stream.words) \in Nat
         /\ Len(PairOf(stream, l, i).value) \in Nat
         /\ t - 1 <= size /\ t + 2 <= e /\ e < Len(stream.words)
         /\ \A w \in t .. e - 1 :
              Clean(stream, w) /\ Word(w) = IF w <= size THEN stream.words[w] ELSE 0
         /\ Present(stream, l, i) <=> e - 1 <= size
         /\ Present(stream, l, i) => Word(t) = stream.words[t]
         /\ Word(t) # 0 => t <= size /\ Word(t) = stream.words[t]
<1> DEFINE a == Place(stream, l, i)
           e == Place(stream, l, i + 1)
           t == TypePlace(stream, l, i)
           m == Len(PairOf(stream, l, i).name)
           size == Len(stream.data)
<1>1. /\ stream \in Streams /\ l \in DOMAIN stream.lists /\ i \in 1 .. Count(stream, l)
      /\ a \in Nat \ {0} /\ e \in Nat \ {0} /\ t \in Nat \ {0} /\ m \in Nat
      /\ size \in Nat /\ Len(stream.words) \in Nat
      /\ Len(PairOf(stream, l, i).value) \in Nat
      /\ t = a + 3 + m /\ t + 2 <= e /\ e < Len(stream.words)
      /\ \A w \in a .. e - 1 :
           Clean(stream, w) /\ Word(w) = IF w <= size THEN stream.words[w] ELSE 0
  BY FacingIs
<1>2. /\ End = e /\ TypeAt = t /\ ValueAt = t + 2 /\ t - 1 <= size /\ m <= MaxLen
      /\ Name = PairOf(stream, l, i).name
  BY NameIsRead
<1>3. Present(stream, l, i) <=> e - 1 <= size
  BY DEF Present
<1> HIDE DEF a, e, t, m, size
<1>4. \A w \in t .. e - 1 : w \in a .. e - 1
  BY <1>1
<1>5. t \in t .. e - 1
  BY <1>1
<1>6. Word(t) = IF t <= size THEN stream.words[t] ELSE 0
  BY <1>1, <1>4, <1>5
<1>7. \A w \in t .. e - 1 :
        Clean(stream, w) /\ Word(w) = IF w <= size THEN stream.words[w] ELSE 0
  BY <1>1, <1>4
<1>8. e - 1 <= size => t <= size
  BY <1>1
<1> QED
  BY <1>1, <1>2, <1>3, <1>6, <1>7, <1>8 DEF e, t, size, m

\* A pair's bytes, if they are all there, are those written.
LEMMA ValueSpan ==
  ASSUME NvTypes, Named, NEW l, NEW i, Facing(l, i), NEW v \in Nat \ {0},
         TypePlace(stream, l, i) <= v, v <= Place(stream, l, i + 1), Present(stream, l, i)
  PROVE  Span(v, Place(stream, l, i + 1) - v)
           = SubSeq(stream.words, v, Place(stream, l, i + 1) - 1)
<1> DEFINE e == Place(stream, l, i + 1)
           t == TypePlace(stream, l, i)
           k == e - 1
<1>1. /\ stream \in Streams /\ e \in Nat \ {0} /\ t \in Nat \ {0}
      /\ e - 1 <= Len(stream.data) /\ e < Len(stream.words) /\ Len(stream.words) \in Nat
      /\ \A w \in t .. e - 1 : Clean(stream, w)
  BY TypeIsRead
<1> HIDE DEF e, t
<1>2. /\ k \in Nat /\ k <= Len(stream.data) /\ k <= Len(stream.words)
      /\ v <= k + 1 /\ k - v + 1 = e - v
      /\ \A w \in v .. k : Clean(stream, w)
  BY <1>1 DEF e, t
<1> HIDE DEF k
<1>3. Span(v, k - v + 1) = SubSeq(stream.words, v, k)
  BY <1>1, <1>2, SpanIs
<1> QED
  BY <1>2, <1>3 DEF k, e

\* DATA_TYPE_UINT64 (nvlist.rs:222-224).
LEMMA IntegerIsRead ==
  ASSUME NvTypes, Named, NEW l, NEW i, Facing(l, i), Word(TypeAt) = U64
  PROVE  LeafRead(stream, l, i, <<"u64", <<IntegerWord(ValueAt), IntegerWord(ValueAt + 1)>> >>)
<1> DEFINE e == Place(stream, l, i + 1)
           t == TypePlace(stream, l, i)
           p == PairOf(stream, l, i)
           size == Len(stream.data)
           x == <<IntegerWord(ValueAt), IntegerWord(ValueAt + 1)>>
<1>1. /\ TypeAt = t /\ ValueAt = t + 2 /\ stream \in Streams
      /\ l \in DOMAIN stream.lists /\ i \in 1 .. Count(stream, l)
      /\ t \in Nat \ {0} /\ e \in Nat \ {0} /\ size \in Nat
      /\ \A w \in t .. e - 1 : Word(w) = IF w <= size THEN stream.words[w] ELSE 0
      /\ Present(stream, l, i) <=> e - 1 <= size
      /\ Word(t) # 0 => Word(t) = stream.words[t]
      /\ Len(p.name) <= MaxLen
  BY TypeIsRead
<1>2. stream.words[t] = U64
  BY <1>1 DEF U64
<1>3. p.kind = "u64" /\ p.value = <<stream.words[t + 2], stream.words[t + 3]>> /\ e = t + 4
  BY <1>1, <1>2, KindIs
<1>4. PairFits(stream, p)
  BY <1>1, <1>3 DEF PairFits
<1> HIDE DEF e, t, p, size
<1>5. Fits(ValueAt, 2) <=> e - 1 <= size
  BY <1>1, <1>3 DEF Fits, size
<1>6. CASE e - 1 <= size
  <2>1. x = <<Word(t + 2), Word(t + 3)>>
    BY <1>1, <1>5, <1>6 DEF IntegerWord
  <2>2. t + 2 \in t .. e - 1 /\ t + 3 \in t .. e - 1 /\ t + 2 <= size /\ t + 3 <= size
    BY <1>1, <1>3, <1>6
  <2>3. x = p.value
    BY <1>1, <1>3, <2>1, <2>2
  <2> QED
    BY <1>1, <1>3, <1>4, <1>6, <2>3 DEF LeafRead, p
<1>7. CASE ~ (e - 1 <= size)
  <2>1. x = <<0, 0>>
    BY <1>5, <1>7 DEF IntegerWord
  <2> QED
    BY <1>1, <1>3, <1>7, <2>1 DEF LeafRead, p
<1> QED
  BY <1>6, <1>7

\* DATA_TYPE_STRING: a string is read whole or refused (nvlist.rs:225-227).
LEMMA StringIsRead ==
  ASSUME NvTypes, Named, NEW l, NEW i, Facing(l, i), Word(TypeAt) = Str
  PROVE  /\ StringError(ValueAt) = "none" =>
              LeafRead(stream, l, i, <<"str", Span(ValueAt + 1, Word(ValueAt))>>)
         /\ StringError(ValueAt) # "none" =>
              \/ Len(stream.data) < Len(stream.words)
              \/ StringError(ValueAt) = "bomb" /\ ~ PairFits(stream, PairOf(stream, l, i))
<1> DEFINE e == Place(stream, l, i + 1)
           t == TypePlace(stream, l, i)
           p == PairOf(stream, l, i)
           m == Len(p.value)
           size == Len(stream.data)
<1>1. /\ TypeAt = t /\ ValueAt = t + 2 /\ stream \in Streams
      /\ l \in DOMAIN stream.lists /\ i \in 1 .. Count(stream, l)
      /\ t \in Nat \ {0} /\ e \in Nat \ {0} /\ size \in Nat /\ m \in Nat /\ t + 2 <= e
      /\ \A w \in t .. e - 1 : Word(w) = IF w <= size THEN stream.words[w] ELSE 0
      /\ Present(stream, l, i) <=> e - 1 <= size
      /\ Word(t) # 0 => Word(t) = stream.words[t]
      /\ Len(p.name) <= MaxLen /\ e < Len(stream.words) /\ Len(stream.words) \in Nat
  BY TypeIsRead
<1>2. stream.words[t] = Str
  BY <1>1 DEF Str
<1>3. /\ p.kind = "str" /\ stream.words[t + 2] = m /\ e = t + 3 + m
      /\ p.value = SubSeq(stream.words, t + 3, e - 1)
  BY <1>1, <1>2, KindIs
<1>4. PairFits(stream, p) <=> m <= MaxLen
  BY <1>1, <1>3 DEF PairFits
<1> HIDE DEF e, t, p, m, size
<1>5. Word(ValueAt) = IF t + 2 <= size THEN m ELSE 0
  <2>1. t + 2 \in t .. e - 1
    BY <1>1, <1>3
  <2>2. Word(t + 2) = IF t + 2 <= size THEN stream.words[t + 2] ELSE 0
    BY <1>1, <2>1
  <2> QED
    BY <1>1, <1>3, <2>2
<1>6. MaxLen \in Nat
  BY CapsAssumption
<1>7. ASSUME StringError(ValueAt) = "none"
      PROVE  LeafRead(stream, l, i, <<"str", Span(ValueAt + 1, Word(ValueAt))>>)
  <2>1. Word(ValueAt) <= MaxLen /\ Fits(ValueAt + 1, Word(ValueAt))
    BY <1>1, <1>5, <1>6, <1>7 DEF StringError
  <2>2. t + 2 <= size
    <3>1. CASE t + 2 > size
      <4>1. Fits(t + 3, 0)
        BY <1>1, <1>5, <2>1, <3>1
      <4> QED
        BY <1>1, <3>1, <4>1 DEF Fits, size
    <3> QED
      BY <1>1, <3>1
  <2>3. Word(ValueAt) = m /\ ValueAt + 1 = t + 3
    BY <1>1, <1>5, <2>2
  <2>4. e - 1 <= size
    BY <1>1, <1>3, <2>1, <2>3 DEF Fits, size
  <2>5. t + 3 \in Nat \ {0} /\ t <= t + 3 /\ t + 3 <= e /\ e - (t + 3) = m
    <3>1. t \in Nat \ {0} /\ m \in Nat /\ e = t + 3 + m
      BY <1>1, <1>3
    <3> QED
      BY <3>1
  <2>6. Span(t + 3, e - (t + 3)) = SubSeq(stream.words, t + 3, e - 1)
    BY <1>1, <2>4, <2>5, ValueSpan DEF e, t
  <2>7. Span(ValueAt + 1, Word(ValueAt)) = p.value
    BY <1>3, <2>3, <2>5, <2>6
  <2>8. PairFits(stream, p)
    BY <1>4, <2>1, <2>3
  <2> QED
    BY <1>1, <1>3, <2>4, <2>7, <2>8 DEF LeafRead, p
<1>8. ASSUME StringError(ValueAt) # "none", ~ (size < Len(stream.words))
      PROVE  StringError(ValueAt) = "bomb" /\ ~ PairFits(stream, p)
  <2>1. t + 2 <= size
    <3>1. e < Len(stream.words) /\ Len(stream.words) \in Nat /\ ~ (size < Len(stream.words))
      BY <1>1, <1>8
    <3>2. e = t + 3 + m /\ m \in Nat /\ t \in Nat /\ size \in Nat
      BY <1>1, <1>3
    <3> QED
      BY <3>1, <3>2
  <2>3. Word(ValueAt) = m
    BY <1>5, <2>1
  <2>2. Fits(ValueAt + 1, Word(ValueAt))
    <3>1. e < Len(stream.words) /\ Len(stream.words) \in Nat /\ ~ (size < Len(stream.words))
      BY <1>1, <1>8
    <3>2. e = t + 3 + m /\ m \in Nat /\ t \in Nat /\ size \in Nat /\ ValueAt = t + 2
      BY <1>1, <1>3
    <3>3. ValueAt + 1 + m - 1 <= size
      BY <3>1, <3>2
    <3> QED
      BY <2>3, <3>3 DEF Fits, size
  <2> QED
    BY <1>1, <1>4, <1>6, <1>8, <2>1, <2>2, <2>3 DEF StringError
<1> QED
  BY <1>7, <1>8 DEF size, p

\* DATA_TYPE_BYTE_ARRAY and DATA_TYPE_UINT8_ARRAY (nvlist.rs:232-252).
LEMMA BytesAreRead ==
  ASSUME NvTypes, Named, NEW l, NEW i, Facing(l, i), Word(TypeAt) \in ByteArrays
  PROVE  /\ Word(TypeAt + 1) \in 0 .. MaxLen =>
              LeafRead(stream, l, i, <<"bytes", ByteArray(Word(TypeAt + 1))>>)
         /\ Word(TypeAt + 1) < 0 \/ Word(TypeAt + 1) > MaxLen =>
              ~ PairFits(stream, PairOf(stream, l, i))
<1> DEFINE e == Place(stream, l, i + 1)
           t == TypePlace(stream, l, i)
           p == PairOf(stream, l, i)
           m == Len(p.value)
           size == Len(stream.data)
<1>1. /\ TypeAt = t /\ ValueAt = t + 2 /\ stream \in Streams
      /\ l \in DOMAIN stream.lists /\ i \in 1 .. Count(stream, l)
      /\ t \in Nat \ {0} /\ e \in Nat \ {0} /\ size \in Nat /\ m \in Nat /\ t + 2 <= e
      /\ \A w \in t .. e - 1 : Word(w) = IF w <= size THEN stream.words[w] ELSE 0
      /\ Present(stream, l, i) <=> e - 1 <= size
      /\ Word(t) # 0 => Word(t) = stream.words[t]
      /\ Len(p.name) <= MaxLen
  BY TypeIsRead
<1>2. stream.words[t] \in ByteArrays
  BY <1>1 DEF ByteArrays
<1>3. /\ p.kind = "bytes" /\ stream.words[t + 1] = m /\ e = t + 2 + m
      /\ p.value = SubSeq(stream.words, t + 2, e - 1)
  BY <1>1, <1>2, KindIs
<1>4. PairFits(stream, p) <=> m <= MaxLen
  BY <1>1, <1>3 DEF PairFits
<1> HIDE DEF e, t, p, m, size
<1>5. Word(TypeAt + 1) = IF t + 1 <= size THEN m ELSE 0
  <2>1. t + 1 \in t .. e - 1
    BY <1>1, <1>3
  <2>2. Word(t + 1) = IF t + 1 <= size THEN stream.words[t + 1] ELSE 0
    BY <1>1, <2>1
  <2> QED
    BY <1>1, <1>3, <2>2
<1>6. MaxLen \in Nat
  BY CapsAssumption
<1>7. ASSUME Word(TypeAt + 1) < 0 \/ Word(TypeAt + 1) > MaxLen
      PROVE  ~ PairFits(stream, p)
  BY <1>1, <1>4, <1>5, <1>6, <1>7
<1>8. ASSUME Word(TypeAt + 1) \in 0 .. MaxLen
      PROVE  LeafRead(stream, l, i, <<"bytes", ByteArray(Word(TypeAt + 1))>>)
  <2>1. CASE e - 1 <= size
    <3>1. Word(TypeAt + 1) = m
      BY <1>1, <1>3, <1>5, <2>1
    <3>2. Fits(ValueAt, m) /\ m <= MaxLen
      BY <1>1, <1>3, <1>8, <2>1, <3>1 DEF Fits, size
    <3>3. t + 2 \in Nat \ {0} /\ t <= t + 2 /\ t + 2 <= e /\ e - (t + 2) = m
      BY <1>1, <1>3
    <3>4. Span(t + 2, e - (t + 2)) = SubSeq(stream.words, t + 2, e - 1)
      BY <1>1, <2>1, <3>3, ValueSpan DEF e, t
    <3>5. ByteArray(Word(TypeAt + 1)) = p.value
      BY <1>1, <1>3, <3>1, <3>2, <3>3, <3>4 DEF ByteArray
    <3> QED
      BY <1>1, <1>3, <1>4, <2>1, <3>2, <3>5 DEF LeafRead, p
  <2>2. CASE ~ (e - 1 <= size)
    BY <1>1, <1>3, <2>2 DEF LeafRead, p
  <2> QED
    BY <2>1, <2>2
<1> QED
  BY <1>7, <1>8 DEF p

-----------------------------------------------------------------------------
(***************************************************************************)
(* The trail: each activation of parse_body is at a pair of a list that    *)
(* was written, with what is kept of the pairs before it; all but the      *)
(* innermost wait for the list in their pair.  Only the innermost may have *)
(* gone past the end of the data in the middle of a pair.  What the        *)
(* outermost has gathered is given by a function of the pair it is at, as  *)
(* damage before that pair may have changed it; start is the pair from     *)
(* which that function grows as what is kept does.                         *)
(***************************************************************************)
Gone(d, w) == w > Len(d.data)

Expected(d, k, l, i, gathered) == IF k = 1 THEN gathered[i] ELSE KeptAt(d, l, i)

\* A nested list as far as the data goes.
Shallow(d, l, pairs) ==
  \/ \E j \in 1 .. Count(d, l) + 1 : pairs = KeptAt(d, l, j)
  \/ \E j \in 1 .. Count(d, l) : \E y :
       /\ pairs = Append(KeptAt(d, l, j), <<PairOf(d, l, j).name, <<PairOf(d, l, j).kind, y>> >>)
       /\ PairOf(d, l, j).kind # "other"
       /\ PairOf(d, l, j).kind = "u64" => y = <<0, 0>>

\* What a pair that is cut may be taken for.
Torn(d, l, i, x) ==
  /\ PairOf(d, l, i).kind # "other"
  /\ PairOf(d, l, i).kind = "u64" => x = <<0, 0>>
  /\ PairOf(d, l, i).kind = "list" => Shallow(d, PairOf(d, l, i).list, x)

\* What a list that ends within pair i gives: the pairs before it, and perhaps
\* that one torn.
FrontRead(d, l, i, kept, pairs) ==
  \/ pairs = kept
  \/ \E x : /\ pairs = Append(kept, <<PairOf(d, l, i).name, <<PairOf(d, l, i).kind, x>> >>)
            /\ Torn(d, l, i, x)

On(d, k, l, i, start) ==
  /\ l \in DOMAIN d.lists /\ i \in 1 .. Count(d, l) + 1 /\ d.lists[l].depth = k - 1
  /\ d.lists[1].fits => d.lists[l].fits
  /\ i > 1 => Place(d, l, i) - 1 <= Len(d.data)
  /\ \A j \in 1 .. i - 1 : (k = 1 => j >= start) => PairFits(d, PairOf(d, l, j))
  /\ k = 1 => l = 1 /\ i >= start
  /\ k # 1 => ListClean(d, l)

Here(d, f, l, i, kept) ==
  f.at = Place(d, l, i) /\ f.pairs = kept /\ f.seen = i - 1 /\ (f.over => Gone(d, f.at))

Broken(d, f, l, i, kept) ==
  i # Count(d, l) + 1 /\ Gone(d, f.at) /\ ~ Present(d, l, i) /\ FrontRead(d, l, i, kept, f.pairs)

Waits(d, f, l, i, kept, c) ==
  /\ i # Count(d, l) + 1 /\ PairOf(d, l, i).kind = "list" /\ PairOf(d, l, i).list = c
  /\ f.name = PairOf(d, l, i).name /\ f.end = Place(d, l, i + 1)
  /\ f.seen = i - 1 /\ f.pairs = kept /\ Len(f.name) <= MaxLen

AtTop(d, f, l, i, kept) == Here(d, f, l, i, kept) \/ Broken(d, f, l, i, kept)

Trail(d, s, ls, is, gathered, start) ==
  /\ \A k \in 1 .. Len(s) : On(d, k, ls[k], is[k], start)
  /\ \A k \in 1 .. Len(s) - 1 :
       Waits(d, s[k], ls[k], is[k], Expected(d, k, ls[k], is[k], gathered), ls[k + 1])
  /\ LET k == Len(s) IN AtTop(d, s[k], ls[k], is[k], Expected(d, k, ls[k], is[k], gathered))

Growing(d, gathered, start) ==
  \A i \in 1 .. Count(d, 1) :
    i >= start => gathered[i + 1] = Grown(d, gathered[i], PairOf(d, 1, i))

LEMMA PlacesGrow ==
  ASSUME NEW d \in Streams, NEW l \in DOMAIN d.lists,
         NEW i \in 1 .. Count(d, l) + 1, NEW j \in i .. Count(d, l) + 1
  PROVE  /\ Place(d, l, i) <= Place(d, l, j)
         /\ Place(d, l, i) \in Nat \ {0} /\ Place(d, l, j) \in Nat \ {0}
         /\ Len(d.data) \in Nat /\ Len(d.words) \in Nat
         /\ Place(d, l, j) < Len(d.words)
<1> DEFINE n == Count(d, l)
<1>1. n \in Nat /\ i \in 1 .. n + 1 /\ j \in 1 .. n + 1 /\ (i = j \/ i < j) /\ (j = n + 1 \/ j < n + 1)
      /\ n + 1 \in 1 .. n + 1
  <2>1. n \in Nat /\ i \in 1 .. n + 1 /\ j \in i .. n + 1
    BY ListIs
  <2> HIDE DEF n
  <2> QED
    BY <2>1
<1>2. Place(d, l, i) \in Nat \ {0} /\ Place(d, l, j) \in Nat \ {0} /\ Place(d, l, n + 1) \in Nat \ {0}
  BY <1>1, ListIs
<1>3. Len(d.data) \in Nat /\ Len(d.words) \in Nat
  BY StreamsAssumption DEF Written
<1>4. (i < j => Place(d, l, i) < Place(d, l, j)) /\ (j < n + 1 => Place(d, l, j) < Place(d, l, n + 1))
  BY <1>1, ListIs
<1>5. Place(d, l, n + 1) < Len(d.words)
  BY ListIs
<1> QED
  BY <1>1, <1>2, <1>3, <1>4, <1>5

\* What is cut stays cut further on.
LEMMA CutFromThere ==
  ASSUME NEW d \in Streams, NEW l \in DOMAIN d.lists, NEW i \in 1 .. Count(d, l),
         ~ Present(d, l, i)
  PROVE  /\ \A j \in i .. Count(d, l) : ~ Present(d, l, j)
         /\ Gone(d, Place(d, l, Count(d, l) + 1)) /\ Gone(d, Place(d, l, i + 1))
         /\ Len(d.data) < Len(d.words)
<1>1. Count(d, l) \in Nat /\ i + 1 \in 1 .. Count(d, l) + 1
      /\ Count(d, l) + 1 \in i + 1 .. Count(d, l) + 1
  BY ListIs
<1>2. ASSUME NEW j \in i .. Count(d, l) PROVE ~ Present(d, l, j)
  <2>1. j + 1 \in i + 1 .. Count(d, l) + 1
    BY <1>1
  <2>2. /\ Place(d, l, i + 1) <= Place(d, l, j + 1) /\ Place(d, l, i + 1) \in Nat
        /\ Place(d, l, j + 1) \in Nat /\ Len(d.data) \in Nat
    BY <1>1, <2>1, PlacesGrow
  <2> QED
    BY <2>2 DEF Present
<1>3. /\ Place(d, l, i + 1) <= Place(d, l, Count(d, l) + 1)
      /\ Place(d, l, i + 1) \in Nat /\ Place(d, l, Count(d, l) + 1) \in Nat
      /\ Len(d.data) \in Nat /\ Len(d.words) \in Nat
      /\ Place(d, l, Count(d, l) + 1) < Len(d.words)
  BY <1>1, PlacesGrow
<1> QED
  BY <1>2, <1>3 DEF Present, Gone

\* The innermost activation, or after it its caller, goes on at a pair.
LEMMA TrailMoves ==
  ASSUME NEW d, NEW s, NEW ls, NEW is, NEW gathered, NEW start,
         Trail(d, s, ls, is, gathered, start), Len(s) \in Nat,
         NEW m \in 1 .. Len(s), NEW r, Len(r) = m, \A k \in 1 .. m - 1 : r[k] = s[k], NEW i,
         On(d, m, ls[m], i, start),
         AtTop(d, r[m], ls[m], i, Expected(d, m, ls[m], i, gathered))
  PROVE  \E js : /\ Trail(d, r, ls, js, gathered, start)
                 /\ js[1] = IF m = 1 THEN i ELSE is[1]
<1> DEFINE js == [k \in 1 .. m |-> IF k = m THEN i ELSE is[k]]
<1>1. /\ m \in 1 .. m /\ 1 \in 1 .. m
      /\ \A k \in 1 .. m : js[k] = IF k = m THEN i ELSE is[k]
      /\ \A k \in 1 .. m - 1 : k \in 1 .. m /\ k # m /\ k \in 1 .. Len(s) /\ k \in 1 .. Len(s) - 1
      /\ \A k \in 1 .. m : k = m \/ k \in 1 .. m - 1
  OBVIOUS
<1> HIDE DEF js
<1>2. \A k \in 1 .. Len(r) : On(d, k, ls[k], js[k], start)
  BY <1>1 DEF Trail
<1>3. \A k \in 1 .. Len(r) - 1 :
        Waits(d, r[k], ls[k], js[k], Expected(d, k, ls[k], js[k], gathered), ls[k + 1])
  BY <1>1 DEF Trail
<1>4. LET k == Len(r) IN AtTop(d, r[k], ls[k], js[k], Expected(d, k, ls[k], js[k], gathered))
  BY <1>1
<1>5. Trail(d, r, ls, js, gathered, start)
  BY <1>2, <1>3, <1>4 DEF Trail
<1>6. js[1] = IF m = 1 THEN i ELSE is[1]
  BY <1>1
<1> QED
  BY <1>5, <1>6

\* The innermost activation calls parse_body for a nested list.
LEMMA TrailDeepens ==
  ASSUME NEW d, NEW s, NEW ls, NEW is, NEW gathered, NEW start,
         Trail(d, s, ls, is, gathered, start), Len(s) \in Nat \ {0},
         NEW r, Len(r) = Len(s) + 1, \A k \in 1 .. Len(s) - 1 : r[k] = s[k], NEW c,
         Waits(d, r[Len(s)], ls[Len(s)], is[Len(s)],
               Expected(d, Len(s), ls[Len(s)], is[Len(s)], gathered), c),
         On(d, Len(s) + 1, c, 1, start),
         AtTop(d, r[Len(s) + 1], c, 1, KeptAt(d, c, 1))
  PROVE  \E ms, js : Trail(d, r, ms, js, gathered, start) /\ js[1] = is[1]
<1> DEFINE n == Len(s)
           ms == [k \in 1 .. n + 1 |-> IF k = n + 1 THEN c ELSE ls[k]]
           js == [k \in 1 .. n + 1 |-> IF k = n + 1 THEN 1 ELSE is[k]]
<1>1. n \in Nat \ {0}
  OBVIOUS
<1> HIDE DEF n
<1>2. /\ \A k \in 1 .. n : /\ ms[k] = ls[k] /\ js[k] = is[k]
      /\ ms[n + 1] = c /\ js[n + 1] = 1 /\ 1 \in 1 .. n
      /\ \A k \in 1 .. n + 1 : k = n + 1 \/ k \in 1 .. n
      /\ \A k \in 1 .. n : k = n \/ (k \in 1 .. n - 1 /\ k + 1 \in 1 .. n)
      /\ n + 1 - 1 = n /\ n \in 1 .. n
  BY <1>1
<1> HIDE DEF ms, js
<1>3. /\ \A k \in 1 .. n : On(d, k, ls[k], is[k], start)
      /\ \A k \in 1 .. n - 1 :
           Waits(d, s[k], ls[k], is[k], Expected(d, k, ls[k], is[k], gathered), ls[k + 1])
  BY DEF Trail, n
<1>4. /\ Len(r) = n + 1 /\ \A k \in 1 .. n - 1 : r[k] = s[k]
      /\ Waits(d, r[n], ls[n], is[n], Expected(d, n, ls[n], is[n], gathered), c)
      /\ On(d, n + 1, c, 1, start) /\ AtTop(d, r[n + 1], c, 1, KeptAt(d, c, 1))
  BY DEF n
<1>5. \A k \in 1 .. n + 1 : On(d, k, ms[k], js[k], start)
  BY <1>2, <1>3, <1>4
<1>6. ASSUME NEW k \in 1 .. n
      PROVE  Waits(d, r[k], ms[k], js[k], Expected(d, k, ms[k], js[k], gathered), ms[k + 1])
  <2>1. CASE k = n
    BY <1>2, <1>4, <2>1
  <2>2. CASE k \in 1 .. n - 1
    <3>1. ms[k + 1] = ls[k + 1] /\ ms[k] = ls[k] /\ js[k] = is[k] /\ r[k] = s[k]
      <4>1. k + 1 \in 1 .. n
        BY <1>1, <2>2
      <4> QED
        BY <1>2, <1>4, <2>2, <4>1
    <3>2. Waits(d, s[k], ls[k], is[k], Expected(d, k, ls[k], is[k], gathered), ls[k + 1])
      BY <1>3, <2>2
    <3> QED
      BY <3>1, <3>2, Zenon
  <2> QED
    BY <1>2, <2>1, <2>2
<1>7. AtTop(d, r[n + 1], ms[n + 1], js[n + 1], Expected(d, n + 1, ms[n + 1], js[n + 1], gathered))
  <2>1. n + 1 # 1
    BY <1>1
  <2> QED
    BY <1>2, <1>4, <2>1 DEF Expected
<1>8. Trail(d, r, ms, js, gathered, start)
  BY <1>2, <1>4, <1>5, <1>6, <1>7 DEF Trail
<1> QED
  BY <1>2, <1>8

\* A pair has been looked at: if it was all there, what is kept has grown by it;
\* if not, the rest is gone.
LEMMA PairDone ==
  ASSUME NEW d \in Streams, NEW k, NEW l, NEW i, NEW start \in Nat, NEW gathered, NEW g,
         On(d, k, l, i, start), i # Count(d, l) + 1, Growing(d, gathered, start),
         g.at = Place(d, l, i + 1), g.seen = i, g.over => Gone(d, g.at),
         Present(d, l, i) =>
           /\ PairFits(d, PairOf(d, l, i))
           /\ g.pairs = Grown(d, Expected(d, k, l, i, gathered), PairOf(d, l, i)),
         ~ Present(d, l, i) => FrontRead(d, l, i, Expected(d, k, l, i, gathered), g.pairs)
  PROVE  \E j \in {i, i + 1} :
           On(d, k, l, j, start) /\ AtTop(d, g, l, j, Expected(d, k, l, j, gathered))
<1>1. l \in DOMAIN d.lists /\ i \in 1 .. Count(d, l) /\ Count(d, l) \in Nat /\ (k = 1 => l = 1 /\ i >= start)
  <2>1. l \in DOMAIN d.lists /\ i \in 1 .. Count(d, l) + 1 /\ (k = 1 => l = 1 /\ i >= start)
    BY DEF On
  <2> QED
    BY <2>1, ListIs
<1>2. CASE Present(d, l, i)
  <2>1. Expected(d, k, l, i + 1, gathered) = Grown(d, Expected(d, k, l, i, gathered), PairOf(d, l, i))
    <3>1. CASE k = 1
      BY <1>1, <3>1 DEF Expected, Growing
    <3>2. CASE k # 1
      BY <1>1, <3>2, ListIs DEF Expected
    <3> QED
      BY <3>1, <3>2
  <2>2. Here(d, g, l, i + 1, Expected(d, k, l, i + 1, gathered))
    BY <1>1, <1>2, <2>1 DEF Here
  <2>3. On(d, k, l, i + 1, start)
    <3>1. \A j \in 1 .. i + 1 - 1 : (k = 1 => j >= start) => PairFits(d, PairOf(d, l, j))
      <4>1. \A j \in 1 .. i + 1 - 1 : j = i \/ j \in 1 .. i - 1
        BY <1>1
      <4> QED
        BY <1>2, <4>1 DEF On
    <3>2. i + 1 \in 1 .. Count(d, l) + 1 /\ (i + 1 > 1 => Place(d, l, i + 1) - 1 <= Len(d.data))
      BY <1>1, <1>2 DEF Present
    <3>3. k = 1 => i + 1 >= start
      BY <1>1
    <3> QED
      BY <3>1, <3>2, <3>3 DEF On
  <2> QED
    BY <2>2, <2>3 DEF AtTop
<1>3. CASE ~ Present(d, l, i)
  <2>1. Gone(d, g.at)
    BY <1>1, <1>3, CutFromThere
  <2>2. Broken(d, g, l, i, Expected(d, k, l, i, gathered))
    BY <1>3, <2>1 DEF Broken
  <2> QED
    BY <2>2 DEF AtTop
<1> QED
  BY <1>2, <1>3

\* What the decoder can see of the trail's innermost activation.
TopTrail(k, l, i, kept, start) ==
  /\ On(stream, k, l, i, start) /\ AtTop(stream, Top, l, i, kept) /\ PairClean(stream, l, i)

\* A pair at the top of the loop is where the trail says.
LEMMA AtPairIs ==
  ASSUME NvTypes, AtPair, NEW k, NEW l, NEW i, NEW kept, NEW start, TopTrail(k, l, i, kept, start)
  PROVE  Facing(l, i) /\ Here(stream, Top, l, i, kept) /\ i # Count(stream, l) + 1
<1>1. stream \in Streams /\ l \in DOMAIN stream.lists /\ i \in 1 .. Count(stream, l) + 1
  BY DEF NvTypes, TopTrail, On
<1>2. Word(Top.at) > 0
  BY DEF AtPair
<1>3. ~ Gone(stream, Top.at)
  <2>1. Top.at \in Nat /\ Len(stream.data) \in Nat
    BY <1>1, TopIs, DataIs DEF AtPair, Looping, IsFrame
  <2> QED
    BY <1>2, <2>1 DEF Gone, Word
<1>4. Here(stream, Top, l, i, kept)
  BY <1>3 DEF TopTrail, AtTop, Broken
<1>5. i # Count(stream, l) + 1
  <2>1. CASE i = Count(stream, l) + 1
    <3>1. Place(stream, l, i) \in Nat \ {0} /\ stream.words[Place(stream, l, i)] = 0
      BY <1>1, <2>1, ListIs
    <3>2. Clean(stream, Place(stream, l, i))
      BY <2>1, <3>1 DEF TopTrail, PairClean
    <3>3. Word(Place(stream, l, i)) = 0
      BY <1>1, <3>1, <3>2, ReadIs
    <3> QED
      BY <1>2, <1>4, <3>3 DEF Here
  <2> QED
    BY <2>1
<1>6. i \in 1 .. Count(stream, l)
  BY <1>1, <1>5, ListIs
<1> QED
  BY <1>1, <1>4, <1>5, <1>6 DEF Facing, Here, TopTrail

\* A list ends (nvlist.rs:196-212): it has been read to its terminator, or the
\* rest of it is gone.
LEMMA ListEnds ==
  ASSUME NvTypes, EndList, NEW k, NEW l, NEW i, NEW kept, NEW start, TopTrail(k, l, i, kept, start)
  PROVE  /\ \A j \in i .. Count(stream, l) : ~ Present(stream, l, j)
         /\ \/ Top.pairs = kept
            \/ i # Count(stream, l) + 1 /\ FrontRead(stream, l, i, kept, Top.pairs)
         /\ ~ Gone(stream, Place(stream, l, Count(stream, l) + 1)) =>
              i = Count(stream, l) + 1 /\ Top.pairs = kept /\ Count(stream, l) < MaxPairs
<1> DEFINE n == Count(stream, l)
<1>1. stream \in Streams /\ l \in DOMAIN stream.lists /\ i \in 1 .. n + 1
  BY DEF NvTypes, TopTrail, On
<1>2. n \in Nat
  BY <1>1, ListIs
<1>3. CASE Broken(stream, Top, l, i, kept)
  <2>1. i \in 1 .. n /\ ~ Present(stream, l, i)
    BY <1>1, <1>2, <1>3 DEF Broken
  <2> QED
    BY <1>1, <1>3, <2>1, CutFromThere DEF Broken
<1>4. CASE Here(stream, Top, l, i, kept) /\ i = n + 1
  <2>1. \A j \in i .. n : FALSE
    BY <1>2, <1>4
  <2>2. ASSUME ~ Gone(stream, Place(stream, l, n + 1)) PROVE n < MaxPairs
    <3>1. Looping
      BY <1>4, <2>2 DEF EndList, Here
    <3> QED
      BY <1>2, <1>4, <3>1 DEF Looping, Here
  <2> QED
    BY <1>4, <2>1, <2>2 DEF Here
<1>5. CASE Here(stream, Top, l, i, kept) /\ i # n + 1
  <2>1. i \in 1 .. n /\ Facing(l, i)
    BY <1>1, <1>2, <1>5 DEF Facing, Here, TopTrail
  <2> DEFINE a == Place(stream, l, i)
             e == Place(stream, l, i + 1)
             size == Len(stream.data)
             t == TypePlace(stream, l, i)
  <2>2. /\ a \in Nat \ {0} /\ e \in Nat \ {0} /\ size \in Nat /\ t \in Nat /\ t + 2 <= e
        /\ t = a + 3 + Len(PairOf(stream, l, i).name) /\ Len(PairOf(stream, l, i).name) \in Nat
        /\ Word(a) = IF a <= size THEN e - a ELSE 0
    BY <2>1, FacingIs
  <2>3. a < e
    <3> DEFINE m == Len(PairOf(stream, l, i).name)
    <3>1. a \in Nat /\ e \in Nat /\ t \in Nat /\ m \in Nat /\ t + 2 <= e /\ t = a + 3 + m
      BY <2>2
    <3> HIDE DEF m, a, e, t
    <3> QED
      BY <3>1
  <2>4. Gone(stream, a)
    <3>1. CASE Top.over
      BY <1>5, <3>1 DEF Here
    <3>2. CASE Word(Top.at) = 0
      <4>1. Word(a) = 0
        BY <1>5, <3>2 DEF Here
      <4> QED
        BY <2>2, <2>3, <4>1 DEF Gone
    <3> QED
      BY <3>1, <3>2 DEF EndList
  <2>5. ~ Present(stream, l, i)
    BY <2>2, <2>3, <2>4 DEF Present, Gone
  <2> QED
    BY <1>1, <1>5, <2>1, <2>5, CutFromThere DEF Here
<1> QED
  BY <1>3, <1>4, <1>5 DEF TopTrail, AtTop

-----------------------------------------------------------------------------
(***************************************************************************)
(* A step of the decoder, one lemma per action, from a trail whose         *)
(* outermost pair is as it was written.                                    *)
(***************************************************************************)
OnTrail(ls, is, gathered, start) ==
  /\ NvTypes /\ stack # <<>> /\ Trail(stream, stack, ls, is, gathered, start)
  /\ start \in Nat /\ Growing(stream, gathered, start) /\ PairClean(stream, 1, is[1])

\* The trail goes on: the outermost activation is at the same pair, or it is
\* alone and at the next.
Further(d, s, i, gathered, start) ==
  \E ls, is : /\ Trail(d, s, ls, is, gathered, start)
              /\ is[1] = i \/ (is[1] = i + 1 /\ Len(s) = 1)

LEMMA TrailTop ==
  ASSUME NEW ls, NEW is, NEW gathered, NEW start, OnTrail(ls, is, gathered, start)
  PROVE  LET k == Len(stack) IN
         /\ k \in Nat \ {0} /\ stream \in Streams /\ IsFrame(Top) /\ k <= MaxDepth + 1
         /\ TopTrail(k, ls[k], is[k], Expected(stream, k, ls[k], is[k], gathered), start)
<1> DEFINE k == Len(stack)
<1>1. k \in Nat \ {0} /\ k \in 1 .. k /\ IsFrame(Top) /\ stream \in Streams /\ k <= MaxDepth + 1
  BY TopIs DEF OnTrail, NvTypes
<1>2. /\ On(stream, k, ls[k], is[k], start)
      /\ AtTop(stream, Top, ls[k], is[k], Expected(stream, k, ls[k], is[k], gathered))
  BY <1>1 DEF OnTrail, Trail, Top
<1>3. PairClean(stream, ls[k], is[k])
  <2>1. CASE k = 1
    BY <1>2, <2>1 DEF On, OnTrail
  <2>2. CASE k # 1
    BY <1>2, <2>2 DEF On, ListClean
  <2> QED
    BY <2>1, <2>2
<1> QED
  BY <1>1, <1>2, <1>3 DEF TopTrail

\* The innermost activation has looked at its pair.
LEMMA GoesOn ==
  ASSUME NEW ls, NEW is, NEW gathered, NEW start, OnTrail(ls, is, gathered, start),
         NEW m \in 1 .. Len(stack), NEW s, Len(s) = m, \A k \in 1 .. m - 1 : s[k] = stack[k],
         NEW g, s[m] = g, NEW l, l = ls[m], NEW i, i = is[m],
         i # Count(stream, l) + 1,
         g.at = Place(stream, l, i + 1), g.seen = i, g.over => Gone(stream, g.at),
         Present(stream, l, i) =>
           /\ PairFits(stream, PairOf(stream, l, i))
           /\ g.pairs = Grown(stream, Expected(stream, m, l, i, gathered), PairOf(stream, l, i)),
         ~ Present(stream, l, i) =>
           FrontRead(stream, l, i, Expected(stream, m, l, i, gathered), g.pairs)
  PROVE  Further(stream, s, is[1], gathered, start)
<1>1. /\ Len(stack) \in Nat \ {0} /\ stream \in Streams /\ start \in Nat
      /\ Growing(stream, gathered, start) /\ Trail(stream, stack, ls, is, gathered, start)
  BY TrailTop DEF OnTrail
<1>2. On(stream, m, l, i, start)
  BY <1>1 DEF Trail
<1>3. PICK j \in {i, i + 1} :
        /\ On(stream, m, l, j, start)
        /\ AtTop(stream, g, l, j, Expected(stream, m, l, j, gathered))
  BY <1>1, <1>2, PairDone
<1>4. PICK js : /\ Trail(stream, s, ls, js, gathered, start)
                /\ js[1] = IF m = 1 THEN j ELSE is[1]
  <2>1. /\ On(stream, m, ls[m], j, start)
        /\ AtTop(stream, s[m], ls[m], j, Expected(stream, m, ls[m], j, gathered))
    BY <1>3
  <2>2. Len(stack) \in Nat /\ Trail(stream, stack, ls, is, gathered, start)
    BY <1>1
  <2>3. \A r, h : /\ Len(r) = m /\ \A k \in 1 .. m - 1 : r[k] = stack[k]
                  /\ On(stream, m, ls[m], h, start)
                  /\ AtTop(stream, r[m], ls[m], h, Expected(stream, m, ls[m], h, gathered))
                  => \E js : /\ Trail(stream, r, ls, js, gathered, start)
                             /\ js[1] = IF m = 1 THEN h ELSE is[1]
    BY <2>2, TrailMoves
  <2> QED
    BY <2>1, <2>3
<1>5. js[1] = is[1] \/ (js[1] = is[1] + 1 /\ Len(s) = 1)
  BY <1>3, <1>4
<1> QED
  BY <1>4, <1>5 DEF Further

LEMMA LeafGoesOn ==
  ASSUME NEW ls, NEW is, NEW gathered, NEW start, OnTrail(ls, is, gathered, start),
         Named, NEW value, Leaf(value),
         LeafRead(stream, ls[Len(stack)], is[Len(stack)], value)
  PROVE  Further(stream, stack', is[1], gathered, start)
<1> DEFINE m == Len(stack)
           l == ls[m]
           i == is[m]
           kept == Expected(stream, m, l, i, gathered)
           p == PairOf(stream, l, i)
           g == Push(Top, Name, value, End)
<1>1. /\ m \in Nat \ {0} /\ stream \in Streams /\ IsFrame(Top) /\ TopTrail(m, l, i, kept, start)
      /\ m \in 1 .. Len(stack) /\ NvTypes /\ stack # <<>>
  BY TrailTop DEF OnTrail
<1>2. Facing(l, i) /\ Here(stream, Top, l, i, kept) /\ i # Count(stream, l) + 1
  BY <1>1, AtPairIs DEF Named
<1>3. End = Place(stream, l, i + 1) /\ Name = p.name /\ i \in Nat
  BY <1>1, <1>2, NameIsRead DEF Facing
<1>4. End \in Nat \ {0} /\ Top.seen < MaxPairs
  BY <1>1, PlacesAre
<1>5. /\ g.at = End /\ g.seen = Top.seen + 1 /\ (g.over <=> Past(End))
      /\ g.pairs = Append(Top.pairs, <<Name, value>>)
  BY <1>1, <1>4, PushIs
<1>6. stack' = Replace(g)
  BY DEF Leaf
<1> HIDE DEF g
<1>7. Len(stack') = m /\ stack'[m] = g /\ \A k \in 1 .. m - 1 : stack'[k] = stack[k]
  BY <1>1, <1>6, ReplaceIs
<1>8. LeafRead(stream, l, i, value)
  OBVIOUS
<1> HIDE DEF l, i, kept, p
<1>9. g.seen = i /\ g.at = Place(stream, l, i + 1) /\ (g.over => Gone(stream, g.at))
  BY <1>2, <1>3, <1>5 DEF Here, Past, Gone
<1>10. g.pairs = Append(kept, <<p.name, value>>)
  BY <1>2, <1>3, <1>5 DEF Here
<1>11. PICK x : /\ value = <<p.kind, x>> /\ p.kind \notin {"list", "other"}
                /\ Present(stream, l, i) => x = p.value /\ PairFits(stream, p)
                /\ ~ Present(stream, l, i) /\ p.kind = "u64" => x = <<0, 0>>
  BY <1>8 DEF LeafRead, p
<1>12. Present(stream, l, i) => PairFits(stream, p) /\ g.pairs = Grown(stream, kept, p)
  BY <1>10, <1>11 DEF Grown, Meaning
<1>13. ~ Present(stream, l, i) => FrontRead(stream, l, i, kept, g.pairs)
  BY <1>10, <1>11 DEF FrontRead, Torn, p
<1> QED
  BY <1>1, <1>2, <1>7, <1>9, <1>12, <1>13, GoesOn DEF l, i, kept, p

\* A pair of an unknown type, or one whose type is gone, is stepped over
\* (nvlist.rs:253-259).
LEMMA SkipGoesOn ==
  ASSUME NEW ls, NEW is, NEW gathered, NEW start, OnTrail(ls, is, gathered, start), SkipPair
  PROVE  Further(stream, stack', is[1], gathered, start)
<1> DEFINE m == Len(stack)
           l == ls[m]
           i == is[m]
           kept == Expected(stream, m, l, i, gathered)
           p == PairOf(stream, l, i)
           g == [Top EXCEPT !.at = End, !.seen = @ + 1]
<1>1. /\ m \in Nat \ {0} /\ stream \in Streams /\ IsFrame(Top) /\ TopTrail(m, l, i, kept, start)
      /\ m \in 1 .. Len(stack) /\ NvTypes /\ stack # <<>>
  BY TrailTop DEF OnTrail
<1>n. Named /\ ~ Top.over
  BY DEF SkipPair, Named, AtPair, Looping
<1>2. Facing(l, i) /\ Here(stream, Top, l, i, kept) /\ i # Count(stream, l) + 1
  BY <1>1, <1>n, AtPairIs DEF Named
<1>3. /\ End = Place(stream, l, i + 1) /\ TypeAt = TypePlace(stream, l, i)
      /\ Present(stream, l, i) => Word(TypeAt) = stream.words[TypePlace(stream, l, i)]
      /\ Len(p.name) <= MaxLen /\ l \in DOMAIN stream.lists /\ i \in 1 .. Count(stream, l)
  BY <1>1, <1>2, <1>n, TypeIsRead
<1>4. End \in Nat \ {0} /\ Top.seen < MaxPairs
  BY <1>1, <1>n, PlacesAre
<1>5. g.at = End /\ g.seen = Top.seen + 1 /\ g.over = Top.over /\ g.pairs = Top.pairs
  BY <1>1, <1>4, SkipIs
<1>6. stack' = Replace(g)
  BY DEF SkipPair
<1> HIDE DEF g
<1>7. Len(stack') = m /\ stack'[m] = g /\ \A k \in 1 .. m - 1 : stack'[k] = stack[k]
  BY <1>1, <1>6, ReplaceIs
<1>8. Present(stream, l, i) => p.kind = "other"
  BY <1>1, <1>3, KindIs DEF SkipPair
<1> HIDE DEF l, i, kept, p
<1>9. g.seen = i /\ g.at = Place(stream, l, i + 1) /\ (g.over => Gone(stream, g.at))
  BY <1>2, <1>3, <1>5, <1>n DEF Here
<1>10. g.pairs = kept
  BY <1>2, <1>5 DEF Here
<1>12. Present(stream, l, i) => PairFits(stream, p) /\ g.pairs = Grown(stream, kept, p)
  BY <1>3, <1>8, <1>10 DEF Grown, PairFits
<1>13. FrontRead(stream, l, i, kept, g.pairs)
  BY <1>10 DEF FrontRead
<1> QED
  BY <1>1, <1>2, <1>7, <1>9, <1>12, <1>13, GoesOn DEF l, i, kept, p

\* All words of a list in a pair that is as written are as written.
LEMMA ChildIsClean ==
  ASSUME NEW d \in Streams, NEW l \in DOMAIN d.lists, NEW i \in 1 .. Count(d, l),
         PairOf(d, l, i).kind = "list", PairClean(d, l, i)
  PROVE  ListClean(d, PairOf(d, l, i).list)
<1> DEFINE c == PairOf(d, l, i).list
           n == Count(d, c)
           a == Place(d, l, i)
           e == Place(d, l, i + 1)
           t == TypePlace(d, l, i)
<1>1. /\ c \in DOMAIN d.lists /\ Place(d, c, 1) = t + 4 /\ Place(d, c, n + 1) + 2 = e
      /\ n \in Nat
  BY ChildIs
<1>2. a \in Nat /\ e \in Nat /\ t \in Nat /\ a <= t
  <2> DEFINE m == Len(PairOf(d, l, i).name)
  <2>1. a \in Nat /\ e \in Nat /\ t \in Nat /\ t = a + 3 + m /\ m \in Nat
    BY PairIs
  <2> HIDE DEF m, a, e, t
  <2> QED
    BY <2>1
<1>3. i # Count(d, l) + 1
  BY ListIs
<1>4. \A w \in a .. e - 1 : Clean(d, w)
  BY <1>3 DEF PairClean
<1> HIDE DEF a, e, t, c
<1>5. ASSUME NEW j \in 1 .. n + 1 PROVE PairClean(d, c, j)
  <2>1. /\ 1 \in 1 .. Count(d, c) + 1 /\ j \in 1 .. Count(d, c) + 1
        /\ j \in 1 .. Count(d, c) + 1 /\ n + 1 \in j .. Count(d, c) + 1
        /\ (j # n + 1 => j + 1 \in 1 .. Count(d, c) + 1 /\ n + 1 \in j + 1 .. Count(d, c) + 1)
    BY <1>1
  <2>2. Place(d, c, 1) <= Place(d, c, j) /\ Place(d, c, j) \in Nat
    BY <1>1, <2>1, PlacesGrow
  <2>3. Place(d, c, j) <= Place(d, c, n + 1) /\ Place(d, c, n + 1) \in Nat
    BY <1>1, <2>1, PlacesGrow
  <2>4. j # n + 1 => Place(d, c, j + 1) <= Place(d, c, n + 1) /\ Place(d, c, j + 1) \in Nat
    BY <1>1, <2>1, PlacesGrow
  <2>5. ASSUME NEW w \in Place(d, c, j) ..
                 (IF j = Count(d, c) + 1 THEN Place(d, c, j) ELSE Place(d, c, j + 1) - 1)
        PROVE  w \in a .. e - 1
    BY <1>1, <1>2, <2>2, <2>3, <2>4
  <2> QED
    BY <1>4, <2>5 DEF PairClean
<1> QED
  BY <1>5 DEF ListClean, c

\* A nested list is entered or, too deep, refused (nvlist.rs:193, 228-231).
LEMMA EnterGoesOn ==
  ASSUME NEW ls, NEW is, NEW gathered, NEW start, OnTrail(ls, is, gathered, start), EnterList
  PROVE  \/ Fail("bomb") /\ ~ stream.lists[1].fits
         \/ UNCHANGED <<stream, out>> /\ Further(stream, stack', is[1], gathered, start)
<1> DEFINE m == Len(stack)
           l == ls[m]
           i == is[m]
           kept == Expected(stream, m, l, i, gathered)
           p == PairOf(stream, l, i)
           t == TypePlace(stream, l, i)
           c == p.list
<1>1. /\ m \in Nat \ {0} /\ stream \in Streams /\ IsFrame(Top) /\ TopTrail(m, l, i, kept, start)
      /\ m \in 1 .. Len(stack) /\ NvTypes /\ stack # <<>> /\ Trail(stream, stack, ls, is, gathered, start)
  BY TrailTop DEF OnTrail
<1>n. Named
  BY DEF EnterList
<1>2. Facing(l, i) /\ Here(stream, Top, l, i, kept) /\ i # Count(stream, l) + 1
  BY <1>1, <1>n, AtPairIs DEF Named
<1>3. /\ End = Place(stream, l, i + 1) /\ TypeAt = t /\ ValueAt = t + 2 /\ Name = p.name
      /\ Word(t) # 0 => Word(t) = stream.words[t]
      /\ Len(p.name) <= MaxLen /\ l \in DOMAIN stream.lists /\ i \in 1 .. Count(stream, l)
  BY <1>1, <1>2, <1>n, TypeIsRead
<1>4. stream.words[t] = List
  BY <1>3 DEF EnterList, List
<1>5. p.kind = "list"
  BY <1>1, <1>3, <1>4, KindIs
<1>6. c \in DOMAIN stream.lists /\ Place(stream, c, 1) = t + 4 /\ Count(stream, c) \in Nat
  BY <1>1, <1>3, <1>5, ChildIs
<1>7. On(stream, m, l, i, start) /\ PairClean(stream, l, i)
  BY <1>1 DEF TopTrail
<1>8. stream.lists[c].depth = m
  <2>1. stream.lists[l].depth = m - 1
    BY <1>7 DEF On
  <2>2. stream.lists[c].depth = stream.lists[l].depth + 1
    BY <1>1, <1>3, <1>5, ListFits
  <2> HIDE DEF m, l, c
  <2> QED
    BY <1>1, <2>1, <2>2
<1>9. stream.lists[1].fits => stream.lists[c].fits
  <2>1. stream.lists[1].fits => stream.lists[l].fits
    BY <1>7 DEF On
  <2>2. stream.lists[l].fits => PairFits(stream, p)
    BY <1>1, <1>3, ListFits
  <2>3. PairFits(stream, p) => stream.lists[c].fits
    BY <1>5 DEF PairFits
  <2> QED
    BY <2>1, <2>2, <2>3
<1>10. stream.lists[c].fits => stream.lists[c].depth <= MaxDepth
  BY <1>1, <1>6, ListFits
<1>11. CASE m > MaxDepth
  <2>1. ~ stream.lists[1].fits
    BY <1>1, <1>8, <1>9, <1>10, <1>11, CapsAssumption
  <2> QED
    BY <1>11, <2>1 DEF EnterList
<1>12. CASE ~ (m > MaxDepth)
  <2> DEFINE f == Waiting(Top, Name, End)
             g == Frame(ValueAt + 2)
  <2>1. stack' = Deeper(f, g) /\ UNCHANGED <<stream, out>>
    BY <1>12 DEF EnterList, Deeper, Waiting
  <2>2. End \in Nat \ {0} /\ ValueAt + 2 \in Nat \ {0}
    BY <1>1, <1>n, PlacesAre
  <2>3. f.pairs = Top.pairs /\ f.seen = Top.seen /\ f.name = Name /\ f.end = End
    BY <1>1, <2>2, CallIs
  <2>4. g.at = ValueAt + 2 /\ g.pairs = <<>> /\ g.seen = 0 /\ g.over = FALSE
    BY <2>2, FrameIs
  <2> HIDE DEF f, g
  <2>5. /\ Len(stack') = Len(stack) + 1
        /\ stack'[Len(stack) + 1] = g /\ stack'[Len(stack)] = f
        /\ \A k \in 1 .. Len(stack) - 1 : stack'[k] = stack[k]
    BY <1>1, <2>1, EnterIs
  <2>6. ListClean(stream, c)
    BY <1>1, <1>3, <1>5, <1>7, ChildIsClean
  <2>7. KeptAt(stream, c, 1) = <<>>
    BY <1>1, <1>6, ListIs
  <2> HIDE DEF kept, i, l, p, t, c
  <2>8. Waits(stream, f, l, i, kept, c)
    BY <1>2, <1>3, <1>5, <2>3 DEF Waits, Here, c, p
  <2>9. On(stream, m + 1, c, 1, start)
    <3>1. m + 1 # 1 /\ m + 1 - 1 = m /\ 1 \in 1 .. Count(stream, c) + 1
      BY <1>1, <1>6
    <3>2. \A j \in 1 .. 1 - 1 : FALSE
      OBVIOUS
    <3> QED
      BY <1>6, <1>8, <1>9, <2>6, <3>1, <3>2 DEF On
  <2>10. AtTop(stream, g, c, 1, KeptAt(stream, c, 1))
    <3>1. t \in Nat
      BY <1>1, <1>2, <1>n, TypeIsRead DEF t, l, i
    <3>2. ValueAt + 2 = Place(stream, c, 1)
      BY <1>3, <1>6, <3>1
    <3> QED
      BY <2>4, <2>7, <3>2 DEF AtTop, Here
  <2>11. \E ms, js : Trail(stream, stack', ms, js, gathered, start) /\ js[1] = is[1]
    <3>1. /\ Waits(stream, stack'[Len(stack)], ls[Len(stack)], is[Len(stack)],
                   Expected(stream, Len(stack), ls[Len(stack)], is[Len(stack)], gathered), c)
          /\ On(stream, Len(stack) + 1, c, 1, start)
          /\ AtTop(stream, stack'[Len(stack) + 1], c, 1, KeptAt(stream, c, 1))
      BY <2>5, <2>8, <2>9, <2>10 DEF kept, l, i
    <3>2. Len(stack) \in Nat \ {0} /\ Trail(stream, stack, ls, is, gathered, start)
      BY <1>1
    <3>3. Len(stack') = Len(stack) + 1 /\ \A k \in 1 .. Len(stack) - 1 : stack'[k] = stack[k]
      BY <2>5
    <3> QED
      BY <3>1, <3>2, <3>3, TrailDeepens, SMTT(60)
  <2> QED
    BY <2>1, <2>11 DEF Further
<1> QED
  BY <1>11, <1>12

\* A nested list ends and its caller goes on at the end of the pair that holds
\* it (nvlist.rs:228-231, 262-266).
LEMMA EndGoesOn ==
  ASSUME NEW ls, NEW is, NEW gathered, NEW start, OnTrail(ls, is, gathered, start), EndList,
         Len(stack) # 1
  PROVE  UNCHANGED <<stream, out>> /\ stack' # <<>> /\ Further(stream, stack', is[1], gathered, start)
<1> DEFINE k == Len(stack)
           m == k - 1
           c == ls[k]
           i == is[k]
           l == ls[m]
           h == is[m]
           p == PairOf(stream, l, h)
           kept == Expected(stream, m, l, h, gathered)
           caller == stack[m]
           value == <<"list", Top.pairs>>
           g == Push(caller, caller.name, value, caller.end)
           n == Count(stream, c)
<1>1. /\ k \in Nat \ {0} /\ stream \in Streams /\ k <= MaxDepth + 1
      /\ TopTrail(k, c, i, Expected(stream, k, c, i, gathered), start)
      /\ NvTypes /\ stack # <<>> /\ Trail(stream, stack, ls, is, gathered, start)
  BY TrailTop DEF OnTrail
<1>2. /\ m \in 1 .. k /\ m \in 1 .. k - 1 /\ k > 1 /\ m + 1 = k /\ m \in Nat \ {0} /\ k # 1
      /\ k \in 1 .. k
  <2> HIDE DEF k
  <2>1. k \in Nat \ {0} /\ k # 1
    BY <1>1 DEF k
  <2> QED
    BY <2>1
<1>3. /\ stack' = Append(SubSeq(stack, 1, Len(stack) - 2), g) /\ UNCHANGED <<stream, out>>
  BY <1>2 DEF EndList
<1>4. /\ Waits(stream, caller, l, h, kept, c) /\ On(stream, m, l, h, start)
      /\ On(stream, k, c, i, start)
  BY <1>1, <1>2 DEF Trail
<1>5. IsFrame(caller) /\ caller.seen < MaxPairs /\ caller.end \in Nat \ {0}
  <2>1. IsFrame(caller) /\ caller.seen < MaxPairs /\ caller.end # 0
    BY <1>1, <1>2 DEF NvTypes
  <2> QED
    BY <2>1 DEF IsFrame
<1>6. /\ g.at = caller.end /\ g.seen = caller.seen + 1 /\ (g.over <=> Past(caller.end))
      /\ g.pairs = Append(caller.pairs, <<caller.name, value>>)
  <2> HIDE DEF caller, value
  <2> QED
    BY <1>1, <1>5, PushIs
<1> HIDE DEF g
<1>7. /\ Len(stack') = m /\ stack'[m] = g /\ \A j \in 1 .. m - 1 : stack'[j] = stack[j]
  <2>1. Len(stack) > 1 /\ Len(stack) - 2 = m - 1
    BY <1>1, <1>2
  <2>2. /\ Len(stack') = Len(stack) - 1 /\ stack'[Len(stack) - 1] = g
        /\ \A j \in 1 .. Len(stack) - 2 : stack'[j] = stack[j]
    BY <1>1, <1>3, <2>1, LeaveIs
  <2> QED
    BY <2>1, <2>2
<1>8. /\ \A j \in i .. n : ~ Present(stream, c, j)
      /\ \/ Top.pairs = KeptAt(stream, c, i)
         \/ i # n + 1 /\ FrontRead(stream, c, i, KeptAt(stream, c, i), Top.pairs)
      /\ ~ Gone(stream, Place(stream, c, n + 1)) =>
           i = n + 1 /\ Top.pairs = KeptAt(stream, c, i) /\ n < MaxPairs
  <2>1. Expected(stream, k, c, i, gathered) = KeptAt(stream, c, i)
    BY <1>2 DEF Expected
  <2> QED
    BY <1>1, <2>1, ListEnds
<1>9. /\ l \in DOMAIN stream.lists /\ h \in 1 .. Count(stream, l) /\ p.kind = "list" /\ p.list = c
      /\ h # Count(stream, l) + 1 /\ h \in Nat
  <2>1. Count(stream, l) \in Nat
    BY <1>1, <1>4, ListIs DEF On
  <2> QED
    BY <1>4, <2>1 DEF Waits, On
<1>10. /\ c \in DOMAIN stream.lists /\ n \in Nat /\ i \in 1 .. n + 1
       /\ Place(stream, c, n + 1) + 2 = Place(stream, l, h + 1)
       /\ Place(stream, c, n + 1) \in Nat
  <2>1. /\ c \in DOMAIN stream.lists /\ Place(stream, c, n + 1) + 2 = Place(stream, l, h + 1)
        /\ n \in Nat
    BY <1>1, <1>9, ChildIs
  <2>2. i \in 1 .. n + 1
    BY <1>4 DEF On
  <2> QED
    BY <1>1, <2>1, <2>2, ListIs
<1>11. Len(stream.data) \in Nat
  BY <1>1, DataIs
<1>12. ASSUME Present(stream, l, h)
       PROVE  PairFits(stream, p) /\ Top.pairs = Everything(stream.lists[c])
  <2>1. ~ Gone(stream, Place(stream, c, n + 1))
    BY <1>10, <1>11, <1>12 DEF Present, Gone
  <2>2. i = n + 1 /\ Top.pairs = KeptAt(stream, c, n + 1) /\ n < MaxPairs
    BY <1>8, <2>1
  <2>3. stream.lists[c].depth <= MaxDepth
    BY <1>1, <1>4, CapsAssumption DEF On
  <2>4. \A j \in 1 .. n : PairFits(stream, PairOf(stream, c, j))
    <3>1. \A j \in 1 .. i - 1 : PairFits(stream, PairOf(stream, c, j))
      BY <1>2, <1>4 DEF On
    <3>2. i - 1 = n
      BY <1>10, <2>2
    <3> QED
      BY <3>1, <3>2
  <2>5. stream.lists[c].fits
    BY <1>1, <1>10, <2>2, <2>3, <2>4, ListFits
  <2>6. Len(p.name) <= MaxLen
    BY <1>4 DEF Waits
  <2> QED
    BY <1>9, <2>2, <2>5, <2>6 DEF PairFits, Everything, KeptAt, Count
<1>13. Shallow(stream, c, Top.pairs)
  <2>1. CASE Top.pairs = KeptAt(stream, c, i)
    BY <1>10, <2>1 DEF Shallow
  <2>2. CASE i # n + 1 /\ FrontRead(stream, c, i, KeptAt(stream, c, i), Top.pairs)
    <3>1. i \in 1 .. n
      BY <1>10, <2>2
    <3> QED
      BY <1>10, <2>2, <3>1 DEF FrontRead, Torn, Shallow
  <2> QED
    BY <1>8, <2>1, <2>2
<1>14. g.seen = h /\ g.at = Place(stream, l, h + 1) /\ (g.over => Gone(stream, g.at))
  BY <1>4, <1>6, <1>9 DEF Waits, Past, Gone
<1>15. g.pairs = Append(kept, <<p.name, <<"list", Top.pairs>> >>)
  BY <1>4, <1>6 DEF Waits
<1> HIDE DEF caller, l, h, p, kept, c
<1>16. Present(stream, l, h) => PairFits(stream, p) /\ g.pairs = Grown(stream, kept, p)
  BY <1>9, <1>12, <1>15 DEF Grown, Meaning
<1>17. FrontRead(stream, l, h, kept, g.pairs)
  BY <1>9, <1>13, <1>15 DEF FrontRead, Torn, p
<1>18. Further(stream, stack', is[1], gathered, start)
  <2>1. /\ m \in 1 .. Len(stack) /\ Len(stack') = m /\ stack'[m] = g /\ l = ls[m] /\ h = is[m]
        /\ \A j \in 1 .. m - 1 : stack'[j] = stack[j]
        /\ h # Count(stream, l) + 1
        /\ g.at = Place(stream, l, h + 1) /\ g.seen = h /\ (g.over => Gone(stream, g.at))
    BY <1>2, <1>7, <1>9, <1>14 DEF l, h
  <2>2. Present(stream, l, h) =>
          /\ PairFits(stream, PairOf(stream, l, h))
          /\ g.pairs = Grown(stream, Expected(stream, m, l, h, gathered), PairOf(stream, l, h))
    BY <1>16 DEF kept, p
  <2>3. FrontRead(stream, l, h, Expected(stream, m, l, h, gathered), g.pairs)
    BY <1>17 DEF kept
  <2> HIDE DEF m
  <2> QED
    BY <2>1, <2>2, <2>3, GoesOn
<1>19. stack' # <<>>
  BY <1>2, <1>7
<1> QED
  BY <1>3, <1>18, <1>19

\* The outermost list ends: parse returns what it has gathered.
Finished(d, pairs, gathered, start, i) ==
  /\ i \in 1 .. Count(d, 1) + 1 /\ (i > 1 => Place(d, 1, i) - 1 <= Len(d.data))
  /\ \A j \in i .. Count(d, 1) : ~ Present(d, 1, j)
  /\ pairs = gathered[i] \/ (i # Count(d, 1) + 1 /\ FrontRead(d, 1, i, gathered[i], pairs))
  /\ Len(d.data) = Len(d.words) =>
       /\ i = Count(d, 1) + 1 /\ pairs = gathered[i]
       /\ start = 1 => d.lists[1].fits

LEMMA EndFinishes ==
  ASSUME NEW ls, NEW is, NEW gathered, NEW start, OnTrail(ls, is, gathered, start), EndList,
         Len(stack) = 1
  PROVE  /\ out' = Ok(Top.pairs) /\ UNCHANGED <<stream, stack>>
         /\ Finished(stream, Top.pairs, gathered, start, is[1])
<1> DEFINE i == is[1]
           n == Count(stream, 1)
<1>1. /\ stream \in Streams
      /\ TopTrail(1, ls[1], i, Expected(stream, 1, ls[1], i, gathered), start)
      /\ NvTypes
  BY TrailTop DEF OnTrail
<1>2. On(stream, 1, ls[1], i, start) /\ ls[1] = 1
  BY <1>1 DEF TopTrail, On
<1>3. TopTrail(1, 1, i, gathered[i], start)
  BY <1>1, <1>2 DEF Expected
<1>4. /\ \A j \in i .. n : ~ Present(stream, 1, j)
      /\ Top.pairs = gathered[i] \/ (i # n + 1 /\ FrontRead(stream, 1, i, gathered[i], Top.pairs))
      /\ ~ Gone(stream, Place(stream, 1, n + 1)) =>
           i = n + 1 /\ Top.pairs = gathered[i] /\ n < MaxPairs
  <2> HIDE DEF i
  <2> QED
    BY <1>1, <1>3, ListEnds DEF n
<1>5. i \in 1 .. n + 1 /\ i >= start /\ (i > 1 => Place(stream, 1, i) - 1 <= Len(stream.data))
  BY <1>2 DEF On
<1>6. 1 \in DOMAIN stream.lists /\ stream.lists[1].depth = 0 /\ n \in Nat
  BY <1>1, OutermostIs, ListIs
<1>7. ASSUME Len(stream.data) = Len(stream.words)
      PROVE  i = n + 1 /\ Top.pairs = gathered[i] /\ (start = 1 => stream.lists[1].fits)
  <2>1. ~ Gone(stream, Place(stream, 1, n + 1))
    <3>1. n + 1 \in 1 .. n + 1 /\ n + 1 \in n + 1 .. n + 1
      BY <1>6
    <3>2. /\ Place(stream, 1, n + 1) < Len(stream.words) /\ Place(stream, 1, n + 1) \in Nat
          /\ Len(stream.words) \in Nat
      BY <1>1, <1>6, <3>1, PlacesGrow
    <3> QED
      BY <1>7, <3>2 DEF Gone
  <2>2. i = n + 1 /\ Top.pairs = gathered[i] /\ n < MaxPairs
    BY <1>4, <2>1
  <2>3. start = 1 => \A j \in 1 .. n : PairFits(stream, PairOf(stream, 1, j))
    BY <1>2, <1>6, <2>2 DEF On
  <2>4. start = 1 => stream.lists[1].fits
    BY <1>1, <1>6, <2>2, <2>3, ListFits, CapsAssumption
  <2> QED
    BY <2>2, <2>4
<1> QED
  BY <1>4, <1>5, <1>7 DEF EndList, Finished

\* parse gives an error: a cap is exceeded, or words are missing.
LEMMA ErrorIsRight ==
  ASSUME NEW ls, NEW is, NEW gathered, NEW start, OnTrail(ls, is, gathered, start),
         TooManyPairs \/ NegativeSize \/ BadName \/ BadString \/ BadByteCount
  PROVE  \E error \in {"bomb", "truncated"} :
           /\ Fail(error)
           /\ Len(stream.data) < Len(stream.words) \/ (error = "bomb" /\ ~ stream.lists[1].fits)
<1> DEFINE m == Len(stack)
           l == ls[m]
           i == is[m]
           kept == Expected(stream, m, l, i, gathered)
           p == PairOf(stream, l, i)
           t == TypePlace(stream, l, i)
           n == Count(stream, l)
<1>1. /\ m \in Nat \ {0} /\ stream \in Streams /\ IsFrame(Top) /\ TopTrail(m, l, i, kept, start)
      /\ NvTypes /\ stack # <<>>
  BY TrailTop DEF OnTrail
<1>2. On(stream, m, l, i, start) /\ AtTop(stream, Top, l, i, kept)
  BY <1>1 DEF TopTrail
<1>3. l \in DOMAIN stream.lists /\ i \in 1 .. n + 1 /\ n \in Nat
  BY <1>1, <1>2, ListIs DEF On
<1>4. ASSUME ~ PairFits(stream, p), i # n + 1 PROVE ~ stream.lists[1].fits
  <2>1. i \in 1 .. n
    BY <1>3, <1>4
  <2> QED
    BY <1>1, <1>2, <1>3, <1>4, <2>1, ListFits DEF On
<1>5. ASSUME Named \/ AtPair
      PROVE  Facing(l, i) /\ i # n + 1
  BY <1>1, <1>5, AtPairIs DEF Named
<1> HIDE DEF l, i, kept, p, t, n
<1>6. CASE TooManyPairs
  <2>1. CASE Here(stream, Top, l, i, kept)
    <3>1. i - 1 = MaxPairs
      BY <1>6, <2>1 DEF TooManyPairs, Here
    <3>2. ~ (Count(stream, l) < MaxPairs)
      BY <1>3, <3>1, CapsAssumption DEF n
    <3>3. ~ stream.lists[1].fits
      BY <1>1, <1>2, <1>3, <3>2, ListFits DEF On
    <3> QED
      BY <1>6, <3>3 DEF TooManyPairs
  <2>2. CASE Broken(stream, Top, l, i, kept)
    <3>1. i \in 1 .. Count(stream, l) /\ ~ Present(stream, l, i)
      BY <1>3, <2>2 DEF Broken, n
    <3>2. Len(stream.data) < Len(stream.words)
      BY <1>1, <1>3, <3>1, CutFromThere
    <3> QED
      BY <1>6, <3>2 DEF TooManyPairs
  <2> QED
    BY <1>2, <2>1, <2>2 DEF AtTop
<1>7. CASE NegativeSize
  <2>1. stack # <<>> /\ Word(Top.at) < 0
    BY <1>7 DEF NegativeSize, Looping
  <2>2. Top.at \in Nat \ {0} /\ Len(stream.data) \in Nat
    BY <1>1, DataIs DEF IsFrame
  <2>3. ~ Gone(stream, Top.at)
    BY <2>1, <2>2 DEF Gone, Word
  <2>4. Here(stream, Top, l, i, kept)
    BY <1>2, <2>3 DEF AtTop, Broken
  <2>5. Top.at = Place(stream, l, i) /\ PairClean(stream, l, i)
    BY <1>1, <2>4 DEF Here, TopTrail, l, i
  <2>6. CASE i = n + 1
    <3>1. Clean(stream, Place(stream, l, i)) /\ stream.words[Place(stream, l, i)] = 0
      <4>1. Place(stream, l, i) \in Place(stream, l, i) .. Place(stream, l, i)
        BY <2>2, <2>5
      <4> QED
        BY <1>1, <1>3, <2>5, <2>6, <4>1, ListIs DEF PairClean, n
    <3>2. Word(Top.at) = 0
      BY <1>1, <2>2, <2>5, <3>1, ReadIs
    <3> QED
      BY <2>1, <3>2
  <2>7. CASE i # n + 1
    <3>1. Facing(l, i)
      BY <1>3, <2>5, <2>7 DEF Facing, n
    <3> DEFINE a == Place(stream, l, i)
               e == Place(stream, l, i + 1)
               u == TypePlace(stream, l, i)
               q == Len(PairOf(stream, l, i).name)
               size == Len(stream.data)
    <3>2. /\ a \in Nat \ {0} /\ e \in Nat \ {0} /\ size \in Nat /\ u \in Nat /\ u + 2 <= e
          /\ u = a + 3 + q /\ q \in Nat /\ Word(a) = IF a <= size THEN e - a ELSE 0
      BY <1>1, <3>1, FacingIs
    <3>3. Word(a) < 0
      BY <2>1, <2>5
    <3> HIDE DEF a, e, u, q, size
    <3> QED
      BY <3>2, <3>3
  <2> QED
    BY <2>6, <2>7
<1>8. CASE BadName
  <2>1. AtPair /\ StringError(NameAt) # "none" /\ Fail(StringError(NameAt))
    BY <1>8 DEF BadName
  <2>2. StringError(NameAt) \in {"bomb", "truncated"}
    BY <2>1 DEF StringError
  <2>3. Facing(l, i) /\ i # n + 1
    BY <1>5, <2>1
  <2>4. \/ Len(stream.data) < Len(stream.words)
        \/ StringError(NameAt) = "bomb" /\ ~ PairFits(stream, p)
    BY <1>1, <2>1, <2>3, NameIsRefused DEF p
  <2> QED
    BY <1>4, <2>1, <2>2, <2>3, <2>4
<1>9. CASE BadString
  <2>1. Named /\ Word(TypeAt) = Str /\ StringError(ValueAt) # "none" /\ Fail(StringError(ValueAt))
    BY <1>9 DEF BadString
  <2>2. StringError(ValueAt) \in {"bomb", "truncated"}
    BY <2>1 DEF StringError
  <2>3. Facing(l, i) /\ i # n + 1
    BY <1>5, <2>1
  <2>4. \/ Len(stream.data) < Len(stream.words)
        \/ StringError(ValueAt) = "bomb" /\ ~ PairFits(stream, p)
    BY <1>1, <2>1, <2>3, StringIsRead DEF p
  <2> QED
    BY <1>4, <2>1, <2>2, <2>3, <2>4
<1>10. CASE BadByteCount
  <2>1. /\ Named /\ Word(TypeAt) \in ByteArrays /\ Fail("bomb")
        /\ Word(TypeAt + 1) < 0 \/ Word(TypeAt + 1) > MaxLen
    BY <1>10 DEF BadByteCount
  <2>2. Facing(l, i) /\ i # n + 1
    BY <1>5, <2>1
  <2>3. ~ PairFits(stream, p)
    BY <1>1, <2>1, <2>2, BytesAreRead DEF p
  <2> QED
    BY <1>4, <2>1, <2>2, <2>3
<1> QED
  BY <1>6, <1>7, <1>8, <1>9, <1>10

\* Whatever step the decoder takes from a trail, it stays on it, it ends, or it
\* refuses what it should.
LEMMA TrailStep ==
  ASSUME NEW ls, NEW is, NEW gathered, NEW start, OnTrail(ls, is, gathered, start),
         out = Pending, Next
  PROVE  /\ UNCHANGED stream
         /\ \/ /\ UNCHANGED out /\ stack' # <<>>
               /\ Further(stream, stack', is[1], gathered, start)
            \/ \E error \in {"bomb", "truncated"} :
                 /\ out' = Err(error)
                 /\ \/ Len(stream.data) < Len(stream.words)
                    \/ error = "bomb" /\ ~ stream.lists[1].fits
            \/ out' = Ok(Top.pairs) /\ Finished(stream, Top.pairs, gathered, start, is[1])
<1> DEFINE m == Len(stack)
           l == ls[m]
           i == is[m]
           kept == Expected(stream, m, l, i, gathered)
<1>1. /\ m \in Nat \ {0} /\ stream \in Streams /\ TopTrail(m, l, i, kept, start)
      /\ NvTypes /\ stack # <<>>
  BY TrailTop DEF OnTrail
<1>2. ASSUME Named PROVE Facing(l, i)
  BY <1>1, <1>2, AtPairIs DEF Named
<1>3. CASE TooManyPairs \/ NegativeSize \/ BadName \/ BadString \/ BadByteCount
  <2>1. PICK error \in {"bomb", "truncated"} :
           /\ Fail(error)
           /\ Len(stream.data) < Len(stream.words) \/ (error = "bomb" /\ ~ stream.lists[1].fits)
    BY <1>3, ErrorIsRight
  <2> QED
    BY <2>1 DEF Fail
<1>4. ASSUME NEW value, Named, Leaf(value), LeafRead(stream, l, i, value)
      PROVE  /\ UNCHANGED <<stream, out>> /\ stack' # <<>>
             /\ Further(stream, stack', is[1], gathered, start)
  <2>1. UNCHANGED <<stream, out>> /\ stack' # <<>>
    BY <1>1, <1>4, ReplaceIs DEF Leaf
  <2>2. Further(stream, stack', is[1], gathered, start)
    BY <1>4, LeafGoesOn
  <2> QED
    BY <2>1, <2>2
<1>5. CASE TakeInteger
  BY <1>1, <1>2, <1>4, <1>5, IntegerIsRead DEF TakeInteger
<1>6. CASE TakeString
  BY <1>1, <1>2, <1>4, <1>6, StringIsRead DEF TakeString
<1>7. CASE TakeBytes
  BY <1>1, <1>2, <1>4, <1>7, BytesAreRead DEF TakeBytes
<1>8. CASE SkipPair
  <2>1. UNCHANGED <<stream, out>> /\ stack' # <<>>
    BY <1>1, <1>8, ReplaceIs DEF SkipPair
  <2>2. Further(stream, stack', is[1], gathered, start)
    BY <1>8, SkipGoesOn
  <2> QED
    BY <2>1, <2>2
<1>9. CASE EnterList
  <2>1. CASE Fail("bomb") /\ ~ stream.lists[1].fits
    BY <2>1 DEF Fail
  <2>2. CASE UNCHANGED <<stream, out>> /\ Further(stream, stack', is[1], gathered, start)
    <3>1. CASE m > MaxDepth
      BY <1>1, <1>9, <2>2, <3>1 DEF EnterList, Fail
    <3>2. CASE ~ (m > MaxDepth)
      <4>1. stack' = Deeper(Waiting(Top, Name, End), Frame(ValueAt + 2))
        BY <1>9, <3>2 DEF EnterList, Deeper, Waiting
      <4>2. Len(stack') = m + 1
        BY <1>1, <4>1, EnterIs
      <4>3. stack' # <<>>
        BY <1>1, <4>2
      <4> QED
        BY <2>2, <4>3
    <3> QED
      BY <3>1, <3>2
  <2> QED
    BY <1>9, <2>1, <2>2, EnterGoesOn
<1>10. CASE EndList /\ Len(stack) # 1
  BY <1>10, EndGoesOn
<1>11. CASE EndList /\ Len(stack) = 1
  BY <1>11, EndFinishes
<1>12. ~ Parse /\ ~ Returned
  BY <1>1 DEF Parse, Returned
<1> QED
  BY <1>3, <1>5, <1>6, <1>7, <1>8, <1>9, <1>10, <1>11, <1>12 DEF Next

-----------------------------------------------------------------------------
(***************************************************************************)
(* Streams that are whole, or cut.                                         *)
(***************************************************************************)
CutInv ==
  Cut =>
    /\ out = Pending /\ stack # <<>> =>
         \E ls, is : Trail(stream, stack, ls, is, Outermost.kept, 1)
    /\ out # Pending =>
         \/ \E pairs, i : out = Ok(pairs) /\ Finished(stream, pairs, Outermost.kept, 1, i)
         \/ \E error \in {"bomb", "truncated", "encoding"} :
              /\ out = Err(error)
              /\ \/ Len(stream.data) < Len(stream.words)
                 \/ error = "bomb" /\ ~ stream.lists[1].fits

\* No step changes the stream, and none follows an answer.
LEMMA StreamStays ==
  ASSUME [Next]_vars
  PROVE  /\ UNCHANGED stream
         /\ out # Pending => UNCHANGED <<stack, out>>
<1>1. CASE UNCHANGED vars
  BY <1>1 DEF vars
<1>2. CASE Next
  BY <1>2 DEF Next, Parse, TooManyPairs, NegativeSize, BadName, BadString, BadByteCount,
     TakeInteger, TakeString, TakeBytes, EnterList, SkipPair, EndList, Returned, Fail, Leaf,
     Named, AtPair, Looping, vars
<1> QED
  BY <1>1, <1>2

\* What is kept of the outermost list grows as the outermost activation's pairs.
LEMMA OutermostGrows ==
  ASSUME NEW d \in Streams, NEW start
  PROVE  Growing(d, d.lists[1].kept, start)
<1>1. 1 \in DOMAIN d.lists
  BY OutermostIs
<1>2. \A i \in 1 .. Count(d, 1) : KeptAt(d, 1, i + 1) = Grown(d, KeptAt(d, 1, i), PairOf(d, 1, i))
  BY <1>1, ListIs
<1> QED
  BY <1>2 DEF Growing, KeptAt

\* parse begins with the outermost list (nvlist.rs:105-119).
LEMMA TrailBegins ==
  ASSUME NvTypes, stack' = <<Frame(4)>>
  PROVE  /\ Trail(stream, stack', <<1>>, <<1>>, Outermost.kept, 1)
         /\ stack' # <<>> /\ Len(stack') = 1
<1>1. stream \in Streams
  BY DEF NvTypes
<1>2. /\ 1 \in DOMAIN stream.lists /\ Place(stream, 1, 1) = 4 /\ stream.lists[1].depth = 0
      /\ Count(stream, 1) \in Nat /\ KeptAt(stream, 1, 1) = <<>>
  BY <1>1, OutermostIs, ListIs
<1>3. On(stream, 1, 1, 1, 1)
  <2>1. 1 \in 1 .. Count(stream, 1) + 1 /\ \A j \in 1 .. 1 - 1 : FALSE
    BY <1>2
  <2> QED
    BY <1>2, <2>1 DEF On
<1>4. Frame(4).at = 4 /\ Frame(4).pairs = <<>> /\ Frame(4).seen = 0 /\ Frame(4).over = FALSE
  BY DEF Frame
<1>5. Here(stream, Frame(4), 1, 1, Outermost.kept[1])
  BY <1>2, <1>4 DEF Here, Outermost, KeptAt
<1>6. Len(stack') = 1 /\ stack'[1] = Frame(4)
  OBVIOUS
<1>7. \A k \in 1 .. 1 : k = 1
  OBVIOUS
<1>8. \A k \in 1 .. 1 - 1 : FALSE
  OBVIOUS
<1>9. /\ \A k \in 1 .. 1 : On(stream, k, <<1>>[k], <<1>>[k], 1)
      /\ AtTop(stream, stack'[1], <<1>>[1], <<1>>[1],
               Expected(stream, 1, <<1>>[1], <<1>>[1], Outermost.kept))
  BY <1>3, <1>5, <1>6, <1>7 DEF AtTop, Expected
<1> QED
  BY <1>6, <1>8, <1>9 DEF Trail

\* Every word of a stream that is cut is as written, or gone.
LEMMA CutIsClean ==
  ASSUME stream \in Streams, Cut
  PROVE  \A w \in Nat \ {0} : Clean(stream, w)
<1>1. PICK n \in 0 .. Len(stream.words) : CutAt(stream, n)
  BY DEF Cut
<1>2. stream.data = SubSeq(stream.words, 1, n) /\ IsSeq(stream.words)
  BY <1>1, DataIs DEF CutAt, IsSeq
<1>3. /\ Len(stream.data) = IF 1 <= n THEN n - 1 + 1 ELSE 0
      /\ \A i \in 1 .. n - 1 + 1 : stream.data[i] = stream.words[1 + i - 1]
  <2>1. Len(stream.words) \in Nat
    BY DataIs
  <2>2. 1 \in Nat \ {0} /\ n \in Nat /\ n <= Len(stream.words)
    BY <2>1
  <2> QED
    BY <1>2, <2>2, PartIs
<1>4. ASSUME NEW w \in Nat \ {0}, w <= Len(stream.data) PROVE stream.data[w] = stream.words[w]
  <2>1. w \in 1 .. n - 1 + 1 /\ 1 + w - 1 = w
    BY <1>3, <1>4
  <2> QED
    BY <1>3, <2>1
<1>5. Len(stream.data) \in Nat
  BY DataIs
<1> QED
  BY <1>4, <1>5 DEF Clean

LEMMA CutStep ==
  ASSUME NvTypes, CutInv, [Next]_vars
  PROVE  CutInv'
<1> SUFFICES ASSUME Cut' PROVE CutInv'
  BY DEF CutInv
<1>1. UNCHANGED stream /\ (out # Pending => UNCHANGED <<stack, out>>)
  BY StreamStays
<1>2. Cut /\ stream \in Streams
  BY <1>1 DEF Cut, NvTypes
<1>3. CASE UNCHANGED <<stack, out>>
  BY <1>1, <1>2, <1>3 DEF CutInv, Outermost
<1>4. CASE out = Pending /\ stack = <<>> /\ Next
  <2>1. Parse
    BY <1>4 DEF Next, TooManyPairs, NegativeSize, BadName, BadString, BadByteCount,
       TakeInteger, TakeString, TakeBytes, EnterList, SkipPair, EndList, Returned, Named,
       AtPair, Looping
  <2>2. CASE Word(1) = XDR
    <3>1. stack' = <<Frame(4)>> /\ out' = Pending
      BY <1>4, <2>1, <2>2 DEF Parse
    <3>2. Trail(stream, stack', <<1>>, <<1>>, Outermost.kept, 1)
      BY <3>1, TrailBegins
    <3> QED
      BY <1>1, <3>1, <3>2 DEF CutInv, Outermost
  <2>3. CASE Word(1) # XDR
    <3>1. out' = Err("encoding")
      BY <2>1, <2>3 DEF Parse
    <3>2. /\ Len(stream.words) \in Nat \ {0} /\ Len(stream.data) \in Nat /\ stream.words[1] = XDR
      <4>1. 1 \in DOMAIN stream.lists /\ stream.words[1] = XDR /\ Place(stream, 1, 1) = 4
        BY <1>2, OutermostIs
      <4>2. 1 \in 1 .. Count(stream, 1) + 1 /\ 1 \in 1 .. Count(stream, 1) + 1
        BY <1>2, <4>1, ListIs
      <4>3. Place(stream, 1, 1) < Len(stream.words) /\ Len(stream.words) \in Nat
        BY <1>2, <4>1, <4>2, PlacesGrow
      <4> QED
        BY <1>2, <4>1, <4>3, DataIs
    <3>3. Clean(stream, 1)
      BY <1>2, CutIsClean
    <3>4. Len(stream.data) < Len(stream.words)
      BY <1>2, <2>3, <3>2, <3>3, ReadIs
    <3>5. Err("encoding") # Pending
      BY DEF Err, Pending
    <3> QED
      BY <1>1, <3>1, <3>4, <3>5 DEF CutInv
  <2> QED
    BY <2>2, <2>3
<1>5. CASE out = Pending /\ stack # <<>> /\ Next
  <2>1. PICK ls, is : Trail(stream, stack, ls, is, Outermost.kept, 1)
    BY <1>2, <1>5 DEF CutInv
  <2>2. PairClean(stream, 1, is[1])
    <3>1. Len(stack) \in Nat \ {0}
      BY <1>5, TopIs
    <3>2. On(stream, 1, ls[1], is[1], 1)
      BY <2>1, <3>1 DEF Trail
    <3>3. 1 \in DOMAIN stream.lists /\ is[1] \in 1 .. Count(stream, 1) + 1
      BY <3>2 DEF On
    <3>4. Place(stream, 1, is[1]) \in Nat \ {0}
      BY <1>2, <3>3, ListIs
    <3>5. is[1] # Count(stream, 1) + 1 => Place(stream, 1, is[1] + 1) \in Nat
      <4>1. is[1] # Count(stream, 1) + 1 => is[1] + 1 \in 1 .. Count(stream, 1) + 1
        BY <1>2, <3>3, ListIs
      <4> QED
        BY <1>2, <3>3, <4>1, ListIs
    <3> QED
      BY <1>2, <3>4, <3>5, CutIsClean DEF PairClean
  <2>3. OnTrail(ls, is, Outermost.kept, 1)
    BY <1>2, <1>5, <2>1, <2>2, OutermostGrows DEF OnTrail, Outermost
  <2>4. \/ /\ UNCHANGED out /\ stack' # <<>>
           /\ Further(stream, stack', is[1], Outermost.kept, 1)
        \/ \E error \in {"bomb", "truncated"} :
             /\ out' = Err(error)
             /\ \/ Len(stream.data) < Len(stream.words)
                \/ error = "bomb" /\ ~ stream.lists[1].fits
        \/ out' = Ok(Top.pairs) /\ Finished(stream, Top.pairs, Outermost.kept, 1, is[1])
    BY <1>5, <2>3, TrailStep
  <2>5. \A pairs, error : Ok(pairs) # Pending /\ (error \in {"bomb", "truncated"} => Err(error) # Pending)
    BY DEF Ok, Err, Pending
  <2>6. Outermost' = Outermost
    BY <1>1 DEF Outermost
  <2> QED
    BY <1>1, <1>5, <2>4, <2>5, <2>6 DEF CutInv, Further
<1> QED
  BY <1>1, <1>3, <1>4, <1>5 DEF vars

LEMMA CutInvHolds == Spec => [](NvTypes /\ CutInv)
<1>1. Init => NvTypes /\ CutInv
  BY NvTypesInit DEF Init, CutInv
<1>2. NvTypes /\ CutInv /\ [Next]_vars => (NvTypes /\ CutInv)'
  BY NvTypesStep, CutStep
<1> QED
  BY <1>1, <1>2, PTL DEF Spec

\* A stream whose data is its words is one cut at its end.
LEMMA WholeIsCut ==
  ASSUME stream \in Streams, stream.data = stream.words
  PROVE  Cut
<1> DEFINE n == Len(stream.words)
           f == SubSeq(stream.words, 1, n)
<1>1. IsSeq(stream.words) /\ n \in Nat
  BY DataIs DEF IsSeq
<1>2. /\ IsSeq(f) /\ Len(f) = IF 1 <= n THEN n - 1 + 1 ELSE 0
      /\ \A i \in 1 .. n - 1 + 1 : f[i] = stream.words[1 + i - 1]
  <2>1. 1 \in Nat \ {0} /\ n <= n
    BY <1>1
  <2> QED
    BY <1>1, <2>1, PartIs
<1> HIDE DEF f
<1>3. Len(f) = Len(stream.words)
  BY <1>1, <1>2
<1>4. ASSUME NEW i \in 1 .. Len(f) PROVE f[i] = stream.words[i]
  <2>1. i \in 1 .. n - 1 + 1 /\ 1 + i - 1 = i
    BY <1>1, <1>3
  <2> QED
    BY <1>2, <2>1
<1>5. f = stream.words
  BY <1>1, <1>2, <1>3, <1>4, SameSeq
<1>6. CutAt(stream, n)
  BY <1>1, <1>5 DEF CutAt, f
<1> QED
  BY <1>1, <1>6 DEF Cut

\* parse of an undamaged stream gives back what was written, in order, at every
\* depth, without the pairs of unknown type, and refuses exactly the streams
\* that exceed a cap (nvlist.rs:105-268): for any stream of any lists.
THEOREM WrittenIsReadBack == Spec => []RoundTrip
<1>1. NvTypes /\ CutInv => RoundTrip
  <2> SUFFICES ASSUME NvTypes, CutInv, out # Pending, stream.data = stream.words
               PROVE  out = IF Outermost.fits THEN Ok(Everything(Outermost)) ELSE Err("bomb")
    BY DEF RoundTrip
  <2>1. stream \in Streams /\ Cut
    BY WholeIsCut DEF NvTypes
  <2>2. Len(stream.data) \in Nat /\ Len(stream.data) = Len(stream.words)
    BY <2>1, DataIs
  <2>3. CASE \E pairs, i : out = Ok(pairs) /\ Finished(stream, pairs, Outermost.kept, 1, i)
    BY <2>2, <2>3 DEF Finished, Outermost, Everything, Count
  <2>4. CASE \E error \in {"bomb", "truncated", "encoding"} :
               /\ out = Err(error)
               /\ \/ Len(stream.data) < Len(stream.words)
                  \/ error = "bomb" /\ ~ stream.lists[1].fits
    BY <2>2, <2>4 DEF Outermost
  <2> QED
    BY <2>1, <2>3, <2>4 DEF CutInv
<1> QED
  BY <1>1, CutInvHolds, PTL

(***************************************************************************)
(* What is looked up in a configuration that is cut.                       *)
(***************************************************************************)

\* The pairs of one sequence have the names and kinds of those of another that
\* may be longer.
Shadow(p, w) ==
  /\ IsSeq(p) /\ IsSeq(w) /\ Len(p) <= Len(w)
  /\ \A m \in 1 .. Len(p) : p[m][1] = w[m][1] /\ p[m][2][1] = w[m][2][1]

\* What is found in the shorter is found at the same place in the other
\* (nvlist.rs:43-98).
LEMMA FoundInBoth ==
  ASSUME NEW p, NEW w, Shadow(p, w), NEW name, NEW kind, NEW default, Has(p, name, kind)
  PROVE  /\ Has(w, name, kind)
         /\ \E m \in 1 .. Len(p) :
              /\ p[m][2][1] = kind /\ w[m][2][1] = kind
              /\ Get(p, name, kind, default) = p[m][2][2]
              /\ Get(w, name, kind, default) = w[m][2][2]
<1>1. /\ DOMAIN p = 1 .. Len(p) /\ DOMAIN w = 1 .. Len(w) /\ Len(p) \in Nat /\ Len(w) \in Nat
      /\ Len(p) <= Len(w)
  BY SeqIs DEF Shadow
<1>2. PICK m \in First(p, name) : p[m][2][1] = kind
  BY DEF Has
<1>3. m \in 1 .. Len(p) /\ p[m][1] = name /\ \A j \in 1 .. m - 1 : p[j][1] # name
  BY <1>1, <1>2 DEF First
<1>4. \A j \in 1 .. m - 1 : j \in 1 .. Len(p)
  BY <1>1, <1>3
<1>5. m \in 1 .. Len(w) /\ w[m][1] = name /\ \A j \in 1 .. m - 1 : w[j][1] # name
  <2>1. m \in 1 .. Len(w)
    BY <1>1, <1>3
  <2> QED
    BY <1>3, <1>4, <2>1 DEF Shadow
<1>6. m \in First(w, name)
  BY <1>1, <1>5 DEF First
<1>7. w[m][2][1] = kind
  BY <1>2, <1>3 DEF Shadow
<1>8. \A j \in First(p, name) : j = m
  <2> TAKE j \in First(p, name)
  <2>1. j \in 1 .. Len(p) /\ p[j][1] = name /\ \A h \in 1 .. j - 1 : p[h][1] # name
    BY <1>1 DEF First
  <2>2. j \in Int /\ m \in Int /\ j >= 1 /\ m >= 1
    BY <1>1, <1>3, <2>1
  <2> QED
    BY <1>3, <2>1, <2>2
<1>9. \A j \in First(w, name) : j = m
  <2> TAKE j \in First(w, name)
  <2>1. j \in 1 .. Len(w) /\ w[j][1] = name /\ \A h \in 1 .. j - 1 : w[h][1] # name
    BY <1>1 DEF First
  <2>2. j \in Int /\ m \in Int /\ j >= 1 /\ m >= 1
    BY <1>1, <1>5, <2>1
  <2> QED
    BY <1>5, <2>1, <2>2
<1>10. Has(w, name, kind)
  BY <1>6, <1>7 DEF Has
<1>11. Get(p, name, kind, default) = p[m][2][2]
  BY <1>2, <1>8 DEF Get
<1>12. Get(w, name, kind, default) = w[m][2][2]
  BY <1>6, <1>9, <1>10 DEF Get
<1> QED
  BY <1>2, <1>3, <1>7, <1>10, <1>11, <1>12

\* A pair taken after some of the pairs kept of a list.
Taken(d, l, j, x) ==
  Append(KeptAt(d, l, j), <<PairOf(d, l, j).name, <<PairOf(d, l, j).kind, x>> >>)

LEMMA TakenIs ==
  ASSUME NEW d \in Streams, NEW l \in DOMAIN d.lists, NEW j \in 1 .. Count(d, l),
         PairOf(d, l, j).kind # "other", NEW x
  PROVE  LET pairs == Taken(d, l, j, x)
             all == KeptAt(d, l, Count(d, l) + 1)
             k == Len(KeptAt(d, l, j)) IN
         /\ Shadow(pairs, all) /\ k \in Nat /\ Len(pairs) = k + 1
         /\ \A m \in 1 .. k : pairs[m] = all[m]
         /\ pairs[k + 1] = <<PairOf(d, l, j).name, <<PairOf(d, l, j).kind, x>> >>
         /\ all[k + 1] = Meaning(d, PairOf(d, l, j))
<1> DEFINE n == Count(d, l)
           all == KeptAt(d, l, n + 1)
           kept == KeptAt(d, l, j)
           next == KeptAt(d, l, j + 1)
           k == Len(kept)
           p == PairOf(d, l, j)
           taken == <<p.name, <<p.kind, x>> >>
           pairs == Taken(d, l, j, x)
<1>1. n \in Nat /\ j \in 1 .. n + 1 /\ j + 1 \in 1 .. n + 1 /\ n + 1 \in j + 1 .. n + 1 /\ n + 1 \in 1 .. n + 1
  BY ListIs
<1>2. IsSeq(all) /\ IsSeq(kept) /\ IsSeq(next) /\ k \in Nat /\ Len(all) \in Nat
  BY <1>1, KeptIsSeq, SeqIs
<1>3. next = Append(kept, Meaning(d, p))
  BY ListIs DEF Grown
<1>4. Len(next) <= Len(all) /\ \A m \in 1 .. Len(next) : all[m] = next[m]
  BY <1>1, KeptGrows
<1>5. pairs = Append(kept, taken)
  BY DEF Taken
<1> HIDE DEF all, kept, next, p, taken, pairs
<1>6. /\ Len(next) = k + 1 /\ \A m \in 1 .. k : next[m] = kept[m]
      /\ next[k + 1] = Meaning(d, p)
  BY <1>2, <1>3, AppendIs
<1>7. /\ IsSeq(pairs) /\ Len(pairs) = k + 1 /\ \A m \in 1 .. k : pairs[m] = kept[m]
      /\ pairs[k + 1] = taken
  <2> DEFINE a == Append(kept, taken)
  <2>1. /\ IsSeq(a) /\ Len(a) = k + 1 /\ \A m \in 1 .. k : a[m] = kept[m]
        /\ a[k + 1] = taken
    BY <1>2, AppendIs
  <2>2. pairs = a
    BY <1>5
  <2> HIDE DEF a
  <2> QED
    BY <2>1, <2>2
<1>8. \A m \in 1 .. k : m \in 1 .. k + 1
  BY <1>2
<1>9. k + 1 \in 1 .. k + 1 /\ \A m \in 1 .. k + 1 : m = k + 1 \/ m \in 1 .. k
  BY <1>2
<1>10. /\ \A m \in 1 .. k : pairs[m] = all[m]
       /\ all[k + 1] = Meaning(d, p)
  BY <1>4, <1>6, <1>7, <1>8, <1>9
<1>11. Shadow(pairs, all)
  <2>1. \A m \in 1 .. Len(pairs) : pairs[m][1] = all[m][1] /\ pairs[m][2][1] = all[m][2][1]
    BY <1>7, <1>9, <1>10 DEF taken, Meaning
  <2> QED
    BY <1>2, <1>4, <1>6, <1>7, <2>1 DEF Shadow
<1> QED
  BY <1>2, <1>7, <1>10, <1>11 DEF all, p, taken, kept, pairs

\* The pairs kept before one shadow all that are kept.
LEMMA KeptIsShadow ==
  ASSUME NEW d \in Streams, NEW l \in DOMAIN d.lists, NEW j \in 1 .. Count(d, l) + 1
  PROVE  LET all == KeptAt(d, l, Count(d, l) + 1)
             kept == KeptAt(d, l, j) IN
         Shadow(kept, all) /\ \A m \in 1 .. Len(kept) : kept[m] = all[m]
<1>1. Count(d, l) \in Nat /\ Count(d, l) + 1 \in j .. Count(d, l) + 1
      /\ Count(d, l) + 1 \in 1 .. Count(d, l) + 1
  BY ListIs
<1> QED
  BY <1>1, KeptIsSeq, KeptGrows DEF Shadow

\* What is looked up in a nested list that is cut is what was written, or 0.
LEMMA NestedIntegerIs ==
  ASSUME NEW d \in Streams, NEW l \in DOMAIN d.lists, NEW pairs, Shallow(d, l, pairs), NEW name
  PROVE  Get(pairs, name, "u64", <<0, 0>>)
           \in {Get(KeptAt(d, l, Count(d, l) + 1), name, "u64", <<0, 0>>), <<0, 0>>}
<1> DEFINE all == KeptAt(d, l, Count(d, l) + 1)
<1>1. CASE ~ Has(pairs, name, "u64")
  BY <1>1 DEF Get
<1>2. CASE Has(pairs, name, "u64")
  <2>1. CASE \E j \in 1 .. Count(d, l) + 1 : pairs = KeptAt(d, l, j)
    <3>1. PICK j \in 1 .. Count(d, l) + 1 : pairs = KeptAt(d, l, j)
      BY <2>1
    <3>2. Shadow(pairs, all) /\ \A m \in 1 .. Len(pairs) : pairs[m] = all[m]
      BY <3>1, KeptIsShadow
    <3>3. PICK m \in 1 .. Len(pairs) :
            /\ Get(pairs, name, "u64", <<0, 0>>) = pairs[m][2][2]
            /\ Get(all, name, "u64", <<0, 0>>) = all[m][2][2]
      BY <1>2, <3>2, FoundInBoth
    <3> QED
      BY <3>2, <3>3
  <2>2. CASE \E j \in 1 .. Count(d, l) : \E y :
               /\ pairs = Append(KeptAt(d, l, j), <<PairOf(d, l, j).name, <<PairOf(d, l, j).kind, y>> >>)
               /\ PairOf(d, l, j).kind # "other"
               /\ PairOf(d, l, j).kind = "u64" => y = <<0, 0>>
    <3>j. PICK j \in 1 .. Count(d, l) : \E y :
               /\ pairs = Append(KeptAt(d, l, j), <<PairOf(d, l, j).name, <<PairOf(d, l, j).kind, y>> >>)
               /\ PairOf(d, l, j).kind # "other"
               /\ PairOf(d, l, j).kind = "u64" => y = <<0, 0>>
      BY <2>2
    <3>1. PICK y : /\ pairs = Taken(d, l, j, y)
                   /\ PairOf(d, l, j).kind # "other"
                   /\ PairOf(d, l, j).kind = "u64" => y = <<0, 0>>
      BY <3>j DEF Taken
    <3> DEFINE k == Len(KeptAt(d, l, j))
    <3>2. /\ Shadow(pairs, all) /\ k \in Nat /\ Len(pairs) = k + 1
          /\ \A m \in 1 .. k : pairs[m] = all[m]
          /\ pairs[k + 1] = <<PairOf(d, l, j).name, <<PairOf(d, l, j).kind, y>> >>
      BY <3>1, TakenIs
    <3>3. PICK m \in 1 .. Len(pairs) :
            /\ pairs[m][2][1] = "u64"
            /\ Get(pairs, name, "u64", <<0, 0>>) = pairs[m][2][2]
            /\ Get(all, name, "u64", <<0, 0>>) = all[m][2][2]
      BY <1>2, <3>2, FoundInBoth
    <3> HIDE DEF k, all
    <3>4. m \in 1 .. k \/ m = k + 1
      BY <3>2
    <3>5. CASE m \in 1 .. k
      <4>1. pairs[m] = all[m]
        BY <3>2, <3>5
      <4>2. Get(pairs, name, "u64", <<0, 0>>) = Get(all, name, "u64", <<0, 0>>)
        BY <3>3, <4>1
      <4> QED
        BY <4>2 DEF all
    <3>6. CASE m = k + 1
      BY <3>1, <3>2, <3>3, <3>6
    <3> QED
      BY <3>4, <3>5, <3>6 DEF all
  <2> QED
    BY <2>1, <2>2 DEF Shallow
<1> QED
  BY <1>1, <1>2

\* The probe's two questions of a configuration that is cut (label.rs:52-75,
\* vfs.rs).
LEMMA ProbeOfFront ==
  ASSUME NEW d \in Streams, NEW i \in 1 .. Count(d, 1) + 1, NEW pairs,
         \/ pairs = KeptAt(d, 1, i)
         \/ i # Count(d, 1) + 1 /\ FrontRead(d, 1, i, KeptAt(d, 1, i), pairs)
  PROVE  LET all == KeptAt(d, 1, Count(d, 1) + 1) IN
         /\ IsPoolConfig(pairs) => IsPoolConfig(all)
         /\ Ashift(pairs) \in {Ashift(all), <<0, 0>>}
<1> DEFINE n == Count(d, 1)
           all == KeptAt(d, 1, n + 1)
<1>1. 1 \in DOMAIN d.lists /\ n \in Nat
  BY OutermostIs, ListIs
<1>2. ASSUME Shadow(pairs, all) PROVE IsPoolConfig(pairs) => IsPoolConfig(all)
  <2> HIDE DEF all
  <2> QED
    BY <1>2, FoundInBoth DEF IsPoolConfig
<1>3. CASE ~ Has(pairs, VdevTreeName, "list")
  <2>1. VdevTree(pairs) = <<>>
    BY <1>3 DEF VdevTree, Get
  <2>2. First(<<>>, AshiftName) = {}
    BY DEF First
  <2>3. Ashift(pairs) = <<0, 0>>
    BY <2>1, <2>2 DEF Ashift, Get, Has
  <2>4. ~ IsPoolConfig(pairs)
    BY <1>3 DEF IsPoolConfig
  <2> QED
    BY <2>3, <2>4
<1>4. CASE /\ Has(pairs, VdevTreeName, "list") /\ pairs = KeptAt(d, 1, i)
  <2>1. Shadow(pairs, all) /\ \A m \in 1 .. Len(pairs) : pairs[m] = all[m]
    BY <1>1, <1>4, KeptIsShadow
  <2>2. PICK m \in 1 .. Len(pairs) :
          /\ Get(pairs, VdevTreeName, "list", <<>>) = pairs[m][2][2]
          /\ Get(all, VdevTreeName, "list", <<>>) = all[m][2][2]
    BY <1>4, <2>1, FoundInBoth
  <2>3. VdevTree(pairs) = VdevTree(all)
    BY <2>1, <2>2 DEF VdevTree
  <2> QED
    BY <1>2, <2>1, <2>3 DEF Ashift
<1>5. CASE /\ Has(pairs, VdevTreeName, "list") /\ pairs # KeptAt(d, 1, i)
  <2> DEFINE p == PairOf(d, 1, i)
             k == Len(KeptAt(d, 1, i))
  <2>1. i \in 1 .. n /\ FrontRead(d, 1, i, KeptAt(d, 1, i), pairs)
    BY <1>1, <1>5
  <2>2. PICK x : pairs = Taken(d, 1, i, x) /\ Torn(d, 1, i, x)
    BY <1>5, <2>1 DEF FrontRead, Taken
  <2>3. p.kind # "other" /\ (p.kind = "list" => Shallow(d, p.list, x))
    BY <2>2 DEF Torn
  <2>4. /\ Shadow(pairs, all) /\ k \in Nat /\ Len(pairs) = k + 1
        /\ \A m \in 1 .. k : pairs[m] = all[m]
        /\ pairs[k + 1] = <<p.name, <<p.kind, x>> >>
        /\ all[k + 1] = Meaning(d, p)
    BY <1>1, <2>1, <2>2, <2>3, TakenIs
  <2>5. PICK m \in 1 .. Len(pairs) :
          /\ pairs[m][2][1] = "list"
          /\ Get(pairs, VdevTreeName, "list", <<>>) = pairs[m][2][2]
          /\ Get(all, VdevTreeName, "list", <<>>) = all[m][2][2]
    BY <1>5, <2>4, FoundInBoth
  <2>6. VdevTree(pairs) = pairs[m][2][2] /\ VdevTree(all) = all[m][2][2]
    BY <2>5 DEF VdevTree
  <2>7. m \in 1 .. k \/ m = k + 1
    BY <2>4
  <2>8. CASE m \in 1 .. k
    BY <1>2, <2>4, <2>6, <2>8 DEF Ashift
  <2>9. CASE m = k + 1
    <3>1. p.kind = "list" /\ VdevTree(pairs) = x /\ Shallow(d, p.list, x)
      <4> HIDE DEF all, p
      <4>1. pairs[m] = <<p.name, <<p.kind, x>> >>
        BY <2>4, <2>9
      <4>2. pairs[m][2][1] = p.kind /\ pairs[m][2][2] = x
        BY <4>1
      <4>3. p.kind = "list" /\ VdevTree(pairs) = x
        BY <2>5, <2>6, <4>2
      <4> QED
        BY <2>3, <4>3
    <3>2. VdevTree(all) = KeptAt(d, p.list, Count(d, p.list) + 1)
      <4>1. VdevTree(all) = Everything(d.lists[p.list])
        <5> HIDE DEF all, p
        <5> QED
          BY <2>4, <2>6, <2>9, <3>1 DEF Meaning
      <4> QED
        BY <4>1 DEF Everything, KeptAt, Count
    <3>3. p.list \in DOMAIN d.lists
      BY <1>1, <2>1, <3>1, ChildIs
    <3>4. Ashift(pairs) \in {Ashift(all), <<0, 0>>}
      BY <3>1, <3>2, <3>3, NestedIntegerIs DEF Ashift
    <3> QED
      BY <1>2, <2>4, <3>4
  <2> QED
    BY <2>7, <2>8, <2>9
<1> QED
  BY <1>3, <1>4, <1>5

\* The front of a sequence with one more.
LEMMA FrontOfAppend ==
  ASSUME NEW s, IsSeq(s), NEW x, NEW t, t = Append(s, x)
  PROVE  Len(t) = Len(s) + 1 /\ SubSeq(t, 1, Len(s)) = s /\ t[Len(t)] = x
<1> DEFINE k == Len(s)
           f == SubSeq(t, 1, k)
<1>1. k \in Nat /\ IsSeq(t) /\ Len(t) = k + 1 /\ (\A i \in 1 .. k : t[i] = s[i]) /\ t[k + 1] = x
  <2> DEFINE a == Append(s, x)
  <2>1. IsSeq(a) /\ Len(a) = k + 1 /\ (\A i \in 1 .. k : a[i] = s[i]) /\ a[k + 1] = x
    BY AppendIs
  <2>2. k \in Nat /\ t = a
    BY SeqIs
  <2> HIDE DEF a
  <2> QED
    BY <2>1, <2>2
<1>2. IsSeq(f) /\ Len(f) = k /\ \A i \in 1 .. k : f[i] = t[i]
  <2>1. IsSeq(t) /\ k \in Nat /\ k <= Len(t)
    BY <1>1
  <2> HIDE DEF k
  <2> QED
    BY <2>1, BeginningIs, Zenon
<1> HIDE DEF f
<1>3. \A i \in 1 .. Len(f) : f[i] = s[i]
  BY <1>1, <1>2
<1>4. f = s
  <2>1. Len(f) = Len(s)
    BY <1>2
  <2> QED
    BY <1>2, <1>3, <2>1, SameSeq
<1> QED
  BY <1>1, <1>4 DEF f

\* parse of a stream that ends early gives every pair that is all there and at
\* most one more, the cut one, under its own name and type; the probe takes a
\* cut configuration for a pool only if the one written was, with its ashift or
\* none (nvlist.rs:179-268, label.rs:52-75): for any stream cut anywhere.
THEOREM CutIsRead == Spec => []CutKeepsPrefix
<1>1. NvTypes /\ CutInv => CutKeepsPrefix
  <2> SUFFICES ASSUME NvTypes, CutInv, Decoded, Cut PROVE CutKeepsPrefix
    BY DEF CutKeepsPrefix
  <2> DEFINE n == Count(stream, 1)
             P == Outermost.pairs
  <2>1. PICK pairs, i : out = Ok(pairs) /\ Finished(stream, pairs, Outermost.kept, 1, i)
    <3>1. out # Pending
      BY DEF Decoded, Pending
    <3>2. \A error \in {"bomb", "truncated", "encoding"} : out # Err(error)
      BY DEF Decoded, Err
    <3> QED
      BY <3>1, <3>2 DEF CutInv
  <2>2. out[2] = pairs
    BY <2>1 DEF Ok
  <2>3. /\ i \in 1 .. n + 1
        /\ (i > 1 => Place(stream, 1, i) - 1 <= Len(stream.data))
        /\ \A j \in i .. n : ~ Present(stream, 1, j)
        /\ \/ pairs = KeptAt(stream, 1, i)
           \/ i # n + 1 /\ FrontRead(stream, 1, i, KeptAt(stream, 1, i), pairs)
    BY <2>1 DEF Finished, Outermost, KeptAt
  <2>4. stream \in Streams /\ 1 \in DOMAIN stream.lists /\ n \in Nat /\ i \in 1 .. n + 1
    BY <2>3, OutermostIs, ListIs DEF NvTypes
  <2>5. DOMAIN Outermost.kept = 1 .. n + 1 /\ DOMAIN P = 1 .. n
    <3>1. ListWritten(stream, stream.lists[1])
      BY <2>4, StreamsAssumption DEF Written
    <3>2. IsSeq(stream.lists[1].pairs)
      BY <3>1 DEF ListWritten, IsSeq
    <3>3. DOMAIN P = 1 .. n
      BY <3>2, SeqIs DEF Outermost, Count
    <3>4. DOMAIN Outermost.kept = 1 .. n + 1
      BY <3>1, Zenon DEF ListWritten, Outermost, Count
    <3> QED
      BY <3>3, <3>4
  <2>6. \A j \in 1 .. n : j < i <=> Whole(j)
    <3> TAKE j \in 1 .. n
    <3>1. Whole(j) <=> Present(stream, 1, j)
      BY DEF Whole, Present, Outermost, Place
    <3>2. ASSUME j < i PROVE Present(stream, 1, j)
      <4>1. j + 1 \in 1 .. n + 1 /\ i \in j + 1 .. n + 1 /\ i > 1
        BY <2>4, <3>2
      <4>2. /\ Place(stream, 1, j + 1) <= Place(stream, 1, i) /\ Place(stream, 1, i) \in Nat
            /\ Place(stream, 1, j + 1) \in Nat /\ Len(stream.data) \in Nat
        BY <2>4, <4>1, PlacesGrow
      <4> QED
        BY <2>3, <4>1, <4>2 DEF Present
    <3>3. ASSUME ~ (j < i) PROVE ~ Present(stream, 1, j)
      <4>1. j \in i .. n
        BY <2>4, <3>3
      <4> QED
        BY <2>3, <4>1
    <3> QED
      BY <3>1, <3>2, <3>3
  <2>7. \/ pairs = KeptAt(stream, 1, i)
        \/ /\ i \in DOMAIN P
           /\ Len(pairs) = Len(KeptAt(stream, 1, i)) + 1
           /\ SubSeq(pairs, 1, Len(KeptAt(stream, 1, i))) = KeptAt(stream, 1, i)
           /\ pairs[Len(pairs)][1] = P[i].name /\ pairs[Len(pairs)][2][1] = P[i].kind
    <3>1. CASE pairs = KeptAt(stream, 1, i)
      BY <3>1
    <3>2. CASE pairs # KeptAt(stream, 1, i)
      <4>1. i \in 1 .. n /\ FrontRead(stream, 1, i, KeptAt(stream, 1, i), pairs)
        BY <2>3, <2>4, <3>2
      <4>2. PICK x : pairs = Append(KeptAt(stream, 1, i),
                               <<PairOf(stream, 1, i).name, <<PairOf(stream, 1, i).kind, x>> >>)
        BY <3>2, <4>1 DEF FrontRead
      <4>3. IsSeq(KeptAt(stream, 1, i))
        BY <2>4, KeptIsSeq
      <4>4. /\ Len(pairs) = Len(KeptAt(stream, 1, i)) + 1
            /\ SubSeq(pairs, 1, Len(KeptAt(stream, 1, i))) = KeptAt(stream, 1, i)
            /\ pairs[Len(pairs)] = <<PairOf(stream, 1, i).name, <<PairOf(stream, 1, i).kind, x>> >>
        BY <4>2, <4>3, FrontOfAppend
      <4> QED
        BY <2>5, <4>1, <4>4 DEF PairOf, Outermost
    <3> QED
      BY <3>1, <3>2
  <2>8. /\ IsPoolConfig(pairs) => IsPoolConfig(Everything(Outermost))
        /\ Ashift(pairs) \in {Ashift(Everything(Outermost)), <<0, 0>>}
    <3>1. Everything(Outermost) = KeptAt(stream, 1, n + 1)
      BY DEF Everything, Outermost, KeptAt, Count
    <3> QED
      BY <2>3, <2>4, <3>1, ProbeOfFront
  <2>9. KeptAt(stream, 1, i) = Outermost.kept[i]
    BY DEF KeptAt, Outermost
  <2> QED
    BY <2>2, <2>3, <2>5, <2>6, <2>7, <2>8, <2>9 DEF CutKeepsPrefix
<1> QED
  BY <1>1, CutInvHolds, PTL

-----------------------------------------------------------------------------
(***************************************************************************)
(* Streams with one damaged word.                                          *)
(***************************************************************************)
Begins(s, t) == IsSeq(s) /\ Len(t) <= Len(s) /\ \A i \in 1 .. Len(t) : s[i] = t[i]

LEMMA BeginsIs ==
  ASSUME NEW s, NEW t, IsSeq(t), Begins(s, t)
  PROVE  SubSeq(s, 1, Len(t)) = t
<1> DEFINE k == Len(t)
           f == SubSeq(s, 1, k)
<1>1. k \in Nat /\ IsSeq(s) /\ k <= Len(s) /\ 1 \in Nat \ {0}
  BY SeqIs DEF Begins
<1>2. /\ IsSeq(f) /\ Len(f) = IF 1 <= k THEN k - 1 + 1 ELSE 0
      /\ \A i \in 1 .. k - 1 + 1 : f[i] = s[1 + i - 1]
  <2> HIDE DEF k
  <2> QED
    BY <1>1, PartIs
<1> HIDE DEF f
<1>3. Len(f) = Len(t)
  BY <1>1, <1>2
<1>4. ASSUME NEW i \in 1 .. Len(f) PROVE f[i] = t[i]
  <2>1. i \in 1 .. k - 1 + 1 /\ 1 + i - 1 = i /\ i \in 1 .. k
    BY <1>1, <1>3
  <2> QED
    BY <1>2, <2>1 DEF Begins
<1>5. f = t
  BY <1>2, <1>3, <1>4, SameSeq
<1> QED
  BY <1>5 DEF f

\* A pair added leaves the front as it is.
LEMMA BeginsStill ==
  ASSUME NEW s, NEW t, IsSeq(t), Begins(s, t), NEW x
  PROVE  Begins(Append(s, x), t)
<1> DEFINE a == Append(s, x)
<1>1. IsSeq(s) /\ Len(s) \in Nat /\ Len(t) \in Nat /\ Len(t) <= Len(s)
  BY SeqIs DEF Begins
<1>2. IsSeq(a) /\ Len(a) = Len(s) + 1 /\ \A i \in 1 .. Len(s) : a[i] = s[i]
  BY <1>1, AppendIs
<1> HIDE DEF a
<1>3. \A i \in 1 .. Len(t) : i \in 1 .. Len(s)
  BY <1>1
<1>4. Begins(a, t)
  BY <1>1, <1>2, <1>3 DEF Begins
<1> QED
  BY <1>4 DEF a

LEMMA BeginsConcat ==
  ASSUME NEW s, IsSeq(s), NEW t, IsSeq(t), NEW u, IsSeq(u), Begins(s, t)
  PROVE  Begins(s \o u, t)
<1> DEFINE a == s \o u
<1>1. Len(s) \in Nat /\ Len(t) \in Nat /\ Len(u) \in Nat /\ Len(t) <= Len(s)
  BY SeqIs DEF Begins
<1>2. IsSeq(a) /\ Len(a) = Len(s) + Len(u) /\ \A i \in 1 .. Len(s) : a[i] = s[i]
  BY ConcatIs
<1> HIDE DEF a
<1>3. \A i \in 1 .. Len(t) : i \in 1 .. Len(s)
  BY <1>1
<1>4. Begins(a, t)
  BY <1>1, <1>2, <1>3 DEF Begins
<1> QED
  BY <1>4 DEF a

\* What is after the first m of a sequence, when the sequence grows.
After(s, m) == SubSeq(s, m + 1, Len(s))

LEMMA TailIs ==
  ASSUME NEW s, IsSeq(s), NEW m \in Nat, m <= Len(s)
  PROVE  /\ IsSeq(After(s, m)) /\ Len(After(s, m)) = Len(s) - m
         /\ \A i \in 1 .. Len(s) - m : After(s, m)[i] = s[m + i]
<1> DEFINE b == m + 1
           n == Len(s)
           f == SubSeq(s, b, n)
<1>1. b \in Nat \ {0} /\ n \in Nat /\ n <= Len(s) /\ n - b + 1 = n - m
  BY SeqIs
<1>2. /\ IsSeq(f) /\ Len(f) = IF b <= n THEN n - b + 1 ELSE 0
      /\ \A i \in 1 .. n - b + 1 : f[i] = s[b + i - 1]
  <2> HIDE DEF b, n
  <2> QED
    BY <1>1, PartIs
<1>3. f = After(s, m)
  BY DEF After
<1> HIDE DEF f
<1>4. Len(f) = n - m
  <2>1. b = m + 1 /\ m <= n
    OBVIOUS
  <2> HIDE DEF b, n
  <2> QED
    BY <1>1, <1>2, <2>1
<1>5. ASSUME NEW i \in 1 .. n - m PROVE f[i] = s[m + i]
  <2>1. i \in 1 .. n - b + 1 /\ b + i - 1 = m + i
    BY <1>1
  <2> QED
    BY <1>2, <2>1
<1> QED
  BY <1>2, <1>3, <1>4, <1>5

LEMMA TailOfAppend ==
  ASSUME NEW s, IsSeq(s), NEW m \in Nat, m <= Len(s), NEW x
  PROVE  After(Append(s, x), m) = Append(After(s, m), x)
<1> DEFINE a == Append(s, x)
           u == After(a, m)
           w == After(s, m)
           v == Append(w, x)
           n == Len(s)
<1>1. IsSeq(a) /\ Len(a) = n + 1 /\ (\A i \in 1 .. n : a[i] = s[i]) /\ a[n + 1] = x
  BY AppendIs
<1>2. n \in Nat /\ m <= n /\ m <= n + 1
  BY SeqIs
<1> HIDE DEF a
<1>3. IsSeq(u) /\ Len(u) = n + 1 - m /\ \A i \in 1 .. n + 1 - m : u[i] = a[m + i]
  BY <1>1, <1>2, TailIs
<1>4. IsSeq(w) /\ Len(w) = n - m /\ \A i \in 1 .. n - m : w[i] = s[m + i]
  BY <1>2, TailIs
<1> HIDE DEF u, w
<1>5. IsSeq(v) /\ Len(v) = n - m + 1 /\ (\A i \in 1 .. n - m : v[i] = w[i]) /\ v[n - m + 1] = x
  BY <1>4, AppendIs
<1> HIDE DEF v
<1>6. ASSUME NEW i \in 1 .. Len(u) PROVE u[i] = v[i]
  <2>1. i \in 1 .. n + 1 - m
    BY <1>3
  <2>2. CASE i \in 1 .. n - m
    <3>1. m + i \in 1 .. n
      BY <1>2, <2>2
    <3> QED
      BY <1>1, <1>3, <1>4, <1>5, <2>1, <2>2, <3>1
  <2>3. CASE i = n - m + 1
    <3>1. m + i = n + 1
      BY <1>2, <2>3
    <3> QED
      BY <1>1, <1>3, <1>5, <2>1, <2>3, <3>1
  <2> QED
    BY <1>2, <2>1, <2>2, <2>3
<1>7. Len(u) = Len(v)
  BY <1>2, <1>3, <1>5
<1>8. u = v
  BY <1>3, <1>5, <1>6, <1>7, SameSeq
<1> QED
  BY <1>8 DEF u, v, w, a

\* Nothing is after all of a sequence.
LEMMA TailOfAll ==
  ASSUME NEW s, IsSeq(s), NEW t, IsSeq(t)
  PROVE  t \o After(s, Len(s)) = t
<1> DEFINE e == After(s, Len(s))
           c == t \o e
<1>1. Len(s) \in Nat /\ Len(s) <= Len(s) /\ Len(t) \in Nat
  BY SeqIs
<1>2. IsSeq(e) /\ Len(e) = 0
  BY <1>1, TailIs
<1> HIDE DEF e
<1>3. IsSeq(c) /\ Len(c) = Len(t) + Len(e) /\ \A i \in 1 .. Len(t) : c[i] = t[i]
  BY <1>2, ConcatIs
<1> HIDE DEF c
<1>4. Len(c) = Len(t)
  BY <1>1, <1>2, <1>3
<1>5. c = t
  BY <1>3, <1>4, SameSeq
<1> QED
  BY <1>5 DEF c, e

\* Pair q of the outermost list has a word that is not as it was written, and
\* no other pair has.
Damaged(d, q) ==
  /\ Len(d.data) = Len(d.words) /\ q \in 1 .. Count(d, 1)
  /\ d.harmed \in Place(d, 1, q) .. Place(d, 1, q + 1) - 1
  /\ \A w \in Nat \ {0} : w # d.harmed => Clean(d, w)

\* What the outermost activation gathers after such a pair: X, and the pairs
\* after it.
Spliced(d, q, X) ==
  [i \in q + 1 .. Count(d, 1) + 1 |->
     X \o After(KeptAt(d, 1, i), Len(KeptAt(d, 1, q + 1)))]

LEMMA SplicedIs ==
  ASSUME NEW d \in Streams, NEW q, q \in 1 .. Count(d, 1), NEW X, IsSeq(X)
  PROVE  /\ Spliced(d, q, X)[q + 1] = X
         /\ Growing(d, Spliced(d, q, X), q + 1)
         /\ Spliced(d, q, X)[Count(d, 1) + 1] =
              X \o After(KeptAt(d, 1, Count(d, 1) + 1), Len(KeptAt(d, 1, q + 1)))
         /\ IsSeq(After(KeptAt(d, 1, Count(d, 1) + 1), Len(KeptAt(d, 1, q + 1))))
<1> DEFINE n == Count(d, 1)
           b == q + 1
           m == Len(KeptAt(d, 1, b))
           f == Spliced(d, q, X)
<1>1. 1 \in DOMAIN d.lists /\ n \in Nat /\ b \in 1 .. n + 1 /\ b \in b .. n + 1 /\ n + 1 \in b .. n + 1
  BY OutermostIs, ListIs
<1>2. \A i \in 1 .. n + 1 : IsSeq(KeptAt(d, 1, i)) /\ Len(KeptAt(d, 1, i)) \in Nat
  BY <1>1, KeptIsSeq, SeqIs
<1>3. \A i \in b .. n + 1 : i \in 1 .. n + 1 /\ m <= Len(KeptAt(d, 1, i))
  <2>1. \A i \in b .. n + 1 : i \in 1 .. n + 1
    BY <1>1
  <2> QED
    BY <1>1, <2>1, KeptGrows
<1>4. \A i \in b .. n + 1 : f[i] = X \o After(KeptAt(d, 1, i), m)
  BY DEF Spliced
<1>5. m \in Nat /\ IsSeq(KeptAt(d, 1, b))
  BY <1>1, <1>2
<1> HIDE DEF f, m, n
<1>6. f[b] = X
  <2>1. X \o After(KeptAt(d, 1, b), Len(KeptAt(d, 1, b))) = X
    BY <1>5, TailOfAll
  <2> QED
    BY <1>1, <1>4, <2>1 DEF m
<1>7. ASSUME NEW i \in 1 .. n, i >= b PROVE f[i + 1] = Grown(d, f[i], PairOf(d, 1, i))
  <2> DEFINE k == KeptAt(d, 1, i)
             l == KeptAt(d, 1, i + 1)
             e == After(k, m)
  <2>1. i \in b .. n + 1 /\ i + 1 \in b .. n + 1
    BY <1>1, <1>7
  <2>2. IsSeq(k) /\ m <= Len(k) /\ l = Grown(d, k, PairOf(d, 1, i))
    BY <1>1, <1>2, <1>3, <2>1, ListIs DEF n
  <2>3. f[i] = X \o e /\ f[i + 1] = X \o After(l, m)
    BY <1>4, <2>1
  <2>4. IsSeq(e)
    BY <1>5, <2>2, TailIs
  <2> HIDE DEF k, l, e
  <2>5. CASE PairOf(d, 1, i).kind = "other"
    BY <2>2, <2>3, <2>5 DEF Grown, e
  <2>6. CASE PairOf(d, 1, i).kind # "other"
    <3> DEFINE x == Meaning(d, PairOf(d, 1, i))
    <3>1. l = Append(k, x) /\ Grown(d, f[i], PairOf(d, 1, i)) = Append(f[i], x)
      BY <2>2, <2>6 DEF Grown
    <3> HIDE DEF x
    <3>2. After(l, m) = Append(e, x)
      BY <1>5, <2>2, <3>1, TailOfAppend DEF e
    <3>3. X \o Append(e, x) = Append(X \o e, x)
      BY <2>4, AppendToConcat
    <3> QED
      BY <2>3, <3>1, <3>2, <3>3
  <2> QED
    BY <2>5, <2>6
<1>8. IsSeq(After(KeptAt(d, 1, n + 1), m))
  BY <1>1, <1>2, <1>3, <1>5, TailIs
<1> QED
  BY <1>1, <1>4, <1>6, <1>7, <1>8 DEF Growing, f, m, n

\* An activation has done with a pair, read as something or stepped over, and
\* goes on at its end.
Went(f, end, g) ==
  /\ g.at = end /\ g.seen = f.seen + 1 /\ (g.over => Past(end))
  /\ g.pairs = f.pairs \/ \E x : g.pairs = Append(f.pairs, x)

Passed ==
  /\ Named /\ UNCHANGED out /\ Len(stack') = Len(stack)
  /\ \A k \in 1 .. Len(stack) - 1 : stack'[k] = stack[k]
  /\ Went(Top, End, stack'[Len(stack)])

Entered ==
  /\ Named /\ UNCHANGED out /\ Len(stack') = Len(stack) + 1
  /\ \A k \in 1 .. Len(stack) - 1 : stack'[k] = stack[k]
  /\ stack'[Len(stack)].pairs = Top.pairs /\ stack'[Len(stack)].seen = Top.seen
  /\ stack'[Len(stack)].end = End

Left ==
  /\ Len(stack) # 1 /\ UNCHANGED out /\ Len(stack') = Len(stack) - 1
  /\ \A k \in 1 .. Len(stack) - 2 : stack'[k] = stack[k]
  /\ Went(stack[Len(stack) - 1], stack[Len(stack) - 1].end, stack'[Len(stack) - 1])

Ended ==
  /\ Len(stack) = 1 /\ out' = Ok(Top.pairs)
  /\ Top.over \/ Word(Top.at) = 0

\* Whatever the data is, a step does one of these to the activations.
LEMMA LeafPasses ==
  ASSUME NvTypes, Named, stack # <<>>, NEW value, Leaf(value)
  PROVE  Passed
<1> DEFINE g == Push(Top, Name, value, End)
<1>1. IsFrame(Top) /\ stream \in Streams /\ Len(stack) \in Nat \ {0}
  BY TopIs DEF NvTypes
<1>2. End \in Nat \ {0} /\ Top.seen < MaxPairs
  BY <1>1, PlacesAre
<1>3. /\ g.at = End /\ g.seen = Top.seen + 1 /\ (g.over <=> Past(End))
      /\ g.pairs = Append(Top.pairs, <<Name, value>>)
  BY <1>1, <1>2, PushIs
<1>4. stack' = Replace(g) /\ UNCHANGED out
  BY DEF Leaf
<1> HIDE DEF g
<1>5. Len(stack') = Len(stack) /\ stack'[Len(stack)] = g /\ \A k \in 1 .. Len(stack) - 1 : stack'[k] = stack[k]
  BY <1>4, ReplaceIs
<1>6. Went(Top, End, g)
  BY <1>3 DEF Went
<1> QED
  BY <1>4, <1>5, <1>6 DEF Passed

LEMMA StackStep ==
  ASSUME NvTypes, stack # <<>>, out = Pending, Next
  PROVE  \/ \E error \in {"bomb", "truncated"} : out' = Err(error)
         \/ Passed \/ Entered \/ Left \/ Ended
<1>1. IsFrame(Top) /\ stream \in Streams /\ Len(stack) \in Nat \ {0}
  BY TopIs DEF NvTypes
<1>2. CASE TooManyPairs \/ NegativeSize \/ BadName \/ BadString \/ BadByteCount
  BY <1>2 DEF TooManyPairs, NegativeSize, BadName, BadString, BadByteCount, StringError, Fail
<1>3. CASE TakeInteger
  BY <1>3, <1>1, LeafPasses DEF TakeInteger
<1>4. CASE TakeString
  BY <1>4, <1>1, LeafPasses DEF TakeString
<1>5. CASE TakeBytes
  BY <1>5, <1>1, LeafPasses DEF TakeBytes
<1>6. CASE SkipPair
  <2> DEFINE g == [Top EXCEPT !.at = End, !.seen = @ + 1]
  <2>1. Named /\ UNCHANGED out /\ stack' = Replace(g) /\ ~ Top.over
    BY <1>6 DEF SkipPair, Named, AtPair, Looping
  <2>2. End \in Nat \ {0} /\ Top.seen < MaxPairs
    BY <1>1, <2>1, PlacesAre
  <2>3. g.at = End /\ g.seen = Top.seen + 1 /\ g.over = Top.over /\ g.pairs = Top.pairs
    BY <1>1, <2>2, SkipIs
  <2> HIDE DEF g
  <2>4. Len(stack') = Len(stack) /\ stack'[Len(stack)] = g /\ \A k \in 1 .. Len(stack) - 1 : stack'[k] = stack[k]
    BY <2>1, ReplaceIs
  <2>5. Went(Top, End, g)
    BY <2>1, <2>3 DEF Went
  <2> QED
    BY <2>1, <2>4, <2>5 DEF Passed
<1>7. CASE EnterList
  <2>1. CASE Len(stack) > MaxDepth
    BY <1>7, <2>1 DEF EnterList, Fail
  <2>2. CASE ~ (Len(stack) > MaxDepth)
    <3> DEFINE f == Waiting(Top, Name, End)
    <3>1. Named /\ UNCHANGED out /\ stack' = Deeper(f, Frame(ValueAt + 2))
      BY <1>7, <2>2 DEF EnterList, Deeper, Waiting
    <3>2. End \in Nat \ {0}
      BY <1>1, <3>1, PlacesAre
    <3>3. f.pairs = Top.pairs /\ f.seen = Top.seen /\ f.end = End
      BY <1>1, <3>2, CallIs
    <3> HIDE DEF f
    <3>4. /\ Len(stack') = Len(stack) + 1 /\ stack'[Len(stack)] = f
          /\ \A k \in 1 .. Len(stack) - 1 : stack'[k] = stack[k]
      BY <3>1, EnterIs
    <3> QED
      BY <3>1, <3>3, <3>4 DEF Entered
  <2> QED
    BY <2>1, <2>2
<1>8. CASE EndList /\ Len(stack) # 1
  <2> DEFINE m == Len(stack) - 1
             caller == stack[m]
             value == <<"list", Top.pairs>>
             g == Push(caller, caller.name, value, caller.end)
  <2>1. m \in 1 .. Len(stack) - 1 /\ Len(stack) > 1 /\ m \in 1 .. Len(stack)
    <3>1. Len(stack) # 1 /\ \A k \in Nat \ {0} :
            k # 1 => k - 1 \in 1 .. k - 1 /\ k > 1 /\ k - 1 \in 1 .. k
      BY <1>8
    <3> QED
      BY <1>1, <3>1
  <2>2. stack' = Append(SubSeq(stack, 1, Len(stack) - 2), g) /\ UNCHANGED out
    BY <1>8 DEF EndList
  <2>3. IsFrame(caller) /\ caller.seen < MaxPairs /\ caller.end \in Nat \ {0}
    <3>1. IsFrame(caller) /\ caller.seen < MaxPairs /\ caller.end # 0
      BY <2>1 DEF NvTypes
    <3> QED
      BY <3>1 DEF IsFrame
  <2>4. /\ g.at = caller.end /\ g.seen = caller.seen + 1 /\ (g.over <=> Past(caller.end))
        /\ g.pairs = Append(caller.pairs, <<caller.name, value>>)
    <3> HIDE DEF caller, value
    <3> QED
      BY <1>1, <2>3, PushIs
  <2> HIDE DEF g
  <2>5. /\ Len(stack') = Len(stack) - 1 /\ stack'[Len(stack) - 1] = g
        /\ \A k \in 1 .. Len(stack) - 2 : stack'[k] = stack[k]
    BY <2>1, <2>2, LeaveIs
  <2>6. Went(caller, caller.end, g)
    <3> HIDE DEF caller, value
    <3> QED
      BY <2>4 DEF Went
  <2> QED
    BY <1>8, <2>2, <2>5, <2>6 DEF Left
<1>9. CASE EndList /\ Len(stack) = 1
  BY <1>9 DEF EndList, Looping, Ended
<1>10. ~ Parse /\ ~ Returned
  BY DEF Parse, Returned
<1> QED
  BY <1>2, <1>3, <1>4, <1>5, <1>6, <1>7, <1>8, <1>9, <1>10 DEF Next

\* The pairs of the outermost activation only grow at their end.
LEMMA OuterGrows ==
  ASSUME NvTypes, stack # <<>>, out = Pending, Next,
         NEW kept, IsSeq(kept), Begins(stack[1].pairs, kept)
  PROVE  \/ \E error \in {"bomb", "truncated"} : out' = Err(error)
         \/ UNCHANGED out /\ stack' # <<>> /\ Begins(stack'[1].pairs, kept)
         \/ \E pairs : out' = Ok(pairs) /\ Begins(pairs, kept)
<1>1. Len(stack) \in Nat \ {0} /\ \A k \in 1 .. Len(stack) : IsFrame(stack[k])
  BY TopIs DEF NvTypes
<1>2. ASSUME NEW f, NEW end, NEW g, Went(f, end, g), Begins(f.pairs, kept)
      PROVE  Begins(g.pairs, kept)
  BY <1>2, BeginsStill DEF Went
<1>3. CASE Passed
  <2>1. Begins(stack'[1].pairs, kept)
    <3>1. CASE Len(stack) = 1
      BY <1>2, <1>3, <3>1 DEF Passed, Top
    <3>2. CASE Len(stack) # 1
      <4>1. 1 \in 1 .. Len(stack) - 1
        BY <1>1, <3>2
      <4> QED
        BY <1>3, <4>1 DEF Passed
    <3> QED
      BY <3>1, <3>2
  <2>2. stack' # <<>>
    BY <1>1, <1>3 DEF Passed
  <2> QED
    BY <1>3, <2>1, <2>2 DEF Passed
<1>4. CASE Entered
  <2>1. Begins(stack'[1].pairs, kept)
    <3>1. CASE Len(stack) = 1
      BY <1>4, <3>1 DEF Entered, Top
    <3>2. CASE Len(stack) # 1
      <4>1. 1 \in 1 .. Len(stack) - 1
        BY <1>1, <3>2
      <4> QED
        BY <1>4, <4>1 DEF Entered
    <3> QED
      BY <3>1, <3>2
  <2>2. stack' # <<>>
    BY <1>1, <1>4 DEF Entered
  <2> QED
    BY <1>4, <2>1, <2>2 DEF Entered
<1>5. CASE Left
  <2>1. Begins(stack'[1].pairs, kept)
    <3>1. CASE Len(stack) = 2
      <4>1. Len(stack) - 1 = 1
        BY <3>1
      <4> QED
        BY <1>2, <1>5, <4>1 DEF Left
    <3>2. CASE Len(stack) # 2
      <4>1. 1 \in 1 .. Len(stack) - 2
        BY <1>1, <1>5, <3>2 DEF Left
      <4> QED
        BY <1>5, <4>1 DEF Left
    <3> QED
      BY <3>1, <3>2
  <2>2. stack' # <<>>
    BY <1>1, <1>5 DEF Left
  <2> QED
    BY <1>5, <2>1, <2>2 DEF Left
<1>6. CASE Ended
  BY <1>6 DEF Ended, Top
<1> QED
  BY <1>3, <1>4, <1>5, <1>6, StackStep

\* What becomes of an answer to a stream with one damaged word.
Mended(d, q, X) ==
  X = KeptAt(d, 1, q) \/ \E x : X = Append(KeptAt(d, 1, q), x)

Survives(d, q, pairs) ==
  /\ Begins(pairs, KeptAt(d, 1, q))
  /\ d.harmed # Place(d, 1, q) =>
       \E X : /\ Mended(d, q, X)
              /\ pairs = X \o After(KeptAt(d, 1, Count(d, 1) + 1), Len(KeptAt(d, 1, q + 1)))

\* Before the damaged pair or at it.
Before(d, s, q) ==
  \E ls, is : /\ Trail(d, s, ls, is, d.lists[1].kept, 1)
              /\ is[1] < q \/ (is[1] = q /\ Len(s) = 1)

\* The size of the pair is damaged: what is before it is left alone.
Ruined(d, s, q) == d.harmed = Place(d, 1, q) /\ Begins(s[1].pairs, KeptAt(d, 1, q))

\* In a nested list of the damaged pair, whatever is read there.
Inside(d, s, q) ==
  /\ d.harmed # Place(d, 1, q) /\ Len(s) # 1
  /\ s[1].pairs = KeptAt(d, 1, q) /\ s[1].seen = q - 1
  /\ s[1].end = Place(d, 1, q + 1)

\* After the damaged pair.
Beyond(d, s, q) ==
  /\ d.harmed # Place(d, 1, q)
  /\ \E ls, is, X : Mended(d, q, X) /\ Trail(d, s, ls, is, Spliced(d, q, X), q + 1)

Phase(d, s, q) == Before(d, s, q) \/ Ruined(d, s, q) \/ Inside(d, s, q) \/ Beyond(d, s, q)

DamageInv ==
  \A q : Damaged(stream, q) =>
    /\ out = Pending /\ stack # <<>> => Phase(stream, stack, q)
    /\ \A pairs : out = Ok(pairs) => Survives(stream, q, pairs)

\* What a step may do to a phase.
Keeps(q) ==
  \/ \E error \in {"bomb", "truncated"} : out' = Err(error)
  \/ UNCHANGED out /\ stack' # <<>> /\ Phase(stream, stack', q)
  \/ \E pairs : out' = Ok(pairs) /\ Survives(stream, q, pairs)

LEMMA DamagedIs ==
  ASSUME NEW d \in Streams, NEW q, Damaged(d, q)
  PROVE  /\ q \in Nat \ {0} /\ Count(d, 1) \in Nat /\ q <= Count(d, 1)
         /\ 1 \in DOMAIN d.lists
         /\ Place(d, 1, q) \in Nat \ {0} /\ Place(d, 1, q + 1) \in Nat \ {0}
         /\ Place(d, 1, q) < Place(d, 1, q + 1) /\ Place(d, 1, q + 1) < Len(d.data)
         /\ Len(d.data) \in Nat /\ Len(d.data) = Len(d.words)
         /\ d.words[Place(d, 1, q)] = Place(d, 1, q + 1) - Place(d, 1, q)
         /\ \A i \in 1 .. Count(d, 1) : Present(d, 1, i)
         /\ \A i \in 1 .. Count(d, 1) + 1 : i # q => PairClean(d, 1, i)
         /\ IsSeq(KeptAt(d, 1, q))
<1> DEFINE n == Count(d, 1)
<1>1. 1 \in DOMAIN d.lists /\ n \in Nat /\ q \in 1 .. n
  BY OutermostIs, ListIs DEF Damaged
<1>2. q \in Nat \ {0} /\ q <= n /\ q \in 1 .. n + 1 /\ q + 1 \in 1 .. n + 1 /\ q < q + 1
  BY <1>1
<1>3. /\ Place(d, 1, q) \in Nat \ {0} /\ Place(d, 1, q + 1) \in Nat \ {0}
      /\ Place(d, 1, q) < Place(d, 1, q + 1)
  BY <1>1, <1>2, ListIs DEF n
<1>4. /\ Len(d.data) \in Nat /\ Len(d.data) = Len(d.words)
      /\ d.harmed \in Place(d, 1, q) .. Place(d, 1, q + 1) - 1
      /\ \A w \in Nat \ {0} : w # d.harmed => Clean(d, w)
  BY StreamsAssumption DEF Written, Damaged
<1>5. Place(d, 1, q + 1) < Len(d.data)
  <2>1. q + 1 \in q + 1 .. n + 1
    BY <1>2
  <2> QED
    BY <1>1, <1>2, <1>4, <2>1, PlacesGrow DEF n
<1>6. d.words[Place(d, 1, q)] = Place(d, 1, q + 1) - Place(d, 1, q)
  BY <1>1, PairIs DEF n
<1>7. ASSUME NEW i \in 1 .. n PROVE Present(d, 1, i)
  <2>1. \/ Present(d, 1, i)
        \/ Len(d.data) < Len(d.words)
    BY <1>1, CutFromThere DEF n
  <2> QED
    BY <1>4, <2>1
<1>8. ASSUME NEW i \in 1 .. n + 1, i # q PROVE PairClean(d, 1, i)
  <2> DEFINE last == IF i = n + 1 THEN Place(d, 1, i) ELSE Place(d, 1, i + 1) - 1
  <2>1. Place(d, 1, i) \in Nat \ {0} /\ (i # n + 1 => Place(d, 1, i + 1) \in Nat \ {0})
    <3>1. i # n + 1 => i + 1 \in 1 .. n + 1
      BY <1>1
    <3> QED
      BY <1>1, <3>1, ListIs DEF n
  <2>2. CASE i < q
    <3>1. i + 1 \in 1 .. n + 1 /\ q \in i + 1 .. n + 1 /\ i # n + 1
      BY <1>1, <1>2, <2>2
    <3>2. Place(d, 1, i + 1) <= Place(d, 1, q)
      BY <1>1, <3>1, PlacesGrow DEF n
    <3>3. \A w \in Place(d, 1, i) .. Place(d, 1, i + 1) - 1 : w \in Nat \ {0} /\ w # d.harmed
      BY <1>3, <1>4, <2>1, <3>1, <3>2
    <3> QED
      BY <1>4, <3>1, <3>3 DEF PairClean, n
  <2>3. CASE i > q
    <3>1. i \in q + 1 .. n + 1
      BY <1>1, <1>2, <2>3
    <3>2. Place(d, 1, q + 1) <= Place(d, 1, i)
      BY <1>1, <1>2, <3>1, PlacesGrow DEF n
    <3>3. \A w \in Place(d, 1, i) .. last : w \in Nat \ {0} /\ w # d.harmed
      BY <1>3, <1>4, <2>1, <3>2
    <3> QED
      BY <1>4, <3>3 DEF PairClean, n
  <2> QED
    BY <1>1, <1>2, <1>8, <2>2, <2>3
<1>9. IsSeq(KeptAt(d, 1, q))
  BY <1>1, <1>2, KeptIsSeq DEF n
<1> QED
  BY <1>1, <1>2, <1>3, <1>4, <1>5, <1>6, <1>7, <1>8, <1>9

\* The outermost activation goes on after the damaged pair.
LEMMA BeyondBegins ==
  ASSUME stream \in Streams, NEW q, Damaged(stream, q), stream.harmed # Place(stream, 1, q),
         NEW s, Len(s) = 1, NEW f, f.pairs = KeptAt(stream, 1, q), f.seen = q - 1,
         Went(f, Place(stream, 1, q + 1), s[1])
  PROVE  Beyond(stream, s, q)
<1> DEFINE X == s[1].pairs
           b == q + 1
<1>1. /\ q \in Nat \ {0} /\ Count(stream, 1) \in Nat /\ q <= Count(stream, 1)
      /\ 1 \in DOMAIN stream.lists /\ Len(stream.data) \in Nat
      /\ Place(stream, 1, b) \in Nat \ {0} /\ Place(stream, 1, b) < Len(stream.data)
      /\ IsSeq(KeptAt(stream, 1, q))
  BY DamagedIs
<1>2. Mended(stream, q, X)
  BY DEF Mended, Went
<1>3. IsSeq(X)
  <2> HIDE DEF X
  <2>1. CASE X = KeptAt(stream, 1, q)
    BY <1>1, <2>1
  <2>2. ASSUME NEW x, X = Append(KeptAt(stream, 1, q), x) PROVE IsSeq(X)
    BY <1>1, <2>2, AppendIs
  <2> QED
    BY <1>2, <2>1, <2>2 DEF Mended
<1>4. Spliced(stream, q, X)[b] = X
  <2>1. q \in 1 .. Count(stream, 1)
    BY <1>1
  <2> QED
    BY <1>3, <2>1, SplicedIs
<1>5. /\ s[1].at = Place(stream, 1, b) /\ s[1].seen = b - 1
      /\ s[1].over => Gone(stream, s[1].at)
  BY <1>1 DEF Went, Past, Gone
<1>6. Here(stream, s[1], 1, b, Spliced(stream, q, X)[b])
  BY <1>4, <1>5 DEF Here
<1>7. On(stream, 1, 1, b, b)
  <2>1. b \in 1 .. Count(stream, 1) + 1 /\ b >= b /\ \A j \in 1 .. b - 1 : ~ (j >= b)
    BY <1>1
  <2>2. Place(stream, 1, b) - 1 <= Len(stream.data) /\ stream.lists[1].depth = 0
    BY <1>1, OutermostIs
  <2> QED
    BY <1>1, <2>1, <2>2 DEF On
<1> HIDE DEF X
<1>8. Trail(stream, s, <<1>>, <<b>>, Spliced(stream, q, X), b)
  <2>1. (\A k \in 1 .. 1 : k = 1) /\ (\A k \in 1 .. 1 - 1 : FALSE) /\ <<1>>[1] = 1 /\ <<b>>[1] = b
    OBVIOUS
  <2>2. /\ \A k \in 1 .. 1 : On(stream, k, <<1>>[k], <<b>>[k], b)
        /\ AtTop(stream, s[1], <<1>>[1], <<b>>[1],
                 Expected(stream, 1, <<1>>[1], <<b>>[1], Spliced(stream, q, X)))
    BY <1>6, <1>7, <2>1 DEF AtTop, Expected
  <2> QED
    BY <2>1, <2>2 DEF Trail
<1> QED
  BY <1>2, <1>8 DEF Beyond

\* Before the damaged pair nothing is different from a stream that is whole.
LEMMA BeforeStep ==
  ASSUME NvTypes, stack # <<>>, out = Pending, Next, NEW q, Damaged(stream, q),
         NEW ls, NEW is, Trail(stream, stack, ls, is, Outermost.kept, 1), is[1] < q
  PROVE  Keeps(q)
<1>1. /\ stream \in Streams /\ Len(stack) \in Nat \ {0}
  BY TopIs DEF NvTypes
<1>2. /\ q \in Nat \ {0} /\ Count(stream, 1) \in Nat /\ q <= Count(stream, 1)
      /\ \A i \in 1 .. Count(stream, 1) + 1 : i # q => PairClean(stream, 1, i)
      /\ Len(stream.data) = Len(stream.words) /\ Len(stream.data) \in Nat
  BY <1>1, DamagedIs
<1>3. is[1] \in 1 .. Count(stream, 1) + 1
  BY <1>1 DEF Trail, On
<1>4. PairClean(stream, 1, is[1]) /\ is[1] # Count(stream, 1) + 1
  BY <1>2, <1>3
<1>5. OnTrail(ls, is, Outermost.kept, 1)
  BY <1>1, <1>4, OutermostGrows DEF OnTrail, Outermost
<1>6. CASE UNCHANGED out /\ stack' # <<>> /\ Further(stream, stack', is[1], Outermost.kept, 1)
  <2>1. PICK ms, js : /\ Trail(stream, stack', ms, js, Outermost.kept, 1)
                      /\ js[1] = is[1] \/ (js[1] = is[1] + 1 /\ Len(stack') = 1)
    BY <1>6 DEF Further
  <2>2. js[1] < q \/ (js[1] = q /\ Len(stack') = 1)
    BY <1>2, <1>3, <2>1
  <2>3. Before(stream, stack', q)
    BY <2>1, <2>2 DEF Before, Outermost
  <2> QED
    BY <1>6, <2>3 DEF Keeps, Phase
<1>7. ~ Finished(stream, Top.pairs, Outermost.kept, 1, is[1])
  BY <1>2, <1>4 DEF Finished
<1> QED
  BY <1>5, <1>6, <1>7, TrailStep DEF Keeps

\* At the damaged pair, which is found where it was written.
LEMMA AtIt ==
  ASSUME NvTypes, stack # <<>>, NEW q, Damaged(stream, q),
         NEW ls, NEW is, Trail(stream, stack, ls, is, Outermost.kept, 1),
         is[1] = q, Len(stack) = 1
  PROVE  /\ Top = stack[1] /\ Top.at = Place(stream, 1, q) /\ ~ Top.over
         /\ Top.pairs = KeptAt(stream, 1, q) /\ Top.seen = q - 1
<1>1. stream \in Streams
  BY DEF NvTypes
<1>2. /\ q \in Nat \ {0} /\ q \in 1 .. Count(stream, 1) /\ Present(stream, 1, q)
      /\ Place(stream, 1, q) \in Nat /\ Place(stream, 1, q + 1) \in Nat
      /\ Place(stream, 1, q) < Place(stream, 1, q + 1)
      /\ Place(stream, 1, q + 1) < Len(stream.data) /\ Len(stream.data) \in Nat
  BY <1>1, DamagedIs DEF Damaged
<1>3. AtTop(stream, stack[1], ls[1], q, Outermost.kept[q]) /\ ls[1] = 1
  <2>1. 1 \in 1 .. 1
    OBVIOUS
  <2> QED
    BY <2>1 DEF Trail, On, Expected
<1>4. Here(stream, stack[1], 1, q, KeptAt(stream, 1, q))
  BY <1>2, <1>3 DEF AtTop, Broken, KeptAt, Outermost
<1>5. ~ Gone(stream, Place(stream, 1, q))
  BY <1>2 DEF Gone
<1> QED
  BY <1>4, <1>5 DEF Here, Top

\* If its size is damaged, what is before the pair is left alone.
LEMMA RuinedStep ==
  ASSUME NvTypes, stack # <<>>, out = Pending, Next, NEW q, Damaged(stream, q),
         Ruined(stream, stack, q)
  PROVE  Keeps(q)
<1>1. stream \in Streams
  BY DEF NvTypes
<1>2. IsSeq(KeptAt(stream, 1, q))
  BY <1>1, DamagedIs
<1> QED
  BY <1>2, OuterGrows DEF Ruined, Keeps, Phase, Survives

\* If not, its end is the one that was written.
LEMMA DamagedStep ==
  ASSUME NvTypes, stack # <<>>, out = Pending, Next, NEW q, Damaged(stream, q),
         NEW ls, NEW is, Trail(stream, stack, ls, is, Outermost.kept, 1),
         is[1] = q, Len(stack) = 1, stream.harmed # Place(stream, 1, q)
  PROVE  Keeps(q)
<1> DEFINE a == Place(stream, 1, q)
           e == Place(stream, 1, q + 1)
<1>1. stream \in Streams
  BY DEF NvTypes
<1>2. /\ a \in Nat \ {0} /\ e \in Nat \ {0} /\ a < e /\ e < Len(stream.data)
      /\ Len(stream.data) \in Nat /\ stream.words[a] = e - a
  BY <1>1, DamagedIs
<1>3. /\ Top = stack[1] /\ Top.at = a /\ ~ Top.over
      /\ Top.pairs = KeptAt(stream, 1, q) /\ Top.seen = q - 1
  BY AtIt
<1>4. Clean(stream, a)
  BY <1>2 DEF Damaged
<1>5. Word(a) = e - a
  <2>1. a <= Len(stream.data)
    BY <1>2
  <2> QED
    BY <1>1, <1>2, <1>4, <2>1, ReadIs
<1> HIDE DEF a, e
<1>6. End = e /\ Word(Top.at) # 0
  BY <1>2, <1>3, <1>5 DEF End
<1>7. CASE Passed
  <2>1. Len(stack') = 1 /\ Went(Top, e, stack'[1]) /\ UNCHANGED out
    BY <1>6, <1>7 DEF Passed
  <2>2. Beyond(stream, stack', q)
    BY <1>1, <1>3, <2>1, BeyondBegins DEF a, e
  <2> QED
    BY <2>1, <2>2 DEF Keeps, Phase
<1>8. CASE Entered
  <2>1. /\ Len(stack') = 2 /\ UNCHANGED out /\ stack'[1].pairs = Top.pairs
        /\ stack'[1].seen = Top.seen /\ stack'[1].end = End
    BY <1>8 DEF Entered
  <2>2. Inside(stream, stack', q)
    BY <1>3, <1>6, <2>1 DEF Inside, e
  <2>3. stack' # <<>> /\ UNCHANGED out
    BY <2>1
  <2>4. Phase(stream, stack', q)
    BY <2>2 DEF Phase
  <2> QED
    BY <2>3, <2>4 DEF Keeps
<1>9. ~ Left /\ ~ Ended
  BY <1>3, <1>6 DEF Left, Ended
<1> QED
  BY <1>7, <1>8, <1>9, StackStep DEF Keeps

\* Whatever a nested list of the damaged pair holds, its caller goes on at the
\* end of the pair.
LEMMA InsideStep ==
  ASSUME NvTypes, stack # <<>>, out = Pending, Next, NEW q, Damaged(stream, q),
         Inside(stream, stack, q)
  PROVE  Keeps(q)
<1>1. stream \in Streams /\ Len(stack) \in Nat \ {0} /\ Len(stack) # 1
  BY TopIs DEF NvTypes, Inside
<1>2. 1 \in 1 .. Len(stack) - 1
  BY <1>1
<1>3. CASE Passed
  <2>1. Len(stack') # 1 /\ stack' # <<>> /\ stack'[1] = stack[1] /\ UNCHANGED out
    BY <1>1, <1>2, <1>3 DEF Passed
  <2>2. Inside(stream, stack', q)
    BY <2>1 DEF Inside
  <2> QED
    BY <2>1, <2>2 DEF Keeps, Phase
<1>4. CASE Entered
  <2>1. Len(stack') # 1 /\ stack' # <<>> /\ stack'[1] = stack[1] /\ UNCHANGED out
    BY <1>1, <1>2, <1>4 DEF Entered
  <2>2. Inside(stream, stack', q)
    BY <2>1 DEF Inside
  <2> QED
    BY <2>1, <2>2 DEF Keeps, Phase
<1>5. CASE Left /\ Len(stack) = 2
  <2>1. Len(stack) - 1 = 1
    BY <1>5
  <2>2. Len(stack') = 1 /\ stack' # <<>> /\ UNCHANGED out /\ Went(stack[1], stack[1].end, stack'[1])
    BY <1>5, <2>1 DEF Left
  <2>3. Beyond(stream, stack', q)
    BY <1>1, <2>2, BeyondBegins DEF Inside
  <2> QED
    BY <2>2, <2>3 DEF Keeps, Phase
<1>6. CASE Left /\ Len(stack) # 2
  <2>1. 1 \in 1 .. Len(stack) - 2
    <3>1. \A k \in Nat \ {0} : k # 1 /\ k # 2 => 1 \in 1 .. k - 2
      OBVIOUS
    <3> QED
      BY <1>1, <1>6, <3>1
  <2>2. Len(stack') # 1 /\ stack' # <<>> /\ stack'[1] = stack[1] /\ UNCHANGED out
    BY <1>1, <1>6, <2>1 DEF Left
  <2>3. Inside(stream, stack', q)
    BY <2>2 DEF Inside
  <2> QED
    BY <2>2, <2>3 DEF Keeps, Phase
<1>7. ~ Ended
  BY <1>1 DEF Ended
<1> QED
  BY <1>3, <1>4, <1>5, <1>6, <1>7, StackStep DEF Keeps

\* After it, the pairs are read as they were written.
LEMMA BeyondStep ==
  ASSUME NvTypes, stack # <<>>, out = Pending, Next, NEW q, Damaged(stream, q),
         Beyond(stream, stack, q)
  PROVE  Keeps(q)
<1> DEFINE n == Count(stream, 1)
           b == q + 1
<1>1. stream \in Streams /\ Len(stack) \in Nat \ {0}
  BY TopIs DEF NvTypes
<1>2. /\ q \in Nat \ {0} /\ n \in Nat /\ q <= n /\ q \in 1 .. n
      /\ \A i \in 1 .. n + 1 : i # q => PairClean(stream, 1, i)
      /\ Len(stream.data) = Len(stream.words) /\ Len(stream.data) \in Nat
      /\ IsSeq(KeptAt(stream, 1, q))
  BY <1>1, DamagedIs DEF Damaged
<1>3. PICK ls, is, X : Mended(stream, q, X) /\ Trail(stream, stack, ls, is, Spliced(stream, q, X), b)
  BY DEF Beyond
<1>4. IsSeq(X) /\ Begins(X, KeptAt(stream, 1, q))
  <2>1. Begins(KeptAt(stream, 1, q), KeptAt(stream, 1, q))
    BY <1>2, SeqIs DEF Begins
  <2>2. CASE X = KeptAt(stream, 1, q)
    BY <1>2, <2>1, <2>2
  <2>3. ASSUME NEW x, X = Append(KeptAt(stream, 1, q), x)
        PROVE  IsSeq(X) /\ Begins(X, KeptAt(stream, 1, q))
    BY <1>2, <2>1, <2>3, AppendIs, BeginsStill
  <2> QED
    BY <1>3, <2>2, <2>3 DEF Mended
<1> DEFINE f == Spliced(stream, q, X)
           rest == After(KeptAt(stream, 1, n + 1), Len(KeptAt(stream, 1, b)))
<1>5. Growing(stream, f, b) /\ f[n + 1] = X \o rest /\ IsSeq(rest)
  BY <1>1, <1>2, <1>4, SplicedIs
<1> HIDE DEF f, rest
<1>6. is[1] \in 1 .. n + 1 /\ is[1] >= b
  BY <1>1, <1>3 DEF Trail, On
<1>7. PairClean(stream, 1, is[1])
  BY <1>2, <1>6
<1>8. OnTrail(ls, is, f, b)
  BY <1>1, <1>2, <1>3, <1>5, <1>7 DEF OnTrail, f
<1>9. CASE UNCHANGED out /\ stack' # <<>> /\ Further(stream, stack', is[1], f, b)
  <2>1. Beyond(stream, stack', q)
    BY <1>3, <1>9 DEF Further, Beyond, f
  <2> QED
    BY <1>9, <2>1 DEF Keeps, Phase
<1>10. CASE out' = Ok(Top.pairs) /\ Finished(stream, Top.pairs, f, b, is[1])
  <2>1. Top.pairs = X \o rest
    BY <1>2, <1>5, <1>10 DEF Finished
  <2>2. Begins(X \o rest, KeptAt(stream, 1, q))
    BY <1>2, <1>4, <1>5, BeginsConcat
  <2>3. Survives(stream, q, Top.pairs)
    BY <1>3, <2>1, <2>2 DEF Survives, rest
  <2> QED
    BY <1>10, <2>3 DEF Keeps
<1> QED
  BY <1>8, <1>9, <1>10, TrailStep DEF Keeps

LEMMA DamageStep ==
  ASSUME NvTypes, DamageInv, [Next]_vars
  PROVE  DamageInv'
<1>1. UNCHANGED stream /\ (out # Pending => UNCHANGED <<stack, out>>)
  BY StreamStays
<1> SUFFICES ASSUME NEW q, Damaged(stream, q)
             PROVE  /\ out' = Pending /\ stack' # <<>> => Phase(stream, stack', q)
                    /\ \A pairs : out' = Ok(pairs) => Survives(stream, q, pairs)
  BY <1>1 DEF DamageInv
<1>2. stream \in Streams
  BY DEF NvTypes
<1>3. CASE UNCHANGED <<stack, out>>
  BY <1>3 DEF DamageInv
<1>4. \A pairs : /\ Ok(pairs) # Pending
                  /\ \A error \in {"bomb", "truncated"} : Err(error) # Ok(pairs)
  BY DEF Ok, Err, Pending
<1>e. \A error \in {"bomb", "truncated"} : Err(error) # Pending
  BY DEF Err, Pending
<1>o. \A p, r : Ok(p) = Ok(r) => p = r
  BY DEF Ok
<1>5. CASE out = Pending /\ stack = <<>> /\ Next
  <2>1. Parse
    BY <1>5 DEF Next, TooManyPairs, NegativeSize, BadName, BadString, BadByteCount,
       TakeInteger, TakeString, TakeBytes, EnterList, SkipPair, EndList, Returned, Named,
       AtPair, Looping
  <2>2. CASE Word(1) = XDR
    <3>1. stack' = <<Frame(4)>> /\ out' = Pending
      BY <1>5, <2>1, <2>2 DEF Parse
    <3>2. Trail(stream, stack', <<1>>, <<1>>, Outermost.kept, 1) /\ Len(stack') = 1
      BY <3>1, TrailBegins
    <3>3. <<1>>[1] = 1 /\ (1 < q \/ 1 = q)
      BY <1>2, DamagedIs
    <3>4. Before(stream, stack', q)
      BY <3>2, <3>3 DEF Before, Outermost
    <3>5. \A pairs : Ok(pairs) # Pending
      BY DEF Ok, Pending
    <3> QED
      BY <3>1, <3>4, <3>5 DEF Phase
  <2>3. CASE Word(1) # XDR
    <3>1. out' = Err("encoding")
      BY <2>1, <2>3 DEF Parse
    <3>2. Err("encoding") # Pending /\ \A pairs : Err("encoding") # Ok(pairs)
      BY DEF Err, Ok, Pending
    <3> QED
      BY <3>1, <3>2
  <2> QED
    BY <2>2, <2>3
<1>6. CASE out = Pending /\ stack # <<>> /\ Next
  <2>1. Phase(stream, stack, q)
    BY <1>6 DEF DamageInv
  <2>2. Keeps(q)
    <3>1. CASE Before(stream, stack, q)
      <4>1. PICK ls, is : /\ Trail(stream, stack, ls, is, Outermost.kept, 1)
                          /\ is[1] < q \/ (is[1] = q /\ Len(stack) = 1)
        BY <3>1 DEF Before, Outermost
      <4>2. CASE is[1] < q
        BY <1>6, <4>1, <4>2, BeforeStep
      <4>3. CASE is[1] = q /\ Len(stack) = 1 /\ stream.harmed # Place(stream, 1, q)
        BY <1>6, <4>1, <4>3, DamagedStep
      <4>4. CASE is[1] = q /\ Len(stack) = 1 /\ stream.harmed = Place(stream, 1, q)
        <5>1. IsSeq(KeptAt(stream, 1, q)) /\ stack[1].pairs = KeptAt(stream, 1, q)
          BY <1>2, <1>6, <4>1, <4>4, AtIt, DamagedIs
        <5>2. Ruined(stream, stack, q)
          BY <4>4, <5>1, SeqIs DEF Ruined, Begins
        <5> QED
          BY <1>6, <5>2, RuinedStep
      <4> QED
        BY <4>1, <4>2, <4>3, <4>4
    <3>2. CASE Ruined(stream, stack, q)
      BY <1>6, <3>2, RuinedStep
    <3>3. CASE Inside(stream, stack, q)
      BY <1>6, <3>3, InsideStep
    <3>4. CASE Beyond(stream, stack, q)
      BY <1>6, <3>4, BeyondStep
    <3> QED
      BY <2>1, <3>1, <3>2, <3>3, <3>4 DEF Phase
  <2>3. CASE \E error \in {"bomb", "truncated"} : out' = Err(error)
    BY <1>4, <1>e, <2>3
  <2>4. CASE UNCHANGED out /\ stack' # <<>> /\ Phase(stream, stack', q)
    BY <1>4, <1>6, <2>4
  <2>5. ASSUME NEW r, out' = Ok(r), Survives(stream, q, r)
        PROVE  /\ out' = Pending /\ stack' # <<>> => Phase(stream, stack', q)
               /\ \A pairs : out' = Ok(pairs) => Survives(stream, q, pairs)
    <3>1. \A p : out' = Ok(p) => p = r
      BY <1>o, <2>5
    <3>2. out' # Pending
      BY <1>4, <2>5
    <3> QED
      BY <2>5, <3>1, <3>2
  <2> QED
    BY <2>2, <2>3, <2>4, <2>5 DEF Keeps
<1> QED
  BY <1>1, <1>3, <1>5, <1>6 DEF vars

LEMMA DamageInvHolds == Spec => [](NvTypes /\ DamageInv)
<1>1. Init => NvTypes /\ DamageInv
  <2>1. \A pairs : Ok(pairs) # Pending
    BY DEF Ok, Pending
  <2> QED
    BY <2>1, NvTypesInit DEF Init, DamageInv
<1>2. NvTypes /\ DamageInv /\ [Next]_vars => (NvTypes /\ DamageInv)'
  BY NvTypesStep, DamageStep
<1> QED
  BY <1>1, <1>2, PTL DEF Spec

LEMMA OnePairIs ==
  ASSUME NEW s, IsSeq(s), NEW x
  PROVE  Append(s, x) = s \o <<x>>
<1> DEFINE a == Append(s, x)
           b == s \o <<x>>
<1>1. IsSeq(<<x>>) /\ Len(<<x>>) = 1 /\ <<x>>[1] = x /\ Len(s) \in Nat
  <2>1. <<x>> \in Seq({x})
    OBVIOUS
  <2> QED
    BY <2>1, SeqIs DEF IsSeq
<1>2. IsSeq(a) /\ Len(a) = Len(s) + 1 /\ (\A i \in 1 .. Len(s) : a[i] = s[i]) /\ a[Len(s) + 1] = x
  BY AppendIs
<1>3. /\ IsSeq(b) /\ Len(b) = Len(s) + 1 /\ (\A i \in 1 .. Len(s) : b[i] = s[i])
      /\ b[Len(s) + 1] = x
  <2>1. /\ IsSeq(b) /\ Len(b) = Len(s) + Len(<<x>>) /\ (\A i \in 1 .. Len(s) : b[i] = s[i])
        /\ \A i \in 1 .. Len(<<x>>) : b[Len(s) + i] = <<x>>[i]
    BY <1>1, ConcatIs
  <2> HIDE DEF b
  <2> QED
    BY <1>1, <2>1
<1> HIDE DEF a, b
<1>4. \A i \in 1 .. Len(a) : a[i] = b[i]
  <2>1. \A i \in 1 .. Len(a) : i = Len(s) + 1 \/ i \in 1 .. Len(s)
    BY <1>1, <1>2
  <2> QED
    BY <1>2, <1>3, <2>1
<1>5. a = b
  BY <1>2, <1>3, <1>4, SameSeq
<1> QED
  BY <1>5 DEF a, b

\* Damage inside one pair of a configuration reaches no pair before it and, if
\* it is not the size of the pair, none after it (nvlist.rs:196-268): for any
\* lists, any damaged word and any value it was given.
THEOREM DamageIsContained == Spec => []DamageStaysInside
<1>1. NvTypes /\ DamageInv => DamageStaysInside
  <2> SUFFICES ASSUME NvTypes, DamageInv, Decoded, ~ Cut, NEW q \in DOMAIN Outermost.pairs,
                      stream.harmed \in Outermost.at[q] .. Outermost.at[q + 1] - 1
               PROVE  LET before == Outermost.kept[q]
                          all == Everything(Outermost)
                          after == SubSeq(all, Len(Outermost.kept[q + 1]) + 1, Len(all)) IN
                      /\ SubSeq(out[2], 1, Len(before)) = before
                      /\ stream.harmed # Outermost.at[q] =>
                           \/ out[2] = before \o after
                           \/ \E j \in DOMAIN out[2] : out[2] = before \o <<out[2][j]>> \o after
    BY DEF DamageStaysInside
  <2>1. stream \in Streams /\ 1 \in DOMAIN stream.lists
    BY OutermostIs DEF NvTypes
  <2>2. q \in 1 .. Count(stream, 1)
    <3>1. Outermost.pairs \in Seq(Pair)
      BY <2>1, StreamsAssumption DEF Written, ListWritten, Outermost
    <3> QED
      BY <3>1 DEF Count, Outermost
  <2>3. /\ Len(stream.data) = Len(stream.words)
        /\ \A i \in DOMAIN stream.words : i # stream.harmed => stream.data[i] = stream.words[i]
    BY <2>1, StreamsAssumption DEF Written, Cut
  <2>4. \A w \in Nat \ {0} : w # stream.harmed => Clean(stream, w)
    <3>1. \A w \in Nat \ {0} : w > Len(stream.data) \/ w \in DOMAIN stream.words
      BY <2>1, <2>3, DataIs
    <3> QED
      BY <2>3, <3>1 DEF Clean
  <2>5. Damaged(stream, q)
    BY <2>2, <2>3, <2>4 DEF Damaged, Place, Outermost
  <2>6. PICK pairs : out = Ok(pairs)
    BY DEF NvTypes, Outcome, Decoded, Pending, Err
  <2>7. out[2] = pairs /\ Survives(stream, q, pairs)
    BY <2>5, <2>6 DEF DamageInv, Ok
  <2> DEFINE before == KeptAt(stream, 1, q)
             rest == After(KeptAt(stream, 1, Count(stream, 1) + 1), Len(KeptAt(stream, 1, q + 1)))
  <2>8. IsSeq(before)
    BY <2>1, <2>5, DamagedIs
  <2>9. SubSeq(pairs, 1, Len(before)) = before
    BY <2>7, <2>8, BeginsIs DEF Survives
  <2>10. IsSeq(rest)
    BY <2>1, <2>2, <2>8, SplicedIs
  <2> HIDE DEF before, rest
  <2>11. ASSUME stream.harmed # Place(stream, 1, q)
         PROVE  \/ pairs = before \o rest
                \/ \E j \in DOMAIN pairs : pairs = before \o <<pairs[j]>> \o rest
    <3>1. PICK X : Mended(stream, q, X) /\ pairs = X \o rest
      BY <2>7, <2>11 DEF Survives, rest
    <3>2. CASE X = before
      BY <3>1, <3>2
    <3>3. ASSUME NEW x, X = Append(before, x)
          PROVE  \E j \in DOMAIN pairs : pairs = before \o <<pairs[j]>> \o rest
      <4> DEFINE m == Len(before) + 1
      <4>1. IsSeq(X) /\ Len(X) = m /\ X[m] = x /\ Len(before) \in Nat
        BY <2>8, <3>3, AppendIs, SeqIs
      <4>2. IsSeq(pairs) /\ Len(pairs) = Len(X) + Len(rest) /\ \A i \in 1 .. Len(X) : pairs[i] = X[i]
        BY <2>10, <3>1, <4>1, ConcatIs
      <4>3. m \in 1 .. Len(X) /\ Len(rest) \in Nat
        BY <2>10, <4>1, SeqIs
      <4>4. pairs[m] = x /\ m \in DOMAIN pairs
        <5>1. pairs[m] = x /\ m \in 1 .. Len(pairs)
          BY <4>1, <4>2, <4>3
        <5>2. DOMAIN pairs = 1 .. Len(pairs)
          BY <4>2 DEF IsSeq
        <5> QED
          BY <5>1, <5>2
      <4>5. X = before \o <<x>>
        BY <2>8, <3>3, OnePairIs
      <4> HIDE DEF m
      <4> QED
        BY <3>1, <4>4, <4>5
    <3> QED
      BY <3>1, <3>2, <3>3 DEF Mended, before
  <2>12. /\ before = Outermost.kept[q]
         /\ stream.harmed # Outermost.at[q] => stream.harmed # Place(stream, 1, q)
    BY DEF before, KeptAt, Place, Outermost
  <2>13. rest = SubSeq(Everything(Outermost), Len(Outermost.kept[q + 1]) + 1, Len(Everything(Outermost)))
    BY DEF rest, After, KeptAt, Count, Everything, Outermost
  <2> QED
    BY <2>7, <2>9, <2>11, <2>12, <2>13
<1> QED
  BY <1>1, DamageInvHolds, PTL

(***************************************************************************)
(* The bonus of an object (SystemAttrs).                                   *)
(***************************************************************************)
LEMMA LeastIs ==
  ASSUME NEW S \in SUBSET Nat, S # {}
  PROVE  Least(S) \in S /\ \A j \in S : Least(S) <= j
<1>1. PICK x \in S : \A y \in S : ~ (<<y, x>> \in OpToRel(<, Nat))
  BY NatLessThanWellFounded, WFMin, Zenon
<1>2. ASSUME NEW y \in S PROVE x <= y
  <2>1. x \in Nat /\ y \in Nat
    OBVIOUS
  <2>2. y < x => <<y, x>> \in OpToRel(<, Nat)
    BY <2>1 DEF OpToRel
  <2>3. ~ (y < x)
    BY <1>1, <2>2, Zenon
  <2> QED
    BY <2>1, <2>3
<1> QED
  BY <1>2 DEF Least

\* What lies between two offsets of a front lies between them in the whole.
LEMMA PartOfFront ==
  ASSUME NEW S, NEW s \in Seq(S), NEW n \in 0 .. Len(s), NEW a \in Nat, NEW b \in Nat, b <= n
  PROVE  /\ SubSeq(SubSeq(s, 1, n), a + 1, b) = SubSeq(s, a + 1, b)
         /\ SubSeq(s, a + 1, b) \in Seq(S)
         /\ Len(SubSeq(s, a + 1, b)) = IF a < b THEN b - a ELSE 0
<1>1. \A i \in a + 1 .. b : s[i] \in S
  BY ElementOfSeq
<1>2. SubSeq(s, a + 1, b) \in Seq(S) /\ Len(SubSeq(s, a + 1, b)) = IF a < b THEN b - a ELSE 0
  BY <1>1, SubSeqProperties
<1>3. CASE a < b
  <2>1. a + 1 \in 1 .. n - 1 + 1 /\ b \in 1 .. n - 1 + 1 /\ 1 \in 1 .. Len(s) /\ n \in 1 .. Len(s)
    BY <1>3
  <2>2. \A i \in 1 .. n : s[i] \in S
    BY ElementOfSeq
  <2>3. SubSeq(SubSeq(s, 1, n), a + 1, b) = SubSeq(s, 1 + (a + 1) - 1, 1 + b - 1)
    BY <2>1, SubSeqOfSubSeq
  <2>4. 1 + (a + 1) - 1 = a + 1 /\ 1 + b - 1 = b
    OBVIOUS
  <2> QED
    BY <2>3, <2>4, <1>2
<1>4. CASE ~ (a < b)
  <2>1. b < a + 1
    BY <1>4
  <2> QED
    BY <2>1, <1>2, SubSeqEmpty
<1> QED
  BY <1>3, <1>4

LEMMA LE16Is ==
  ASSUME NEW bytes \in Seq(0 .. 255), NEW at \in Nat
  PROVE  LE16(bytes, at) \in Nat
<1>1. CASE at + 2 > Len(bytes)
  BY <1>1 DEF LE16
<1>2. CASE ~ (at + 2 > Len(bytes))
  <2>1. at + 1 \in 1 .. Len(bytes) /\ at + 2 \in 1 .. Len(bytes)
    BY <1>2, LenProperties
  <2>2. bytes[at + 1] \in 0 .. 255 /\ bytes[at + 2] \in 0 .. 255
    BY <2>1, ElementOfSeq
  <2>3. \A k, l \in 0 .. 255 : k + 256 * l \in Nat
    OBVIOUS
  <2> QED
    BY <1>2, <2>2, <2>3 DEF LE16
<1> QED
  BY <1>1, <1>2

LEMMA HeaderIs ==
  ASSUME NEW bytes \in Seq(0 .. 255)
  PROVE  HdrSize(bytes) \in Nat
<1>1. Info(bytes) \in Nat
  BY LE16Is DEF Info
<1>2. \A i \in Nat : ((i \div 1024) % 64) * 8 \in Nat
  OBVIOUS
<1> QED
  BY <1>1, <1>2 DEF HdrSize

\* The bonus, and the written one it is a front of.
LEMMA BonusIs ==
  ASSUME NEW x \in Objects
  PROVE  /\ x.full \in Seq(0 .. 255) /\ x.bonus \in Seq(0 .. 255)
         /\ Len(x.bonus) <= Len(x.full)
         /\ \A a, b \in Nat : b <= Len(x.bonus) =>
              /\ SubSeq(x.bonus, a + 1, b) = SubSeq(x.full, a + 1, b)
              /\ SubSeq(x.bonus, a + 1, b) \in Seq(0 .. 255)
              /\ Len(SubSeq(x.bonus, a + 1, b)) = IF a < b THEN b - a ELSE 0
         /\ \A i \in 1 .. Len(x.bonus) : x.bonus[i] = x.full[i]
<1>1. x.full \in Seq(0 .. 255)
  BY ObjectsAssumption DEF ObjectWritten
<1>2. PICK n \in 0 .. Len(x.full) : x.bonus = SubSeq(x.full, 1, n)
  BY ObjectsAssumption DEF ObjectWritten
<1>3. n \in Nat /\ n <= Len(x.full) /\ Len(x.full) \in Nat
  BY <1>1, LenProperties
<1>4. \A i \in 1 .. n : x.full[i] \in 0 .. 255
  <2>1. \A i \in 1 .. n : i \in 1 .. Len(x.full)
    BY <1>3
  <2> QED
    BY <1>1, <2>1, ElementOfSeq
<1>5. /\ SubSeq(x.full, 1, n) \in Seq(0 .. 255)
      /\ Len(SubSeq(x.full, 1, n)) = IF 1 <= n THEN n - 1 + 1 ELSE 0
      /\ \A i \in 1 .. n - 1 + 1 : SubSeq(x.full, 1, n)[i] = x.full[1 + i - 1]
  BY <1>3, <1>4, SubSeqProperties
<1>6. Len(x.bonus) = n
  BY <1>2, <1>3, <1>5
<1>7. ASSUME NEW a \in Nat, NEW b \in Nat, b <= Len(x.bonus)
      PROVE  /\ SubSeq(x.bonus, a + 1, b) = SubSeq(x.full, a + 1, b)
             /\ SubSeq(x.bonus, a + 1, b) \in Seq(0 .. 255)
             /\ Len(SubSeq(x.bonus, a + 1, b)) = IF a < b THEN b - a ELSE 0
  <2>1. b <= n /\ n \in 0 .. Len(x.full)
    BY <1>6, <1>7
  <2>2. /\ SubSeq(SubSeq(x.full, 1, n), a + 1, b) = SubSeq(x.full, a + 1, b)
        /\ SubSeq(x.full, a + 1, b) \in Seq(0 .. 255)
        /\ Len(SubSeq(x.full, a + 1, b)) = IF a < b THEN b - a ELSE 0
    <3> DEFINE full == x.full
               S == 0 .. 255
    <3>1. full \in Seq(S) /\ n \in 0 .. Len(full) /\ b <= n
      BY <1>1, <2>1
    <3> HIDE DEF full, S
    <3>2. /\ SubSeq(SubSeq(full, 1, n), a + 1, b) = SubSeq(full, a + 1, b)
          /\ SubSeq(full, a + 1, b) \in Seq(S)
          /\ Len(SubSeq(full, a + 1, b)) = IF a < b THEN b - a ELSE 0
      BY <3>1, PartOfFront
    <3> QED
      BY <3>2 DEF full, S
  <2> QED
    BY <1>2, <2>2
<1>8. \A i \in 1 .. n : x.bonus[i] = x.full[i]
  BY <1>2, <1>3, <1>5
<1>9. x.bonus \in Seq(0 .. 255) /\ Len(x.bonus) <= Len(x.full)
      /\ \A i \in 1 .. Len(x.bonus) : x.bonus[i] = x.full[i]
  BY <1>2, <1>3, <1>5, <1>6, <1>8
<1> QED
  BY <1>1, <1>7, <1>9

LEMMA TablesAre ==
  ASSUME NEW x \in Objects
  PROVE  /\ DOMAIN x.registry \subseteq Nat
         /\ \A i \in DOMAIN x.registry : IdAt(x, i) \in Nat /\ SizeAt(x, i) \in Nat
         /\ DOMAIN x.layouts \subseteq Nat
         /\ \A i \in DOMAIN x.layouts :
              x.layouts[i][1] \in Nat \ {0} /\ x.layouts[i][2] \in Seq(0 .. 255)
<1>1. x.registry \in Seq(STRING \X Nat) /\ x.layouts \in Seq((Nat \ {0}) \X Seq(0 .. 255))
  BY ObjectsAssumption DEF ObjectWritten, TablesWritten
<1>2. DOMAIN x.registry = 1 .. Len(x.registry) /\ DOMAIN x.layouts = 1 .. Len(x.layouts)
      /\ Len(x.registry) \in Nat /\ Len(x.layouts) \in Nat
  BY <1>1, LenProperties
<1>3. \A i \in DOMAIN x.registry : x.registry[i] \in STRING \X Nat
  BY <1>1, <1>2, ElementOfSeq
<1>4. \A i \in DOMAIN x.layouts : x.layouts[i] \in (Nat \ {0}) \X Seq(0 .. 255)
  BY <1>1, <1>2, ElementOfSeq
<1>5. \A v \in Nat : v % 65536 \in Nat /\ (v \div 16777216) % 65536 \in Nat
  OBVIOUS
<1>6. \A i \in DOMAIN x.registry : x.registry[i][2] \in Nat
  BY <1>3
<1>7. \A i \in DOMAIN x.registry : IdAt(x, i) \in Nat /\ SizeAt(x, i) \in Nat
  BY <1>5, <1>6 DEF IdAt, SizeAt
<1>8. DOMAIN x.registry \subseteq Nat /\ DOMAIN x.layouts \subseteq Nat
  BY <1>2
<1> QED
  BY <1>4, <1>7, <1>8

LEMMA IdIs ==
  ASSUME NEW x \in Objects, NEW name
  PROVE  IdOf(x, name) \in Nat \cup {-1}
<1> DEFINE found == {i \in DOMAIN x.registry : x.registry[i][1] = name}
<1>1. CASE found = {}
  BY <1>1 DEF IdOf
<1>2. CASE found # {}
  <2>1. Least(found) \in found
    BY <1>2, LeastIs, TablesAre
  <2> QED
    BY <1>2, <2>1, TablesAre DEF IdOf
<1> QED
  BY <1>1, <1>2

LEMMA SizeIs ==
  ASSUME NEW x \in Objects, NEW id
  PROVE  SizeOf(x, id) \in Nat \cup {-1}
<1> DEFINE found == {i \in DOMAIN x.registry : IdAt(x, i) = id}
<1>1. CASE found = {}
  BY <1>1 DEF SizeOf
<1>2. CASE found # {}
  <2>1. Least(found) \in found
    BY <1>2, LeastIs, TablesAre
  <2> QED
    BY <1>2, <2>1, TablesAre DEF SizeOf
<1> QED
  BY <1>1, <1>2

\* The ids of a layout are numbers.
LEMMA IdsAre ==
  ASSUME NEW x \in Objects, NEW bonus, Walkable(x, bonus)
  PROVE  Ids(x, bonus) \in Seq(Nat)
<1> DEFINE bytes == x.layouts[Least(Layouts(x, bonus))][2]
<1>1. Layouts(x, bonus) # {} /\ Layouts(x, bonus) \subseteq DOMAIN x.layouts
  BY DEF Walkable, Layouts
<1>2. Least(Layouts(x, bonus)) \in DOMAIN x.layouts
  BY <1>1, LeastIs, TablesAre
<1>3. bytes \in Seq(0 .. 255)
  BY <1>2, TablesAre
<1> DEFINE n == Len(bytes) \div 2
<1>4. \A k \in Nat : k \div 2 \in Nat /\ \A i \in 1 .. k \div 2 : 2 * i \in 1 .. k /\ 2 * i - 1 \in 1 .. k
  OBVIOUS
<1>5. Len(bytes) \in Nat
  BY <1>3, LenProperties
<1>6. n \in Nat /\ \A i \in 1 .. n : 2 * i \in 1 .. Len(bytes) /\ 2 * i - 1 \in 1 .. Len(bytes)
  BY <1>4, <1>5
<1>7. \A i \in 1 .. n : bytes[2 * i] \in 0 .. 255 /\ bytes[2 * i - 1] \in 0 .. 255
  BY <1>3, <1>6, ElementOfSeq
<1>8. \A i \in 1 .. n : 256 * bytes[2 * i - 1] + bytes[2 * i] \in Nat
  <2>1. \A k, l \in 0 .. 255 : 256 * k + l \in Nat
    OBVIOUS
  <2> HIDE DEF bytes, n
  <2> QED
    BY <1>7, <2>1
<1> HIDE DEF bytes
<1>9. [i \in 1 .. n |-> 256 * bytes[2 * i - 1] + bytes[2 * i]] \in Seq(Nat)
  BY <1>6, <1>8
<1> QED
  BY <1>9 DEF Ids, bytes

AttrCount(x) == Len(FullIds(x))

\* A bonus that names a layout names the one that was written.
LEMMA SameLayout ==
  ASSUME NEW x \in Objects, Walkable(x, x.bonus)
  PROVE  /\ Walkable(x, x.full)
         /\ Ids(x, x.bonus) = FullIds(x)
         /\ HdrSize(x.bonus) = HdrSize(x.full)
<1>1. Len(x.bonus) \in Nat /\ Len(x.full) \in Nat /\ Len(x.bonus) <= Len(x.full)
  BY BonusIs, LenProperties
<1>2. Len(x.bonus) >= 4 /\ SubSeq(x.bonus, 1, 4) = Magic
  BY DEF Walkable, IsSa
<1>3. IsSa(x.full)
  <2>1. SubSeq(x.bonus, 0 + 1, 4) = SubSeq(x.full, 0 + 1, 4)
    BY <1>1, <1>2, BonusIs
  <2>2. 0 + 1 = 1
    OBVIOUS
  <2>3. SubSeq(x.full, 1, 4) = Magic
    BY <1>2, <2>1, <2>2
  <2> QED
    BY <1>1, <1>2, <2>3 DEF IsSa
<1>4. Len(x.bonus) >= 6
  <2>1. SUFFICES ASSUME ~ (Len(x.bonus) >= 6) PROVE FALSE
    OBVIOUS
  <2>2. Info(x.bonus) = 0
    BY <1>1, <2>1 DEF Info, LE16
  <2>3. LayoutNum(x.bonus) = 0
    BY <2>2 DEF LayoutNum
  <2>4. Layouts(x, x.bonus) = {}
    BY <2>3, TablesAre DEF Layouts
  <2> QED
    BY <2>4 DEF Walkable
<1>5. Info(x.bonus) = Info(x.full)
  <2>1. x.bonus[5] = x.full[5] /\ x.bonus[6] = x.full[6]
    BY <1>1, <1>4, BonusIs
  <2> QED
    BY <1>1, <1>4, <2>1 DEF Info, LE16
<1>6. Layouts(x, x.bonus) = Layouts(x, x.full)
  BY <1>5 DEF Layouts, LayoutNum
<1> QED
  BY <1>3, <1>5, <1>6 DEF Walkable, Ids, FullIds, HdrSize

LEMMA AttrPlaces ==
  ASSUME NEW x \in Objects, x.bonustype = "sa", Walkable(x, x.full)
  PROVE  /\ AttrCount(x) \in Nat
         /\ \A i \in 1 .. AttrCount(x) + 1 : x.at[i] \in Nat
         /\ x.at[1] = HdrSize(x.full)
         /\ \A i \in 1 .. AttrCount(x) :
              /\ FullIds(x)[i] \in Nat
              /\ Fixed(x, i) => x.at[i + 1] = x.at[i] + SizeOf(x, FullIds(x)[i])
              /\ \A name \in Range(Known) :
                   IdOf(x, name) = FullIds(x)[i] /\ Width(name) <= SizeOf(x, FullIds(x)[i]) =>
                     x.written[name] = SubSeq(x.full, x.at[i] + 1, x.at[i] + Width(name))
         /\ x.leading \subseteq Range(Known)
         /\ \A name \in x.leading :
              \E i \in 1 .. AttrCount(x) :
                /\ IdOf(x, name) = FullIds(x)[i] /\ Width(name) <= SizeOf(x, FullIds(x)[i])
                /\ \A j \in 1 .. i : Fixed(x, j)
<1>1. PackedInOrder(x)
  BY ObjectsAssumption DEF ObjectWritten
<1>2. FullIds(x) \in Seq(Nat)
  BY IdsAre DEF FullIds
<1>3. AttrCount(x) \in Nat /\ \A i \in 1 .. AttrCount(x) : FullIds(x)[i] \in Nat
  BY <1>2, LenProperties, ElementOfSeq DEF AttrCount
<1>4. x.at \in [1 .. AttrCount(x) + 1 -> Nat]
  BY <1>1 DEF PackedInOrder, AttrCount
<1> QED
  BY <1>1, <1>3, <1>4 DEF PackedInOrder, AttrCount

\* The attributes of a bonus that was not made to lie end within it.
LEMMA LengthsAre ==
  ASSUME NEW x \in Objects, x.harm \in {"none", "cut"}
  PROVE  /\ x.bonustype = "sa" /\ Walkable(x, x.full)
         /\ \A i \in 1 .. AttrCount(x) + 1 : x.at[i] <= Len(x.full)
         /\ \A i \in 1 .. AttrCount(x) :
              Variable(x, i) =>
                LET at == 6 + 2 * Cardinality(VariableBefore(x, i)) IN
                /\ at + 2 <= HdrSize(x.full) /\ HdrSize(x.full) <= Len(x.full)
                /\ x.at[i] + LE16(x.full, at) = x.at[i + 1]
<1>1. x.bonustype = "sa" /\ Walkable(x, x.full) /\ LengthsWritten(x)
  BY ObjectsAssumption DEF ObjectWritten
<1> DEFINE n == AttrCount(x)
<1>2. n \in Nat /\ \A i \in 1 .. n + 1 : x.at[i] \in Nat
  BY <1>1, AttrPlaces
<1>3. x.at[n + 1] <= Len(x.full) /\ Len(x.full) \in Nat
  BY <1>1, BonusIs, LenProperties DEF LengthsWritten, AttrCount
<1>4. \A i \in 1 .. n : x.at[i] <= x.at[i + 1]
  BY <1>1 DEF LengthsWritten, AttrCount
<1> HIDE DEF n
<1>5. ASSUME NEW i \in 1 .. n + 1 PROVE x.at[i] <= Len(x.full)
  <2> DEFINE S == {j \in 1 .. n + 1 : x.at[i] <= x.at[j]}
  <2>1. i \in Nat /\ n + 1 \in Nat /\ i \in S
    BY <1>2
  <2>2. \A j \in i .. (n + 1) - 1 : j \in S => j + 1 \in S
    BY <1>2, <1>4
  <2>3. \A j \in i .. n + 1 : j \in S
    BY <2>1, <2>2, Onward
  <2>4. n + 1 \in S
    BY <1>2, <2>3
  <2> QED
    BY <1>2, <1>3, <2>4
<1>6. ASSUME NEW i \in 1 .. n, Variable(x, i)
      PROVE  LET at == 6 + 2 * Cardinality(VariableBefore(x, i)) IN
                /\ at + 2 <= HdrSize(x.full) /\ HdrSize(x.full) <= Len(x.full)
                /\ x.at[i] + LE16(x.full, at) = x.at[i + 1]
  <2> DEFINE at == 6 + 2 * Cardinality(VariableBefore(x, i))
  <2>1. /\ at + 2 <= HdrSize(x.full) /\ HdrSize(x.full) <= Len(x.full)
        /\ LE16(x.full, at) = x.at[i + 1] - x.at[i]
    BY <1>1, <1>6 DEF LengthsWritten, AttrCount, n
  <2> HIDE DEF at
  <2>2. x.at[i] \in Nat /\ x.at[i + 1] \in Nat
    BY <1>2
  <2>3. x.at[i] + LE16(x.full, at) = x.at[i + 1]
    BY <2>1, <2>2
  <2> QED
    BY <2>1, <2>3 DEF at
<1> QED
  BY <1>1, <1>5, <1>6 DEF n

\* The attributes of variable length before one more.
LEMMA VariableStep ==
  ASSUME NEW x, NEW i \in Nat \ {0}
  PROVE  /\ Cardinality(VariableBefore(x, 1)) = 0
         /\ Cardinality(VariableBefore(x, i)) \in Nat
         /\ Cardinality(VariableBefore(x, i + 1)) =
              IF Variable(x, i) THEN Cardinality(VariableBefore(x, i)) + 1
                                ELSE Cardinality(VariableBefore(x, i))
<1>1. VariableBefore(x, 1) = {}
  BY DEF VariableBefore
<1>2. IsFiniteSet(1 .. i - 1)
  BY FS_Interval
<1>3. VariableBefore(x, i) \in SUBSET (1 .. i - 1)
  BY DEF VariableBefore
<1>4. IsFiniteSet(VariableBefore(x, i)) /\ Cardinality(VariableBefore(x, i)) \in Nat
  BY <1>2, <1>3, FS_Subset, FS_CardinalityType
<1>5. i \notin VariableBefore(x, i)
  BY DEF VariableBefore
<1>6. VariableBefore(x, i + 1) = IF Variable(x, i) THEN VariableBefore(x, i) \cup {i}
                                                 ELSE VariableBefore(x, i)
  BY DEF VariableBefore
<1>7. Cardinality(VariableBefore(x, 1)) = 0
  BY <1>1, FS_EmptySet
<1>8. Cardinality(VariableBefore(x, i) \cup {i}) = Cardinality(VariableBefore(x, i)) + 1
  BY <1>4, <1>5, FS_AddElement
<1> QED
  BY <1>4, <1>6, <1>7, <1>8

MetaTyped(m) ==
  /\ m \in [Range(Known) -> Seq(0 .. 255)]
  /\ \A n \in Range(Known) : Len(m[n]) \in {0, Width(n)}

AttrTyped ==
  /\ object \in Objects
  /\ walk \in {"meta", "dxattr", "xattr", "returned"}
  /\ pos \in Nat \ {0} /\ nvar \in 0 .. pos - 1
  /\ off \in Nat /\ off >= HdrSize(Bonus)
  /\ walk = "meta" /\ pos > 1 => off <= Len(Bonus)
  /\ meta = None \/ MetaTyped(meta)
  /\ Len(unknown) <= 1

LEMMA SoFarTyped ==
  ASSUME AttrTyped
  PROVE  MetaTyped(SoFar)
<1>1. MetaTyped(Unset)
  BY EmptySeq DEF MetaTyped, Unset
<1> QED
  BY <1>1 DEF SoFar, AttrTyped

\* The known names, and the ones an attribute can be assigned to.
LEMMA HolderIs ==
  ASSUME NEW id, NEW size, Holders(id, size) # {}
  PROVE  LET n == Known[Least(Holders(id, size))]
         IN  n \in Range(Known) /\ IdOf(object, n) = id /\ size >= Width(n)
<1>1. Known \in Seq(STRING)
  BY NamesAssumption DEF Known
<1>2. DOMAIN Known \subseteq Nat
  BY <1>1, LenProperties
<1>3. Least(Holders(id, size)) \in Holders(id, size)
  BY <1>2, LeastIs DEF Holders
<1> QED
  BY <1>3 DEF Holders, Range

LEMMA NoHolderIs ==
  ASSUME NEW id, NEW size, Holders(id, size) = {}, NEW n \in Range(Known), IdOf(object, n) = id
  PROVE  ~ (size >= Width(n))
  BY DEF Holders, Range

LEMMA WidthIs ==
  ASSUME NEW n
  PROVE  Width(n) \in {8, 16}
  BY DEF Width

\* What the walk has come to in a bonus that names a layout.
LEMMA HereIs ==
  ASSUME object \in Objects, pos \in Nat \ {0}, Walkable(object, Bonus), More
  PROVE  /\ AttrCount(object) \in Nat /\ pos \in 1 .. AttrCount(object)
         /\ Id = FullIds(object)[pos] /\ Id \in Nat
         /\ Size = SizeOf(object, FullIds(object)[pos])
         /\ Size \in Nat \cup {-1}
<1>1. Ids(object, Bonus) = FullIds(object)
  BY SameLayout DEF Bonus
<1>2. Ids(object, Bonus) \in Seq(Nat)
  BY IdsAre
<1>3. Len(Ids(object, Bonus)) \in Nat /\ pos \in 1 .. Len(Ids(object, Bonus))
  BY <1>2, LenProperties DEF More
<1>4. Id \in Nat
  BY <1>2, <1>3, ElementOfSeq DEF Id
<1>5. Size \in Nat \cup {-1}
  BY SizeIs DEF Size
<1> QED
  BY <1>1, <1>3, <1>4, <1>5 DEF AttrCount, Id, Size

LEMMA PartOfBonus ==
  ASSUME AttrTyped, NEW a \in Nat, NEW w \in {8, 16}, a + w <= Len(Bonus)
  PROVE  /\ SubSeq(Bonus, a + 1, a + w) = SubSeq(object.full, a + 1, a + w)
         /\ SubSeq(Bonus, a + 1, a + w) \in Seq(0 .. 255)
         /\ Len(SubSeq(Bonus, a + 1, a + w)) = w
<1> DEFINE b == a + w
<1>1. b \in Nat /\ b <= Len(Bonus) /\ a < b /\ b - a = w
  OBVIOUS
<1> HIDE DEF b
<1>2. /\ SubSeq(Bonus, a + 1, b) = SubSeq(object.full, a + 1, b)
      /\ SubSeq(Bonus, a + 1, b) \in Seq(0 .. 255)
      /\ Len(SubSeq(Bonus, a + 1, b)) = IF a < b THEN b - a ELSE 0
  BY <1>1, BonusIs DEF AttrTyped, Bonus
<1> QED
  BY <1>1, <1>2 DEF b

\* What is taken for a name.
LEMMA AttrTaken ==
  ASSUME AttrTyped, InMeta, MetaFits, NEW n, Size >= Width(n)
  PROVE  LET taken == SubSeq(Bonus, off + 1, off + Width(n))
         IN  /\ taken = SubSeq(object.full, off + 1, off + Width(n))
             /\ taken \in Seq(0 .. 255) /\ Len(taken) = Width(n)
<1>1. Size \in Nat
  BY HereIs DEF AttrTyped, InMeta, MetaFits
<1>2. Width(n) \in {8, 16}
  BY WidthIs
<1>3. Len(Bonus) \in Nat
  BY BonusIs, LenProperties DEF AttrTyped, Bonus
<1>4. off \in Nat /\ off + Width(n) <= Len(Bonus)
  BY <1>1, <1>2, <1>3 DEF AttrTyped, MetaFits
<1> QED
  BY <1>2, <1>4, PartOfBonus

LEMMA AssignTyped ==
  ASSUME AttrTyped, InMeta, MetaFits
  PROVE  MetaTyped(Assign(SoFar, Id, Size))
<1> DEFINE h == Holders(Id, Size)
           n == Known[Least(h)]
           taken == SubSeq(Bonus, off + 1, off + Width(n))
<1>1. MetaTyped(SoFar)
  BY SoFarTyped
<1>2. CASE h = {}
  BY <1>1, <1>2 DEF Assign
<1>3. CASE h # {}
  <2>1. n \in Range(Known) /\ Size >= Width(n)
    BY <1>3, HolderIs
  <2>2. taken \in Seq(0 .. 255) /\ Len(taken) = Width(n)
    BY <2>1, AttrTaken
  <2>3. Assign(SoFar, Id, Size) = [SoFar EXCEPT ![n] = taken]
    BY <1>3 DEF Assign
  <2> HIDE DEF n, taken
  <2> QED
    BY <1>1, <2>1, <2>2, <2>3 DEF MetaTyped
<1> QED
  BY <1>2, <1>3

LEMMA RestartIs ==
  ASSUME AttrTyped, NEW next, Restart(next)
  PROVE  /\ object' = object /\ object' \in Objects /\ walk' = next
         /\ pos' = 1 /\ nvar' = 0 /\ nvar' \in 0 .. pos' - 1
         /\ off' = HdrSize(Bonus) /\ off' \in Nat /\ off' >= HdrSize(Bonus')
<1>1. HdrSize(Bonus) \in Nat
  BY HeaderIs, BonusIs DEF AttrTyped, Bonus
<1> QED
  BY <1>1 DEF AttrTyped, Restart, Bonus

LEMMA LengthIs ==
  ASSUME AttrTyped, Measurable
  PROVE  Length \in Nat
<1>1. Size \in Nat
  BY HereIs DEF AttrTyped, Measurable
<1>2. LengthAt \in Nat
  BY DEF AttrTyped, LengthAt
<1> QED
  BY <1>1, <1>2, LE16Is, BonusIs DEF Length, AttrTyped, Bonus

LEMMA AttrStepTyped ==
  AttrTyped /\ [AttrNext]_attrVars => AttrTyped'
<1> SUFFICES ASSUME AttrTyped, [AttrNext]_attrVars PROVE AttrTyped'
  OBVIOUS
<1>1. CASE MetaOfZnode
  <2>1. ASSUME ~ (Len(Bonus) < ZnodeSize) PROVE MetaTyped(Znode)
    <3>1. ASSUME NEW n \in DOMAIN ZnodeAt
          PROVE  LET taken == SubSeq(Bonus, ZnodeAt[n] + 1, ZnodeAt[n] + Width(n))
                 IN  taken \in Seq(0 .. 255) /\ Len(taken) = Width(n)
      <4>1. ZnodeAt[n] \in Nat /\ ZnodeAt[n] + Width(n) <= ZnodeSize
        BY ZnodeAssumption
      <4>2. Width(n) \in {8, 16}
        BY WidthIs
      <4>3. Len(Bonus) \in Nat
        BY BonusIs, LenProperties DEF AttrTyped, Bonus
      <4>4. ZnodeAt[n] + Width(n) <= Len(Bonus)
        BY <2>1, <4>1, <4>2, <4>3, ZnodeAssumption
      <4> QED
        BY <4>1, <4>2, <4>4, PartOfBonus
    <3> QED
      BY <3>1, EmptySeq DEF MetaTyped, Znode
  <2>2. meta' = None \/ MetaTyped(meta')
    BY <1>1, <2>1 DEF MetaOfZnode
  <2> QED
    BY <1>1, <2>2, RestartIs DEF MetaOfZnode, AttrTyped, MetaTyped
<1>2. CASE MetaOfNothing
  BY <1>2, RestartIs DEF MetaOfNothing, AttrTyped, MetaTyped
<1>3. CASE MetaTake
  <2>1. MetaTyped(meta')
    BY <1>3, AssignTyped DEF MetaTake
  <2>2. Size \in Nat
    BY <1>3, HereIs DEF AttrTyped, MetaTake, InMeta, MetaFits
  <2>3. Len(Bonus) \in Nat /\ HdrSize(Bonus) \in Nat
    BY BonusIs, LenProperties, HeaderIs DEF AttrTyped, Bonus
  <2>4. off' \in Nat /\ off' >= HdrSize(Bonus) /\ off' <= Len(Bonus)
    BY <1>3, <2>2, <2>3 DEF MetaTake, MetaFits, AttrTyped
  <2>5. pos' \in Nat \ {0} /\ nvar' \in 0 .. pos' - 1
    BY <1>3 DEF MetaTake, AttrTyped
  <2> QED
    BY <1>3, <2>1, <2>4, <2>5 DEF MetaTake, AttrTyped, MetaTyped, Bonus
<1>4. CASE MetaEnds
  <2>1. MetaTyped(meta')
    BY <1>4, SoFarTyped DEF MetaEnds
  <2>2. Len(unknown') <= 1
    BY <1>4 DEF MetaEnds
  <2> QED
    BY <1>4, <2>1, <2>2, RestartIs DEF MetaEnds, AttrTyped, MetaTyped
<1>5. CASE FindPasses
  <2>1. Length \in Nat /\ HdrSize(Bonus) \in Nat
    BY <1>5, LengthIs, BonusIs, HeaderIs DEF FindPasses, AttrTyped, Bonus
  <2>2. off' \in Nat /\ off' >= HdrSize(Bonus)
    BY <1>5, <2>1 DEF FindPasses, AttrTyped
  <2>3. pos' \in Nat \ {0} /\ nvar' \in 0 .. pos' - 1
    BY <1>5 DEF FindPasses, AttrTyped
  <2> QED
    BY <1>5, <2>2, <2>3 DEF FindPasses, Finding, AttrTyped, MetaTyped, Bonus
<1>6. CASE FindFails
  BY <1>6, RestartIs DEF FindFails, NextWalk, AttrTyped, MetaTyped
<1>7. CASE FindDxattr
  BY <1>7, RestartIs DEF FindDxattr, AttrTyped, MetaTyped
<1>8. CASE FindXattr
  BY <1>8, RestartIs DEF FindXattr, AttrTyped, MetaTyped
<1>9. CASE AttrReturned \/ UNCHANGED attrVars
  BY <1>9 DEF AttrReturned, attrVars, AttrTyped, MetaTyped, Bonus
<1> QED
  BY <1>1, <1>2, <1>3, <1>4, <1>5, <1>6, <1>7, <1>8, <1>9 DEF AttrNext

LEMMA TypedIsSome ==
  ASSUME NEW m, MetaTyped(m), NEW n \in Range(Known)
  PROVE  m # None
<1>1. n \in DOMAIN m
  BY DEF MetaTyped
<1>2. DOMAIN None = {}
  BY DEF None
<1> QED
  BY <1>1, <1>2

\* The names whose attribute the walk has passed.
AttrPassed(n) ==
  \E j \in 1 .. pos - 1 :
    IdOf(object, n) = FullIds(object)[j] /\ Width(n) <= SizeOf(object, FullIds(object)[j])

\* The walk of zpl_attrs is where an attribute begins and has passed only ones
\* of fixed length; it has the value of each known one it passed.
MetaWalks ==
  InMeta =>
    /\ pos <= AttrCount(object) + 1 /\ off = object.at[pos]
    /\ \A j \in 1 .. pos - 1 : Fixed(object, j)
    /\ \A n \in Range(Known) :
         /\ SoFar[n] \in {<<>>, object.written[n]}
         /\ AttrPassed(n) => SoFar[n] = object.written[n]

Undecoded == walk = "meta" /\ ~InMeta => meta = None

MetaInv == AttrTyped /\ MetaWalks /\ Undecoded /\ MetadataIsWritten

LEMMA InMetaPlaces ==
  ASSUME AttrTyped, InMeta
  PROVE  /\ object.bonustype = "sa" /\ Walkable(object, object.full)
         /\ HdrSize(Bonus) = object.at[1]
  BY SameLayout, AttrPlaces DEF AttrTyped, InMeta, Bonus

LEMMA AssignIs ==
  ASSUME MetaInv, InMeta, MetaFits, NEW n \in Range(Known)
  PROVE  LET m == Assign(SoFar, Id, Size) IN
         /\ m[n] \in {<<>>, object.written[n]}
         /\ AttrPassed(n) => m[n] = object.written[n]
         /\ IdOf(object, n) = Id /\ Width(n) <= Size => m[n] = object.written[n]
<1> DEFINE h == Holders(Id, Size)
           k == Known[Least(h)]
           taken == SubSeq(Bonus, off + 1, off + Width(k))
           m == Assign(SoFar, Id, Size)
<1>1. AttrTyped /\ MetaTyped(SoFar)
  BY SoFarTyped DEF MetaInv
<1>2. object.bonustype = "sa" /\ Walkable(object, object.full) /\ object \in Objects
  BY <1>1, InMetaPlaces DEF AttrTyped
<1>3. pos \in 1 .. AttrCount(object) /\ Id = FullIds(object)[pos] /\ Id \in Nat
      /\ Size = SizeOf(object, FullIds(object)[pos]) /\ Size \in Nat
  BY <1>1, HereIs DEF AttrTyped, InMeta, MetaFits
<1>4. SoFar[n] \in {<<>>, object.written[n]} /\ (AttrPassed(n) => SoFar[n] = object.written[n])
  BY DEF MetaInv, MetaWalks
<1>5. Width(n) \in {8, 16}
  BY WidthIs
<1>6. CASE h = {}
  <2>1. m = SoFar
    BY <1>6 DEF Assign
  <2>2. ~ (IdOf(object, n) = Id /\ Width(n) <= Size)
    BY <1>3, <1>5, <1>6, NoHolderIs
  <2> QED
    BY <1>4, <2>1, <2>2
<1>7. CASE h # {}
  <2>1. k \in Range(Known) /\ IdOf(object, k) = Id /\ Size >= Width(k)
    BY <1>7, HolderIs
  <2>2. Width(k) \in {8, 16}
    BY WidthIs
  <2>3. Width(k) <= Size
    BY <1>3, <2>1, <2>2
  <2>4. taken = SubSeq(object.full, off + 1, off + Width(k))
    BY <1>1, <2>1, AttrTaken
  <2>5. object.written[k] = SubSeq(object.full, object.at[pos] + 1, object.at[pos] + Width(k))
    BY <1>2, <1>3, <2>1, <2>3, AttrPlaces
  <2>6. taken = object.written[k]
    BY <2>4, <2>5 DEF MetaInv, MetaWalks
  <2>7. m = [SoFar EXCEPT ![k] = taken]
    BY <1>7 DEF Assign
  <2>8. IdOf(object, n) = Id => n = k
    BY <1>2, <1>3, <2>1, ObjectsAssumption DEF ObjectWritten, TablesWritten
  <2> HIDE DEF k, taken, m
  <2>9. m[k] = object.written[k] /\ (n # k => m[n] = SoFar[n])
    BY <1>1, <2>1, <2>6, <2>7 DEF MetaTyped
  <2> QED
    BY <1>4, <2>8, <2>9 DEF m
<1> QED
  BY <1>6, <1>7

LEMMA TakeKeeps ==
  ASSUME MetaInv, MetaTake, AttrTyped'
  PROVE  MetaInv'
<1>1. AttrTyped /\ InMeta /\ MetaFits
  BY DEF MetaInv, MetaTake
<1>2. object.bonustype = "sa" /\ Walkable(object, object.full) /\ object \in Objects
  BY <1>1, InMetaPlaces DEF AttrTyped
<1>3. pos \in 1 .. AttrCount(object) /\ Id = FullIds(object)[pos] /\ AttrCount(object) \in Nat
      /\ Size = SizeOf(object, FullIds(object)[pos]) /\ Size \in Nat /\ Size > 0
  BY <1>1, HereIs DEF AttrTyped, InMeta, MetaFits
<1>4. Fixed(object, pos)
  BY <1>3 DEF Fixed
<1>5. object.at[pos] \in Nat /\ object.at[pos + 1] = object.at[pos] + Size
  BY <1>2, <1>3, <1>4, AttrPlaces
<1>6. object' = object /\ pos' = pos + 1 /\ off' = off + Size /\ walk' = walk
      /\ meta' = Assign(SoFar, Id, Size)
  BY DEF MetaTake
<1>7. off = object.at[pos] /\ \A j \in 1 .. pos - 1 : Fixed(object, j)
  BY <1>1 DEF MetaInv, MetaWalks
<1>8. pos' <= AttrCount(object') + 1 /\ off' = object'.at[pos']
  BY <1>3, <1>5, <1>6, <1>7
<1>9. \A j \in 1 .. pos : Fixed(object, j)
  BY <1>3, <1>4, <1>7
<1>10. \A j \in 1 .. pos' - 1 : Fixed(object', j)
  BY <1>3, <1>6, <1>9
<1>11. MetaTyped(meta')
  BY <1>1, <1>6, AssignTyped
<1>12. ASSUME NEW n \in Range(Known)
       PROVE  /\ SoFar'[n] = meta'[n]
              /\ meta'[n] \in {<<>>, object.written[n]}
              /\ AttrPassed(n)' => meta'[n] = object.written[n]
  <2>1. SoFar' = meta'
    BY <1>11, TypedIsSome DEF SoFar
  <2>2. /\ meta'[n] \in {<<>>, object.written[n]}
        /\ AttrPassed(n) => meta'[n] = object.written[n]
        /\ IdOf(object, n) = Id /\ Width(n) <= Size => meta'[n] = object.written[n]
    BY <1>1, <1>6, AssignIs
  <2>3. ASSUME AttrPassed(n)' PROVE AttrPassed(n) \/ (IdOf(object, n) = Id /\ Width(n) <= Size)
    <3>1. PICK j \in 1 .. pos' - 1 : IdOf(object, n) = FullIds(object)[j]
                                     /\ Width(n) <= SizeOf(object, FullIds(object)[j])
      BY <1>6, <2>3 DEF AttrPassed
    <3>2. j \in 1 .. pos - 1 \/ j = pos
      BY <1>3, <1>6
    <3> QED
      BY <1>3, <3>1, <3>2 DEF AttrPassed
  <2> QED
    BY <2>1, <2>2, <2>3
<1>13. MetaWalks'
  BY <1>6, <1>8, <1>10, <1>12 DEF MetaWalks
<1>14. walk' = "meta" /\ InMeta'
  BY <1>1, <1>6 DEF InMeta, Bonus
<1>15. MetadataIsWritten'
  BY <1>6, <1>12, <1>14 DEF MetadataIsWritten
<1> QED
  BY <1>13, <1>14, <1>15 DEF MetaInv, Undecoded

\* A walk of a whole bonus that ends has passed every attribute before the
\* first of variable length.
LEMMA LeadingPassed ==
  ASSUME MetaInv, InMeta, ~MetaFits, object.harm = "none", NEW n \in object.leading
  PROVE  n \in Range(Known) /\ SoFar[n] = object.written[n]
<1>1. AttrTyped
  BY DEF MetaInv
<1>2. object \in Objects /\ object.bonustype = "sa" /\ Walkable(object, object.full)
  BY <1>1, InMetaPlaces DEF AttrTyped
<1>3. n \in Range(Known)
  BY <1>2, AttrPlaces
<1>4. PICK i \in 1 .. AttrCount(object) :
        /\ IdOf(object, n) = FullIds(object)[i] /\ Width(n) <= SizeOf(object, FullIds(object)[i])
        /\ \A j \in 1 .. i : Fixed(object, j)
  BY <1>2, AttrPlaces
<1>5. AttrCount(object) \in Nat /\ pos \in Nat \ {0} /\ i \in Nat
  BY <1>1, <1>2, AttrPlaces DEF AttrTyped
<1>6. i < pos
  <2>1. SUFFICES ASSUME ~ (i < pos) PROVE FALSE
    OBVIOUS
  <2>2. pos \in 1 .. i /\ pos \in 1 .. AttrCount(object) /\ pos + 1 \in 1 .. AttrCount(object) + 1
    BY <1>4, <1>5, <2>1
  <2>3. Fixed(object, pos)
    BY <1>4, <2>2
  <2>4. More
    BY <1>1, <1>2, <2>2, SameLayout DEF More, AttrTyped, InMeta, Bonus, AttrCount
  <2>5. Size = SizeOf(object, FullIds(object)[pos]) /\ Size \in Nat \cup {-1} /\ Size > 0
    BY <1>1, <2>3, <2>4, HereIs DEF AttrTyped, InMeta, Fixed
  <2>6. object.at[pos + 1] = object.at[pos] + Size
    BY <1>2, <2>2, <2>3, <2>5, AttrPlaces
  <2>7. object.at[pos + 1] <= Len(object.full)
    BY <1>2, <2>2, LengthsAre
  <2>8. off = object.at[pos] /\ object.bonus = object.full
    BY <1>2, ObjectsAssumption DEF MetaInv, MetaWalks, ObjectWritten
  <2>9. off + Size <= Len(Bonus)
    BY <2>6, <2>7, <2>8 DEF Bonus
  <2> QED
    BY <2>4, <2>5, <2>9 DEF MetaFits
<1>7. i \in 1 .. pos - 1
  BY <1>5, <1>6
<1>8. AttrPassed(n)
  BY <1>4, <1>7 DEF AttrPassed
<1> QED
  BY <1>3, <1>8 DEF MetaInv, MetaWalks

LEMMA EndKeeps ==
  ASSUME MetaInv, MetaEnds
  PROVE  MetadataIsWritten'
<1>1. InMeta /\ ~MetaFits /\ meta' = SoFar /\ object' = object
  BY RestartIs DEF MetaEnds, Restart
<1>2. \A n \in Range(Known) : SoFar[n] \in {<<>>, object.written[n]}
  BY <1>1 DEF MetaInv, MetaWalks
<1>3. object.harm = "none" => \A n \in object.leading : SoFar[n] = object.written[n]
  BY <1>1, LeadingPassed
<1> QED
  BY <1>1, <1>2, <1>3 DEF MetadataIsWritten

LEMMA ZnodeKeeps ==
  ASSUME MetaInv, MetaOfZnode
  PROVE  MetadataIsWritten'
<1>1. AttrTyped /\ object \in Objects /\ object.bonustype = "znode" /\ object' = object
  BY DEF MetaInv, MetaOfZnode, AttrTyped, Restart
<1>2. object.harm # "none"
  BY <1>1, ObjectsAssumption DEF ObjectWritten
<1>3. CASE Len(Bonus) < ZnodeSize
  BY <1>3 DEF MetaOfZnode, MetadataIsWritten
<1>4. CASE ~ (Len(Bonus) < ZnodeSize)
  <2>1. meta' = Znode
    BY <1>4 DEF MetaOfZnode
  <2>2. ASSUME NEW n \in Range(Known) PROVE Znode[n] \in {<<>>, object.written[n]}
    <3>1. CASE n \notin DOMAIN ZnodeAt
      BY <3>1 DEF Znode
    <3>2. CASE n \in DOMAIN ZnodeAt
      <4>1. ZnodeAt[n] \in Nat /\ ZnodeAt[n] + Width(n) <= ZnodeSize /\ ZnodeSize \in Nat
        BY <3>2, ZnodeAssumption
      <4>2. Width(n) \in {8, 16}
        BY WidthIs
      <4>3. Len(Bonus) \in Nat
        BY <1>1, BonusIs, LenProperties DEF Bonus
      <4>4. ZnodeAt[n] + Width(n) <= Len(Bonus)
        BY <1>4, <4>1, <4>2, <4>3
      <4>5. SubSeq(Bonus, ZnodeAt[n] + 1, ZnodeAt[n] + Width(n))
              = SubSeq(object.full, ZnodeAt[n] + 1, ZnodeAt[n] + Width(n))
        BY <1>1, <4>1, <4>2, <4>4, PartOfBonus
      <4>6. object.written[n] = SubSeq(object.full, ZnodeAt[n] + 1, ZnodeAt[n] + Width(n))
        BY <1>1, <3>2, ObjectsAssumption DEF ObjectWritten
      <4> QED
        BY <3>2, <4>5, <4>6 DEF Znode
    <3> QED
      BY <3>1, <3>2
  <2> QED
    BY <1>1, <1>2, <2>1, <2>2 DEF MetadataIsWritten
<1> QED
  BY <1>3, <1>4

LEMMA MetaInvStep ==
  MetaInv /\ [AttrNext]_attrVars => MetaInv'
<1> SUFFICES ASSUME MetaInv, [AttrNext]_attrVars PROVE MetaInv'
  OBVIOUS
<1>1. AttrTyped /\ AttrTyped'
  BY AttrStepTyped DEF MetaInv
<1>2. ASSUME walk' # "meta" PROVE MetaWalks' /\ Undecoded'
  BY <1>2 DEF MetaWalks, Undecoded, InMeta
<1>3. CASE MetaOfZnode
  <2>1. walk' # "meta"
    BY <1>3 DEF MetaOfZnode, Restart
  <2> QED
    BY <1>1, <1>2, <1>3, <2>1, ZnodeKeeps DEF MetaInv
<1>4. CASE MetaOfNothing
  <2>1. walk' # "meta" /\ meta' = meta /\ walk = "meta" /\ ~InMeta
    BY <1>4 DEF MetaOfNothing, Restart, InMeta
  <2>2. MetadataIsWritten'
    BY <2>1 DEF MetaInv, Undecoded, MetadataIsWritten
  <2> QED
    BY <1>1, <1>2, <2>1, <2>2 DEF MetaInv
<1>5. CASE MetaTake
  BY <1>1, <1>5, TakeKeeps
<1>6. CASE MetaEnds
  <2>1. walk' # "meta"
    BY <1>6 DEF MetaEnds, Restart
  <2> QED
    BY <1>1, <1>2, <1>6, <2>1, EndKeeps DEF MetaInv
<1>7. CASE FindPasses \/ FindFails \/ FindDxattr \/ FindXattr \/ AttrReturned
  <2>1. walk # "meta" /\ walk' # "meta" /\ meta' = meta /\ object' = object
    BY <1>7 DEF FindPasses, FindFails, FindDxattr, FindXattr, AttrReturned, attrVars, Restart,
                NextWalk, Finding, AtWanted
  <2>2. MetadataIsWritten'
    BY <2>1 DEF MetaInv, MetadataIsWritten
  <2> QED
    BY <1>1, <1>2, <2>1, <2>2 DEF MetaInv
<1>8. CASE UNCHANGED attrVars
  BY <1>1, <1>8 DEF attrVars, MetaInv, MetadataIsWritten, MetaWalks, Undecoded, InMeta, SoFar,
                    AttrPassed, Bonus
<1> QED
  BY <1>3, <1>4, <1>5, <1>6, <1>7, <1>8 DEF AttrNext

LEMMA MetaInvHolds == AttrSpec => []MetaInv
<1>1. AttrInit => MetaInv
  <2> SUFFICES ASSUME AttrInit PROVE MetaInv
    OBVIOUS
  <2>1. HdrSize(Bonus) \in Nat
    BY HeaderIs, BonusIs DEF AttrInit, Bonus
  <2>2. AttrTyped
    BY <2>1, EmptySeq DEF AttrInit, AttrTyped
  <2>3. ASSUME InMeta PROVE MetaWalks
    <3>1. HdrSize(Bonus) = object.at[1] /\ object \in Objects
          /\ object.bonustype = "sa" /\ Walkable(object, object.full)
      BY <2>2, <2>3, InMetaPlaces DEF AttrTyped
    <3>2. AttrCount(object) \in Nat
      BY <3>1, AttrPlaces
    <3>3. ~ \E j \in 1 .. pos - 1 : TRUE
      BY DEF AttrInit
    <3>4. \A n \in Range(Known) : SoFar[n] = <<>> /\ ~AttrPassed(n)
      BY <3>3 DEF AttrInit, SoFar, Unset, AttrPassed
    <3> QED
      BY <3>1, <3>2, <3>3, <3>4 DEF AttrInit, MetaWalks
  <2> QED
    BY <2>2, <2>3 DEF AttrInit, MetaInv, MetaWalks, Undecoded, MetadataIsWritten
<1> QED
  BY <1>1, MetaInvStep, PTL DEF AttrSpec

\* Every variable of zpl_attrs and list_xattrs stays in its type, whatever the
\* bonus holds: an attribute is kept with all its bytes or not at all, the
\* metadata walk never leaves the bonus, and no walk counts more attributes of
\* variable length than it has passed.
THEOREM AttrTypes == AttrSpec => []AttrTypeOK
<1>1. MetaInv => AttrTypeOK
  BY DEF MetaInv, AttrTyped, AttrTypeOK, MetaTyped
<1> QED
  BY <1>1, MetaInvHolds, PTL

\* decode_sa_bonus and decode_znode_phys give a known attribute the value that
\* was written for it or none, for any registry, layout and bonus, cut or
\* lying; and of a whole bonus every one before the first of variable length.
THEOREM MetadataIsTheObjects == AttrSpec => []MetadataIsWritten
<1>1. MetaInv => MetadataIsWritten
  BY DEF MetaInv
<1> QED
  BY <1>1, MetaInvHolds, PTL

\* The walk of sa_attr_bytes is where an attribute begins, knows its place in
\* the array of lengths, and has passed only registered attributes that are
\* not the one it looks for.
Searching ==
  Finding /\ object.harm \in {"none", "cut"} /\ Walkable(object, Bonus) =>
    /\ pos <= AttrCount(object) + 1 /\ off = object.at[pos]
    /\ nvar = Cardinality(VariableBefore(object, pos))
    /\ \A j \in 1 .. pos - 1 : Registered(object, j) /\ FullIds(object)[j] # Want

\* What was found: nothing while a walk goes on, and of a whole bonus what
\* was written.
Found ==
  /\ walk # "returned" => xattrs = <<>> /\ source = "none"
  /\ object.harm = "none" /\ walk = "xattr" => object.inSa = <<>>
  /\ object.harm = "none" /\ walk = "returned" =>
       /\ xattrs = IF object.inSa # <<>> THEN object.inSa ELSE object.inDir
       /\ source = "sa" => object.inSa # <<>>
  /\ object.harm = "cut" /\ walk = "returned" => xattrs \in {<<>>, object.inSa, object.inDir}

SearchInv == AttrTyped /\ Searching /\ Found

\* At the first attribute every walk is in place.
LEMMA RestartSearches ==
  ASSUME AttrTyped, NEW next, Restart(next)
  PROVE  Searching'
<1>1. object' = object /\ object \in Objects /\ pos' = 1 /\ nvar' = 0 /\ off' = HdrSize(Bonus)
  BY RestartIs DEF AttrTyped
<1>2. SUFFICES ASSUME object.harm \in {"none", "cut"}, Walkable(object, Bonus)
               PROVE  /\ 1 <= AttrCount(object) + 1 /\ HdrSize(Bonus) = object.at[1]
                      /\ 0 = Cardinality(VariableBefore(object, 1))
  BY <1>1 DEF Searching, Bonus
<1>3. object.bonustype = "sa" /\ Walkable(object, object.full)
  BY <1>1, <1>2, LengthsAre
<1>4. AttrCount(object) \in Nat /\ HdrSize(object.full) = object.at[1]
  BY <1>1, <1>3, AttrPlaces
<1>5. HdrSize(Bonus) = HdrSize(object.full)
  BY <1>1, <1>2, SameLayout DEF Bonus
<1>6. Cardinality(VariableBefore(object, 1)) = 0
  BY VariableStep
<1> QED
  BY <1>4, <1>5, <1>6

\* The length the walk takes an attribute to have is the one it has.
LEMMA LengthIsWritten ==
  ASSUME AttrTyped, Searching, Finding, object.harm \in {"none", "cut"}, Measurable
  PROVE  /\ object \in Objects /\ pos \in 1 .. AttrCount(object) /\ AttrCount(object) \in Nat
         /\ off = object.at[pos] /\ Id = FullIds(object)[pos] /\ Registered(object, pos)
         /\ object.at[pos] \in Nat /\ object.at[pos + 1] \in Nat
         /\ off + Length = object.at[pos + 1]
<1>1. Walkable(object, Bonus) /\ More /\ Size # -1 /\ object \in Objects
  BY DEF Measurable, AttrTyped
<1>2. pos \in 1 .. AttrCount(object) /\ AttrCount(object) \in Nat /\ Id = FullIds(object)[pos]
      /\ Size = SizeOf(object, FullIds(object)[pos]) /\ Size \in Nat
  BY <1>1, HereIs DEF AttrTyped
<1>3. off = object.at[pos] /\ nvar = Cardinality(VariableBefore(object, pos))
  BY <1>1 DEF Searching
<1>4. object.bonustype = "sa" /\ Walkable(object, object.full)
  BY <1>1, LengthsAre
<1>5. Registered(object, pos)
  BY <1>1, <1>2 DEF Registered
<1>6. object.at[pos] \in Nat /\ object.at[pos + 1] \in Nat
  <2>1. pos + 1 \in 1 .. AttrCount(object) + 1 /\ pos \in 1 .. AttrCount(object) + 1
    BY <1>2
  <2> QED
    BY <1>1, <1>4, <2>1, AttrPlaces
<1>7. CASE Size = 0
  <2>1. Variable(object, pos)
    BY <1>2, <1>7 DEF Variable
  <2>2. LengthAt = 6 + 2 * Cardinality(VariableBefore(object, pos))
    BY <1>3 DEF LengthAt
  <2>3. object.at[pos] + LE16(object.full, LengthAt) = object.at[pos + 1]
    BY <1>1, <1>2, <2>1, <2>2, LengthsAre
  <2>4. LengthAt \in Nat /\ LengthAt + 2 <= Len(Bonus)
    BY <1>7 DEF Measurable, LengthAt, AttrTyped
  <2>5. Len(Bonus) \in Nat /\ Len(object.full) \in Nat /\ Len(Bonus) <= Len(object.full)
        /\ \A i \in 1 .. Len(Bonus) : Bonus[i] = object.full[i]
    BY <1>1, BonusIs, LenProperties DEF Bonus
  <2>6. Bonus[LengthAt + 1] = object.full[LengthAt + 1] /\ Bonus[LengthAt + 2] = object.full[LengthAt + 2]
    BY <2>4, <2>5
  <2>7. LE16(Bonus, LengthAt) = LE16(object.full, LengthAt)
    BY <2>4, <2>5, <2>6 DEF LE16
  <2>8. Length = LE16(object.full, LengthAt)
    BY <1>7, <2>7 DEF Length
  <2> QED
    BY <1>1, <1>2, <1>3, <1>5, <1>6, <2>3, <2>8
<1>8. CASE Size # 0
  <2>1. Fixed(object, pos)
    BY <1>2, <1>8 DEF Fixed
  <2>2. Length = SizeOf(object, FullIds(object)[pos])
    BY <1>2, <1>8 DEF Length
  <2>3. object.at[pos + 1] = object.at[pos] + Length
    BY <1>1, <1>2, <1>4, <2>1, <2>2, AttrPlaces
  <2> QED
    BY <1>1, <1>2, <1>3, <1>5, <1>6, <2>3
<1> QED
  BY <1>7, <1>8

LEMMA PassSearches ==
  ASSUME AttrTyped, Searching, FindPasses
  PROVE  Searching'
<1>1. Finding /\ Measurable /\ Id # Want /\ pos' = pos + 1 /\ off' = off + Length
      /\ object' = object /\ walk' = walk /\ pos \in Nat \ {0}
  BY DEF FindPasses, AttrTyped
<1>2. SUFFICES ASSUME object.harm \in {"none", "cut"}, Walkable(object, Bonus)
               PROVE  /\ pos' <= AttrCount(object) + 1 /\ off' = object.at[pos']
                      /\ nvar' = Cardinality(VariableBefore(object, pos'))
                      /\ \A j \in 1 .. pos' - 1 : Registered(object, j) /\ FullIds(object)[j] # Want
  BY <1>1 DEF Searching, Bonus, Want
<1>3. /\ pos \in 1 .. AttrCount(object) /\ AttrCount(object) \in Nat
      /\ Id = FullIds(object)[pos] /\ Registered(object, pos) /\ off + Length = object.at[pos + 1]
  BY <1>1, <1>2, LengthIsWritten
<1>4. /\ nvar = Cardinality(VariableBefore(object, pos))
      /\ \A j \in 1 .. pos - 1 : Registered(object, j) /\ FullIds(object)[j] # Want
  BY <1>1, <1>2 DEF Searching
<1>5. Size = 0 <=> Variable(object, pos)
  BY <1>3 DEF Size, Variable
<1>6. nvar' = Cardinality(VariableBefore(object, pos + 1))
  BY <1>1, <1>4, <1>5, VariableStep DEF FindPasses
<1>7. \A j \in 1 .. pos : Registered(object, j) /\ FullIds(object)[j] # Want
  BY <1>1, <1>3, <1>4
<1>8. pos' - 1 = pos /\ pos' <= AttrCount(object) + 1
  BY <1>1, <1>3
<1> QED
  BY <1>1, <1>3, <1>6, <1>7, <1>8

\* What stands where the wanted attribute is found is one it may be found by.
LEMMA FoundIsReachable ==
  ASSUME AttrTyped, Searching, AtWanted, ValueFits, object.harm \in {"none", "cut"}
  PROVE  \A name : Want = IdOf(object, name) =>
           /\ pos \in Reachable(object, name)
           /\ Value = SubSeq(object.full, object.at[pos] + 1, object.at[pos + 1])
<1>1. Finding /\ Measurable /\ Id = Want /\ Walkable(object, Bonus)
  BY DEF AtWanted, Measurable
<1>2. /\ object \in Objects /\ pos \in 1 .. AttrCount(object) /\ AttrCount(object) \in Nat
      /\ off = object.at[pos] /\ Id = FullIds(object)[pos] /\ Registered(object, pos)
      /\ object.at[pos] \in Nat /\ object.at[pos + 1] \in Nat
      /\ off + Length = object.at[pos + 1]
  BY <1>1, LengthIsWritten
<1>3. \A j \in 1 .. pos : Registered(object, j)
  BY <1>1, <1>2 DEF Searching
<1>4. object.at[pos + 1] <= Len(Bonus)
  BY <1>2 DEF ValueFits
<1>5. Value = SubSeq(object.full, object.at[pos] + 1, object.at[pos + 1])
  <2> DEFINE a == object.at[pos]
             b == object.at[pos + 1]
  <2>1. Value = SubSeq(object.bonus, a + 1, b)
    BY <1>2 DEF Value, Bonus
  <2>2. a \in Nat /\ b \in Nat /\ b <= Len(object.bonus)
    BY <1>2, <1>4 DEF Bonus
  <2> HIDE DEF a, b
  <2>3. SubSeq(object.bonus, a + 1, b) = SubSeq(object.full, a + 1, b)
    BY <1>2, <2>2, BonusIs
  <2> QED
    BY <2>1, <2>3 DEF a, b
<1> QED
  BY <1>1, <1>2, <1>3, <1>5 DEF Reachable, AttrCount

\* A walk of a whole bonus that finds nothing had nothing to find.
LEMMA FailsRightly ==
  ASSUME AttrTyped, Searching, FindFails, object.harm = "none"
  PROVE  \A name : Want = IdOf(object, name) => Reachable(object, name) = {}
<1> SUFFICES ASSUME NEW name, Want = IdOf(object, name), NEW i \in Reachable(object, name)
             PROVE  FALSE
  OBVIOUS
<1>1. object \in Objects /\ object.bonustype = "sa" /\ Walkable(object, object.full)
  BY LengthsAre DEF AttrTyped
<1>2. object.bonus = object.full
  BY <1>1, ObjectsAssumption DEF ObjectWritten
<1>3. Walkable(object, Bonus) /\ Finding /\ pos \in Nat \ {0}
  BY <1>1, <1>2 DEF Bonus, FindFails, AttrTyped
<1>4. i \in 1 .. AttrCount(object) /\ FullIds(object)[i] = Want
      /\ \A j \in 1 .. i : Registered(object, j)
  BY DEF Reachable, AttrCount
<1>5. AttrCount(object) \in Nat /\ FullIds(object)[i] \in Nat
  BY <1>1, <1>4, AttrPlaces
<1>6. ~ (i < pos)
  BY <1>3, <1>4, <1>5 DEF Searching
<1>7. pos \in 1 .. AttrCount(object) /\ pos \in 1 .. i /\ pos + 1 \in 1 .. AttrCount(object) + 1
  BY <1>3, <1>4, <1>5, <1>6
<1>8. More
  BY <1>2, <1>7 DEF More, AttrCount, FullIds, Bonus
<1>9. Id = FullIds(object)[pos] /\ Size = SizeOf(object, FullIds(object)[pos])
  BY <1>1, <1>3, <1>8, HereIs
<1>10. Size # -1
  BY <1>4, <1>7, <1>9 DEF Registered
<1>11. Want # -1
  BY <1>4, <1>5
<1>12. Measurable
  <2>1. ASSUME Size = 0 PROVE LengthAt + 2 <= HdrSize(Bonus) /\ LengthAt + 2 <= Len(Bonus)
    <3>1. Variable(object, pos)
      BY <1>9, <2>1 DEF Variable
    <3>2. LengthAt = 6 + 2 * Cardinality(VariableBefore(object, pos))
      BY <1>3 DEF Searching, LengthAt
    <3>3. LengthAt + 2 <= HdrSize(object.full) /\ HdrSize(object.full) <= Len(object.full)
      BY <1>1, <1>7, <3>1, <3>2, LengthsAre
    <3>4. LengthAt \in Nat /\ HdrSize(object.full) \in Nat /\ Len(object.full) \in Nat
      BY <1>1, BonusIs, LenProperties, HeaderIs DEF LengthAt, AttrTyped
    <3> QED
      BY <1>2, <3>3, <3>4 DEF Bonus
  <2> QED
    BY <1>3, <1>8, <1>10, <1>11, <2>1 DEF Measurable
<1>13. AtWanted /\ ~ValueFits
  BY <1>12 DEF FindFails
<1>14. off + Length = object.at[pos + 1]
  BY <1>3, <1>12, LengthIsWritten
<1>15. object.at[pos + 1] <= Len(Bonus)
  BY <1>1, <1>2, <1>7, LengthsAre DEF Bonus
<1> QED
  BY <1>13, <1>14, <1>15 DEF ValueFits

LEMMA SearchStep ==
  SearchInv /\ [AttrNext]_attrVars => SearchInv'
<1> SUFFICES ASSUME SearchInv, [AttrNext]_attrVars PROVE SearchInv'
  OBVIOUS
<1>1. AttrTyped /\ AttrTyped' /\ Searching /\ Found
  BY AttrStepTyped DEF SearchInv
<1>2. ASSUME object.harm \in {"none", "cut"}
      PROVE  object.bonustype = "sa" /\ XattrsWritten(object)
  BY <1>1, <1>2, ObjectsAssumption DEF AttrTyped, ObjectWritten
<1>3. CASE MetaOfZnode \/ MetaOfNothing \/ MetaEnds
  <2>1. Restart("dxattr") /\ walk = "meta" /\ xattrs' = xattrs /\ source' = source
    BY <1>3 DEF MetaOfZnode, MetaOfNothing, MetaEnds, InMeta
  <2>2. Searching'
    BY <1>1, <2>1, RestartSearches
  <2>3. walk' = "dxattr" /\ object' = object
    BY <2>1 DEF Restart
  <2>4. Found'
    BY <1>1, <2>1, <2>3 DEF Found
  <2> QED
    BY <1>1, <2>2, <2>4 DEF SearchInv
<1>4. CASE MetaTake
  <2>1. walk = "meta" /\ walk' = walk /\ object' = object /\ xattrs' = xattrs /\ source' = source
    BY <1>4 DEF MetaTake, InMeta
  <2> QED
    BY <1>1, <2>1 DEF SearchInv, Searching, Finding, Found
<1>5. CASE FindPasses
  <2>1. Searching'
    BY <1>1, <1>5, PassSearches
  <2>2. walk' = walk /\ object' = object /\ xattrs' = xattrs /\ source' = source
    BY <1>5 DEF FindPasses
  <2> QED
    BY <1>1, <2>1, <2>2 DEF SearchInv, Found
<1>6. CASE FindFails
  <2>1. Restart(NextWalk) /\ Finding /\ xattrs' = xattrs /\ source' = source
    BY <1>6 DEF FindFails
  <2>2. Searching'
    BY <1>1, <2>1, RestartSearches
  <2>3. object' = object /\ walk' = NextWalk /\ xattrs = <<>> /\ source = "none"
    BY <1>1, <2>1 DEF Restart, Found, Finding
  <2>4. ASSUME object.harm = "none", walk = "dxattr" PROVE object.inSa = <<>>
    <3>1. Reachable(object, DXATTR) = {}
      BY <1>1, <1>6, <2>4, FailsRightly DEF Want
    <3> QED
      BY <1>2, <2>4, <3>1 DEF XattrsWritten
  <2>5. ASSUME object.harm = "none", walk = "xattr" PROVE object.inSa = <<>> /\ object.inDir = <<>>
    <3>1. Reachable(object, XATTR) = {}
      BY <1>1, <1>6, <2>5, FailsRightly DEF Want
    <3> QED
      BY <1>1, <1>2, <2>5, <3>1 DEF XattrsWritten, Found
  <2>6. Found'
    BY <1>1, <2>1, <2>3, <2>4, <2>5 DEF Found, NextWalk, Finding
  <2> QED
    BY <1>1, <2>2, <2>6 DEF SearchInv
<1>7. CASE FindDxattr
  <2>1. AtWanted /\ ValueFits /\ walk = "dxattr" /\ object' = object
        /\ \E pairs \in Unpacked(Value) : xattrs' = Attributes(pairs)
    BY <1>7 DEF FindDxattr, Restart
  <2>2. \/ xattrs' = <<>> /\ Restart("xattr") /\ source' = source
        \/ xattrs' # <<>> /\ Restart("returned") /\ source' = "sa"
    BY <1>7 DEF FindDxattr
  <2>3. Searching'
    BY <1>1, <2>2, RestartSearches
  <2>4. ASSUME object.harm \in {"none", "cut"} PROVE xattrs' = object.inSa
    <3>1. /\ pos \in Reachable(object, DXATTR)
          /\ Value = SubSeq(object.full, object.at[pos] + 1, object.at[pos + 1])
      BY <1>1, <2>1, <2>4, FoundIsReachable DEF Want
    <3>2. Value = object.packed /\ object.inSa = Attributes(object.pairs)
      BY <1>2, <2>4, <3>1 DEF XattrsWritten
    <3> QED
      BY <2>1, <3>2 DEF Unpacked
  <2>5. walk' = IF xattrs' = <<>> THEN "xattr" ELSE "returned"
    BY <2>2 DEF Restart
  <2>6. source = "none"
    BY <1>1, <2>1 DEF Found
  <2>7. Found'
    BY <2>1, <2>2, <2>4, <2>5, <2>6 DEF Found
  <2> QED
    BY <1>1, <2>3, <2>7 DEF SearchInv
<1>8. CASE FindXattr
  <2>1. AtWanted /\ ValueFits /\ walk = "xattr" /\ object' = object /\ walk' = "returned"
        /\ xattrs' = Listed(object, Value) /\ source' = "dir" /\ Restart("returned")
    BY <1>8 DEF FindXattr, Restart
  <2>2. Searching'
    BY <1>1, <2>1, RestartSearches
  <2>3. ASSUME object.harm \in {"none", "cut"} PROVE xattrs' = object.inDir
    <3>1. /\ pos \in Reachable(object, XATTR)
          /\ Value = SubSeq(object.full, object.at[pos] + 1, object.at[pos + 1])
      BY <1>1, <2>1, <2>3, FoundIsReachable DEF Want
    <3> QED
      BY <1>2, <2>1, <2>3, <3>1 DEF XattrsWritten
  <2>4. object.harm = "none" => object.inSa = <<>>
    BY <1>1, <2>1 DEF Found
  <2>5. Found'
    BY <2>1, <2>3, <2>4 DEF Found
  <2> QED
    BY <1>1, <2>2, <2>5 DEF SearchInv
<1>9. CASE AttrReturned \/ UNCHANGED attrVars
  BY <1>1, <1>9 DEF AttrReturned, attrVars, SearchInv, Searching, Found, Finding, Want, Bonus
<1> QED
  BY <1>3, <1>4, <1>5, <1>6, <1>7, <1>8, <1>9 DEF AttrNext

\* list_xattrs gives all attributes of an undamaged object, or says that there
\* are some in a spill block; those of an object whose bonus is cut it gives
\* whole or not at all, for any layout with any number of variable lengths.
THEOREM XattrsAreWhole == AttrSpec => []XattrsAreWritten
<1>1. AttrInit => SearchInv
  <2> SUFFICES ASSUME AttrInit PROVE SearchInv
    OBVIOUS
  <2>1. HdrSize(Bonus) \in Nat
    BY HeaderIs, BonusIs DEF AttrInit, Bonus
  <2>2. AttrTyped
    BY <2>1, EmptySeq DEF AttrInit, AttrTyped
  <2> QED
    BY <2>2 DEF AttrInit, SearchInv, Searching, Finding, Found
<1>2. SearchInv => XattrsAreWritten
  <2> SUFFICES ASSUME SearchInv, walk = "returned"
               PROVE  /\ object.harm = "none" =>
                           /\ xattrs = IF object.inSa # <<>> THEN object.inSa ELSE object.inDir
                           /\ object.inSpill => HasUnreadSpill
                      /\ object.harm = "cut" => xattrs \in {<<>>, object.inSa, object.inDir}
                      /\ HasUnreadSpill => object.spill
    BY DEF XattrsAreWritten
  <2>1. ASSUME object.harm = "none", object.inSpill PROVE HasUnreadSpill
    <3>1. object.spill /\ object.inSa = <<>>
      BY <2>1, ObjectsAssumption DEF SearchInv, AttrTyped, ObjectWritten, XattrsWritten
    <3> QED
      BY <2>1, <3>1 DEF HasUnreadSpill, SearchInv, Found
  <2> QED
    BY <2>1 DEF SearchInv, Found, HasUnreadSpill
<1> QED
  BY <1>1, <1>2, SearchStep, PTL DEF AttrSpec

(***************************************************************************)
(* Decompression of a block.  An undamaged stream is followed item by item *)
(* (or run by run), so the output is always a front of the data; a stream  *)
(* that is cut is followed to where it ends.                               *)
(***************************************************************************)
\* What is before a place in a sequence.
LEMMA FrontIs ==
  ASSUME NEW S, NEW s \in Seq(S), NEW a \in 0 .. Len(s)
  PROVE  /\ SubSeq(s, 1, a) \in Seq(S) /\ Len(SubSeq(s, 1, a)) = a
         /\ \A i \in 1 .. a : SubSeq(s, 1, a)[i] = s[i]
<1>1. Len(s) \in Nat /\ a \in Nat
  BY LenProperties
<1>2. \A i \in 1 .. a : s[i] \in S
  <2>1. \A i \in 1 .. a : i \in 1 .. Len(s)
    BY <1>1
  <2> QED
    BY <2>1, ElementOfSeq
<1>3. /\ SubSeq(s, 1, a) \in Seq(S)
      /\ Len(SubSeq(s, 1, a)) = IF 1 <= a THEN a - 1 + 1 ELSE 0
      /\ \A i \in 1 .. a - 1 + 1 : SubSeq(s, 1, a)[i] = s[1 + i - 1]
  BY <1>1, <1>2, SubSeqProperties
<1> QED
  BY <1>1, <1>3

\* A block of the runs.
LEMMA BlockIs ==
  ASSUME NEW x \in Blocks
  PROVE  /\ x.src \in Seq(Bytes) /\ x.data \in Seq(Bytes) /\ x.lsize \in Nat
         /\ Len(x.src) \in Nat /\ Len(x.data) \in Nat
         /\ \A k \in 1 .. Len(x.src) : x.src[k] \in Bytes
         /\ \A k \in 1 .. Len(x.data) : x.data[k] \in Bytes
  BY BlocksAssumption, LenProperties, ElementOfSeq DEF BlockWritten

\* A block as long as it is to be, filled with zeros or cut.
LEMMA PaddedIs ==
  ASSUME block \in Blocks, NEW s \in Seq(Bytes)
  PROVE  Padded(s) \in Seq(Bytes) /\ Len(Padded(s)) = block.lsize
<1>1. block.lsize \in Nat /\ Len(s) \in Nat
  BY BlockIs, LenProperties
<1>2. \A i \in 1 .. block.lsize : (IF i <= Len(s) THEN s[i] ELSE 0) \in Bytes
  <2>1. \A i \in 1 .. Len(s) : s[i] \in Bytes
    BY ElementOfSeq
  <2>2. 0 \in Bytes
    BY DEF Bytes
  <2> QED
    BY <1>1, <2>1, <2>2
<1> DEFINE n == block.lsize
<1> HIDE DEF n
<1>3. \A i \in 1 .. n : (IF i <= Len(s) THEN s[i] ELSE 0) \in Bytes
  BY <1>2 DEF n
<1>4. n \in Nat
  BY <1>1 DEF n
<1>5. [i \in 1 .. n |-> IF i <= Len(s) THEN s[i] ELSE 0] \in Seq(Bytes)
      /\ Len([i \in 1 .. n |-> IF i <= Len(s) THEN s[i] ELSE 0]) = n
  BY <1>3, <1>4
<1> QED
  BY <1>5 DEF Padded, n

LEMMA ShorterIs ==
  ASSUME block \in Blocks, NEW s \in Seq(Bytes)
  PROVE  /\ Shorter(s) \in Seq(Bytes)
         /\ Len(Shorter(s)) = IF Len(s) > block.lsize THEN block.lsize ELSE Len(s)
<1>1. block.lsize \in Nat /\ Len(s) \in Nat
  BY BlockIs, LenProperties
<1>2. CASE Len(s) > block.lsize
  <2>1. block.lsize \in 0 .. Len(s)
    BY <1>1, <1>2
  <2> QED
    BY <1>2, <2>1, FrontIs DEF Shorter
<1>3. CASE ~ (Len(s) > block.lsize)
  BY <1>3 DEF Shorter
<1> QED
  BY <1>2, <1>3

\* Whatever the other crates yield is bytes.
LEMMA YieldIs ==
  ASSUME block \in Blocks, NEW bytes, NEW y \in Yields(bytes)
  PROVE  y.data \in Seq(Bytes)
<1>1. block.data \in Seq(Bytes) /\ Len(block.data) \in Nat /\ block.lsize \in Nat
  BY BlockIs
<1>2. \A n \in 0 .. Len(block.data) : SubSeq(block.data, 1, n) \in Seq(Bytes)
  BY <1>1, FrontIs
<1>3. 99 \in Bytes
  BY DEF Bytes
<1>4. <<>> \in Seq(Bytes) /\ <<99>> \in Seq(Bytes)
  BY <1>3
<1>5. [i \in 1 .. block.lsize + 1 |-> 99] \in Seq(Bytes)
  BY <1>1, <1>3
<1> DEFINE some == {SubSeq(block.data, 1, n) : n \in {0, 1, Len(block.data) - 1} \cap 0 .. Len(block.data)}
           none == {<<>>, <<99>>, [i \in 1 .. block.lsize + 1 |-> 99]}
<1>6. \A d \in some \cup none : d \in Seq(Bytes)
  BY <1>2, <1>4, <1>5
<1>7. y \in {[data |-> block.data, broken |-> FALSE]}
        \cup [data: some, broken: BOOLEAN] \cup [data: none, broken: BOOLEAN]
  BY DEF Yields
<1> HIDE DEF some, none
<1>8. y.data = block.data \/ y.data \in some \cup none
  BY <1>7
<1> QED
  BY <1>1, <1>6, <1>8

\* Before a block is verified nothing of it is decompressed.
Begun == si = 0 /\ copymap = 0 /\ bit = 7 /\ left = 0 /\ cpy = 0 /\ output = <<>>

\* Nothing is consumed beyond the stream or produced beyond lsize, and a match
\* under way copies from before the end of the output.
CodecTyped ==
  /\ block \in Blocks
  /\ pc \in {"verify", "decode", "returned"}
  /\ verdict \in {"good", "bad", "none"}
  /\ result \in {"pending", "ok", "malformed", "unsupported"}
  /\ si \in 0 .. Len(block.src) /\ bit \in 0 .. 7 /\ copymap \in Bytes
  /\ left \in Nat /\ cpy \in Nat
  /\ output \in Seq(Bytes) /\ Len(output) <= block.lsize
  /\ pc = "verify" => Begun
  /\ pc = "decode" /\ left > 0 => cpy < Len(output)

\* What an item is read from.
LEMMA ItemIs ==
  ASSUME CodecTyped
  PROVE  /\ Bit \in 0 .. 7 /\ At \in Nat
         /\ Copymap \in Bytes
         /\ \A k \in Nat : At + k < Len(block.src) => block.src[At + k + 1] \in Bytes
<1>1. Len(block.src) \in Nat /\ si \in Nat /\ bit \in Nat
      /\ \A k \in 1 .. Len(block.src) : block.src[k] \in Bytes
  BY BlockIs DEF CodecTyped
<1>2. \A k \in Nat : (k + 1) % 8 \in 0 .. 7
  OBVIOUS
<1>3. Bit \in 0 .. 7
  BY <1>1, <1>2 DEF Bit
<1>4. At \in Nat
  BY <1>1 DEF At
<1>5. si < Len(block.src) => si + 1 \in 1 .. Len(block.src)
  BY <1>1
<1>6. Copymap \in Bytes
  BY <1>1, <1>5 DEF CodecTyped, Copymap
<1>7. \A k \in Nat : At + k < Len(block.src) => At + k + 1 \in 1 .. Len(block.src)
  BY <1>1, <1>4
<1> QED
  BY <1>1, <1>3, <1>4, <1>6, <1>7

LEMMA TakeItemTyped ==
  ASSUME CodecTyped, NEW n \in {1, 2}, TakeItem(n), At + n <= Len(block.src)
  PROVE  /\ block' = block /\ block' \in Blocks /\ pc' = pc /\ verdict' = verdict /\ result' = result
         /\ si' \in 0 .. Len(block'.src) /\ bit' \in 0 .. 7 /\ copymap' \in Bytes
<1>1. Len(block.src) \in Nat
  BY BlockIs DEF CodecTyped
<1> QED
  BY <1>1, ItemIs DEF CodecTyped, TakeItem

LEMMA MatchIs ==
  ASSUME NEW b0 \in Bytes, NEW b1 \in Bytes
  PROVE  MatchLen(b0) \in Nat \ {0} /\ Offset(b0, b1) \in Nat
<1>1. \A k \in 0 .. 255 : k \div 4 + 3 \in Nat \ {0}
  OBVIOUS
<1>2. \A k \in Nat : k % 1024 \in Nat
  OBVIOUS
<1>3. 256 * b0 + b1 \in Nat
  BY DEF Bytes
<1> QED
  BY <1>1, <1>2, <1>3 DEF MatchLen, Offset, Bytes

LEMMA ReturnTyped ==
  ASSUME CodecTyped, NEW r \in {"ok", "malformed", "unsupported"}, Return(r),
         output' \in Seq(Bytes), Len(output') <= block.lsize
  PROVE  CodecTyped'
  BY DEF CodecTyped, Return, Begun

LEMMA MalformedTyped ==
  ASSUME CodecTyped, Malformed
  PROVE  CodecTyped'
<1>1. <<>> \in Seq(Bytes) /\ Len(<<>>) <= block.lsize
  BY BlockIs DEF CodecTyped
<1> QED
  BY <1>1, ReturnTyped DEF Malformed

LEMMA WholeReturnTyped ==
  ASSUME CodecTyped, Unsupported \/ Empty \/ Off \/ ZstdShort \/ Inflate \/ Lz4Short \/ Lz4
  PROVE  CodecTyped'
<1>1. block \in Blocks /\ block.src \in Seq(Bytes) /\ block.lsize \in Nat /\ <<>> \in Seq(Bytes)
      /\ Len(<<>>) <= block.lsize
  BY BlockIs DEF CodecTyped
<1>2. CASE Unsupported
  BY <1>1, <1>2, ReturnTyped DEF Unsupported
<1>3. CASE Empty
  <2>1. Padded(<<>>) \in Seq(Bytes) /\ Len(Padded(<<>>)) = block.lsize
    BY <1>1, PaddedIs
  <2>2. output' = Padded(<<>>) /\ Return("ok")
    BY <1>3 DEF Empty
  <2> QED
    BY <1>1, <2>1, <2>2, ReturnTyped
<1>4. CASE Off
  BY <1>1, <1>4, ReturnTyped, PaddedIs DEF Off
<1>5. CASE ZstdShort \/ Lz4Short
  BY <1>5, MalformedTyped DEF ZstdShort, Lz4Short
<1>6. CASE Inflate
  <2>1. PICK y \in Yields(Unframed(block.src)) :
          \/ y.broken /\ Malformed
          \/ output' = Padded(y.data) /\ Return("ok")
    BY <1>6 DEF Inflate
  <2>2. y.data \in Seq(Bytes)
    BY <1>1, YieldIs
  <2> QED
    BY <1>1, <2>1, <2>2, MalformedTyped, ReturnTyped, PaddedIs
<1>7. CASE Lz4
  <2>1. PICK y \in Yields(Lz4Frame(block.src)) :
          \/ Malformed
          \/ output' = y.data /\ Return("ok") /\ ~ (Len(y.data) > block.lsize)
    BY <1>7 DEF Lz4
  <2>2. y.data \in Seq(Bytes) /\ Len(y.data) \in Nat
    BY <1>1, YieldIs, LenProperties
  <2> QED
    BY <1>1, <2>1, <2>2, MalformedTyped, ReturnTyped
<1> QED
  BY <1>2, <1>3, <1>4, <1>5, <1>6, <1>7

LEMMA LzjbTyped ==
  ASSUME CodecTyped, ItemCut \/ Literal \/ BadMatch \/ Match \/ CopyByte
  PROVE  CodecTyped'
<1>1. block \in Blocks /\ Len(output) \in Nat /\ output \in Seq(Bytes) /\ block.lsize \in Nat
      /\ Len(block.src) \in Nat
  BY BlockIs, LenProperties DEF CodecTyped
<1>2. CASE ItemCut \/ BadMatch
  BY <1>2, MalformedTyped DEF ItemCut, BadMatch
<1>3. CASE Literal
  <2>1. pc = "decode" /\ At + 1 <= Len(block.src) /\ Len(output) < block.lsize /\ TakeItem(1) /\ left = 0
        /\ output' = Append(output, block.src[At + 1]) /\ left' = left /\ cpy' = cpy
    BY <1>3 DEF Literal, Item, AtItem, Decoding
  <2>2. block.src[At + 1] \in Bytes
    <3>1. At \in Nat /\ At + 0 < Len(block.src) /\ At + 0 + 1 = At + 1
      BY <1>1, <2>1, ItemIs
    <3> QED
      BY <3>1, ItemIs
  <2>3. output' \in Seq(Bytes) /\ Len(output') = Len(output) + 1
    BY <1>1, <2>1, <2>2, AppendProperties
  <2> QED
    BY <1>1, <2>1, <2>3, TakeItemTyped DEF CodecTyped
<1>4. CASE Match
  <2>1. pc = "decode" /\ At + 2 <= Len(block.src) /\ TakeItem(2) /\ OffsetHere \in 1 .. Len(output)
        /\ output' = output /\ left' = MatchLen(block.src[At + 1]) /\ cpy' = Len(output) - OffsetHere
    BY <1>4 DEF Match, Item, AtItem, Decoding
  <2>2. block.src[At + 1] \in Bytes
    <3>1. At \in Nat /\ At + 0 < Len(block.src) /\ At + 0 + 1 = At + 1
      BY <1>1, <2>1, ItemIs
    <3> QED
      BY <3>1, ItemIs
  <2>3. left' \in Nat
    BY <2>1, <2>2, MatchIs
  <2>4. cpy' \in Nat /\ cpy' < Len(output)
    BY <1>1, <2>1
  <2> QED
    BY <1>1, <2>1, <2>3, <2>4, TakeItemTyped DEF CodecTyped
<1>5. CASE CopyByte
  <2>1. pc = "decode" /\ left > 0 /\ Len(output) < block.lsize
        /\ output' = Append(output, output[cpy + 1]) /\ left' = left - 1 /\ cpy' = cpy + 1
        /\ UNCHANGED <<block, pc, verdict, si, copymap, bit, result>>
    BY <1>5 DEF CopyByte, Copying, Decoding, Copy
  <2>2. cpy + 1 \in 1 .. Len(output)
    BY <1>1, <2>1 DEF CodecTyped
  <2>3. output[cpy + 1] \in Bytes
    BY <1>1, <2>2, ElementOfSeq
  <2>4. output' \in Seq(Bytes) /\ Len(output') = Len(output) + 1
    BY <1>1, <2>1, <2>3, AppendProperties
  <2> QED
    BY <1>1, <2>1, <2>4 DEF CodecTyped
<1> QED
  BY <1>2, <1>3, <1>4, <1>5

LEMMA ZleTyped ==
  ASSUME CodecTyped, RunCut \/ Literals \/ Zeros \/ Finish
  PROVE  CodecTyped'
<1>1. block \in Blocks /\ Len(output) \in Nat /\ output \in Seq(Bytes) /\ block.lsize \in Nat
      /\ Len(block.src) \in Nat /\ block.src \in Seq(Bytes) /\ si \in Nat
      /\ \A k \in 1 .. Len(block.src) : block.src[k] \in Bytes
  BY BlockIs, LenProperties DEF CodecTyped
<1>2. CASE RunCut
  BY <1>2, MalformedTyped DEF RunCut
<1>3. ASSUME NEW bytes \in Seq(Bytes), NEW n \in Nat, TakeRun(bytes, n), pc = "decode",
             left = 0 \/ cpy < Len(output),
             si + 1 + n <= Len(block.src)
      PROVE  CodecTyped'
  <2>1. output \o bytes \in Seq(Bytes) /\ Len(output \o bytes) = Len(output) + Len(bytes) /\ Len(bytes) \in Nat
    BY <1>1, ConcatProperties, LenProperties
  <2>2. output' \in Seq(Bytes) /\ Len(output') <= block.lsize /\ Len(output') >= Len(output)
    <3>1. output' = Shorter(output \o bytes)
      BY <1>3 DEF TakeRun
    <3>2. Len(output) <= block.lsize
      BY DEF CodecTyped
    <3>3. /\ Shorter(output \o bytes) \in Seq(Bytes)
          /\ Len(Shorter(output \o bytes)) =
               IF Len(output \o bytes) > block.lsize THEN block.lsize ELSE Len(output \o bytes)
      BY <1>1, <2>1, ShorterIs
    <3> QED
      BY <1>1, <2>1, <3>1, <3>2, <3>3
  <2>3. Len(output') \in Nat
    BY <2>2, LenProperties
  <2> QED
    BY <1>1, <1>3, <2>2, <2>3 DEF CodecTyped, TakeRun
<1>4. ASSUME AtRun, si + 1 <= Len(block.src)
      PROVE  Ctrl \in Bytes /\ pc = "decode" /\ (left = 0 \/ cpy < Len(output))
  BY <1>1, <1>4 DEF Ctrl, AtRun, Decoding, CodecTyped
<1>5. CASE Literals
  <2>1. AtRun /\ si + 1 <= Len(block.src) /\ Ctrl < 128 /\ si + 1 + Ctrl + 1 <= Len(block.src)
        /\ TakeRun(SubSeq(block.src, si + 2, si + 2 + Ctrl), Ctrl + 1)
    BY <1>5 DEF Literals
  <2>2. Ctrl \in Nat /\ pc = "decode" /\ (left = 0 \/ cpy < Len(output))
    <3>1. Ctrl \in Bytes /\ pc = "decode" /\ (left = 0 \/ cpy < Len(output))
      BY <1>4, <2>1
    <3>2. Bytes \subseteq Nat
      BY DEF Bytes
    <3> QED
      BY <3>1, <3>2
  <2>3. \A i \in si + 2 .. si + 2 + Ctrl : block.src[i] \in Bytes
    BY <1>1, <2>1, <2>2
  <2>4. SubSeq(block.src, si + 2, si + 2 + Ctrl) \in Seq(Bytes)
    BY <1>1, <2>2, <2>3, SubSeqProperties
  <2>5. Ctrl + 1 \in Nat /\ si + 1 + (Ctrl + 1) <= Len(block.src)
    BY <1>1, <2>1, <2>2
  <2> QED
    BY <1>3, <2>1, <2>2, <2>4, <2>5
<1>6. CASE Zeros
  <2>1. AtRun /\ si + 1 <= Len(block.src) /\ Ctrl >= 128
        /\ TakeRun([i \in 1 .. Ctrl - 128 + 64 |-> 0], 0)
    BY <1>6 DEF Zeros
  <2>2. Ctrl \in Nat /\ pc = "decode" /\ (left = 0 \/ cpy < Len(output))
    <3>1. Ctrl \in Bytes /\ pc = "decode" /\ (left = 0 \/ cpy < Len(output))
      BY <1>4, <2>1
    <3>2. Bytes \subseteq Nat
      BY DEF Bytes
    <3> QED
      BY <3>1, <3>2
  <2>3. Ctrl - 128 + 64 \in Nat /\ 0 \in Bytes
    BY <2>1, <2>2 DEF Bytes
  <2>4. [i \in 1 .. Ctrl - 128 + 64 |-> 0] \in Seq(Bytes)
    BY <2>3
  <2>5. si + 1 + 0 <= Len(block.src)
    BY <1>1, <2>1
  <2> QED
    BY <1>3, <2>1, <2>2, <2>4, <2>5
<1>7. CASE Finish
  <2>1. output' = output /\ Return("ok")
    BY <1>7 DEF Finish
  <2> QED
    BY <1>1, <2>1, ReturnTyped DEF CodecTyped
<1> QED
  BY <1>2, <1>5, <1>6, <1>7

LEMMA CodecStepTyped ==
  CodecTyped /\ [CodecNext]_codecVars => CodecTyped'
<1> SUFFICES ASSUME CodecTyped, [CodecNext]_codecVars PROVE CodecTyped'
  OBVIOUS
<1>1. CASE Verify
  <2>1. verdict' \in {"good", "bad", "none"}
    BY <1>1 DEF Verify
  <2> QED
    BY <1>1, <2>1 DEF Verify, CodecTyped, Begun
<1>2. CASE CodecReturned \/ UNCHANGED codecVars
  BY <1>2 DEF CodecReturned, codecVars, CodecTyped, Begun
<1> QED
  BY <1>1, <1>2, WholeReturnTyped, LzjbTyped, ZleTyped DEF CodecNext

LEMMA CodecBegins ==
  CodecInit => CodecTyped
<1> SUFFICES ASSUME CodecInit PROVE CodecTyped
  OBVIOUS
<1>1. Len(block.src) \in Nat /\ block.lsize \in Nat /\ <<>> \in Seq(Bytes) /\ Len(<<>>) = 0 /\ 0 \in Bytes
  BY BlockIs DEF CodecInit, Bytes
<1> QED
  BY <1>1 DEF CodecInit, CodecTyped, Begun

\* Decompression (compress.rs): whatever a stream declares, the output is never
\* longer than lsize, nothing is read past the end of the stream, and a match
\* copies only bytes that are already there.
THEOREM CodecTypes == CodecSpec => []CodecTypeOK
<1>1. CodecTyped => CodecTypeOK
  <2> SUFFICES ASSUME CodecTyped PROVE CodecTypeOK
    OBVIOUS
  <2>1. Len(output) \in Nat
    BY LenProperties DEF CodecTyped
  <2> QED
    BY <2>1 DEF CodecTyped, CodecTypeOK, Copying, Decoding
<1> QED
  BY <1>1, CodecBegins, CodecStepTyped, PTL DEF CodecSpec

\* A block whose bytes are as they were written, all of them or the first.
Intact == block.harm \in {"none", "cut"}

Kind == CompressType(block.comp)

\* What is left of the stream is what was written, as far as it goes.
LEMMA SrcIs ==
  ASSUME block \in Blocks, Intact
  PROVE  /\ block.whole \in Seq(Bytes) /\ Len(block.whole) \in Nat
         /\ Len(block.src) \in Nat /\ Len(block.src) <= Len(block.whole)
         /\ \A k \in 1 .. Len(block.src) : block.src[k] = block.whole[k]
         /\ block.src = SubSeq(block.whole, 1, Len(block.src))
         /\ block.lsize <= Len(block.data) /\ block.lsize \in Nat
         /\ block.packed \in Seq(Bytes)
         /\ StreamWritten(block)
         /\ block.harm = "none" => block.src = block.whole
<1>1. /\ block.whole \in Seq(Bytes) /\ StreamWritten(block) /\ block.lsize \in Nat
      /\ \E n \in 0 .. Len(block.whole) : block.src = SubSeq(block.whole, 1, n)
      /\ block.packed \in Seq(Bytes)
      /\ block.harm = "none" => block.src = block.whole
  BY BlocksAssumption DEF BlockWritten, Intact
<1>2. Len(block.whole) \in Nat
  BY <1>1, LenProperties
<1>3. PICK n \in 0 .. Len(block.whole) : block.src = SubSeq(block.whole, 1, n)
  BY <1>1
<1>4. Len(block.src) = n /\ \A i \in 1 .. n : block.src[i] = block.whole[i]
  BY <1>1, <1>3, FrontIs
<1>5. block.lsize <= Len(block.data)
  BY <1>1 DEF StreamWritten
<1> QED
  BY <1>1, <1>2, <1>3, <1>4, <1>5

LEMMA PrefixIs ==
  ASSUME NEW S, NEW s \in Seq(S), NEW t \in Seq(S)
  PROVE  IsPrefix(s, t) <=> Len(s) <= Len(t) /\ \A k \in 1 .. Len(s) : s[k] = t[k]
<1>1. Len(s) \in Nat /\ Len(t) \in Nat
  BY LenProperties
<1>2. CASE ~ (Len(s) <= Len(t))
  BY <1>2 DEF IsPrefix
<1>3. CASE Len(s) <= Len(t)
  <2>1. Len(s) \in 0 .. Len(s) /\ Len(s) \in 0 .. Len(t)
    BY <1>1, <1>3
  <2>2. /\ SubSeq(s, 1, Len(s)) \in Seq(S) /\ Len(SubSeq(s, 1, Len(s))) = Len(s)
        /\ \A i \in 1 .. Len(s) : SubSeq(s, 1, Len(s))[i] = s[i]
    BY <2>1, FrontIs
  <2>3. /\ SubSeq(t, 1, Len(s)) \in Seq(S) /\ Len(SubSeq(t, 1, Len(s))) = Len(s)
        /\ \A i \in 1 .. Len(s) : SubSeq(t, 1, Len(s))[i] = t[i]
    BY <2>1, FrontIs
  <2>4. IsPrefix(s, t) <=> SubSeq(s, 1, Len(s)) = SubSeq(t, 1, Len(s))
    BY <1>3 DEF IsPrefix
  <2>5. ASSUME \A k \in 1 .. Len(s) : s[k] = t[k]
        PROVE  SubSeq(s, 1, Len(s)) = SubSeq(t, 1, Len(s))
    <3>1. \A i \in 1 .. Len(s) : SubSeq(s, 1, Len(s))[i] = SubSeq(t, 1, Len(s))[i]
      BY <2>2, <2>3, <2>5
    <3> QED
      BY <2>2, <2>3, <3>1, SeqEqual
  <2>6. ASSUME SubSeq(s, 1, Len(s)) = SubSeq(t, 1, Len(s)), NEW k \in 1 .. Len(s)
        PROVE  s[k] = t[k]
    BY <2>2, <2>3, <2>6
  <2> QED
    BY <1>3, <2>4, <2>5, <2>6
<1> QED
  BY <1>2, <1>3

\* Two fronts of one stream: one is a front of the other.
LEMMA FrontsMeet ==
  ASSUME NEW S, NEW s \in Seq(S), NEW p \in Seq(S), NEW w \in Seq(S), IsPrefix(s, w), IsPrefix(p, w)
  PROVE  IsPrefix(p, s) \/ IsPrefix(s, p)
<1>1. Len(s) \in Nat /\ Len(p) \in Nat
  BY LenProperties
<1>2. \A k \in 1 .. Len(s) : s[k] = w[k]
  BY PrefixIs
<1>3. \A k \in 1 .. Len(p) : p[k] = w[k]
  BY PrefixIs
<1>4. CASE Len(p) <= Len(s)
  <2>1. \A k \in 1 .. Len(p) : k \in 1 .. Len(s)
    BY <1>1, <1>4
  <2>2. \A k \in 1 .. Len(p) : p[k] = s[k]
    BY <1>2, <1>3, <2>1
  <2> QED
    BY <1>4, <2>2, PrefixIs
<1>5. CASE ~ (Len(p) <= Len(s))
  <2>1. Len(s) <= Len(p) /\ \A k \in 1 .. Len(s) : k \in 1 .. Len(p)
    BY <1>1, <1>5
  <2>2. \A k \in 1 .. Len(s) : p[k] = s[k]
    BY <1>2, <1>3, <2>1
  <2> QED
    BY <2>1, <2>2, PrefixIs
<1> QED
  BY <1>4, <1>5

\* The first lsize bytes of a stream that has as many.
LEMMA EnoughIs ==
  ASSUME block \in Blocks, NEW s \in Seq(Bytes), NEW t \in Seq(Bytes), Len(t) = block.lsize,
         block.lsize <= Len(s), \A k \in 1 .. Len(t) : t[k] = s[k]
  PROVE  t = Shorter(s)
<1>1. block.lsize \in Nat /\ Len(s) \in Nat /\ block.lsize \in 0 .. Len(s)
  <2>1. block.lsize \in Nat /\ Len(s) \in Nat
    BY BlockIs, LenProperties
  <2> QED
    BY <2>1
<1>2. CASE Len(s) > block.lsize
  <2>1. /\ SubSeq(s, 1, block.lsize) \in Seq(Bytes) /\ Len(SubSeq(s, 1, block.lsize)) = block.lsize
        /\ \A i \in 1 .. block.lsize : SubSeq(s, 1, block.lsize)[i] = s[i]
    BY <1>1, FrontIs
  <2>2. t = SubSeq(s, 1, block.lsize)
    BY <2>1, SeqEqual
  <2> QED
    BY <1>2, <2>2 DEF Shorter
<1>3. CASE ~ (Len(s) > block.lsize)
  <2>1. Len(s) = block.lsize
    BY <1>1, <1>3
  <2>2. t = s
    BY <2>1, SeqEqual
  <2> QED
    BY <1>3, <2>2 DEF Shorter
<1> QED
  BY <1>2, <1>3

LEMMA PaddedEnough ==
  ASSUME block \in Blocks, NEW s \in Seq(Bytes), block.lsize <= Len(s)
  PROVE  Padded(s) = Shorter(s)
<1>1. Padded(s) \in Seq(Bytes) /\ Len(Padded(s)) = block.lsize
  BY PaddedIs
<1>2. block.lsize \in Nat /\ Len(s) \in Nat
  BY BlockIs, LenProperties
<1>3. \A k \in 1 .. block.lsize : Padded(s)[k] = s[k]
  BY <1>2 DEF Padded
<1> QED
  BY <1>1, <1>3, EnoughIs

LEMMA WholeFront ==
  ASSUME NEW S, NEW s \in Seq(S)
  PROVE  SubSeq(s, 1, Len(s)) = s /\ Len(s) \in 0 .. Len(s)
<1>1. Len(s) \in Nat
  BY LenProperties
<1>2. Len(s) \in 0 .. Len(s)
  BY <1>1
<1>3. /\ SubSeq(s, 1, Len(s)) \in Seq(S) /\ Len(SubSeq(s, 1, Len(s))) = Len(s)
      /\ \A i \in 1 .. Len(s) : SubSeq(s, 1, Len(s))[i] = s[i]
  BY <1>2, FrontIs
<1> QED
  BY <1>2, <1>3, SeqEqual

\* Of a front of the stream the other crates yield a front of the data, of the
\* whole stream all of it.
LEMMA YieldsFront ==
  ASSUME block \in Blocks, NEW s \in Seq(Bytes), NEW w \in Seq(Bytes), block.packed \in Seq(Bytes),
         IsPrefix(s, w), IsPrefix(block.packed, w), NEW y \in Yields(s)
  PROVE  /\ \E n \in 0 .. Len(block.data) : y.data = SubSeq(block.data, 1, n)
         /\ s = w => y.data = block.data /\ y.broken = FALSE
<1>1. block.data \in Seq(Bytes)
  BY BlockIs
<1>2. CASE IsPrefix(block.packed, s)
  <2>1. y = [data |-> block.data, broken |-> FALSE]
    BY <1>2 DEF Yields
  <2>2. y.data = block.data /\ y.broken = FALSE
    BY <2>1
  <2>3. SubSeq(block.data, 1, Len(block.data)) = block.data /\ Len(block.data) \in 0 .. Len(block.data)
    BY <1>1, WholeFront
  <2> QED
    BY <2>2, <2>3
<1>3. CASE ~ IsPrefix(block.packed, s)
  <2>1. IsPrefix(s, block.packed) /\ s # w
    BY <1>3, FrontsMeet
  <2> DEFINE some == {SubSeq(block.data, 1, n) : n \in {0, 1, Len(block.data) - 1} \cap 0 .. Len(block.data)}
  <2>2. \A d \in some : \E n \in 0 .. Len(block.data) : d = SubSeq(block.data, 1, n)
    OBVIOUS
  <2>3. y \in [data: some, broken: BOOLEAN]
    BY <1>3, <2>1 DEF Yields
  <2> HIDE DEF some
  <2>4. y.data \in some
    BY <2>3
  <2> QED
    BY <2>1, <2>2, <2>4
<1> QED
  BY <1>2, <1>3

\* The block as a step that ends its decompression gives it.
Back ==
  /\ block.harm = "none" =>
       IF Kind \in {"inherit", "other"} THEN result' = "unsupported"
       ELSE result' = "ok" /\ output' = Shorter(block.data)
  /\ block.harm = "cut" /\ result' = "ok" =>
       IF Kind \in {"lzjb", "zle"} THEN output' = Shorter(block.data)
       ELSE \E n \in 0 .. Len(block.data) : output' = Padded(SubSeq(block.data, 1, n))

LEMMA FilledBack ==
  ASSUME CodecTyped, Intact => Kind \notin {"inherit", "other", "lzjb", "zle"},
         Intact /\ result' = "ok" => \E n \in 0 .. Len(block.data) : output' = Padded(SubSeq(block.data, 1, n)),
         block.harm = "none" => result' = "ok" /\ output' = Padded(block.data)
  PROVE  Back
<1>1. Intact => block.lsize <= Len(block.data) /\ block.data \in Seq(Bytes)
  BY SrcIs, BlockIs DEF CodecTyped
<1>2. Intact => Padded(block.data) = Shorter(block.data)
  BY <1>1, PaddedEnough DEF CodecTyped
<1> QED
  BY <1>2 DEF Back, Intact

LEMMA InflateBack ==
  ASSUME CodecTyped, Inflate
  PROVE  Back
<1>1. block \in Blocks /\ Kind \in {"gzip", "on", "zstd"} /\ (Kind = "zstd" => Len(block.src) >= 8)
  BY DEF Inflate, Decoding, CodecTyped, Kind
<1>2. PICK y \in Yields(Unframed(block.src)) :
        \/ y.broken /\ result' = "malformed"
        \/ output' = Padded(y.data) /\ result' = "ok"
  BY DEF Inflate, Malformed, Return
<1>3. ASSUME Intact
      PROVE  /\ \E n \in 0 .. Len(block.data) : y.data = SubSeq(block.data, 1, n)
             /\ block.harm = "none" => y.data = block.data /\ y.broken = FALSE
  <2> DEFINE s == Unframed(block.src)
             w == Unframed(block.whole)
  <2>1. /\ block.src \in Seq(Bytes) /\ block.whole \in Seq(Bytes) /\ block.packed \in Seq(Bytes)
        /\ Len(block.src) \in Nat /\ Len(block.whole) \in Nat /\ Len(block.src) <= Len(block.whole)
        /\ \A k \in 1 .. Len(block.src) : block.src[k] = block.whole[k]
        /\ block.src = SubSeq(block.whole, 1, Len(block.src))
        /\ block.harm = "none" => block.src = block.whole
        /\ StreamWritten(block)
    BY <1>1, <1>3, BlockIs, SrcIs
  <2>2. s \in Seq(Bytes) /\ w \in Seq(Bytes) /\ IsPrefix(s, w) /\ IsPrefix(block.packed, w)
    <3>1. CASE Kind # "zstd"
      <4>1. s = block.src /\ w = block.whole
        BY <3>1 DEF Unframed, Kind
      <4>2. IsPrefix(block.src, block.whole)
        BY <2>1, PrefixIs
      <4>3. IsPrefix(block.packed, block.whole)
        BY <1>1, <2>1, <3>1 DEF StreamWritten, Kind
      <4> QED
        BY <2>1, <4>1, <4>2, <4>3
    <3>2. CASE Kind = "zstd"
      <4>1. s = SubSeq(block.src, 9, Len(block.src)) /\ w = SubSeq(block.whole, 9, Len(block.whole))
        BY <3>2 DEF Unframed, Kind
      <4>2. IsPrefix(block.packed, SubSeq(block.whole, 9, Len(block.whole)))
        BY <3>2, <2>1 DEF StreamWritten, Kind
      <4>3. /\ \A k \in 9 .. Len(block.src) : block.src[k] \in Bytes
            /\ \A k \in 9 .. Len(block.whole) : block.whole[k] \in Bytes
        <5>1. \A k \in 9 .. Len(block.src) : k \in 1 .. Len(block.src)
          OBVIOUS
        <5>2. \A k \in 9 .. Len(block.whole) : k \in 1 .. Len(block.whole)
          OBVIOUS
        <5> QED
          BY <2>1, <5>1, <5>2, ElementOfSeq
      <4>4. /\ SubSeq(block.src, 9, Len(block.src)) \in Seq(Bytes)
            /\ Len(SubSeq(block.src, 9, Len(block.src))) =
                 IF 9 <= Len(block.src) THEN Len(block.src) - 9 + 1 ELSE 0
            /\ \A i \in 1 .. Len(block.src) - 9 + 1 : SubSeq(block.src, 9, Len(block.src))[i] = block.src[9 + i - 1]
        BY <2>1, <4>3, SubSeqProperties
      <4>5. /\ SubSeq(block.whole, 9, Len(block.whole)) \in Seq(Bytes)
            /\ Len(SubSeq(block.whole, 9, Len(block.whole))) =
                 IF 9 <= Len(block.whole) THEN Len(block.whole) - 9 + 1 ELSE 0
            /\ \A i \in 1 .. Len(block.whole) - 9 + 1 :
                 SubSeq(block.whole, 9, Len(block.whole))[i] = block.whole[9 + i - 1]
        BY <2>1, <4>3, SubSeqProperties
      <4> HIDE DEF s, w
      <4>6. Len(s) <= Len(w) /\ Len(s) = (IF 9 <= Len(block.src) THEN Len(block.src) - 9 + 1 ELSE 0)
        BY <2>1, <4>1, <4>4, <4>5
      <4>7. ASSUME NEW i \in 1 .. Len(s) PROVE s[i] = w[i]
        <5>1. i \in 1 .. Len(block.src) - 9 + 1 /\ i \in 1 .. Len(block.whole) - 9 + 1
              /\ 9 + i - 1 \in 1 .. Len(block.src)
          BY <2>1, <4>6
        <5> QED
          BY <2>1, <4>1, <4>4, <4>5, <5>1
      <4>8. s \in Seq(Bytes) /\ w \in Seq(Bytes)
        BY <4>1, <4>4, <4>5
      <4> QED
        BY <4>1, <4>2, <4>6, <4>7, <4>8, PrefixIs
    <3> QED
      BY <3>1, <3>2
  <2>3. block.harm = "none" => s = w
    BY <2>1
  <2> QED
    BY <1>1, <1>2, <2>1, <2>2, <2>3, YieldsFront
<1>4. Intact /\ result' = "ok" => \E n \in 0 .. Len(block.data) : output' = Padded(SubSeq(block.data, 1, n))
  BY <1>2, <1>3
<1>5. block.harm = "none" => result' = "ok" /\ output' = Padded(block.data)
  BY <1>2, <1>3 DEF Intact
<1> QED
  BY <1>1, <1>4, <1>5, FilledBack

\* A framed stream that is cut has no longer what its frame announces, or all
\* of it.
LEMMA FrameOfCut ==
  ASSUME block \in Blocks, Intact, Kind = "lz4"
  PROVE  /\ Lz4Framed(block.src) => Lz4Frame(block.src) = block.packed
         /\ block.harm = "none" => Lz4Framed(block.src)
         /\ Len(block.data) = block.lsize
<1>1. /\ block.whole \in Seq(Bytes) /\ Len(block.whole) \in Nat
      /\ Len(block.src) \in Nat /\ Len(block.src) <= Len(block.whole)
      /\ \A k \in 1 .. Len(block.src) : block.src[k] = block.whole[k]
      /\ block.src = SubSeq(block.whole, 1, Len(block.src))
      /\ block.harm = "none" => block.src = block.whole
      /\ StreamWritten(block)
  BY SrcIs
<1>2. Lz4Framed(block.whole) /\ Lz4Frame(block.whole) = block.packed /\ Len(block.data) = block.lsize
  BY <1>1 DEF StreamWritten, Kind
<1>3. ASSUME Lz4Framed(block.src) PROVE Lz4Frame(block.src) = Lz4Frame(block.whole)
  <2>1. Len(block.src) >= 4 /\ 4 + Clen(block.src) <= Len(block.src)
    BY <1>3 DEF Lz4Framed
  <2>2. \A k \in 1 .. 4 : k \in 1 .. Len(block.src)
    BY <1>1, <2>1
  <2>3. \A k \in 1 .. 4 : block.src[k] = block.whole[k]
    BY <1>1, <2>2
  <2>4. Clen(block.src) = Clen(block.whole)
    BY <2>3 DEF Clen
  <2>5. \A k \in 1 .. 4 : block.src[k] \in Nat
    <3> TAKE k \in 1 .. 4
    <3> DEFINE b == block.src[k]
    <3>1. b \in Bytes
      BY <2>2, BlockIs
    <3> HIDE DEF b
    <3>2. b \in Nat
      BY <3>1 DEF Bytes
    <3> QED
      BY <3>2 DEF b
  <2>6. Clen(block.src) \in Nat
    BY <2>5 DEF Clen
  <2> DEFINE c == Clen(block.src)
             n == Len(block.src)
  <2> HIDE DEF c
  <2>7. SubSeq(SubSeq(block.whole, 1, n), 4 + 1, 4 + c) = SubSeq(block.whole, 4 + 1, 4 + c)
    <3>1. n \in 0 .. Len(block.whole) /\ 4 + c \in Nat /\ 4 + c <= n /\ 4 \in Nat
      BY <1>1, <2>1, <2>6 DEF c
    <3> HIDE DEF n
    <3> QED
      BY <1>1, <3>1, PartOfFront
  <2>8. SubSeq(block.src, 5, 4 + c) = SubSeq(block.whole, 5, 4 + c)
    <3>1. block.src = SubSeq(block.whole, 1, n) /\ 4 + 1 = 5
      BY <1>1
    <3> HIDE DEF n
    <3> QED
      BY <2>7, <3>1
  <2>9. Lz4Frame(block.src) = SubSeq(block.src, 5, 4 + c) /\ Lz4Frame(block.whole) = SubSeq(block.whole, 5, 4 + c)
    BY <2>4 DEF Lz4Frame, c
  <2> QED
    BY <2>8, <2>9
<1> QED
  BY <1>1, <1>2, <1>3

LEMMA Lz4Back ==
  ASSUME CodecTyped, Lz4Short \/ Lz4
  PROVE  Back
<1>1. block \in Blocks /\ Kind = "lz4"
  BY DEF Lz4Short, Lz4, Decoding, CodecTyped, Kind
<1>2. CASE Lz4Short
  <2>1. result' = "malformed" /\ ~ Lz4Framed(block.src)
    BY <1>2 DEF Lz4Short, Malformed, Return
  <2>2. block.harm # "none"
    BY <1>1, <2>1, FrameOfCut DEF Intact
  <2> QED
    BY <2>1, <2>2 DEF Back
<1>3. CASE Lz4
  <2>1. PICK y \in Yields(Lz4Frame(block.src)) :
          IF y.broken \/ Len(y.data) > block.lsize
               \/ (Lz4Frame(block.src) # block.packed /\ IsPrefix(block.packed, Lz4Frame(block.src)))
          THEN Malformed ELSE output' = y.data /\ Return("ok")
    BY <1>3 DEF Lz4
  <2>2. ASSUME Intact
        PROVE  result' = "ok" /\ output' = Padded(block.data)
    <3>1. Lz4Frame(block.src) = block.packed /\ Len(block.data) = block.lsize /\ block.packed \in Seq(Bytes)
          /\ block.lsize \in Nat /\ block.data \in Seq(Bytes)
      BY <1>1, <1>3, <2>2, FrameOfCut, SrcIs, BlockIs DEF Lz4
    <3>2. IsPrefix(block.packed, block.packed)
      BY <3>1, PrefixIs, LenProperties
    <3>3. y.data = block.data /\ y.broken = FALSE
      BY <1>1, <2>1, <3>1, <3>2, YieldsFront
    <3>4. output' = block.data /\ result' = "ok"
      BY <2>1, <3>1, <3>3 DEF Return
    <3>5. block.data = Shorter(block.data)
      BY <3>1 DEF Shorter
    <3>6. Padded(block.data) = Shorter(block.data)
      BY <1>1, <3>1, PaddedEnough
    <3> QED
      BY <3>4, <3>5, <3>6
  <2>3. SubSeq(block.data, 1, Len(block.data)) = block.data /\ Len(block.data) \in 0 .. Len(block.data)
    BY <1>1, BlockIs, WholeFront
  <2>4. Intact => \E n \in 0 .. Len(block.data) : output' = Padded(SubSeq(block.data, 1, n))
    BY <2>2, <2>3
  <2> QED
    BY <1>1, <2>2, <2>4, FilledBack DEF Intact
<1> QED
  BY <1>2, <1>3

\* The kinds that are decompressed in one step.
LEMMA WholeBack ==
  ASSUME CodecTyped, Unsupported \/ Empty \/ Off \/ ZstdShort \/ Inflate \/ Lz4Short \/ Lz4
  PROVE  Back
<1>1. block \in Blocks /\ block.data \in Seq(Bytes) /\ block.lsize \in Nat /\ Len(block.data) \in Nat
  BY BlockIs DEF CodecTyped
<1>2. CASE Unsupported
  BY <1>2 DEF Unsupported, Decoding, Return, Back, Kind
<1>3. CASE Empty
  <2>1. Kind = "empty" /\ output' = Padded(<<>>) /\ result' = "ok"
    BY <1>3 DEF Empty, Decoding, Return, Kind
  <2>2. SubSeq(block.data, 1, 0) = <<>> /\ 0 \in 0 .. Len(block.data)
    BY <1>1, FrontIs, EmptySeq
  <2>3. ASSUME Intact PROVE Padded(<<>>) = Padded(block.data)
    <3>1. \A i \in 1 .. Len(block.data) : block.data[i] = 0
      <4>1. StreamWritten(block)
        BY <1>1, <2>3, SrcIs
      <4>2. DOMAIN block.data = 1 .. Len(block.data)
        BY <1>1, LenProperties
      <4> QED
        BY <2>1, <4>1, <4>2 DEF StreamWritten, Kind
    <3>2. \A i \in 1 .. block.lsize :
            (IF i <= Len(<<>>) THEN <<>>[i] ELSE 0) = (IF i <= Len(block.data) THEN block.data[i] ELSE 0)
      BY <1>1, <3>1
    <3> QED
      BY <3>2 DEF Padded
  <2> QED
    BY <2>1, <2>2, <2>3, FilledBack DEF Intact
<1>4. CASE Off
  <2>1. Kind = "off" /\ output' = Padded(block.src) /\ result' = "ok"
    BY <1>4 DEF Off, Decoding, Return, Kind
  <2>2. ASSUME Intact
        PROVE  /\ block.src = SubSeq(block.data, 1, Len(block.src)) /\ Len(block.src) \in 0 .. Len(block.data)
               /\ block.harm = "none" => block.src = block.data
    <3>1. block.whole = block.data
      BY <1>1, <2>1, <2>2, SrcIs DEF StreamWritten, Kind
    <3>2. Len(block.src) \in Nat /\ Len(block.src) <= Len(block.data)
          /\ block.src = SubSeq(block.data, 1, Len(block.src))
          /\ (block.harm = "none" => block.src = block.data)
      BY <1>1, <2>2, <3>1, SrcIs
    <3> QED
      BY <1>1, <3>2
  <2> QED
    BY <2>1, <2>2, FilledBack DEF Intact
<1>5. CASE ZstdShort
  <2>1. Kind = "zstd" /\ result' = "malformed" /\ Len(block.src) < 8
    BY <1>5 DEF ZstdShort, Decoding, Malformed, Return, Kind
  <2>2. ASSUME block.harm = "none" PROVE FALSE
    <3>1. StreamWritten(block) /\ block.src = block.whole /\ Len(block.src) \in Nat
      BY <1>1, <2>2, SrcIs DEF Intact
    <3> QED
      BY <2>1, <3>1 DEF StreamWritten, Kind
  <2> QED
    BY <2>1, <2>2 DEF Back
<1> QED
  BY <1>2, <1>3, <1>4, <1>5, InflateBack, Lz4Back

\* The items of a stream follow one another, and the last ends within it.
LEMMA ItemsAre ==
  ASSUME NEW x, NEW n \in Nat, ItemsWritten(x, n), Len(x.whole) \in Nat
  PROVE  \A i \in 1 .. n + 1 : x.at[i] \in Nat /\ x.from[i] \in Nat /\ x.at[i] <= Len(x.whole)
<1>1. \A i \in 1 .. n + 1 : x.at[i] \in Nat /\ x.from[i] \in Nat
  BY DEF ItemsWritten
<1>2. ASSUME NEW i \in 1 .. n + 1 PROVE x.at[i] <= x.at[n + 1]
  <2> DEFINE S == {j \in 1 .. n + 1 : x.at[i] <= x.at[j]}
  <2>1. i \in S
    BY <1>1
  <2>2. ASSUME NEW j \in i .. n + 1 - 1, j \in S PROVE j + 1 \in S
    <3>1. j \in 1 .. n /\ j \in 1 .. n + 1 /\ j + 1 \in 1 .. n + 1
      OBVIOUS
    <3>2. x.at[j] < x.at[j + 1]
      BY <3>1 DEF ItemsWritten
    <3>3. x.at[i] <= x.at[j] /\ x.at[i] \in Nat /\ x.at[j] \in Nat /\ x.at[j + 1] \in Nat
      BY <1>1, <2>2, <3>1
    <3>4. x.at[i] <= x.at[j + 1]
      BY <3>2, <3>3
    <3> QED
      BY <3>1, <3>4
  <2> DEFINE e == n + 1
  <2>3. i \in Nat /\ e \in Nat /\ \A j \in i .. e - 1 : j \in S => j + 1 \in S
    BY <2>2
  <2> HIDE DEF S, e
  <2>4. \A j \in i .. e : j \in S
    BY <2>1, <2>3, Onward
  <2>5. n + 1 \in S
    BY <2>4 DEF e
  <2> QED
    BY <2>5 DEF S
<1>3. x.at[n + 1] <= Len(x.whole) /\ x.at[n + 1] \in Nat
  <2>1. n + 1 \in 1 .. n + 1
    OBVIOUS
  <2>2. x.at[n + 1] <= Len(x.whole)
    BY DEF ItemsWritten
  <2> QED
    BY <1>1, <2>1, <2>2
<1>4. ASSUME NEW i \in 1 .. n + 1 PROVE x.at[i] <= Len(x.whole)
  <2>1. x.at[i] \in Nat /\ x.at[i] <= x.at[n + 1]
    BY <1>1, <1>2
  <2> QED
    BY <1>3, <2>1
<1> QED
  BY <1>1, <1>4

\* What is produced is what was written, as far as it goes.
AsWritten == \A k \in 1 .. Len(output) : output[k] = block.data[k]

\* LZJB stands where item i begins, under the flags of the item before, or
\* still has bytes of that item to copy: each is the one the match before it
\* repeats.
ItemPlace(i) ==
  /\ si = block.at[i] /\ bit = (i + 6) % 8
  /\ i > 1 => copymap = block.map[i - 1]
  /\ Len(output) + left = block.from[i]
  /\ left > 0 => \E dist \in Nat \ {0} :
                   /\ cpy + dist = Len(output)
                   /\ \A k \in Len(output) + 1 .. block.from[i] : block.data[k] = block.data[k - dist]

\* ZLE stands where run i begins.
RunPlace(i) ==
  /\ si = block.at[i]
  /\ Len(output) = IF block.from[i] > block.lsize THEN block.lsize ELSE block.from[i]

InItems == \E i \in 1 .. Len(block.map) + 1 : ItemPlace(i)

InRuns == \E i \in 1 .. Len(block.at) : RunPlace(i)

\* What an item is read from is what was written there.
LEMMA ItemWritten ==
  ASSUME CodecTyped, Intact, Kind = "lzjb", AtItem,
         NEW i \in 1 .. Len(block.map) + 1, ItemPlace(i)
  PROVE  /\ i \in 1 .. Len(block.map) /\ i + 1 \in 1 .. Len(block.map) + 1
         /\ Bit = (i + 7) % 8
         /\ Len(output) = block.from[i] /\ block.from[i] \in Nat /\ block.from[i + 1] \in Nat
         /\ At <= Len(block.src) => Copymap = block.map[i]
         /\ block.at[i + 1] <= Len(block.whole)
         /\ IF Flag(block.map[i], Bit) = 1
            THEN /\ block.at[i + 1] = At + 2
                 /\ block.from[i + 1] = block.from[i] + MatchLen(block.whole[At + 1])
                 /\ Offset(block.whole[At + 1], block.whole[At + 2]) \in 1 .. block.from[i]
                 /\ \A k \in block.from[i] + 1 .. block.from[i + 1] :
                      block.data[k] = block.data[k - Offset(block.whole[At + 1], block.whole[At + 2])]
            ELSE /\ block.at[i + 1] = At + 1
                 /\ block.from[i + 1] = block.from[i] + 1
                 /\ block.data[block.from[i + 1]] = block.whole[At + 1]
<1> DEFINE n == Len(block.map)
           first == (i - 1) % 8 = 0
           at == IF first THEN block.at[i] + 1 ELSE block.at[i]
<1>1. block \in Blocks /\ LzjbWritten(block)
  BY SrcIs DEF CodecTyped, StreamWritten, Kind
<1>2. block.map \in Seq(Bytes) /\ n \in Nat /\ ItemsWritten(block, n)
  BY <1>1, LenProperties DEF LzjbWritten
<1>3. Len(block.src) \in Nat /\ Len(block.whole) \in Nat /\ block.lsize <= Len(block.data)
      /\ Len(block.src) <= Len(block.whole)
      /\ \A k \in 1 .. Len(block.src) : block.src[k] = block.whole[k]
  BY <1>1, SrcIs
<1>4. block.lsize \in Nat /\ Len(block.data) \in Nat /\ Len(output) \in Nat /\ si \in Nat /\ Len(output) < block.lsize
      /\ left = 0
  BY <1>1, BlockIs, LenProperties DEF CodecTyped, AtItem
<1>5. \A j \in 1 .. n + 1 : block.at[j] \in Nat /\ block.from[j] \in Nat /\ block.at[j] <= Len(block.whole)
  BY <1>2, <1>3, ItemsAre
<1>6. Len(output) = block.from[i] /\ si = block.at[i] /\ bit = (i + 6) % 8 /\ (i > 1 => copymap = block.map[i - 1])
  BY <1>4 DEF ItemPlace
<1>7. i # n + 1
  BY <1>2, <1>3, <1>4, <1>6 DEF ItemsWritten
<1>8. i \in 1 .. n /\ i + 1 \in 1 .. n + 1
  BY <1>2, <1>7
<1>9. Bit = (i + 7) % 8 /\ (i + 7) % 8 = (i - 1) % 8
  <2>1. \A j \in Nat : (((j + 6) % 8) + 1) % 8 = (j + 7) % 8
    OBVIOUS
  <2>2. \A j \in Nat : j > 0 => (j + 7) % 8 = (j - 1) % 8
    OBVIOUS
  <2>3. i \in Nat /\ i > 0
    OBVIOUS
  <2> QED
    BY <1>6, <2>1, <2>2, <2>3 DEF Bit
<1>10. At = at
  BY <1>6, <1>9 DEF At
<1>11. /\ block.map[i] = IF first THEN block.whole[at] ELSE block.map[i - 1]
       /\ IF Flag(block.map[i], (i - 1) % 8) = 1
          THEN /\ block.at[i + 1] = at + 2
               /\ block.from[i + 1] = block.from[i] + MatchLen(block.whole[at + 1])
               /\ Offset(block.whole[at + 1], block.whole[at + 2]) \in 1 .. block.from[i]
               /\ \A k \in block.from[i] + 1 .. block.from[i + 1] :
                    block.data[k] = block.data[k - Offset(block.whole[at + 1], block.whole[at + 2])]
          ELSE /\ block.at[i + 1] = at + 1
               /\ block.from[i + 1] = block.from[i] + 1
               /\ block.data[block.from[i + 1]] = block.whole[at + 1]
  BY <1>1, <1>8, Zenon DEF LzjbWritten
<1>12. ASSUME At <= Len(block.src) PROVE Copymap = block.map[i]
  <2>1. CASE Bit = 0
    <3>1. At = si + 1 /\ si < Len(block.src) /\ si + 1 \in 1 .. Len(block.src)
      BY <1>3, <1>4, <1>12, <2>1 DEF At
    <3>2. Copymap = block.src[si + 1]
      BY <2>1, <3>1 DEF Copymap
    <3>3. block.src[si + 1] = block.whole[si + 1]
      BY <1>3, <3>1
    <3>4. block.map[i] = block.whole[at] /\ at = si + 1
      BY <1>6, <1>9, <1>10, <1>11, <2>1, <3>1
    <3> QED
      BY <3>2, <3>3, <3>4
  <2>2. CASE Bit # 0
    <3>1. Copymap = copymap
      BY <2>2 DEF Copymap
    <3>2. i > 1
      <4>1. (1 + 7) % 8 = 0
        OBVIOUS
      <4>2. i # 1
        BY <1>9, <2>2, <4>1
      <4> QED
        BY <4>2
    <3>3. block.map[i] = block.map[i - 1]
      BY <1>9, <1>11, <2>2
    <3> QED
      BY <1>6, <3>1, <3>2, <3>3
  <2> QED
    BY <2>1, <2>2
<1> HIDE DEF n, at
<1> QED
  BY <1>5, <1>6, <1>8, <1>9, <1>10, <1>11, <1>12 DEF n

LEMMA AppendWritten ==
  ASSUME CodecTyped, AsWritten, NEW b, output' = Append(output, b), block' = block,
         b \in Bytes, b = block.data[Len(output) + 1]
  PROVE  AsWritten' /\ Len(output') = Len(output) + 1
<1>1. output \in Seq(Bytes) /\ Len(output) \in Nat
  BY LenProperties DEF CodecTyped
<1>2. /\ Len(output') = Len(output) + 1
      /\ \A i \in 1 .. Len(output) : output'[i] = output[i]
      /\ output'[Len(output) + 1] = b
  BY <1>1, AppendProperties
<1>3. ASSUME NEW k \in 1 .. Len(output') PROVE output'[k] = block.data[k]
  <2>1. k \in 1 .. Len(output) \/ k = Len(output) + 1
    BY <1>1, <1>2
  <2> QED
    BY <1>2, <2>1 DEF AsWritten
<1> QED
  BY <1>2, <1>3 DEF AsWritten

\* A literal is the byte that was written (compress.rs, decompress_lzjb).
LEMMA LiteralBack ==
  ASSUME CodecTyped, Intact, AsWritten, InItems, Literal
  PROVE  AsWritten' /\ InItems'
<1>1. /\ AtItem /\ Kind = "lzjb" /\ left = 0 /\ At + 1 <= Len(block.src) /\ ~ IsMatch
      /\ si' = At + 1 /\ bit' = Bit /\ copymap' = Copymap /\ block' = block
      /\ output' = Append(output, block.src[At + 1]) /\ left' = left /\ cpy' = cpy
  BY DEF Literal, Item, TakeItem, AtItem, Decoding, Kind
<1>2. PICK i \in 1 .. Len(block.map) + 1 : ItemPlace(i)
  BY DEF InItems
<1>3. block \in Blocks /\ Len(block.src) \in Nat /\ At \in Nat
      /\ \A k \in 1 .. Len(block.src) : block.src[k] = block.whole[k] /\ block.src[k] \in Bytes
  BY ItemIs, SrcIs, BlockIs DEF CodecTyped
<1>4. /\ i \in 1 .. Len(block.map) /\ i + 1 \in 1 .. Len(block.map) + 1
      /\ Bit = (i + 7) % 8 /\ Len(output) = block.from[i] /\ block.from[i] \in Nat
      /\ (At <= Len(block.src) => Copymap = block.map[i])
      /\ (Flag(block.map[i], Bit) # 1 =>
            /\ block.at[i + 1] = At + 1 /\ block.from[i + 1] = block.from[i] + 1
            /\ block.data[block.from[i + 1]] = block.whole[At + 1])
  BY <1>1, <1>2, ItemWritten
<1>5. At + 1 \in 1 .. Len(block.src) /\ At <= Len(block.src)
  BY <1>1, <1>3
<1>6. Copymap = block.map[i] /\ Flag(block.map[i], Bit) # 1
  BY <1>1, <1>4, <1>5 DEF IsMatch
<1>7. block.src[At + 1] \in Bytes /\ block.src[At + 1] = block.data[Len(output) + 1]
  BY <1>3, <1>4, <1>5, <1>6
<1>8. AsWritten' /\ Len(output') = Len(output) + 1
  BY <1>1, <1>7, AppendWritten
<1>9. ItemPlace(i + 1)'
  <2>1. si' = block'.at[i + 1]
    BY <1>1, <1>4, <1>6
  <2>2. bit' = ((i + 1) + 6) % 8
    <3>1. (i + 1) + 6 = i + 7
      OBVIOUS
    <3> QED
      BY <1>1, <1>4, <3>1
  <2>3. copymap' = block'.map[(i + 1) - 1]
    <3>1. (i + 1) - 1 = i
      OBVIOUS
    <3> QED
      BY <1>1, <1>6, <3>1
  <2>4. Len(output') + left' = block'.from[i + 1] /\ left' = 0
    BY <1>1, <1>4, <1>6, <1>8
  <2> QED
    BY <2>1, <2>2, <2>3, <2>4 DEF ItemPlace
<1> QED
  BY <1>1, <1>4, <1>8, <1>9 DEF InItems

\* What is read as a match was written as one, into bytes before it.
LEMMA MatchWritten ==
  ASSUME CodecTyped, Intact, Kind = "lzjb", Item(TRUE),
         NEW i \in 1 .. Len(block.map) + 1, ItemPlace(i)
  PROVE  /\ i + 1 \in 1 .. Len(block.map) + 1 /\ i \in Nat
         /\ Bit = (i + 7) % 8 /\ Copymap = block.map[i] /\ Len(output) = block.from[i]
         /\ block.at[i + 1] = At + 2
         /\ block.from[i + 1] = Len(output) + MatchLen(block.src[At + 1])
         /\ OffsetHere \in 1 .. Len(output)
         /\ \A k \in Len(output) + 1 .. block.from[i + 1] : block.data[k] = block.data[k - OffsetHere]
<1>1. AtItem /\ At + 2 <= Len(block.src) /\ IsMatch
  BY DEF Item
<1>2. Len(block.src) \in Nat /\ At \in Nat
      /\ \A k \in 1 .. Len(block.src) : block.src[k] = block.whole[k]
  BY ItemIs, SrcIs DEF CodecTyped
<1>3. At + 1 \in 1 .. Len(block.src) /\ At + 2 \in 1 .. Len(block.src) /\ At <= Len(block.src)
  BY <1>1, <1>2
<1>4. /\ i + 1 \in 1 .. Len(block.map) + 1
      /\ Bit = (i + 7) % 8 /\ Len(output) = block.from[i] /\ block.from[i] \in Nat
      /\ Copymap = block.map[i]
      /\ (Flag(block.map[i], Bit) = 1 =>
            /\ block.at[i + 1] = At + 2
            /\ block.from[i + 1] = block.from[i] + MatchLen(block.whole[At + 1])
            /\ Offset(block.whole[At + 1], block.whole[At + 2]) \in 1 .. block.from[i]
            /\ \A k \in block.from[i] + 1 .. block.from[i + 1] :
                 block.data[k] = block.data[k - Offset(block.whole[At + 1], block.whole[At + 2])])
  BY <1>1, <1>3, ItemWritten
<1>5. Flag(block.map[i], Bit) = 1
  BY <1>1, <1>4 DEF IsMatch
<1>6. block.src[At + 1] = block.whole[At + 1] /\ block.src[At + 2] = block.whole[At + 2]
  BY <1>2, <1>3
<1>7. OffsetHere = Offset(block.whole[At + 1], block.whole[At + 2])
  BY <1>6 DEF OffsetHere
<1> QED
  BY <1>4, <1>5, <1>6, <1>7

LEMMA MatchBack ==
  ASSUME CodecTyped, Intact, AsWritten, InItems, Match
  PROVE  AsWritten' /\ InItems'
<1>1. /\ Item(TRUE) /\ Kind = "lzjb" /\ block' = block /\ output' = output
      /\ si' = At + 2 /\ bit' = Bit /\ copymap' = Copymap
      /\ left' = MatchLen(block.src[At + 1]) /\ cpy' = Len(output) - OffsetHere
  BY DEF Match, Item, TakeItem, AtItem, Decoding, Kind
<1>2. PICK i \in 1 .. Len(block.map) + 1 : ItemPlace(i)
  BY DEF InItems
<1>3. /\ i + 1 \in 1 .. Len(block.map) + 1 /\ i \in Nat
      /\ Bit = (i + 7) % 8 /\ Copymap = block.map[i] /\ Len(output) = block.from[i]
      /\ block.at[i + 1] = At + 2
      /\ block.from[i + 1] = Len(output) + MatchLen(block.src[At + 1])
      /\ OffsetHere \in 1 .. Len(output)
      /\ \A k \in Len(output) + 1 .. block.from[i + 1] : block.data[k] = block.data[k - OffsetHere]
  BY <1>1, <1>2, MatchWritten
<1>4. Len(output) \in Nat
  BY LenProperties DEF CodecTyped
<1>5. ItemPlace(i + 1)'
  <2>1. bit' = ((i + 1) + 6) % 8 /\ copymap' = block'.map[(i + 1) - 1]
    <3>1. (i + 1) + 6 = i + 7 /\ (i + 1) - 1 = i
      BY <1>3
    <3> QED
      BY <1>1, <1>3, <3>1
  <2>2. OffsetHere \in Nat \ {0} /\ cpy' + OffsetHere = Len(output')
    BY <1>1, <1>3, <1>4
  <2>3. si' = block'.at[i + 1] /\ Len(output') + left' = block'.from[i + 1]
    BY <1>1, <1>3
  <2>4. \A k \in Len(output') + 1 .. block'.from[i + 1] : block'.data[k] = block'.data[k - OffsetHere]
    BY <1>1, <1>3
  <2> QED
    BY <2>1, <2>2, <2>3, <2>4 DEF ItemPlace
<1> QED
  BY <1>1, <1>3, <1>5 DEF InItems, AsWritten

\* A byte of a match is the one that was written, whether it was there before
\* the match or is a byte of the match.
LEMMA CopyBack ==
  ASSUME CodecTyped, Intact, AsWritten, InItems, CopyByte
  PROVE  AsWritten' /\ InItems'
<1>1. /\ Len(output) < block.lsize /\ output' = Append(output, output[cpy + 1]) /\ left > 0 /\ pc = "decode"
      /\ left' = left - 1 /\ cpy' = cpy + 1
      /\ block' = block /\ si' = si /\ copymap' = copymap /\ bit' = bit
  BY DEF CopyByte, Copying, Decoding, Copy
<1>2. PICK i \in 1 .. Len(block.map) + 1 : ItemPlace(i)
  BY DEF InItems
<1>3. PICK dist \in Nat \ {0} :
        /\ cpy + dist = Len(output)
        /\ \A k \in Len(output) + 1 .. block.from[i] : block.data[k] = block.data[k - dist]
  BY <1>1, <1>2 DEF ItemPlace
<1>4. output \in Seq(Bytes) /\ Len(output) \in Nat /\ left \in Nat /\ cpy \in Nat
      /\ Len(output) + left = block.from[i] /\ block.from[i] \in Nat
  <2>1. output \in Seq(Bytes) /\ Len(output) \in Nat /\ left \in Nat /\ cpy \in Nat
    BY LenProperties DEF CodecTyped
  <2>2. Len(output) + left = block.from[i]
    BY <1>2 DEF ItemPlace
  <2> QED
    BY <2>1, <2>2
<1>5. cpy + 1 \in 1 .. Len(output) /\ Len(output) + 1 \in Len(output) + 1 .. block.from[i]
      /\ Len(output) + 1 - dist = cpy + 1
  <2> DEFINE m == Len(output)
             f == block.from[i]
  <2>1. m \in Nat /\ f \in Nat /\ m + left = f /\ left > 0 /\ left \in Nat
        /\ cpy + dist = m /\ cpy \in Nat /\ dist \in Nat \ {0}
    BY <1>1, <1>3, <1>4
  <2> HIDE DEF m, f
  <2>2. cpy + 1 \in 1 .. m /\ m + 1 \in m + 1 .. f /\ m + 1 - dist = cpy + 1
    BY <2>1
  <2> QED
    BY <2>2 DEF m, f
<1>6. output[cpy + 1] = block.data[Len(output) + 1]
  <2>1. output[cpy + 1] = block.data[cpy + 1]
    BY <1>5 DEF AsWritten
  <2>2. block.data[Len(output) + 1] = block.data[Len(output) + 1 - dist]
    BY <1>3, <1>5
  <2> QED
    BY <1>5, <2>1, <2>2
<1>7. output[cpy + 1] \in Bytes
  BY <1>4, <1>5, ElementOfSeq
<1>8. AsWritten' /\ Len(output') = Len(output) + 1
  BY <1>1, <1>6, <1>7, AppendWritten
<1>9. ItemPlace(i)'
  <2>1. Len(output') + left' = block'.from[i] /\ cpy' + dist = Len(output')
    <3> DEFINE m == Len(output)
    <3>1. Len(output') = m + 1 /\ left' = left - 1 /\ cpy' = cpy + 1 /\ block'.from[i] = m + left
          /\ m \in Nat /\ left \in Nat /\ cpy \in Nat /\ cpy + dist = m
      BY <1>1, <1>3, <1>4, <1>8
    <3> HIDE DEF m
    <3> QED
      BY <3>1
  <2>2. ASSUME NEW k \in Len(output') + 1 .. block'.from[i] PROVE block'.data[k] = block'.data[k - dist]
    <3>1. k \in Len(output) + 1 .. block.from[i]
      BY <1>1, <1>4, <1>8
    <3> QED
      BY <1>1, <1>3, <3>1
  <2>3. si' = block'.at[i] /\ bit' = (i + 6) % 8 /\ (i > 1 => copymap' = block'.map[i - 1])
    BY <1>1, <1>2 DEF ItemPlace
  <2> QED
    BY <2>1, <2>2, <2>3 DEF ItemPlace
<1> QED
  BY <1>1, <1>8, <1>9 DEF InItems

\* No item of an undamaged stream is refused, and none of a cut one for the
\* bytes it refers to.
LEMMA ItemsAreWhole ==
  ASSUME CodecTyped, Intact, InItems
  PROVE  ~ BadMatch /\ (ItemCut => block.harm # "none")
<1>1. PICK i \in 1 .. Len(block.map) + 1 : ItemPlace(i)
  BY DEF InItems
<1>2. ASSUME BadMatch PROVE FALSE
  <2>1. Item(TRUE) /\ Kind = "lzjb" /\ OffsetHere \notin 1 .. Len(output)
    BY <1>2 DEF BadMatch, Item, AtItem, Decoding, Kind
  <2> QED
    BY <1>1, <2>1, MatchWritten
<1>3. ASSUME ItemCut, block.harm = "none" PROVE FALSE
  <2>1. AtItem /\ Kind = "lzjb" /\ (At > Len(block.src) \/ At + (IF IsMatch THEN 2 ELSE 1) > Len(block.src))
    BY <1>3 DEF ItemCut, AtItem, Decoding, Kind
  <2>2. Len(block.src) \in Nat /\ At \in Nat /\ block.src = block.whole
    BY <1>3, ItemIs, SrcIs DEF CodecTyped
  <2>3. /\ At <= Len(block.src) => Copymap = block.map[i]
        /\ block.at[i + 1] <= Len(block.whole)
        /\ block.at[i + 1] = IF Flag(block.map[i], Bit) = 1 THEN At + 2 ELSE At + 1
    BY <1>1, <2>1, ItemWritten
  <2>4. At <= Len(block.src)
    BY <2>2, <2>3
  <2>5. block.at[i + 1] = At + (IF IsMatch THEN 2 ELSE 1)
    BY <2>3, <2>4 DEF IsMatch
  <2> QED
    BY <2>1, <2>2, <2>3, <2>4, <2>5
<1> QED
  BY <1>2, <1>3

\* What a run is read from is what was written there.
LEMMA RunWritten ==
  ASSUME CodecTyped, Intact, Kind = "zle", AtRun,
         NEW i \in 1 .. Len(block.at), RunPlace(i)
  PROVE  /\ i + 1 \in 1 .. Len(block.at) /\ Len(output) = block.from[i] /\ block.from[i] \in Nat
         /\ si < block.at[i + 1] /\ block.at[i + 1] <= Len(block.whole) /\ block.at[i + 1] \in Nat
         /\ LET ctrl == block.whole[si + 1] IN
            IF ctrl < 128
            THEN /\ block.at[i + 1] = si + ctrl + 2 /\ block.from[i + 1] = Len(output) + ctrl + 1
                 /\ \A k \in 1 .. ctrl + 1 : block.data[Len(output) + k] = block.whole[si + 1 + k]
            ELSE /\ block.at[i + 1] = si + 1 /\ block.from[i + 1] = Len(output) + (ctrl - 128 + 64)
                 /\ \A k \in Len(output) + 1 .. block.from[i + 1] : block.data[k] = 0
<1> DEFINE n == Len(block.at) - 1
<1>1. block \in Blocks /\ ZleWritten(block)
  BY SrcIs DEF CodecTyped, StreamWritten, Kind
<1>2. n \in Nat /\ ItemsWritten(block, n)
  BY <1>1 DEF ZleWritten
<1>3. Len(block.at) = n + 1 /\ i \in 1 .. n + 1
  <2>1. Len(block.at) \in Nat
    BY <1>1, LenProperties DEF ZleWritten
  <2> QED
    BY <1>2, <2>1
<1>4. Len(block.whole) \in Nat /\ block.lsize <= Len(block.data) /\ block.lsize \in Nat /\ Len(block.data) \in Nat
      /\ Len(output) < block.lsize /\ Len(output) \in Nat
  BY <1>1, SrcIs, BlockIs, LenProperties DEF CodecTyped, AtRun
<1>5. si = block.at[i] /\ (block.from[i] > block.lsize => Len(output) = block.lsize)
      /\ (~ (block.from[i] > block.lsize) => Len(output) = block.from[i])
  BY DEF RunPlace
<1>6. Len(output) = block.from[i]
  BY <1>4, <1>5
<1> HIDE DEF n
<1>7. i # n + 1
  BY <1>2, <1>4, <1>6 DEF ItemsWritten
<1>8. i \in 1 .. n /\ i \in 1 .. n + 1 /\ i + 1 \in 1 .. n + 1
  BY <1>2, <1>3, <1>7
<1>9. block.from[i] \in Nat /\ block.at[i + 1] \in Nat /\ block.at[i + 1] <= Len(block.whole)
  BY <1>2, <1>4, <1>8, ItemsAre
<1>10. si < block.at[i + 1]
  BY <1>2, <1>5, <1>8 DEF ItemsWritten
<1>11. LET ctrl == block.whole[block.at[i] + 1] IN
       IF ctrl < 128
       THEN /\ block.at[i + 1] = block.at[i] + ctrl + 2 /\ block.from[i + 1] = block.from[i] + ctrl + 1
            /\ \A k \in 1 .. ctrl + 1 : block.data[block.from[i] + k] = block.whole[block.at[i] + 1 + k]
       ELSE /\ block.at[i + 1] = block.at[i] + 1 /\ block.from[i + 1] = block.from[i] + (ctrl - 128 + 64)
            /\ \A k \in block.from[i] + 1 .. block.from[i + 1] : block.data[k] = 0
  BY <1>1, <1>8, Zenon DEF ZleWritten, n
<1> QED
  BY <1>3, <1>5, <1>6, <1>8, <1>9, <1>10, <1>11

\* A run, cut at lsize or not, is as many bytes of the data.
LEMMA TakeRunBack ==
  ASSUME CodecTyped, Intact, AsWritten, NEW i \in Nat, i + 1 \in 1 .. Len(block.at),
         NEW bytes \in Seq(Bytes), NEW m \in Nat, TakeRun(bytes, m),
         si + 1 + m = block.at[i + 1], block.from[i + 1] = Len(output) + Len(bytes),
         \A k \in 1 .. Len(bytes) : bytes[k] = block.data[Len(output) + k]
  PROVE  AsWritten' /\ InRuns'
<1>1. block \in Blocks /\ output \in Seq(Bytes) /\ Len(output) \in Nat /\ Len(bytes) \in Nat
      /\ block.lsize \in Nat /\ block' = block
  BY BlockIs, LenProperties DEF CodecTyped, TakeRun
<1> DEFINE s == output \o bytes
<1>2. s \in Seq(Bytes) /\ Len(s) = Len(output) + Len(bytes)
      /\ \A k \in 1 .. Len(output) + Len(bytes) :
           s[k] = IF k <= Len(output) THEN output[k] ELSE bytes[k - Len(output)]
  BY <1>1, ConcatProperties
<1>3. output' = Shorter(s) /\ si' = block.at[i + 1]
  BY DEF TakeRun
<1> HIDE DEF s
<1>4. ASSUME NEW k \in 1 .. Len(s) PROVE s[k] = block.data[k]
  <2>1. CASE k <= Len(output)
    <3>1. k \in 1 .. Len(output) /\ s[k] = output[k]
      BY <1>1, <1>2, <2>1
    <3> QED
      BY <3>1 DEF AsWritten
  <2>2. CASE ~ (k <= Len(output))
    <3>1. k - Len(output) \in 1 .. Len(bytes) /\ Len(output) + (k - Len(output)) = k
      BY <1>1, <1>2, <2>2
    <3>2. s[k] = bytes[k - Len(output)]
      BY <1>2, <2>2
    <3> QED
      BY <3>1, <3>2
  <2> QED
    BY <2>1, <2>2
<1>5. Len(output') = (IF Len(s) > block.lsize THEN block.lsize ELSE Len(s)) /\ output' \in Seq(Bytes)
  BY <1>1, <1>2, <1>3, ShorterIs
<1>6. ASSUME NEW k \in 1 .. Len(output') PROVE output'[k] = block.data[k]
  <2>1. k \in 1 .. Len(s)
    BY <1>1, <1>2, <1>5
  <2>2. output'[k] = s[k]
    <3>1. CASE Len(s) > block.lsize
      <4>1. k \in 1 .. block.lsize /\ block.lsize \in 0 .. Len(s)
        BY <1>1, <1>2, <1>5, <3>1
      <4>2. SubSeq(s, 1, block.lsize)[k] = s[k]
        BY <1>2, <4>1, FrontIs
      <4> QED
        BY <1>3, <3>1, <4>2 DEF Shorter
    <3>2. CASE ~ (Len(s) > block.lsize)
      BY <1>3, <3>2 DEF Shorter
    <3> QED
      BY <3>1, <3>2
  <2> QED
    BY <1>4, <2>1, <2>2
<1>7. AsWritten'
  BY <1>1, <1>6 DEF AsWritten
<1>8. RunPlace(i + 1)'
  BY <1>1, <1>2, <1>3, <1>5 DEF RunPlace
<1> QED
  BY <1>1, <1>7, <1>8 DEF InRuns

LEMMA RunBack ==
  ASSUME CodecTyped, Intact, AsWritten, InRuns, Literals \/ Zeros
  PROVE  AsWritten' /\ InRuns'
<1>1. AtRun /\ Kind = "zle" /\ si + 1 <= Len(block.src)
  BY DEF Literals, Zeros, AtRun, Decoding, Kind
<1>2. PICK i \in 1 .. Len(block.at) : RunPlace(i)
  BY DEF InRuns
<1>3. block \in Blocks /\ Len(block.src) \in Nat /\ si \in Nat /\ Len(output) \in Nat /\ block.src \in Seq(Bytes)
      /\ \A k \in 1 .. Len(block.src) : block.src[k] = block.whole[k] /\ block.src[k] \in Bytes
  BY SrcIs, BlockIs, LenProperties DEF CodecTyped
<1>4. si + 1 \in 1 .. Len(block.src) /\ Ctrl = block.whole[si + 1] /\ Ctrl \in Bytes
  <2>1. si + 1 \in 1 .. Len(block.src)
    BY <1>1, <1>3
  <2> QED
    BY <1>3, <2>1 DEF Ctrl
<1>5. /\ i \in Nat /\ i + 1 \in 1 .. Len(block.at)
      /\ IF Ctrl < 128
         THEN /\ block.at[i + 1] = si + Ctrl + 2 /\ block.from[i + 1] = Len(output) + Ctrl + 1
              /\ \A k \in 1 .. Ctrl + 1 : block.data[Len(output) + k] = block.whole[si + 1 + k]
         ELSE /\ block.at[i + 1] = si + 1 /\ block.from[i + 1] = Len(output) + (Ctrl - 128 + 64)
              /\ \A k \in Len(output) + 1 .. block.from[i + 1] : block.data[k] = 0
  BY <1>1, <1>2, <1>4, RunWritten
<1>6. Ctrl \in Nat
  <2>1. Ctrl \in Bytes
    BY <1>4
  <2> QED
    BY <2>1 DEF Bytes
<1> DEFINE c == Ctrl
<1> HIDE DEF c
<1>7. CASE Literals
  <2> DEFINE bytes == SubSeq(block.src, si + 2, si + 2 + c)
  <2>1. c < 128 /\ si + 1 + c + 1 <= Len(block.src) /\ TakeRun(bytes, c + 1) /\ c \in Nat
    BY <1>6, <1>7 DEF Literals, c
  <2>2. \A k \in si + 2 .. si + 2 + c : k \in 1 .. Len(block.src)
    BY <1>3, <2>1
  <2>3. bytes \in Seq(Bytes) /\ Len(bytes) = c + 1
        /\ \A k \in 1 .. c + 1 : bytes[k] = block.src[si + 1 + k] /\ si + 1 + k \in 1 .. Len(block.src)
    <3>1. \A k \in si + 2 .. si + 2 + c : block.src[k] \in Bytes
      BY <1>3, <2>2
    <3> DEFINE a == si + 2
               b == si + 2 + c
    <3>2. a \in Int /\ b \in Int /\ a <= b /\ b - a + 1 = c + 1
      BY <1>3, <2>1
    <3> HIDE DEF a, b
    <3>3. SubSeq(block.src, a, b) \in Seq(Bytes)
          /\ Len(SubSeq(block.src, a, b)) = c + 1
          /\ \A k \in 1 .. b - a + 1 : SubSeq(block.src, a, b)[k] = block.src[a + k - 1]
      BY <1>3, <3>1, <3>2, SubSeqProperties DEF a, b
    <3>4. ASSUME NEW k \in 1 .. c + 1
          PROVE  a + k - 1 = si + 1 + k /\ si + 1 + k \in 1 .. Len(block.src)
      BY <1>3, <2>1 DEF a
    <3> QED
      BY <3>2, <3>3, <3>4 DEF a, b
  <2> HIDE DEF bytes
  <2>4. \A k \in 1 .. Len(bytes) : bytes[k] = block.data[Len(output) + k]
    BY <1>3, <1>5, <2>1, <2>3 DEF c
  <2>5. si + 1 + (c + 1) = block.at[i + 1] /\ block.from[i + 1] = Len(output) + Len(bytes) /\ c + 1 \in Nat
    BY <1>3, <1>5, <2>1, <2>3 DEF c
  <2> QED
    BY <1>5, <2>1, <2>3, <2>4, <2>5, TakeRunBack
<1>8. CASE Zeros
  <2> DEFINE z == Ctrl - 128 + 64
             bytes == [k \in 1 .. z |-> 0]
  <2>1. ~ (Ctrl < 128) /\ TakeRun(bytes, 0)
    <3>1. Ctrl >= 128 /\ TakeRun(bytes, 0)
      BY <1>8 DEF Zeros
    <3> QED
      BY <1>6, <3>1
  <2>2. z \in Nat
    BY <1>6, <2>1
  <2>3. block.at[i + 1] = si + 1 /\ block.from[i + 1] = Len(output) + z
        /\ \A k \in Len(output) + 1 .. block.from[i + 1] : block.data[k] = 0
    BY <1>5, <2>1
  <2> HIDE DEF z
  <2>4. bytes \in Seq(Bytes) /\ Len(bytes) = z /\ \A k \in 1 .. z : bytes[k] = 0
    <3>1. 0 \in Bytes
      BY DEF Bytes
    <3> QED
      BY <2>2, <3>1
  <2> HIDE DEF bytes
  <2>5. \A k \in 1 .. Len(bytes) : bytes[k] = block.data[Len(output) + k]
    <3>1. ASSUME NEW k \in 1 .. z PROVE Len(output) + k \in Len(output) + 1 .. block.from[i + 1]
      BY <1>3, <2>2, <2>3
    <3> QED
      BY <2>3, <2>4, <3>1
  <2>6. si + 1 + 0 = block.at[i + 1] /\ block.from[i + 1] = Len(output) + Len(bytes) /\ 0 \in Nat
    BY <1>3, <2>3, <2>4
  <2> QED
    BY <1>5, <2>1, <2>4, <2>5, <2>6, TakeRunBack
<1> QED
  BY <1>7, <1>8

LEMMA RunsAreWhole ==
  ASSUME CodecTyped, Intact, InRuns, RunCut
  PROVE  block.harm # "none"
<1> SUFFICES ASSUME block.harm = "none" PROVE FALSE
  OBVIOUS
<1>1. AtRun /\ Kind = "zle" /\ (si < Len(block.src) => Ctrl < 128 /\ si + 1 + Ctrl + 1 > Len(block.src))
  BY DEF RunCut, AtRun, Decoding, Kind
<1>2. PICK i \in 1 .. Len(block.at) : RunPlace(i)
  BY DEF InRuns
<1>3. block.src = block.whole /\ Len(block.src) \in Nat /\ si \in Nat
      /\ \A k \in 1 .. Len(block.src) : block.src[k] \in Bytes
  BY SrcIs, BlockIs DEF CodecTyped
<1>4. /\ si < block.at[i + 1] /\ block.at[i + 1] <= Len(block.whole) /\ block.at[i + 1] \in Nat
      /\ (Ctrl < 128 => block.at[i + 1] = si + Ctrl + 2)
  BY <1>1, <1>2, <1>3, RunWritten DEF Ctrl
<1>5. si < Len(block.src) /\ si + 1 \in 1 .. Len(block.src)
  BY <1>3, <1>4
<1>6. Ctrl \in Nat
  <2>1. Ctrl \in Bytes
    BY <1>3, <1>5 DEF Ctrl
  <2> QED
    BY <2>1 DEF Bytes
<1> QED
  BY <1>1, <1>3, <1>4, <1>5, <1>6

\* Decompression follows what was written: the output is the first of the data,
\* and the place in the stream is that of an item or of a run.
Following ==
  pc = "decode" /\ Intact =>
    /\ AsWritten
    /\ Kind = "lzjb" => InItems
    /\ Kind = "zle" => InRuns

\* The loops of the code begin at the first item and the first run.
LEMMA FirstPlace ==
  ASSUME CodecTyped, Begun, Intact
  PROVE  AsWritten /\ (Kind = "lzjb" => InItems) /\ (Kind = "zle" => InRuns)
<1>1. block \in Blocks /\ StreamWritten(block) /\ output = <<>> /\ Len(output) = 0
      /\ si = 0 /\ bit = 7 /\ left = 0 /\ block.lsize \in Nat
  BY SrcIs DEF CodecTyped, Begun
<1>2. AsWritten
  BY <1>1 DEF AsWritten
<1>3. ASSUME Kind = "lzjb" PROVE InItems
  <2>1. LzjbWritten(block)
    BY <1>1, <1>3 DEF StreamWritten, Kind
  <2>2. block.at[1] = 0 /\ block.from[1] = 0 /\ Len(block.map) \in Nat
    BY <2>1, LenProperties DEF LzjbWritten, ItemsWritten
  <2>3. 1 \in 1 .. Len(block.map) + 1 /\ ~ (1 > 1) /\ (1 + 6) % 8 = 7
    BY <2>2
  <2>4. ItemPlace(1)
    BY <1>1, <2>2, <2>3 DEF ItemPlace
  <2> QED
    BY <2>3, <2>4 DEF InItems
<1>4. ASSUME Kind = "zle" PROVE InRuns
  <2>1. ZleWritten(block)
    BY <1>1, <1>4 DEF StreamWritten, Kind
  <2>2. block.at[1] = 0 /\ block.from[1] = 0 /\ Len(block.at) \in Nat /\ Len(block.at) - 1 \in Nat
    BY <2>1, LenProperties DEF ZleWritten, ItemsWritten
  <2>3. 1 \in 1 .. Len(block.at)
    BY <2>2
  <2>4. RunPlace(1)
    BY <1>1, <2>2 DEF RunPlace
  <2> QED
    BY <2>3, <2>4 DEF InRuns
<1> QED
  BY <1>2, <1>3, <1>4

\* The loops end with lsize bytes of what was written.
LEMMA FinishBack ==
  ASSUME CodecTyped, Intact => AsWritten, Finish
  PROVE  Back
<1>1. Len(output) >= block.lsize /\ output' = output /\ result' = "ok" /\ Kind \in {"lzjb", "zle"}
  BY DEF Finish, Decoding, Return, Kind
<1>2. ASSUME Intact PROVE output = Shorter(block.data)
  <2>1. block \in Blocks /\ output \in Seq(Bytes) /\ Len(output) \in Nat /\ block.lsize \in Nat
        /\ Len(output) <= block.lsize /\ block.data \in Seq(Bytes) /\ block.lsize <= Len(block.data)
    BY <1>2, SrcIs, BlockIs, LenProperties DEF CodecTyped
  <2>2. Len(output) = block.lsize
    BY <1>1, <2>1
  <2> QED
    BY <1>2, <2>1, <2>2, EnoughIs DEF AsWritten
<1> QED
  BY <1>1, <1>2 DEF Back, Intact

\* The loops refuse only a stream that is not whole.
LEMMA RefusedBack ==
  ASSUME CodecTyped, Following, ItemCut \/ BadMatch \/ RunCut
  PROVE  Back
<1>1. result' = "malformed" /\ pc = "decode"
  BY DEF ItemCut, BadMatch, RunCut, Item, AtItem, AtRun, Decoding, Malformed, Return
<1>2. ItemCut \/ BadMatch => Kind = "lzjb"
  BY DEF ItemCut, BadMatch, Item, AtItem, Decoding, Kind
<1>3. RunCut => Kind = "zle"
  BY DEF RunCut, AtRun, Decoding, Kind
<1>4. block.harm # "none"
  BY <1>1, <1>2, <1>3, ItemsAreWhole, RunsAreWhole DEF Following, Intact
<1> QED
  BY <1>1, <1>4 DEF Back

\* A step of a loop, or the one that ends it.
LEMMA LoopFollows ==
  ASSUME CodecTyped, Following, Literal \/ Match \/ CopyByte \/ Literals \/ Zeros
  PROVE  Following' /\ pc' = "decode"
<1>1. block' = block /\ pc' = pc /\ pc = "decode"
  BY DEF Literal, Match, CopyByte, Literals, Zeros, TakeItem, TakeRun, Copying, Copy, Item, AtItem, AtRun, Decoding
<1>2. Literal \/ Match \/ CopyByte => Kind = "lzjb"
  BY DEF Literal, Match, CopyByte, Item, AtItem, Copying, Decoding, Kind
<1>3. Literals \/ Zeros => Kind = "zle"
  BY DEF Literals, Zeros, AtRun, Decoding, Kind
<1>4. Intact' = Intact /\ Kind' = Kind
  BY <1>1 DEF Intact, Kind
<1>5. ASSUME Intact, Kind = "lzjb" PROVE AsWritten' /\ InItems'
  BY <1>1, <1>2, <1>3, <1>5, LiteralBack, MatchBack, CopyBack DEF Following
<1>6. ASSUME Intact, Kind = "zle" PROVE AsWritten' /\ InRuns'
  BY <1>1, <1>2, <1>3, <1>6, RunBack DEF Following
<1> QED
  BY <1>1, <1>2, <1>3, <1>4, <1>5, <1>6 DEF Following

LEMMA CodecStepFollows ==
  CodecTyped /\ Following /\ DataComesBack /\ [CodecNext]_codecVars => Following' /\ DataComesBack'
<1> SUFFICES ASSUME CodecTyped, Following, DataComesBack, [CodecNext]_codecVars
             PROVE  Following' /\ DataComesBack'
  OBVIOUS
<1>1. CASE Verify
  <2>1. pc = "verify" /\ pc' = "decode"
        /\ UNCHANGED <<block, si, copymap, bit, left, cpy, output, result>>
    BY <1>1 DEF Verify
  <2>2. Begun /\ (Intact => AsWritten /\ (Kind = "lzjb" => InItems) /\ (Kind = "zle" => InRuns))
    BY <2>1, FirstPlace DEF CodecTyped
  <2>3. Intact' = Intact /\ Kind' = Kind /\ AsWritten' = AsWritten /\ InItems' = InItems /\ InRuns' = InRuns
    BY <2>1 DEF Intact, Kind, AsWritten, InItems, InRuns, ItemPlace, RunPlace
  <2> QED
    BY <2>1, <2>2, <2>3 DEF Following, DataComesBack
<1>2. ASSUME Back, pc' = "returned", block' = block PROVE Following' /\ DataComesBack'
  <2>1. Shorter(block.data)' = Shorter(block.data)
        /\ \A n : Padded(SubSeq(block.data, 1, n))' = Padded(SubSeq(block.data, 1, n))
    BY <1>2 DEF Shorter, Padded
  <2> QED
    BY <1>2, <2>1 DEF Back, Following, DataComesBack, Kind
<1>3. CASE Unsupported \/ Empty \/ Off \/ ZstdShort \/ Inflate \/ Lz4Short \/ Lz4
  <2>1. pc' = "returned" /\ block' = block
    BY <1>3 DEF Unsupported, Empty, Off, ZstdShort, Inflate, Lz4Short, Lz4, Malformed, Return
  <2> QED
    BY <1>2, <1>3, <2>1, WholeBack
<1>4. CASE Finish
  <2>1. pc' = "returned" /\ block' = block /\ pc = "decode"
    BY <1>4 DEF Finish, Decoding, Return
  <2> QED
    BY <1>2, <1>4, <2>1, FinishBack DEF Following
<1>5. CASE ItemCut \/ BadMatch \/ RunCut
  <2>1. pc' = "returned" /\ block' = block
    BY <1>5 DEF ItemCut, BadMatch, RunCut, Malformed, Return
  <2> QED
    BY <1>2, <1>5, <2>1, RefusedBack
<1>6. CASE Literal \/ Match \/ CopyByte \/ Literals \/ Zeros
  BY <1>6, LoopFollows DEF DataComesBack
<1>7. CASE CodecReturned \/ UNCHANGED codecVars
  <2>1. UNCHANGED codecVars
    BY <1>7 DEF CodecReturned
  <2> QED
    BY <2>1 DEF codecVars, Following, DataComesBack, Intact, Kind, AsWritten, InItems, InRuns, ItemPlace,
                RunPlace, Shorter, Padded
<1> QED
  BY <1>1, <1>3, <1>4, <1>5, <1>6, <1>7 DEF CodecNext

\* Decompression (compress.rs): an undamaged block comes back as it was
\* written, whichever kind it is, and one that is cut never as wrong bytes.
THEOREM BlocksComeBack == CodecSpec => []DataComesBack
<1>1. CodecInit => CodecTyped /\ Following /\ DataComesBack
  BY CodecBegins DEF CodecInit, Following, DataComesBack
<1>2. CodecTyped /\ Following /\ DataComesBack /\ [CodecNext]_codecVars
        => CodecTyped' /\ Following' /\ DataComesBack'
  BY CodecStepTyped, CodecStepFollows
<1> QED
  BY <1>1, <1>2, PTL DEF CodecSpec

=============================================================================
