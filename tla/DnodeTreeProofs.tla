-------------------------- MODULE DnodeTreeProofs --------------------------
(***************************************************************************)
(* Facts about powers of two, concatenation and the layers of a tree, for  *)
(* the proofs about the readers of a dnode.                                *)
(***************************************************************************)
EXTENDS DnodeTree, FiniteSetTheorems, FunctionTheorems, WellFoundedInduction, TLAPS

(***************************************************************************)
(* Counting up.                                                            *)
(***************************************************************************)

\* A set of numbers that is not empty has a least one (where a loop that goes
\* wrong goes wrong first).
LEMMA LeastNumber ==
  ASSUME NEW S, S \subseteq Nat, S # {}
  PROVE  \E x \in S : \A y \in S : x <= y
<1>1. PICK x \in S : \A y \in S : ~ (<<y, x>> \in OpToRel(<, Nat))
  BY NatLessThanWellFounded, WFMin, Zenon
<1>2. \A y \in S : ~ (y < x)
  BY <1>1 DEF OpToRel
<1> QED
  BY <1>2

\* A set that has 0 and with a number below n the next has all numbers up to n.
LEMMA UpTo ==
  ASSUME NEW n \in Nat, NEW S, 0 \in S, \A i \in 0 .. n - 1 : i \in S => i + 1 \in S
  PROVE  \A i \in 0 .. n : i \in S
<1> DEFINE T == {i \in 0 .. n : i \notin S}
<1>1. SUFFICES ASSUME T # {} PROVE FALSE
  OBVIOUS
<1>2. T \subseteq Nat
  OBVIOUS
<1>3. PICK x \in T : \A y \in T : x <= y
  BY <1>1, <1>2, LeastNumber
<1>4. x \in 0 .. n /\ x \notin S /\ x # 0
  OBVIOUS
<1>5. x - 1 \in 0 .. n - 1 /\ x - 1 \in 0 .. n /\ ~ (x <= x - 1) /\ x - 1 + 1 = x
  BY <1>4
<1>6. x - 1 \notin T
  <2> HIDE DEF T
  <2> QED
    BY <1>3, <1>5, Zenon
<1>7. x - 1 \in S
  BY <1>5, <1>6
<1> QED
  BY <1>4, <1>5, <1>7

\* A number by the number of whole steps of k below it and the rest.
LEMMA StepsOf == \A k, n, r \in Nat : k > 0 /\ r < k => (k * n + r) \div k = n
  OBVIOUS

\* What is left of a number after its whole steps of k: the byte, block or slot within the step.
LEMMA RestOf == \A k, n, r \in Nat : k > 0 /\ r < k => (k * n + r) % k = r
  OBVIOUS

\* A number is its whole steps of k and the rest.
LEMMA StepsAndRest ==
  \A j, k \in Nat : k > 0 =>
    j = k * (j \div k) + (j % k) /\ j \div k \in Nat /\ j % k \in 0 .. k - 1
  OBVIOUS

(***************************************************************************)
(* Powers of two: a pointer per indirect block is a shift in the code      *)
(* (read.rs:169-171).                                                      *)
(***************************************************************************)

\* The sets of numbers up to n are as many as 2^n.
LEMMA PowerCounts ==
  ASSUME NEW n \in Nat
  PROVE  /\ IsFiniteSet(SUBSET (1 .. n))
         /\ Cardinality(SUBSET (1 .. n)) = 2^n
<1>1. IsFiniteSet(1 .. n) /\ Cardinality(1 .. n) = n
  BY FS_Interval
<1> QED
  BY <1>1, FS_SUBSET

\* A shift by nothing, and by one more.
LEMMA PowerStep ==
  /\ 2^0 = 1
  /\ \A n \in Nat : 2^n \in Nat \ {0} /\ 2^(n + 1) = 2 * 2^n
<1>1. 2^0 = 1
  OBVIOUS
<1>2. ASSUME NEW n \in Nat
      PROVE  2^n \in Nat \ {0} /\ 2^(n + 1) = 2 * 2^n
  <2> DEFINE A == SUBSET (1 .. n)
             B == {s \in SUBSET (1 .. n + 1) : n + 1 \in s}
             f == [s \in A |-> s \cup {n + 1}]
  <2>1. IsFiniteSet(A) /\ Cardinality(A) = 2^n
    BY PowerCounts
  <2>2. IsFiniteSet(SUBSET (1 .. n + 1)) /\ Cardinality(SUBSET (1 .. n + 1)) = 2^(n + 1)
    BY PowerCounts
  <2>3. 1 .. n + 1 = (1 .. n) \cup {n + 1} /\ n + 1 \notin 1 .. n
    OBVIOUS
  <2>4. SUBSET (1 .. n + 1) = A \cup B /\ A \cap B = {}
    BY <2>3
  <2>5. f \in [A -> B]
    BY <2>3
  <2>6. \A s, t \in A : f[s] = f[t] => s = t
    BY <2>3
  <2>7. \A t \in B : \E s \in A : f[s] = t
    <3>1. TAKE t \in B
    <3>2. t \ {n + 1} \in A /\ (t \ {n + 1}) \cup {n + 1} = t
      BY <2>3
    <3> QED
      BY <3>2
  <2>8. f \in Bijection(A, B)
    <3> HIDE DEF f, A, B
    <3> QED
      BY <2>5, <2>6, <2>7, Fun_IsBij
  <2>9. IsFiniteSet(B) /\ Cardinality(B) = 2^n
    <3> HIDE DEF f, A, B
    <3>1. ExistsBijection(A, B)
      BY <2>8 DEF ExistsBijection
    <3> QED
      BY <2>1, <3>1, FS_Bijection
  <2>10. Cardinality(A \cup B) = Cardinality(A) + Cardinality(B) - Cardinality(A \cap B)
    <3> HIDE DEF A, B
    <3> QED
      BY <2>1, <2>9, FS_Union
  <2>11. Cardinality(A) \in Nat /\ Cardinality({}) = 0
    BY <2>1, FS_CardinalityType, FS_EmptySet
  <2>12. 2^n \in Nat /\ 2^(n + 1) = 2^n + 2^n - 0
    BY <2>1, <2>2, <2>4, <2>9, <2>10, <2>11
  <2>13. 2^n # 0
    <3>1. {} \in A
      OBVIOUS
    <3> HIDE DEF A
    <3> QED
      BY <2>1, <3>1, FS_EmptySet
  <2> QED
    BY <2>12, <2>13
<1> QED
  BY <1>1, <1>2

\* Shifts add up.
LEMMA PowerSum ==
  ASSUME NEW a \in Nat, NEW b \in Nat
  PROVE  2^(a + b) = 2^a * 2^b
<1> DEFINE S == {i \in Nat : 2^(a + i) = 2^a * 2^i}
<1>1. 0 \in S
  <2>1. 2^(a + 0) = 2^a /\ 2^a * 1 = 2^a
    BY PowerStep
  <2> QED
    BY <2>1, PowerStep
<1>2. ASSUME NEW i \in 0 .. b - 1, i \in S PROVE i + 1 \in S
  <2>1. i \in Nat /\ a + i \in Nat /\ 2^(a + i) = 2^a * 2^i /\ a + (i + 1) = (a + i) + 1
    BY <1>2
  <2>2. 2^((a + i) + 1) = 2 * 2^(a + i) /\ 2^(i + 1) = 2 * 2^i
    BY <2>1, PowerStep
  <2>3. 2^a \in Nat /\ 2^i \in Nat
    BY <2>1, PowerStep
  <2>4. \A x, y \in Nat : 2 * (x * y) = x * (2 * y)
    OBVIOUS
  <2>5. 2^(a + (i + 1)) = 2^a * 2^(i + 1)
    BY <2>1, <2>2, <2>3, <2>4
  <2> QED
    BY <2>1, <2>5
<1> HIDE DEF S
<1>3. b \in S
  BY <1>1, <1>2, UpTo
<1> QED
  BY <1>3 DEF S

(***************************************************************************)
(* Concatenation.                                                          *)
(***************************************************************************)

\* The parts of two sequences, one behind the other.
LEMMA ConcatParts ==
  ASSUME NEW S, NEW s \in Seq(S), NEW t \in Seq(S)
  PROVE  /\ s \o t \in Seq(S)
         /\ Len(s \o t) = Len(s) + Len(t)
         /\ \A i \in 1 .. Len(s) : (s \o t)[i] = s[i]
         /\ \A i \in 1 .. Len(t) : (s \o t)[Len(s) + i] = t[i]
  OBVIOUS

\* One round of concatenation.
Joined(f, seqs, i) == IF i = 1 THEN seqs[i] ELSE f[i - 1] \o seqs[i]

\* A round after the first.
LEMMA JoinedNext == \A f, seqs, i : i # 1 => Joined(f, seqs, i) = f[i - 1] \o seqs[i]
  BY Zenon DEF Joined

Joins(f, seqs, n) == f = [i \in 1 .. n |-> Joined(f, seqs, i)]

\* Rounds of concatenation, one per sequence, exist for any number of sequences.
LEMMA JoinExists ==
  ASSUME NEW seqs, NEW n \in Nat
  PROVE  \E f : Joins(f, seqs, n)
<1> DEFINE S == {i \in Nat : \E f : Joins(f, seqs, i)}
<1>1. 0 \in S
  <2>1. \A f : 1 .. 0 = {}
    OBVIOUS
  <2>2. [i \in 1 .. 0 |-> seqs] = [i \in 1 .. 0 |-> Joined([j \in 1 .. 0 |-> seqs], seqs, i)]
    BY <2>1
  <2>3. Joins([j \in 1 .. 0 |-> seqs], seqs, 0)
    BY <2>2 DEF Joins
  <2> QED
    BY <2>3
<1>2. ASSUME NEW m \in 0 .. n - 1, m \in S PROVE m + 1 \in S
  <2>1. PICK f : Joins(f, seqs, m)
    BY <1>2
  <2> DEFINE g == [i \in 1 .. m + 1 |-> IF i = m + 1 THEN Joined(f, seqs, m + 1) ELSE f[i]]
  <2>2. \A i \in 1 .. m : g[i] = f[i] /\ f[i] = Joined(f, seqs, i)
    BY <2>1 DEF Joins
  <2>3. g[m + 1] = Joined(f, seqs, m + 1)
    OBVIOUS
  <2>4. \A i \in 1 .. m + 1 : Joined(g, seqs, i) = Joined(f, seqs, i)
    <3>1. \A i \in 1 .. m + 1 : i # 1 => i - 1 \in 1 .. m
      OBVIOUS
    <3> QED
      BY <2>2, <3>1 DEF Joined
  <2>5. \A i \in 1 .. m + 1 : g[i] = Joined(g, seqs, i)
    <3>1. \A i \in 1 .. m + 1 : i \in 1 .. m \/ i = m + 1
      OBVIOUS
    <3> QED
      BY <2>2, <2>3, <2>4, <3>1
  <2>6. Joins(g, seqs, m + 1)
    BY <2>5 DEF Joins
  <2>7. m + 1 \in Nat
    OBVIOUS
  <2> HIDE DEF g
  <2> QED
    BY <2>6, <2>7
<1> HIDE DEF S
<1>3. n \in S
  BY <1>1, <1>2, UpTo
<1> QED
  BY <1>3 DEF S

\* FlattenSeq is the last of them.
LEMMA FlattenIs ==
  ASSUME NEW seqs, Len(seqs) \in Nat \ {0}
  PROVE  \E f : Joins(f, seqs, Len(seqs)) /\ FlattenSeq(seqs) = f[Len(seqs)]
<1>1. \E f : Joins(f, seqs, Len(seqs))
  BY JoinExists
<1> DEFINE g == CHOOSE f : Joins(f, seqs, Len(seqs))
<1>2. Joins(g, seqs, Len(seqs))
  BY <1>1
<1>3. FlattenSeq(seqs) = g[Len(seqs)]
  BY DEF FlattenSeq, Joins, Joined
<1> HIDE DEF g
<1> QED
  BY <1>2, <1>3

\* They depend on the sequences they join only.
LEMMA JoinUnique ==
  ASSUME NEW s, NEW t, NEW f, NEW g, NEW n \in Nat, NEW m \in Nat, m <= n,
         Joins(f, s, m), Joins(g, t, n), \A i \in 1 .. m : s[i] = t[i]
  PROVE  \A i \in 1 .. m : f[i] = g[i]
<1> DEFINE S == {i \in Nat : i \in 1 .. m => f[i] = g[i]}
<1>1. 0 \in S
  OBVIOUS
<1>2. ASSUME NEW i \in 0 .. m - 1, i \in S PROVE i + 1 \in S
  <2>1. i + 1 \in 1 .. m /\ i + 1 \in 1 .. n /\ i + 1 \in Nat /\ (i + 1 # 1 => i \in 1 .. m)
    OBVIOUS
  <2>2. f[i + 1] = Joined(f, s, i + 1) /\ g[i + 1] = Joined(g, t, i + 1)
    BY <2>1 DEF Joins
  <2>3. i + 1 # 1 => f[i] = g[i]
    BY <1>2, <2>1
  <2>4. i + 1 - 1 = i
    OBVIOUS
  <2>5. f[i + 1] = g[i + 1]
    BY <2>1, <2>2, <2>3, <2>4 DEF Joined
  <2> QED
    BY <2>1, <2>5
<1> HIDE DEF S
<1>3. \A i \in 0 .. m : i \in S
  BY <1>1, <1>2, UpTo
<1> QED
  BY <1>3 DEF S

\* One more sequence is put behind the others (extend_from_slice, zpl.rs:199).
LEMMA FlattenAppend ==
  ASSUME NEW S, NEW seqs \in Seq(Seq(S)), NEW t \in Seq(S)
  PROVE  FlattenSeq(Append(seqs, t)) = FlattenSeq(seqs) \o t
<1>m. PICK more : more = Append(seqs, t)
  OBVIOUS
<1>n. PICK n : n = Len(seqs)
  OBVIOUS
<1>1. n \in Nat /\ Len(more) = n + 1 /\ more[n + 1] = t /\ \A i \in 1 .. n : seqs[i] = more[i]
  BY <1>m, <1>n
<1>2. PICK g : Joins(g, more, n + 1) /\ FlattenSeq(more) = g[n + 1]
  <2>1. Len(more) \in Nat \ {0}
    BY <1>1
  <2> QED
    BY <1>1, <2>1, FlattenIs
<1>3. g[n + 1] = Joined(g, more, n + 1)
  <2>1. n + 1 \in 1 .. n + 1
    BY <1>1
  <2> QED
    BY <1>2, <2>1 DEF Joins
<1>4. CASE n = 0
  <2>1. FlattenSeq(seqs) = seqs /\ seqs = <<>>
    BY <1>4, <1>n DEF FlattenSeq
  <2>2. <<>> \o t = t
    OBVIOUS
  <2>3. n + 1 = 1
    BY <1>4
  <2>4. FlattenSeq(more) = t
    BY <1>1, <1>2, <1>3, <2>3 DEF Joined
  <2> QED
    BY <2>1, <2>2, <2>4, <1>m
<1>5. CASE n # 0
  <2>1. PICK f : Joins(f, seqs, n) /\ FlattenSeq(seqs) = f[n]
    BY <1>1, <1>5, <1>n, FlattenIs
  <2>2. n <= n + 1 /\ n + 1 \in Nat /\ n \in 1 .. n /\ n + 1 # 1 /\ (n + 1) - 1 = n
    BY <1>1, <1>5
  <2>3. f[n] = g[n]
    BY <1>1, <1>2, <2>1, <2>2, JoinUnique
  <2>4. Joined(g, more, n + 1) = g[n] \o t
    <3>1. Joined(g, more, n + 1) = g[(n + 1) - 1] \o more[n + 1]
      BY <2>2, JoinedNext, Zenon
    <3>2. (n + 1) - 1 = n /\ more[n + 1] = t
      BY <1>1, <2>2
    <3> QED
      BY <3>1, <3>2, Zenon
  <2> QED
    BY <1>2, <1>3, <1>m, <2>1, <2>3, <2>4
<1> QED
  BY <1>4, <1>5

\* Nothing is put together from nothing.
LEMMA FlattenEmpty == FlattenSeq(<<>>) = <<>>
  BY DEF FlattenSeq

\* Sequences of the same length k, one behind the other: where their elements are.
LEMMA FlattenEven ==
  ASSUME NEW S, NEW seqs \in Seq(Seq(S)), NEW k \in Nat \ {0},
         \A i \in 1 .. Len(seqs) : Len(seqs[i]) = k
  PROVE  /\ FlattenSeq(seqs) \in Seq(S)
         /\ Len(FlattenSeq(seqs)) = k * Len(seqs)
         /\ \A j \in 0 .. k * Len(seqs) - 1 :
              FlattenSeq(seqs)[j + 1] = seqs[j \div k + 1][(j % k) + 1]
<1> DEFINE Fst(m) == SubSeq(seqs, 1, m)
           Even(m) == /\ FlattenSeq(Fst(m)) \in Seq(S)
                      /\ Len(FlattenSeq(Fst(m))) = k * m
                      /\ \A j \in 0 .. k * m - 1 :
                           FlattenSeq(Fst(m))[j + 1] = seqs[j \div k + 1][(j % k) + 1]
           T == {m \in Nat : Even(m)}
<1>1. 0 \in T
  <2>1. Fst(0) = <<>> /\ Len(<<>>) = 0 /\ <<>> \in Seq(S)
    OBVIOUS
  <2>2. FlattenSeq(Fst(0)) = <<>>
    BY <2>1 DEF FlattenSeq
  <2>3. k * 0 = 0 /\ 0 .. k * 0 - 1 = {}
    OBVIOUS
  <2> QED
    BY <2>1, <2>2, <2>3
<1>2. ASSUME NEW m \in 0 .. Len(seqs) - 1, m \in T PROVE m + 1 \in T
  <2>1. m \in Nat /\ m + 1 \in Nat /\ m + 1 \in 1 .. Len(seqs)
    OBVIOUS
  <2>t. PICK t : t = seqs[m + 1]
    OBVIOUS
  <2>s. PICK s : s = FlattenSeq(Fst(m))
    OBVIOUS
  <2>2. t \in Seq(S) /\ Len(t) = k
    BY <2>t, <2>1
  <2>3. Fst(m) \in Seq(Seq(S)) /\ Fst(m + 1) = Append(Fst(m), t)
    BY <2>t, <2>1
  <2>4. s \in Seq(S) /\ Len(s) = k * m /\ \A j \in 0 .. k * m - 1 : s[j + 1] = seqs[j \div k + 1][(j % k) + 1]
    BY <1>2, <2>s
  <2>5. FlattenSeq(Fst(m + 1)) = s \o t
    <3> HIDE DEF Fst
    <3> QED
      BY <2>s, <2>2, <2>3, FlattenAppend
  <2>6. k * m \in Nat /\ k * (m + 1) = k * m + k
    BY <2>1
  <2>7. s \o t \in Seq(S) /\ Len(s \o t) = Len(s) + Len(t)
        /\ (\A i \in 1 .. Len(s) : (s \o t)[i] = s[i])
        /\ (\A i \in 1 .. Len(t) : (s \o t)[Len(s) + i] = t[i])
    <3>1. s \in Seq(S) /\ t \in Seq(S)
      BY <2>2, <2>4
    <3> QED
      BY <3>1, ConcatParts, SMT
  <2>8. ASSUME NEW j \in 0 .. k * (m + 1) - 1
        PROVE  (s \o t)[j + 1] = seqs[j \div k + 1][(j % k) + 1]
    <3>1. CASE j < k * m
      <4>1. j \in 0 .. k * m - 1 /\ j + 1 \in 1 .. k * m
        BY <2>6, <3>1
      <4>2. (s \o t)[j + 1] = s[j + 1]
        BY <2>4, <2>7, <4>1, Zenon
      <4>3. s[j + 1] = seqs[j \div k + 1][(j % k) + 1]
        BY <2>4, <4>1, Zenon
      <4> QED
        BY <4>2, <4>3, Zenon
    <3>2. CASE j >= k * m
      <4>1. PICK r \in 0 .. k - 1 : j = k * m + r
        BY <2>6, <3>2
      <4>2. j \div k = m /\ j % k = r
        <5>1. k > 0 /\ r < k /\ r \in Nat /\ k \in Nat
          BY <4>1
        <5> QED
          BY <2>1, <4>1, <5>1, StepsOf, RestOf
      <4>3. r + 1 \in 1 .. k /\ j + 1 = k * m + (r + 1)
        BY <2>6, <4>1
      <4>4. (s \o t)[k * m + (r + 1)] = t[r + 1]
        BY <2>2, <2>4, <2>7, <4>3, Zenon
      <4> QED
        <5>1. (s \o t)[j + 1] = seqs[m + 1][r + 1]
          BY <2>t, <4>3, <4>4, Zenon
        <5> QED
          BY <4>2, <5>1, Zenon
    <3>3. j < k * m \/ j >= k * m
      BY <2>6
    <3> QED
      BY <3>1, <3>2, <3>3
  <2>9. Len(s \o t) = k * (m + 1)
    BY <2>2, <2>4, <2>6, <2>7
  <2>10. Even(m + 1)
    <3> HIDE DEF Fst
    <3>1. FlattenSeq(Fst(m + 1)) \in Seq(S) /\ Len(FlattenSeq(Fst(m + 1))) = k * (m + 1)
      BY <2>5, <2>7, <2>9, Zenon
    <3>2. \A j \in 0 .. k * (m + 1) - 1 :
            FlattenSeq(Fst(m + 1))[j + 1] = seqs[j \div k + 1][(j % k) + 1]
      <4> DEFINE joined == FlattenSeq(Fst(m + 1))
      <4>1. joined = s \o t
        BY <2>5
      <4> HIDE DEF joined
      <4>2. \A j \in 0 .. k * (m + 1) - 1 : joined[j + 1] = seqs[j \div k + 1][(j % k) + 1]
        BY <2>8, <4>1, Zenon
      <4> QED
        BY <4>2 DEF joined
    <3> QED
      BY <3>1, <3>2, Zenon
  <2> HIDE DEF Even
  <2> QED
    BY <2>1, <2>10
<1> HIDE DEF T
<1>3. Len(seqs) \in Nat
  OBVIOUS
<1>4. \A m \in 0 .. Len(seqs) : m \in T
  BY <1>1, <1>2, <1>3, UpTo
<1>5. Len(seqs) \in 0 .. Len(seqs)
  BY <1>3
<1>6. Even(Len(seqs))
  BY <1>4, <1>5 DEF T
<1>7. Fst(Len(seqs)) = seqs
  OBVIOUS
<1> HIDE DEF Fst
<1> QED
  BY <1>6, <1>7

(***************************************************************************)
(* Filtering and prefixes: what is left out of a row of blocks or pointers *)
(* (vfs.rs: l0_blkptrs), and what is cut off it.                           *)
(***************************************************************************)

\* What the empty sequence has and what every longer one takes over, all have.
LEMMA SeqInduction ==
  ASSUME NEW S, NEW Q, <<>> \in Q,
         \A s \in Seq(S) : \A x \in S : s \in Q => Append(s, x) \in Q
  PROVE  \A s \in Seq(S) : s \in Q
<1> DEFINE T == {n \in Nat : \A s \in Seq(S) : Len(s) = n => s \in Q}
<1>1. 0 \in T
  <2>1. \A s \in Seq(S) : Len(s) = 0 => s = <<>>
    OBVIOUS
  <2> QED
    BY <2>1
<1>2. ASSUME NEW n \in Nat, n \in T PROVE n + 1 \in T
  <2>1. ASSUME NEW s \in Seq(S), Len(s) = n + 1 PROVE s \in Q
    <3>f. PICK front : front = SubSeq(s, 1, n)
      OBVIOUS
    <3>1. front \in Seq(S) /\ Len(front) = n /\ s[n + 1] \in S /\ s = Append(front, s[n + 1])
      BY <2>1, <3>f
    <3>2. front \in Q
      BY <1>2, <3>1
    <3> QED
      BY <3>1, <3>2
  <2> QED
    BY <2>1
<1> HIDE DEF T
<1>3. ASSUME NEW s \in Seq(S) PROVE s \in Q
  <2>1. Len(s) \in Nat /\ Len(s) \in 0 .. Len(s)
    OBVIOUS
  <2>2. \A n \in 0 .. Len(s) - 1 : n \in T => n + 1 \in T
    BY <1>2, <2>1
  <2>3. Len(s) \in T
    <3>n. PICK n : n = Len(s)
      OBVIOUS
    <3>1. n \in Nat /\ n \in 0 .. n /\ \A i \in 0 .. n - 1 : i \in T => i + 1 \in T
      BY <2>1, <2>2, <3>n
    <3>2. \A i \in 0 .. n : i \in T
      BY <1>1, <3>1, UpTo
    <3> QED
      BY <3>1, <3>2, <3>n
  <2> QED
    BY <2>3 DEF T
<1> QED
  BY <1>3

\* Sequences put together have the elements they had.
LEMMA FlattenTypes ==
  ASSUME NEW S, NEW seqs \in Seq(Seq(S))
  PROVE  FlattenSeq(seqs) \in Seq(S)
<1> DEFINE Q == {r \in Seq(Seq(S)) : FlattenSeq(r) \in Seq(S)}
<1>1. <<>> \in Q
  <2>1. <<>> \in Seq(Seq(S)) /\ <<>> \in Seq(S)
    OBVIOUS
  <2> QED
    BY <2>1, FlattenEmpty
<1>2. ASSUME NEW r \in Seq(Seq(S)), NEW t \in Seq(S), r \in Q PROVE Append(r, t) \in Q
  <2>k. PICK k : k = FlattenSeq(r)
    OBVIOUS
  <2>1. FlattenSeq(Append(r, t)) = k \o t
    BY <2>k, FlattenAppend
  <2>2. k \in Seq(S)
    BY <1>2, <2>k
  <2>3. k \o t \in Seq(S) /\ Append(r, t) \in Seq(Seq(S))
    BY <2>2
  <2> QED
    BY <2>1, <2>3
<1> HIDE DEF Q
<1>3. seqs \in Q
  BY <1>1, <1>2, SeqInduction
<1> QED
  BY <1>3 DEF Q

\* One round of the filter.
Sieved(f, s, S, n) ==
  IF n = 0 THEN <<>> ELSE IF s[n] \in S THEN Append(f[n - 1], s[n]) ELSE f[n - 1]

Sieves(f, s, S, n) == f = [i \in 0 .. n |-> Sieved(f, s, S, i)]

\* There are as many rounds as elements.
LEMMA SieveExists ==
  ASSUME NEW s, NEW S, NEW n \in Nat
  PROVE  \E f : Sieves(f, s, S, n)
<1> DEFINE T == {i \in Nat : \E f : Sieves(f, s, S, i)}
<1>1. 0 \in T
  <2> DEFINE f == [i \in 0 .. 0 |-> <<>>]
  <2>1. \A i \in 0 .. 0 : Sieved(f, s, S, i) = <<>>
    BY DEF Sieved
  <2>2. Sieves(f, s, S, 0)
    BY <2>1 DEF Sieves
  <2> HIDE DEF f
  <2> QED
    BY <2>2
<1>2. ASSUME NEW m \in 0 .. n - 1, m \in T PROVE m + 1 \in T
  <2>1. PICK f : Sieves(f, s, S, m)
    BY <1>2
  <2> DEFINE g == [i \in 0 .. m + 1 |-> IF i = m + 1 THEN Sieved(f, s, S, m + 1) ELSE f[i]]
  <2>2. \A i \in 0 .. m : g[i] = f[i] /\ f[i] = Sieved(f, s, S, i)
    BY <2>1 DEF Sieves
  <2>3. g[m + 1] = Sieved(f, s, S, m + 1)
    OBVIOUS
  <2>4. \A i \in 0 .. m + 1 : Sieved(g, s, S, i) = Sieved(f, s, S, i)
    <3>1. \A i \in 0 .. m + 1 : i # 0 => i - 1 \in 0 .. m
      OBVIOUS
    <3> HIDE DEF g
    <3>2. \A i \in 0 .. m + 1 : i # 0 => g[i - 1] = f[i - 1]
      BY <2>2, <3>1
    <3> QED
      BY <3>2 DEF Sieved
  <2>5. \A i \in 0 .. m + 1 : g[i] = Sieved(g, s, S, i)
    <3>1. \A i \in 0 .. m + 1 : i \in 0 .. m \/ i = m + 1
      OBVIOUS
    <3> HIDE DEF g
    <3> QED
      BY <2>2, <2>3, <2>4, <3>1
  <2>6. Sieves(g, s, S, m + 1)
    BY <2>5 DEF Sieves
  <2>7. m + 1 \in Nat
    OBVIOUS
  <2> HIDE DEF g
  <2> QED
    BY <2>6, <2>7
<1> HIDE DEF T
<1>3. \A i \in 0 .. n : i \in T
  BY <1>1, <1>2, UpTo
<1>4. n \in 0 .. n
  OBVIOUS
<1>5. n \in T
  BY <1>3, <1>4
<1> QED
  BY <1>5 DEF T

\* What is kept is what the last round has.
LEMMA ThoseIs ==
  ASSUME NEW s, NEW S, Len(s) \in Nat
  PROVE  \E f : Sieves(f, s, S, Len(s)) /\ Those(s, S) = f[Len(s)]
<1> DEFINE g == CHOOSE f : Sieves(f, s, S, Len(s))
<1>1. Sieves(g, s, S, Len(s))
  BY SieveExists
<1>2. Those(s, S) = g[Len(s)]
  BY DEF Those, Sieves, Sieved
<1> HIDE DEF g
<1> QED
  BY <1>1, <1>2

\* Two filters of sequences that begin alike do alike.
LEMMA SieveUnique ==
  ASSUME NEW s, NEW t, NEW S, NEW f, NEW g, NEW m \in Nat,
         Sieves(f, s, S, m), Sieves(g, t, S, m + 1), \A i \in 1 .. m : s[i] = t[i]
  PROVE  f[m] = g[m]
<1> DEFINE T == {i \in Nat : f[i] = g[i]}
<1>1. \A i \in 0 .. m : f[i] = Sieved(f, s, S, i) /\ g[i] = Sieved(g, t, S, i)
  <2>1. \A i \in 0 .. m : i \in 0 .. m + 1
    OBVIOUS
  <2> QED
    BY <2>1 DEF Sieves
<1>2. 0 \in T
  <2>1. 0 \in 0 .. m
    OBVIOUS
  <2> QED
    BY <1>1, <2>1 DEF Sieved
<1>3. ASSUME NEW i \in 0 .. m - 1, i \in T PROVE i + 1 \in T
  <2>1. i \in Nat /\ i + 1 \in 0 .. m /\ i + 1 \in 1 .. m /\ i + 1 # 0 /\ (i + 1) - 1 = i /\ i + 1 \in Nat
    OBVIOUS
  <2>2. f[i] = g[i] /\ s[i + 1] = t[i + 1]
    BY <1>3, <2>1
  <2>3. f[i + 1] = g[i + 1]
    BY <1>1, <2>1, <2>2 DEF Sieved
  <2> QED
    BY <2>1, <2>3
<1> HIDE DEF T
<1>4. \A i \in 0 .. m : i \in T
  BY <1>2, <1>3, UpTo
<1>5. m \in 0 .. m
  OBVIOUS
<1> QED
  BY <1>4, <1>5 DEF T

\* Nothing is kept of nothing, and an element is kept or not.
LEMMA ThoseEmpty == \A S : Those(<<>>, S) = <<>>
<1> TAKE S
<1>1. Len(<<>>) = 0
  OBVIOUS
<1>2. PICK f : Sieves(f, <<>>, S, 0) /\ Those(<<>>, S) = f[0]
  BY <1>1, ThoseIs
<1>3. 0 \in 0 .. 0
  OBVIOUS
<1> QED
  BY <1>2, <1>3 DEF Sieves, Sieved

\* Filtering a list a block longer keeps what was kept, and the new one if it is wanted.
LEMMA ThoseAppend ==
  ASSUME NEW A, NEW s \in Seq(A), NEW x \in A, NEW S
  PROVE  Those(Append(s, x), S) = IF x \in S THEN Append(Those(s, S), x) ELSE Those(s, S)
<1>t. PICK t : t = Append(s, x)
  OBVIOUS
<1>n. PICK n : n = Len(s)
  OBVIOUS
<1>1. n \in Nat /\ Len(t) = n + 1 /\ t[n + 1] = x /\ \A i \in 1 .. n : s[i] = t[i]
  BY <1>t, <1>n
<1>2. PICK f : Sieves(f, s, S, n) /\ Those(s, S) = f[n]
  BY <1>1, <1>n, ThoseIs
<1>3. PICK g : Sieves(g, t, S, n + 1) /\ Those(t, S) = g[n + 1]
  <2>1. Len(t) \in Nat
    BY <1>1
  <2> QED
    BY <1>1, <2>1, ThoseIs
<1>4. n + 1 \in Nat /\ n <= n + 1 /\ n + 1 \in 0 .. n + 1 /\ n + 1 # 0 /\ (n + 1) - 1 = n
  BY <1>1
<1>5. f[n] = g[n]
  <2>1. /\ n \in Nat
        /\ Sieves(f, s, S, n) /\ Sieves(g, t, S, n + 1)
        /\ \A i \in 1 .. n : s[i] = t[i]
    BY <1>1, <1>2, <1>3, <1>4
  <2> QED
    BY <2>1, SieveUnique
<1>6. g[n + 1] = Sieved(g, t, S, n + 1)
  BY <1>3, <1>4 DEF Sieves
<1>7. g[n + 1] = IF x \in S THEN Append(g[n], x) ELSE g[n]
  BY <1>1, <1>4, <1>6 DEF Sieved
<1> QED
  BY <1>2, <1>3, <1>5, <1>7, <1>t

\* Putting together, in any grouping.
LEMMA ConcatFacts ==
  ASSUME NEW A, NEW s \in Seq(A)
  PROVE  s \o <<>> = s /\ <<>> \o s = s
  OBVIOUS

\* Content put together piece by piece does not depend on how the pieces were grouped.
LEMMA ConcatAssoc ==
  ASSUME NEW A, NEW s \in Seq(A), NEW t \in Seq(A), NEW u \in Seq(A)
  PROVE  (s \o t) \o u = s \o (t \o u)
  OBVIOUS

\* Two sequences with the same elements in the same places are one.
LEMMA SameSeq ==
  ASSUME NEW A, NEW v \in Seq(A), NEW w \in Seq(A), Len(v) = Len(w),
         \A i \in 1 .. Len(w) : v[i] = w[i]
  PROVE  v = w
  OBVIOUS

\* The two operators under names of their own, that a proof can leave unopened.
Put(s, x) == Append(s, x)
Plus(s, t) == s \o t

\* Three sequences, in any grouping.
LEMMA PlusAssoc ==
  \A A : \A s, t, u \in Seq(A) : Plus(Plus(s, t), u) = Plus(s, Plus(t, u))
  BY ConcatAssoc DEF Plus

\* An element put behind the second of two sequences is behind both.
LEMMA PlusPut ==
  ASSUME NEW A, NEW s \in Seq(A), NEW t \in Seq(A), NEW x \in A
  PROVE  Plus(s, Put(t, x)) = Put(Plus(s, t), x)
<1>n. PICK m, n : m = Len(s) /\ n = Len(t)
  OBVIOUS
<1>u. PICK u : u = Put(t, x)
  OBVIOUS
<1>p. PICK st : st = Plus(s, t)
  OBVIOUS
<1>v. PICK v : v = Plus(s, u)
  OBVIOUS
<1>w. PICK w : w = Put(st, x)
  OBVIOUS
<1>1. m \in Nat /\ n \in Nat
  BY <1>n
<1>2. /\ u \in Seq(A) /\ Len(u) = n + 1 /\ u[n + 1] = x
      /\ \A i \in 1 .. n : u[i] = t[i]
  BY <1>u, <1>n DEF Put
<1>3. /\ v \in Seq(A) /\ Len(v) = m + n + 1
      /\ \A i \in 1 .. m : v[i] = s[i]
      /\ \A i \in 1 .. n + 1 : v[m + i] = u[i]
  <2>1. v = s \o u
    BY <1>v DEF Plus
  <2>2. /\ v \in Seq(A) /\ Len(v) = Len(s) + Len(u)
        /\ \A i \in 1 .. Len(s) : v[i] = s[i]
        /\ \A i \in 1 .. Len(u) : v[Len(s) + i] = u[i]
    <3>1. u \in Seq(A)
      BY <1>2
    <3> QED
      BY <2>1, <3>1, ConcatParts
  <2> QED
    BY <1>1, <1>2, <1>n, <2>2
<1>4. /\ st \in Seq(A) /\ Len(st) = m + n
      /\ \A i \in 1 .. m : st[i] = s[i]
      /\ \A i \in 1 .. n : st[m + i] = t[i]
  <2>1. st = s \o t
    BY <1>p DEF Plus
  <2>2. /\ st \in Seq(A) /\ Len(st) = Len(s) + Len(t)
        /\ \A i \in 1 .. Len(s) : st[i] = s[i]
        /\ \A i \in 1 .. Len(t) : st[Len(s) + i] = t[i]
    BY <2>1
  <2> QED
    BY <1>n, <2>2
<1>5. /\ w \in Seq(A) /\ Len(w) = Len(st) + 1 /\ w[Len(st) + 1] = x
      /\ \A i \in 1 .. Len(st) : w[i] = st[i]
  BY <1>4, <1>w DEF Put
<1>6. Len(v) = Len(w)
  BY <1>1, <1>3, <1>4, <1>5
<1>7. ASSUME NEW i \in 1 .. Len(w) PROVE v[i] = w[i]
  <2>0. i \in 1 .. m + n + 1 /\ Len(st) = m + n
    BY <1>4, <1>5
  <2>1. CASE i \in 1 .. m
    <3>1. i \in 1 .. m + n
      BY <1>1, <2>1
    <3> QED
      BY <1>3, <1>4, <1>5, <2>0, <2>1, <3>1
  <2>2. CASE i \notin 1 .. m
    <3>j. PICK j : j = i - m
      OBVIOUS
    <3>1. j \in 1 .. n + 1 /\ i = m + j /\ (j \in 1 .. n \/ j = n + 1)
      BY <1>1, <2>0, <2>2, <3>j
    <3>2. v[i] = u[j]
      BY <1>3, <3>1
    <3>3. CASE j \in 1 .. n
      <4>1. i \in 1 .. m + n
        BY <1>1, <3>1, <3>3
      <4>2. w[i] = st[i] /\ st[i] = t[j]
        BY <1>4, <1>5, <2>0, <3>1, <3>3, <4>1
      <4> QED
        BY <1>2, <3>2, <3>3, <4>2
    <3>4. CASE j = n + 1
      <4>1. i = m + n + 1
        BY <1>1, <3>1, <3>4
      <4>2. w[i] = x
        BY <1>5, <2>0, <4>1
      <4> QED
        BY <1>2, <3>2, <3>4, <4>2
    <3> QED
      BY <3>1, <3>3, <3>4
  <2> QED
    BY <2>1, <2>2
<1>8. v = w
  BY <1>3, <1>5, <1>6, <1>7, SameSeq
<1> QED
  BY <1>8, <1>u, <1>p, <1>v, <1>w

\* What is kept is in the set, and no more than there was.
LEMMA ThoseTypes ==
  ASSUME NEW A, NEW s \in Seq(A), NEW S
  PROVE  /\ Those(s, S) \in Seq(A \cap S)
         /\ Those(s, S) \in Seq(A)
         /\ Len(Those(s, S)) <= Len(s)
<1> DEFINE Q == {r \in Seq(A) : Those(r, S) \in Seq(A \cap S) /\ Len(Those(r, S)) <= Len(r)}
<1>1. <<>> \in Q
  <2>1. <<>> \in Seq(A) /\ <<>> \in Seq(A \cap S) /\ Len(<<>>) = 0 /\ 0 <= 0
    OBVIOUS
  <2>2. Those(<<>>, S) = <<>>
    BY ThoseEmpty
  <2> QED
    BY <2>1, <2>2
<1>2. ASSUME NEW r \in Seq(A), NEW x \in A, r \in Q PROVE Append(r, x) \in Q
  <2>k. PICK k : k = Those(r, S)
    OBVIOUS
  <2>1. k \in Seq(A \cap S) /\ Len(k) <= Len(r)
    BY <1>2, <2>k
  <2>2. Those(Append(r, x), S) = IF x \in S THEN Append(k, x) ELSE k
    BY <2>k, ThoseAppend
  <2>3. Append(r, x) \in Seq(A) /\ Len(Append(r, x)) = Len(r) + 1 /\ Len(r) \in Nat /\ Len(k) \in Nat
    BY <2>1
  <2>4. x \in S => Append(k, x) \in Seq(A \cap S) /\ Len(Append(k, x)) = Len(k) + 1
    BY <2>1
  <2>5. Those(Append(r, x), S) \in Seq(A \cap S)
    BY <2>1, <2>2, <2>4
  <2>6. Len(Those(Append(r, x), S)) <= Len(Append(r, x))
    BY <2>1, <2>2, <2>3, <2>4
  <2> QED
    BY <2>3, <2>5, <2>6
<1> HIDE DEF Q
<1>3. s \in Q
  BY <1>1, <1>2, SeqInduction
<1>4. \A r : r \in Seq(A \cap S) => r \in Seq(A)
  OBVIOUS
<1> QED
  BY <1>3, <1>4 DEF Q

\* Nothing is kept of a sequence that has nothing of the set.
LEMMA ThoseNone ==
  ASSUME NEW A, NEW s \in Seq(A), NEW S, A \cap S = {}
  PROVE  Those(s, S) = <<>>
<1>1. Those(s, S) \in Seq({})
  BY ThoseTypes
<1> QED
  BY <1>1

\* The part kept of two sequences is the two parts.
LEMMA ThoseConcat ==
  ASSUME NEW A, NEW s \in Seq(A), NEW t \in Seq(A), NEW S
  PROVE  Those(s \o t, S) = Those(s, S) \o Those(t, S)
<1> DEFINE Q == {r \in Seq(A) : Those(Plus(s, r), S) = Plus(Those(s, S), Those(r, S))}
<1>k. PICK k : k = Those(s, S)
  OBVIOUS
<1>0. k \in Seq(A)
  BY <1>k, ThoseTypes
<1>1. <<>> \in Q
  <2>1. Plus(s, <<>>) = s /\ Plus(k, <<>>) = k
    BY <1>0, ConcatFacts DEF Plus
  <2>2. Those(<<>>, S) = <<>> /\ <<>> \in Seq(A)
    BY ThoseEmpty
  <2> QED
    BY <1>k, <2>1, <2>2
<1>2. ASSUME NEW r \in Seq(A), NEW x \in A, r \in Q PROVE Append(r, x) \in Q
  <2>j. PICK j : j = Those(r, S)
    OBVIOUS
  <2>p. PICK sr : sr = Plus(s, r)
    OBVIOUS
  <2>q. PICK kj : kj = Plus(k, j)
    OBVIOUS
  <2>1. j \in Seq(A)
    BY <2>j, ThoseTypes
  <2>2. sr \in Seq(A)
    BY <2>p DEF Plus
  <2>3. Those(sr, S) = kj
    BY <1>2, <1>k, <2>j, <2>p, <2>q
  <2>4. Plus(s, Put(r, x)) = Put(sr, x)
    BY <2>p, PlusPut
  <2>5. Plus(k, Put(j, x)) = Put(kj, x)
    BY <1>0, <2>1, <2>q, PlusPut
  <2>6. Those(Put(sr, x), S) = IF x \in S THEN Put(kj, x) ELSE kj
    BY <2>2, <2>3, ThoseAppend DEF Put
  <2>7. Those(Put(r, x), S) = IF x \in S THEN Put(j, x) ELSE j
    BY <2>j, ThoseAppend DEF Put
  <2>8. Those(Plus(s, Put(r, x)), S) = Plus(k, Those(Put(r, x), S))
    <3>1. CASE x \in S
      BY <2>4, <2>5, <2>6, <2>7, <3>1, Zenon
    <3>2. CASE x \notin S
      BY <2>4, <2>q, <2>6, <2>7, <3>2, Zenon
    <3> QED
      BY <3>1, <3>2
  <2>9. Put(r, x) \in Seq(A) /\ Append(r, x) = Put(r, x)
    BY DEF Put
  <2>10. Put(r, x) \in Q
    BY <1>k, <2>8, <2>9
  <2> QED
    BY <2>9, <2>10, Zenon
<1> HIDE DEF Q
<1>3. t \in Q
  BY <1>1, <1>2, SeqInduction
<1>4. Those(Plus(s, t), S) = Plus(Those(s, S), Those(t, S))
  BY <1>3 DEF Q
<1> QED
  BY <1>4 DEF Plus

\* Two filters one behind the other are one.
LEMMA ThoseTwice ==
  ASSUME NEW A, NEW s \in Seq(A), NEW S, NEW T
  PROVE  Those(Those(s, S), T) = Those(s, S \cap T)
<1> DEFINE Q == {r \in Seq(A) : Those(Those(r, S), T) = Those(r, S \cap T)}
<1>1. <<>> \in Q
  BY ThoseEmpty
<1>2. ASSUME NEW r \in Seq(A), NEW x \in A, r \in Q PROVE Append(r, x) \in Q
  <2>k. PICK k : k = Those(r, S)
    OBVIOUS
  <2>1. k \in Seq(A) /\ Append(r, x) \in Seq(A)
    <3>1. k \in Seq(A)
      BY <2>k, ThoseTypes
    <3> QED
      BY <3>1
  <2>2. Those(k, T) = Those(r, S \cap T)
    BY <1>2, <2>k
  <2>3. Those(Append(r, x), S) = IF x \in S THEN Append(k, x) ELSE k
    BY <2>k, ThoseAppend
  <2>4. Those(Append(k, x), T) = IF x \in T THEN Append(Those(k, T), x) ELSE Those(k, T)
    BY <2>1, ThoseAppend
  <2>5. Those(Append(r, x), S \cap T)
          = IF x \in S \cap T THEN Append(Those(r, S \cap T), x) ELSE Those(r, S \cap T)
    BY ThoseAppend
  <2>6. Those(Those(Append(r, x), S), T) = Those(Append(r, x), S \cap T)
    <3>1. CASE x \in S
      <4>1. Those(Append(r, x), S) = Append(k, x) /\ (x \in S \cap T <=> x \in T)
        BY <2>3, <3>1
      <4>2. CASE x \in T
        BY <2>2, <2>4, <2>5, <4>1, <4>2, Zenon
      <4>3. CASE x \notin T
        BY <2>2, <2>4, <2>5, <4>1, <4>3, Zenon
      <4> QED
        BY <4>2, <4>3
    <3>2. CASE x \notin S
      BY <2>2, <2>3, <2>5, <3>2, Zenon
    <3> QED
      BY <3>1, <3>2
  <2> QED
    BY <2>1, <2>6
<1> HIDE DEF Q
<1>3. s \in Q
  BY <1>1, <1>2, SeqInduction
<1> QED
  BY <1>3 DEF Q

\* A filter that lets everything through leaves a sequence as it is.
LEMMA ThoseAll ==
  ASSUME NEW A, NEW s \in Seq(A)
  PROVE  Those(s, A) = s
<1> DEFINE Q == {r \in Seq(A) : Those(r, A) = r}
<1>1. <<>> \in Q
  <2>1. <<>> \in Seq(A)
    OBVIOUS
  <2> QED
    BY <2>1, ThoseEmpty
<1>2. ASSUME NEW r \in Seq(A), NEW x \in A, r \in Q PROVE Append(r, x) \in Q
  <2>1. Append(r, x) \in Seq(A)
    OBVIOUS
  <2>2. Those(Append(r, x), A) = Append(Those(r, A), x)
    BY ThoseAppend
  <2>3. Those(r, A) = r
    BY <1>2
  <2> QED
    BY <2>1, <2>2, <2>3
<1> HIDE DEF Q
<1>3. s \in Q
  BY <1>1, <1>2, SeqInduction
<1> QED
  BY <1>3 DEF Q

\* Two filters that agree on the elements there can be keep the same.
LEMMA ThoseSame ==
  ASSUME NEW A, NEW s \in Seq(A), NEW S, NEW T, A \cap S = A \cap T
  PROVE  Those(s, S) = Those(s, T)
<1>1. Those(s, A) = s
  BY ThoseAll
<1>2. Those(Those(s, A), S) = Those(s, A \cap S)
  BY ThoseTwice
<1>3. Those(Those(s, A), T) = Those(s, A \cap T)
  BY ThoseTwice
<1> QED
  BY <1>1, <1>2, <1>3, Zenon

\* A prefix is what something can be put behind.
LEMMA PrefixIs ==
  ASSUME NEW A, NEW s \in Seq(A), NEW t \in Seq(A)
  PROVE  IsPrefix(s, t) <=> \E u \in Seq(A) : t = s \o u
<1>1. ASSUME NEW u \in Seq(A), t = s \o u PROVE IsPrefix(s, t)
  <2>1. Len(t) = Len(s) + Len(u) /\ Len(s) \in Nat /\ Len(u) \in Nat /\ \A i \in 1 .. Len(s) : t[i] = s[i]
    BY <1>1
  <2>2. SubSeq(s, 1, Len(s)) = SubSeq(t, 1, Len(s))
    BY <2>1
  <2> QED
    BY <2>1, <2>2 DEF IsPrefix
<1>2. ASSUME IsPrefix(s, t) PROVE \E u \in Seq(A) : t = s \o u
  <2>u. PICK u : u = SubSeq(t, Len(s) + 1, Len(t))
    OBVIOUS
  <2>1. Len(s) \in Nat /\ Len(t) \in Nat /\ Len(s) <= Len(t) /\ SubSeq(s, 1, Len(s)) = SubSeq(t, 1, Len(s))
    BY <1>2 DEF IsPrefix
  <2>2. u \in Seq(A) /\ Len(u) = Len(t) - Len(s) /\ \A i \in 1 .. Len(u) : u[i] = t[Len(s) + i]
    BY <2>1, <2>u
  <2>3. \A i \in 1 .. Len(s) : s[i] = t[i]
    <3>1. \A i \in 1 .. Len(s) : SubSeq(s, 1, Len(s))[i] = s[i] /\ SubSeq(t, 1, Len(s))[i] = t[i]
      BY <2>1
    <3> QED
      BY <2>1, <3>1
  <2>v. PICK v : v = s \o u
    OBVIOUS
  <2>4. v \in Seq(A) /\ Len(v) = Len(s) + Len(u) /\ (\A i \in 1 .. Len(s) : v[i] = s[i])
        /\ \A i \in 1 .. Len(u) : v[Len(s) + i] = u[i]
    BY <2>2, <2>v
  <2>5. Len(v) = Len(t)
    BY <2>1, <2>2, <2>4
  <2>6. ASSUME NEW i \in 1 .. Len(t) PROVE v[i] = t[i]
    <3>1. CASE i <= Len(s)
      <4>1. i \in 1 .. Len(s)
        BY <2>1, <3>1
      <4> QED
        BY <2>3, <2>4, <4>1
    <3>2. CASE ~ (i <= Len(s))
      <4>1. i - Len(s) \in 1 .. Len(u) /\ Len(s) + (i - Len(s)) = i
        BY <2>1, <2>2, <3>2
      <4> QED
        BY <2>2, <2>4, <4>1
    <3> QED
      BY <3>1, <3>2
  <2>7. v = t
    BY <2>4, <2>5, <2>6
  <2> QED
    BY <2>2, <2>7, <2>v
<1> QED
  BY <1>1, <1>2

\* A cut leaves a prefix (truncate, zpl.rs:204; MAX_RUNS, vfs.rs:415).
LEMMA CutIsPrefix ==
  ASSUME NEW A, NEW s \in Seq(A), NEW n \in 0 .. Len(s)
  PROVE  /\ SubSeq(s, 1, n) \in Seq(A)
         /\ Len(SubSeq(s, 1, n)) = n
         /\ IsPrefix(SubSeq(s, 1, n), s)
<1>m. PICK m : m = Len(s)
  OBVIOUS
<1>c. PICK c : c = SubSeq(s, 1, n)
  OBVIOUS
<1>1. m \in Nat /\ n \in Nat /\ n <= m
  BY <1>m
<1>2. c \in Seq(A) /\ Len(c) = n /\ \A k \in 1 .. n : c[k] = s[k]
  BY <1>c, <1>m, <1>1
<1>3. SubSeq(c, 1, n) = c
  BY <1>1, <1>2
<1>4. Len(c) <= Len(s) /\ SubSeq(c, 1, Len(c)) = SubSeq(s, 1, Len(c))
  BY <1>c, <1>m, <1>1, <1>2, <1>3
<1>5. IsPrefix(c, s)
  BY <1>4 DEF IsPrefix
<1> QED
  BY <1>c, <1>2, <1>5

\* A prefix of a prefix is one.
LEMMA PrefixOfPrefix ==
  ASSUME NEW A, NEW s \in Seq(A), NEW t \in Seq(A), NEW u \in Seq(A), IsPrefix(s, t), IsPrefix(t, u)
  PROVE  IsPrefix(s, u)
<1>1. PICK v \in Seq(A) : t = s \o v
  BY PrefixIs
<1>2. PICK w \in Seq(A) : u = t \o w
  BY PrefixIs
<1>3. u = s \o (v \o w)
  BY <1>1, <1>2, ConcatAssoc
<1>4. v \o w \in Seq(A)
  OBVIOUS
<1> QED
  BY <1>3, <1>4, PrefixIs

\* A prefix as long as the whole is the whole.
LEMMA PrefixWhole ==
  ASSUME NEW A, NEW s \in Seq(A), NEW t \in Seq(A), IsPrefix(s, t), Len(t) <= Len(s)
  PROVE  s = t
<1>1. /\ Len(s) \in Nat /\ Len(t) \in Nat /\ Len(s) <= Len(t)
      /\ SubSeq(s, 1, Len(s)) = SubSeq(t, 1, Len(s))
  BY DEF IsPrefix
<1>2. Len(s) = Len(t)
  BY <1>1
<1>3. SubSeq(s, 1, Len(s)) = s /\ SubSeq(t, 1, Len(t)) = t
  OBVIOUS
<1> QED
  BY <1>1, <1>2, <1>3

\* What is kept of a prefix is a prefix of what is kept.
LEMMA ThosePrefix ==
  ASSUME NEW A, NEW s \in Seq(A), NEW t \in Seq(A), NEW S, IsPrefix(s, t)
  PROVE  IsPrefix(Those(s, S), Those(t, S))
<1>1. PICK u \in Seq(A) : t = s \o u
  BY PrefixIs
<1>2. Those(t, S) = Those(s, S) \o Those(u, S)
  BY <1>1, ThoseConcat
<1>3. Those(s, S) \in Seq(A) /\ Those(t, S) \in Seq(A) /\ Those(u, S) \in Seq(A)
  BY ThoseTypes
<1> QED
  BY <1>2, <1>3, PrefixIs

(***************************************************************************)
(* The layers of the tree, as read_dnode_data goes down them               *)
(* (read.rs:177-209).                                                      *)
(***************************************************************************)

\* Two shifts are one.
LEMMA TwoSteps ==
  ASSUME NEW b \in Nat, NEW m \in Nat \ {0}, NEW n \in Nat \ {0}
  PROVE  (b \div m) \div n = b \div (m * n)
<1>1. PICK q \in Nat, r \in 0 .. m - 1 : b = m * q + r
  <2>1. m > 0
    OBVIOUS
  <2>2. b = m * (b \div m) + (b % m) /\ b \div m \in Nat /\ b % m \in 0 .. m - 1
    BY <2>1, StepsAndRest
  <2> QED
    BY <2>2, Zenon
<1>2. b \div m = q
  BY <1>1, StepsOf
<1>3. PICK u \in Nat, v \in 0 .. n - 1 : q = n * u + v
  <2>1. n > 0
    OBVIOUS
  <2>2. q = n * (q \div n) + (q % n) /\ q \div n \in Nat /\ q % n \in 0 .. n - 1
    BY <2>1, StepsAndRest
  <2> QED
    BY <2>2, Zenon
<1>4. q \div n = u
  BY <1>3, StepsOf
<1>5. m * q = (m * n) * u + m * v
  <2>1. \A x, y, z, w \in Nat : x * (y * z + w) = (x * y) * z + x * w
    OBVIOUS
  <2> QED
    BY <1>3, <2>1
<1>6. m * v \in Nat /\ m * n \in Nat /\ m * v + m <= m * n
  <2>1. \A x, y, z \in Nat : x \in Nat /\ y + 1 <= z => x * y \in Nat /\ x * z \in Nat /\ x * y + x <= x * z
    OBVIOUS
  <2> QED
    BY <1>3, <2>1
<1>7. m * v + r \in Nat /\ m * v + r < m * n /\ m * n > 0
  BY <1>1, <1>6
<1>8. b = (m * n) * u + (m * v + r)
  BY <1>1, <1>3, <1>5, <1>6
<1>9. b \div (m * n) = u
  BY <1>3, <1>6, <1>7, <1>8, StepsOf
<1> QED
  BY <1>2, <1>4, <1>9

\* A number is below k times n when its steps of k are below n.
LEMMA StepsBelow ==
  ASSUME NEW k \in Nat \ {0}, NEW n \in Nat, NEW j \in Nat
  PROVE  /\ j < k * n <=> j \div k < n
         /\ j \div k \in Nat
         /\ j % k \in 0 .. k - 1
<1>1. PICK q \in Nat, r \in 0 .. k - 1 : j = k * q + r
  <2>1. k > 0
    OBVIOUS
  <2>2. j = k * (j \div k) + (j % k) /\ j \div k \in Nat /\ j % k \in 0 .. k - 1
    BY <2>1, StepsAndRest
  <2> QED
    BY <2>2, Zenon
<1>2. j \div k = q /\ j % k = r
  BY <1>1, StepsOf, RestOf
<1>3. q < n => k * q + k <= k * n
  <2>1. \A x, y, z \in Nat : y + 1 <= z => x * y + x <= x * z
    OBVIOUS
  <2> QED
    BY <2>1
<1>4. n <= q => k * n <= k * q
  <2>1. \A x, y, z \in Nat : y <= z => x * y <= x * z
    OBVIOUS
  <2> QED
    BY <2>1
<1>5. k * q \in Nat /\ k * n \in Nat
  OBVIOUS
<1> QED
  BY <1>1, <1>2, <1>3, <1>4, <1>5

\* A layer from the one above it.
Below(f, k) ==
  IF k = 0 THEN d.top ELSE FlattenSeq([i \in DOMAIN f[k - 1] |-> Children(f[k - 1][i])])

\* Every layer the reader can reach is there.
LEMMA LayerIs == Layer = [k \in 0 .. MaxLevels - 1 |-> Below(Layer, k)]
<1> DEFINE Down(f, n) == f = [k \in 0 .. n |-> Below(f, k)]
           S == {n \in Nat : \E f : Down(f, n)}
<1>1. 0 \in S
  <2> DEFINE f == [k \in 0 .. 0 |-> d.top]
  <2>1. \A k \in 0 .. 0 : Below(f, k) = d.top
    BY DEF Below
  <2>2. Down(f, 0)
    BY <2>1
  <2>3. \E h : Down(h, 0)
    <3> HIDE DEF f, Down
    <3> QED
      BY <2>2
  <2> HIDE DEF Down
  <2> QED
    BY <2>3
<1>2. ASSUME NEW m \in 0 .. MaxLevels - 2, m \in S PROVE m + 1 \in S
  <2>1. PICK f : Down(f, m)
    BY <1>2
  <2>2. m \in Nat /\ m + 1 \in Nat
    OBVIOUS
  <2> DEFINE g == [k \in 0 .. m + 1 |-> IF k = m + 1 THEN Below(f, m + 1) ELSE f[k]]
  <2>3. \A k \in 0 .. m : g[k] = f[k] /\ f[k] = Below(f, k)
    BY <2>1, <2>2
  <2>4. g[m + 1] = Below(f, m + 1)
    BY <2>2
  <2>5. \A k \in 0 .. m + 1 : Below(g, k) = Below(f, k)
    <3>1. \A k \in 0 .. m + 1 : k # 0 => k - 1 \in 0 .. m
      BY <2>2
    <3> HIDE DEF g
    <3>2. \A k \in 0 .. m + 1 : k # 0 => g[k - 1] = f[k - 1]
      BY <2>3, <3>1
    <3> QED
      BY <3>2 DEF Below
  <2>6. \A k \in 0 .. m + 1 : g[k] = Below(g, k)
    <3>1. \A k \in 0 .. m + 1 : k \in 0 .. m \/ k = m + 1
      BY <2>2
    <3> HIDE DEF g
    <3> QED
      BY <2>3, <2>4, <2>5, <3>1
  <2>7. Down(g, m + 1)
    BY <2>6
  <2> HIDE DEF g
  <2>8. \E h : Down(h, m + 1)
    <3> HIDE DEF Down
    <3> QED
      BY <2>7
  <2> HIDE DEF Down
  <2> QED
    BY <2>2, <2>8
<1>3. MaxLevels - 1 \in Nat /\ (MaxLevels - 1) - 1 = MaxLevels - 2
  BY TreeAssumption
<1>4. MaxLevels - 1 \in S
  <2> HIDE DEF S
  <2>1. \A i \in 0 .. MaxLevels - 1 : i \in S
    BY <1>1, <1>2, <1>3, UpTo
  <2> QED
    BY <1>3, <2>1
<1>5. \E f : Down(f, MaxLevels - 1)
  BY <1>4
<1>6. Layer = CHOOSE f : Down(f, MaxLevels - 1)
  BY DEF Layer, Below
<1> QED
  BY <1>5, <1>6

\* The pointers of a dnode and of its blocks are pointers.
LEMMA PointersAreBps ==
  /\ Pointer \subseteq Bp
  /\ \A s : s \in Seq(Pointer) => s \in Seq(Bp)
<1>1. Pointer \subseteq Bp
  BY DEF Pointer
<1> HIDE DEF Pointer, Bp
<1> QED
  BY <1>1

\* What read_block returns, and the pointers in it, have their types.
LEMMA BlockTypes ==
  ASSUME IsDnode(d), NEW b \in Bp, Readable(b)
  PROVE  Kids(b) \in Seq(Bp) /\ Data(b) \in Seq(Unit)
<1>1. CASE b.hole
  <2>1. b.lsize \in Nat /\ b.lsize * PtrsPerUnit \in Nat
    BY TreeAssumption DEF Bp
  <2>2. Hole(1) \in Bp
    BY DEF Hole, Bp
  <2>3. \A n \in Nat : [k \in 1 .. n |-> Hole(1)] \in Seq(Bp)
    <3> HIDE DEF Hole, Bp
    <3> QED
      BY <2>2
  <2>4. \A n \in Nat : [k \in 1 .. n |-> Zero] \in Seq(Unit)
    BY UnitAssumption
  <2> QED
    BY <1>1, <2>1, <2>3, <2>4 DEF Kids, Data
<1>2. CASE ~b.hole
  <2>1. b.to \in DOMAIN d.blocks
    BY <1>2 DEF Readable
  <2>2. d.blocks[b.to].kids \in Seq(Bp) /\ d.blocks[b.to].units \in Seq(Unit)
    <3> HIDE DEF Bp, Pointer
    <3> QED
      BY <2>1, PointersAreBps DEF IsDnode
  <2> QED
    BY <1>2, <2>2 DEF Kids, Data
<1> QED
  BY <1>1, <1>2

\* An indirect block stands for a full set of pointers.
LEMMA ChildTypes ==
  ASSUME IsDnode(d), NEW b \in Bp
  PROVE  Fanout \in Nat \ {0} /\ Children(b) \in Seq(Bp) /\ Len(Children(b)) = Fanout
<1>1. Fanout \in Nat \ {0}
  BY PowerStep DEF Fanout, IsDnode
<1>2. ASSUME NEW k \in 1 .. Fanout
      PROVE  (IF b.hole THEN b ELSE IF Readable(b) /\ k <= Len(Kids(b)) THEN Kids(b)[k] ELSE Lost) \in Bp
  <2>1. Lost \in Bp
    BY DEF Lost, Ptr, Bp
  <2>2. ASSUME Readable(b), k <= Len(Kids(b))
        PROVE  Kids(b)[k] \in Bp
    <3>1. Kids(b) \in Seq(Bp)
      BY <2>2, BlockTypes
    <3>2. k \in Nat /\ k >= 1
      BY <1>1
    <3> HIDE DEF Bp
    <3> QED
      BY <2>2, <3>1, <3>2
  <2> QED
    BY <2>1, <2>2
<1> QED
  BY <1>1, <1>2 DEF Children

\* The children of a row of pointers, in order.
LEMMA ChildrenInOrder ==
  ASSUME IsDnode(d), NEW row \in Seq(Bp)
  PROVE  LET next == FlattenSeq([i \in DOMAIN row |-> Children(row[i])])
         IN  /\ next \in Seq(Bp)
             /\ Len(next) = Fanout * Len(row)
             /\ \A j \in 0 .. Fanout * Len(row) - 1 :
                  next[j + 1] = Children(row[j \div Fanout + 1])[(j % Fanout) + 1]
<1>s. PICK seqs : seqs = [i \in DOMAIN row |-> Children(row[i])]
  OBVIOUS
<1>1. DOMAIN row = 1 .. Len(row) /\ Len(row) \in Nat /\ \A i \in 1 .. Len(row) : row[i] \in Bp
  <2> HIDE DEF Bp
  <2> QED
    OBVIOUS
<1>2. \A i \in 1 .. Len(row) : Children(row[i]) \in Seq(Bp) /\ Len(Children(row[i])) = Fanout
  BY <1>1, ChildTypes
<1>3. seqs \in Seq(Seq(Bp)) /\ Len(seqs) = Len(row)
  <2> HIDE DEF Bp, Children
  <2> QED
    BY <1>s, <1>1, <1>2
<1>4. \A i \in 1 .. Len(row) : seqs[i] = Children(row[i])
  BY <1>s, <1>1
<1>5. Fanout \in Nat \ {0}
  BY PowerStep DEF Fanout, IsDnode
<1>6. \A i \in 1 .. Len(seqs) : Len(seqs[i]) = Fanout
  BY <1>2, <1>3, <1>4
<1>7. /\ FlattenSeq(seqs) \in Seq(Bp)
      /\ Len(FlattenSeq(seqs)) = Fanout * Len(row)
      /\ \A j \in 0 .. Fanout * Len(row) - 1 :
           FlattenSeq(seqs)[j + 1] = seqs[j \div Fanout + 1][(j % Fanout) + 1]
  BY <1>3, <1>5, <1>6, FlattenEven
<1>8. ASSUME NEW j \in 0 .. Fanout * Len(row) - 1
      PROVE  seqs[j \div Fanout + 1] = Children(row[j \div Fanout + 1])
  <2>1. Fanout * Len(row) \in Nat
    BY <1>1, <1>5
  <2>2. j \in Nat /\ j < Fanout * Len(row)
    BY <2>1
  <2>3. j \div Fanout \in Nat /\ j \div Fanout < Len(row)
    BY <1>1, <1>5, <2>2, StepsBelow
  <2>4. j \div Fanout + 1 \in 1 .. Len(row)
    BY <1>1, <2>3
  <2> QED
    BY <1>4, <2>4
<1>9. \A j \in 0 .. Fanout * Len(row) - 1 :
        FlattenSeq(seqs)[j + 1] = Children(row[j \div Fanout + 1])[(j % Fanout) + 1]
  <2> TAKE j \in 0 .. Fanout * Len(row) - 1
  <2>1. FlattenSeq(seqs)[j + 1] = seqs[j \div Fanout + 1][(j % Fanout) + 1]
    BY <1>7, Zenon
  <2>2. seqs[j \div Fanout + 1] = Children(row[j \div Fanout + 1])
    BY <1>8, Zenon
  <2> QED
    BY <2>1, <2>2, Zenon
<1> QED
  BY <1>s, <1>7, <1>9, Zenon

\* Every layer is a sequence of pointers; the one below has Fanout for each.
LEMMA LayerTypes ==
  ASSUME IsDnode(d), NEW k \in 0 .. MaxLevels - 1
  PROVE  Layer[k] \in Seq(Bp)
<1> DEFINE S == {i \in Nat : i \in 0 .. MaxLevels - 1 => Layer[i] \in Seq(Bp)}
<1>1. MaxLevels - 1 \in Nat /\ (MaxLevels - 1) - 1 = MaxLevels - 2
  BY TreeAssumption
<1>2. 0 \in S
  <2>1. 0 \in 0 .. MaxLevels - 1
    BY <1>1
  <2>2. Layer[0] = d.top
    BY <2>1, LayerIs DEF Below
  <2>3. d.top \in Seq(Bp)
    <3> HIDE DEF Bp, Pointer
    <3> QED
      BY PointersAreBps DEF IsDnode
  <2> QED
    BY <2>2, <2>3
<1>3. ASSUME NEW i \in 0 .. MaxLevels - 2, i \in S PROVE i + 1 \in S
  <2>1. i \in Nat /\ i \in 0 .. MaxLevels - 1 /\ i + 1 \in 0 .. MaxLevels - 1 /\ i + 1 # 0 /\ (i + 1) - 1 = i
    BY <1>1
  <2>2. Layer[i] \in Seq(Bp)
    BY <1>3, <2>1
  <2>3. Layer[i + 1] = FlattenSeq([j \in DOMAIN Layer[i] |-> Children(Layer[i][j])])
    BY <2>1, LayerIs DEF Below
  <2>4. FlattenSeq([j \in DOMAIN Layer[i] |-> Children(Layer[i][j])]) \in Seq(Bp)
    BY <2>2, ChildrenInOrder
  <2> QED
    BY <2>1, <2>3, <2>4
<1> HIDE DEF S
<1>4. \A i \in 0 .. MaxLevels - 1 : i \in S
  BY <1>1, <1>2, <1>3, UpTo
<1> QED
  BY <1>4 DEF S
=============================================================================
