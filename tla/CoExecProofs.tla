---------------------------- MODULE CoExecProofs ----------------------------
(***************************************************************************)
(* What the pipelines of CoExec are made of, for spans of any length: the  *)
(* groups of a pipeline hold every operation that the span issues, in a    *)
(* group of its class, and just once.                                      *)
(***************************************************************************)
EXTENDS CoExec, FiniteSetTheorems, TLAPS

-----------------------------------------------------------------------------
(* Sequences.                                                              *)

\* The domain of a sequence, ...
LEMMA SequenceDomain ==
  ASSUME NEW s, IsSequence(s)
  PROVE  Len(s) \in Nat /\ DOMAIN s = 1 .. Len(s) /\ s = [i \in 1 .. Len(s) |-> s[i]]
BY DEF IsSequence

\* ... and what is a sequence.
LEMMA MakeSequence ==
  ASSUME NEW n \in Nat, NEW f, f = [i \in 1 .. n |-> f[i]]
  PROVE  IsSequence(f) /\ Len(f) = n
<1>1. f \in [1 .. n -> Range(f)]
  BY DEF Range
<1>2. f \in Seq(Range(f))
  BY <1>1
<1> QED BY <1>1, <1>2 DEF IsSequence

\* A sequence over some set is one over its range.
LEMMA SequenceOver ==
  ASSUME NEW A, NEW s \in Seq(A)
  PROVE  IsSequence(s) /\ Range(s) \subseteq A
<1>1. Len(s) \in Nat /\ s = [i \in 1 .. Len(s) |-> s[i]] /\ DOMAIN s = 1 .. Len(s)
  OBVIOUS
<1>2. \A i \in 1 .. Len(s) : s[i] \in A
  OBVIOUS
<1> QED BY <1>1, <1>2, MakeSequence DEF Range

\* A sequence, from its elements.
LEMMA SequenceFrom ==
  ASSUME NEW A, NEW n \in Nat, NEW f, f = [i \in 1 .. n |-> f[i]], \A i \in 1 .. n : f[i] \in A
  PROVE  f \in Seq(A)
<1>1. f \in [1 .. n -> A]
  OBVIOUS
<1> QED BY <1>1

\* The concatenation of two sequences.
LEMMA ConcatSequence ==
  ASSUME NEW s, IsSequence(s), NEW t, IsSequence(t)
  PROVE  /\ IsSequence(s \o t)
         /\ DOMAIN (s \o t) = 1 .. Len(s) + Len(t)
         /\ \A i \in 1 .. Len(s) + Len(t) :
               (s \o t)[i] = IF i <= Len(s) THEN s[i] ELSE t[i - Len(s)]
         /\ Range(s \o t) = Range(s) \cup Range(t)
<1>1. Len(s) \in Nat /\ Len(t) \in Nat /\ DOMAIN s = 1 .. Len(s) /\ DOMAIN t = 1 .. Len(t)
  BY SequenceDomain
<1> DEFINE A == Range(s) \cup Range(t)
<1>2. s \in Seq(A) /\ t \in Seq(A)
  BY DEF IsSequence
<1> HIDE DEF A
<1>3. /\ s \o t \in Seq(A) /\ Len(s \o t) = Len(s) + Len(t)
      /\ DOMAIN (s \o t) = 1 .. Len(s) + Len(t)
      /\ \A i \in 1 .. Len(s) + Len(t) :
            (s \o t)[i] = IF i <= Len(s) THEN s[i] ELSE t[i - Len(s)]
  BY <1>1, <1>2
<1>4. IsSequence(s \o t)
  BY <1>3, SequenceOver
<1>5. ASSUME NEW x \in Range(s \o t) PROVE x \in Range(s) \cup Range(t)
  <2>1. PICK i \in 1 .. Len(s) + Len(t) : x = (s \o t)[i]
    BY <1>3 DEF Range
  <2>2. CASE i <= Len(s)
    BY <1>1, <1>3, <2>1, <2>2 DEF Range
  <2>3. CASE ~(i <= Len(s))
    <3>1. i - Len(s) \in 1 .. Len(t)
      BY <1>1, <2>3
    <3> QED BY <1>1, <1>3, <2>1, <2>3, <3>1 DEF Range
  <2> QED BY <2>2, <2>3
<1>6. ASSUME NEW x \in Range(s) PROVE x \in Range(s \o t)
  <2>1. PICK i \in 1 .. Len(s) : x = s[i]
    BY <1>1 DEF Range
  <2>2. i \in 1 .. Len(s) + Len(t) /\ (s \o t)[i] = x
    BY <1>1, <1>3, <2>1
  <2> QED BY <1>3, <2>2 DEF Range
<1>7. ASSUME NEW x \in Range(t) PROVE x \in Range(s \o t)
  <2>1. PICK i \in 1 .. Len(t) : x = t[i]
    BY <1>1 DEF Range
  <2>2. i + Len(s) \in 1 .. Len(s) + Len(t) /\ ~(i + Len(s) <= Len(s)) /\ (i + Len(s)) - Len(s) = i
    BY <1>1
  <2>3. (s \o t)[i + Len(s)] = x
    BY <1>3, <2>1, <2>2
  <2> QED BY <1>3, <2>2, <2>3 DEF Range
<1> QED BY <1>3, <1>4, <1>5, <1>6, <1>7

\* A sequence of one element.
LEMMA SingletonSequence ==
  \A x : IsSequence(<<x>>) /\ Range(<<x>>) = {x} /\ DOMAIN <<x>> = {1} /\ <<x>>[1] = x /\ Len(<<x>>) = 1
BY DEF IsSequence, Range

-----------------------------------------------------------------------------
(* FlattenSeq puts the elements of a sequence one behind the other.        *)

\* Position p of v is position at[p] of element part[p] of s; v has, in this order,
\* all positions of the first k elements.
LaidBy(s, k, v, part, at) ==
    /\ \A p \in DOMAIN v : /\ part[p] \in 1 .. k /\ at[p] \in DOMAIN s[part[p]]
                           /\ v[p] = s[part[p]][at[p]]
    /\ \A p, q \in DOMAIN v :
          p < q => part[p] < part[q] \/ (part[p] = part[q] /\ at[p] < at[q])
    /\ \A a \in 1 .. k : \A o \in DOMAIN s[a] : \E p \in DOMAIN v : part[p] = a /\ at[p] = o
Laid(s, k, v) == IsSequence(v) /\ \E part, at : LaidBy(s, k, v, part, at)

NoFold(c, v, x) == v
Flattening == INSTANCE FoldFacts WITH Op <- NoFold, Inv <- Laid

\* FlattenSeq lays out the positions of all elements, in their order.
LEMMA FlattenLaid ==
  ASSUME NEW s, IsSequence(s), \A k \in DOMAIN s : IsSequence(s[k])
  PROVE  Laid(s, Len(s), FlattenSeq(s))
<1>1. Len(s) \in Nat /\ DOMAIN s = 1 .. Len(s)
  BY SequenceDomain
<1>2. CASE Len(s) = 0
  <2>1. s = <<>> /\ FlattenSeq(s) = s /\ DOMAIN s = {}
    BY <1>1, <1>2 DEF FlattenSeq
  <2>2. LaidBy(s, 0, s, <<>>, <<>>)
    BY <2>1 DEF LaidBy
  <2> QED BY <1>2, <2>1, <2>2 DEF Laid
<1>3. CASE Len(s) # 0
  <2>1. Laid(s, 1, s[1])
    <3> DEFINE part == [p \in DOMAIN s[1] |-> 1]
               at   == [p \in DOMAIN s[1] |-> p]
    <3>1. IsSequence(s[1])
      BY <1>1, <1>3
    <3>2. LaidBy(s, 1, s[1], part, at)
      BY DEF LaidBy
    <3> HIDE DEF part, at
    <3> QED BY <3>1, <3>2 DEF Laid
  <2>2. ASSUME NEW k \in 2 .. Len(s), NEW v, Laid(s, k - 1, v)
        PROVE  Laid(s, k, v \o s[k])
    <3>1. PICK part, at : LaidBy(s, k - 1, v, part, at)
      BY <2>2 DEF Laid
    <3> DEFINE t == s[k]
               w == v \o t
               n == Len(v)
               part2 == [p \in DOMAIN w |-> IF p <= n THEN part[p] ELSE k]
               at2   == [p \in DOMAIN w |-> IF p <= n THEN at[p] ELSE p - n]
    <3>2. IsSequence(v) /\ IsSequence(t) /\ n \in Nat /\ DOMAIN v = 1 .. n
          /\ Len(t) \in Nat /\ DOMAIN t = 1 .. Len(t)
      BY <1>1, <2>2, SequenceDomain DEF Laid
    <3>3. /\ IsSequence(w) /\ DOMAIN w = 1 .. n + Len(t)
          /\ \A i \in 1 .. n + Len(t) : w[i] = IF i <= n THEN v[i] ELSE t[i - n]
      BY <3>2, ConcatSequence
    <3>4. k \in Nat /\ 1 .. k = (1 .. k - 1) \cup {k} /\ s[k] = t
      BY <1>1
    <3> HIDE DEF n, w, t
    <3>5. ASSUME NEW p \in DOMAIN w
          PROVE  part2[p] \in 1 .. k /\ at2[p] \in DOMAIN s[part2[p]] /\ w[p] = s[part2[p]][at2[p]]
      <4>1. CASE p <= n
        <5>1. p \in DOMAIN v
          BY <3>2, <3>3, <4>1
        <5> QED BY <3>1, <3>3, <3>4, <4>1, <5>1 DEF LaidBy
      <4>2. CASE ~(p <= n)
        <5>1. p - n \in DOMAIN t
          BY <3>2, <3>3, <4>2
        <5> QED BY <3>3, <3>4, <4>2, <5>1
      <4> QED BY <4>1, <4>2
    <3>6. ASSUME NEW p \in DOMAIN w, NEW q \in DOMAIN w, p < q
          PROVE  part2[p] < part2[q] \/ (part2[p] = part2[q] /\ at2[p] < at2[q])
      <4>1. p \in Nat /\ q \in Nat
        BY <3>2, <3>3
      <4>2. CASE q <= n
        <5>1. p \in DOMAIN v /\ q \in DOMAIN v /\ p <= n
          BY <3>2, <3>3, <3>6, <4>1, <4>2
        <5> QED BY <3>1, <3>6, <4>2, <5>1 DEF LaidBy
      <4>3. CASE p <= n /\ ~(q <= n)
        <5>1. p \in DOMAIN v
          BY <3>2, <3>3, <4>3
        <5>2. part[p] \in 1 .. k - 1
          BY <3>1, <5>1 DEF LaidBy
        <5> QED BY <3>4, <4>3, <5>2
      <4>4. CASE ~(p <= n)
        BY <3>2, <3>6, <4>1, <4>4
      <4> QED BY <3>2, <4>1, <4>2, <4>3, <4>4
    <3>7. ASSUME NEW a \in 1 .. k, NEW o \in DOMAIN s[a]
          PROVE  \E p \in DOMAIN w : part2[p] = a /\ at2[p] = o
      <4>1. CASE a = k
        <5>1. o + n \in DOMAIN w /\ ~(o + n <= n) /\ (o + n) - n = o
          BY <3>2, <3>3, <3>4, <4>1
        <5> QED BY <4>1, <5>1
      <4>2. CASE a # k
        <5>1. PICK p \in DOMAIN v : part[p] = a /\ at[p] = o
          BY <3>1, <3>4, <4>2 DEF LaidBy
        <5>2. p \in DOMAIN w /\ p <= n
          BY <3>2, <3>3
        <5> QED BY <5>1, <5>2
      <4> QED BY <4>1, <4>2
    <3> HIDE DEF part2, at2
    <3>8. LaidBy(s, k, w, part2, at2)
      BY <3>5, <3>6, <3>7 DEF LaidBy
    <3> QED BY <3>3, <3>8 DEF Laid, w, t
  <2>3. Len(s) \in Nat \ {0}
    BY <1>1, <1>3
  <2>4. \A k \in 2 .. Len(s) : \A v : Laid(s, k - 1, v) => Laid(s, k, v \o s[k])
    BY <2>2
  <2>5. Flattening!FlattenSeq(s) = FlattenSeq(s)
    BY DEF Flattening!FlattenSeq, FlattenSeq
  <2> QED BY ONLY <2>1, <2>3, <2>4, <2>5, Flattening!FlattenKeeps
<1> QED BY <1>2, <1>3

\* It has the elements that they have.
LEMMA FlattenRange ==
  ASSUME NEW s, IsSequence(s), \A k \in DOMAIN s : IsSequence(s[k])
  PROVE  /\ IsSequence(FlattenSeq(s))
         /\ Range(FlattenSeq(s)) = UNION {Range(s[k]) : k \in DOMAIN s}
<1> DEFINE f == FlattenSeq(s)
<1>1. DOMAIN s = 1 .. Len(s)
  BY SequenceDomain
<1>2. IsSequence(f) /\ \E part, at : LaidBy(s, Len(s), f, part, at)
  BY FlattenLaid DEF Laid
<1>3. PICK part, at : LaidBy(s, Len(s), f, part, at)
  BY <1>2
<1> HIDE DEF f
<1>4. ASSUME NEW x \in Range(f) PROVE x \in UNION {Range(s[k]) : k \in DOMAIN s}
  <2>1. PICK p \in DOMAIN f : x = f[p]
    BY DEF Range
  <2>2. part[p] \in DOMAIN s /\ x \in Range(s[part[p]])
    BY <1>1, <1>3, <2>1 DEF LaidBy, Range
  <2> QED BY <2>2
<1>5. ASSUME NEW k \in DOMAIN s, NEW x \in Range(s[k]) PROVE x \in Range(f)
  <2>1. PICK o \in DOMAIN s[k] : x = s[k][o]
    BY DEF Range
  <2>2. PICK p \in DOMAIN f : part[p] = k /\ at[p] = o
    BY <1>1, <1>3 DEF LaidBy
  <2>3. f[p] = x
    BY <1>3, <2>1, <2>2 DEF LaidBy
  <2> QED BY <2>3 DEF Range
<1>6. Range(f) = UNION {Range(s[k]) : k \in DOMAIN s}
  BY <1>4, <1>5
<1> QED BY <1>2, <1>6 DEF f

\* A sequence that is not empty has a first and a last element.
LEMMA NotEmpty ==
  ASSUME NEW s, IsSequence(s), s # <<>>
  PROVE  Len(s) \in Nat \ {0} /\ 1 \in DOMAIN s /\ Len(s) \in DOMAIN s /\ Range(s) # {}
<1>1. Len(s) \in Nat /\ DOMAIN s = 1 .. Len(s) /\ s \in Seq(Range(s))
  BY SequenceDomain DEF IsSequence
<1>2. Len(s) # 0
  BY <1>1
<1> QED BY <1>1, <1>2 DEF Range

\* What FlattenSeq makes the elements of a sequence out of that are in a set.
Kept(s, T) == [k \in DOMAIN s |-> IF s[k] \in T THEN <<s[k]>> ELSE <<>>]

\* Those elements of a sequence that are in a set.
LEMMA Filtered ==
  ASSUME NEW s, IsSequence(s), NEW T, NEW f, f = Kept(s, T)
  PROVE  IsSequence(FlattenSeq(f)) /\ Range(FlattenSeq(f)) = Range(s) \cap T
<1>1. Len(s) \in Nat /\ DOMAIN s = 1 .. Len(s)
  BY SequenceDomain
<1>2. IsSequence(f) /\ DOMAIN f = DOMAIN s
  BY <1>1, MakeSequence DEF Kept
<1>3. IsSequence(<<>>) /\ Range(<<>>) = {}
  BY DEF IsSequence, Range
<1>4. \A k \in DOMAIN s : /\ IsSequence(f[k])
                          /\ Range(f[k]) = IF s[k] \in T THEN {s[k]} ELSE {}
  BY <1>3, SingletonSequence DEF Kept
<1>5. \A k \in DOMAIN f : IsSequence(f[k])
  BY <1>2, <1>4
<1>6. IsSequence(FlattenSeq(f)) /\ Range(FlattenSeq(f)) = UNION {Range(f[k]) : k \in DOMAIN f}
  BY ONLY <1>2, <1>5, FlattenRange
<1> DEFINE all  == UNION {Range(f[k]) : k \in DOMAIN f}
           both == {s[k] : k \in DOMAIN s} \cap T
<1>7. all = both
  <2>1. ASSUME NEW x \in all PROVE x \in both
    <3>1. PICK k \in DOMAIN f : x \in Range(f[k])
      OBVIOUS
    <3>2. k \in DOMAIN s /\ Range(f[k]) = IF s[k] \in T THEN {s[k]} ELSE {}
      BY <1>2, <1>4
    <3>3. s[k] \in T /\ x = s[k]
      BY <3>1, <3>2
    <3> QED BY <3>2, <3>3
  <2>2. ASSUME NEW x \in both PROVE x \in all
    <3>1. PICK k \in DOMAIN s : x = s[k] /\ x \in T
      OBVIOUS
    <3>2. x \in Range(f[k]) /\ k \in DOMAIN f
      BY <1>2, <1>4, <3>1
    <3> QED BY <3>2
  <2> HIDE DEF all, both
  <2> QED BY <2>1, <2>2
<1> QED BY <1>6, <1>7 DEF Range

-----------------------------------------------------------------------------
(* Totals.                                                                 *)

\* S has the totals of the beginnings of f.
Partial(f, n, S) == S[0] = 0 /\ \A k \in 1 .. n : S[k] = S[k - 1] + f[k]
Counts(f)        == IsSequence(f) /\ \A k \in DOMAIN f : f[k] \in Nat

AddNext(S, v, x)  == Plus(v, x)
SumAt(S, k, v)    == v = S[k]
Totals == INSTANCE FoldFacts WITH Op <- AddNext, Inv <- SumAt

\* They determine the total.
LEMMA TotalIs ==
  ASSUME NEW f, NEW n \in Nat, DOMAIN f = 1 .. n, NEW S, Partial(f, n, S)
  PROVE  Total(f) = S[n]
<1>1. SumAt(S, 0, 0)
  BY DEF Partial, SumAt
<1>2. \A k \in 1 .. n : \A v : SumAt(S, k - 1, v) => SumAt(S, k, AddNext(S, v, f[k]))
  BY DEF Partial, SumAt, AddNext, Plus
<1>3. Totals!FromLeft(S, 0, f) = Total(f)
  BY DEF Totals!FromLeft, Totals!FoldLeft, Totals!MapThenFoldSet, Totals!Max, AddNext,
         Total, FoldLeft, MapThenFoldSet, Max
<1>4. SumAt(S, n, Totals!FromLeft(S, 0, f))
  BY ONLY <1>1, <1>2, n \in Nat, DOMAIN f = 1 .. n, Totals!FoldLeftKeeps
<1> QED BY <1>3, <1>4 DEF SumAt

\* They exist.
LEMMA TotalPartial ==
  ASSUME NEW f, Counts(f)
  PROVE  /\ \E S : Partial(f, Len(f), S) /\ (\A k \in 0 .. Len(f) : S[k] \in Nat) /\ Total(f) = S[Len(f)]
         /\ Total(f) \in Nat
<1> DEFINE n == Len(f)
           Good(k, S) == Partial(f, k, S) /\ \A j \in 0 .. k : S[j] \in Nat
           P == {k \in 0 .. n : \E S : Good(k, S)}
<1>1. n \in Nat /\ DOMAIN f = 1 .. n /\ \A k \in 1 .. n : f[k] \in Nat
  BY SequenceDomain DEF Counts
<1> HIDE DEF n
<1>2. 0 \in P
  <2> DEFINE S == [j \in {0} |-> 0]
  <2>1. Good(0, S)
    BY DEF Partial
  <2> HIDE DEF Good, S
  <2> QED BY <1>1, <2>1
<1>3. ASSUME NEW k \in 1 .. n, k - 1 \in P PROVE k \in P
  <2>1. PICK S : Good(k - 1, S)
    BY <1>3
  <2> DEFINE R == [j \in 0 .. k |-> IF j = k THEN S[k - 1] + f[k] ELSE S[j]]
  <2>2. k - 1 \in 0 .. k /\ k # k - 1 /\ k \in 0 .. k /\ 0 \in 0 .. k /\ k # 0 /\ k \in 0 .. n
        /\ k - 1 \in 0 .. k - 1 /\ 0 \in 0 .. k - 1
    BY <1>1
  <2>3. \A j \in 0 .. k - 1 : R[j] = S[j] /\ S[j] \in Nat
    BY <2>1, <1>1
  <2>4. R[k] = S[k - 1] + f[k]
    BY <2>2
  <2> HIDE DEF R
  <2>5. R[k] \in Nat
    BY <1>1, <2>2, <2>3, <2>4
  <2>6. \A j \in 0 .. k : R[j] \in Nat
    BY <1>1, <2>3, <2>5
  <2>7. ASSUME NEW j \in 1 .. k PROVE R[j] = R[j - 1] + f[j]
    <3>1. CASE j = k
      BY <2>2, <2>3, <2>4, <3>1
    <3>2. CASE j # k
      <4>1. j \in 1 .. k - 1 /\ j \in 0 .. k - 1 /\ j - 1 \in 0 .. k - 1
        BY <1>1, <3>2
      <4>2. S[j] = S[j - 1] + f[j]
        BY <2>1, <4>1 DEF Partial
      <4> QED BY <2>3, <4>1, <4>2
    <3> QED BY <3>1, <3>2
  <2>8. R[0] = 0
    BY <2>1, <2>2, <2>3 DEF Partial
  <2>9. Good(k, R)
    BY <2>6, <2>7, <2>8 DEF Partial
  <2> HIDE DEF Good
  <2> QED BY <2>2, <2>9
<1>4. n \in P
  <2> HIDE DEF P
  <2>1. \A k \in 0 .. n : k \in P
    BY <1>1, <1>2, <1>3, Totals!UpTo
  <2> QED BY <1>1, <2>1
<1>5. PICK S : Good(n, S)
  BY <1>4
<1>6. Total(f) = S[n]
  BY <1>1, <1>5, TotalIs
<1> QED BY <1>1, <1>5, <1>6 DEF n

\* The total of nothing, and of one number.
LEMMA TotalOne ==
  /\ Total(<<>>) = 0
  /\ \A x \in Nat : Total(<<x>>) = x
<1>1. Total(<<>>) = 0
  <2> DEFINE S == [j \in {0} |-> 0]
  <2>1. Partial(<<>>, 0, S) /\ S[0] = 0
    BY DEF Partial
  <2>2. DOMAIN <<>> = 1 .. 0
    OBVIOUS
  <2> HIDE DEF S
  <2> QED BY <2>1, <2>2, TotalIs
<1>2. ASSUME NEW x \in Nat PROVE Total(<<x>>) = x
  <2> DEFINE S == [j \in 0 .. 1 |-> IF j = 0 THEN 0 ELSE x]
             f == <<x>>
  <2>1. S[0] = 0 /\ S[1] = x /\ f[1] = x /\ DOMAIN f = 1 .. 1
    OBVIOUS
  <2> HIDE DEF S, f
  <2>2. Partial(f, 1, S)
    BY <2>1 DEF Partial
  <2>3. Total(f) = S[1]
    BY <2>1, <2>2, TotalIs
  <2> QED BY <2>1, <2>3 DEF f
<1> QED BY <1>1, <1>2

\* Sequences over the same places have the same length.
LEMMA SameLength ==
  ASSUME NEW s, NEW t, IsSequence(s), IsSequence(t), DOMAIN s = DOMAIN t
  PROVE  Len(s) = Len(t)
<1>1. /\ Len(s) \in Nat /\ DOMAIN s = 1 .. Len(s)
      /\ Len(t) \in Nat /\ DOMAIN t = 1 .. Len(t)
  BY SequenceDomain
<1>2. \A m, n \in Nat : 1 .. m = 1 .. n => m = n
  <2>1. \A m, n \in Nat : m < n => n \in 1 .. n /\ n \notin 1 .. m
    OBVIOUS
  <2> QED BY <2>1
<1>3. 1 .. Len(s) = 1 .. Len(t)
  BY <1>1
<1> QED BY <1>1, <1>2, <1>3

\* Numbers put behind others.
LEMMA TotalConcat ==
  ASSUME NEW f, Counts(f), NEW g, Counts(g),
         NEW h, DOMAIN h = 1 .. Len(f) + Len(g),
         \A k \in DOMAIN h : h[k] = IF k <= Len(f) THEN f[k] ELSE g[k - Len(f)]
  PROVE  Total(h) = Total(f) + Total(g)
<1> DEFINE m == Len(f)
           n == Len(g)
<1>1. /\ m \in Nat /\ DOMAIN f = 1 .. m /\ \A k \in 1 .. m : f[k] \in Nat
      /\ n \in Nat /\ DOMAIN g = 1 .. n /\ \A k \in 1 .. n : g[k] \in Nat
  BY SequenceDomain DEF Counts
<1>2. PICK S : Partial(f, m, S) /\ (\A k \in 0 .. m : S[k] \in Nat) /\ Total(f) = S[m]
  BY TotalPartial
<1>3. PICK T : Partial(g, n, T) /\ (\A k \in 0 .. n : T[k] \in Nat) /\ Total(g) = T[n]
  BY TotalPartial
<1>4. DOMAIN h = 1 .. m + n /\ \A k \in 1 .. m + n : h[k] = IF k <= m THEN f[k] ELSE g[k - m]
  OBVIOUS
<1> HIDE DEF m, n
<1> DEFINE R == [k \in 0 .. m + n |-> IF k <= m THEN S[k] ELSE S[m] + T[k - m]]
<1>5. \A k \in 0 .. m : k \in 0 .. m + n /\ R[k] = S[k]
  BY <1>1
<1>6. \A k \in 0 .. n : R[m + k] = S[m] + T[k]
  <2> SUFFICES ASSUME NEW k \in 0 .. n PROVE R[m + k] = S[m] + T[k]
    OBVIOUS
  <2>1. m + k \in 0 .. m + n /\ (m + k) - m = k
    BY <1>1
  <2>2. CASE k = 0
    <3>1. m \in 0 .. m /\ m + k = m /\ S[m] \in Nat /\ T[0] = 0
      BY <1>1, <1>2, <1>3, <2>2 DEF Partial
    <3> QED BY <1>5, <2>2, <3>1
  <2>3. CASE k # 0
    <3>1. ~(m + k <= m)
      BY <1>1, <2>3
    <3> QED BY <2>1, <3>1
  <2> QED BY <2>2, <2>3
<1> HIDE DEF R
<1>7. ASSUME NEW k \in 1 .. m + n PROVE R[k] = R[k - 1] + h[k]
  <2>1. CASE k <= m
    <3>1. k \in 1 .. m /\ k \in 0 .. m /\ k - 1 \in 0 .. m
      BY <1>1, <2>1
    <3>2. S[k] = S[k - 1] + f[k]
      BY <1>2, <3>1 DEF Partial
    <3> QED BY <1>4, <1>5, <2>1, <3>1, <3>2
  <2>2. CASE ~(k <= m)
    <3>1. /\ k - m \in 1 .. n /\ k - m \in 0 .. n /\ (k - m) - 1 \in 0 .. n
          /\ m + (k - m) = k /\ m + ((k - m) - 1) = k - 1
      BY <1>1, <2>2
    <3>2. T[k - m] = T[(k - m) - 1] + g[k - m]
      BY <1>3, <3>1 DEF Partial
    <3>3. R[k] = S[m] + T[k - m] /\ R[k - 1] = S[m] + T[(k - m) - 1]
      BY <1>6, <3>1
    <3>4. h[k] = g[k - m]
      BY <1>4, <2>2
    <3>5. S[m] \in Nat /\ T[(k - m) - 1] \in Nat /\ g[k - m] \in Nat
      BY <1>1, <1>2, <1>3, <3>1
    <3> QED BY <3>2, <3>3, <3>4, <3>5
  <2> QED BY <2>1, <2>2
<1>8. R[0] = 0
  BY <1>1, <1>2, <1>5 DEF Partial
<1>9. Total(h) = R[m + n]
  <2>1. Partial(h, m + n, R) /\ m + n \in Nat
    BY <1>1, <1>7, <1>8 DEF Partial
  <2> QED BY <1>4, <2>1, TotalIs
<1>10. R[m + n] = S[m] + T[n]
  BY <1>1, <1>6
<1> QED BY <1>2, <1>3, <1>9, <1>10

\* One number more.
LEMMA TotalAppend ==
  ASSUME NEW f, Counts(f), NEW x \in Nat
  PROVE  Counts(Append(f, x)) /\ Total(Append(f, x)) = Total(f) + x
<1> DEFINE h == Append(f, x)
           n == Len(f)
           g == <<x>>
<1>1. n \in Nat /\ DOMAIN f = 1 .. n /\ \A k \in 1 .. n : f[k] \in Nat
  BY SequenceDomain DEF Counts
<1>2. /\ IsSequence(h) /\ DOMAIN h = 1 .. n + 1 /\ \A k \in 1 .. n : h[k] = f[k]
      /\ h[n + 1] = x
  <2>1. f \in Seq(Nat)
    BY <1>1, SequenceFrom, SequenceDomain DEF Counts
  <2>2. h \in Seq(Nat)
    BY <2>1
  <2>3. IsSequence(h)
    BY <2>2, SequenceOver
  <2> QED BY <2>1, <2>3
<1>3. Counts(g) /\ Len(g) = 1 /\ g[1] = x /\ Total(g) = x
  BY SingletonSequence, TotalOne DEF Counts
<1> HIDE DEF h, g, n
<1>4. ASSUME NEW k \in DOMAIN h
      PROVE  h[k] \in Nat /\ h[k] = IF k <= n THEN f[k] ELSE g[k - n]
  <2>1. CASE k <= n
    <3>1. k \in 1 .. n
      BY <1>1, <1>2, <2>1
    <3> QED BY <1>1, <1>2, <2>1, <3>1
  <2>2. CASE ~(k <= n)
    <3>1. k = n + 1 /\ k - n = 1
      BY <1>1, <1>2, <2>2
    <3> QED BY <1>2, <1>3, <2>2, <3>1
  <2> QED BY <2>1, <2>2
<1>5. DOMAIN h = 1 .. Len(f) + Len(g) /\ \A k \in DOMAIN h : h[k] = IF k <= Len(f) THEN f[k] ELSE g[k - Len(f)]
  BY <1>2, <1>3, <1>4 DEF n
<1>6. Total(h) = Total(f) + Total(g)
  BY ONLY Counts(f), <1>3, <1>5, TotalConcat
<1>7. Counts(h)
  BY <1>2, <1>4 DEF Counts
<1> QED BY <1>3, <1>6, <1>7 DEF h

\* Numbers added one by one.
LEMMA TotalSum ==
  ASSUME NEW f, Counts(f), NEW g, Counts(g), DOMAIN g = DOMAIN f,
         NEW h, DOMAIN h = DOMAIN f, \A k \in DOMAIN f : h[k] = f[k] + g[k]
  PROVE  Total(h) = Total(f) + Total(g)
<1>1. PICK n \in Nat : n = Len(f) /\ DOMAIN f = 1 .. n /\ DOMAIN g = 1 .. n /\ DOMAIN h = 1 .. n
  BY SequenceDomain DEF Counts
<1>2. PICK S : Partial(f, n, S) /\ (\A k \in 0 .. n : S[k] \in Nat) /\ Total(f) = S[n]
  BY <1>1, TotalPartial
<1>3. Len(g) = n
  BY <1>1, SameLength DEF Counts
<1>4. PICK T : Partial(g, n, T) /\ (\A k \in 0 .. n : T[k] \in Nat) /\ Total(g) = T[n]
  BY <1>3, TotalPartial
<1> DEFINE R == [k \in 0 .. n |-> S[k] + T[k]]
<1>5. \A k \in 0 .. n : R[k] = S[k] + T[k]
  OBVIOUS
<1> HIDE DEF R
<1>6. ASSUME NEW k \in 1 .. n PROVE R[k] = R[k - 1] + h[k]
  <2>1. k \in 0 .. n /\ k - 1 \in 0 .. n
    BY <1>1
  <2>2. S[k] = S[k - 1] + f[k] /\ T[k] = T[k - 1] + g[k]
    BY <1>2, <1>4 DEF Partial
  <2>3. f[k] \in Nat /\ g[k] \in Nat /\ h[k] = f[k] + g[k]
    BY <1>1 DEF Counts
  <2>4. S[k - 1] \in Nat /\ T[k - 1] \in Nat
    BY <1>2, <1>4, <2>1
  <2> QED BY <1>5, <2>1, <2>2, <2>3, <2>4
<1>7. R[0] = 0
  BY <1>1, <1>2, <1>4, <1>5 DEF Partial
<1>8. Total(h) = R[n]
  <2>1. Partial(h, n, R)
    BY <1>6, <1>7 DEF Partial
  <2> QED BY <1>1, <2>1, TotalIs
<1> QED BY <1>1, <1>2, <1>4, <1>5, <1>8

\* The total of three numbers.
LEMMA TotalThree ==
  ASSUME NEW f, DOMAIN f = 1 .. 3, f[1] \in Nat, f[2] \in Nat, f[3] \in Nat
  PROVE  Total(f) = (f[1] + f[2]) + f[3]
<1> DEFINE S == [k \in 0 .. 3 |-> IF k = 0 THEN 0 ELSE IF k = 1 THEN f[1]
                                  ELSE IF k = 2 THEN f[1] + f[2] ELSE (f[1] + f[2]) + f[3]]
<1>1. S[0] = 0 /\ S[1] = f[1] /\ S[2] = f[1] + f[2] /\ S[3] = (f[1] + f[2]) + f[3]
  OBVIOUS
<1> HIDE DEF S
<1>2. \A k \in 1 .. 3 : S[k] = S[k - 1] + f[k]
  <2>1. S[1] = S[1 - 1] + f[1]
    BY <1>1
  <2>2. S[2] = S[2 - 1] + f[2]
    BY <1>1
  <2>3. S[3] = S[3 - 1] + f[3]
    BY <1>1
  <2> QED BY <2>1, <2>2, <2>3
<1>3. Partial(f, 3, S)
  BY <1>1, <1>2 DEF Partial
<1>4. Total(f) = S[3]
  BY <1>3, TotalIs
<1> QED BY <1>1, <1>4

\* Equal numbers.
LEMMA TotalConstant ==
  ASSUME NEW f, NEW n \in Nat, DOMAIN f = 1 .. n, NEW x \in Nat, \A k \in 1 .. n : f[k] = x
  PROVE  Total(f) = n * x
<1> DEFINE S == [k \in 0 .. n |-> k * x]
<1>1. \A k \in 0 .. n : S[k] = k * x
  OBVIOUS
<1> HIDE DEF S
<1>2. ASSUME NEW k \in 1 .. n PROVE S[k] = S[k - 1] + f[k]
  <2>1. k \in 0 .. n /\ k - 1 \in 0 .. n
    OBVIOUS
  <2>2. k * x = (k - 1) * x + x
    OBVIOUS
  <2> QED BY <1>1, <2>1, <2>2
<1>3. S[0] = 0 /\ n \in 0 .. n
  BY <1>1
<1>4. Partial(f, n, S)
  BY <1>2, <1>3 DEF Partial
<1> QED BY <1>1, <1>3, <1>4, TotalIs

-----------------------------------------------------------------------------
(* The total weight of a sequence, for a function that weighs its elements. *)

Weigh(s, w)  == Total([k \in DOMAIN s |-> w[s[k]]])
Weighs(s, w) == IsSequence(s) /\ \A k \in DOMAIN s : w[s[k]] \in Nat

\* The weights are numbers.
LEMMA WeighCounts ==
  ASSUME NEW s, NEW w, Weighs(s, w)
  PROVE  LET f == [k \in DOMAIN s |-> w[s[k]]]
         IN  Counts(f) /\ Len(f) = Len(s) /\ DOMAIN f = DOMAIN s /\ Weigh(s, w) \in Nat
<1> DEFINE f == [k \in DOMAIN s |-> w[s[k]]]
<1>1. Len(s) \in Nat /\ DOMAIN s = 1 .. Len(s)
  BY SequenceDomain DEF Weighs
<1>2. DOMAIN f = 1 .. Len(s) /\ f = [k \in 1 .. Len(s) |-> f[k]] /\ \A k \in DOMAIN f : f[k] \in Nat
  BY <1>1 DEF Weighs
<1>3. Weigh(s, w) = Total(f)
  BY DEF Weigh
<1>4. DOMAIN f = DOMAIN s
  OBVIOUS
<1> HIDE DEF f
<1>5. IsSequence(f) /\ Len(f) = Len(s)
  BY <1>1, <1>2, MakeSequence
<1>6. Counts(f)
  BY <1>2, <1>5 DEF Counts
<1>7. Total(f) \in Nat
  BY <1>6, TotalPartial
<1>8. Counts(f) /\ Len(f) = Len(s) /\ DOMAIN f = DOMAIN s /\ Weigh(s, w) \in Nat
  BY <1>3, <1>4, <1>5, <1>6, <1>7
<1> QED BY <1>8 DEF f

\* Of nothing, and of one element.
LEMMA WeighOne ==
  ASSUME NEW w
  PROVE  /\ Weighs(<<>>, w) /\ Weigh(<<>>, w) = 0
         /\ \A x : w[x] \in Nat => Weighs(<<x>>, w) /\ Weigh(<<x>>, w) = w[x]
<1>1. Weighs(<<>>, w) /\ Weigh(<<>>, w) = 0
  <2>1. [k \in DOMAIN <<>> |-> w[<<>>[k]]] = <<>>
    OBVIOUS
  <2>2. IsSequence(<<>>)
    BY DEF IsSequence
  <2> QED BY <2>1, <2>2, TotalOne DEF Weigh, Weighs
<1>2. ASSUME NEW x, w[x] \in Nat PROVE Weighs(<<x>>, w) /\ Weigh(<<x>>, w) = w[x]
  <2>1. [k \in DOMAIN <<x>> |-> w[<<x>>[k]]] = <<w[x]>>
    OBVIOUS
  <2>2. IsSequence(<<x>>) /\ DOMAIN <<x>> = {1} /\ <<x>>[1] = x
    BY SingletonSequence
  <2>3. Total(<<w[x]>>) = w[x]
    BY <1>2, TotalOne
  <2>4. Weigh(<<x>>, w) = w[x]
    BY <2>1, <2>3 DEF Weigh
  <2> QED BY <1>2, <2>2, <2>4 DEF Weighs
<1> QED BY <1>1, <1>2

\* Of two sequences.
LEMMA WeighConcat ==
  ASSUME NEW s, NEW t, NEW w, Weighs(s, w), Weighs(t, w)
  PROVE  Weighs(s \o t, w) /\ Weigh(s \o t, w) = Weigh(s, w) + Weigh(t, w)
<1> DEFINE f == [k \in DOMAIN s |-> w[s[k]]]
           g == [k \in DOMAIN t |-> w[t[k]]]
           v == s \o t
           h == [k \in DOMAIN v |-> w[v[k]]]
<1>1. /\ Counts(f) /\ Len(f) = Len(s) /\ DOMAIN f = DOMAIN s
      /\ Counts(g) /\ Len(g) = Len(t) /\ DOMAIN g = DOMAIN t
  BY WeighCounts
<1>2. /\ IsSequence(v) /\ DOMAIN v = 1 .. Len(s) + Len(t)
      /\ \A k \in 1 .. Len(s) + Len(t) : v[k] = IF k <= Len(s) THEN s[k] ELSE t[k - Len(s)]
  BY ConcatSequence DEF Weighs
<1>3. /\ Len(s) \in Nat /\ DOMAIN s = 1 .. Len(s) /\ \A k \in 1 .. Len(s) : f[k] = w[s[k]] /\ f[k] \in Nat
      /\ Len(t) \in Nat /\ DOMAIN t = 1 .. Len(t) /\ \A k \in 1 .. Len(t) : g[k] = w[t[k]] /\ g[k] \in Nat
  BY SequenceDomain DEF Weighs
<1>4. DOMAIN h = DOMAIN v /\ \A k \in DOMAIN v : h[k] = w[v[k]]
  OBVIOUS
<1>5. Weigh(s, w) = Total(f) /\ Weigh(t, w) = Total(g) /\ Weigh(v, w) = Total(h)
  BY DEF Weigh
<1> HIDE DEF f, g, h, v
<1>6. ASSUME NEW k \in DOMAIN h
      PROVE  h[k] = (IF k <= Len(f) THEN f[k] ELSE g[k - Len(f)]) /\ h[k] \in Nat
  <2>1. k \in 1 .. Len(s) + Len(t) /\ h[k] = w[v[k]]
    BY <1>2, <1>4
  <2>2. CASE k <= Len(s)
    <3>1. k \in 1 .. Len(s)
      BY <1>3, <2>1, <2>2
    <3> QED BY <1>1, <1>2, <1>3, <2>1, <2>2, <3>1
  <2>3. CASE ~(k <= Len(s))
    <3>1. k - Len(s) \in 1 .. Len(t)
      BY <1>3, <2>1, <2>3
    <3> QED BY <1>1, <1>2, <1>3, <2>1, <2>3, <3>1
  <2> QED BY <2>2, <2>3
<1>7. DOMAIN h = 1 .. Len(f) + Len(g)
  BY <1>1, <1>2, <1>4
<1>8. Total(h) = Total(f) + Total(g)
  BY ONLY <1>1, <1>6, <1>7, TotalConcat
<1>9. Weighs(v, w)
  BY <1>2, <1>4, <1>6 DEF Weighs
<1> QED BY <1>5, <1>8, <1>9 DEF v

\* Of a sequence with one element more.
LEMMA WeighAppend ==
  ASSUME NEW s, NEW w, Weighs(s, w), NEW x, w[x] \in Nat
  PROVE  Weighs(Append(s, x), w) /\ Weigh(Append(s, x), w) = Weigh(s, w) + w[x]
<1>1. Append(s, x) = s \o <<x>>
  <2>1. s \in Seq(Range(s))
    BY DEF Weighs, IsSequence
  <2> QED BY <2>1
<1>2. Weighs(<<x>>, w) /\ Weigh(<<x>>, w) = w[x]
  BY WeighOne
<1> QED BY <1>1, <1>2, WeighConcat

\* Of the beginnings of a sequence.
LEMMA WeighPartial ==
  ASSUME NEW s, NEW w, Weighs(s, w)
  PROVE  \E S : /\ S[0] = 0 /\ \A k \in 1 .. Len(s) : S[k] = S[k - 1] + w[s[k]]
                /\ \A k \in 0 .. Len(s) : S[k] \in Nat
                /\ Weigh(s, w) = S[Len(s)]
<1> DEFINE f == [k \in DOMAIN s |-> w[s[k]]]
<1>1. Counts(f) /\ Len(f) = Len(s) /\ DOMAIN f = DOMAIN s
  BY WeighCounts
<1>2. DOMAIN s = 1 .. Len(s) /\ \A k \in DOMAIN s : f[k] = w[s[k]]
  BY SequenceDomain DEF Weighs
<1>3. Weigh(s, w) = Total(f)
  BY DEF Weigh
<1> HIDE DEF f
<1>4. PICK S : Partial(f, Len(f), S) /\ (\A k \in 0 .. Len(f) : S[k] \in Nat) /\ Total(f) = S[Len(f)]
  BY <1>1, TotalPartial
<1>5. /\ S[0] = 0 /\ \A k \in 1 .. Len(s) : S[k] = S[k - 1] + w[s[k]]
      /\ \A k \in 0 .. Len(s) : S[k] \in Nat
      /\ Weigh(s, w) = S[Len(s)]
  BY <1>1, <1>2, <1>3, <1>4 DEF Partial
<1> QED BY <1>5

WeighedTo(c, k, v) == Weighs(v, c.w) /\ Weigh(v, c.w) = c.S[k]
WeighedParts == INSTANCE FoldFacts WITH Op <- NoFold, Inv <- WeighedTo

\* Of parts that are put together.
LEMMA WeighFlatten ==
  ASSUME NEW s, IsSequence(s), NEW w, \A k \in DOMAIN s : Weighs(s[k], w)
  PROVE  /\ Weighs(FlattenSeq(s), w)
         /\ Weigh(FlattenSeq(s), w) = Total([k \in DOMAIN s |-> Weigh(s[k], w)])
<1> DEFINE f == [k \in DOMAIN s |-> Weigh(s[k], w)]
<1>1. Len(s) \in Nat /\ DOMAIN s = 1 .. Len(s)
  BY SequenceDomain
<1>2. DOMAIN f = 1 .. Len(s) /\ f = [k \in 1 .. Len(s) |-> f[k]]
      /\ \A k \in DOMAIN s : f[k] = Weigh(s[k], w)
  BY <1>1
<1> HIDE DEF f
<1>3. \A k \in DOMAIN f : f[k] \in Nat
  <2>1. \A k \in DOMAIN s : Weigh(s[k], w) \in Nat
    BY WeighCounts
  <2> QED BY <1>1, <1>2, <2>1
<1>4. IsSequence(f) /\ Len(f) = Len(s)
  BY <1>1, <1>2, MakeSequence
<1>5. Counts(f)
  BY <1>3, <1>4 DEF Counts
<1>6. CASE Len(s) = 0
  <2>1. s = <<>> /\ f = <<>>
    BY <1>1, <1>2, <1>4, <1>6 DEF IsSequence
  <2>2. FlattenSeq(s) = <<>>
    BY <2>1 DEF FlattenSeq
  <2> QED BY <2>1, <2>2, WeighOne, TotalOne DEF f
<1>7. CASE Len(s) # 0
  <2> DEFINE n == Len(s)
  <2>1. PICK S : Partial(f, n, S) /\ (\A k \in 0 .. n : S[k] \in Nat) /\ Total(f) = S[n]
    BY <1>4, <1>5, TotalPartial
  <2> DEFINE c == [w |-> w, S |-> S]
  <2>2. n \in Nat \ {0} /\ 1 \in 1 .. n /\ c.w = w /\ c.S = S
    BY <1>1, <1>7
  <2> HIDE DEF c
  <2>3. WeighedTo(c, 1, s[1])
    <3>1. S[1] = S[0] + f[1] /\ S[0] = 0 /\ f[1] \in Nat
      BY <1>1, <1>2, <1>3, <2>1, <2>2 DEF Partial
    <3>2. Weighs(s[1], w) /\ f[1] = Weigh(s[1], w)
      BY <1>1, <1>2, <2>2
    <3> QED BY <2>2, <3>1, <3>2 DEF WeighedTo
  <2>4. ASSUME NEW k \in 2 .. n, NEW v, WeighedTo(c, k - 1, v) PROVE WeighedTo(c, k, v \o s[k])
    <3>1. k \in 1 .. n
      BY <2>2
    <3>2. S[k] = S[k - 1] + f[k] /\ f[k] = Weigh(s[k], w) /\ Weighs(s[k], w)
      BY <1>1, <1>2, <2>1, <3>1 DEF Partial
    <3>3. Weighs(v, w) /\ Weigh(v, w) = S[k - 1]
      BY <2>2, <2>4 DEF WeighedTo
    <3>4. Weighs(v \o s[k], w) /\ Weigh(v \o s[k], w) = Weigh(v, w) + Weigh(s[k], w)
      BY <3>2, <3>3, WeighConcat
    <3> QED BY <2>2, <3>2, <3>3, <3>4 DEF WeighedTo
  <2>5. n = Len(s)
    OBVIOUS
  <2> HIDE DEF n
  <2>6. WeighedTo(c, n, FlattenSeq(s))
    <3>1. \A k \in 2 .. n : \A v : WeighedTo(c, k - 1, v) => WeighedTo(c, k, v \o s[k])
      BY <2>4
    <3>2. WeighedParts!FlattenSeq(s) = FlattenSeq(s)
      BY DEF WeighedParts!FlattenSeq, FlattenSeq
    <3> QED BY ONLY <2>2, <2>3, <2>5, <3>1, <3>2, WeighedParts!FlattenKeeps
  <2> QED BY <2>1, <2>2, <2>6 DEF WeighedTo, f
<1> QED BY <1>1, <1>6, <1>7

\* Those elements of a sequence that are in a set.
LEMMA FilteredWeigh ==
  ASSUME NEW s, NEW w, Weighs(s, w), NEW T, NEW f, f = Kept(s, T)
  PROVE  /\ Weighs(FlattenSeq(f), w)
         /\ Weigh(FlattenSeq(f), w) = Total([k \in DOMAIN s |-> IF s[k] \in T THEN w[s[k]] ELSE 0])
<1>1. IsSequence(s) /\ Len(s) \in Nat /\ DOMAIN s = 1 .. Len(s) /\ \A k \in DOMAIN s : w[s[k]] \in Nat
  BY SequenceDomain DEF Weighs
<1>2. IsSequence(f) /\ DOMAIN f = DOMAIN s
  BY <1>1, MakeSequence DEF Kept
<1>3. ASSUME NEW k \in DOMAIN s
      PROVE  Weighs(f[k], w) /\ Weigh(f[k], w) = IF s[k] \in T THEN w[s[k]] ELSE 0
  <2>1. CASE s[k] \in T
    <3>1. f[k] = <<s[k]>>
      BY <2>1 DEF Kept
    <3> QED BY <1>1, <2>1, <3>1, WeighOne
  <2>2. CASE s[k] \notin T
    <3>1. f[k] = <<>>
      BY <2>2 DEF Kept
    <3> QED BY <2>2, <3>1, WeighOne
  <2> QED BY <2>1, <2>2
<1>4. /\ Weighs(FlattenSeq(f), w)
      /\ Weigh(FlattenSeq(f), w) = Total([k \in DOMAIN f |-> Weigh(f[k], w)])
  BY <1>2, <1>3, WeighFlatten
<1>5. [k \in DOMAIN f |-> Weigh(f[k], w)] = [k \in DOMAIN s |-> IF s[k] \in T THEN w[s[k]] ELSE 0]
  BY <1>2, <1>3
<1> QED BY <1>4, <1>5

-----------------------------------------------------------------------------
(* What groups and bundles of groups hold of a class of operations.        *)

\* A sequence that is not empty, without its last element.
LEMMA FrontAndLast ==
  ASSUME NEW A, NEW s \in Seq(A), s # <<>>
  PROVE  Front(s) \in Seq(A) /\ Last(s) \in A /\ s = Append(Front(s), Last(s))
<1>1. Len(s) \in Nat \ {0} /\ DOMAIN s = 1 .. Len(s)
  OBVIOUS
<1>2. Len(s) - 1 \in Nat /\ Len(s) - 1 <= Len(s) /\ Len(s) \in 1 .. Len(s)
  BY <1>1
<1>3. s[Len(s)] \in A
  BY <1>2
<1>4. Front(s) \in Seq(A) /\ Len(Front(s)) = Len(s) - 1 /\ \A k \in 1 .. Len(s) - 1 : Front(s)[k] = s[k]
  BY <1>1, <1>2 DEF Front
<1>5. s = Append(Front(s), Last(s))
  <2> DEFINE t == Append(Front(s), Last(s))
  <2>1. Last(s) = s[Len(s)] /\ Last(s) \in A
    BY <1>3 DEF Last
  <2> DEFINE f == Front(s)
             x == s[Len(s)]
  <2>2. f \in Seq(A) /\ Len(f) + 1 = Len(s) /\ x \in A
    BY <1>1, <1>3, <1>4
  <2>3. Last(s) = x /\ \A k \in 1 .. Len(f) : f[k] = s[k]
    BY <1>1, <1>4, <2>1
  <2> HIDE DEF f, x
  <2>4. /\ Append(f, x) \in Seq(A) /\ Len(Append(f, x)) = Len(f) + 1 /\ Append(f, x)[Len(f) + 1] = x
        /\ \A k \in 1 .. Len(f) : Append(f, x)[k] = f[k]
    BY <2>2
  <2>5. t \in Seq(A) /\ Len(t) = Len(s) /\ \A k \in 1 .. Len(s) : t[k] = s[k]
    <3>1. t = Append(f, x)
      BY <2>3 DEF f
    <3>2. \A k \in 1 .. Len(s) : k = Len(f) + 1 \/ k \in 1 .. Len(f)
      <4> DEFINE n == Len(f)
      <4>1. n \in Nat /\ n + 1 = Len(s)
        BY <2>2
      <4> HIDE DEF n
      <4>2. \A k \in 1 .. n + 1 : k = n + 1 \/ k \in 1 .. n
        BY <4>1
      <4> QED BY <4>1, <4>2 DEF n
    <3>3. s[Len(f) + 1] = x
      BY <2>2 DEF x
    <3> HIDE DEF t
    <3> QED BY <2>2, <2>3, <2>4, <3>1, <3>2, <3>3
  <2> HIDE DEF t
  <2>6. t = s
    BY <2>5
  <2> QED BY <2>6 DEF t
<1> QED BY <1>3, <1>4, <1>5 DEF Last

Groups      == [mask : {"MFMA", "VALU", "TRANS"}, size : Nat]
InClass(m)  == [g \in Groups |-> IF g.mask = m THEN g.size ELSE 0]

\* A group, by its mask and size.
LEMMA GroupOf ==
  /\ \A m : \A g \in Groups : /\ g = [mask |-> g.mask, size |-> g.size]
                              /\ InClass(m)[g] = (IF g.mask = m THEN g.size ELSE 0)
                              /\ InClass(m)[g] \in Nat
  /\ \A mask \in {"MFMA", "VALU", "TRANS"}, size \in Nat :
        Group(mask, size) \in Groups /\ Group(mask, size).mask = mask /\ Group(mask, size).size = size
BY DEF Groups, InClass, Group

\* Some groups can be weighed.
LEMMA GroupsWeigh ==
  ASSUME NEW s \in Seq(Groups), NEW m
  PROVE  Weighs(s, InClass(m)) /\ Weigh(s, InClass(m)) \in Nat
<1>1. IsSequence(s) /\ DOMAIN s = 1 .. Len(s)
  BY SequenceOver, SequenceDomain
<1>2. \A k \in DOMAIN s : s[k] \in Groups
  OBVIOUS
<1>3. Weighs(s, InClass(m))
  BY <1>1, <1>2, GroupOf DEF Weighs
<1> QED BY <1>3, WeighCounts

\* One group more, even if it is joined to the last.
LEMMA AddChunkHolds ==
  ASSUME NEW m, NEW s \in Seq(Groups), NEW g \in Groups
  PROVE  /\ AddChunk(s, g) \in Seq(Groups)
         /\ Weigh(AddChunk(s, g), InClass(m)) = Weigh(s, InClass(m)) + InClass(m)[g]
<1> DEFINE w == InClass(m)
<1>1. \A x \in Groups : w[x] \in Nat
  BY GroupOf
<1>2. CASE s # <<>> /\ Last(s).mask = g.mask
  <2> DEFINE l == Last(s)
             x == [l EXCEPT !.size = @ + g.size]
  <2>1. Front(s) \in Seq(Groups) /\ l \in Groups /\ s = Append(Front(s), l)
    BY <1>2, FrontAndLast
  <2>2. x = Group(l.mask, l.size + g.size) /\ x \in Groups
    <3>1. l = [mask |-> l.mask, size |-> l.size] /\ l.mask \in {"MFMA", "VALU", "TRANS"}
          /\ l.size \in Nat /\ g.size \in Nat
      BY <2>1 DEF Groups
    <3> HIDE DEF l
    <3>2. x = [l EXCEPT !.size = l.size + g.size]
      OBVIOUS
    <3>3. x = [mask |-> l.mask, size |-> l.size + g.size]
      BY <3>1, <3>2
    <3> HIDE DEF x
    <3>4. l.size + g.size \in Nat
      BY <3>1
    <3> QED BY <3>1, <3>3, <3>4 DEF Group, Groups
  <2>3. w[x] = w[l] + w[g]
    <3>1. l.size \in Nat /\ g.size \in Nat /\ x.mask = g.mask /\ l.mask = g.mask /\ x.size = l.size + g.size
      BY <1>2, <2>1, <2>2 DEF Groups, Group
    <3>2. /\ w[x] = (IF x.mask = m THEN x.size ELSE 0)
          /\ w[l] = (IF l.mask = m THEN l.size ELSE 0)
          /\ w[g] = (IF g.mask = m THEN g.size ELSE 0)
      BY <2>1, <2>2, GroupOf
    <3> HIDE DEF w, x, l
    <3> QED BY <3>1, <3>2
  <2>4. AddChunk(s, g) = Append(Front(s), x)
    BY <1>2 DEF AddChunk
  <2> HIDE DEF l, x, w
  <2>5. Weighs(Front(s), w)
    BY <2>1, GroupsWeigh DEF w
  <2>6. /\ Weigh(Append(Front(s), x), w) = Weigh(Front(s), w) + w[x]
        /\ Weigh(Append(Front(s), l), w) = Weigh(Front(s), w) + w[l]
    BY <1>1, <2>1, <2>2, <2>5, WeighAppend
  <2>7. Weigh(Front(s), w) \in Nat /\ w[l] \in Nat /\ w[g] \in Nat
    BY <1>1, <2>1, <2>5, WeighCounts
  <2>8. AddChunk(s, g) \in Seq(Groups)
    BY <2>1, <2>2, <2>4
  <2>9. Weigh(AddChunk(s, g), w) = Weigh(s, w) + w[g]
    <3>1. \A a, b, c \in Nat : a + (b + c) = (a + b) + c
      OBVIOUS
    <3>2. Weigh(AddChunk(s, g), w) = Weigh(Front(s), w) + (w[l] + w[g])
      BY <2>3, <2>4, <2>6
    <3>3. Weigh(s, w) = Weigh(Front(s), w) + w[l]
      BY <2>1, <2>6
    <3> QED BY <2>7, <3>1, <3>2, <3>3
  <2> QED BY <2>8, <2>9 DEF w
<1>3. CASE ~(s # <<>> /\ Last(s).mask = g.mask)
  <2>1. AddChunk(s, g) = Append(s, g)
    BY <1>3 DEF AddChunk
  <2>2. Weighs(s, w)
    BY GroupsWeigh
  <2> HIDE DEF w
  <2>3. Weigh(Append(s, g), w) = Weigh(s, w) + w[g]
    BY <1>1, <2>2, WeighAppend
  <2> QED BY <2>1, <2>3 DEF w
<1> QED BY <1>2, <1>3

\* A bundle has the groups that it is declared as.
Bundles     == [run : Nat, cost : Nat, chunks : Seq(Groups)]
Contents(m) == [b \in Bundles |-> Weigh(b.chunks, InClass(m))]

\* The contents of a bundle.
LEMMA BundleOf ==
  ASSUME NEW b \in Bundles, NEW m
  PROVE  /\ b = [run |-> b.run, cost |-> b.cost, chunks |-> b.chunks]
         /\ b.run \in Nat /\ b.cost \in Nat /\ b.chunks \in Seq(Groups)
         /\ Contents(m)[b] = Weigh(b.chunks, InClass(m))
         /\ Contents(m)[b] \in Nat
<1>1. b.chunks \in Seq(Groups) /\ Contents(m)[b] = Weigh(b.chunks, InClass(m))
  BY DEF Bundles, Contents
<1>2. Weigh(b.chunks, InClass(m)) \in Nat
  BY <1>1, GroupsWeigh
<1> QED BY <1>1, <1>2 DEF Bundles

ChunkAdded(c, v, x) == AddChunk(v, x)
HeldTo(c, k, v) == v \in Seq(Groups) /\ Weigh(v, InClass(c.m)) = c.base + c.S[k]
HeldChunks == INSTANCE FoldFacts WITH Op <- ChunkAdded, Inv <- HeldTo

\* Two bundles that are joined hold what they held.
LEMMA JoinedHolds ==
  ASSUME NEW m, NEW b \in Bundles, NEW x \in Bundles
  PROVE  /\ JoinedBundle(b, x) \in Bundles
         /\ Contents(m)[JoinedBundle(b, x)] = Contents(m)[b] + Contents(m)[x]
<1> DEFINE added == FoldLeft(AddChunk, b.chunks, x.chunks)
           w == InClass(m)
           n == Len(x.chunks)
           s == x.chunks
<1>1. /\ b.run \in Nat /\ b.cost \in Nat /\ b.chunks \in Seq(Groups)
      /\ x.cost \in Nat /\ s \in Seq(Groups)
      /\ Contents(m)[b] = Weigh(b.chunks, w) /\ Contents(m)[x] = Weigh(s, w)
      /\ b = [run |-> b.run, cost |-> b.cost, chunks |-> b.chunks]
  BY BundleOf
<1>2. n \in Nat /\ DOMAIN s = 1 .. n /\ \A k \in 1 .. n : s[k] \in Groups
  BY <1>1
<1>3. PICK S : /\ S[0] = 0 /\ \A k \in 1 .. n : S[k] = S[k - 1] + w[s[k]]
               /\ \A k \in 0 .. n : S[k] \in Nat
               /\ Weigh(s, w) = S[n]
  BY <1>1, GroupsWeigh, WeighPartial
<1> DEFINE c == [m |-> m, base |-> Weigh(b.chunks, w), S |-> S]
<1>4. c.m = m /\ c.base = Weigh(b.chunks, w) /\ c.S = S /\ c.base \in Nat
  BY <1>1, GroupsWeigh
<1>5. \A g \in Groups : w[g] \in Nat
  BY GroupOf
<1>6. HeldChunks!FromLeft(c, b.chunks, s) = added
  BY DEF HeldChunks!FromLeft, HeldChunks!FoldLeft, HeldChunks!MapThenFoldSet, HeldChunks!Max,
         ChunkAdded, FoldLeft, MapThenFoldSet, Max
<1>7. InClass(m) = w
  OBVIOUS
<1> HIDE DEF c, w, n, s, added
<1>8. HeldTo(c, 0, b.chunks)
  BY <1>1, <1>3, <1>4, <1>7 DEF HeldTo
<1>9. ASSUME NEW k \in 1 .. n, NEW v, HeldTo(c, k - 1, v) PROVE HeldTo(c, k, ChunkAdded(c, v, s[k]))
  <2>1. v \in Seq(Groups) /\ Weigh(v, w) = c.base + S[k - 1] /\ s[k] \in Groups
    BY <1>2, <1>4, <1>7, <1>9 DEF HeldTo
  <2>2. AddChunk(v, s[k]) \in Seq(Groups) /\ Weigh(AddChunk(v, s[k]), w) = Weigh(v, w) + w[s[k]]
    BY <1>7, <2>1, AddChunkHolds
  <2>3. k - 1 \in 0 .. n /\ S[k] = S[k - 1] + w[s[k]]
    BY <1>2, <1>3
  <2>4. S[k - 1] \in Nat /\ w[s[k]] \in Nat
    BY <1>3, <1>5, <2>1, <2>3
  <2>5. Weigh(AddChunk(v, s[k]), w) = c.base + S[k]
    BY <1>4, <2>1, <2>2, <2>3, <2>4
  <2> QED BY <1>4, <1>7, <2>2, <2>5 DEF HeldTo, ChunkAdded
<1>10. HeldTo(c, n, added)
  <2>1. \A k \in 1 .. n : \A v : HeldTo(c, k - 1, v) => HeldTo(c, k, ChunkAdded(c, v, s[k]))
    BY <1>9
  <2> QED BY ONLY <1>2, <1>6, <1>8, <2>1, HeldChunks!FoldLeftKeeps
<1>11. added \in Seq(Groups) /\ Weigh(added, w) = Weigh(b.chunks, w) + Weigh(s, w)
  BY <1>3, <1>4, <1>7, <1>10 DEF HeldTo
<1> DEFINE j == JoinedBundle(b, x)
<1>12. j = [run |-> b.run, cost |-> b.cost + x.cost, chunks |-> added]
  <2>1. j = [b EXCEPT !.cost = b.cost + x.cost, !.chunks = added]
    BY DEF JoinedBundle, added, s
  <2> HIDE DEF j
  <2> QED BY <1>1, <2>1
<1>13. j \in Bundles /\ j.chunks = added
  BY <1>1, <1>11, <1>12 DEF Bundles
<1> HIDE DEF j
<1>14. Contents(m)[j] = Weigh(added, w)
  BY <1>7, <1>13, BundleOf
<1> QED BY <1>1, <1>11, <1>13, <1>14 DEF j

\* A sequence around two of its elements.
LEMMA SplitAround ==
  ASSUME NEW A, NEW s \in Seq(A), NEW k \in 1 .. Len(s) - 1
  PROVE  LET before == SubSeq(s, 1, k - 1)
             behind == SubSeq(s, k + 2, Len(s))
         IN  /\ before \in Seq(A) /\ behind \in Seq(A) /\ s[k] \in A /\ s[k + 1] \in A
             /\ s = ((before \o <<s[k]>>) \o <<s[k + 1]>>) \o behind
<1> DEFINE before == SubSeq(s, 1, k - 1)
           behind == SubSeq(s, k + 2, Len(s))
           x == s[k]
           y == s[k + 1]
           n == Len(s)
<1>1. n \in Nat /\ k \in Nat \ {0} /\ k + 1 <= n /\ DOMAIN s = 1 .. n
  OBVIOUS
<1>2. x \in A /\ y \in A
  BY <1>1
<1>3. /\ before \in Seq(A) /\ Len(before) = k - 1 /\ \A i \in 1 .. k - 1 : before[i] = s[i]
  <2>1. 1 <= 1 /\ k - 1 <= n /\ k - 1 \in Nat
    BY <1>1
  <2> QED BY <2>1
<1>4. /\ behind \in Seq(A) /\ Len(behind) = n - (k + 1)
      /\ \A i \in 1 .. n - (k + 1) : behind[i] = s[i + (k + 1)]
  <2>1. k + 2 \in Nat /\ n - (k + 1) \in Nat /\ (n - (k + 2)) + 1 = n - (k + 1)
    BY <1>1
  <2>2. behind = [i \in 1 .. (n - (k + 2)) + 1 |-> s[i + (k + 2) - 1]]
    BY <1>1, <2>1
  <2>3. \A i \in 1 .. n - (k + 1) : i + (k + 2) - 1 = i + (k + 1) /\ i + (k + 1) \in 1 .. n
    BY <1>1
  <2>4. /\ behind = [i \in 1 .. n - (k + 1) |-> behind[i]]
        /\ \A i \in 1 .. n - (k + 1) : behind[i] = s[i + (k + 1)] /\ behind[i] \in A
    BY <2>1, <2>2, <2>3
  <2> HIDE DEF behind
  <2>5. IsSequence(behind) /\ Len(behind) = n - (k + 1)
    BY <2>1, <2>4, MakeSequence
  <2>6. behind \in Seq(A)
    BY <2>1, <2>4, SequenceFrom
  <2> QED BY <2>4, <2>5, <2>6
<1> HIDE DEF before, behind, x, y
<1>5. /\ IsSequence(before) /\ IsSequence(behind) /\ IsSequence(<<x>>) /\ IsSequence(<<y>>)
      /\ Len(<<x>>) = 1 /\ Len(<<y>>) = 1 /\ <<x>>[1] = x /\ <<y>>[1] = y
  BY <1>3, <1>4, SequenceOver, SingletonSequence
<1> DEFINE b == before \o <<x>>
           c == b \o <<y>>
           d == c \o behind
<1>6. /\ IsSequence(b) /\ DOMAIN b = 1 .. k
      /\ \A i \in 1 .. k : b[i] = IF i <= k - 1 THEN before[i] ELSE <<x>>[i - (k - 1)]
  <2>1. Len(before) + Len(<<x>>) = k
    BY <1>1, <1>3, <1>5
  <2> QED BY <1>3, <1>5, <2>1, ConcatSequence
<1> HIDE DEF b
<1>7. Len(b) = k
  BY <1>1, <1>6, SequenceDomain, MakeSequence
<1>8. /\ IsSequence(c) /\ DOMAIN c = 1 .. k + 1
      /\ \A i \in 1 .. k + 1 : c[i] = IF i <= k THEN b[i] ELSE <<y>>[i - k]
  <2>1. Len(b) + Len(<<y>>) = k + 1
    BY <1>1, <1>5, <1>7
  <2> QED BY <1>5, <1>6, <1>7, <2>1, ConcatSequence
<1> HIDE DEF c
<1>9. Len(c) = k + 1
  BY <1>1, <1>8, SequenceDomain, MakeSequence
<1>10. /\ IsSequence(d) /\ DOMAIN d = 1 .. n
       /\ \A i \in 1 .. n : d[i] = IF i <= k + 1 THEN c[i] ELSE behind[i - (k + 1)]
  <2>1. Len(c) + Len(behind) = n
    BY <1>1, <1>4, <1>9
  <2>2. /\ IsSequence(d) /\ DOMAIN d = 1 .. Len(c) + Len(behind)
        /\ \A i \in 1 .. Len(c) + Len(behind) : d[i] = IF i <= Len(c) THEN c[i] ELSE behind[i - Len(c)]
    BY <1>5, <1>8, ConcatSequence
  <2> HIDE DEF d, n
  <2> QED BY <1>9, <2>1, <2>2
<1> HIDE DEF d
<1>11. ASSUME NEW i \in 1 .. n PROVE d[i] = s[i]
  <2>1. CASE i <= k - 1
    <3>1. i \in 1 .. k - 1 /\ i \in 1 .. k /\ i \in 1 .. k + 1 /\ i <= k /\ i <= k + 1
      BY <1>1, <2>1
    <3> QED BY <1>3, <1>6, <1>8, <1>10, <2>1, <3>1
  <2>2. CASE i = k
    <3>1. /\ k \in 1 .. k /\ k \in 1 .. k + 1 /\ k <= k /\ k <= k + 1 /\ ~(k <= k - 1)
          /\ k - (k - 1) = 1
      BY <1>1
    <3>2. d[i] = x
      BY <1>5, <1>6, <1>8, <1>10, <2>2, <3>1
    <3> QED BY <2>2, <3>2 DEF x
  <2>3. CASE i = k + 1
    <3>1. k + 1 \in 1 .. k + 1 /\ k + 1 <= k + 1 /\ ~(k + 1 <= k) /\ (k + 1) - k = 1
      BY <1>1
    <3>2. d[i] = y
      BY <1>5, <1>8, <1>10, <2>3, <3>1
    <3> QED BY <2>3, <3>2 DEF y
  <2>4. CASE i > k + 1
    <3>1. ~(i <= k + 1) /\ i - (k + 1) \in 1 .. n - (k + 1) /\ (i - (k + 1)) + (k + 1) = i
      BY <1>1, <2>4
    <3> QED BY <1>4, <1>10, <3>1
  <2>5. i <= k - 1 \/ i = k \/ i = k + 1 \/ i > k + 1
    BY <1>1
  <2> QED BY <2>1, <2>2, <2>3, <2>4, <2>5
<1>12. d = s
  <2>1. d = [i \in 1 .. n |-> d[i]] /\ s = [i \in 1 .. n |-> s[i]]
    BY <1>1, <1>10, SequenceDomain DEF IsSequence
  <2> QED BY <1>11, <2>1
<1>13. s = ((before \o <<x>>) \o <<y>>) \o behind
  BY <1>12 DEF b, c, d
<1> QED BY <1>2, <1>3, <1>4, <1>13 DEF before, behind, x, y

\* Some bundles can be weighed.
LEMMA BundlesWeigh ==
  ASSUME NEW s \in Seq(Bundles), NEW m
  PROVE  Weighs(s, Contents(m)) /\ Weigh(s, Contents(m)) \in Nat
<1>1. IsSequence(s) /\ DOMAIN s = 1 .. Len(s)
  BY SequenceOver, SequenceDomain
<1>2. \A k \in DOMAIN s : s[k] \in Bundles
  OBVIOUS
<1>3. Weighs(s, Contents(m))
  BY <1>1, <1>2, BundleOf DEF Weighs
<1> QED BY <1>3, WeighCounts

\* Among pairs that may be joined, there is a cheapest one.
LEMMA CheapestExists ==
  ASSUME NEW s \in Seq(Bundles), Pairs(s) # {}
  PROVE  Min(Cheapest(s)) \in Pairs(s)
<1> DEFINE cost == [k \in Pairs(s) |-> s[k].cost + s[k + 1].cost]
           costs == {cost[k] : k \in Pairs(s)}
<1>1. Len(s) \in Nat /\ DOMAIN s = 1 .. Len(s) /\ \A k \in DOMAIN s : s[k].cost \in Nat
  <2>1. \A k \in DOMAIN s : s[k] \in Bundles
    OBVIOUS
  <2> QED BY <2>1 DEF Bundles
<1>2. Pairs(s) \subseteq Nat /\ \A k \in Pairs(s) : k \in DOMAIN s /\ k + 1 \in DOMAIN s
  BY <1>1 DEF Pairs
<1>3. \A k \in Pairs(s) : cost[k] \in Nat
  BY <1>1, <1>2
<1>4. \A k \in Pairs(s) : cost[k] = s[k].cost + s[k + 1].cost
  OBVIOUS
<1> HIDE DEF cost
<1>5. costs \subseteq Nat /\ costs # {}
  BY <1>3
<1>6. PICK c \in costs : \A d \in costs : c <= d
  BY ONLY <1>5, HeldChunks!LeastElement
<1>7. PICK k \in Pairs(s) : c = cost[k]
  BY <1>6
<1>8. k \in Cheapest(s)
  BY <1>4, <1>6, <1>7 DEF Cheapest
<1>9. Cheapest(s) \subseteq Nat /\ Cheapest(s) # {} /\ Cheapest(s) \subseteq Pairs(s)
  BY <1>2, <1>8 DEF Cheapest
<1>10. PICK m \in Cheapest(s) : \A y \in Cheapest(s) : m <= y
  BY ONLY <1>9, HeldChunks!LeastElement
<1>11. Min(Cheapest(s)) \in Cheapest(s)
  BY <1>10 DEF Min
<1> QED BY <1>9, <1>11

\* A join, if there is one to make, keeps their contents.
LEMMA MergeOnceHolds ==
  ASSUME NEW s \in Seq(Bundles), NEW m
  PROVE  /\ MergeOnce(s) \in Seq(Bundles)
         /\ Weigh(MergeOnce(s), Contents(m)) = Weigh(s, Contents(m))
<1>1. CASE Pairs(s) = {}
  BY <1>1 DEF MergeOnce
<1>2. CASE Pairs(s) # {}
  <2> DEFINE k == Min(Cheapest(s))
             before == SubSeq(s, 1, k - 1)
             behind == SubSeq(s, k + 2, Len(s))
             b == s[k]
             x == s[k + 1]
             j == JoinedBundle(b, x)
             w == Contents(m)
  <2>1. k \in 1 .. Len(s) - 1
    BY <1>2, CheapestExists DEF Pairs
  <2>2. MergeOnce(s) = before \o <<j>> \o behind
    BY <1>2 DEF MergeOnce, JoinAt
  <2> HIDE DEF k
  <2>3. /\ before \in Seq(Bundles) /\ behind \in Seq(Bundles) /\ b \in Bundles /\ x \in Bundles
        /\ s = ((before \o <<b>>) \o <<x>>) \o behind
    BY <2>1, SplitAround
  <2> HIDE DEF before, behind, b, x
  <2>4. j \in Bundles /\ w[j] = w[b] + w[x]
    BY <2>3, JoinedHolds
  <2>5. Weighs(before, w) /\ Weighs(behind, w) /\ Weigh(before, w) \in Nat /\ Weigh(behind, w) \in Nat
    BY <2>3, BundlesWeigh
  <2>6. w[b] \in Nat /\ w[x] \in Nat /\ w[j] \in Nat
    BY <2>3, <2>4, BundleOf
  <2> HIDE DEF j, w
  <2>7. /\ Weighs(<<b>>, w) /\ Weigh(<<b>>, w) = w[b] /\ Weighs(<<x>>, w) /\ Weigh(<<x>>, w) = w[x]
        /\ Weighs(<<j>>, w) /\ Weigh(<<j>>, w) = w[j]
    BY <2>6, WeighOne
  <2> DEFINE sb == before \o <<b>>
             sx == sb \o <<x>>
             sj == before \o <<j>>
  <2>8. Weighs(sb, w) /\ Weigh(sb, w) = Weigh(before, w) + w[b]
    BY ONLY <2>5, <2>7, WeighConcat
  <2>9. Weighs(sj, w) /\ Weigh(sj, w) = Weigh(before, w) + w[j]
    BY ONLY <2>5, <2>7, WeighConcat
  <2> HIDE DEF sb, sj
  <2>10. Weighs(sx, w) /\ Weigh(sx, w) = Weigh(sb, w) + w[x]
    BY ONLY <2>7, <2>8, WeighConcat
  <2> HIDE DEF sx
  <2>11. Weigh(sx \o behind, w) = Weigh(sx, w) + Weigh(behind, w)
    BY ONLY <2>5, <2>10, WeighConcat
  <2>12. Weigh(sj \o behind, w) = Weigh(sj, w) + Weigh(behind, w)
    BY ONLY <2>5, <2>9, WeighConcat
  <2>13. s = sx \o behind /\ MergeOnce(s) = sj \o behind
    BY <2>2, <2>3 DEF sb, sx, sj
  <2>14. Weigh(MergeOnce(s), w) = Weigh(s, w)
    <3> DEFINE p == Weigh(before, w)
               q == Weigh(behind, w)
               u == w[b]
               v == w[x]
    <3>1. Weigh(s, w) = ((p + u) + v) + q /\ Weigh(MergeOnce(s), w) = (p + (u + v)) + q
      BY <2>4, <2>8, <2>9, <2>10, <2>11, <2>12, <2>13
    <3>2. p \in Nat /\ q \in Nat /\ u \in Nat /\ v \in Nat
      BY <2>5, <2>6
    <3> HIDE DEF p, q, u, v
    <3> QED BY <3>1, <3>2
  <2>15. MergeOnce(s) \in Seq(Bundles)
    <3>1. <<j>> \in Seq(Bundles)
      BY <2>4
    <3>2. sj \in Seq(Bundles)
      BY <2>3, <3>1 DEF sj
    <3>3. behind \in Seq(Bundles)
      BY <2>3
    <3>4. sj \o behind \in Seq(Bundles)
      BY <3>2, <3>3
    <3> QED BY <2>13, <3>4
  <2> QED BY <2>14, <2>15 DEF w
<1> QED BY <1>1, <1>2

MergedOnce(c, v, x) == MergeOnce(v)
BundlesAt(c, k, v)  == v \in Seq(Bundles) /\ Weigh(v, Contents(c.m)) = c.base
Merges == INSTANCE FoldFacts WITH Op <- MergedOnce, Inv <- BundlesAt

\* Merging keeps the contents of bundles, however often.
LEMMA MergeCheapestHolds ==
  ASSUME NEW s \in Seq(Bundles), NEW n \in Nat, NEW m
  PROVE  /\ MergeCheapest(s, n) \in Seq(Bundles)
         /\ Weigh(MergeCheapest(s, n), Contents(m)) = Weigh(s, Contents(m))
<1> DEFINE steps == [step \in 1 .. n |-> step]
           c == [m |-> m, base |-> Weigh(s, Contents(m))]
<1>1. DOMAIN steps = 1 .. n /\ c.m = m /\ c.base = Weigh(s, Contents(m))
  OBVIOUS
<1> HIDE DEF c
<1>2. BundlesAt(c, 0, s)
  BY <1>1 DEF BundlesAt
<1>3. \A k \in 1 .. n : \A v : BundlesAt(c, k - 1, v) => BundlesAt(c, k, MergedOnce(c, v, steps[k]))
  BY MergeOnceHolds DEF BundlesAt, MergedOnce
<1>4. Merges!FromLeft(c, s, steps) = MergeCheapest(s, n)
  BY DEF Merges!FromLeft, Merges!FoldLeft, Merges!MapThenFoldSet, Merges!Max, MergedOnce,
         MergeCheapest, FoldLeft, MapThenFoldSet, Max
<1> HIDE DEF steps
<1>5. BundlesAt(c, n, MergeCheapest(s, n))
  BY ONLY n \in Nat, <1>1, <1>2, <1>3, <1>4, Merges!FoldLeftKeeps
<1> QED BY <1>1, <1>5 DEF BundlesAt

-----------------------------------------------------------------------------
(* What is emitted for bundles.                                            *)

\* Sequences over a set, one behind the other.
LEMMA FlattenOver ==
  ASSUME NEW A, NEW f, IsSequence(f), \A k \in DOMAIN f : f[k] \in Seq(A)
  PROVE  FlattenSeq(f) \in Seq(A)
<1>1. \A k \in DOMAIN f : IsSequence(f[k]) /\ Range(f[k]) \subseteq A
  BY SequenceOver
<1>2. IsSequence(FlattenSeq(f)) /\ Range(FlattenSeq(f)) = UNION {Range(f[k]) : k \in DOMAIN f}
  BY <1>1, FlattenRange
<1> DEFINE s == FlattenSeq(f)
<1>3. IsSequence(s) /\ Range(s) \subseteq A
  BY <1>1, <1>2
<1> HIDE DEF s
<1>4. s \in Seq(A)
  <2>1. /\ Len(s) \in Nat /\ s = [i \in 1 .. Len(s) |-> s[i]]
        /\ \A i \in 1 .. Len(s) : s[i] \in A
    BY <1>3, SequenceDomain DEF Range
  <2> QED BY <2>1, SequenceFrom
<1> QED BY <1>4 DEF s

\* Groups of mfmas hold nothing else.
LEMMA MfmasHoldNone ==
  ASSUME NEW s \in Seq({MfmaGroup}), NEW m, m # "MFMA"
  PROVE  s \in Seq(Groups) /\ Weighs(s, InClass(m)) /\ Weigh(s, InClass(m)) = 0
<1> DEFINE w == InClass(m)
           f == [k \in DOMAIN s |-> w[s[k]]]
<1>1. MfmaGroup \in Groups /\ w[MfmaGroup] = 0
  <2>1. /\ MfmaGroup \in Groups /\ MfmaGroup.mask = "MFMA"
    BY GroupOf DEF MfmaGroup
  <2> QED BY <2>1, GroupOf
<1>2. Len(s) \in Nat /\ DOMAIN s = 1 .. Len(s) /\ \A k \in 1 .. Len(s) : s[k] = MfmaGroup
  OBVIOUS
<1>3. s \in Seq(Groups)
  BY <1>1
<1>4. Weighs(s, w)
  BY <1>3, GroupsWeigh
<1>5. Weigh(s, w) = Total(f)
  BY DEF Weigh
<1>6. DOMAIN f = 1 .. Len(s) /\ \A k \in 1 .. Len(s) : f[k] = 0
  BY <1>1, <1>2
<1> HIDE DEF f, w
<1>7. Total(f) = Len(s) * 0
  BY <1>2, <1>6, TotalConstant
<1>8. Total(f) = 0
  BY <1>2, <1>7
<1> QED BY <1>3, <1>4, <1>5, <1>8 DEF w

\* The groups of mfmas that are emitted.
LEMMA BareGroups ==
  /\ <<>> \in Seq({MfmaGroup}) /\ <<MfmaGroup>> \in Seq({MfmaGroup})
  /\ \A n \in Int : BareMfmas(n) \in Seq({MfmaGroup})
<1>1. ASSUME NEW n \in Int PROVE BareMfmas(n) \in Seq({MfmaGroup})
  <2> DEFINE l == IF n < 0 THEN 0 ELSE n
  <2>1. l \in Nat /\ 1 .. n = 1 .. l
    OBVIOUS
  <2>2. BareMfmas(n) = [k \in 1 .. l |-> MfmaGroup]
    BY <2>1 DEF BareMfmas
  <2> HIDE DEF l
  <2> QED BY <2>1, <2>2
<1> QED BY <1>1

\* The bundles are emitted with groups of mfmas between them: the pipeline holds
\* what they hold.
LEMMA EmittedHolds ==
  ASSUME NEW s \in Seq(Bundles), NEW f, f = [k \in DOMAIN s |-> f[k]],
         \A k \in DOMAIN s : \E a, b \in Seq({MfmaGroup}) : f[k] = a \o b \o s[k].chunks,
         NEW m, m # "MFMA"
  PROVE  /\ FlattenSeq(f) \in Seq(Groups)
         /\ Weigh(FlattenSeq(f), InClass(m)) = Weigh(s, Contents(m))
<1> DEFINE w == InClass(m)
<1>1. Len(s) \in Nat /\ DOMAIN s = 1 .. Len(s) /\ \A k \in DOMAIN s : s[k] \in Bundles
  OBVIOUS
<1>2. IsSequence(f) /\ Len(f) = Len(s) /\ DOMAIN f = DOMAIN s
  BY <1>1, MakeSequence
<1>3. ASSUME NEW k \in DOMAIN s
      PROVE  f[k] \in Seq(Groups) /\ Weighs(f[k], w) /\ Weigh(f[k], w) = Contents(m)[s[k]]
  <2> DEFINE t == s[k].chunks
  <2>1. PICK a \in Seq({MfmaGroup}) : \E b \in Seq({MfmaGroup}) : f[k] = a \o b \o t
    OBVIOUS
  <2>2. PICK b \in Seq({MfmaGroup}) : f[k] = a \o b \o t
    BY <2>1
  <2>3. /\ a \in Seq(Groups) /\ Weighs(a, w) /\ Weigh(a, w) = 0
        /\ b \in Seq(Groups) /\ Weighs(b, w) /\ Weigh(b, w) = 0
    <3>1. \A v \in Seq({MfmaGroup}) : v \in Seq(Groups) /\ Weighs(v, InClass(m)) /\ Weigh(v, InClass(m)) = 0
      BY ONLY m # "MFMA", MfmasHoldNone
    <3> QED BY <3>1
  <2>4. t \in Seq(Groups) /\ Contents(m)[s[k]] = Weigh(t, w)
    BY <1>1, BundleOf
  <2>5. Weighs(t, w) /\ Weigh(t, w) \in Nat
    BY <2>4, GroupsWeigh
  <2> DEFINE ab == a \o b
  <2>6. ab \in Seq(Groups)
    BY <2>3
  <2> HIDE DEF w, t
  <2>7. Weighs(ab, w) /\ Weigh(ab, w) = 0
    BY <2>3, WeighConcat
  <2> HIDE DEF ab
  <2>8. Weighs(ab \o t, w) /\ Weigh(ab \o t, w) = Weigh(t, w)
    BY <2>5, <2>7, WeighConcat
  <2>9. ab \o t \in Seq(Groups) /\ f[k] = ab \o t
    BY <2>2, <2>4, <2>6 DEF ab
  <2> QED BY <2>4, <2>8, <2>9 DEF w
<1>4. FlattenSeq(f) \in Seq(Groups)
  BY <1>2, <1>3, FlattenOver
<1>5. Weigh(FlattenSeq(f), w) = Total([k \in DOMAIN f |-> Weigh(f[k], w)])
  <2> HIDE DEF w
  <2> QED BY <1>2, <1>3, WeighFlatten
<1>6. [k \in DOMAIN f |-> Weigh(f[k], w)] = [k \in DOMAIN s |-> Contents(m)[s[k]]]
  <2> HIDE DEF w
  <2> QED BY <1>2, <1>3
<1> QED BY <1>4, <1>5, <1>6 DEF Weigh

\* ... group by group, ...
LEMMA EmitGroupsHolds ==
  ASSUME NEW groups \in Seq(Bundles), NEW mfmas \in Int, NEW m, m # "MFMA"
  PROVE  /\ EmitGroups(groups, mfmas) \in Seq(Groups)
         /\ Weigh(EmitGroups(groups, mfmas), InClass(m)) = Weigh(groups, Contents(m))
<1> DEFINE OfLastRun(g) == g.run = Last(groups).run
           first == SelectInSeq(groups, OfLastRun)
           left == BareMfmas(mfmas - Len(groups))
           Bare(k) == IF k = first THEN left ELSE <<>>
           f == [k \in DOMAIN groups |-> Bare(k) \o <<MfmaGroup>> \o groups[k].chunks]
<1>1. EmitGroups(groups, mfmas) = FlattenSeq(f)
  BY DEF EmitGroups
<1>2. groups \in Seq(Bundles) /\ Len(groups) \in Nat
  OBVIOUS
<1>3. left \in Seq({MfmaGroup}) /\ <<>> \in Seq({MfmaGroup}) /\ <<MfmaGroup>> \in Seq({MfmaGroup})
  <2>1. mfmas - Len(groups) \in Int
    BY <1>2
  <2> QED BY <2>1, BareGroups
<1> HIDE DEF left, first
<1>4. \A k : Bare(k) \in Seq({MfmaGroup})
  BY <1>3
<1> HIDE DEF Bare
<1>5. f = [k \in DOMAIN groups |-> f[k]]
  OBVIOUS
<1>6. \A k \in DOMAIN groups : f[k] = Bare(k) \o <<MfmaGroup>> \o groups[k].chunks
  OBVIOUS
<1> HIDE DEF f
<1>7. \A k \in DOMAIN groups : \E a, b \in Seq({MfmaGroup}) : f[k] = a \o b \o groups[k].chunks
  BY <1>3, <1>4, <1>6
<1>8. /\ FlattenSeq(f) \in Seq(Groups)
      /\ Weigh(FlattenSeq(f), InClass(m)) = Weigh(groups, Contents(m))
  <2>1. groups \in Seq(Bundles)
    BY <1>2
  <2> QED BY ONLY <1>5, <1>7, <2>1, m # "MFMA", EmittedHolds
<1> QED BY <1>1, <1>8

\* The number of windows.
LEMMA WindowsType ==
  ASSUME NEW slots, IsSequence(slots)
  PROVE  Windows(slots) \in Nat
<1> DEFINE W == {k \in DOMAIN slots : slots[k].run = 1}
<1>1. Windows(slots) = Cardinality(W)
  BY DEF Windows, Quantify
<1>2. Len(slots) \in Nat /\ DOMAIN slots = 1 .. Len(slots)
  BY SequenceDomain
<1>3. IsFiniteSet(DOMAIN slots)
  BY <1>2, FS_Interval
<1>4. W \in SUBSET DOMAIN slots
  OBVIOUS
<1> HIDE DEF W
<1>5. IsFiniteSet(W)
  BY <1>3, <1>4, FS_Subset
<1> QED BY <1>1, <1>5, FS_CardinalityType

\* ... and slot by slot.
LEMMA EmitSlotsHolds ==
  ASSUME NEW slots \in Seq(Bundles), NEW mfmas \in Int, NEW m, m # "MFMA"
  PROVE  /\ EmitSlots(slots, mfmas) \in Seq(Groups)
         /\ Weigh(EmitSlots(slots, mfmas), InClass(m)) = Weigh(slots, Contents(m))
<1> DEFINE left == BareMfmas(mfmas - Windows(slots))
           Bare(k) == IF k = Len(slots) THEN left ELSE <<>>
           Shadow(k) == IF slots[k].run = 1 THEN <<MfmaGroup>> ELSE <<>>
           f == [k \in DOMAIN slots |-> Bare(k) \o Shadow(k) \o slots[k].chunks]
<1>1. EmitSlots(slots, mfmas) = FlattenSeq(f)
  BY DEF EmitSlots
<1>2. slots \in Seq(Bundles) /\ Windows(slots) \in Nat
  BY SequenceOver, WindowsType
<1>3. left \in Seq({MfmaGroup}) /\ <<>> \in Seq({MfmaGroup}) /\ <<MfmaGroup>> \in Seq({MfmaGroup})
  <2>1. mfmas - Windows(slots) \in Int
    BY <1>2
  <2> QED BY <2>1, BareGroups
<1> HIDE DEF left
<1>4. \A k : Bare(k) \in Seq({MfmaGroup}) /\ Shadow(k) \in Seq({MfmaGroup})
  BY <1>3
<1> HIDE DEF Bare, Shadow
<1>5. f = [k \in DOMAIN slots |-> f[k]]
  OBVIOUS
<1>6. \A k \in DOMAIN slots : f[k] = Bare(k) \o Shadow(k) \o slots[k].chunks
  OBVIOUS
<1> HIDE DEF f
<1>7. \A k \in DOMAIN slots : \E a, b \in Seq({MfmaGroup}) : f[k] = a \o b \o slots[k].chunks
  BY <1>4, <1>6
<1>8. /\ FlattenSeq(f) \in Seq(Groups)
      /\ Weigh(FlattenSeq(f), InClass(m)) = Weigh(slots, Contents(m))
  <2>1. slots \in Seq(Bundles)
    BY <1>2
  <2> QED BY ONLY <1>5, <1>7, <2>1, m # "MFMA", EmittedHolds
<1> QED BY <1>1, <1>8

-----------------------------------------------------------------------------
(* What is packed into groups.                                             *)

\* k operations are in the groups so far and the current one.
GroupedUpTo(s, k) == /\ s = [sizes |-> s.sizes, remCyc |-> s.remCyc, remG |-> s.remG, cur |-> s.cur, n |-> s.n]
                     /\ Counts(s.sizes) /\ s.n \in Nat /\ Total(s.sizes) + s.n = k

\* One operation more in the groups.
LEMMA PutInGroupHolds ==
  ASSUME NEW k \in Nat, NEW s, GroupedUpTo(s, k), NEW i, NEW budget
  PROVE  GroupedUpTo(PutInGroup(s, i, budget), k + 1)
<1> DEFINE t == PutInGroup(s, i, budget)
           cycles == Cycles(i)
           more == Append(s.sizes, s.n)
           rem == s.remCyc - s.cur
           left == Max({1, s.remG - 1})
<1>1. /\ s = [sizes |-> s.sizes, remCyc |-> s.remCyc, remG |-> s.remG, cur |-> s.cur, n |-> s.n]
      /\ s.n \in Nat /\ Counts(s.sizes) /\ Total(s.sizes) + s.n = k
  BY DEF GroupedUpTo
<1>3. Total(s.sizes) \in Nat
  BY <1>1, TotalPartial
<1>4. CASE Closes(s, i, budget)
  <2>1. t = [sizes |-> more, remCyc |-> rem, remG |-> left, cur |-> cycles, n |-> 1]
    BY <1>4 DEF PutInGroup
  <2>2. Counts(more) /\ Total(more) = Total(s.sizes) + s.n
    BY <1>1, TotalAppend
  <2> HIDE DEF t, more, rem, left, cycles
  <2>3. t.sizes = more /\ t.n = 1
    BY <2>1
  <2> QED BY <1>1, <2>1, <2>2, <2>3 DEF GroupedUpTo, t
<1>5. CASE ~Closes(s, i, budget)
  <2>1. t = [s EXCEPT !.cur = s.cur + cycles, !.n = s.n + 1]
    BY <1>5 DEF PutInGroup
  <2> HIDE DEF t, cycles
  <2>2. t = [sizes |-> s.sizes, remCyc |-> s.remCyc, remG |-> s.remG, cur |-> s.cur + cycles,
             n |-> s.n + 1]
    BY <1>1, <2>1
  <2>3. t.sizes = s.sizes /\ t.n = s.n + 1
    BY <2>2
  <2> QED BY <1>1, <1>3, <2>2, <2>3 DEF GroupedUpTo, t
<1> QED BY <1>4, <1>5

PutNext(c, s, i)   == PutInGroup(s, i, c)
CountedAt(c, k, s) == GroupedUpTo(s, k)
CountedGroups == INSTANCE FoldFacts WITH Op <- PutNext, Inv <- CountedAt

\* Every operation of a run is in one of the groups it is packed into.
LEMMA PackGroupsHolds ==
  ASSUME NEW run, IsSequence(run), NEW budget
  PROVE  Counts(PackGroups(run, budget)) /\ Total(PackGroups(run, budget)) = Len(run)
<1> DEFINE start == [sizes |-> <<>>, remCyc |-> CyclesOf(run),
                     remG |-> CeilDiv(CyclesOf(run), budget), cur |-> 0, n |-> 0]
           end == CountedGroups!FromLeft(budget, start, run)
<1>1. Len(run) \in Nat /\ DOMAIN run = 1 .. Len(run)
  BY SequenceDomain
<1>2. PackGroups(run, budget) = Append(end.sizes, end.n)
  BY DEF CountedGroups!FromLeft, CountedGroups!FoldLeft, CountedGroups!MapThenFoldSet, CountedGroups!Max, PutNext,
         PackGroups, FoldLeft, MapThenFoldSet, Max
<1>3. CountedAt(budget, 0, start)
  <2>1. IsSequence(<<>>) /\ Range(<<>>) = {}
    BY DEF IsSequence, Range
  <2> DEFINE cycles == CyclesOf(run)
             groups == CeilDiv(CyclesOf(run), budget)
  <2> HIDE DEF cycles, groups
  <2>2. start = [sizes |-> <<>>, remCyc |-> cycles, remG |-> groups, cur |-> 0, n |-> 0]
    BY DEF cycles, groups
  <2> HIDE DEF start
  <2>3. start.sizes = <<>> /\ start.n = 0
    BY <2>2
  <2>4. Counts(<<>>) /\ Total(<<>>) + 0 = 0
    BY <2>1, TotalOne DEF Counts
  <2> QED BY <2>2, <2>3, <2>4 DEF CountedAt, GroupedUpTo
<1> HIDE DEF start
<1>4. ASSUME NEW k \in 1 .. Len(run), NEW s, CountedAt(budget, k - 1, s)
      PROVE  CountedAt(budget, k, PutNext(budget, s, run[k]))
  <2>1. k - 1 \in Nat /\ (k - 1) + 1 = k /\ GroupedUpTo(s, k - 1)
    BY <1>1, <1>4 DEF CountedAt
  <2>2. GroupedUpTo(PutInGroup(s, run[k], budget), (k - 1) + 1)
    BY ONLY <2>1, PutInGroupHolds
  <2> QED BY <2>1, <2>2 DEF CountedAt, PutNext
<1>5. CountedAt(budget, Len(run), end)
  <2>1. \A k \in 1 .. Len(run) : \A s : CountedAt(budget, k - 1, s) => CountedAt(budget, k, PutNext(budget, s, run[k]))
    BY <1>4
  <2> QED BY ONLY <1>1, <1>3, <2>1, CountedGroups!FoldLeftKeeps
<1> HIDE DEF end
<1>6. Counts(end.sizes) /\ Total(end.sizes) + end.n = Len(run) /\ end.n \in Nat
  BY <1>5 DEF CountedAt, GroupedUpTo
<1> QED BY <1>2, <1>6, TotalAppend

\* The contents of a bundle of one group.
LEMMA OneGroup ==
  ASSUME NEW run \in Nat, NEW cost \in Nat, NEW i, NEW n \in Nat, NEW m,
         NEW b, b = [run |-> run, cost |-> cost, chunks |-> <<Group(Mask(i), n)>>]
  PROVE  b \in Bundles /\ Contents(m)[b] = IF Mask(i) = m THEN n ELSE 0
<1> DEFINE g == Group(Mask(i), n)
           w == InClass(m)
<1>1. Mask(i) \in {"MFMA", "VALU", "TRANS"}
  BY DEF Mask
<1>2. g \in Groups /\ g.mask = Mask(i) /\ g.size = n
  BY <1>1, GroupOf
<1>3. w[g] = (IF Mask(i) = m THEN n ELSE 0) /\ w[g] \in Nat
  BY <1>2, GroupOf
<1> HIDE DEF g, w
<1>4. b = [run |-> run, cost |-> cost, chunks |-> <<g>>]
  BY DEF g
<1>5. <<g>> \in Seq(Groups)
  BY <1>2
<1>6. b \in Bundles /\ b.chunks = <<g>>
  BY <1>4, <1>5 DEF Bundles
<1>7. Contents(m)[b] = Weigh(<<g>>, w)
  BY <1>6, BundleOf DEF w
<1>8. Weigh(<<g>>, w) = w[g]
  BY <1>3, WeighOne
<1> QED BY <1>3, <1>6, <1>7, <1>8

\* How many operations of a class a run has, as its groups are declared.
RunHolds(run, m) == IF Mask(run[1]) = m THEN Len(run) ELSE 0

\* Every run is in its groups.
LEMMA PackedHolds ==
  ASSUME NEW runs, IsSequence(runs), \A r \in DOMAIN runs : IsSequence(runs[r]),
         NEW budget, NEW m
  PROVE  /\ Packed(runs, budget) \in Seq(Bundles)
         /\ Weigh(Packed(runs, budget), Contents(m)) = Total([r \in DOMAIN runs |-> RunHolds(runs[r], m)])
<1> DEFINE Chunk(r, n) == <<Group(Mask(runs[r][1]), n)>>
           Bundle(r, n) == [run |-> r, cost |-> n, chunks |-> Chunk(r, n)]
           sizes == [r \in DOMAIN runs |-> PackGroups(runs[r], budget)]
           of == [r \in DOMAIN runs |-> [k \in DOMAIN sizes[r] |-> Bundle(r, sizes[r][k])]]
           w == Contents(m)
<1>1. Packed(runs, budget) = FlattenSeq(of)
  BY DEF Packed
<1>2. \A r \in DOMAIN runs : Counts(sizes[r]) /\ Total(sizes[r]) = Len(runs[r])
  BY PackGroupsHolds
<1> HIDE DEF sizes
<1>3. DOMAIN runs = 1 .. Len(runs) /\ Len(runs) \in Nat
  BY SequenceDomain
<1>4. ASSUME NEW r \in DOMAIN runs, NEW n \in Nat
      PROVE  Bundle(r, n) \in Bundles /\ w[Bundle(r, n)] = IF Mask(runs[r][1]) = m THEN n ELSE 0
  <2>1. r \in Nat
    BY <1>3
  <2> QED BY <2>1, OneGroup
<1> HIDE DEF Chunk, Bundle
<1>5. ASSUME NEW r \in DOMAIN runs
      PROVE  of[r] \in Seq(Bundles) /\ Weighs(of[r], w) /\ Weigh(of[r], w) = RunHolds(runs[r], m)
  <2> DEFINE f == sizes[r]
             t == of[r]
             h == [k \in DOMAIN t |-> w[t[k]]]
             n == Len(f)
  <2>1. n \in Nat /\ DOMAIN f = 1 .. n /\ \A k \in 1 .. n : f[k] \in Nat
    BY <1>2, SequenceDomain DEF Counts
  <2>2. t = [k \in DOMAIN f |-> Bundle(r, f[k])]
    OBVIOUS
  <2>3. Counts(f) /\ Total(f) = Len(runs[r])
    BY <1>2
  <2> HIDE DEF f, t, n
  <2>4. \A k \in 1 .. n : t[k] = Bundle(r, f[k]) /\ t[k] \in Bundles
    BY <1>4, <2>1, <2>2
  <2>5. t = [k \in 1 .. n |-> t[k]]
    BY <2>1, <2>2
  <2>6. t \in Seq(Bundles)
    BY <2>1, <2>4, <2>5, SequenceFrom
  <2>7. Weighs(t, w)
    BY <2>6, BundlesWeigh
  <2>8. DOMAIN h = 1 .. n /\ \A k \in 1 .. n : h[k] = IF Mask(runs[r][1]) = m THEN f[k] ELSE 0
    <3>1. DOMAIN t = 1 .. n
      BY <2>1, <2>2
    <3> HIDE DEF w
    <3>2. \A k \in 1 .. n : h[k] = w[Bundle(r, f[k])]
      BY <2>4, <3>1
    <3> QED BY <1>4, <2>1, <3>1, <3>2
  <2>9. Weigh(t, w) = Total(h)
    BY DEF Weigh
  <2>10. h = [k \in DOMAIN h |-> h[k]]
    OBVIOUS
  <2> HIDE DEF h
  <2>11. CASE Mask(runs[r][1]) = m
    <3>1. h = f
      <4>1. f = [k \in 1 .. n |-> f[k]]
        BY <2>1, <2>3, SequenceDomain DEF Counts
      <4> QED BY <2>8, <2>10, <2>11, <4>1
    <3> QED BY <2>3, <2>6, <2>7, <2>9, <2>11, <3>1 DEF RunHolds, t
  <2>12. CASE Mask(runs[r][1]) # m
    <3>1. Total(h) = n * 0
      BY <2>1, <2>8, <2>12, TotalConstant
    <3>2. n * 0 = 0
      BY <2>1
    <3> QED BY <2>6, <2>7, <2>9, <2>12, <3>1, <3>2 DEF RunHolds, t
  <2> QED BY <2>11, <2>12
<1>6. IsSequence(of) /\ DOMAIN of = DOMAIN runs
  <2>1. DOMAIN of = DOMAIN runs /\ of = [r \in 1 .. Len(runs) |-> of[r]]
    BY <1>3
  <2> HIDE DEF of
  <2> QED BY <1>3, <2>1, MakeSequence
<1> HIDE DEF of, w
<1>7. FlattenSeq(of) \in Seq(Bundles)
  BY <1>5, <1>6, FlattenOver
<1>8. Weigh(FlattenSeq(of), w) = Total([r \in DOMAIN of |-> Weigh(of[r], w)])
  BY <1>5, <1>6, WeighFlatten
<1>9. [r \in DOMAIN of |-> Weigh(of[r], w)] = [r \in DOMAIN runs |-> RunHolds(runs[r], m)]
  BY <1>5, <1>6
<1> QED BY <1>1, <1>7, <1>8, <1>9 DEF w

\* The operations of A, by their class.
OfClass(A, m) == [i \in A |-> IF Mask(i) = m THEN 1 ELSE 0]

\* All operations of a run are of the class that its first one is of.
LEMMA RunOfClass ==
  ASSUME NEW run, IsSequence(run), NEW A, Range(run) \subseteq A, NEW class,
         \A i \in Range(run) : Mask(i) = class, NEW m
  PROVE  /\ Weigh(run, OfClass(A, m)) = IF run # <<>> THEN RunHolds(run, m) ELSE 0
         /\ Weigh(run, OfClass(A, m)) \in Nat
         /\ run # <<>> => RunHolds(run, m) \in Nat
<1> DEFINE w == OfClass(A, m)
           h == [k \in DOMAIN run |-> w[run[k]]]
           x == IF class = m THEN 1 ELSE 0
           n == Len(run)
<1>1. n \in Nat /\ DOMAIN run = 1 .. n /\ x \in Nat
  BY SequenceDomain
<1>2. Weigh(run, w) = Total(h)
  BY DEF Weigh
<1>3. DOMAIN h = 1 .. n /\ \A k \in 1 .. n : h[k] = x
  BY <1>1 DEF OfClass, Range
<1> HIDE DEF h, w
<1>4. Total(h) = n * x
  <2> HIDE DEF x, n
  <2> QED BY <1>1, <1>3, TotalConstant
<1>5. Total(h) = (IF class = m THEN n ELSE 0)
  <2> HIDE DEF n
  <2>1. n * 1 = n /\ n * 0 = 0
    BY <1>1
  <2> QED BY <1>4, <2>1
<1>6. CASE run = <<>>
  <2>1. n = 0
    BY <1>6
  <2> QED BY <1>2, <1>5, <1>6, <2>1 DEF w
<1>7. CASE run # <<>>
  <2>1. Mask(run[1]) = class
    BY <1>7, NotEmpty DEF Range
  <2> QED BY <1>1, <1>2, <1>5, <1>7, <2>1 DEF RunHolds, w
<1> QED BY <1>6, <1>7

\* The sequence of the operations of A, which are some of ops.
PartOf(ops, A, s) ==
  /\ IsSequence(s) /\ Range(s) = A
  /\ \A w : Weighs(ops, w) => Weigh(s, w) = Total([k \in DOMAIN ops |-> IF ops[k] \in A THEN w[ops[k]] ELSE 0])

\* It is what filtering leaves.
LEMMA FilteredPart ==
  ASSUME NEW ops, IsSequence(ops), NEW A, A \subseteq Range(ops),
         NEW f, f = Kept(ops, A)
  PROVE  PartOf(ops, A, FlattenSeq(f))
<1>1. IsSequence(FlattenSeq(f)) /\ Range(FlattenSeq(f)) = A
  <2>1. IsSequence(FlattenSeq(f)) /\ Range(FlattenSeq(f)) = Range(ops) \cap A
    BY Filtered
  <2> QED BY <2>1
<1>2. \A w : Weighs(ops, w) => Weigh(FlattenSeq(f), w) = Total([k \in DOMAIN ops |-> IF ops[k] \in A THEN w[ops[k]] ELSE 0])
  <2> SUFFICES ASSUME NEW w, Weighs(ops, w)
               PROVE  Weigh(FlattenSeq(f), w) = Total([k \in DOMAIN ops |-> IF ops[k] \in A THEN w[ops[k]] ELSE 0])
    OBVIOUS
  <2> QED BY FilteredWeigh
<1> QED BY <1>1, <1>2 DEF PartOf

\* Parts that are disjoint and cover everything weigh what it weighs.
LEMMA ThreeParts ==
  ASSUME NEW ops, NEW w, Weighs(ops, w), NEW A, NEW B, NEW C, Range(ops) = A \cup B \cup C,
         A \cap B = {}, (A \cup B) \cap C = {},
         NEW a, PartOf(ops, A, a), NEW b, PartOf(ops, B, b), NEW c, PartOf(ops, C, c)
  PROVE  Weigh(ops, w) = (Weigh(a, w) + Weigh(b, w)) + Weigh(c, w)
<1> DEFINE In(T) == [k \in DOMAIN ops |-> IF ops[k] \in T THEN w[ops[k]] ELSE 0]
           n == Len(ops)
<1>1. n \in Nat /\ DOMAIN ops = 1 .. n /\ \A k \in 1 .. n : w[ops[k]] \in Nat /\ ops[k] \in Range(ops)
  BY SequenceDomain DEF Weighs, Range
<1>2. ASSUME NEW T PROVE Counts(In(T)) /\ DOMAIN In(T) = DOMAIN ops
  <2> DEFINE f == In(T)
  <2>1. DOMAIN f = 1 .. n /\ f = [k \in 1 .. n |-> f[k]] /\ \A k \in 1 .. n : f[k] \in Nat
    BY <1>1
  <2> HIDE DEF f
  <2>2. Counts(f) /\ DOMAIN f = DOMAIN ops
    BY <1>1, <2>1, MakeSequence DEF Counts
  <2> QED BY <2>2 DEF f
<1>3. \A T : \A k \in DOMAIN ops : In(T)[k] = IF ops[k] \in T THEN w[ops[k]] ELSE 0
  OBVIOUS
<1>4. Weigh(a, w) = Total(In(A)) /\ Weigh(b, w) = Total(In(B)) /\ Weigh(c, w) = Total(In(C))
  BY DEF PartOf
<1>5. [k \in DOMAIN ops |-> w[ops[k]]] = In(Range(ops))
  BY <1>1
<1>6. Weigh(ops, w) = Total(In(Range(ops)))
  BY <1>5 DEF Weigh
<1> HIDE DEF In
<1>7. Total(In(A \cup B)) = Total(In(A)) + Total(In(B))
  <2>1. \A k \in DOMAIN In(A) : In(A \cup B)[k] = In(A)[k] + In(B)[k]
    <3> SUFFICES ASSUME NEW k \in DOMAIN ops PROVE In(A \cup B)[k] = In(A)[k] + In(B)[k]
      BY <1>2
    <3>1. w[ops[k]] \in Nat
      BY <1>1
    <3>2. CASE ops[k] \in A
      BY <1>3, <3>1, <3>2
    <3>3. CASE ops[k] \in B
      BY <1>3, <3>1, <3>3
    <3>4. CASE ops[k] \notin A \cup B
      BY <1>3, <3>4
    <3> QED BY <3>2, <3>3, <3>4
  <2>2. DOMAIN In(A) = DOMAIN ops /\ DOMAIN In(B) = DOMAIN ops /\ DOMAIN In(A \cup B) = DOMAIN ops
        /\ Counts(In(A)) /\ Counts(In(B))
    BY <1>2
  <2> QED BY ONLY <2>1, <2>2, TotalSum
<1>8. Total(In(Range(ops))) = Total(In(A \cup B)) + Total(In(C))
  <2>1. \A k \in DOMAIN In(A \cup B) : In(Range(ops))[k] = In(A \cup B)[k] + In(C)[k]
    <3> SUFFICES ASSUME NEW k \in DOMAIN ops PROVE In(Range(ops))[k] = In(A \cup B)[k] + In(C)[k]
      BY <1>2
    <3>1. w[ops[k]] \in Nat /\ ops[k] \in Range(ops)
      BY <1>1
    <3>2. CASE ops[k] \in A \cup B
      BY <1>3, <3>1, <3>2
    <3>3. CASE ops[k] \in C
      BY <1>3, <3>1, <3>3
    <3> QED BY <3>1, <3>2, <3>3
  <2>2. DOMAIN In(A \cup B) = DOMAIN ops /\ DOMAIN In(C) = DOMAIN ops /\ DOMAIN In(Range(ops)) = DOMAIN ops
        /\ Counts(In(A \cup B)) /\ Counts(In(C))
    BY <1>2
  <2> QED BY ONLY <2>1, <2>2, TotalSum
<1> QED BY <1>4, <1>6, <1>7, <1>8

\* The runs are those of the parts A, B and C of the operations that are not empty,
\* and each part is of one class.
ThreeRuns(ops, runs, A, B, C, a, b, c) ==
  /\ Range(ops) = A \cup B \cup C /\ A \cap B = {} /\ (A \cup B) \cap C = {}
  /\ PartOf(ops, A, a) /\ PartOf(ops, B, b) /\ PartOf(ops, C, c)
  /\ \A i \in A \cup C : Mask(i) = "VALU"
  /\ \A i \in B : Mask(i) = "TRANS"
  /\ runs = FlattenSeq([k \in 1 .. 3 |-> IF <<a, b, c>>[k] # <<>> THEN <<<<a, b, c>>[k]>> ELSE <<>>])

\* There are such parts.
LEMMA RunsAre ==
  ASSUME NEW ops, IsSequence(ops), NEW anc
  PROVE  \E A, B, C, a, b, c : ThreeRuns(ops, Runs(ops, anc), A, B, C, a, b, c)
<1> DEFINE UsesTrans(i) == DependsOnAny(anc, i, Ids(Those(ops, IsTrans)))
           Before(i)    == ~IsTrans(i) /\ ~UsesTrans(i)
           After(i)     == ~IsTrans(i) /\ UsesTrans(i)
           NonEmpty(run) == run # <<>>
           A == {i \in Range(ops) : Before(i)}
           B == {i \in Range(ops) : IsTrans(i)}
           C == {i \in Range(ops) : After(i)}
           a == Those(ops, Before)
           b == Those(ops, IsTrans)
           c == Those(ops, After)
           all == <<a, b, c>>
<1>1. PartOf(ops, A, a)
  <2> DEFINE f == [k \in DOMAIN ops |-> IF Before(ops[k]) THEN <<ops[k]>> ELSE <<>>]
  <2>1. a = FlattenSeq(f)
    BY DEF Those
  <2> HIDE DEF Before
  <2>2. A \subseteq Range(ops) /\ f = Kept(ops, A)
    BY DEF Kept, Range
  <2> HIDE DEF f, A, a
  <2>3. PartOf(ops, A, FlattenSeq(f))
    BY ONLY IsSequence(ops), <2>2, FilteredPart
  <2> QED BY <2>1, <2>3
<1>2. PartOf(ops, B, b)
  <2> DEFINE f == [k \in DOMAIN ops |-> IF IsTrans(ops[k]) THEN <<ops[k]>> ELSE <<>>]
  <2>1. b = FlattenSeq(f)
    BY DEF Those
  <2>2. B \subseteq Range(ops) /\ f = Kept(ops, B)
    BY DEF Kept, Range
  <2> HIDE DEF f, B, b
  <2>3. PartOf(ops, B, FlattenSeq(f))
    BY ONLY IsSequence(ops), <2>2, FilteredPart
  <2> QED BY <2>1, <2>3
<1>3. PartOf(ops, C, c)
  <2> DEFINE f == [k \in DOMAIN ops |-> IF After(ops[k]) THEN <<ops[k]>> ELSE <<>>]
  <2>1. c = FlattenSeq(f)
    BY DEF Those
  <2> HIDE DEF After
  <2>2. C \subseteq Range(ops) /\ f = Kept(ops, C)
    BY DEF Kept, Range
  <2> HIDE DEF f, C, c
  <2>3. PartOf(ops, C, FlattenSeq(f))
    BY ONLY IsSequence(ops), <2>2, FilteredPart
  <2> QED BY <2>1, <2>3
<1>4. /\ Range(ops) = A \cup B \cup C /\ A \cap B = {} /\ (A \cup B) \cap C = {}
      /\ \A i \in A \cup C : ~IsTrans(i)
      /\ \A i \in B : IsTrans(i)
  <2> HIDE DEF UsesTrans
  <2> QED OBVIOUS
<1>5. Runs(ops, anc) = Those(all, NonEmpty)
  BY DEF Runs
<1> HIDE DEF a, b, c, A, B, C
<1>6. /\ \A i \in A \cup C : Mask(i) = "VALU"
      /\ \A i \in B : Mask(i) = "TRANS"
  BY <1>4 DEF Mask
<1>7. DOMAIN all = 1 .. 3
  OBVIOUS
<1>8. Runs(ops, anc) = FlattenSeq([k \in 1 .. 3 |-> IF all[k] # <<>> THEN <<all[k]>> ELSE <<>>])
  <2> HIDE DEF all
  <2> QED BY <1>5, <1>7 DEF Those
<1>9. ThreeRuns(ops, Runs(ops, anc), A, B, C, a, b, c)
  BY <1>1, <1>2, <1>3, <1>4, <1>6, <1>8 DEF ThreeRuns
<1> QED BY <1>9

\* Every operation is in one of the runs, with others of its class.
LEMMA RunsHold ==
  ASSUME NEW ops, IsSequence(ops), NEW anc, NEW m
  PROVE  LET runs == Runs(ops, anc)
         IN  /\ IsSequence(runs) /\ \A r \in DOMAIN runs : IsSequence(runs[r])
             /\ Total([r \in DOMAIN runs |-> RunHolds(runs[r], m)]) = Weigh(ops, OfClass(Range(ops), m))
<1> DEFINE runs == Runs(ops, anc)
           w == OfClass(Range(ops), m)
<1>0. PICK A, B, C, a, b, c : ThreeRuns(ops, runs, A, B, C, a, b, c)
  BY RunsAre
<1> HIDE DEF runs
<1>1. /\ Range(ops) = A \cup B \cup C /\ A \cap B = {} /\ (A \cup B) \cap C = {}
      /\ PartOf(ops, A, a) /\ PartOf(ops, B, b) /\ PartOf(ops, C, c)
      /\ \A i \in A \cup C : Mask(i) = "VALU"
      /\ \A i \in B : Mask(i) = "TRANS"
      /\ runs = FlattenSeq([k \in 1 .. 3 |-> IF <<a, b, c>>[k] # <<>> THEN <<<<a, b, c>>[k]>> ELSE <<>>])
  BY <1>0 DEF ThreeRuns
<1> DEFINE all  == <<a, b, c>>
           kept == {run \in Range(all) : run # <<>>}
           rw == [run \in Range(all) |-> IF run # <<>> THEN RunHolds(run, m) ELSE 0]
           f == [k \in DOMAIN all |-> IF all[k] \in kept THEN <<all[k]>> ELSE <<>>]
           h == [k \in DOMAIN all |-> IF all[k] \in kept THEN rw[all[k]] ELSE 0]
<1>2. /\ IsSequence(a) /\ Range(a) = A /\ IsSequence(b) /\ Range(b) = B
      /\ IsSequence(c) /\ Range(c) = C
  BY <1>1 DEF PartOf
<1>3. /\ Weigh(a, w) = IF a # <<>> THEN RunHolds(a, m) ELSE 0
      /\ Weigh(a, w) \in Nat
  BY <1>1, <1>2, RunOfClass
<1>4. /\ Weigh(b, w) = IF b # <<>> THEN RunHolds(b, m) ELSE 0
      /\ Weigh(b, w) \in Nat
  BY <1>1, <1>2, RunOfClass
<1>5. /\ Weigh(c, w) = IF c # <<>> THEN RunHolds(c, m) ELSE 0
      /\ Weigh(c, w) \in Nat
  BY <1>1, <1>2, RunOfClass
<1>6. /\ IsSequence(all) /\ DOMAIN all = 1 .. 3 /\ Range(all) = {a, b, c}
      /\ all[1] = a /\ all[2] = b /\ all[3] = c
  BY DEF IsSequence, Range
<1>7. Weighs(ops, w)
  BY DEF Weighs, OfClass, Range
<1>8. runs = FlattenSeq([k \in 1 .. 3 |-> IF all[k] # <<>> THEN <<all[k]>> ELSE <<>>])
  BY <1>1
<1> HIDE DEF all, w
<1>9. rw[a] = Weigh(a, w) /\ rw[b] = Weigh(b, w) /\ rw[c] = Weigh(c, w)
  BY <1>3, <1>4, <1>5, <1>6
<1>10. /\ \A k \in 1 .. 3 : all[k] \in kept <=> all[k] # <<>>
       /\ \A k \in 1 .. 3 : all[k] \notin kept => rw[all[k]] = 0
       /\ \A run \in kept : rw[run] = RunHolds(run, m)
  BY <1>6 DEF Range
<1> HIDE DEF rw
<1>11. Weighs(all, rw)
  <2>1. \A k \in 1 .. 3 : k = 1 \/ k = 2 \/ k = 3
    OBVIOUS
  <2> QED BY <1>3, <1>4, <1>5, <1>6, <1>9, <2>1 DEF Weighs
<1>12. runs = FlattenSeq(f)
  BY <1>6, <1>8, <1>10
<1>13. Weighs(runs, rw) /\ Weigh(runs, rw) = Total(h)
  <2>1. f = Kept(all, kept)
    BY DEF Kept
  <2>2. h = [k \in DOMAIN all |-> IF all[k] \in kept THEN rw[all[k]] ELSE 0]
    OBVIOUS
  <2> HIDE DEF f, h, kept
  <2>3. /\ Weighs(FlattenSeq(f), rw)
        /\ Weigh(FlattenSeq(f), rw) = Total([k \in DOMAIN all |-> IF all[k] \in kept THEN rw[all[k]] ELSE 0])
    BY ONLY <1>11, <2>1, FilteredWeigh
  <2> QED BY <1>12, <2>2, <2>3
<1>14. Range(runs) = Range(all) \cap kept
  <2>1. f = Kept(all, kept)
    BY DEF Kept
  <2> HIDE DEF f, kept
  <2>2. Range(FlattenSeq(f)) = Range(all) \cap kept
    BY ONLY <1>11, <2>1, Filtered DEF Weighs
  <2> QED BY <1>12, <2>2
<1>15. [r \in DOMAIN runs |-> RunHolds(runs[r], m)] = [r \in DOMAIN runs |-> rw[runs[r]]]
  <2>1. \A r \in DOMAIN runs : runs[r] \in kept
    BY <1>14 DEF Range
  <2> HIDE DEF kept
  <2> QED BY <1>10, <2>1
<1>16. /\ DOMAIN h = 1 .. 3
       /\ h[1] = Weigh(a, w) /\ h[2] = Weigh(b, w) /\ h[3] = Weigh(c, w)
  <2>1. DOMAIN h = 1 .. 3 /\ 1 \in 1 .. 3 /\ 2 \in 1 .. 3 /\ 3 \in 1 .. 3
    BY <1>6
  <2>2. \A k \in 1 .. 3 : h[k] = rw[all[k]]
    <3> HIDE DEF kept
    <3> QED BY <1>6, <1>10
  <2> HIDE DEF h
  <2> QED BY <1>6, <1>9, <2>1, <2>2
<1> HIDE DEF h
<1>17. Total(h) = (Weigh(a, w) + Weigh(b, w)) + Weigh(c, w)
  BY <1>3, <1>4, <1>5, <1>16, TotalThree
<1>18. Weigh(ops, w) = (Weigh(a, w) + Weigh(b, w)) + Weigh(c, w)
  BY ONLY <1>1, <1>7, ThreeParts
<1>19. Total([r \in DOMAIN runs |-> RunHolds(runs[r], m)]) = Weigh(ops, w)
  BY <1>13, <1>15, <1>17, <1>18 DEF Weigh
<1>20. IsSequence(runs) /\ \A r \in DOMAIN runs : IsSequence(runs[r])
  BY <1>2, <1>6, <1>13, <1>14 DEF Weighs, Range
<1> QED BY <1>19, <1>20 DEF runs, w

-----------------------------------------------------------------------------
(* What is laid out in slots.                                              *)

\* The cost of an operation.
LEMMA CyclesType == \A i : Cycles(i) \in Nat
BY DEF Cycles, ValuWeight

\* A slot holds the operation, or its parts.
LEMMA SlotHolds ==
  ASSUME NEW i, NEW bought, NEW m
  PROVE  /\ Slot(i, bought) \in Bundles
         /\ Contents(m)[Slot(i, bought)] = IF Mask(i) = m THEN Issues(i, bought) ELSE 0
         /\ Issues(i, bought) \in Nat
<1> DEFINE run == IF Covered(i, bought) THEN 1 ELSE 0
           cost == Cycles(i)
           n == Issues(i, bought)
           b == Slot(i, bought)
<1>1. b = [run |-> run, cost |-> cost, chunks |-> <<Group(Mask(i), n)>>]
  BY DEF Slot
<1>2. run \in Nat /\ cost \in Nat /\ n \in Nat
  BY CyclesType DEF Issues, Elements
<1> HIDE DEF run, cost, n, b
<1>3. b \in Bundles /\ Contents(m)[b] = IF Mask(i) = m THEN n ELSE 0
  BY <1>1, <1>2, OneGroup
<1> QED BY <1>2, <1>3 DEF b, n

\* A further slot brings what it holds.
LEMMA PutInSlotHolds ==
  ASSUME NEW slots \in Seq(Bundles), NEW s \in Bundles, NEW window, NEW m
  PROVE  /\ PutInSlot(slots, s, window) \in Seq(Bundles)
         /\ Weigh(PutInSlot(slots, s, window), Contents(m)) = Weigh(slots, Contents(m)) + Contents(m)[s]
<1> DEFINE w == Contents(m)
           after == PutInSlot(slots, s, window)
<1>1. w[s] \in Nat
  BY BundleOf
<1>2. \A t \in Seq(Bundles) : Weighs(t, w) /\ Weigh(t, w) \in Nat
  BY BundlesWeigh
<1>3. \A t \in Seq(Bundles), b \in Bundles :
         Append(t, b) \in Seq(Bundles) /\ Weigh(Append(t, b), w) = Weigh(t, w) + w[b]
  <2> TAKE t \in Seq(Bundles), b \in Bundles
  <2>1. Weighs(t, w) /\ w[b] \in Nat
    BY <1>2, BundleOf
  <2> HIDE DEF w
  <2> QED BY <2>1, WeighAppend
<1>4. CASE after = Append(slots, s)
  <2> HIDE DEF w, after
  <2>1. after \in Seq(Bundles) /\ Weigh(after, w) = Weigh(slots, w) + w[s]
    BY <1>3, <1>4
  <2> QED BY <2>1 DEF w, after
<1>5. CASE slots # <<>> /\ after = Append(Front(slots), JoinedBundle(Last(slots), s))
  <2> DEFINE front == Front(slots)
             last == Last(slots)
             b == JoinedBundle(last, s)
  <2>1. front \in Seq(Bundles) /\ last \in Bundles /\ slots = Append(front, last)
    BY <1>5, FrontAndLast
  <2>2. after = Append(front, b)
    BY <1>5
  <2> HIDE DEF front, last
  <2>3. b \in Bundles /\ w[b] = w[last] + w[s]
    BY <2>1, JoinedHolds
  <2>4. Weigh(front, w) \in Nat /\ w[last] \in Nat
    BY <1>2, <2>1, BundleOf
  <2> HIDE DEF b, w, after
  <2>5. after \in Seq(Bundles) /\ Weigh(after, w) = Weigh(front, w) + w[b]
    BY <1>3, <2>1, <2>2, <2>3
  <2>6. Weigh(slots, w) = Weigh(front, w) + w[last]
    BY <1>3, <2>1
  <2>7. Weigh(front, w) + (w[last] + w[s]) = (Weigh(front, w) + w[last]) + w[s]
    <3>1. \A x, y, z \in Nat : x + (y + z) = (x + y) + z
      OBVIOUS
    <3> QED BY <1>1, <2>4, <3>1
  <2>8. Weigh(after, w) = Weigh(slots, w) + w[s]
    BY <2>3, <2>5, <2>6, <2>7
  <2> QED BY <2>5, <2>8 DEF w, after
<1>6. after = Append(slots, s) \/ (slots # <<>> /\ after = Append(Front(slots), JoinedBundle(Last(slots), s)))
  BY DEF PutInSlot
<1> QED BY <1>4, <1>5, <1>6

\* The operations of A, by their class; those that are bought count for each part.
IssuesOf(A, bought, m) == [i \in A |-> IF Mask(i) = m THEN Issues(i, bought) ELSE 0]

\* The slots c has room for hold the first k operations.
LaidOut(c, k, v) == v \in Seq(Bundles) /\ Weigh(v, Contents(c.m)) = c.S[k]
PutNextSlot(c, slots, i) == PutInSlot(slots, Slot(i, c.bought), c.window)
SlotLayouts == INSTANCE FoldFacts WITH Op <- PutNextSlot, Inv <- LaidOut

\* Every operation is in one of the slots.
LEMMA SlotsHold ==
  ASSUME NEW ops, IsSequence(ops), NEW bought, NEW window, NEW m
  PROVE  /\ Slots(ops, bought, window) \in Seq(Bundles)
         /\ Weigh(Slots(ops, bought, window), Contents(m)) = Weigh(ops, IssuesOf(Range(ops), bought, m))
<1> DEFINE w == IssuesOf(Range(ops), bought, m)
           n == Len(ops)
<1>1. n \in Nat /\ DOMAIN ops = 1 .. n
  BY SequenceDomain
<1>2. \A k \in 1 .. n : /\ w[ops[k]] = IF Mask(ops[k]) = m THEN Issues(ops[k], bought) ELSE 0
                        /\ w[ops[k]] \in Nat
  BY <1>1, SlotHolds DEF IssuesOf, Range
<1> HIDE DEF w, n
<1>3. Weighs(ops, w)
  BY <1>1, <1>2 DEF Weighs
<1>4. PICK S : /\ S[0] = 0 /\ \A k \in 1 .. n : S[k] = S[k - 1] + w[ops[k]]
               /\ \A k \in 0 .. n : S[k] \in Nat
               /\ Weigh(ops, w) = S[n]
  BY <1>3, WeighPartial DEF n
<1> DEFINE c == [m |-> m, bought |-> bought, window |-> window, S |-> S]
           end == SlotLayouts!FromLeft(c, <<>>, ops)
<1>5. c.m = m /\ c.bought = bought /\ c.window = window /\ c.S = S
  OBVIOUS
<1>6. Slots(ops, bought, window) = end
  BY DEF SlotLayouts!FromLeft, SlotLayouts!FoldLeft, SlotLayouts!MapThenFoldSet, SlotLayouts!Max, PutNextSlot,
         Slots, FoldLeft, MapThenFoldSet, Max
<1> HIDE DEF c
<1>7. LaidOut(c, 0, <<>>)
  <2>1. <<>> \in Seq(Bundles) /\ Weigh(<<>>, Contents(m)) = 0
    BY WeighOne
  <2> QED BY <1>4, <1>5, <2>1 DEF LaidOut
<1>8. ASSUME NEW k \in 1 .. n, NEW v, LaidOut(c, k - 1, v)
      PROVE  LaidOut(c, k, PutNextSlot(c, v, ops[k]))
  <2> DEFINE s == Slot(ops[k], bought)
  <2>1. v \in Seq(Bundles) /\ Weigh(v, Contents(m)) = S[k - 1]
    BY <1>5, <1>8 DEF LaidOut
  <2>2. s \in Bundles /\ Contents(m)[s] = w[ops[k]]
    BY <1>2, SlotHolds
  <2> HIDE DEF s
  <2>3. /\ PutInSlot(v, s, window) \in Seq(Bundles)
        /\ Weigh(PutInSlot(v, s, window), Contents(m)) = Weigh(v, Contents(m)) + Contents(m)[s]
    BY <2>1, <2>2, PutInSlotHolds
  <2>4. Weigh(PutInSlot(v, s, window), Contents(m)) = S[k]
    BY <1>4, <2>1, <2>2, <2>3
  <2> QED BY <1>5, <2>3, <2>4 DEF LaidOut, PutNextSlot, s
<1>9. LaidOut(c, n, end)
  <2>1. \A k \in 1 .. n : \A v : LaidOut(c, k - 1, v) => LaidOut(c, k, PutNextSlot(c, v, ops[k]))
    BY <1>8
  <2> QED BY ONLY <1>1, <1>7, <2>1, SlotLayouts!FoldLeftKeeps
<1> HIDE DEF end
<1>10. end \in Seq(Bundles) /\ Weigh(end, Contents(m)) = Weigh(ops, w)
  BY <1>4, <1>5, <1>9 DEF LaidOut
<1> QED BY <1>6, <1>10 DEF w

-----------------------------------------------------------------------------
(* The pipeline of a span.                                                 *)

\* The groups beyond a limit.
LEMMA ExcessType ==
  ASSUME NEW n \in Int, NEW limit \in Int
  PROVE  Excess(n, limit) \in Nat
<1> DEFINE d == n - limit
<1>1. d \in Int
  OBVIOUS
<1> HIDE DEF d
<1>2. \E m \in {0, d} : \A y \in {0, d} : m >= y
  <2>1. CASE d >= 0
    BY <1>1, <2>1
  <2>2. CASE ~(d >= 0)
    BY <1>1, <2>2
  <2> QED BY <2>1, <2>2
<1>3. Max({0, d}) \in {0, d} /\ Max({0, d}) >= 0
  BY <1>2 DEF Max
<1> QED BY <1>1, <1>3 DEF Excess, d

\* The groups of a pipeline hold just the operations of the span, those that are
\* split for each of their parts.
LEMMA DecideHolds ==
  ASSUME NEW ops, IsSequence(ops), NEW anc, NEW mfmas \in Nat, NEW window,
         NEW m, m # "MFMA"
  PROVE  LET d == Decide(ops, anc, mfmas, window)
         IN  /\ d.pipeline \in Seq(Groups)
             /\ Weigh(d.pipeline, InClass(m)) = Weigh(ops, IssuesOf(Range(ops), d.split, m))
<1> DEFINE d == Decide(ops, anc, mfmas, window)
<1>0. mfmas \in Int
  OBVIOUS
<1>1. CASE CyclesOf(ops) > window * mfmas
  <2> DEFINE bought == OverCapBought(ops, mfmas, window)
             slots == Slots(ops, bought, window)
             n == Excess(Windows(slots), mfmas)
             merged == MergedSlots(slots, mfmas)
  <2>1. d = [split |-> bought, pipeline |-> DeclareOverCap(ops, bought, mfmas, window)]
    BY <1>1 DEF Decide
  <2> HIDE DEF bought
  <2>2. slots \in Seq(Bundles) /\ Weigh(slots, Contents(m)) = Weigh(ops, IssuesOf(Range(ops), bought, m))
    BY SlotsHold
  <2>3. merged = MergeCheapest(slots, n) /\ DeclareOverCap(ops, bought, mfmas, window) = EmitSlots(merged, mfmas)
    BY DEF DeclareOverCap, MergedSlots
  <2> HIDE DEF slots, merged
  <2>4. n \in Nat
    <3>1. Windows(slots) \in Int
      BY <2>2, SequenceOver, WindowsType
    <3> QED BY ONLY <1>0, <3>1, ExcessType
  <2> HIDE DEF n
  <2>5. merged \in Seq(Bundles) /\ Weigh(merged, Contents(m)) = Weigh(slots, Contents(m))
    BY <2>2, <2>3, <2>4, MergeCheapestHolds
  <2>6. /\ EmitSlots(merged, mfmas) \in Seq(Groups)
        /\ Weigh(EmitSlots(merged, mfmas), InClass(m)) = Weigh(merged, Contents(m))
    BY <1>0, <2>5, EmitSlotsHolds
  <2>7. d.split = bought /\ d.pipeline = EmitSlots(merged, mfmas)
    BY <2>1, <2>3
  <2> HIDE DEF d
  <2> QED BY <2>2, <2>5, <2>6, <2>7 DEF d
<1>2. CASE ~(CyclesOf(ops) > window * mfmas)
  <2> DEFINE runs == Runs(ops, anc)
             groups == Packed(runs, window)
             n == Excess(Len(groups), mfmas)
             merged == MergedGroups(groups, mfmas)
  <2>1. d = [split |-> {}, pipeline |-> DeclareFitting(ops, anc, mfmas, window)]
    BY <1>2 DEF Decide
  <2>2. groups \in Seq(Bundles) /\ Weigh(groups, Contents(m)) = Total([r \in DOMAIN runs |-> RunHolds(runs[r], m)])
    <3>1. IsSequence(runs) /\ \A r \in DOMAIN runs : IsSequence(runs[r])
      BY RunsHold
    <3> HIDE DEF runs
    <3> QED BY <3>1, PackedHolds
  <2>3. Weigh(groups, Contents(m)) = Weigh(ops, OfClass(Range(ops), m))
    BY <2>2, RunsHold
  <2>4. merged = MergeCheapest(groups, n) /\ DeclareFitting(ops, anc, mfmas, window) = EmitGroups(merged, mfmas)
    BY DEF DeclareFitting, MergedGroups
  <2> HIDE DEF groups, merged
  <2>5. n \in Nat
    <3>1. Len(groups) \in Int
      BY <2>2
    <3> QED BY ONLY <1>0, <3>1, ExcessType
  <2> HIDE DEF n
  <2>6. merged \in Seq(Bundles) /\ Weigh(merged, Contents(m)) = Weigh(groups, Contents(m))
    BY <2>2, <2>4, <2>5, MergeCheapestHolds
  <2>7. /\ EmitGroups(merged, mfmas) \in Seq(Groups)
        /\ Weigh(EmitGroups(merged, mfmas), InClass(m)) = Weigh(merged, Contents(m))
    BY <1>0, <2>6, EmitGroupsHolds
  <2>8. d.split = {} /\ d.pipeline = EmitGroups(merged, mfmas)
    BY <2>1, <2>4
  <2>9. OfClass(Range(ops), m) = IssuesOf(Range(ops), {}, m)
    BY DEF OfClass, IssuesOf, Issues
  <2> HIDE DEF d
  <2> QED BY <2>3, <2>6, <2>7, <2>8, <2>9 DEF d
<1> QED BY <1>1, <1>2

\* What a span issues, and its mfmas.
LEMMA IssuedSequence ==
  ASSUME NEW code, NEW s, IsSequence(s)
  PROVE  /\ IsSequence(Issued(code, s))
         /\ Range(Issued(code, s)) = {i \in Range(s) : IsValu(i) /\ i.id \notin Max3Folded(code, s)}
<1> DEFINE folded == Max3Folded(code, s)
           Wanted(i) == IsValu(i) /\ i.id \notin folded
           T == {i \in Range(s) : Wanted(i)}
           f == [k \in DOMAIN s |-> IF Wanted(s[k]) THEN <<s[k]>> ELSE <<>>]
<1>1. Issued(code, s) = FlattenSeq(f)
  BY DEF Issued, Those
<1> HIDE DEF Wanted
<1>2. f = Kept(s, T)
  BY DEF Kept, Range
<1>3. T \subseteq Range(s)
  OBVIOUS
<1> HIDE DEF f, T
<1>4. IsSequence(FlattenSeq(f)) /\ Range(FlattenSeq(f)) = Range(s) \cap T
  BY ONLY IsSequence(s), <1>2, Filtered
<1> QED BY <1>1, <1>3, <1>4 DEF T, Wanted

\* Its mfmas are those of its instructions that are.
LEMMA MfmasSequence ==
  ASSUME NEW s, IsSequence(s)
  PROVE  IsSequence(Mfmas(s)) /\ Range(Mfmas(s)) = {i \in Range(s) : IsMfma(i)}
<1> DEFINE T == {i \in Range(s) : IsMfma(i)}
           f == [k \in DOMAIN s |-> IF IsMfma(s[k]) THEN <<s[k]>> ELSE <<>>]
<1>1. Mfmas(s) = FlattenSeq(f)
  BY DEF Mfmas, Those
<1>2. f = Kept(s, T)
  BY DEF Kept, Range
<1>3. T \subseteq Range(s)
  OBVIOUS
<1> HIDE DEF f, T
<1>4. IsSequence(FlattenSeq(f)) /\ Range(FlattenSeq(f)) = Range(s) \cap T
  BY ONLY IsSequence(s), <1>2, Filtered
<1> QED BY <1>1, <1>3, <1>4 DEF T

\* No span is declared with a pipeline that is empty: that would not hold the last
\* operation it issues.
LEMMA DeclaredFilled ==
  ASSUME NEW code, NEW s, IsSequence(s), Declares(code, s)
  PROVE  DOMAIN DeclareRegionGroups(code, s).pipeline # {}
<1> DEFINE ops == Issued(code, s)
           mfmas == Len(Mfmas(s))
           d == DeclareRegionGroups(code, s)
           pipeline == d.pipeline
           front == Front(ops)
           last == Last(ops)
           m == Mask(last)
           w == IssuesOf(Range(ops), d.split, m)
<1>1. IsSequence(ops) /\ ops # <<>>
  BY IssuedSequence DEF Declares
<1>2. mfmas \in Nat
  BY MfmasSequence, SequenceDomain
<1>3. d = Decide(ops, Ancestors(s), mfmas, Window(s))
  BY DEF DeclareRegionGroups
<1> HIDE DEF ops, mfmas, d
<1>4. front \in Seq(Range(ops)) /\ last \in Range(ops) /\ ops = Append(front, last)
  BY <1>1, FrontAndLast DEF IsSequence
<1>5. pipeline \in Seq(Groups) /\ Weigh(pipeline, InClass(m)) = Weigh(ops, w)
  <2>1. m # "MFMA"
    BY DEF Mask
  <2> DEFINE e == Decide(ops, Ancestors(s), mfmas, Window(s))
  <2> HIDE DEF m
  <2>2. /\ e.pipeline \in Seq(Groups)
        /\ Weigh(e.pipeline, InClass(m)) = Weigh(ops, IssuesOf(Range(ops), e.split, m))
    BY ONLY <1>1, <1>2, <2>1, DecideHolds
  <2> HIDE DEF e
  <2> QED BY <1>3, <2>2 DEF e
<1>6. w[last] \in Nat \ {0} /\ \A i \in Range(ops) : w[i] \in Nat
  <2>1. \A i : Issues(i, d.split) \in Nat \ {0}
    BY DEF Issues, Elements
  <2> QED BY <1>4, <2>1 DEF IssuesOf
<1> HIDE DEF pipeline, w, last, front, m
<1>7. IsSequence(front) /\ \A k \in DOMAIN front : front[k] \in Range(ops)
  BY <1>4, SequenceOver
<1>8. Weighs(front, w)
  BY <1>6, <1>7 DEF Weighs
<1>9. Weigh(front, w) \in Nat
  BY <1>8, WeighCounts
<1>10. Weigh(ops, w) = Weigh(front, w) + w[last]
  BY <1>4, <1>6, <1>8, WeighAppend
<1>11. Weigh(pipeline, InClass(m)) # 0
  BY <1>5, <1>6, <1>9, <1>10
<1>12. pipeline # <<>>
  BY <1>11, WeighOne
<1>13. DOMAIN pipeline # {}
  BY <1>5, <1>12
<1> QED BY <1>13 DEF pipeline, d
=============================================================================
