----------------------------- MODULE FoldFacts -----------------------------
(***************************************************************************)
(* Induction along a sequence, for the folds of the community modules.     *)
(* Theorems with operators for parameters cannot be cited; those of this   *)
(* module can, from an instance that replaces Op and Inv.                  *)
(***************************************************************************)
EXTENDS Integers, SequencesExt, FiniteSetsExt, WellFoundedInduction, TLAPS

CONSTANTS Op(_, _, _),   \* the folded operation: context, result so far, element
          Inv(_, _, _)   \* what is kept: context, number of elements, result so far

FromLeft(c, base, s)  == FoldLeft(LAMBDA v, x : Op(c, v, x), base, s)
FromRight(c, base, s) == FoldRight(LAMBDA x, v : Op(c, v, x), s, base)

\* A set of naturals that is not empty has a least element.
LEMMA LeastElement ==
  ASSUME NEW T, T \subseteq Nat, T # {}
  PROVE  \E x \in T : \A y \in T : x <= y
<1> DEFINE Less == {p \in Nat \X Nat : p[1] < p[2]}
<1>1. IsWellFoundedOn(Less, Nat)
  BY NatLessThanWellFounded DEF OpToRel
<1> HIDE DEF Less
<1>2. PICK x \in T : \A y \in T : <<y, x>> \notin Less
  BY <1>1, WFMin
<1>3. \A y \in T : ~(y < x)
  BY <1>2 DEF Less
<1> QED BY <1>3

\* Induction.
LEMMA UpTo ==
  ASSUME NEW P, NEW n \in Nat, 0 \in P, \A k \in 1 .. n : k - 1 \in P => k \in P
  PROVE  \A k \in 0 .. n : k \in P
<1> SUFFICES ASSUME {k \in 0 .. n : k \notin P} # {} PROVE FALSE
  OBVIOUS
<1>1. PICK m \in {k \in 0 .. n : k \notin P} : \A y \in {k \in 0 .. n : k \notin P} : m <= y
  <2> DEFINE Bad == {k \in 0 .. n : k \notin P}
  <2>1. Bad \subseteq Nat /\ Bad # {}
    OBVIOUS
  <2> HIDE DEF Bad
  <2>2. \E m \in Bad : \A y \in Bad : m <= y
    BY <2>1, LeastElement
  <2> QED BY <2>2 DEF Bad
<1>2. m # 0 /\ m \in 1 .. n /\ m - 1 \in 0 .. n /\ ~(m <= m - 1)
  BY <1>1
<1>3. m - 1 \in P
  BY <1>1, <1>2
<1> QED BY <1>1, <1>2, <1>3

\* The greatest and the least element of an interval.
LEMMA Extremes ==
  ASSUME NEW k \in Nat \ {0}
  PROVE  Max(1 .. k) = k /\ Min(1 .. k) = 1
<1>1. k \in 1 .. k /\ \A y \in 1 .. k : k >= y
  OBVIOUS
<1>2. 1 \in 1 .. k /\ \A y \in 1 .. k : 1 <= y
  OBVIOUS
<1>3. \A x \in 1 .. k : (\A y \in 1 .. k : x >= y) => x = k
  BY <1>1
<1>4. \A x \in 1 .. k : (\A y \in 1 .. k : x <= y) => x = 1
  BY <1>2
<1> QED BY <1>1, <1>2, <1>3, <1>4 DEF Max, Min

\* What a fold from the left keeps at every element, it has in the end.  The
\* recursive function of the fold exists for every beginning of the sequence.
LEMMA FoldLeftKeeps ==
  ASSUME NEW c, NEW base, NEW s, NEW n \in Nat, DOMAIN s = 1 .. n,
         Inv(c, 0, base),
         \A k \in 1 .. n : \A v : Inv(c, k - 1, v) => Inv(c, k, Op(c, v, s[k]))
  PROVE  Inv(c, n, FromLeft(c, base, s))
<1> DEFINE Step(f, T) == IF T = {} THEN base ELSE Op(c, f[T \ {Max(T)}], s[Max(T)])
           IsIter(k, f) == f = [T \in SUBSET (1 .. k) |-> Step(f, T)]
           it == CHOOSE f : f = [T \in SUBSET DOMAIN s |-> Step(f, T)]
<1>1. FromLeft(c, base, s) = it[1 .. n]
  BY DEF FromLeft, FoldLeft, MapThenFoldSet
<1>2. \A k \in 0 .. n : \E f : IsIter(k, f)
  <2> DEFINE P == {k \in 0 .. n : \E f : IsIter(k, f)}
  <2>1. 0 \in P
    <3> DEFINE f == [T \in SUBSET (1 .. 0) |-> base]
    <3>1. SUBSET (1 .. 0) = {{}}
      OBVIOUS
    <3>2. f = [T \in SUBSET (1 .. 0) |-> Step(f, T)]
      BY <3>1
    <3>3. IsIter(0, f)
      BY <3>2
    <3> HIDE DEF f, IsIter
    <3> QED BY <3>3
  <2>2. ASSUME NEW k \in 1 .. n, k - 1 \in P PROVE k \in P
    <3>1. PICK f : IsIter(k - 1, f)
      BY <2>2
    <3> DEFINE g == [T \in SUBSET (1 .. k) |->
                        IF k \in T THEN Op(c, f[T \ {k}], s[k]) ELSE f[T]]
    <3>2. 1 .. k - 1 = (1 .. k) \ {k}
      OBVIOUS
    <3>3. ASSUME NEW T \in SUBSET (1 .. k) PROVE g[T] = Step(g, T)
      <4>1. CASE k \in T
        <5>1. Max(T) = k
          <6>1. \A y \in T : k >= y
            BY <3>3
          <6>2. \A x \in T : (\A y \in T : x >= y) => x = k
            BY <3>3, <4>1, <6>1
          <6> QED BY <4>1, <6>1, <6>2 DEF Max
        <5>2. g[T \ {k}] = f[T \ {k}]
          BY <3>3
        <5> QED BY <3>3, <4>1, <5>1, <5>2
      <4>2. CASE k \notin T
        <5>1. T \in SUBSET (1 .. k - 1)
          BY <3>2, <3>3, <4>2
        <5>2. f[T] = Step(f, T)
          <6> HIDE DEF Step
          <6> QED BY <3>1, <5>1
        <5>3. g[T \ {Max(T)}] = f[T \ {Max(T)}]
          BY <3>3, <4>2
        <5> QED BY <3>3, <4>2, <5>2, <5>3
      <4> QED BY <4>1, <4>2
    <3>4. g = [T \in SUBSET (1 .. k) |-> g[T]]
      OBVIOUS
    <3> HIDE DEF g
    <3>5. IsIter(k, g)
      <4> HIDE DEF Step
      <4> QED BY <3>3, <3>4
    <3> HIDE DEF IsIter
    <3> QED BY <3>5
  <2> HIDE DEF P
  <2>3. \A k \in 0 .. n : k \in P
    BY <2>1, <2>2, UpTo
  <2> QED BY <2>3 DEF P
<1>3. it = [T \in SUBSET (1 .. n) |-> Step(it, T)]
  <2> HIDE DEF Step
  <2>1. \E f : IsIter(n, f)
    <3> HIDE DEF IsIter
    <3> QED BY <1>2
  <2> QED BY <2>1
<1> HIDE DEF it
<1>4. \A k \in 0 .. n : Inv(c, k, it[1 .. k])
  <2> DEFINE P == {k \in 0 .. n : Inv(c, k, it[1 .. k])}
  <2>1. 0 \in P
    <3>1. 1 .. 0 = {} /\ {} \in SUBSET (1 .. n)
      OBVIOUS
    <3>2. it[1 .. 0] = base
      BY <1>3, <3>1
    <3> QED BY <3>2
  <2>2. ASSUME NEW k \in 1 .. n, k - 1 \in P PROVE k \in P
    <3>1. Max(1 .. k) = k /\ (1 .. k) \ {k} = 1 .. k - 1 /\ 1 .. k # {} /\ 1 .. k \in SUBSET (1 .. n)
      BY Extremes
    <3>2. it[1 .. k] = Op(c, it[1 .. k - 1], s[k])
      BY <1>3, <3>1
    <3> QED BY <2>2, <3>2
  <2> HIDE DEF P
  <2>3. \A k \in 0 .. n : k \in P
    BY <2>1, <2>2, UpTo
  <2> QED BY <2>3 DEF P
<1> QED BY <1>1, <1>4

\* The same of a fold from the right.
LEMMA FoldRightKeeps ==
  ASSUME NEW c, NEW base, NEW s, NEW n \in Nat, DOMAIN s = 1 .. n,
         Inv(c, 0, base),
         \A k \in 1 .. n : \A v : Inv(c, k - 1, v) => Inv(c, k, Op(c, v, s[n + 1 - k]))
  PROVE  Inv(c, n, FromRight(c, base, s))
<1> DEFINE End(k) == n + 1 - k .. n
           Step(f, T) == IF T = {} THEN base ELSE Op(c, f[T \ {Min(T)}], s[Min(T)])
           IsIter(k, f) == f = [T \in SUBSET End(k) |-> Step(f, T)]
           it == CHOOSE f : f = [T \in SUBSET DOMAIN s |-> Step(f, T)]
<1>1. FromRight(c, base, s) = it[1 .. n]
  BY DEF FromRight, FoldRight, MapThenFoldSet
<1>2. \A k \in 0 .. n : \E f : IsIter(k, f)
  <2> DEFINE P == {k \in 0 .. n : \E f : IsIter(k, f)}
  <2>1. 0 \in P
    <3> DEFINE f == [T \in SUBSET End(0) |-> base]
    <3>1. SUBSET End(0) = {{}}
      OBVIOUS
    <3>2. f = [T \in SUBSET End(0) |-> Step(f, T)]
      BY <3>1
    <3>3. IsIter(0, f)
      BY <3>2
    <3> HIDE DEF f, IsIter
    <3> QED BY <3>3
  <2>2. ASSUME NEW k \in 1 .. n, k - 1 \in P PROVE k \in P
    <3> DEFINE m == n + 1 - k
    <3>1. PICK f : IsIter(k - 1, f)
      BY <2>2
    <3>2. m \in Nat /\ End(k - 1) = End(k) \ {m} /\ End(k) = m .. n
      OBVIOUS
    <3> HIDE DEF m, End
    <3> DEFINE g == [T \in SUBSET End(k) |->
                        IF m \in T THEN Op(c, f[T \ {m}], s[m]) ELSE f[T]]
    <3>3. ASSUME NEW T \in SUBSET End(k) PROVE g[T] = Step(g, T)
      <4>1. CASE m \in T
        <5>1. Min(T) = m
          <6>1. \A y \in T : m <= y
            BY <3>2, <3>3
          <6>2. \A x \in T : (\A y \in T : x <= y) => x = m
            BY <3>2, <3>3, <4>1, <6>1
          <6> QED BY <4>1, <6>1, <6>2 DEF Min
        <5>2. g[T \ {m}] = f[T \ {m}]
          BY <3>3
        <5> QED BY <3>3, <4>1, <5>1, <5>2
      <4>2. CASE m \notin T
        <5>1. T \in SUBSET End(k - 1)
          BY <3>2, <3>3, <4>2
        <5>2. f[T] = Step(f, T)
          <6> HIDE DEF Step
          <6> QED BY <3>1, <5>1
        <5>3. g[T \ {Min(T)}] = f[T \ {Min(T)}]
          BY <3>3, <4>2
        <5> QED BY <3>3, <4>2, <5>2, <5>3
      <4> QED BY <4>1, <4>2
    <3>4. g = [T \in SUBSET End(k) |-> g[T]]
      OBVIOUS
    <3> HIDE DEF g
    <3>5. IsIter(k, g)
      <4> HIDE DEF Step
      <4> QED BY <3>3, <3>4
    <3> HIDE DEF IsIter
    <3> QED BY <3>5
  <2> HIDE DEF P
  <2>3. \A k \in 0 .. n : k \in P
    BY <2>1, <2>2, UpTo
  <2> QED BY <2>3 DEF P
<1>3. it = [T \in SUBSET (1 .. n) |-> Step(it, T)]
  <2> HIDE DEF Step
  <2>1. \E f : IsIter(n, f)
    <3> HIDE DEF IsIter
    <3> QED BY <1>2
  <2>2. End(n) = 1 .. n
    OBVIOUS
  <2> QED BY <2>1, <2>2
<1> HIDE DEF it
<1>4. \A k \in 0 .. n : Inv(c, k, it[End(k)])
  <2> DEFINE P == {k \in 0 .. n : Inv(c, k, it[End(k)])}
  <2>1. 0 \in P
    <3>1. End(0) = {} /\ {} \in SUBSET (1 .. n)
      OBVIOUS
    <3>2. it[End(0)] = base
      BY <1>3, <3>1
    <3> QED BY <3>2
  <2>2. ASSUME NEW k \in 1 .. n, k - 1 \in P PROVE k \in P
    <3> DEFINE m == n + 1 - k
    <3>1. End(k) = m .. n /\ End(k) \ {m} = End(k - 1) /\ End(k) # {} /\ End(k) \in SUBSET (1 .. n)
      OBVIOUS
    <3>2. Min(End(k)) = m
      <4>1. m \in End(k) /\ \A y \in End(k) : m <= y
        OBVIOUS
      <4>2. \A x \in End(k) : (\A y \in End(k) : x <= y) => x = m
        BY <4>1
      <4> QED BY <4>1, <4>2 DEF Min
    <3> HIDE DEF End
    <3>3. it[End(k)] = Op(c, it[End(k - 1)], s[m])
      BY <1>3, <3>1, <3>2
    <3> QED BY <2>2, <3>3
  <2> HIDE DEF P, End
  <2>3. \A k \in 0 .. n : k \in P
    BY <2>1, <2>2, UpTo
  <2> QED BY <2>3 DEF P
<1>5. End(n) = 1 .. n
  OBVIOUS
<1>6. n \in 0 .. n
  OBVIOUS
<1> QED BY <1>1, <1>4, <1>5, <1>6

\* And of FlattenSeq, which begins with the first element.
LEMMA FlattenKeeps ==
  ASSUME NEW c, NEW s, NEW n \in Nat \ {0}, Len(s) = n,
         Inv(c, 1, s[1]),
         \A k \in 2 .. n : \A v : Inv(c, k - 1, v) => Inv(c, k, v \o s[k])
  PROVE  Inv(c, n, FlattenSeq(s))
<1> DEFINE Step(f, i) == IF i = 1 THEN s[i] ELSE f[i - 1] \o s[i]
           IsIter(k, f) == f = [i \in 1 .. k |-> Step(f, i)]
           it == CHOOSE f : f = [i \in 1 .. Len(s) |-> Step(f, i)]
<1>1. FlattenSeq(s) = it[n]
  BY DEF FlattenSeq
<1>2. \A k \in 0 .. n : \E f : IsIter(k, f)
  <2> DEFINE P == {k \in 0 .. n : \E f : IsIter(k, f)}
  <2>1. 0 \in P
    <3>1. IsIter(0, <<>>)
      OBVIOUS
    <3> HIDE DEF IsIter
    <3> QED BY <3>1
  <2>2. ASSUME NEW k \in 1 .. n, k - 1 \in P PROVE k \in P
    <3>1. PICK f : IsIter(k - 1, f)
      BY <2>2
    <3> DEFINE g == [i \in 1 .. k |-> IF i = k THEN Step(f, k) ELSE f[i]]
    <3>2. ASSUME NEW i \in 1 .. k PROVE g[i] = Step(g, i)
      <4>1. i # 1 => i - 1 \in 1 .. k /\ i - 1 # k
        OBVIOUS
      <4>2. Step(g, i) = Step(f, i)
        BY <4>1
      <4>3. CASE i = k
        BY <4>2, <4>3
      <4>4. CASE i # k
        <5>1. i \in 1 .. k - 1
          BY <4>4
        <5>2. f[i] = Step(f, i)
          <6> HIDE DEF Step
          <6> QED BY <3>1, <5>1
        <5> QED BY <4>2, <4>4, <5>2
      <4> QED BY <4>3, <4>4
    <3>3. g = [i \in 1 .. k |-> g[i]]
      OBVIOUS
    <3> HIDE DEF g
    <3>4. IsIter(k, g)
      <4> HIDE DEF Step
      <4> QED BY <3>2, <3>3
    <3> HIDE DEF IsIter
    <3> QED BY <3>4
  <2> HIDE DEF P
  <2>3. \A k \in 0 .. n : k \in P
    BY <2>1, <2>2, UpTo
  <2> QED BY <2>3 DEF P
<1>3. it = [i \in 1 .. n |-> Step(it, i)]
  <2> HIDE DEF Step
  <2>1. \E f : IsIter(n, f)
    <3> HIDE DEF IsIter
    <3> QED BY <1>2
  <2> QED BY <2>1
<1> HIDE DEF it
<1>4. \A k \in 1 .. n : it[k] = Step(it, k)
  <2> HIDE DEF Step
  <2> QED BY <1>3
<1>5. \A k \in 0 .. n : k # 0 => Inv(c, k, it[k])
  <2> DEFINE P == {k \in 0 .. n : k # 0 => Inv(c, k, it[k])}
  <2>1. 0 \in P
    OBVIOUS
  <2>2. ASSUME NEW k \in 1 .. n, k - 1 \in P PROVE k \in P
    <3>1. CASE k = 1
      BY <1>4, <3>1
    <3>2. CASE k # 1
      <4>1. k \in 2 .. n /\ k - 1 # 0
        BY <3>2
      <4>2. it[k] = it[k - 1] \o s[k]
        BY <1>4, <3>2
      <4>3. Inv(c, k - 1, it[k - 1])
        BY <2>2, <4>1
      <4>4. Inv(c, k, it[k - 1] \o s[k])
        BY <4>1, <4>3, Zenon
      <4>5. Inv(c, k, it[k])
        BY ONLY <4>2, <4>4
      <4> QED BY <4>5
    <3> QED BY <3>1, <3>2
  <2> HIDE DEF P
  <2>3. \A k \in 0 .. n : k \in P
    BY <2>1, <2>2, UpTo
  <2> QED BY <2>3 DEF P
<1> QED BY <1>1, <1>5

=============================================================================
