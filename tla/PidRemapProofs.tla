--------------------------- MODULE PidRemapProofs ---------------------------
(***************************************************************************)
(* Proofs about the mapping of workgroups to tiles, for every grid, every  *)
(* number of XCDs and every group size.  remap_xcd permutes the ids and    *)
(* the swizzle is a bijection from the ids to the tiles; so what the       *)
(* workgroups dispatched so far have written, and which ids each XCD was   *)
(* given, is known in every state.                                         *)
(***************************************************************************)
EXTENDS PidRemap, FiniteSetTheorems, TLAPS

\* The parameters of the launch are the ones that the code divides by.
LaunchOK ==
    /\ num_pid_m \in Nat \ {0} /\ num_pid_n \in Nat \ {0}
    /\ NUM_XCDS \in Nat \ {0} /\ GROUP_SIZE_M \in Nat \ {0}

\* The workgroups dispatched so far, and what they did: the invariant.
Dispatched == 0 .. pid - 1
WrittenInv == written = {get_pids(p) : p \in Dispatched}
NewInv == new = [x \in Xcds |->
                    {Remapped(p) : p \in {q \in Dispatched : q % NUM_XCDS = x}}]
IInv == /\ LaunchOK
        /\ pid \in 0 .. GRID_MN
        /\ WrittenInv
        /\ NewInv

-----------------------------------------------------------------------------
(* Quotients and remainders.                                               *)

\* A number is the quotient times the divisor plus the remainder, ...
LEMMA DivMod ==
  ASSUME NEW a \in Nat, NEW b \in Nat \ {0}
  PROVE  /\ a \div b \in Nat
         /\ a % b \in 0 .. b - 1
         /\ a = b * (a \div b) + (a % b)
  OBVIOUS

\* ... in one way only.
LEMMA DivUnique ==
  ASSUME NEW b \in Nat \ {0}, NEW q \in Nat, NEW r \in 0 .. b - 1
  PROVE  (b * q + r) \div b = q /\ (b * q + r) % b = r
  OBVIOUS

\* (a + b - 1) \div b rounds up.
LEMMA DivideUp ==
  ASSUME NEW b \in Nat \ {0}, NEW q \in Nat, NEW r \in 0 .. b - 1
  PROVE  (b * q + r + b - 1) \div b = IF r = 0 THEN q ELSE q + 1
<1>1. CASE r = 0
  <2>1. b * q + r + b - 1 = b * q + (b - 1)
    BY <1>1
  <2> QED BY <1>1, <2>1, DivUnique
<1>2. CASE r # 0
  <2>1. b * q + r + b - 1 = b * (q + 1) + (r - 1)
    OBVIOUS
  <2> QED BY <1>2, <2>1, DivUnique
<1> QED BY <1>1, <1>2

\* Multiplication is monotone, and products of naturals are naturals.
LEMMA TimesMonotone ==
  ASSUME NEW a \in Int, NEW b \in Int, NEW c \in Nat, a <= b
  PROVE  a * c <= b * c /\ c * a <= c * b
  OBVIOUS

\* A factor may be cancelled from an inequality.
LEMMA TimesCancel ==
  ASSUME NEW a \in Int, NEW b \in Int, NEW c \in Nat \ {0}, c * a < c * b
  PROVE  a < b
<1> SUFFICES ASSUME b <= a PROVE FALSE
  OBVIOUS
<1>1. c * b <= c * a
  BY TimesMonotone
<1> QED BY <1>1

\* C has at least one tile.
LEMMA GridSize == ASSUME LaunchOK PROVE GRID_MN \in Nat \ {0}
<1>1. num_pid_m * num_pid_n \in Nat
  BY DEF LaunchOK
<1>2. 1 * num_pid_n <= num_pid_m * num_pid_n
  BY TimesMonotone DEF LaunchOK
<1> QED BY <1>1, <1>2 DEF LaunchOK, GRID_MN

-----------------------------------------------------------------------------
(* remap_xcd.                                                              *)

\* The tall XCDs have one id more than the others, and together the XCDs have
\* the whole grid: the wrap-around of tall_xcds is what makes this so when the
\* XCDs share the grid evenly.
LEMMA Shares ==
  ASSUME LaunchOK
  PROVE  /\ pids_per_xcd \in Nat \ {0}
         /\ tall_xcds \in 1 .. NUM_XCDS
         /\ GRID_MN = NUM_XCDS * (pids_per_xcd - 1) + tall_xcds
<1> DEFINE X == NUM_XCDS
           q == GRID_MN \div X
           r == GRID_MN % X
<1>1. X \in Nat \ {0} /\ GRID_MN \in Nat \ {0}
  BY GridSize DEF LaunchOK
<1>2. q \in Nat /\ r \in 0 .. X - 1 /\ GRID_MN = X * q + r
  BY <1>1, DivMod
<1> HIDE DEF X, q, r
<1>3. pids_per_xcd = IF r = 0 THEN q ELSE q + 1
  BY <1>1, <1>2, DivideUp DEF pids_per_xcd, X
<1>4. tall_xcds = IF r = 0 THEN X ELSE r
  BY DEF tall_xcds, X, r
<1>5. CASE r = 0
  <2>1. q # 0
    BY <1>1, <1>2, <1>5
  <2>2. X * q = X * (q - 1) + X
    BY <1>1, <1>2
  <2> QED BY <1>1, <1>2, <1>3, <1>4, <1>5, <2>1, <2>2 DEF X
<1>6. CASE r # 0
  BY <1>1, <1>2, <1>3, <1>4, <1>6 DEF X
<1> QED BY <1>5, <1>6

\* The first new id of XCD x and how many it has; XCD NUM_XCDS, which does not
\* exist, would begin at the end of the grid.
FirstId(x) == IF x < tall_xcds THEN x * pids_per_xcd
              ELSE tall_xcds * pids_per_xcd + (x - tall_xcds) * (pids_per_xcd - 1)
NumIds(x)  == IF x < tall_xcds THEN pids_per_xcd ELSE pids_per_xcd - 1

\* The ids of an XCD end before those of a later one begin.
LEMMA Ranges ==
  ASSUME LaunchOK, NEW x \in Xcds, NEW y \in 0 .. NUM_XCDS, x < y
  PROVE  FirstId(x) \in Nat /\ FirstId(y) \in Nat /\ FirstId(x) + NumIds(x) <= FirstId(y)
<1> DEFINE P == pids_per_xcd
           t == tall_xcds
<1>1. P \in Nat \ {0} /\ t \in 1 .. NUM_XCDS /\ NUM_XCDS \in Nat \ {0}
  BY Shares DEF LaunchOK
<1>2. x \in Nat /\ y \in Nat /\ P - 1 \in Nat
  BY <1>1 DEF Xcds
<1> HIDE DEF P, t
<1>3. CASE y < t
  <2>1. (x + 1) * P <= y * P
    BY <1>1, <1>2, TimesMonotone
  <2>2. (x + 1) * P = x * P + P /\ x * P \in Nat
    BY <1>1, <1>2
  <2> QED BY <2>1, <2>2, <1>1, <1>2, <1>3 DEF FirstId, NumIds, P, t
<1>4. CASE x < t /\ t <= y
  <2>1. (x + 1) * P <= t * P
    BY <1>1, <1>2, <1>4, TimesMonotone
  <2>2. (x + 1) * P = x * P + P /\ x * P \in Nat
    BY <1>1, <1>2
  <2>3. (y - t) * (P - 1) \in Nat
    BY <1>1, <1>2, <1>4
  <2> QED BY <2>1, <2>2, <2>3, <1>1, <1>2, <1>4 DEF FirstId, NumIds, P, t
<1>5. CASE t <= x
  <2>1. (x - t + 1) * (P - 1) <= (y - t) * (P - 1)
    BY <1>1, <1>2, <1>5, TimesMonotone
  <2>2. /\ (x - t + 1) * (P - 1) = (x - t) * (P - 1) + (P - 1)
        /\ (x - t) * (P - 1) \in Nat
        /\ t * P \in Nat
    BY <1>1, <1>2, <1>5
  <2> QED BY <2>1, <2>2, <1>1, <1>2, <1>5 DEF FirstId, NumIds, P, t
<1> QED BY <1>1, <1>2, <1>3, <1>4, <1>5

\* remap_xcd sends a workgroup to one of the ids of its XCD.
LEMMA RemapWithinXcd ==
  ASSUME LaunchOK, NEW p \in 0 .. GRID_MN - 1
  PROVE  /\ p % NUM_XCDS \in Xcds
         /\ p \div NUM_XCDS \in Nat
         /\ p \div NUM_XCDS < NumIds(p % NUM_XCDS)
         /\ remap_xcd(p) = FirstId(p % NUM_XCDS) + p \div NUM_XCDS
<1> DEFINE X == NUM_XCDS
           P == pids_per_xcd
           t == tall_xcds
           x == p % X
           l == p \div X
<1>1. P \in Nat \ {0} /\ t \in 1 .. X /\ X \in Nat \ {0} /\ GRID_MN \in Nat
  BY Shares, GridSize DEF LaunchOK
<1>2. GRID_MN = X * (P - 1) + t
  BY Shares
<1>3. x \in 0 .. X - 1 /\ l \in Nat /\ p = X * l + x /\ p < GRID_MN
  <2>1. p \in Nat /\ p < GRID_MN
    BY <1>1
  <2> QED BY <1>1, <2>1, DivMod
<1>4. remap_xcd(p) = FirstId(x) + l
  BY DEF remap_xcd, FirstId
<1> HIDE DEF X, P, t, x, l
<1>5. X * l + x < X * (P - 1) + t
  BY <1>2, <1>3
<1>6. ASSUME P <= l PROVE FALSE
  <2>1. X * P <= X * l
    BY <1>1, <1>3, <1>6, TimesMonotone
  <2>2. X * P = X * (P - 1) + X /\ X * (P - 1) \in Nat /\ X * l \in Nat
    BY <1>1, <1>3
  <2> QED BY <1>1, <1>3, <1>5, <2>1, <2>2
<1>7. ASSUME t <= x, P - 1 <= l PROVE FALSE
  <2>1. X * (P - 1) <= X * l
    BY <1>1, <1>3, <1>7, TimesMonotone
  <2>2. X * (P - 1) \in Nat /\ X * l \in Nat
    BY <1>1, <1>3
  <2> QED BY <1>1, <1>3, <1>5, <1>7, <2>1, <2>2
<1>8. l < NumIds(x)
  BY <1>1, <1>3, <1>6, <1>7 DEF NumIds, P, t
<1> QED BY <1>3, <1>4, <1>8 DEF X, x, l, Xcds

\* remap_xcd permutes the ids of the grid.
LEMMA RemapPermutes ==
  ASSUME LaunchOK
  PROVE  /\ \A p \in 0 .. GRID_MN - 1 : Remapped(p) \in 0 .. GRID_MN - 1
         /\ \A p, q \in 0 .. GRID_MN - 1 : Remapped(p) = Remapped(q) => p = q
<1>1. CASE NUM_XCDS = 1
  BY <1>1 DEF Remapped
<1>2. CASE NUM_XCDS # 1
  <2> DEFINE X == NUM_XCDS
  <2>1. X \in Nat \ {0} /\ GRID_MN \in Nat
    BY GridSize DEF LaunchOK
  <2>2. ASSUME NEW p \in 0 .. GRID_MN - 1 PROVE Remapped(p) \in 0 .. GRID_MN - 1
    <3>1. p % X \in Xcds /\ p % X < X /\ X \in 0 .. X
      BY RemapWithinXcd, <2>1 DEF Xcds
    <3>2. FirstId(p % X) \in Nat /\ FirstId(p % X) + NumIds(p % X) <= FirstId(X)
      BY <3>1, Ranges
    <3>3. FirstId(X) = GRID_MN
      <4> DEFINE P == pids_per_xcd
                 t == tall_xcds
      <4>1. P \in Nat \ {0} /\ t \in 1 .. X /\ GRID_MN = X * (P - 1) + t
        BY Shares
      <4>2. FirstId(X) = t * P + (X - t) * (P - 1)
        BY <4>1, <2>1 DEF FirstId
      <4> HIDE DEF P, t, X
      <4>3. t * P + (X - t) * (P - 1) = X * (P - 1) + t
        BY <4>1, <2>1
      <4> QED BY <4>1, <4>2, <4>3
    <3>4. Remapped(p) = FirstId(p % X) + p \div X
      BY RemapWithinXcd, <1>2 DEF Remapped
    <3>5. p \div X \in Nat /\ p \div X < NumIds(p % X) /\ NumIds(p % X) \in Int
      BY RemapWithinXcd, Shares DEF NumIds
    <3> QED BY <3>2, <3>3, <3>4, <3>5, <2>1
  <2>3. ASSUME NEW p \in 0 .. GRID_MN - 1, NEW q \in 0 .. GRID_MN - 1, p % X < q % X
        PROVE  Remapped(p) < Remapped(q)
    <3>1. p % X \in Xcds /\ q % X \in 0 .. X
      BY RemapWithinXcd, <2>1 DEF Xcds
    <3>2. /\ FirstId(p % X) \in Nat /\ FirstId(q % X) \in Nat
          /\ FirstId(p % X) + NumIds(p % X) <= FirstId(q % X)
      BY <3>1, <2>3, Ranges
    <3>3. /\ Remapped(p) = FirstId(p % X) + p \div X
          /\ Remapped(q) = FirstId(q % X) + q \div X
      BY RemapWithinXcd, <1>2 DEF Remapped
    <3>4. /\ p \div X \in Nat /\ q \div X \in Nat
          /\ p \div X < NumIds(p % X) /\ NumIds(p % X) \in Int
      BY RemapWithinXcd, Shares DEF NumIds
    <3> QED BY <3>2, <3>3, <3>4
  <2>4. ASSUME NEW p \in 0 .. GRID_MN - 1, NEW q \in 0 .. GRID_MN - 1,
               p % X = q % X, Remapped(p) = Remapped(q)
        PROVE  p = q
    <3>1. /\ Remapped(p) = FirstId(p % X) + p \div X
          /\ Remapped(q) = FirstId(q % X) + q \div X
      BY RemapWithinXcd, <1>2 DEF Remapped
    <3>2. p \div X \in Nat /\ q \div X \in Nat
      BY RemapWithinXcd
    <3>3. p % X \in Xcds /\ p % X < X /\ X \in 0 .. X
      BY RemapWithinXcd, <2>1 DEF Xcds
    <3>4. FirstId(p % X) \in Nat
      BY <3>3, Ranges
    <3>5. p \div X = q \div X
      <4>1. Remapped(q) = FirstId(p % X) + q \div X
        BY <2>4, <3>1
      <4>2. FirstId(p % X) + p \div X = FirstId(p % X) + q \div X
        BY <2>4, <3>1, <4>1
      <4> QED BY <4>2, <3>2, <3>4
    <3>6. p = X * (p \div X) + (p % X) /\ q = X * (q \div X) + (q % X)
      <4>1. p \in Nat /\ q \in Nat
        BY <2>1
      <4> QED BY <2>1, <4>1, DivMod
    <3> QED BY <2>4, <3>5, <3>6
  <2>5. ASSUME NEW p \in 0 .. GRID_MN - 1, NEW q \in 0 .. GRID_MN - 1
        PROVE  /\ p % X \in Int /\ q % X \in Int
               /\ Remapped(p) \in Int /\ Remapped(q) \in Int
    BY <2>2, RemapWithinXcd DEF Xcds
  <2> HIDE DEF X
  <2> QED BY <2>2, <2>3, <2>4, <2>5
<1> QED BY <1>1, <1>2

-----------------------------------------------------------------------------
(* The swizzle.                                                            *)

\* The smaller of two numbers.
LEMMA MinOfTwo ==
  ASSUME NEW a \in Int, NEW b \in Int
  PROVE  Min({a, b}) = IF a <= b THEN a ELSE b
  BY DEF Min

\* What the code divides by, and where the group of p lies: it begins inside
\* of C, and p is in the part of it that C has.
LEMMA GroupOf ==
  ASSUME LaunchOK, NEW p \in 0 .. GRID_MN - 1,
         NEW g, g = p \div (GROUP_SIZE_M * num_pid_n),
         NEW v, v = p % (GROUP_SIZE_M * num_pid_n),
         NEW h, h = group_size_m(g * GROUP_SIZE_M)
  PROVE  /\ g \in Nat /\ v \in Nat
         /\ h \in 1 .. GROUP_SIZE_M /\ g * GROUP_SIZE_M + h <= num_pid_m
         /\ v < h * num_pid_n
         /\ p = GROUP_SIZE_M * num_pid_n * g + v
<1> DEFINE S == GROUP_SIZE_M
           m == num_pid_m
           n == num_pid_n
           N == S * n
           f == g * S
<1>1. S \in Nat \ {0} /\ m \in Nat \ {0} /\ n \in Nat \ {0}
  BY DEF LaunchOK
<1>2. p \in Nat /\ p < m * n
  BY GridSize DEF GRID_MN
<1> HIDE DEF S, m, n
<1>3. N \in Nat \ {0}
  <2>1. 1 * n <= S * n
    BY <1>1, TimesMonotone
  <2> QED BY <1>1, <2>1
<1>4. g \in Nat /\ v \in 0 .. N - 1 /\ p = N * g + v
  BY <1>2, <1>3, DivMod DEF S, n
<1>5. f \in Nat /\ N * g = n * f
  BY <1>1, <1>4
<1>6. f < m
  <2>1. n * f < n * m
    BY <1>1, <1>2, <1>3, <1>4, <1>5
  <2> QED BY <1>1, <1>5, <2>1, TimesCancel
<1>7. h = IF m - f <= S THEN m - f ELSE S
  BY <1>1, <1>5, MinOfTwo DEF group_size_m, S, m
<1>8. v < h * n
  <2>1. CASE h = S
    BY <1>1, <1>4, <2>1
  <2>2. CASE h = m - f
    <3>1. (m - f) * n = m * n - n * f
      BY <1>1, <1>5
    <3> QED BY <1>1, <1>2, <1>3, <1>4, <1>5, <2>2, <3>1
  <2> QED BY <1>7, <2>1, <2>2
<1> QED BY <1>1, <1>4, <1>5, <1>6, <1>7, <1>8 DEF S, m, n

\* Distinct ids of the grid get distinct tiles of C, whatever the height of the
\* last group.
LEMMA SwizzlePermutes ==
  ASSUME LaunchOK
  PROVE  /\ \A p \in 0 .. GRID_MN - 1 : TileOf(p) \in Tiles
         /\ \A p, q \in 0 .. GRID_MN - 1 : TileOf(p) = TileOf(q) => p = q
<1> DEFINE S == GROUP_SIZE_M
           m == num_pid_m
           n == num_pid_n
<1>1. S \in Nat \ {0} /\ m \in Nat \ {0} /\ n \in Nat \ {0} /\ GRID_MN = m * n
  BY DEF LaunchOK, GRID_MN
<1>2. CASE S = 1
  <2>1. ASSUME NEW p \in 0 .. GRID_MN - 1
        PROVE  /\ TileOf(p) = <<p \div n, p % n>>
               /\ p \div n \in 0 .. m - 1 /\ p % n \in 0 .. n - 1
               /\ p = n * (p \div n) + (p % n)
    <3>1. p \in Nat /\ p < m * n
      BY <1>1
    <3>2. p \div n \in Nat /\ p % n \in 0 .. n - 1 /\ p = n * (p \div n) + (p % n)
      BY <1>1, <3>1, DivMod
    <3> DEFINE d == p \div n
               e == p % n
    <3> HIDE DEF d, e, m, n
    <3>3. n * d < n * m
      BY <1>1, <3>1, <3>2 DEF d, e
    <3>4. d < m
      BY <1>1, <3>2, <3>3, TimesCancel DEF d
    <3> QED BY <1>1, <1>2, <3>2, <3>4 DEF TileOf, d, S, n
  <2> QED BY <2>1 DEF Tiles
<1>3. CASE S # 1
  <2> DEFINE g(p) == p \div (S * n)
             v(p) == p % (S * n)
             h(p) == group_size_m(g(p) * S)
  <2>1. ASSUME NEW p \in 0 .. GRID_MN - 1
        PROVE  /\ TileOf(p) = <<g(p) * S + (v(p) % h(p)), v(p) \div h(p)>>
               /\ g(p) \in Nat /\ v(p) \in Nat
               /\ h(p) \in 1 .. S /\ g(p) * S + h(p) <= m
               /\ v(p) < h(p) * n
               /\ p = S * n * g(p) + v(p)
    BY <1>3, GroupOf DEF TileOf
  <2> HIDE DEF g, v, h, S, m, n
  <2>2. ASSUME NEW p \in 0 .. GRID_MN - 1
        PROVE  /\ v(p) % h(p) \in 0 .. h(p) - 1 /\ v(p) \div h(p) \in Nat
               /\ v(p) = h(p) * (v(p) \div h(p)) + (v(p) % h(p))
    <3>1. v(p) \in Nat /\ h(p) \in Nat \ {0}
      BY <2>1, <1>1
    <3> QED BY <3>1, DivMod
  <2>3. ASSUME NEW p \in 0 .. GRID_MN - 1 PROVE TileOf(p) \in Tiles
    <3> DEFINE d == v(p) \div h(p)
               e == v(p) % h(p)
    <3>1. /\ d \in Nat /\ e \in 0 .. h(p) - 1 /\ v(p) = h(p) * d + e
          /\ h(p) \in Nat \ {0} /\ v(p) < h(p) * n
      BY <1>1, <2>1, <2>2
    <3> HIDE DEF d, e
    <3>2. h(p) * d < h(p) * n
      BY <1>1, <3>1
    <3>3. d < n
      BY <1>1, <3>1, <3>2, TimesCancel
    <3>4. g(p) * S \in Nat
      BY <1>1, <2>1
    <3>5. g(p) * S + e \in 0 .. m - 1
      BY <1>1, <2>1, <3>1, <3>4
    <3> QED BY <1>1, <2>1, <3>1, <3>3, <3>5 DEF Tiles, d, e, m, n
  <2>4. ASSUME NEW p \in 0 .. GRID_MN - 1
        PROVE  (g(p) * S + (v(p) % h(p))) \div S = g(p)
    <3> DEFINE e == v(p) % h(p)
    <3>1. e \in 0 .. S - 1 /\ g(p) \in Nat
      BY <1>1, <2>1, <2>2
    <3> HIDE DEF e
    <3>2. g(p) * S + e = S * g(p) + e
      BY <1>1, <3>1
    <3>3. (S * g(p) + e) \div S = g(p)
      BY <1>1, <3>1, DivUnique
    <3> QED BY <3>2, <3>3 DEF e
  <2>5. ASSUME NEW p \in 0 .. GRID_MN - 1, NEW q \in 0 .. GRID_MN - 1, TileOf(p) = TileOf(q)
        PROVE  p = q
    <3>1. /\ g(p) * S + (v(p) % h(p)) = g(q) * S + (v(q) % h(q))
          /\ v(p) \div h(p) = v(q) \div h(q)
      BY <2>1, <2>5
    <3>2. g(p) = g(q)
      BY <2>4, <3>1
    <3>3. h(p) = h(q)
      BY <3>2 DEF h
    <3>4. g(p) * S \in Nat
      BY <1>1, <2>1
    <3>5. v(p) % h(p) = v(q) % h(q)
      <4> DEFINE d == v(p) % h(p)
                 e == v(q) % h(q)
      <4>1. g(p) * S + d = g(p) * S + e
        BY <3>1, <3>2
      <4>2. d \in Int /\ e \in Int
        BY <2>1, <2>2
      <4> HIDE DEF d, e
      <4>3. d = e
        BY <3>4, <4>1, <4>2
      <4> QED BY <4>3 DEF d, e
    <3>6. v(p) = v(q)
      BY <2>2, <3>1, <3>3, <3>5
    <3> QED BY <2>1, <3>2, <3>6
  <2> QED BY <2>3, <2>5
<1> QED BY <1>2, <1>3

-----------------------------------------------------------------------------
(* The workgroups dispatched so far.                                       *)

\* get_pids is a bijection from the workgroups to the tiles of C, as far as it
\* can be said without counting.
LEMMA PidsPermute ==
  ASSUME LaunchOK
  PROVE  /\ \A p \in 0 .. GRID_MN - 1 : get_pids(p) \in Tiles
         /\ \A p, q \in 0 .. GRID_MN - 1 : get_pids(p) = get_pids(q) => p = q
  BY RemapPermutes, SwizzlePermutes DEF get_pids

\* The invariant is inductive: a dispatch adds one workgroup.
LEMMA IInvInductive == Init /\ [][Next]_vars => []IInv
<1>1. Init => IInv
  <2> SUFFICES ASSUME Init PROVE IInv
    OBVIOUS
  <2>1. LaunchOK
    BY LaunchAssumption DEF Init, LaunchOK
  <2>2. Dispatched = {} /\ pid \in 0 .. GRID_MN
    BY <2>1, GridSize DEF Init, Dispatched
  <2> QED BY <2>1, <2>2 DEF Init, IInv, WrittenInv, NewInv
<1>2. ASSUME IInv, [Next]_vars PROVE IInv'
  <2>1. CASE Dispatch
    <3>1. launch' = launch /\ pid' = pid + 1 /\ pid \in Nat /\ GRID_MN \in Nat /\ pid < GRID_MN
      BY <1>2, <2>1, GridSize DEF Dispatch, IInv
    <3>2. LaunchOK' /\ GRID_MN' = GRID_MN /\ Xcds' = Xcds
      BY <1>2, <3>1 DEF IInv, LaunchOK, launch, GRID_MN, Xcds
    <3>3. \A p : Remapped(p)' = Remapped(p) /\ get_pids(p)' = get_pids(p)
      BY <3>1 DEF launch, get_pids, TileOf, group_size_m, Remapped, remap_xcd, tall_xcds,
                  pids_per_xcd, GRID_MN
    <3>4. Dispatched' = Dispatched \cup {pid}
      BY <3>1 DEF Dispatched
    <3>5. WrittenInv'
      BY <1>2, <2>1, <3>3, <3>4 DEF IInv, WrittenInv, Dispatch
    <3>6. NewInv'
      <4>1. pid % NUM_XCDS \in Xcds /\ NUM_XCDS' = NUM_XCDS
        BY <1>2, <3>1 DEF IInv, LaunchOK, Xcds, launch
      <4>2. new' = [x \in Xcds |-> IF x = pid % NUM_XCDS THEN new[x] \cup {Remapped(pid)}
                                                         ELSE new[x]]
        BY <1>2, <2>1 DEF Dispatch, IInv, NewInv
      <4>3. ASSUME NEW x \in Xcds
            PROVE  new'[x] = {Remapped(p)' : p \in {q \in Dispatched' : q % NUM_XCDS' = x}}
        <5>1. new[x] = {Remapped(p) : p \in {q \in Dispatched : q % NUM_XCDS = x}}
          BY <1>2 DEF IInv, NewInv
        <5> QED BY <3>3, <3>4, <4>1, <4>2, <5>1
      <4> QED BY <3>2, <4>2, <4>3 DEF NewInv
    <3> QED BY <3>1, <3>2, <3>5, <3>6 DEF IInv
  <2>2. CASE UNCHANGED vars
    <3>1. launch' = launch /\ pid' = pid /\ new' = new /\ written' = written
      BY <2>2 DEF vars
    <3>2. LaunchOK' /\ GRID_MN' = GRID_MN /\ Xcds' = Xcds
      BY <1>2, <3>1 DEF IInv, LaunchOK, launch, GRID_MN, Xcds
    <3>3. NUM_XCDS' = NUM_XCDS /\ Dispatched' = Dispatched
      BY <3>1 DEF launch, Dispatched
    <3>4. \A p : Remapped(p)' = Remapped(p) /\ get_pids(p)' = get_pids(p)
      BY <3>1 DEF launch, get_pids, TileOf, group_size_m, Remapped, remap_xcd, tall_xcds,
                  pids_per_xcd, GRID_MN
    <3>5. WrittenInv'
      BY <1>2, <3>1, <3>3, <3>4 DEF IInv, WrittenInv
    <3>6. NewInv'
      BY <1>2, <3>1, <3>2, <3>3, <3>4 DEF IInv, NewInv
    <3> QED BY <1>2, <3>1, <3>2, <3>5, <3>6 DEF IInv
  <2> QED BY <1>2, <2>1, <2>2 DEF Next, Finished
<1> QED BY <1>1, <1>2, PTL

\* No workgroup gets the tile of another one, and none a tile outside of C,
\* however the grid, the number of XCDs and the group size divide each other.
THEOREM TilesAreShared == Spec => []OneWorkgroupPerTile
<1>1. ASSUME IInv PROVE OneWorkgroupPerTile
  <2>1. Dispatched \subseteq 0 .. GRID_MN - 1 /\ pid \in Nat
    BY <1>1, GridSize DEF IInv, Dispatched
  <2>2. /\ \A p \in Dispatched : get_pids(p) \in Tiles
        /\ \A p, q \in Dispatched : get_pids(p) = get_pids(q) => p = q
    BY <1>1, <2>1, PidsPermute DEF IInv
  <2> DEFINE f == [p \in Dispatched |-> get_pids(p)]
  <2>3. f \in Surjection(Dispatched, written) /\ f \in Injection(Dispatched, written)
    BY <1>1, <2>2 DEF IInv, WrittenInv, Surjection, Injection, IsInjective
  <2>4. IsFiniteSet(Dispatched) /\ Cardinality(Dispatched) = pid
    BY <2>1, FS_Interval DEF Dispatched
  <2>5. Cardinality(written) = pid
    BY <2>3, <2>4, FS_Surjection
  <2> QED BY <1>1, <2>2, <2>5 DEF OneWorkgroupPerTile, IInv, WrittenInv
<1> QED BY <1>1, IInvInductive, PTL DEF Spec

\* When the last workgroup is done, every tile of C was written.
WholeOfC == pid = GRID_MN => written = Tiles

\* The workgroups of a launch compute the whole of C.
THEOREM GridCoversC == Spec => []WholeOfC
<1>1. ASSUME IInv, OneWorkgroupPerTile PROVE WholeOfC
  <2>1. num_pid_m \in Nat \ {0} /\ num_pid_n \in Nat \ {0}
    BY <1>1 DEF IInv, LaunchOK
  <2>2. /\ IsFiniteSet(0 .. num_pid_m - 1) /\ Cardinality(0 .. num_pid_m - 1) = num_pid_m
        /\ IsFiniteSet(0 .. num_pid_n - 1) /\ Cardinality(0 .. num_pid_n - 1) = num_pid_n
    BY <2>1, FS_Interval
  <2>3. IsFiniteSet(Tiles) /\ Cardinality(Tiles) = GRID_MN
    <3> DEFINE R == 0 .. num_pid_m - 1
               C == 0 .. num_pid_n - 1
    <3>1. Tiles = R \X C /\ GRID_MN = num_pid_m * num_pid_n
      BY DEF Tiles, GRID_MN
    <3> HIDE DEF R, C
    <3>2. IsFiniteSet(R \X C) /\ Cardinality(R \X C) = Cardinality(R) * Cardinality(C)
      BY <2>2, FS_Product DEF R, C
    <3> QED BY <2>2, <3>1, <3>2 DEF R, C
  <2> QED BY <1>1, <2>3, FS_Subset DEF OneWorkgroupPerTile, WholeOfC
<1> QED BY <1>1, IInvInductive, TilesAreShared, PTL DEF Spec

\* The largest and the smallest number of an interval.
LEMMA IntervalBounds ==
  ASSUME NEW a \in Int, NEW b \in Int, a <= b
  PROVE  Max(a .. b) = b /\ Min(a .. b) = a
<1>1. b \in a .. b /\ \A y \in a .. b : b >= y
  OBVIOUS
<1>2. \A x \in a .. b : (\A y \in a .. b : x >= y) => x = b
  BY <1>1
<1>3. a \in a .. b /\ \A y \in a .. b : a <= y
  OBVIOUS
<1>4. \A x \in a .. b : (\A y \in a .. b : x <= y) => x = a
  BY <1>3
<1>5. Max(a .. b) = b
  BY <1>1, <1>2 DEF Max
<1>6. Min(a .. b) = a
  BY <1>3, <1>4 DEF Min
<1> QED BY <1>5, <1>6

\* With one XCD, where get_pids does not call remap_xcd, the call would change
\* nothing.
LEMMA RemappedWithinXcd ==
  ASSUME LaunchOK, NEW p \in 0 .. GRID_MN - 1
  PROVE  Remapped(p) = FirstId(p % NUM_XCDS) + p \div NUM_XCDS
<1>1. CASE NUM_XCDS # 1
  BY <1>1, RemapWithinXcd DEF Remapped
<1>2. CASE NUM_XCDS = 1
  <2>1. p % 1 = 0 /\ p \div 1 = p /\ p \in Int
    BY GridSize
  <2>2. tall_xcds \in Nat \ {0} /\ pids_per_xcd \in Nat
    BY <1>2, Shares
  <2>3. FirstId(0) = 0
    BY <2>2 DEF FirstId
  <2> QED BY <1>2, <2>1, <2>3 DEF Remapped
<1> QED BY <1>1, <1>2

\* Of the first n workgroups, those on XCD x have quotients 0, 1, 2, ...
LEMMA QuotientsOnXcd ==
  ASSUME NEW X \in Nat \ {0}, NEW x \in 0 .. X - 1, NEW n \in Nat,
         NEW c, c = (n - x + X - 1) \div X
  PROVE  /\ c \in Nat
         /\ \A l \in Nat : l < c <=> X * l + x < n
<1>1. CASE n < x
  <2>1. n - x + X - 1 \in 0 .. X - 1
    BY <1>1
  <2>2. c = 0
    BY <2>1
  <2>3. ASSUME NEW l \in Nat PROVE X * l \in Nat
    OBVIOUS
  <2> QED BY <1>1, <2>2, <2>3
<1>2. CASE n >= x
  <2>1. n - x + X - 1 \in Nat
    BY <1>2
  <2> DEFINE r == (n - x + X - 1) % X
  <2>2. c \in Nat /\ r \in 0 .. X - 1 /\ n - x + X - 1 = X * c + r
    BY <2>1, DivMod
  <2> HIDE DEF r
  <2>3. ASSUME NEW l \in Nat, l < c PROVE X * l + x < n
    <3>1. X * (l + 1) <= X * c
      BY <2>2, <2>3, TimesMonotone
    <3>2. X * (l + 1) = X * l + X /\ X * l \in Nat /\ X * c \in Nat
      BY <2>2
    <3> QED BY <2>2, <3>1, <3>2
  <2>4. ASSUME NEW l \in Nat, c <= l PROVE ~(X * l + x < n)
    <3>1. X * c <= X * l
      BY <2>2, <2>4, TimesMonotone
    <3>2. X * l \in Nat /\ X * c \in Nat
      BY <2>2
    <3> QED BY <2>2, <3>1, <3>2
  <2> QED BY <2>2, <2>3, <2>4
<1> QED BY <1>1, <1>2

\* In every state of the launch the new ids of each XCD are an interval without
\* gaps, so its workgroups share rows of A and columns of B in its L2 cache.
THEOREM XcdsGetRuns == Spec => []ConsecutiveOnXcd
<1>1. ASSUME IInv, NEW x \in Xcds, new[x] # {}
      PROVE  Cardinality(new[x]) = Max(new[x]) - Min(new[x]) + 1
  <2> DEFINE X == NUM_XCDS
             c == (pid - x + X - 1) \div X
             a == FirstId(x)
  <2>1. X \in Nat \ {0} /\ x \in 0 .. X - 1 /\ pid \in Nat /\ LaunchOK
        /\ GRID_MN \in Nat /\ pid <= GRID_MN
    BY <1>1, GridSize DEF IInv, LaunchOK, Xcds
  <2>2. c \in Nat /\ \A l \in Nat : l < c <=> X * l + x < pid
    BY <2>1, QuotientsOnXcd
  <2>3. a \in Nat
    <3>1. X \in 0 .. X /\ x < X
      BY <2>1
    <3> QED BY <2>1, <3>1, Ranges
  <2>4. new[x] = {Remapped(p) : p \in {q \in Dispatched : q % X = x}}
    BY <1>1 DEF IInv, NewInv
  <2>5. ASSUME NEW p \in Dispatched, p % X = x
        PROVE  Remapped(p) \in a .. a + c - 1
    <3>1. p \in Nat /\ p < pid /\ p \in 0 .. GRID_MN - 1
      BY <2>1 DEF Dispatched
    <3>2. Remapped(p) = a + p \div X
      BY <2>1, <2>5, <3>1, RemappedWithinXcd
    <3>3. p \div X \in Nat /\ p = X * (p \div X) + x
      BY <2>1, <2>5, <3>1, DivMod
    <3>4. p \div X < c
      BY <2>2, <3>1, <3>3
    <3> HIDE DEF a, c, X
    <3> QED BY <2>2, <2>3, <3>2, <3>3, <3>4
  <2>6. ASSUME NEW i \in a .. a + c - 1
        PROVE  \E p \in Dispatched : p % X = x /\ Remapped(p) = i
    <3> DEFINE l == i - a
               p == X * l + x
    <3>1. l \in Nat /\ l < c
      <4> HIDE DEF a, c
      <4> QED BY <2>2, <2>3
    <3>2. p \in Nat /\ p < pid
      BY <2>1, <2>2, <3>1
    <3>3. p \div X = l /\ p % X = x
      BY <2>1, <3>1, DivUnique
    <3>4. p \in Dispatched /\ p \in 0 .. GRID_MN - 1
      BY <2>1, <3>2 DEF Dispatched
    <3> HIDE DEF p
    <3>5. Remapped(p) = a + l
      BY <2>1, <3>3, <3>4, RemappedWithinXcd
    <3>6. a + l = i
      BY <2>3, <2>2
    <3> QED BY <3>3, <3>4, <3>5, <3>6
  <2> HIDE DEF a, c
  <2>7. new[x] = a .. a + c - 1
    BY <2>4, <2>5, <2>6
  <2>8. c # 0
    BY <1>1, <2>3, <2>7
  <2>9. Cardinality(a .. a + c - 1) = c
    BY <2>2, <2>3, <2>8, FS_Interval
  <2>10. Max(a .. a + c - 1) = a + c - 1 /\ Min(a .. a + c - 1) = a
    BY <2>2, <2>3, <2>8, IntervalBounds
  <2> QED BY <2>2, <2>3, <2>7, <2>9, <2>10
<1>2. IInv => ConsecutiveOnXcd
  BY <1>1 DEF ConsecutiveOnXcd
<1> QED BY <1>2, IInvInductive, PTL DEF Spec
=============================================================================
