--------------------------- MODULE SlicedMNProofs ---------------------------
(***************************************************************************)
(* Proofs about the pipeline of v8_sliceMN and v9_beyond_hotloop for every *)
(* number of warps, every even iterMax > 3 and every order in which copies *)
(* and LDS reads complete.  First the arithmetic of the slots, then what   *)
(* the inductive invariant IInv says about a warp, one lemma per action    *)
(* that it is preserved, and the theorems at the end.                      *)
(***************************************************************************)
EXTENDS SlicedMNInv, TLAPS

\* The loop has four regions for each K-step but the last two, the program
\* four for each.
LEMMA Counts == /\ iterMax \in Nat /\ iterMax > 3 /\ iterMax % 2 = 0
                /\ LoopRegions = 4 * iterMax - 8
                /\ NumRegions = 4 * iterMax
  BY IterMaxAssumption DEF LoopRegions, NumRegions, UnrolledIterations

\* Eight consecutive commit groups go to eight different slots.
LEMMA SlotDistance ==
  ASSUME NEW m \in Nat, NEW n \in Nat, n < m + 8, m < n + 8, SlotOf(m) = SlotOf(n)
  PROVE  m = n
  BY DEF SlotOf, CopyOrder

\* The slots repeat every eight commit groups, two K-steps later.
LEMMA SlotPeriod ==
  ASSUME NEW n \in Nat
  PROVE  SlotOf(n) \in Slots /\ SlotOf(n + 8) = SlotOf(n) /\ StepOf(n+8) = StepOf(n)+2
  BY DEF SlotOf, CopyOrder, Slots, Operands, StepOf

\* Region r reads the slot that commit group r+2 fills: the buffer literals of
\* the unrolled loop and l_idx, g_idx of the epilogue name the same sequence.
LEMMA ReadSlotOf ==
  ASSUME NEW r \in Nat, r < NumRegions - 2
  PROVE ReadSlot(r) = SlotOf(r + 2)
<1>1. CASE r < LoopRegions
  <2>1. ReadSlot(r) = <<ReadOperand(r), LoopReadBuffer(r)>>
    BY <1>1 DEF ReadSlot
  <2>2. ReadOperand(r) = CopyOrder(r + 2)
    BY DEF ReadOperand, CopyOrder
  <2>3. LoopReadBuffer(r) = ((r + 2) \div 4) % 2
    BY DEF LoopReadBuffer, SubIteration
  <2> QED BY <2>1, <2>2, <2>3 DEF SlotOf
<1>2. CASE r >= LoopRegions
  <2> DEFINE e == r - LoopRegions
  <2>1. PICK h \in Nat : iterMax = 2 * h
    <3>1. iterMax = 2 * (iterMax \div 2)
      BY Counts
    <3> QED BY <3>1, Counts
  <2>2. e \in 0 .. 5 /\ r = 8 * h - 8 + e
    BY <1>2, <2>1, Counts
  <2>3. ReadSlot(r) = <<ReadOperand(r), EpilogueReadBuffer(e)>>
    BY <1>2, Counts DEF ReadSlot
  <2>4. EpilogueReadBuffer(e) = ((r + 2) \div 4) % 2
    <3> HIDE DEF e
    <3>1. l_idx = 0 /\ g_idx = 1
      BY <2>1, Counts DEF l_idx, g_idx
    <3> QED BY <2>2, <3>1, <2>1 DEF EpilogueReadBuffer
  <2>5. ReadOperand(r) = CopyOrder(r + 2)
    BY DEF ReadOperand, CopyOrder
  <2> QED BY <2>3, <2>4, <2>5 DEF SlotOf
<1> QED BY <1>1, <1>2, Counts

\* base + sub-iteration, the K-step that the refill of region r fetches, is
\* that of commit group r+8.
LEMMA RefillStep ==
  ASSUME NEW r \in Nat
  PROVE  2 + 2 * (r \div 8) + (r % 8) \div 4 = (r + 8) \div 4
<1>1. r = 8 * (r \div 8) + (r % 8) /\ r \div 8 \in Nat /\ r % 8 \in 0 .. 7
  OBVIOUS
<1>2. ASSUME NEW q \in Nat, NEW e \in 0 .. 7
      PROVE  2 + 2 * q + e \div 4 = (8 * q + e + 8) \div 4
  OBVIOUS
<1> QED BY <1>1, <1>2

\* The refill of region r goes to the slot of commit group r+8.
LEMMA RefillSlot ==
  ASSUME NEW r \in Nat
  PROVE <<CopyOrder(r), SubIteration(r)>> = SlotOf(r + 8)
  BY DEF SlotOf, CopyOrder, SubIteration

-----------------------------------------------------------------------------

\* The bounds of a warp's position, and how many barriers it has arrived at.
LEMMA Position ==
  ASSUME IInv, NEW w \in Warps
  PROVE  /\ region[w] \in Int /\ region[w] >= -1 /\ region[w] <= NumRegions
         /\ step[w] \in {"copy", "wait", "barrier", "read", "mfma", "store", "done"}
         /\ arrivals[w] \in Nat /\ committed[w] \in Nat
         /\ Passed(w) \in Nat /\ LastRead(w) \in Int /\ FirstRead(w) \in Int
         /\ LastRead(w) <= Passed(w) /\ Passed(w) <= NumRegions - 1
         /\ LastRead(w) <= FirstRead(w) + 1
         /\ arrivals[w] = IF step[w] = "barrier" THEN Passed(w) + 1 ELSE Passed(w)
         /\ committed[w] <= NumRegions
         /\ LastRead(w) >= 0 => region[w] >= 0
<1>1. ControlInv(w) /\ CountInv(w)
  BY DEF IInv, WarpInv
<1>2. /\ region[w] \in -1 .. NumRegions
      /\ step[w] \in {"copy", "wait", "barrier", "read", "mfma", "store", "done"}
      /\ arrivals[w] \in 0 .. NumRegions - 1
      /\ committed[w] \in 0 .. NumRegions
  BY DEF IInv, TypeOK
<1>3. CASE region[w] = -1
  BY <1>1, <1>2, <1>3, Counts DEF ControlInv, CountInv, Passed, LastRead, FirstRead, NeededBelow, MfmasDone
<1>4. CASE region[w] # -1
  BY <1>1, <1>2, <1>4, Counts
     DEF ControlInv, CountInv, Passed, LastRead, FirstRead, NeededBelow, MfmasDone, AtMost
<1> QED BY <1>3, <1>4

\* Of a half tile that some warp has begun to read, every warp's part has
\* landed: what its wait_group before the barrier is for.
LEMMA LandedBeforeRead ==
  ASSUME IInv, NEW w \in Warps, NEW v \in Warps, NEW m \in Nat, m <= LastRead(w)
  PROVE  m < committed[v] /\ ~InFlight(v, m)
<1>1. arrivals[v] >= Passed(w) /\ Passed(w) >= m /\ region[w] >= 0
  BY Position DEF IInv, BarrierInv
<1>2. Passed(w) >= 1
  BY <1>1, Counts, Position DEF Passed, AtMost
<1>3. FlyingInv(v) /\ CountInv(v) /\ ControlInv(v)
  BY DEF IInv, WarpInv
<1>4. ~InFlight(v, m)
  <2> SUFFICES ASSUME NEW d \in flying[v], d.id = m
               PROVE  FALSE
    BY DEF InFlight
  <2>1. arrivals[v] > 0 => d.id > arrivals[v]
    BY <1>3 DEF FlyingInv
  <2> QED BY <2>1, <1>1, <1>2, Position
<1>5. m < committed[v]
  <2>1. CASE region[v] = -1
    BY <2>1, <1>1, <1>2, <1>3, Position DEF CountInv, ControlInv, Passed
  <2>2. CASE region[v] # -1
    BY <2>2, <1>1, <1>2, <1>3, Position, Counts DEF CountInv, ControlInv, Passed, AtMost
  <2> QED BY <2>1, <2>2
<1> QED BY <1>4, <1>5

\* While a warp may still be reading a half tile, no warp has issued the copy
\* that refills its slot: what the barrier is for.
LEMMA NotRefilledBeforeDelivery ==
  ASSUME IInv, NEW w \in Warps, NEW v \in Warps, NEW m \in Nat,
         FirstRead(w) <= m, m <= LastRead(w)
  PROVE  committed[v] <= m + 8
<1>1. arrivals[w] >= Passed(v)
  BY DEF IInv, BarrierInv
<1>2. CountInv(v) /\ ControlInv(v) /\ ControlInv(w)
  BY DEF IInv, WarpInv
<1>3. CASE region[v] = -1
  BY <1>3, <1>2, Position DEF CountInv
<1>4. CASE region[v] # -1
  <2>1. Passed(v) >= AtMost(region[v] + 1, NumRegions - 1)
    BY <1>4, Position, Counts DEF Passed, AtMost
  <2>2. arrivals[w] <= m + 1
    BY <1>2, Position, Counts DEF ControlInv, Passed, AtMost, FirstRead, NeededBelow, MfmasDone
  <2>3. committed[v] <= region[v] + 8 /\ committed[v] <= NumRegions
    BY <1>4, <1>2, Position, Counts DEF CountInv, AtMost
  <2> QED BY <1>1, <2>1, <2>2, <2>3, Position, Counts DEF AtMost
<1> QED BY <1>3, <1>4

-----------------------------------------------------------------------------

\* The state of warp u, and its parts of LDS, are left alone.
SameWarp(u) ==
    /\ region'[u] = region[u] /\ step'[u] = step[u] /\ base'[u] = base[u]
    /\ committed'[u] = committed[u] /\ flying'[u] = flying[u]
    /\ arrivals'[u] = arrivals[u]
    /\ pending'[u] = pending[u] /\ reg'[u] = reg[u]
    /\ \A s \in Slots : lds'[s][u] = lds[s][u]
    /\ \A q \in Quads : acc'[<<u, q>>] = acc[<<u, q>>]

\* Every commit group has a slot.
LEMMA SlotsOf == \A n \in Nat : SlotOf(n) \in Slots
  BY SlotPeriod

\* What a warp does leaves the invariant of a warp alone whose own state and
\* whose parts of LDS it leaves alone.
LEMMA Frame ==
  ASSUME NEW u \in Warps, SameWarp(u)
  PROVE  /\ WarpInv(u) => WarpInv(u)'
         /\ Passed(u)' = Passed(u)
<1> USE DEF SameWarp
<1>1. Passed(u)' = Passed(u) /\ LastRead(u)' = LastRead(u) /\ FirstRead(u)' = FirstRead(u)
  BY DEF Passed, LastRead, FirstRead, NeededBelow, MfmasDone
<1>2. MfmasDone(u)' = MfmasDone(u)
  BY DEF MfmasDone
<1> SUFFICES ASSUME WarpInv(u) PROVE WarpInv(u)'
  BY <1>1
<1>3. ControlInv(u)'
  BY DEF WarpInv, ControlInv
<1>4. CountInv(u)'
  BY <1>1 DEF WarpInv, CountInv
<1>5. FlyingInv(u)'
  BY DEF WarpInv, FlyingInv
<1>6. PendingInv(u)'
  BY <1>1 DEF WarpInv, PendingInv
<1>7. LdsInv(u)'
  <2>1. \A n : InFlight(u, n)' = InFlight(u, n)
    BY DEF InFlight
  <2> QED BY <2>1, SlotsOf, Counts DEF WarpInv, LdsInv
<1>8. RegInv(u)'
  BY <1>1 DEF WarpInv, RegInv
<1>9. AccInv(u)'
  BY <1>2 DEF WarpInv, AccInv, ProductsOf
<1> QED BY <1>3, <1>4, <1>5, <1>6, <1>7, <1>8, <1>9 DEF WarpInv

\* A step of w preserves IInv if it preserves the invariant of w, leaves the
\* other warps alone and passes no barrier that somebody has not arrived at.
LEMMA OneWarpMoves ==
  ASSUME IInv, NEW w \in Warps, TypeOK', WarpInv(w)',
         \A u \in Warps \ {w} : SameWarp(u),
         arrivals'[w] >= arrivals[w],
         Passed(w)' = Passed(w) \/ \A v \in Warps : arrivals[v] >= Passed(w)'
  PROVE  IInv'
<1>1. \A u \in Warps : WarpInv(u)'
  BY Frame DEF IInv
<1>2. ASSUME NEW u \in Warps, NEW v \in Warps
      PROVE  arrivals'[v] >= Passed(u)'
  <2>1. arrivals'[v] >= arrivals[v] /\ arrivals[v] \in Nat /\ arrivals'[v] \in Nat
    <3>1. arrivals[v] \in Nat
      BY Position
    <3>2. arrivals'[v] \in Nat
      BY Counts DEF TypeOK
    <3>3. v # w => arrivals'[v] = arrivals[v]
      BY DEF SameWarp
    <3> QED BY <3>1, <3>2, <3>3
  <2>2. Passed(u) \in Nat /\ arrivals[v] >= Passed(u)
    BY Position DEF IInv, BarrierInv
  <2>3. arrivals[v] >= Passed(u)'
    BY <2>2, Frame
  <2>4. Passed(u)' \in Int
    <3>1. region'[u] \in Int /\ NumRegions \in Int
      BY Counts DEF TypeOK
    <3> QED BY <3>1 DEF Passed, AtMost
  <2> QED BY <2>1, <2>3, <2>4
<1> QED BY <1>1, <1>2 DEF IInv, BarrierInv

\* WaitGroup: what stays in flight is younger than the barrier it leads to.
LEMMA WaitGroupInv ==
  ASSUME IInv, NEW w \in Warps, WaitGroup(w)
  PROVE  IInv'
<1> USE DEF WaitGroup
<1>1. /\ ControlInv(w) /\ CountInv(w) /\ FlyingInv(w) /\ PendingInv(w)
      /\ LdsInv(w) /\ RegInv(w) /\ AccInv(w) /\ TypeOK
  BY DEF IInv, WarpInv
<1>2. /\ step[w] = "wait" /\ step'[w] = "barrier" /\ region' = region
      /\ arrivals'[w] = arrivals[w] + 1
  BY <1>1 DEF TypeOK
<1>3. region[w] \in -1 .. NumRegions - 3
  BY <1>1, <1>2, Counts DEF ControlInv
<1>4. arrivals'[w] = region[w] + 2 /\ arrivals'[w] \in Nat
  BY <1>1, <1>2, <1>3, Counts DEF CountInv, Passed, AtMost
<1>5. /\ Passed(w)' = Passed(w) /\ LastRead(w)' = LastRead(w)
      /\ FirstRead(w)' = FirstRead(w) /\ MfmasDone(w)' = MfmasDone(w)
  BY <1>2 DEF Passed, LastRead, FirstRead, NeededBelow, MfmasDone
<1>6. WarpInv(w)'
  <2>1. ControlInv(w)'
    BY <1>1, <1>2 DEF ControlInv
  <2>2. CountInv(w)'
    BY <1>1, <1>2, <1>5 DEF CountInv
  <2>3. committed[w] - WaitCount(region[w]) = region[w] + 3
    <3>1. CASE region[w] = -1
      BY <3>1, <1>1, <1>2, Counts DEF CountInv, WaitCount, PrologueWait
    <3>2. CASE region[w] \in 0 .. LoopRegions - 1
      BY <3>2, <1>1, <1>2, Counts DEF CountInv, WaitCount, LoopWait, AtMost
    <3>3. CASE region[w] \in LoopRegions .. NumRegions - 3
      <4>1. WaitCount(region[w]) = 5 - (region[w] - LoopRegions)
        BY <3>3, Counts DEF WaitCount, EpilogueWait
      <4>2. committed[w] = NumRegions
        BY <3>3, <1>1, <1>2, Counts DEF CountInv, AtMost
      <4> QED BY <3>3, <4>1, <4>2, Counts
    <3> QED BY <1>3, <3>1, <3>2, <3>3, Counts
  <2>4. FlyingInv(w)'
    <3> SUFFICES ASSUME NEW d \in flying[w] PROVE d.id > arrivals'[w]
      BY <1>1, <1>2 DEF FlyingInv
    <3>1. d.id \in Int
      BY <1>1 DEF TypeOK
    <3> QED BY <3>1, <2>3, <1>3, <1>4
  <2>5. PendingInv(w)' /\ RegInv(w)' /\ AccInv(w)'
    BY <1>1, <1>5 DEF PendingInv, RegInv, AccInv, ProductsOf
  <2>6. LdsInv(w)'
    BY <1>1 DEF LdsInv, InFlight
  <2> QED BY <2>1, <2>2, <2>4, <2>5, <2>6 DEF WarpInv
<1>7. TypeOK'
  <2>1. arrivals'[w] \in 0 .. NumRegions - 1
    BY <1>3, <1>4, Counts
  <2> QED BY <1>1, <2>1 DEF TypeOK
<1>8. \A u \in Warps \ {w} : SameWarp(u)
  BY <1>1 DEF SameWarp, TypeOK
<1>9. arrivals'[w] >= arrivals[w]
  BY <1>2, Position
<1> QED BY <1>5, <1>6, <1>7, <1>8, <1>9, OneWarpMoves

\* PassBarrier: its guard is the new instance of BarrierInv.
LEMMA PassBarrierInv ==
  ASSUME IInv, NEW w \in Warps, PassBarrier(w)
  PROVE  IInv'
<1> USE DEF PassBarrier
<1>1. /\ ControlInv(w) /\ CountInv(w) /\ FlyingInv(w) /\ PendingInv(w)
      /\ LdsInv(w) /\ RegInv(w) /\ AccInv(w) /\ TypeOK
  BY DEF IInv, WarpInv
<1>2. step[w] = "barrier" /\ step'[w] = "read" /\ region' = region
  BY <1>1 DEF TypeOK
<1>3. region[w] \in -1 .. NumRegions - 3
  BY <1>1, <1>2, Counts DEF ControlInv
<1>4. Passed(w)' = Passed(w) + 1
  BY <1>2, <1>3, Counts DEF Passed, AtMost
<1>5. /\ LastRead(w)' = LastRead(w) /\ FirstRead(w)' = FirstRead(w)
      /\ MfmasDone(w)' = MfmasDone(w)
  BY <1>2 DEF LastRead, FirstRead, NeededBelow, MfmasDone
<1>6. WarpInv(w)'
  <2>1. ControlInv(w)'
    BY <1>1, <1>2 DEF ControlInv
  <2>2. CountInv(w)'
    BY <1>1, <1>2, <1>4 DEF CountInv
  <2>3. FlyingInv(w)' /\ LdsInv(w)'
    BY <1>1 DEF FlyingInv, LdsInv, InFlight
  <2>4. PendingInv(w)' /\ RegInv(w)' /\ AccInv(w)'
    BY <1>1, <1>5 DEF PendingInv, RegInv, AccInv, ProductsOf
  <2> QED BY <2>1, <2>2, <2>3, <2>4 DEF WarpInv
<1>7. TypeOK'
  BY <1>1 DEF TypeOK
<1>8. \A u \in Warps \ {w} : SameWarp(u)
  BY <1>1 DEF SameWarp, TypeOK
<1>9. \A v \in Warps : arrivals[v] >= Passed(w)'
  BY <1>1, <1>2, <1>4 DEF CountInv
<1>10. arrivals'[w] >= arrivals[w]
  BY Position
<1> QED BY <1>6, <1>7, <1>8, <1>9, <1>10, OneWarpMoves

\* PrologueRead: the first two reads find the first two groups landed.
LEMMA PrologueReadInv ==
  ASSUME IInv, NEW w \in Warps, PrologueRead(w)
  PROVE  IInv'
<1> USE DEF PrologueRead
<1>1. /\ ControlInv(w) /\ CountInv(w) /\ FlyingInv(w) /\ PendingInv(w)
      /\ LdsInv(w) /\ RegInv(w) /\ AccInv(w) /\ TypeOK
  BY DEF IInv, WarpInv
<1>2. region[w] = -1 /\ step[w] = "read" /\ region'[w] = 0 /\ step'[w] = "mfma"
  BY <1>1 DEF TypeOK
<1>3. Passed(w) = 1 /\ Passed(w)' = 1
  BY <1>2, Counts DEF Passed, AtMost
<1>4. /\ LastRead(w) = -1 /\ LastRead(w)' = 1 /\ FirstRead(w)' = 0
      /\ MfmasDone(w) = 0 /\ MfmasDone(w)' = 0
  BY <1>2, Counts DEF LastRead, FirstRead, NeededBelow, MfmasDone, AtMost
<1>5. pending[w] = {}
  BY <1>1, <1>4 DEF PendingInv
<1>6. SlotOf(0) = <<"b_left", 0>> /\ SlotOf(1) = <<"a_top", 0>>
  BY DEF SlotOf, CopyOrder
<1>7. pending'[w] = {SlotOf(0), SlotOf(1)}
  BY <1>1, <1>5, <1>6 DEF TypeOK
<1>8. WarpInv(w)'
  <2>1. ControlInv(w)'
    BY <1>2, Counts DEF ControlInv
  <2>2. CountInv(w)'
    BY <1>1, <1>2, <1>3, Counts DEF CountInv, AtMost
  <2>3. FlyingInv(w)' /\ LdsInv(w)'
    BY <1>1 DEF FlyingInv, LdsInv, InFlight
  <2>4. PendingInv(w)'
    BY <1>4, <1>7, Counts DEF PendingInv
  <2>5. RegInv(w)'
    <3> SUFFICES ASSUME NEW m \in 0 .. NumRegions - 1, m <= 1,
                        SlotOf(m) \notin pending'[w]
                 PROVE  FALSE
      BY <1>4 DEF RegInv
    <3>1. m = 0 \/ m = 1
      BY Counts
    <3> QED BY <3>1, <1>7
  <2>6. AccInv(w)'
    BY <1>1, <1>4 DEF AccInv, ProductsOf
  <2> QED BY <2>1, <2>2, <2>3, <2>4, <2>5, <2>6 DEF WarpInv
<1>9. TypeOK'
  <2>1. pending'[w] \in SUBSET Slots
    BY <1>7, SlotPeriod
  <2>2. 0 \in -1 .. NumRegions
    BY Counts
  <2>3. pending' \in [Warps -> SUBSET Slots]
    BY <1>1, <2>1 DEF TypeOK
  <2> QED BY <1>1, <2>2, <2>3 DEF TypeOK
<1>10. \A u \in Warps \ {w} : SameWarp(u)
  BY <1>1 DEF SameWarp, TypeOK
<1>11. arrivals'[w] >= arrivals[w]
  BY Position
<1> QED BY <1>3, <1>8, <1>9, <1>10, <1>11, OneWarpMoves

\* LocalRead: read r+2 becomes pending, the operand it replaces is used up.
LEMMA LocalReadInv ==
  ASSUME IInv, NEW w \in Warps, LocalRead(w)
  PROVE  IInv'
<1> DEFINE r == region[w]
<1>1. /\ ControlInv(w) /\ CountInv(w) /\ FlyingInv(w) /\ PendingInv(w)
      /\ LdsInv(w) /\ RegInv(w) /\ AccInv(w) /\ TypeOK
  BY DEF IInv, WarpInv
<1>2. /\ step[w] = "read" /\ r \in Nat
      /\ \/ r < LoopRegions /\ step'[w] = "copy" /\ region'[w] = r
         \/ r >= LoopRegions /\ r = NumRegions - 3
            /\ step'[w] = "store" /\ region'[w] = r
         \/ r >= LoopRegions /\ r < NumRegions - 3
            /\ step'[w] = "mfma" /\ region'[w] = r + 1
  <2>1. r \in Nat /\ step[w] = "read" /\ r < NumRegions - 2
    BY <1>1, Counts, Position DEF LocalRead, ControlInv
  <2>2. StoredAfter(r) # {} <=> r = NumRegions - 3
    BY <2>1, Counts DEF StoredAfter
  <2>3. region \in [Warps -> -1 .. NumRegions] /\ DOMAIN step = Warps
    BY <1>1 DEF TypeOK
  <2>4. CASE r < LoopRegions
    BY <2>1, <2>3, <2>4 DEF LocalRead
  <2>5. CASE r >= LoopRegions /\ r = NumRegions - 3
    BY <2>1, <2>2, <2>3, <2>5, Counts DEF LocalRead
  <2>6. CASE r >= LoopRegions /\ r < NumRegions - 3
    <3>1. ~(r < LoopRegions) /\ StoredAfter(r) = {}
      BY <2>1, <2>2, <2>6, Counts
    <3> QED BY <2>1, <2>3, <2>6, <3>1 DEF LocalRead
  <2> QED BY <2>1, <2>4, <2>5, <2>6, Counts
<1>3. r < NumRegions - 2
  BY <1>1, <1>2, Counts DEF ControlInv
<1>4. pending'[w] = pending[w] \cup {SlotOf(r + 2)}
  BY <1>1, <1>2, <1>3, ReadSlotOf DEF LocalRead, TypeOK
<1>5. /\ Passed(w)' = Passed(w) /\ MfmasDone(w)' = MfmasDone(w)
      /\ FirstRead(w)' = FirstRead(w) /\ FirstRead(w) \in {r + 1, r + 2}
      /\ LastRead(w) = r + 1 /\ LastRead(w)' = r + 2
  <2>1. CASE step'[w] = "copy"
    BY <1>2, <1>3, <2>1, Counts DEF Passed, LastRead, FirstRead, NeededBelow, MfmasDone, AtMost
  <2>2. CASE step'[w] = "store"
    BY <1>2, <1>3, <2>2, Counts DEF Passed, LastRead, FirstRead, NeededBelow, MfmasDone, AtMost
  <2>3. CASE step'[w] = "mfma"
    BY <1>2, <1>3, <2>3, Counts DEF Passed, LastRead, FirstRead, NeededBelow, MfmasDone, AtMost
  <2> QED BY <1>2, <2>1, <2>2, <2>3
<1>6. WarpInv(w)'
  <2>1. ControlInv(w)'
    BY <1>2, <1>3, Counts DEF ControlInv
  <2>2. CountInv(w)'
    <3>1. CASE region'[w] = r
      BY <3>1, <1>1, <1>2, <1>5 DEF LocalRead, CountInv
    <3>2. CASE region'[w] = r + 1 /\ step'[w] = "mfma" /\ r >= LoopRegions
      <4>1. /\ committed[w] = NumRegions /\ base[w] = iterMax
            /\ AtMost(r + 9, NumRegions) = NumRegions
            /\ AtMost(2 + 2 * ((r + 1) \div 8), iterMax) = iterMax
        BY <3>2, <1>1, <1>2, <1>3, Counts DEF CountInv, AtMost
      <4> QED BY <4>1, <3>2, <1>1, <1>2, <1>5 DEF LocalRead, CountInv
    <3> QED BY <1>2, <3>1, <3>2
  <2>3. FlyingInv(w)' /\ LdsInv(w)'
    BY <1>1 DEF LocalRead, FlyingInv, LdsInv, InFlight
  <2>4. PendingInv(w)'
    <3> SUFFICES ASSUME NEW s \in pending'[w]
                 PROVE  \E m \in 0 .. NumRegions - 1 :
                            FirstRead(w) <= m /\ m <= r + 2 /\ s = SlotOf(m)
      BY <1>5 DEF PendingInv
    <3>1. CASE s = SlotOf(r + 2)
      <4>1. r + 2 \in 0 .. NumRegions - 1 /\ FirstRead(w) <= r + 2
        BY <1>2, <1>3, <1>5, Counts
      <4> QED BY <3>1, <4>1, <1>2
    <3>2. CASE s \in pending[w]
      BY <3>2, <1>1, <1>2, <1>5 DEF PendingInv
    <3> QED BY <3>1, <3>2, <1>4
  <2>5. RegInv(w)'
    <3> SUFFICES ASSUME NEW m \in 0 .. NumRegions - 1, m <= r + 2, r + 2 < m + 4,
                        SlotOf(m) \notin pending'[w]
                 PROVE  reg'[w][CopyOrder(m)] = {StepOf(m)}
      BY <1>5 DEF RegInv
    <3>1. m # r + 2 /\ SlotOf(m) \notin pending[w]
      BY <1>4
    <3>2. m <= LastRead(w) /\ LastRead(w) < m + 4
      BY <3>1, <1>2, <1>5, Counts
    <3> QED BY <3>1, <3>2, <1>1 DEF RegInv, LocalRead
  <2>6. AccInv(w)'
    BY <1>1, <1>5 DEF LocalRead, AccInv, ProductsOf
  <2> QED BY <2>1, <2>2, <2>3, <2>4, <2>5, <2>6 DEF WarpInv
<1>7. TypeOK'
  <2>1. pending'[w] \in SUBSET Slots
    BY <1>1, <1>2, <1>4, SlotsOf DEF TypeOK
  <2>2. pending' \in [Warps -> SUBSET Slots]
    BY <1>1, <2>1 DEF TypeOK, LocalRead
  <2>3. r + 1 \in -1 .. NumRegions
    BY <1>2, <1>3, Counts
  <2>4. region' \in [Warps -> -1 .. NumRegions]
    BY <1>1, <2>3 DEF TypeOK, LocalRead
  <2>5. step' \in [Warps -> {"copy", "wait", "barrier", "read", "mfma", "store", "done"}]
    BY <1>1 DEF TypeOK, LocalRead
  <2> QED BY <1>1, <2>2, <2>4, <2>5 DEF TypeOK, LocalRead
<1>8. \A u \in Warps \ {w} : SameWarp(u)
  BY <1>1 DEF SameWarp, TypeOK, LocalRead
<1>9. arrivals'[w] >= arrivals[w]
  BY Position DEF LocalRead
<1> QED BY <1>5, <1>6, <1>7, <1>8, <1>9, OneWarpMoves

\* The next commit group is in flight and nothing else changed: the slots keep
\* what they hold.
LEMMA CopyKeepsLds ==
  ASSUME IInv, NEW w \in Warps, NEW slot, NEW k, AsyncCopy(w, slot, k), lds' = lds
  PROVE  /\ flying'[w] = flying[w] \cup {[id |-> committed[w], slot |-> slot, k |-> k]}
         /\ committed'[w] = committed[w] + 1
         /\ LdsInv(w)'
<1>1. LdsInv(w) /\ TypeOK
  BY DEF IInv, WarpInv
<1>2. /\ flying'[w] = flying[w] \cup {[id |-> committed[w], slot |-> slot, k |-> k]}
      /\ committed'[w] = committed[w] + 1
  BY <1>1 DEF AsyncCopy, TypeOK
<1>3. \A n : InFlight(w, n)' <=> InFlight(w, n) \/ n = committed[w]
  <2> SUFFICES ASSUME NEW n
               PROVE  InFlight(w, n)' <=> InFlight(w, n) \/ n = committed[w]
    OBVIOUS
  <2> DEFINE new == [id |-> committed[w], slot |-> slot, k |-> k]
  <2>1. new \in flying'[w] /\ new.id = committed[w] /\ flying[w] \subseteq flying'[w]
    BY <1>2
  <2>2. \A d \in flying'[w] : d \in flying[w] \/ d = new
    BY <1>2
  <2> HIDE DEF new
  <2> QED BY <2>1, <2>2 DEF InFlight
<1>4. LdsInv(w)'
  <2> SUFFICES ASSUME NEW n \in 0 .. NumRegions - 1,
                      n < committed'[w], ~InFlight(w, n)',
                      n + 8 >= committed'[w] \/ InFlight(w, n + 8)'
               PROVE  lds[SlotOf(n)][w] = StepOf(n)
    BY DEF LdsInv
  <2>1. committed[w] \in Nat /\ n \in Nat
    BY Position, Counts
  <2>2. n < committed[w] /\ ~InFlight(w, n)
    BY <1>2, <1>3, <2>1
  <2>3. n + 8 >= committed[w] \/ InFlight(w, n + 8)
    BY <1>2, <1>3, <2>1
  <2> QED BY <1>1, <2>2, <2>3 DEF LdsInv
<1> QED BY <1>2, <1>4

\* PrologueCopy: the first eight groups fill the eight slots.
LEMMA PrologueCopyInv ==
  ASSUME IInv, NEW w \in Warps, PrologueCopy(w)
  PROVE  IInv'
<1> DEFINE n == committed[w]
<1>1. /\ ControlInv(w) /\ CountInv(w) /\ FlyingInv(w) /\ PendingInv(w)
      /\ LdsInv(w) /\ RegInv(w) /\ AccInv(w) /\ TypeOK
  BY DEF IInv, WarpInv
<1>2. /\ region[w] = -1 /\ step[w] = "copy" /\ region' = region
      /\ n \in 0 .. 7 /\ base[w] = 0
      /\ step'[w] = IF n = 7 THEN "wait" ELSE "copy"
      /\ base'[w] = IF n = 7 THEN 2 ELSE 0
      /\ AsyncCopy(w, <<CopyOrder(n), n \div 4>>, n \div 4)
  BY <1>1 DEF PrologueCopy, CountInv, TypeOK
<1>3. <<CopyOrder(n), n \div 4>> = SlotOf(n) /\ n \div 4 = StepOf(n)
  BY <1>2 DEF SlotOf, StepOf
<1>4. /\ flying'[w] = flying[w] \cup {[id |-> n, slot |-> SlotOf(n), k |-> StepOf(n)]}
      /\ committed'[w] = n + 1 /\ LdsInv(w)'
  BY <1>2, <1>3, CopyKeepsLds DEF PrologueCopy
<1>5. /\ Passed(w) = 0 /\ Passed(w)' = 0 /\ MfmasDone(w)' = MfmasDone(w)
      /\ FirstRead(w)' = FirstRead(w) /\ LastRead(w)' = LastRead(w)
  BY <1>2 DEF Passed, MfmasDone, NeededBelow, FirstRead, LastRead
<1>6. arrivals[w] = 0 /\ arrivals' = arrivals
  BY <1>1, <1>2, <1>5 DEF CountInv, PrologueCopy
<1>7. WarpInv(w)'
  <2>1. ControlInv(w)'
    BY <1>2 DEF ControlInv
  <2>2. CountInv(w)'
    BY <1>2, <1>4, <1>5, <1>6 DEF CountInv
  <2>3. FlyingInv(w)'
    BY <1>1, <1>2, <1>4, <1>6 DEF FlyingInv, TypeOK
  <2>4. PendingInv(w)' /\ RegInv(w)' /\ AccInv(w)'
    BY <1>1, <1>5 DEF PendingInv, RegInv, AccInv, ProductsOf, PrologueCopy
  <2> QED BY <1>4, <2>1, <2>2, <2>3, <2>4 DEF WarpInv
<1>8. TypeOK'
  <2>1. /\ n \in 0 .. NumRegions - 1 /\ n + 1 \in 0 .. NumRegions
        /\ StepOf(n) \in Steps /\ 2 \in 0 .. iterMax
    <3>1. StepOf(n) \in 0 .. 1
      BY <1>2 DEF StepOf
    <3>2. NumRegions > 8 /\ NumRegions \in Nat
      BY Counts
    <3>3. n \in 0 .. NumRegions - 1 /\ n + 1 \in 0 .. NumRegions
      BY <3>2, <1>2
    <3>4. StepOf(n) \in Steps /\ 2 \in 0 .. iterMax
      BY <3>1, Counts DEF Steps
    <3> QED BY <3>3, <3>4
  <2>2. SlotOf(n) \in Slots
    BY <1>2, SlotsOf
  <2>3. committed' \in [Warps -> 0 .. NumRegions]
    BY <1>1, <1>2, <2>1 DEF TypeOK, AsyncCopy
  <2>4. flying' \in [Warps -> SUBSET [id : 0 .. NumRegions - 1, slot : Slots, k : Steps]]
    <3>1. flying'[w] \in SUBSET [id : 0 .. NumRegions - 1, slot : Slots, k : Steps]
      BY <1>1, <1>4, <2>1, <2>2 DEF TypeOK
    <3> QED BY <1>1, <1>2, <3>1 DEF TypeOK, AsyncCopy
  <2>5. base' \in [Warps -> 0 .. iterMax]
    BY <1>1, <1>2, <2>1 DEF TypeOK, PrologueCopy
  <2>6. step' \in [Warps -> {"copy", "wait", "barrier", "read", "mfma", "store", "done"}]
    BY <1>1 DEF TypeOK, PrologueCopy
  <2> QED BY <1>1, <2>3, <2>4, <2>5, <2>6 DEF TypeOK, PrologueCopy
<1>9. \A u \in Warps \ {w} : SameWarp(u)
  BY <1>1 DEF SameWarp, TypeOK, PrologueCopy, AsyncCopy
<1>10. arrivals'[w] >= arrivals[w]
  BY <1>6
<1> QED BY <1>5, <1>7, <1>8, <1>9, <1>10, OneWarpMoves

\* RefillCopy: group r+8 goes into the slot that read r has emptied.
LEMMA RefillCopyInv ==
  ASSUME IInv, NEW w \in Warps, RefillCopy(w)
  PROVE  IInv'
<1> DEFINE r == region[w]
<1>1. /\ ControlInv(w) /\ CountInv(w) /\ FlyingInv(w) /\ PendingInv(w)
      /\ LdsInv(w) /\ RegInv(w) /\ AccInv(w) /\ TypeOK
  BY DEF IInv, WarpInv
<1>2. r \in Nat /\ r < LoopRegions /\ step[w] = "copy"
  BY <1>1, Counts, Position DEF RefillCopy, ControlInv
<1>3. region'[w] = r + 1 /\ step'[w] = "mfma"
  BY <1>1 DEF RefillCopy, TypeOK
<1>4. committed[w] = r + 8 /\ base[w] = 2 + 2 * (r \div 8)
  BY <1>1, <1>2, Counts DEF CountInv, AtMost
<1>5. <<CopyOrder(r), SubIteration(r)>> = SlotOf(r + 8)
  BY <1>2, RefillSlot
<1>6. base[w] + SubIteration(r) = StepOf(r + 8)
  BY <1>2, <1>4, RefillStep DEF SubIteration, StepOf
<1>7. AsyncCopy(w, SlotOf(r + 8), StepOf(r + 8))
  BY <1>5, <1>6 DEF RefillCopy
<1>8. /\ flying'[w] = flying[w] \cup
                      {[id |-> r + 8, slot |-> SlotOf(r + 8), k |-> StepOf(r + 8)]}
      /\ committed'[w] = r + 9 /\ LdsInv(w)'
  BY <1>2, <1>4, <1>7, CopyKeepsLds DEF RefillCopy
<1>9. base'[w] = 2 + 2 * ((r + 1) \div 8)
  BY <1>1, <1>2, <1>4 DEF RefillCopy, TypeOK
<1>10. /\ Passed(w)' = Passed(w) /\ Passed(w) = r + 2
       /\ MfmasDone(w)' = MfmasDone(w) /\ FirstRead(w)' = FirstRead(w)
       /\ LastRead(w)' = LastRead(w)
  BY <1>2, <1>3, Counts DEF Passed, MfmasDone, NeededBelow, FirstRead, LastRead, AtMost
<1>11. arrivals[w] = r + 2 /\ arrivals' = arrivals
  BY <1>1, <1>2, <1>10 DEF CountInv, RefillCopy
<1>12. WarpInv(w)'
  <2>1. ControlInv(w)'
    BY <1>2, <1>3, Counts DEF ControlInv
  <2>2. /\ AtMost(r + 1 + 8, NumRegions) = r + 9
        /\ AtMost(2 + 2 * ((r + 1) \div 8), iterMax) = 2 + 2 * ((r + 1) \div 8)
    BY <1>2, Counts DEF AtMost
  <2>3. CountInv(w)'
    BY <1>2, <1>3, <1>8, <1>9, <1>10, <1>11, <2>2 DEF CountInv
  <2>4. FlyingInv(w)'
    BY <1>1, <1>2, <1>4, <1>8, <1>11 DEF FlyingInv, TypeOK
  <2>5. PendingInv(w)' /\ RegInv(w)' /\ AccInv(w)'
    BY <1>1, <1>10 DEF PendingInv, RegInv, AccInv, ProductsOf, RefillCopy
  <2> QED BY <1>8, <2>1, <2>3, <2>4, <2>5 DEF WarpInv
<1>13. TypeOK'
  <2>1. /\ r + 8 \in 0 .. NumRegions - 1 /\ r + 9 \in 0 .. NumRegions
        /\ r + 1 \in -1 .. NumRegions
        /\ StepOf(r + 8) \in Steps /\ 2 + 2 * ((r + 1) \div 8) \in 0 .. iterMax
    BY <1>2, Counts DEF StepOf, Steps
  <2>2. SlotOf(r + 8) \in Slots
    BY <1>2, SlotsOf
  <2>3. committed' \in [Warps -> 0 .. NumRegions]
    <3>1. committed'[w] \in 0 .. NumRegions
      BY <1>8, <2>1
    <3> QED BY <1>1, <1>7, <3>1 DEF TypeOK, AsyncCopy
  <2>4. flying' \in [Warps -> SUBSET [id : 0 .. NumRegions - 1, slot : Slots, k : Steps]]
    <3>1. flying'[w] \in SUBSET [id : 0 .. NumRegions - 1, slot : Slots, k : Steps]
      <4>1. [id |-> r + 8, slot |-> SlotOf(r + 8), k |-> StepOf(r + 8)]
               \in [id : 0 .. NumRegions - 1, slot : Slots, k : Steps]
        BY <2>1, <2>2
      <4> QED BY <1>1, <1>8, <4>1 DEF TypeOK
    <3> QED BY <1>1, <1>7, <3>1 DEF TypeOK, AsyncCopy
  <2>5. base' \in [Warps -> 0 .. iterMax]
    BY <1>1, <1>9, <2>1 DEF TypeOK, RefillCopy
  <2>6. step' \in [Warps -> {"copy", "wait", "barrier", "read", "mfma", "store", "done"}]
    BY <1>1 DEF TypeOK, RefillCopy
  <2>7. region' \in [Warps -> -1 .. NumRegions]
    BY <1>1, <2>1 DEF TypeOK, RefillCopy
  <2> QED BY <1>1, <2>3, <2>4, <2>5, <2>6, <2>7 DEF TypeOK, RefillCopy
<1>14. \A u \in Warps \ {w} : SameWarp(u)
  BY <1>1 DEF SameWarp, TypeOK, RefillCopy, AsyncCopy
<1>15. arrivals'[w] >= arrivals[w]
  BY <1>11, Position
<1> QED BY <1>10, <1>12, <1>13, <1>14, <1>15, OneWarpMoves

-----------------------------------------------------------------------------

\* The two operands of the mfma of region r were read by two of the reads
\* r-1, r and r+1, both of K-step r \div 4.
LEMMA OperandReads ==
  ASSUME NEW r \in Nat
  PROVE  /\ \E m \in Nat : /\ CopyOrder(m) = OperandA(r) /\ StepOf(m) = r \div 4
                           /\ r <= m + 1 /\ m <= r + 1 /\ (r % 4 = 3 => m <= r)
         /\ \E m \in Nat : /\ CopyOrder(m) = OperandB(r) /\ StepOf(m) = r \div 4
                           /\ r <= m + 1 /\ m <= r + 1 /\ (r % 4 = 3 => m <= r)
<1> USE DEF CopyOrder, OperandA, OperandB, StepOf
<1>1. r % 4 \in 0 .. 3
  OBVIOUS
<1>2. CASE r % 4 = 0
  <2>1. CopyOrder(r + 1) = OperandA(r) /\ StepOf(r + 1) = r \div 4
    BY <1>2
  <2>2. CopyOrder(r) = OperandB(r) /\ StepOf(r) = r \div 4
    BY <1>2
  <2> HIDE DEF CopyOrder, OperandA, OperandB, StepOf
  <2> QED BY <1>2, <2>1, <2>2
<1>3. CASE r % 4 = 1
  <2>1. CopyOrder(r + 1) = OperandA(r) /\ StepOf(r + 1) = r \div 4
    BY <1>3
  <2>2. CopyOrder(r - 1) = OperandB(r) /\ StepOf(r - 1) = r \div 4 /\ r - 1 \in Nat
    BY <1>3
  <2> HIDE DEF CopyOrder, OperandA, OperandB, StepOf
  <2> QED BY <1>3, <2>1, <2>2
<1>4. CASE r % 4 = 2
  <2>1. CopyOrder(r - 1) = OperandA(r) /\ StepOf(r - 1) = r \div 4 /\ r - 1 \in Nat
    BY <1>4
  <2>2. CopyOrder(r + 1) = OperandB(r) /\ StepOf(r + 1) = r \div 4
    BY <1>4
  <2> HIDE DEF CopyOrder, OperandA, OperandB, StepOf
  <2> QED BY <1>4, <2>1, <2>2
<1>5. CASE r % 4 = 3
  <2>1. CopyOrder(r - 1) = OperandA(r) /\ StepOf(r - 1) = r \div 4 /\ r - 1 \in Nat
    BY <1>5
  <2>2. CopyOrder(r) = OperandB(r) /\ StepOf(r) = r \div 4
    BY <1>5
  <2> HIDE DEF CopyOrder, OperandA, OperandB, StepOf
  <2> QED BY <1>5, <2>1, <2>2
<1> QED BY <1>1, <1>2, <1>3, <1>4, <1>5

\* A read that was not needed before mfma r and is not one of its operands is
\* not needed before mfma r+1 either.
LEMMA ReadsNeeded ==
  ASSUME NEW r \in Nat, NEW m \in Nat, NeededBelow(r) <= m,
         CopyOrder(m) # OperandA(r), CopyOrder(m) # OperandB(r)
  PROVE  NeededBelow(r + 1) <= m
<1>1. CASE r % 4 = 0
  BY <1>1 DEF NeededBelow, CopyOrder, OperandA, OperandB
<1>2. CASE r % 4 = 1
  BY <1>2 DEF NeededBelow, CopyOrder, OperandA, OperandB
<1>3. CASE r % 4 = 2
  BY <1>3 DEF NeededBelow, CopyOrder, OperandA, OperandB
<1>4. CASE r % 4 = 3
  BY <1>4 DEF NeededBelow, CopyOrder, OperandA, OperandB
<1> QED BY <1>1, <1>2, <1>3, <1>4

\* Quadrant q gets its next product exactly in its own regions.
LEMMA ProductCount ==
  ASSUME NEW r \in Nat, NEW q \in Quads
  PROVE  /\ QuadOf(r) \in Quads
         /\ (r + 3 - QuadIndex(q)) \div 4 \in Nat
         /\ q = QuadOf(r) => /\ (r + 3 - QuadIndex(q)) \div 4 = r \div 4
                             /\ (r + 1 + 3 - QuadIndex(q)) \div 4 = r \div 4 + 1
         /\ q # QuadOf(r) => (r + 1 + 3 - QuadIndex(q)) \div 4
                               = (r + 3 - QuadIndex(q)) \div 4
<1> DEFINE i == QuadIndex(q)
<1>1. i \in 0 .. 3
  BY DEF QuadIndex, Quads
<1>2. QuadOf(r) \in Quads /\ (q = QuadOf(r) <=> i = r % 4)
  BY DEF QuadOf, QuadIndex, Quads
<1> HIDE DEF i
<1>3. (r + 3 - i) \div 4 \in Nat
  BY <1>1
<1>4. i = r % 4 => (r + 3 - i) \div 4 = r \div 4 /\ (r + 1 + 3 - i) \div 4 = r \div 4 + 1
  BY <1>1
<1>5. i # r % 4 => (r + 1 + 3 - i) \div 4 = (r + 3 - i) \div 4
  BY <1>1
<1> QED BY <1>2, <1>3, <1>4, <1>5 DEF i

\* One more product makes the next prefix of the full sum.
LEMMA AppendProduct ==
  ASSUME NEW n \in Nat
  PROVE  Append([i \in 1 .. n |-> G!Product(i - 1)], G!Product(n))
           = [i \in 1 .. n + 1 |-> G!Product(i - 1)]
  OBVIOUS

\* The mfma of region r multiplies the whole tiles of K-step r \div 4.
LEMMA MfmaOperands ==
  ASSUME IInv, NEW w \in Warps, Mfma(w)
  PROVE  /\ region[w] \in Nat /\ region[w] < NumRegions
         /\ reg[w][OperandA(region[w])] = {region[w] \div 4}
         /\ reg[w][OperandB(region[w])] = {region[w] \div 4}
<1> DEFINE r == region[w]
<1>1. step[w] = "mfma" /\ ControlInv(w) /\ RegInv(w)
  BY DEF Mfma, IInv, WarpInv
<1>2. r \in Nat /\ r < NumRegions
  BY <1>1, Position, Counts DEF ControlInv
<1>3. LastRead(w) = AtMost(r + 1, NumRegions - 1)
  BY <1>1, <1>2 DEF LastRead
<1>4. ASSUME NEW m \in Nat, CopyOrder(m) \in {OperandA(r), OperandB(r)},
             r <= m + 1, m <= r + 1, r % 4 = 3 => m <= r
      PROVE  reg[w][CopyOrder(m)] = {StepOf(m)}
  <2>1. m <= NumRegions - 1
    <3>1. r = NumRegions - 1 => r % 4 = 3
      BY <1>2, Counts
    <3> QED BY <3>1, <1>2, <1>4, Counts
  <2>2. m <= LastRead(w) /\ LastRead(w) < m + 4 /\ m \in 0 .. NumRegions - 1
    BY <2>1, <1>2, <1>3, <1>4, Counts DEF AtMost
  <2>3. SlotOf(m)[1] = CopyOrder(m)
    BY DEF SlotOf
  <2>4. SlotOf(m) \notin pending[w]
    BY <2>3, <1>4 DEF Mfma
  <2> QED BY <2>2, <2>4, <1>1 DEF RegInv
<1>5. reg[w][OperandA(r)] = {r \div 4}
  <2>1. PICK m \in Nat : /\ CopyOrder(m) = OperandA(r) /\ StepOf(m) = r \div 4
                         /\ r <= m + 1 /\ m <= r + 1 /\ (r % 4 = 3 => m <= r)
    BY <1>2, OperandReads
  <2> QED BY <2>1, <1>4
<1>6. reg[w][OperandB(r)] = {r \div 4}
  <2>1. PICK m \in Nat : /\ CopyOrder(m) = OperandB(r) /\ StepOf(m) = r \div 4
                         /\ r <= m + 1 /\ m <= r + 1 /\ (r % 4 = 3 => m <= r)
    BY <1>2, OperandReads
  <2> QED BY <2>1, <1>4
<1> QED BY <1>2, <1>5, <1>6

\* The mfma of region r appends the product of K-step r \div 4 to its quadrant,
\* which has all those before it.
LEMMA MfmaAccumulates ==
  ASSUME IInv, NEW w \in Warps, Mfma(w)
  PROVE  LET q == QuadOf(region[w])
             n == region[w] \div 4
         IN  /\ q \in Quads /\ n \in Nat
             /\ acc[<<w, q>>] = [i \in 1 .. n |-> G!Product(i - 1)]
             /\ acc' = [acc EXCEPT ![<<w, q>>] = Append(@, G!Product(n))]
<1> DEFINE r == region[w]
           q == QuadOf(r)
           n == r \div 4
<1>1. r \in Nat /\ reg[w][OperandA(r)] = {n} /\ reg[w][OperandB(r)] = {n}
  BY MfmaOperands
<1>2. q \in Quads /\ n \in Nat /\ (r + 3 - QuadIndex(q)) \div 4 = n
  <2>1. q \in Quads
    BY DEF QuadOf, Quads
  <2>2. n \in Nat
    BY <1>1
  <2>3. (r + 3 - QuadIndex(q)) \div 4 = n
    BY <1>1, <2>1, ProductCount
  <2> QED BY <2>1, <2>2, <2>3
<1>3. MfmasDone(w) = r
  BY <1>1 DEF Mfma, MfmasDone
<1>4. ProductsOf(w, q) = n
  BY <1>2, <1>3 DEF ProductsOf
<1>5. acc[<<w, q>>] = [i \in 1 .. n |-> G!Product(i - 1)]
  BY <1>2, <1>4 DEF IInv, WarpInv, AccInv
<1>6. acc' = [acc EXCEPT ![<<w, q>>] = Append(@, G!Product(n))]
  BY <1>1 DEF Mfma, G!Product, G!Whole
<1> QED BY <1>2, <1>5, <1>6

\* Mfma: the operands it used up need not be kept any more.
LEMMA MfmaInv ==
  ASSUME IInv, NEW w \in Warps, Mfma(w)
  PROVE  IInv'
<1> DEFINE r == region[w]
<1>1. /\ ControlInv(w) /\ CountInv(w) /\ FlyingInv(w) /\ PendingInv(w)
      /\ LdsInv(w) /\ RegInv(w) /\ AccInv(w) /\ TypeOK
  BY DEF IInv, WarpInv
<1>2. /\ r \in Nat /\ r < NumRegions /\ step[w] = "mfma" /\ region' = region
      /\ step'[w] = IF r < NumRegions - 2 THEN "wait" ELSE "store"
  BY <1>1, MfmaOperands DEF Mfma, TypeOK, HasRead
<1>3. /\ Passed(w)' = Passed(w) /\ LastRead(w)' = LastRead(w)
      /\ FirstRead(w) = NeededBelow(r) /\ FirstRead(w)' = NeededBelow(r + 1)
      /\ MfmasDone(w) = r /\ MfmasDone(w)' = r + 1
  <2>1. CASE r < NumRegions - 2
    BY <2>1, <1>2, Counts DEF Passed, LastRead, FirstRead, NeededBelow, MfmasDone, AtMost
  <2>2. CASE r >= NumRegions - 2
    BY <2>2, <1>2, Counts DEF Passed, LastRead, FirstRead, NeededBelow, MfmasDone, AtMost
  <2> QED BY <2>1, <2>2, <1>2, Counts
<1>4. WarpInv(w)'
  <2>1. ControlInv(w)'
    BY <1>1, <1>2, Counts DEF ControlInv
  <2>2. CountInv(w)'
    BY <1>1, <1>2, <1>3 DEF CountInv, Mfma
  <2>3. FlyingInv(w)' /\ LdsInv(w)'
    BY <1>1 DEF FlyingInv, LdsInv, InFlight, Mfma
  <2>4. RegInv(w)'
    BY <1>1, <1>3 DEF RegInv, Mfma
  <2>5. PendingInv(w)'
    <3> SUFFICES ASSUME NEW s \in pending[w]
                 PROVE  \E m \in 0 .. NumRegions - 1 :
                            NeededBelow(r + 1) <= m /\ m <= LastRead(w) /\ s = SlotOf(m)
      BY <1>3 DEF PendingInv, Mfma
    <3>1. PICK m \in 0 .. NumRegions - 1 :
              NeededBelow(r) <= m /\ m <= LastRead(w) /\ s = SlotOf(m)
      BY <1>1, <1>3 DEF PendingInv
    <3>2. CopyOrder(m) # OperandA(r) /\ CopyOrder(m) # OperandB(r)
      BY <3>1 DEF SlotOf, Mfma
    <3>3. NeededBelow(r + 1) <= m
      BY <3>1, <3>2, <1>2, ReadsNeeded
    <3> QED BY <3>1, <3>3
  <2>6. AccInv(w)'
    <3> SUFFICES ASSUME NEW q \in Quads
                 PROVE  acc'[<<w, q>>]
                          = [i \in 1 .. (r + 1 + 3 - QuadIndex(q)) \div 4 |-> G!Product(i - 1)]
      BY <1>3 DEF AccInv, ProductsOf
    <3>1. acc[<<w, q>>] = [i \in 1 .. (r + 3 - QuadIndex(q)) \div 4 |-> G!Product(i - 1)]
      BY <1>1, <1>3 DEF AccInv, ProductsOf
    <3>2. CASE q = QuadOf(r)
      <4>1. /\ r \div 4 \in Nat
            /\ acc'[<<w, q>>] = Append(acc[<<w, q>>], G!Product(r \div 4))
        BY <3>2, <1>1, MfmaAccumulates DEF TypeOK
      <4> QED BY <3>1, <3>2, <4>1, <1>2, ProductCount, AppendProduct
    <3>3. CASE q # QuadOf(r)
      <4>1. acc'[<<w, q>>] = acc[<<w, q>>]
        BY <3>3, <1>1, MfmaAccumulates DEF TypeOK
      <4> QED BY <3>1, <3>3, <4>1, <1>2, ProductCount
    <3> QED BY <3>2, <3>3
  <2> QED BY <2>1, <2>2, <2>3, <2>4, <2>5, <2>6 DEF WarpInv
<1>5. TypeOK'
  <2>1. step' \in [Warps -> {"copy", "wait", "barrier", "read", "mfma", "store", "done"}]
    BY <1>1 DEF TypeOK, Mfma
  <2>2. acc' \in [Warps \X Quads -> Seq(Tile \X Tile)]
    <3>1. <<reg[w][OperandA(r)], reg[w][OperandB(r)]>> \in Tile \X Tile
      <4>1. OperandA(r) \in Operands /\ OperandB(r) \in Operands
        BY DEF OperandA, OperandB, Operands
      <4> QED BY <4>1, <1>1 DEF TypeOK
    <3>2. \A S, x : \A s \in Seq(S) : x \in S => Append(s, x) \in Seq(S)
      OBVIOUS
    <3>3. DEFINE t == <<w, QuadOf(r)>>
    <3>4. t \in Warps \X Quads
      BY MfmaAccumulates
    <3>5. Append(acc[t], <<reg[w][OperandA(r)], reg[w][OperandB(r)]>>)
             \in Seq(Tile \X Tile)
      BY <3>1, <3>2, <3>4, <1>1 DEF TypeOK
    <3> QED BY <3>4, <3>5, <1>1 DEF TypeOK, Mfma
  <2> QED BY <1>1, <2>1, <2>2 DEF TypeOK, Mfma
<1>6. \A u \in Warps \ {w} : SameWarp(u)
  <2>1. \A u \in Warps \ {w} : \A q \in Quads : acc'[<<u, q>>] = acc[<<u, q>>]
    BY <1>1, MfmaAccumulates DEF TypeOK
  <2> QED BY <1>1, <2>1 DEF SameWarp, TypeOK, Mfma
<1>7. arrivals'[w] >= arrivals[w]
  BY Position DEF Mfma
<1> QED BY <1>3, <1>4, <1>5, <1>6, <1>7, OneWarpMoves

\* StoreC: only the position of the warp moves.
LEMMA StoreCInv ==
  ASSUME IInv, NEW w \in Warps, StoreC(w)
  PROVE  IInv'
<1> DEFINE r == region[w]
<1>1. /\ ControlInv(w) /\ CountInv(w) /\ FlyingInv(w) /\ PendingInv(w)
      /\ LdsInv(w) /\ RegInv(w) /\ AccInv(w) /\ TypeOK
  BY DEF IInv, WarpInv
<1>2. /\ step[w] = "store" /\ r \in NumRegions - 3 .. NumRegions - 1
      /\ region'[w] = r + 1
      /\ step'[w] = IF r = NumRegions - 1 THEN "done" ELSE "mfma"
  BY <1>1, Counts DEF StoreC, ControlInv, TypeOK
<1>3. /\ Passed(w)' = Passed(w) /\ LastRead(w)' = LastRead(w)
      /\ MfmasDone(w)' = MfmasDone(w) /\ FirstRead(w)' = FirstRead(w)
  <2>1. CASE r = NumRegions - 1
    BY <2>1, <1>2, Counts DEF Passed, LastRead, FirstRead, MfmasDone, AtMost
  <2>2. CASE r # NumRegions - 1
    BY <2>2, <1>2, Counts DEF Passed, LastRead, FirstRead, MfmasDone, AtMost
  <2> QED BY <2>1, <2>2
<1>4. WarpInv(w)'
  <2>1. ControlInv(w)'
    BY <1>2, Counts DEF ControlInv
  <2>2. /\ AtMost(r + 8, NumRegions) = NumRegions
        /\ AtMost(r + 1 + 8, NumRegions) = NumRegions
        /\ AtMost(2 + 2 * (r \div 8), iterMax) = iterMax
        /\ AtMost(2 + 2 * ((r + 1) \div 8), iterMax) = iterMax
    BY <1>2, Counts DEF AtMost
  <2>3. CountInv(w)'
    BY <1>1, <1>2, <1>3, <2>2, Counts DEF CountInv, StoreC
  <2>4. FlyingInv(w)' /\ LdsInv(w)'
    BY <1>1 DEF FlyingInv, LdsInv, InFlight, StoreC
  <2>5. PendingInv(w)' /\ RegInv(w)' /\ AccInv(w)'
    BY <1>1, <1>3 DEF PendingInv, RegInv, AccInv, ProductsOf, StoreC
  <2> QED BY <2>1, <2>3, <2>4, <2>5 DEF WarpInv
<1>5. TypeOK'
  <2>1. r + 1 \in -1 .. NumRegions
    BY <1>2, Counts
  <2>2. region' \in [Warps -> -1 .. NumRegions]
    BY <1>1, <2>1 DEF TypeOK, StoreC
  <2>3. step' \in [Warps -> {"copy", "wait", "barrier", "read", "mfma", "store", "done"}]
    BY <1>1 DEF TypeOK, StoreC
  <2>4. out' \in [Warps \X Quads -> Seq(Tile \X Tile)]
    BY <1>1 DEF TypeOK, StoreC
  <2> QED BY <1>1, <2>2, <2>3, <2>4 DEF TypeOK, StoreC
<1>6. \A u \in Warps \ {w} : SameWarp(u)
  BY <1>1 DEF SameWarp, TypeOK, StoreC
<1>7. arrivals'[w] >= arrivals[w]
  BY Position DEF StoreC
<1> QED BY <1>3, <1>4, <1>5, <1>6, <1>7, OneWarpMoves

-----------------------------------------------------------------------------

\* What a warp has in flight is among its last eight commit groups, one per
\* slot.
LEMMA FlightSpan ==
  ASSUME IInv, NEW w \in Warps, NEW d \in flying[w]
  PROVE  /\ d.id \in Nat /\ d.id < committed[w] /\ committed[w] <= d.id + 8
         /\ d.slot = SlotOf(d.id) /\ d.k = StepOf(d.id)
         /\ d = [id |-> d.id, slot |-> d.slot, k |-> d.k]
<1>1. CountInv(w) /\ ControlInv(w) /\ FlyingInv(w)
  BY DEF IInv, WarpInv
<1>2. /\ d \in [id : 0 .. NumRegions - 1, slot : Slots, k : Steps]
      /\ d.id \in Nat
  <2>1. flying[w] \in SUBSET [id : 0 .. NumRegions - 1, slot : Slots, k : Steps]
    BY DEF IInv, TypeOK
  <2> QED BY <2>1, Counts
<1>3. committed[w] <= d.id + 8
  <2>1. CASE region[w] = -1
    BY <2>1, <1>1, <1>2 DEF CountInv
  <2>2. CASE region[w] # -1
    <3>1. committed[w] <= region[w] + 8 /\ committed[w] <= NumRegions
      BY <2>2, <1>1, Position, Counts DEF CountInv, AtMost
    <3>2. Passed(w) >= AtMost(region[w] + 1, NumRegions - 1)
      BY <2>2, Position, Counts DEF Passed, AtMost
    <3>3. arrivals[w] > 0 /\ d.id > arrivals[w]
      BY <1>1, <2>2, <3>2, Position, Counts DEF AtMost, FlyingInv
    <3> QED BY <3>1, <3>2, <3>3, <1>2, Position, Counts DEF AtMost
  <2> QED BY <2>1, <2>2
<1> QED BY <1>1, <1>2, <1>3 DEF FlyingInv

\* Two copies of one warp in flight go to different slots.
LEMMA FlightSlots ==
  ASSUME IInv, NEW w \in Warps, NEW d \in flying[w], NEW e \in flying[w],
         d.slot = e.slot
  PROVE  d = e
<1>1. d.id = e.id
  BY FlightSpan, SlotDistance, Position
<1> QED BY <1>1, FlightSpan

\* Land: the slot then holds the K-step of the group that landed.
LEMMA LandInv ==
  ASSUME IInv, NEW w \in Warps, NEW d \in flying[w], Land(w, d)
  PROVE  IInv'
<1> DEFINE n == d.id
<1>1. /\ ControlInv(w) /\ CountInv(w) /\ FlyingInv(w) /\ PendingInv(w)
      /\ LdsInv(w) /\ RegInv(w) /\ AccInv(w) /\ TypeOK
  BY DEF IInv, WarpInv
<1>2. /\ n \in Nat /\ n < committed[w] /\ committed[w] <= n + 8
      /\ d.slot = SlotOf(n) /\ d.k = StepOf(n)
  BY FlightSpan
<1>3. flying'[w] = flying[w] \ {d}
  BY <1>1 DEF Land, TypeOK
<1>4. SlotOf(n) \in Slots /\ d.k \in Steps
  <2>1. flying[w] \in SUBSET [id : 0 .. NumRegions - 1, slot : Slots, k : Steps]
    BY <1>1 DEF TypeOK
  <2> QED BY <2>1, <1>2, SlotsOf
<1>5. /\ lds'[SlotOf(n)][w] = StepOf(n)
      /\ \A s \in Slots \ {SlotOf(n)} : lds'[s][w] = lds[s][w]
  BY <1>1, <1>2, <1>4 DEF Land, TypeOK
<1>6. LdsInv(w)'
  <2> SUFFICES ASSUME NEW m \in 0 .. NumRegions - 1,
                      m < committed[w], ~InFlight(w, m)',
                      m + 8 >= committed[w] \/ InFlight(w, m + 8)'
               PROVE  lds'[SlotOf(m)][w] = StepOf(m)
    BY DEF LdsInv, Land
  <2>1. CASE m = n
    BY <2>1, <1>5
  <2>2. CASE m # n
    <3>1. m \in Nat /\ committed[w] \in Nat
      BY Counts, Position
    <3>2. ~InFlight(w, m)
      BY <2>2, <1>3 DEF InFlight
    <3>3. InFlight(w, m + 8)' => InFlight(w, m + 8)
      BY <1>3 DEF InFlight
    <3>4. lds[SlotOf(m)][w] = StepOf(m)
      BY <1>1, <3>2, <3>3 DEF LdsInv
    <3>5. SlotOf(m) # SlotOf(n)
      <4>1. CASE m + 8 >= committed[w]
        BY <4>1, <2>2, <3>1, <1>2, SlotDistance
      <4>2. CASE InFlight(w, m + 8)'
        <5>1. PICK e \in flying'[w] : e.id = m + 8
          BY <4>2 DEF InFlight
        <5>2. e \in flying[w] /\ e # d
          BY <5>1, <1>3
        <5>3. e.slot = SlotOf(m)
          BY <5>1, <5>2, <3>1, FlightSpan, SlotPeriod
        <5> QED BY <5>2, <5>3, <1>2, FlightSlots
      <4> QED BY <4>1, <4>2
    <3>6. SlotOf(m) \in Slots
      BY <3>1, SlotsOf
    <3> QED BY <3>4, <3>5, <3>6, <1>5
  <2> QED BY <2>1, <2>2
<1>7. /\ Passed(w)' = Passed(w) /\ LastRead(w)' = LastRead(w)
      /\ MfmasDone(w)' = MfmasDone(w) /\ FirstRead(w)' = FirstRead(w)
  BY DEF Land, Passed, LastRead, MfmasDone, FirstRead
<1>8. WarpInv(w)'
  <2>1. ControlInv(w)' /\ CountInv(w)'
    BY <1>1, <1>7 DEF ControlInv, CountInv, Land
  <2>2. FlyingInv(w)'
    BY <1>1, <1>3 DEF FlyingInv, Land
  <2>3. PendingInv(w)' /\ RegInv(w)' /\ AccInv(w)'
    BY <1>1, <1>7 DEF PendingInv, RegInv, AccInv, ProductsOf, Land
  <2> QED BY <1>6, <2>1, <2>2, <2>3 DEF WarpInv
<1>9. TypeOK'
  <2>1. flying' \in [Warps -> SUBSET [id : 0 .. NumRegions - 1, slot : Slots, k : Steps]]
    <3>1. flying[w] \in SUBSET [id : 0 .. NumRegions - 1, slot : Slots, k : Steps]
      BY <1>1 DEF TypeOK
    <3>2. flying[w] \ {d} \in SUBSET [id : 0 .. NumRegions - 1, slot : Slots, k : Steps]
      BY <3>1
    <3> QED BY <1>1, <3>2 DEF TypeOK, Land
  <2>2. lds' \in [Slots -> [Warps -> Steps \cup {NoData}]]
    BY <1>1, <1>4 DEF TypeOK, Land
  <2> QED BY <1>1, <2>1, <2>2 DEF TypeOK, Land
<1>10. \A u \in Warps \ {w} : SameWarp(u)
  BY <1>1, <1>2, <1>4 DEF SameWarp, TypeOK, Land
<1>11. arrivals'[w] >= arrivals[w]
  BY Position DEF Land
<1> QED BY <1>7, <1>8, <1>9, <1>10, <1>11, OneWarpMoves

\* An undelivered LDS read still finds the whole tile it was issued for: every
\* warp's part of it has landed, and none has been refilled.
LEMMA PendingData ==
  ASSUME IInv, NEW w \in Warps, NEW m \in 0 .. NumRegions - 1,
         FirstRead(w) <= m, m <= LastRead(w)
  PROVE  {lds[SlotOf(m)][v] : v \in Warps} = {StepOf(m)}
<1>1. ASSUME NEW v \in Warps
      PROVE  lds[SlotOf(m)][v] = StepOf(m)
  <2>1. m \in Nat
    BY Counts
  <2>2. m < committed[v] /\ ~InFlight(v, m)
    BY <2>1, LandedBeforeRead
  <2>3. m + 8 >= committed[v]
    BY <2>1, NotRefilledBeforeDelivery, Position
  <2> QED BY <2>2, <2>3 DEF IInv, WarpInv, LdsInv
<1> QED BY <1>1

\* Deliver: the register then holds the tile of the read that was issued.
LEMMA DeliverInv ==
  ASSUME IInv, NEW w \in Warps, NEW s \in pending[w], Deliver(w, s)
  PROVE  IInv'
<1>1. /\ ControlInv(w) /\ CountInv(w) /\ FlyingInv(w) /\ PendingInv(w)
      /\ LdsInv(w) /\ RegInv(w) /\ AccInv(w) /\ TypeOK
  BY DEF IInv, WarpInv
<1>2. PICK m \in 0 .. NumRegions - 1 :
          FirstRead(w) <= m /\ m <= LastRead(w) /\ s = SlotOf(m)
  BY <1>1 DEF PendingInv
<1>3. pending'[w] = pending[w] \ {s}
  BY <1>1 DEF Deliver, TypeOK
<1>4. m \in Nat /\ s \in Slots /\ s[1] = CopyOrder(m) /\ s[1] \in Operands
  <2>1. m \in Nat
    BY Counts
  <2> QED BY <2>1, <1>2, SlotsOf DEF SlotOf, CopyOrder, Operands
<1>5. {lds[s][v] : v \in Warps} = {StepOf(m)}
  BY <1>2, PendingData
<1>6. /\ reg'[w][CopyOrder(m)] = {StepOf(m)}
      /\ \A o \in Operands \ {CopyOrder(m)} : reg'[w][o] = reg[w][o]
  <2>1. reg' = [reg EXCEPT ![w][CopyOrder(m)] = {StepOf(m)}]
    BY <1>4, <1>5 DEF Deliver
  <2>2. CopyOrder(m) \in Operands /\ reg[w] \in [Operands -> Tile] /\ DOMAIN reg = Warps
    BY <1>1, <1>4 DEF TypeOK
  <2> QED BY <2>1, <2>2
<1>7. /\ Passed(w)' = Passed(w) /\ LastRead(w)' = LastRead(w)
      /\ MfmasDone(w)' = MfmasDone(w) /\ FirstRead(w)' = FirstRead(w)
  BY DEF Deliver, Passed, LastRead, MfmasDone, FirstRead
<1>8. RegInv(w)'
  <2> SUFFICES ASSUME NEW n \in 0 .. NumRegions - 1, n <= LastRead(w),
                      LastRead(w) < n + 4, SlotOf(n) \notin pending'[w]
               PROVE  reg'[w][CopyOrder(n)] = {StepOf(n)}
    BY <1>7 DEF RegInv
  <2>1. n \in Nat
    BY Counts
  <2>2. CASE CopyOrder(n) = CopyOrder(m)
    <3>1. n < m + 4 /\ m < n + 4
      BY <2>1, <1>2, <1>4, Position
    <3>2. n = m
      BY <2>1, <2>2, <3>1, <1>4 DEF CopyOrder
    <3> QED BY <3>2, <1>6
  <2>3. CASE CopyOrder(n) # CopyOrder(m)
    <3>1. SlotOf(n) \notin pending[w]
      BY <2>3, <1>2, <1>3 DEF SlotOf
    <3>2. reg[w][CopyOrder(n)] = {StepOf(n)}
      BY <3>1, <1>1 DEF RegInv
    <3>3. CopyOrder(n) \in Operands
      BY DEF CopyOrder, Operands
    <3> QED BY <2>3, <3>2, <3>3, <1>6
  <2> QED BY <2>2, <2>3
<1>9. WarpInv(w)'
  <2>1. ControlInv(w)' /\ CountInv(w)' /\ FlyingInv(w)' /\ LdsInv(w)' /\ AccInv(w)'
    BY <1>1, <1>7 DEF ControlInv, CountInv, FlyingInv, LdsInv, InFlight, AccInv,
                      ProductsOf, Deliver
  <2>2. PendingInv(w)'
    BY <1>1, <1>3, <1>7 DEF PendingInv
  <2> QED BY <1>8, <2>1, <2>2 DEF WarpInv
<1>10. TypeOK'
  <2>1. {lds[s][v] : v \in Warps} \in Tile
    BY <1>1, <1>4 DEF TypeOK, Tile
  <2>2. reg' \in [Warps -> [Operands -> Tile]]
    BY <1>1, <1>4, <2>1 DEF TypeOK, Deliver
  <2>3. pending' \in [Warps -> SUBSET Slots]
    BY <1>1 DEF TypeOK, Deliver
  <2> QED BY <1>1, <2>2, <2>3 DEF TypeOK, Deliver
<1>11. \A u \in Warps \ {w} : SameWarp(u)
  BY <1>1 DEF SameWarp, TypeOK, Deliver
<1>12. arrivals'[w] >= arrivals[w]
  BY Position DEF Deliver
<1> QED BY <1>7, <1>9, <1>10, <1>11, <1>12, OneWarpMoves

-----------------------------------------------------------------------------

\* The invariant holds of the initial state.
LEMMA InitInv == Init => IInv
<1> SUFFICES ASSUME Init PROVE IInv
  OBVIOUS
<1> USE DEF Init
<1>1. TypeOK
  <2>1. /\ -1 \in -1 .. NumRegions /\ 0 \in 0 .. iterMax /\ 0 \in 0 .. NumRegions
        /\ 0 \in 0 .. NumRegions - 1
    BY Counts
  <2>2. <<>> \in Seq(Tile \X Tile) /\ {} \in Tile
    BY DEF Tile
  <2> QED BY <2>1, <2>2 DEF TypeOK
<1>2. BarrierInv
  BY DEF BarrierInv, Passed
<1>3. ASSUME NEW w \in Warps PROVE WarpInv(w)
  <2>1. /\ region[w] = -1 /\ step[w] = "copy" /\ committed[w] = 0 /\ base[w] = 0
        /\ arrivals[w] = 0 /\ flying[w] = {} /\ pending[w] = {}
    OBVIOUS
  <2>2. Passed(w) = 0 /\ LastRead(w) = -1 /\ MfmasDone(w) = 0
    BY <2>1 DEF Passed, LastRead, MfmasDone
  <2>3. ControlInv(w) /\ CountInv(w) /\ FlyingInv(w) /\ PendingInv(w)
    BY <2>1, <2>2 DEF ControlInv, CountInv, FlyingInv, PendingInv
  <2>4. LdsInv(w) /\ RegInv(w)
    BY <2>1, <2>2, Counts DEF LdsInv, RegInv
  <2>5. AccInv(w)
    <3> SUFFICES ASSUME NEW q \in Quads
                 PROVE  acc[<<w, q>>] = [i \in 1 .. ProductsOf(w, q) |-> G!Product(i - 1)]
      BY DEF AccInv
    <3>1. ProductsOf(w, q) = 0
      BY <2>2 DEF ProductsOf, QuadIndex, Quads
    <3>2. acc[<<w, q>>] = <<>>
      OBVIOUS
    <3> QED BY <3>1, <3>2
  <2> QED BY <2>3, <2>4, <2>5 DEF WarpInv
<1> QED BY <1>1, <1>2, <1>3 DEF IInv

\* It is preserved when nothing changes.
LEMMA StutterInv == IInv /\ UNCHANGED vars => IInv'
<1> SUFFICES ASSUME IInv, UNCHANGED vars PROVE IInv'
  OBVIOUS
<1> USE DEF vars
<1>1. \A u \in Warps : SameWarp(u)
  BY DEF SameWarp
<1>2. \A u \in Warps : WarpInv(u)' /\ Passed(u)' = Passed(u)
  BY <1>1, Frame DEF IInv
<1>3. BarrierInv'
  BY <1>2 DEF IInv, BarrierInv
<1>4. TypeOK'
  BY DEF IInv, TypeOK
<1> QED BY <1>2, <1>3, <1>4 DEF IInv

\* It is preserved by every step.
LEMMA NextInv == IInv /\ [Next]_vars => IInv'
<1> SUFFICES ASSUME IInv, [Next]_vars PROVE IInv'
  OBVIOUS
<1>1. ASSUME NEW w \in Warps, WarpStep(w) PROVE IInv'
  BY <1>1, PrologueCopyInv, PrologueReadInv, MfmaInv, WaitGroupInv, PassBarrierInv,
     LocalReadInv, RefillCopyInv, StoreCInv DEF WarpStep
<1>2. ASSUME NEW w \in Warps, MemoryStep(w) PROVE IInv'
  BY <1>2, LandInv, DeliverInv DEF MemoryStep
<1>3. CASE Terminated
  BY <1>3, StutterInv DEF Terminated
<1>4. CASE UNCHANGED vars
  BY <1>4, StutterInv
<1> QED BY <1>1, <1>2, <1>3, <1>4 DEF Next

\* The pipeline never leaves its inductive invariant, for any number of warps,
\* any K and any order in which copies and reads complete.
THEOREM Invariance == Spec => []IInv
  BY InitInv, NextInv, PTL DEF Spec

\* No variable leaves its range: in particular no copy of the loop or of the
\* prologue fetches a K-step at or past the end of A or B.
THEOREM TypeCorrect == Spec => []TypeOK
<1>1. IInv => TypeOK
  BY DEF IInv
<1> QED BY <1>1, Invariance, PTL

\* wait_group(6), wait_group(5), 5 - e in the epilogue and one barrier per
\* region are enough: no LDS read is ever outstanding on a slot some warp's
\* copy is on its way to.
THEOREM RaceFree == Spec => []NoDataRace
<1>1. IInv => NoDataRace
  <2> SUFFICES ASSUME IInv, NEW w \in Warps, NEW v \in Warps, NEW d \in flying[v],
                      d.slot \in pending[w]
               PROVE  FALSE
    BY DEF NoDataRace
  <2>1. PICK m \in 0 .. NumRegions - 1 :
            FirstRead(w) <= m /\ m <= LastRead(w) /\ d.slot = SlotOf(m)
    BY DEF IInv, WarpInv, PendingInv
  <2>2. m \in Nat
    BY Counts
  <2>3. m < committed[v] /\ d.id # m /\ committed[v] <= m + 8
    BY <2>1, <2>2, LandedBeforeRead, NotRefilledBeforeDelivery DEF InFlight
  <2>4. /\ d.id \in Nat /\ d.id < committed[v] /\ committed[v] <= d.id + 8
        /\ d.slot = SlotOf(d.id)
    BY FlightSpan
  <2>5. d.id < m + 8 /\ m < d.id + 8
    BY <2>2, <2>3, <2>4, Position
  <2> QED BY <2>1, <2>2, <2>3, <2>4, <2>5, SlotDistance
<1> QED BY <1>1, Invariance, PTL

\* The eight buffers are never refilled twice before a copy has landed, so the
\* order in which copies of a warp land does not matter.
THEOREM CopiesApart == Spec => []NoOverlappingCopies
<1>1. IInv => NoOverlappingCopies
  BY FlightSlots DEF NoOverlappingCopies
<1> QED BY <1>1, Invariance, PTL

\* The state that v8's comment promises after the loop: of the copies only the
\* six youngest groups may be in flight, and a_bot and b_right are still those
\* of K-step iterMax-3, whose last mfmas are done.
THEOREM LoopHandsOver == Spec => []AfterLoop
<1>1. ASSUME IInv, NEW w \in Warps, region[w] = LoopRegions, step[w] = "mfma"
      PROVE  /\ \A d \in flying[w] : d.id >= 4 * (iterMax - 2) + 2
             /\ reg[w]["a_bot"] = {iterMax - 3} /\ reg[w]["b_right"] = {iterMax - 3}
  <2> DEFINE n == 4 * iterMax - 10
  <2>1. n \in Nat /\ n + 1 \in 0 .. NumRegions - 1 /\ n \in 0 .. NumRegions - 1
    BY Counts
  <2>2. /\ Passed(w) = n + 3 /\ LastRead(w) = n + 3 /\ MfmasDone(w) = n + 2
    BY <1>1, Counts DEF Passed, LastRead, MfmasDone, AtMost
  <2>3. FirstRead(w) = n + 2
    BY <2>2, Counts DEF FirstRead, NeededBelow
  <2>4. ASSUME NEW d \in flying[w] PROVE d.id >= 4 * (iterMax - 2) + 2
    <3>1. FlyingInv(w) /\ CountInv(w) /\ arrivals[w] = n + 3
      BY <1>1, <2>2 DEF IInv, WarpInv, CountInv
    <3>2. d.id \in Nat
      BY <1>1, FlightSpan
    <3>3. d.id > arrivals[w]
      BY <2>1, <3>1 DEF FlyingInv
    <3> QED BY <3>1, <3>2, <3>3, Counts
  <2>5. ASSUME NEW m \in n .. n + 1 PROVE SlotOf(m) \notin pending[w]
    <3> SUFFICES ASSUME SlotOf(m) \in pending[w] PROVE FALSE
      OBVIOUS
    <3>1. PICK k \in 0 .. NumRegions - 1 :
              FirstRead(w) <= k /\ k <= LastRead(w) /\ SlotOf(m) = SlotOf(k)
      BY <1>1 DEF IInv, WarpInv, PendingInv
    <3>2. m \in Nat /\ k \in Nat /\ m < k /\ k < m + 8
      BY <2>1, <2>2, <2>3, <3>1, Counts
    <3> QED BY <3>1, <3>2, SlotDistance
  <2>6. ASSUME NEW m \in n .. n + 1 PROVE reg[w][CopyOrder(m)] = {StepOf(m)}
    BY <1>1, <2>1, <2>2, <2>5, Counts DEF IInv, WarpInv, RegInv
  <2>7. /\ CopyOrder(n) = "a_bot" /\ StepOf(n) = iterMax - 3
        /\ CopyOrder(n + 1) = "b_right" /\ StepOf(n + 1) = iterMax - 3
    BY Counts DEF CopyOrder, StepOf
  <2>8. n \in n .. n + 1 /\ n + 1 \in n .. n + 1
    BY <2>1
  <2> HIDE DEF n
  <2> QED BY <2>4, <2>6, <2>7, <2>8
<1>2. IInv => AfterLoop
  BY <1>1 DEF AfterLoop
<1> QED BY <1>2, Invariance, PTL

-----------------------------------------------------------------------------

\* A store happens when the last mfma of its quadrant is done.
LEMMA StoreCFinished ==
  ASSUME IInv, NEW w \in Warps, StoreC(w)
  PROVE  \A t \in {w} \X StoredAfter(region[w]) : acc[t] = G!FullSum
<1> DEFINE r == region[w]
<1>1. ControlInv(w) /\ AccInv(w) /\ step[w] = "store"
  BY DEF StoreC, IInv, WarpInv
<1>2. r \in NumRegions - 3 .. NumRegions - 1
  BY <1>1, Counts DEF ControlInv
<1>3. MfmasDone(w) = r + 1
  BY <1>1, <1>2, Counts DEF MfmasDone
<1>4. ASSUME NEW q \in StoredAfter(r)
      PROVE  acc[<<w, q>>] = G!FullSum
  <2>1. q \in Quads /\ ProductsOf(w, q) = iterMax
    <3>1. CASE r = NumRegions - 3
      BY <3>1, <1>2, <1>3, <1>4, Counts DEF StoredAfter, Quads, ProductsOf, QuadIndex
    <3>2. CASE r = NumRegions - 2
      BY <3>2, <1>2, <1>3, <1>4, Counts DEF StoredAfter, Quads, ProductsOf, QuadIndex
    <3>3. CASE r = NumRegions - 1
      BY <3>3, <1>2, <1>3, <1>4, Counts DEF StoredAfter, Quads, ProductsOf, QuadIndex
    <3> QED BY <1>2, <3>1, <3>2, <3>3, Counts
  <2> QED BY <2>1, <1>1 DEF AccInv, G!FullSum
<1> QED BY <1>4

\* Every step of the pipeline is a step of the abstract GEMM or changes
\* neither accumulators nor C.
LEMMA StepRefines == IInv /\ [Next]_vars => [G!Next]_(G!vars)
<1> SUFFICES ASSUME IInv, [Next]_vars PROVE [G!Next]_(G!vars)
  OBVIOUS
<1>0. DOMAIN acc = Warps \X Quads /\ DOMAIN out = Warps \X Quads
  BY DEF IInv, TypeOK
<1>1. ASSUME NEW w \in Warps, Mfma(w) PROVE G!Next
  <2> DEFINE t == <<w, QuadOf(region[w])>>
             n == region[w] \div 4
  <2>1. /\ t \in Warps \X Quads /\ n \in Nat
        /\ acc[t] = [i \in 1 .. n |-> G!Product(i - 1)]
        /\ acc' = [acc EXCEPT ![t] = Append(@, G!Product(n))]
    BY <1>1, MfmaAccumulates
  <2>2. n < iterMax
    BY <1>1, MfmaOperands, Counts
  <2>3. Len(acc[t]) = n
    BY <2>1
  <2>4. G!Accumulate(t)
    BY <2>1, <2>2, <2>3, <1>1 DEF G!Accumulate, Mfma
  <2> QED BY <1>0, <2>1, <2>4 DEF G!Next
<1>2. ASSUME NEW w \in Warps, StoreC(w) PROVE G!Next
  <2> DEFINE T == {w} \X StoredAfter(region[w])
  <2>1. StoredAfter(region[w]) \subseteq Quads
    BY DEF StoredAfter, Quads
  <2>2. T \in SUBSET (Warps \X Quads)
    BY <2>1
  <2>3. \A t \in Warps \X Quads :
            t \in T <=> t[1] = w /\ t[2] \in StoredAfter(region[w])
    OBVIOUS
  <2>4. out' = [t \in Warps \X Quads |-> IF t \in T THEN acc[t] ELSE out[t]]
    BY <1>2, <2>3 DEF StoreC
  <2>5. G!Store(T)
    BY <1>0, <1>2, <2>4, StoreCFinished DEF G!Store, StoreC
  <2> QED BY <1>0, <2>2, <2>5 DEF G!Next
<1>3. ASSUME NEW w \in Warps, MemoryStep(w) PROVE UNCHANGED G!vars
  BY <1>3 DEF MemoryStep, Land, Deliver, G!vars
<1>4. ASSUME NEW w \in Warps, WarpStep(w), ~Mfma(w), ~StoreC(w)
      PROVE  UNCHANGED G!vars
  BY <1>4 DEF WarpStep, PrologueCopy, PrologueRead, WaitGroup, PassBarrier,
              LocalRead, RefillCopy, G!vars
<1>5. CASE UNCHANGED vars
  BY <1>5 DEF vars, G!vars
<1> QED BY <1>1, <1>2, <1>3, <1>4, <1>5 DEF Next, Terminated

\* The pipeline implements the GEMM: whatever the interleaving of warps,
\* copies and reads, every quadrant accumulates every K-step once, in order,
\* from whole tiles, and is stored when it is complete.
THEOREM Implements == Spec => ComputesGemm
<1>1. Init => G!Init
  BY DEF Init, G!Init
<1> QED BY <1>1, StepRefines, Invariance, PTL DEF Spec, ComputesGemm, G!Spec
=============================================================================
