------------------------------- MODULE Layouts -------------------------------
(***************************************************************************)
(* Data layouts: which register of which lane of which warp holds an       *)
(* element of a tile, and at which offset of LDS an element lies.          *)
(*                                                                         *)
(* A layout of registers is given by bases, as in                          *)
(* gl.DistributedLinearLayout: bit i of an index contributes bases[i + 1]. *)
(* No two bases of a layout share a bit, so that their sum is the XOR that *)
(* LinearLayout.apply takes.                                               *)
(***************************************************************************)
EXTENDS Naturals, Sequences, FiniteSetsExt, Bitwise

WaveSize == 64

Bit(n, i) == (n \div 2 ^ (i - 1)) % 2

Lg(n) == CHOOSE i \in 0..16 : 2 ^ i = n

Plus(x, y) == <<x[1] + y[1], x[2] + y[2]>>

\* Bases along one dimension.
Along(d, strides) == [i \in DOMAIN strides |-> IF d = 1 THEN <<strides[i], 0>> ELSE <<0, strides[i]>>]
Rows(strides) == Along(1, strides)
Cols(strides) == Along(2, strides)

-----------------------------------------------------------------------------
(* Distributed layouts.                                                    *)

Linear(reg, lane, warp) == [reg |-> reg, lane |-> lane, warp |-> warp]

\* LinearLayout.apply for one of the three indices.
Apply(bases, index) ==
    LET upTo[i \in 0..Len(bases)] == IF i = 0 THEN <<0, 0>>
                                     ELSE IF Bit(index, i) = 1 THEN Plus(upTo[i - 1], bases[i]) ELSE upTo[i - 1]
    IN upTo[Len(bases)]

Place(layout, reg, lane, warp) ==
    Plus(Apply(layout.reg, reg), Plus(Apply(layout.lane, lane), Apply(layout.warp, warp)))

\* n places of a dimension of the given size, `from` apart; the places past the
\* end of the tile repeat its start.
Doubling(d, from, n, size) ==
    Along(d, [i \in 1..Lg(n) |-> IF from * 2 ^ (i - 1) < size THEN from * 2 ^ (i - 1) ELSE 0])

\* gl.BlockedLayout on a tile: registers, lanes and warps one after the other
\* along each dimension, the fastest dimension first; what remains of the tile
\* is covered by more registers.
Blocked(sizePerThread, threadsPerWarp, warpsPerCTA, order, shape) ==
    LET fast == order[1] + 1
        slow == order[2] + 1
        warpSpan == [d \in 1..2 |-> sizePerThread[d] * threadsPerWarp[d]]
        span == [d \in 1..2 |-> warpSpan[d] * warpsPerCTA[d]]
        regs(d) == Doubling(d, 1, sizePerThread[d], shape[d])
        repeats(d) == IF span[d] < shape[d] THEN Doubling(d, span[d], shape[d] \div span[d], shape[d]) ELSE <<>>
        lanes(d) == Doubling(d, sizePerThread[d], threadsPerWarp[d], shape[d])
        warps(d) == Doubling(d, warpSpan[d], warpsPerCTA[d], shape[d])
    IN Linear(regs(fast) \o regs(slow) \o repeats(fast) \o repeats(slow),
              lanes(fast) \o lanes(slow), warps(fast) \o warps(slow))

-----------------------------------------------------------------------------
(* Shared layouts.                                                         *)

\* gl.PaddedSharedLayout: after every pads[i][1] elements, pads[i][2] are left
\* free; bit i of the offset before padding stands for bases[i + 1].
Padded(pads, bases) ==
    [bases |-> bases, pads |-> pads, fast |-> 2, vec |-> 1, perPhase |-> 1, maxPhase |-> 1]

\* gl.SwizzledSharedLayout.
Swizzled(vec, perPhase, maxPhase, order, shape) ==
    LET fast == order[1] + 1
        slow == order[2] + 1
    IN [bases |-> Doubling(fast, 1, shape[fast], shape[fast]) \o Doubling(slow, 1, shape[slow], shape[slow]),
        pads |-> <<>>, fast |-> fast, vec |-> vec, perPhase |-> perPhase, maxPhase |-> maxPhase]

Offset(shared, x) ==
    LET Has(basis) == \E d \in 1..2 : basis[d] > 0 /\ (x[d] \div basis[d]) % 2 = 1
        from[i \in 1..Len(shared.bases) + 1] ==
            IF i > Len(shared.bases) THEN 0 ELSE 2 * from[i + 1] + (IF Has(shared.bases[i]) THEN 1 ELSE 0)
    IN from[1]

Pad(shared, off) ==
    off + MapThenSumSet(LAMBDA i : (off \div shared.pads[i][1]) * shared.pads[i][2], DOMAIN shared.pads)

\* Chunks of vec elements of a row change places, by a phase that depends on
\* the row: the element that lies where x would without swizzling.
Swizzle(shared, x) ==
    LET phase == (x[3 - shared.fast] \div shared.perPhase) % shared.maxPhase
        f == x[shared.fast]
    IN IF shared.maxPhase = 1 THEN x
       ELSE [x EXCEPT ![shared.fast] = ((f \div shared.vec) ^^ phase) * shared.vec + (f % shared.vec)]

\* Where an element lies.
Home(shared, x) == Pad(shared, Offset(shared, Swizzle(shared, x)))

\* Elements of LDS that a tile takes, padding included.
Footprint(shared) == Pad(shared, 2 ^ Len(shared.bases) - 1) + 1

\* How many elements a lane moves at once: its first registers are neighbours
\* in LDS, in the same order, and make at most 16 bytes.
VectorLength(layout, shared, bytes) ==
    LET Neighbours(n) == \A i \in 1..n : layout.reg[i] = shared.bases[i]
    IN 2 ^ Max({n \in 0..Lg(16 \div bytes) : n <= Len(layout.reg) /\ Neighbours(n)})

-----------------------------------------------------------------------------
(* The matrix unit: AMDMFMALayout and DotOperandLayout.                    *)

\* instr_shape = [nonK, nonK, _], warps_per_cta = warps.
Mfma(nonK, warps) == [nonK |-> nonK, warps |-> warps]

LaneGroups(mfma) == WaveSize \div mfma.nonK

\* The row of A (operand 1) or column of B (operand 2) that a lane of warp w
\* holds for its rep-th instruction: warps lie side by side along N first.
NonKIndex(mfma, operand, w, lane, rep) ==
    LET place == IF operand = 1 THEN w \div mfma.warps[2] ELSE w % mfma.warps[2]
    IN (lane % mfma.nonK) + mfma.nonK * (place + mfma.warps[operand] * rep)

\* The k at which the s-th vector of v elements of a lane begins: a lane holds
\* runs of kWidth elements, the lane groups one run after the other.
KIndex(mfma, kWidth, v, lane, s) ==
    LET run == (s * v) \div kWidth
    IN (run * LaneGroups(mfma) + (lane \div mfma.nonK)) * kWidth + ((s * v) % kWidth)

\* The layout of the result of a transposed mfma on a tile of C.
MfmaResult(mfma, shape) ==
    LET n == mfma.nonK
        past(d) == n * mfma.warps[d]
    IN Linear(Cols(<<1, 2>>) \o Cols(IF n = 32 THEN <<8, 16>> ELSE <<>>)
                 \o Doubling(2, past(2), shape[2] \div past(2), shape[2])
                 \o Doubling(1, past(1), shape[1] \div past(1), shape[1]),
              Doubling(1, 1, n, n) \o Cols(IF n = 32 THEN <<4>> ELSE <<4, 8>>),
              Doubling(2, n, mfma.warps[2], shape[2]) \o Doubling(1, n, mfma.warps[1], shape[1]))
=============================================================================
