--------------------------- MODULE SliceMNKernels ---------------------------
(***************************************************************************)
(* The GEMM kernels that cut both A and B in halves and C in quadrants, as *)
(* programs of the LDS machine: a8w8 and a4w4 of kernels/gemm/intra_wave,  *)
(* and a16w16, a8w8 and the three a4w4 kernels of kernels/gemm/inter_wave. *)
(* All of them have the prologue and the waits of v8_sliceMN.  They differ *)
(* in the scales of the operands ("none", "each" half has its own, or the  *)
(* two halves of B "combined") and in the loop: the intra-wave kernels are *)
(* one instruction stream; the inter-wave ones are warp-pipelined, two     *)
(* groups of warps one stage apart.                                        *)
(***************************************************************************)
EXTENDS Instructions

\* The half tiles in the order in which they are copied; the quadrants of C in
\* the order in which they are computed, each with its half of A and of B.
CopyOrder == <<"b_left", "a_top", "a_bot", "b_right">>
Quads     == <<"tl", "bl", "tr", "br">>
HalfOfA   == [tl |-> "a_top", bl |-> "a_bot", tr |-> "a_top", br |-> "a_bot"]
HalfOfB   == [tl |-> "b_left", bl |-> "b_left", tr |-> "b_right", br |-> "b_right"]

\* The operand read behind the mfma of each quadrant: the one that the next
\* quadrant, or the first quadrant of the next K-step, still lacks.
ReadBehind == <<"a_bot", "b_right", "b_left", "a_top">>

\* An operand and its scale; each is a register, and an allocation of LDS.
Half(o) == <<o, "tile">>
Scale(sc, o) == IF sc = "combined" /\ o \in {"b_left", "b_right"}
                THEN <<"b", "scale">> ELSE <<o, "scale">>

\* The slots filled in the commit group of half tile o.  The combined scale of
\* B rides in the group of b_left.
Group(sc, o, buf) ==
    {<<Half(o), buf>>} \cup (IF sc = "none" \/ (sc = "combined" /\ o = "b_right")
                       THEN {} ELSE {<<Scale(sc, o), buf>>})

LoadScaleOf(sc, o, buf) == LR(Scale(sc, o), <<Scale(sc, o), buf>>)

\* Mutant: the combined scale is read with b_left, as the separate one is.
LoadScale_WithLeft(sc, o, buf) ==
    IF sc = "each" \/ (sc = "combined" /\ o # "b_right") THEN LoadScaleOf(sc, o, buf)
                                                         ELSE <<>>
\* The scales that are read along with half tile o; the combined one, for both
\* halves of B, along with a_top.
LoadScale(sc, o, buf) ==
    IF sc = "each" \/ (sc = "combined" /\ o \in {"a_top", "a_bot"})
    THEN LoadScaleOf(sc, o, buf)
         \o (IF sc = "combined" /\ o = "a_top" THEN LoadScaleOf(sc, "b_left", buf) ELSE <<>>)
    ELSE <<>>

LoadHalf(sc, o, buf) == LR(Half(o), <<Half(o), buf>>) \o LoadScale(sc, o, buf)
Fill(sc, o, buf, ahead) == AC(Group(sc, o, buf), ahead)
Operand(sc, o) == IF sc = "none" THEN {Half(o)} ELSE {Half(o), Scale(sc, o)}
Quad(sc, q) == Mfma(q, Operand(sc, HalfOfA[q]), Operand(sc, HalfOfB[q]))

Concat(n, Part(_)) == FlattenSeq([i \in 1 .. n |-> Part(i)])

-----------------------------------------------------------------------------
Prologue(sc) ==
    LET FillBuffer(buf) == LET Part(i) == Fill(sc, CopyOrder[i], buf, buf)
                           IN  Concat(4, Part)
    IN  FillBuffer(0) \o FillBuffer(1) \o Advance(2)
        \o Wait(6) \o LoadHalf(sc, "b_left", 0) \o LoadHalf(sc, "a_top", 0)

\* Region i of the K-step in buffer buf: its mem part reads the next operand,
\* of this K-step or the next one, and refills what this K-step is done with.
NextBuffer(i, buf) == IF i <= 2 THEN buf ELSE 1 - buf
ReadNext(sc, i, buf) == LoadHalf(sc, ReadBehind[i], NextBuffer(i, buf))
MemPart(sc, i, buf)  == ReadNext(sc, i, buf) \o Fill(sc, CopyOrder[i], buf, buf)

Loop(sc, iM, Region(_, _, _)) ==
    LET SubIteration(buf) == LET Part(i) == Region(sc, i, buf) IN Concat(4, Part)
        Body(k) == SubIteration(0) \o SubIteration(1) \o Advance(2)
    IN  For(iM - 2, 2, Body)

\* The last two K-steps; the one read from last has no next one.
Drain(sc, iM) ==
    LET l_idx == (iM - 2) % 2
        Part(i) == Quad(sc, Quads[i]) \o Wait(6 - i) \o ReadNext(sc, i, l_idx)
    IN  Concat(4, Part)

LastReads(sc, iM) ==
    LET g_idx == 1 - ((iM - 2) % 2)
    IN  Quad(sc, "tl") \o Wait(1) \o ReadNext(sc, 1, g_idx)
        \o Quad(sc, "bl") \o Wait(0) \o ReadNext(sc, 2, g_idx)

-----------------------------------------------------------------------------
(* Intra-wave: the wait stands between the mfma and the reads.             *)

IntraRegion(sc, i, buf) == Quad(sc, Quads[i]) \o Wait(5) \o MemPart(sc, i, buf)

IntraProgram(sc, iM) ==
    Prologue(sc) \o Loop(sc, iM, IntraRegion) \o Drain(sc, iM) \o LastReads(sc, iM)
    \o StoreC({"tl"}) \o Quad(sc, "tr") \o StoreC({"bl"})
    \o Quad(sc, "br") \o StoreC({"tr"}) \o StoreC({"br"})

intra_a8w8(iM)            == IntraProgram("none", iM)
intra_a4w4_v1_sliceMN(iM) == IntraProgram("each", iM)

-----------------------------------------------------------------------------
(* Inter-wave: the wait stands before the mfma stage, and what the stages  *)
(* become is up to the warp-pipeline lowering (docs/warp_pipelining.md):   *)
(* a local barrier closes each mem stage, a plain one each mfma stage.     *)

\* Mutant: the wait is left just before the reads, as in the intra-wave kernels.
InterRegion_WaitInMem(sc, i, buf) ==
    Local \o Quad(sc, Quads[i]) \o Plain \o WaitOnly(5) \o MemPart(sc, i, buf)
InterRegion(sc, i, buf) ==
    WaitOnly(5) \o Local \o Quad(sc, Quads[i]) \o Plain \o MemPart(sc, i, buf)

\* cond_barrier: the group that runs behind takes a barrier more before a
\* pipelined loop, the group ahead takes it after the loop.
PhaseShift(group) == Local \o (IF group = "behind" THEN Plain ELSE <<>>)
\* Mutant: the group ahead does not wait for the other one after the loop.
Reconverge_None(group) == <<>>
Reconverge(group) == IF group = "ahead" THEN Plain ELSE <<>>

InterProgram(sc, iM, group) ==
    Prologue(sc)
    \o PhaseShift(group) \o Loop(sc, iM, InterRegion) \o Reconverge(group)
    \o Drain(sc, iM) \o LastReads(sc, iM) \o Quad(sc, "tr") \o Quad(sc, "br")
    \o StoreC({"tl"}) \o StoreC({"bl"}) \o StoreC({"tr"}) \o StoreC({"br"})

\* The 8-bit kernel differs from the 16-bit one in the mfma only, and v2 of the
\* 4-bit one from v1 in the shape of the mfma.
inter_a16w16(iM, group) == InterProgram("none", iM, group)
inter_a8w8(iM, group)   == InterProgram("none", iM, group)
inter_a4w4_v0_sliceMN(iM, group)      == InterProgram("each", iM, group)
inter_a4w4_v1_combineBsc(iM, group)   == InterProgram("combined", iM, group)
inter_a4w4_v2_mfma32x32x64(iM, group) == InterProgram("combined", iM, group)
=============================================================================
