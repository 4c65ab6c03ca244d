------------------------------ MODULE Attention ------------------------------
(***************************************************************************)
(* The forward attention kernels in kernels/attention: fmha_v3 and fmha_v4 *)
(* stage K and V in LDS the same way and differ in where the accumulators  *)
(* are rescaled.  The softmax of a tile runs one tile ahead of its output, *)
(* V is fetched two tiles ahead and K three.  A K-step of the LDS machine  *)
(* is here a block of keys; n is n_blocks.                                 *)
(***************************************************************************)
EXTENDS Instructions

K(s) == <<"kt_smem", s>>
V(s) == <<"v_smem", s>>
AllKV == {K(0), K(1), V(0), V(1)}

ACK(s, tile) == AC({K(s)}, tile)
ACV(s, tile) == AC({V(s)}, tile)
LRK(s) == LRRelaxed("kt_dot", K(s))
LRV(s) == LRRelaxed("v_dot", V(s))

-----------------------------------------------------------------------------
(* The online softmax.  VEC1 computes the row maximum, the numerators and  *)
(* the correction alpha of a tile from its scores; acc and l_i stand       *)
(* corrected to the maximum of the last tile that was applied to them, so  *)
(* a sum counts only when its operands and its accumulator have the same.  *)

dot_qk(kt) == Compute({"qk"}, {"q_dot", kt})
VEC1       == Compute({"m_run", "p_c", "alpha"}, {"qk"})
rescale    == Compute({"acc_frame", "l_frame"}, {"alpha"})
row_sum    == Mfma("l_i", {"p_c", "l_frame"}, {"p_c"})
to_p_dot   == Compute({"p_dot"}, {"p_c"})
dot_pv     == Mfma("acc", {"p_dot", "acc_frame"}, {"v_dot"})

\* fmha_v3 corrects the accumulators in VEC2, fmha_v4 after the VEC1 before;
\* the numerators that VEC2 of fmha_v4 completes need that maximum as well.
VEC2(kernel) ==
    IF kernel = "v3" THEN rescale \o row_sum \o to_p_dot
    ELSE Compute({"p_c"}, {"p_c", "m_run"}) \o row_sum \o to_p_dot
rescale_lazy(kernel) == IF kernel = "v3" THEN <<>> ELSE rescale

-----------------------------------------------------------------------------
(* Q goes through registers to an LDS buffer that the compiler overlays    *)
(* with those of K and V, or (FA_Q_DIRECT_LDS) is copied to one of its own.*)

LoadQ(dma)    == IF dma THEN AC({<<"q_smem", 0>>}, NoStep)
                 ELSE GR("q", NoStep) \o LW(AllKV, "q") \o LRAll("q_dot", AllKV)
WaitQ(dma)    == IF dma THEN <<>> ELSE Wait(0)
ReadQ(dma)    == IF dma THEN LR("q_dot", <<"q_smem", 0>>) ELSE <<>>

Prologue(kernel, dma) ==
    LoadQ(dma) \o WaitQ(dma)
    \o ACK(0, 0) \o ACV(0, 0) \o ACK(1, 1)
    \o Wait(2) \o ReadQ(dma) \o LRRelaxed("kt0", K(0)) \o dot_qk("kt0") \o VEC1
    \o Local
    \o ACK(0, 2) \o Wait(1) \o LRK(1) \o ACV(1, 1)
    \o rescale_lazy(kernel)

\* The four stages of a tile whose LDS slot is cur.  Sync(n, b) is wait_group(n)
\* with what follows it: the barrier b that closes the stage before it, in the
\* loop, or the one that the compiler puts after the wait.
Stages(kernel, tile, cur, Sync(_, _), close) ==
       dot_qk("kt_dot") \o VEC2(kernel)     \o Sync(1, Plain)
    \o LRV(cur) \o ACK(1 - cur, tile + 3)   \o close
    \o dot_pv \o VEC1                       \o Sync(1, Plain)
    \o LRK(cur) \o ACV(cur, tile + 2) \o rescale_lazy(kernel) \o close

\* Mutant: wait_group(WAIT_LOOP), the depth that the pipeline is meant to have.
InLoop_WaitLoop(n, b) == WaitOnly(n + 1) \o b
InLoop(n, b)   == WaitOnly(n) \o b
Straight(n, b) == Wait(n)

\* Mutant: the drain does the last two tiles.
main_loop_pairs_TwoLeft(n) == (n - 2) \div 2
main_loop_pairs(n) == (n - 3) \div 2

Loop(kernel, n) ==
    LET Pair(t) == Stages(kernel, t, 0, InLoop, Local)
                   \o Stages(kernel, t + 1, 1, InLoop, Local)
    IN  For(2 * main_loop_pairs(n), 2, Pair)

\* Mutant: n_blocks is taken to be odd.
OddTail_Never(kernel, n) == <<>>
OddTail(kernel, n) ==
    IF (n - 3) % 2 = 1 THEN Stages(kernel, 2 * main_loop_pairs(n), 0, Straight, <<>>)
                       ELSE <<>>

Drain(kernel, n) ==
    LET s(t) == t % 2
    IN  dot_qk("kt_dot") \o Wait(2) \o LRV(s(n - 3)) \o VEC2(kernel) \o dot_pv
        \o VEC1 \o rescale_lazy(kernel) \o Local
        \o ACV(s(n - 1), n - 1) \o Wait(2) \o LRK(s(n - 1))
        \o dot_qk("kt_dot") \o Wait(1) \o LRV(s(n - 2)) \o VEC2(kernel) \o dot_pv
        \o VEC1 \o rescale_lazy(kernel)
        \o Wait(0) \o LRV(s(n - 1)) \o VEC2(kernel) \o dot_pv

\* The second half of the warps enters the loop one stage behind the first.
PhaseShift(group) == Local \o (IF group = "behind" THEN Plain ELSE <<>>)
Reconverge(group) == IF group = "ahead" THEN Plain ELSE <<>>

gluon_attn_fwd(kernel, n, group, dma) ==
    Prologue(kernel, dma) \o PhaseShift(group) \o Loop(kernel, n) \o Reconverge(group)
    \o OddTail(kernel, n) \o Drain(kernel, n) \o StoreC({"acc", "l_i"})
=============================================================================
