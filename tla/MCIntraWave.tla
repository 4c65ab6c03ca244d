---------------------------- MODULE MCIntraWave -----------------------------
(* The kernels that are one instruction stream for all warps, on the LDS   *)
(* machine: every kernel of kernels/gemm/intra_wave but v8 and v9 of       *)
(* a16w16, and the intra-wave gfx942 port.  Each runs with the smallest    *)
(* numbers of K-steps that it admits, so that its loop runs zero, one and  *)
(* two times where it can.                                                 *)
EXTENDS Discipline, Membar, TLC

I == INSTANCE IntraWave
S == INSTANCE SliceMNKernels
X == INSTANCE Gfx942

WarpSymmetry == Permutations(Warps)

Program(c) ==
    CASE c[1] = "v0_naive"              -> I!v0_naive(c[2])
      [] c[1] = "v1_buffer_load"        -> I!v1_buffer_load(c[2])
      [] c[1] = "v2_async_copy"         -> I!v2_async_copy(c[2])
      [] c[1] = "v3_lds"                -> I!v3_lds(c[2])
      [] c[1] = "v4_global_prefetch"    -> I!v4_global_prefetch(c[2])
      [] c[1] = "v5_local_prefetch"     -> I!v5_local_prefetch(c[2])
      [] c[1] = "v6_loop_unroll"        -> I!v6_loop_unroll(c[2])
      [] c[1] = "v7_sliceN"             -> I!v7_sliceN(c[2])
      [] c[1] = "a4w4_v0_sliceN"        -> I!a4w4_v0_sliceN(c[2])
      [] c[1] = "intra_a8w8"            -> S!intra_a8w8(c[2])
      [] c[1] = "intra_a4w4_v1_sliceMN" -> S!intra_a4w4_v1_sliceMN(c[2])
      [] c[1] = "gfx942_intra_wave"     -> X!intra_wave(c[2])

EvenNumberOfSteps == {"v6_loop_unroll", "v7_sliceN", "a4w4_v0_sliceN", "intra_a8w8"}
IntraConfigs == {"v0_naive", "v2_async_copy", "v4_global_prefetch"} \X {1}
                \cup {"v1_buffer_load", "v3_lds", "v4_global_prefetch"} \X {3}
                \cup {"v5_local_prefetch"} \X {2, 3, 4}
                \cup EvenNumberOfSteps \X {4, 6}
                \cup {"intra_a4w4_v1_sliceMN"} \X {4}
                \cup {"gfx942_intra_wave"} \X {3, 4, 5}
IntraCode == [c \in IntraConfigs |-> [w \in Warps |-> Lowered(Program(c))]]

\* The compiler orders the LDS reads and writes of gfx942/intra_wave with two
\* barriers per K-step (gfx942/intra_wave/README.md:42): in front of the n-th
\* K-step, that is at its first mfma, a warp has passed 2 * n barriers since the
\* prologue.  A third one per turn of the loop, which the source describes
\* (matmul_kernel.py:276-288), would come from a conflict on any path into it.
InPrologue(w) == BarriersBefore(code, w, Min({k \in Positions(code, w) : code[w][k].op = "mfma"}))

TwoBarriersPerKStep ==
    config[1] = "gfx942_intra_wave" =>
        \A w \in Warps : (~Done(w) /\ Instr(w).op = "mfma" /\ Instr(w).tile = "tl") =>
            arrivals[w] = InPrologue(w) + 2 * Len(acc[<<w, "tl">>])
=============================================================================
