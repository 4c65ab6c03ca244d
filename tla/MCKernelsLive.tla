--------------------------- MODULE MCKernelsLive ----------------------------
(* The kernels that wait most, on the LDS machine, each with the fewest     *)
(* steps that run its loop: do they come to an end?                         *)
EXTENDS LdsMachine, Membar

I == INSTANCE IntraWave
S == INSTANCE SliceMNKernels
X == INSTANCE Gfx942
T == INSTANCE Attention

Groups == {"ahead", "behind"}

Program(kernel, iM, g) ==
    CASE kernel = "v5_local_prefetch" -> I!v5_local_prefetch(iM)
      [] kernel = "v7_sliceN"         -> I!v7_sliceN(iM)
      [] kernel = "inter_a16w16"      -> S!inter_a16w16(iM, g)
      [] kernel = "gfx942_intra_wave" -> X!intra_wave(iM)
      [] kernel = "gfx942_inter_wave" -> X!inter_wave(iM, g)
      [] kernel = "fmha_v4"           -> T!gluon_attn_fwd("v4", iM, g, FALSE)

LiveConfigs == {"v5_local_prefetch", "gfx942_inter_wave"} \X {2}
               \cup {"gfx942_intra_wave"} \X {3}
               \cup {"v7_sliceN", "inter_a16w16", "fmha_v4"} \X {4}
LiveCode == [c \in LiveConfigs |-> [g \in Groups |-> Lowered(Program(c[1], c[2], g))]]
=============================================================================
