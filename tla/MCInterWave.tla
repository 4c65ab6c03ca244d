---------------------------- MODULE MCInterWave -----------------------------
(* The warp-pipelined kernels on the LDS machine, two groups of warps one   *)
(* stage apart: the inter-wave GEMMs, the inter-wave gfx942 port and the    *)
(* attention kernels.  One warp stands for each group.  The SliceMN kernels *)
(* need an even number of K-steps above 3; of two with the same program one *)
(* runs with 4 and one with 6.  In attention a K-step is a block of keys:   *)
(* no, one and two turns of the loop, with and without the odd tail.        *)
EXTENDS Discipline, Membar

S == INSTANCE SliceMNKernels
X == INSTANCE Gfx942
T == INSTANCE Attention

Groups == {"ahead", "behind"}

Program(kernel, iM, g) ==
    CASE kernel = "inter_a16w16"               -> S!inter_a16w16(iM, g)
      [] kernel = "inter_a8w8"                 -> S!inter_a8w8(iM, g)
      [] kernel = "inter_a4w4_v0_sliceMN"      -> S!inter_a4w4_v0_sliceMN(iM, g)
      [] kernel = "inter_a4w4_v1_combineBsc"   -> S!inter_a4w4_v1_combineBsc(iM, g)
      [] kernel = "inter_a4w4_v2_mfma32x32x64" -> S!inter_a4w4_v2_mfma32x32x64(iM, g)
      [] kernel = "gfx942_inter_wave"          -> X!inter_wave(iM, g)
      [] kernel = "fmha_v3"                    -> T!gluon_attn_fwd("v3", iM, g, FALSE)
      [] kernel = "fmha_v4"                    -> T!gluon_attn_fwd("v4", iM, g, FALSE)
      [] kernel = "fmha_v4_q_direct_lds"       -> T!gluon_attn_fwd("v4", iM, g, TRUE)

InterConfigs ==
    {"inter_a16w16", "inter_a4w4_v0_sliceMN", "inter_a4w4_v1_combineBsc"} \X {4}
    \cup {"inter_a8w8", "inter_a4w4_v2_mfma32x32x64"} \X {6}
    \cup {"gfx942_inter_wave"} \X {2, 3, 4}
    \cup {"fmha_v3", "fmha_v4"} \X {3, 4, 5, 6}
    \cup {"fmha_v4_q_direct_lds"} \X {3, 5}
InterCode == [c \in InterConfigs |-> [g \in Groups |-> Lowered(Program(c[1], c[2], g))]]

\* What the kernels do not rule out: an odd number of K-steps, two key blocks.
OddConfigs == {"inter_a16w16"} \X {5}
OddCode    == [c \in OddConfigs |-> [g \in Groups |-> Lowered(Program(c[1], c[2], g))]]
ShortConfigs == {"fmha_v4"} \X {2}
ShortCode    == [c \in ShortConfigs |-> [g \in Groups |-> Lowered(Program(c[1], c[2], g))]]
=============================================================================
