----------------------------- MODULE IntraWave ------------------------------
(***************************************************************************)
(* The K loops of the intra-wave GEMM kernels that keep A in one piece:    *)
(* v0_naive to v7_sliceN of kernels/gemm/intra_wave/a16w16, and v0_sliceN  *)
(* of a4w4 (v8 and v9 of a16w16 are SlicedMN; a8w8 and v1_sliceMN of a4w4  *)
(* SliceMNKernels).  Every warp of a workgroup runs the same program.  iM  *)
(* is iterMax.                                                             *)
(***************************************************************************)
EXTENDS Instructions

A(buf) == <<"smemA", buf>>
B(buf) == <<"smemB", buf>>
BLeft(buf)  == <<"smemB_left", buf>>
BRight(buf) == <<"smemB_right", buf>>

Dot == Mfma("acc", {"a"}, {"b"})
LoadAB(buf) == LR("a", A(buf)) \o LR("b", B(buf))

-----------------------------------------------------------------------------
(* v0, v1: global loads into registers, in v1 as buffer loads.  v2, v3:    *)
(* one LDS buffer, in v3 with a layout that avoids bank conflicts.         *)

v0_naive(iM) ==
    LET Body(k) == GR("a", 0) \o GR("b", 0) \o Dot \o Advance(1)
    IN  For(iM, 1, Body) \o StoreC({"acc"})
v1_buffer_load(iM) == v0_naive(iM)

v2_async_copy(iM) ==
    LET Body(k) == AC({A(0), B(0)}, 0) \o Wait(0) \o LoadAB(0) \o Dot \o Advance(1)
    IN  For(iM, 1, Body) \o StoreC({"acc"})
v3_lds(iM) == v2_async_copy(iM)

-----------------------------------------------------------------------------
(* v4: the copy of the next K-step runs behind the mfma of this one.       *)

\* Mutant: the wait of v4's loop lets the copy it needs be in flight.
v4_Loop_LooseWait(iM) ==
    LET Body(k) == AC({A(1 - (k % 2)), B(1 - (k % 2))}, 0) \o Wait(2)
                   \o LoadAB(k % 2) \o Dot \o Advance(1)
    IN  For(iM - 1, 1, Body)
v4_Loop(iM) ==
    LET Body(k) == AC({A(1 - (k % 2)), B(1 - (k % 2))}, 0) \o Wait(1)
                   \o LoadAB(k % 2) \o Dot \o Advance(1)
    IN  For(iM - 1, 1, Body)

v4_global_prefetch(iM) ==
    AC({A(0), B(0)}, 0) \o Advance(1)
    \o v4_Loop(iM)
    \o Wait(0) \o LoadAB((iM - 1) % 2) \o Dot \o StoreC({"acc"})

-----------------------------------------------------------------------------
(* v5, v6: the LDS read of the next K-step runs behind it as well.         *)

PrefetchTwo == AC({A(0), B(0)}, 0) \o Advance(1)
               \o AC({A(1), B(1)}, 0) \o Advance(1)
               \o Wait(1) \o LoadAB(0)

\* Mutant: the last copy of v5's loop is not masked off.
v5_Loop_Unmasked(iM) ==
    LET Body(k) == Dot \o Wait(0) \o AC({A(k % 2), B(k % 2)}, 0)
                   \o LoadAB(1 - (k % 2)) \o Advance(1)
    IN  For(iM - 1, 1, Body)
\* mask = (k != iterMax - 2)
v5_Loop(iM) ==
    LET Body(k) == Dot \o Wait(0)
                   \o AC({A(k % 2), B(k % 2)}, IF k # iM - 2 THEN 0 ELSE Masked)
                   \o LoadAB(1 - (k % 2)) \o Advance(1)
    IN  For(iM - 1, 1, Body)

v5_local_prefetch(iM) == PrefetchTwo \o v5_Loop(iM) \o Dot \o StoreC({"acc"})

DotNext == Mfma("acc", {"a_next"}, {"b_next"})
LoadNext(buf) == LR("a_next", A(buf)) \o LR("b_next", B(buf))

\* Mutant: the second half of the iteration reads the buffer it refills.
v6_Loop_OtherBuffer(iM) ==
    LET Body(k) == Dot \o Wait(0) \o AC({A(0), B(0)}, 0) \o LoadNext(1) \o Advance(1)
                   \o DotNext \o Wait(0) \o AC({A(1), B(1)}, 0) \o LoadAB(1)
                   \o Advance(1)
    IN  For(iM - 2, 2, Body)
v6_Loop(iM) ==
    LET Body(k) == Dot \o Wait(0) \o AC({A(0), B(0)}, 0) \o LoadNext(1) \o Advance(1)
                   \o DotNext \o Wait(0) \o AC({A(1), B(1)}, 0) \o LoadAB(0)
                   \o Advance(1)
    IN  For(iM - 2, 2, Body)

v6_loop_unroll(iM) ==
    PrefetchTwo \o v6_Loop(iM)
    \o Dot \o Wait(0) \o LoadNext(1) \o DotNext \o StoreC({"acc"})

-----------------------------------------------------------------------------
(* v7: B is cut into a left and a right half, each an allocation.          *)

DotLeft  == Mfma("left", {"a"}, {"b_left"})
DotRight == Mfma("right", {"a"}, {"b_right"})
LoadALeft(buf) == LR("a", A(buf)) \o LR("b_left", BLeft(buf))

v7_Prologue ==
    AC({A(0), BLeft(0)}, 0) \o AC({BRight(0)}, 0) \o Advance(1)
    \o AC({A(1), BLeft(1)}, 0) \o AC({BRight(1)}, 0) \o Advance(1)
    \o Wait(3) \o LoadALeft(0)

\* One half of the unrolled iteration: it consumes K-step g_idx, reads the
\* operands of the next one from l_idx and refills g_idx.
v7_Half(g_idx, l_idx) ==
    DotLeft \o Wait(2) \o LR("b_right", BRight(g_idx)) \o AC({A(g_idx), BLeft(g_idx)}, 0)
    \o DotRight \o Wait(2) \o LoadALeft(l_idx) \o AC({BRight(g_idx)}, 0) \o Advance(1)

v7_Loop(iM) == LET Body(k) == v7_Half(0, 1) \o v7_Half(1, 0) IN For(iM - 2, 2, Body)

\* Mutant: the store of the right half is forgotten.
v7_Epilogue_LeftOnly ==
    DotLeft \o Wait(0) \o LR("b_right", BRight(0)) \o DotRight \o LoadALeft(1)
    \o DotLeft \o LR("b_right", BRight(1)) \o StoreC({"left"}) \o DotRight
v7_Epilogue ==
    DotLeft \o Wait(0) \o LR("b_right", BRight(0)) \o DotRight \o LoadALeft(1)
    \o DotLeft \o LR("b_right", BRight(1)) \o StoreC({"left"})
    \o DotRight \o StoreC({"right"})

v7_sliceN(iM) == v7_Prologue \o v7_Loop(iM) \o v7_Epilogue

-----------------------------------------------------------------------------
(* a4w4 v0: the schedule of v7, with one scale per operand.  The scales    *)
(* are loaded into registers with the tiles of their commit group and go   *)
(* through one single-buffered LDS allocation each, smem_as and smem_bs,   *)
(* to change their layout.                                                 *)

ScaleA == <<"smem_as", 0>>
ScaleB == <<"smem_bs", 0>>
ScaledLeft(a, sa)  == Mfma("left", {a, sa}, {"b_left", "b_sc_left"})
ScaledRight(a, sa) == Mfma("right", {a, sa}, {"b_right", "b_sc_right"})

\* The scale registers that a K-step of parity p is loaded into.
ASc(p)      == IF p = 0 THEN "a_sc_buf1" ELSE "a_sc_buf3"
BScLeft(p)  == IF p = 0 THEN "b_sc_left_buf1" ELSE "b_sc_left_buf3"
BScRight(p) == IF p = 0 THEN "b_sc_right_buf1" ELSE "b_sc_right_buf3"

\* What is fetched together of the K-step of parity p: the tiles of one commit
\* group and the scales that belong to them.
FetchALeft(p) == AC({A(p), BLeft(p)}, p) \o GR(ASc(p), p) \o GR(BScLeft(p), p)
FetchRight(p) == AC({BRight(p)}, p) \o GR(BScRight(p), p)

PrepareALeft(p, sa) == LW({ScaleA}, ASc(p)) \o LW({ScaleB}, BScLeft(p))
                       \o LR(sa, ScaleA) \o LR("b_sc_left", ScaleB)
PrepareRight(p) == LW({ScaleB}, BScRight(p)) \o LR("b_sc_right", ScaleB)

ReadALeft(p, a) == LR(a, A(p)) \o LR("b_left", BLeft(p))

a4w4_v0_Prologue ==
    FetchALeft(0) \o FetchRight(0) \o FetchALeft(1) \o FetchRight(1) \o Advance(2)
    \o Wait(3) \o ReadALeft(0, "a") \o PrepareALeft(0, "a_sc_buf0")

\* Regions 0 and 1 (p = 0), 2 and 3 (p = 1): a, sa are K-step p's operand and
\* scale, an, sn those of the next one.
a4w4_v0_Half(p, a, sa, an, sn) ==
    ScaledLeft(a, sa) \o Wait(2) \o LR("b_right", BRight(p)) \o PrepareRight(p)
    \o FetchALeft(p)
    \o ScaledRight(a, sa) \o Wait(2) \o ReadALeft(1 - p, an) \o PrepareALeft(1 - p, sn)
    \o FetchRight(p)

a4w4_v0_Loop(iM) ==
    LET Body(k) == a4w4_v0_Half(0, "a", "a_sc_buf0", "a_next", "a_sc_buf2")
                   \o a4w4_v0_Half(1, "a_next", "a_sc_buf2", "a", "a_sc_buf0")
                   \o Advance(2)
    IN  For(iM - 2, 2, Body)

a4w4_v0_Epilogue ==
    ScaledLeft("a", "a_sc_buf0") \o Wait(2) \o LR("b_right", BRight(0)) \o PrepareRight(0)
    \o ScaledRight("a", "a_sc_buf0") \o Wait(1) \o ReadALeft(1, "a_next")
    \o PrepareALeft(1, "a_sc_buf2")
    \o ScaledLeft("a_next", "a_sc_buf2") \o Wait(0) \o LR("b_right", BRight(1))
    \o PrepareRight(1) \o StoreC({"left"})
    \o ScaledRight("a_next", "a_sc_buf2") \o StoreC({"right"})

a4w4_v0_sliceN(iM) == a4w4_v0_Prologue \o a4w4_v0_Loop(iM) \o a4w4_v0_Epilogue
=============================================================================
