---------------------------- MODULE KernelLayouts ----------------------------
(***************************************************************************)
(* The layouts, LDS allocations and block sizes of the GEMM kernels.       *)
(*                                                                         *)
(* An element of an operand is <<m, k>> or <<n, k>>.  In the kernels where *)
(* the source writes B as [k, n], each layout of B is the one given here   *)
(* with the two dimensions exchanged.                                      *)
(*                                                                         *)
(* <kernel>_Launch is what the host function chooses, <kernel>_Store the   *)
(* layout in which the epilogue stores a slice of C.                       *)
(***************************************************************************)
EXTENDS Layouts

Launch(M, N, K, warps) == [M |-> M, N |-> N, K |-> K, warps |-> warps]
All256(K, warps) == Launch(256, 256, K, warps)

\* A part of an operand in LDS, which has room for slots of its kind: its
\* halves times nBuffers.  direct: filled by buffer_load_to_shared, and not
\* through registers.
Tile(shape, load, shared, slots, bytes) ==
    [shape |-> shape, load |-> load, shared |-> shared, slots |-> slots, bytes |-> bytes, direct |-> TRUE]

ThroughRegisters(tile) == [tile EXCEPT !.direct = FALSE]

\* LDS that the compiler uses for a convert_layout and frees again.
Scratch(tile) == [ThroughRegisters(tile) EXCEPT !.slots = 0]

\* slices: into how many parts the mfmas cut M and N; kWidth: of A and B.
\* capacity: bytes of LDS.
Kernel(launch, mfma, kWidth, slices, tiles, store, capacity) ==
    [launch |-> launch, mfma |-> mfma, kWidth |-> kWidth, slices |-> slices,
     tiles |-> tiles, store |-> store, capacity |-> capacity]

KB == 1024
Gfx950 == 160 * KB
Gfx942 == 64 * KB

-----------------------------------------------------------------------------
(* Intra-wave a16w16: 4 warps in a 2 x 2 grid.                             *)

Launch16 == All256(64, 4)
Mfma22 == Mfma(16, <<2, 2>>)

\* A blocked load of 8 elements per lane, over LDS with the given swizzle.
BlockedTile(L, vec, perPhase, maxPhase) ==
    LET shape == <<L.M, L.K>>
    IN Tile(shape, Blocked(<<1, 8>>, <<512 \div L.K, L.K \div 8>>, <<L.warps, 1>>, <<1, 0>>, shape),
            Swizzled(vec, perPhase, maxPhase, <<1, 0>>, shape), 1, 2)

\* The linear load layout and the padded LDS layout, for tiles of any height.
Linear16(regRows, laneRows, warpRows) ==
    Linear(Cols(<<1, 2, 4>>) \o Rows(regRows), Cols(<<8, 16, 32>>) \o Rows(laneRows), Rows(warpRows))
Padded16(rows) ==
    Padded(<<<<512, 16>>>>, Cols(<<1, 2, 4, 8, 16, 32>>) \o Rows(rows))

PaddedTile16(L, slots) ==
    Tile(<<L.M, L.K>>, Linear16(<<4, 8, 128>>, <<16, 32, 64>>, <<1, 2>>),
         Padded16(<<16, 32, 64, 1, 2, 4, 8, 128>>), slots, 2)
PaddedHalf16(L) ==
    Tile(<<L.M \div 2, L.K>>, Linear16(<<4, 8>>, <<16, 32, 64>>, <<1, 2>>),
         Padded16(<<16, 32, 64, 1, 2, 4, 8>>), 4, 2)

InMfmaLayout(L, mfma, slices) == MfmaResult(mfma, <<L.M \div slices[1], L.N \div slices[2]>>)

AB(tile) == [A |-> tile, B |-> tile]

v0_Launch == Launch16
v0_Store == InMfmaLayout(v0_Launch, Mfma22, <<1, 1>>)
v0_naive == Kernel(v0_Launch, Mfma22, <<8, 8>>, <<1, 1>>, AB(Scratch(BlockedTile(v0_Launch, 1, 1, 1))), v0_Store, Gfx950)

v1_Launch == Launch16
v1_Store == InMfmaLayout(v1_Launch, Mfma22, <<1, 1>>)
v1_buffer_load ==
    Kernel(v1_Launch, Mfma22, <<8, 8>>, <<1, 1>>, AB(Scratch(BlockedTile(v1_Launch, 1, 1, 1))), v1_Store, Gfx950)

v2_Launch == Launch16
v2_Store == InMfmaLayout(v2_Launch, Mfma22, <<1, 1>>)
v2_async_copy ==
    Kernel(v2_Launch, Mfma22, <<8, 8>>, <<1, 1>>, AB(BlockedTile(v2_Launch, 1, 1, 1)), v2_Store, Gfx950)

v3_Launch == Launch16
v3_Store == InMfmaLayout(v3_Launch, Mfma22, <<1, 1>>)
v3_lds_swizzling ==
    Kernel(v3_Launch, Mfma22, <<8, 8>>, <<1, 1>>, AB(BlockedTile(v3_Launch, 8, 2, 8)), v3_Store, Gfx950)
v3_lds_padding ==
    Kernel(v3_Launch, Mfma22, <<8, 8>>, <<1, 1>>, AB(PaddedTile16(v3_Launch, 1)), v3_Store, Gfx950)

v4_Launch == Launch16
v4_Store == InMfmaLayout(v4_Launch, Mfma22, <<1, 1>>)
v4_global_prefetch ==
    Kernel(v4_Launch, Mfma22, <<8, 8>>, <<1, 1>>, AB(PaddedTile16(v4_Launch, 2)), v4_Store, Gfx950)

v5_Launch == Launch16
v5_Store == InMfmaLayout(v5_Launch, Mfma22, <<1, 1>>)
v5_local_prefetch ==
    Kernel(v5_Launch, Mfma22, <<8, 8>>, <<1, 1>>, AB(PaddedTile16(v5_Launch, 2)), v5_Store, Gfx950)

v6_Launch == Launch16
v6_Store == Blocked(<<1, 8>>, <<2, 32>>, <<4, 1>>, <<1, 0>>, <<v6_Launch.M, v6_Launch.N>>)
v6_loop_unroll ==
    Kernel(v6_Launch, Mfma22, <<8, 8>>, <<1, 1>>, AB(PaddedTile16(v6_Launch, 2)), v6_Store, Gfx950)

\* The store layout of the kernels with 4 warps that slice C.
Store4(shape) == Blocked(<<1, 8>>, <<4, 16>>, <<4, 1>>, <<1, 0>>, shape)

v7_Launch == Launch16
v7_Store == Store4(<<v7_Launch.M, v7_Launch.N \div 2>>)
v7_sliceN ==
    Kernel(v7_Launch, Mfma22, <<8, 8>>, <<1, 2>>,
           [A |-> PaddedTile16(v7_Launch, 2), B |-> PaddedHalf16(v7_Launch)], v7_Store, Gfx950)

v8_Launch == Launch16
v8_Store == Store4(<<v8_Launch.M \div 2, v8_Launch.N \div 2>>)
v8_Tiles == AB(PaddedHalf16(v8_Launch))
v8_sliceMN == Kernel(v8_Launch, Mfma22, <<8, 8>>, <<2, 2>>, v8_Tiles, v8_Store, Gfx950)

v9_Launch == Launch16
v9_Store == Store4(<<v9_Launch.M \div 2, v9_Launch.N \div 2>>)
v9_Tiles == AB(PaddedHalf16(v9_Launch))
v9_beyond_hotloop == Kernel(v9_Launch, Mfma22, <<8, 8>>, <<2, 2>>, v9_Tiles, v9_Store, Gfx950)
-----------------------------------------------------------------------------
(* 8-bit and 4-bit operands: one byte per element, or per pair of elements. *)

Linear8(regRows, laneRows, warpRows) ==
    Linear(Cols(<<1, 2, 4, 8>>) \o Rows(regRows), Cols(<<16, 32, 64>>) \o Rows(laneRows), Rows(warpRows))
Padded8(pads, rows) ==
    Padded(pads, Cols(<<1, 2, 4, 8, 16, 32, 64>>) \o Rows(rows))

HalfRows == <<16, 32, 64, 1, 2, 4, 8>>

\* One scale for 32 elements of k, next to the tile; m or n is contiguous.
ScaleGroups(L) == L.K \div 32
ScaleTile(rows, L, sizePerThread, threadsPerWarp, warpsPerCTA, slots) ==
    LET shape == <<rows, ScaleGroups(L)>>
    IN Tile(shape, Blocked(sizePerThread, threadsPerWarp, warpsPerCTA, <<0, 1>>, shape),
            Swizzled(1, 1, 1, <<0, 1>>, shape), slots, 1)

intra_a8w8_Launch == All256(128, 4)
intra_a8w8_Store == Store4(<<128, 128>>)
intra_a8w8_Tiles ==
    AB(Tile(<<128, 128>>, Linear8(<<4, 8>>, <<16, 32, 64>>, <<1, 2>>),
            Padded8(<<<<1024, 16>>, <<2048, 32>>>>, HalfRows), 4, 1))
intra_a8w8 ==
    Kernel(intra_a8w8_Launch, Mfma22, <<32, 32>>, <<2, 2>>, intra_a8w8_Tiles, intra_a8w8_Store, Gfx950)

intra_a4w4_v0_Launch == All256(256, 4)
intra_a4w4_v0_Tiles ==
    [A  |-> Tile(<<256, 128>>, Linear8(<<4, 8, 128>>, <<16, 32, 64>>, <<1, 2>>),
                 Padded8(<<<<1024, 32>>>>, HalfRows \o <<128>>), 2, 1),
     B  |-> Tile(<<128, 128>>, Linear8(<<4, 8>>, <<16, 32, 64>>, <<1, 2>>),
                 Padded8(<<<<1024, 32>>>>, HalfRows), 4, 1),
     As |-> ThroughRegisters(ScaleTile(256, intra_a4w4_v0_Launch, <<8, 1>>, <<32, 2>>, <<1, 4>>, 1)),
     Bs |-> ThroughRegisters(ScaleTile(128, intra_a4w4_v0_Launch, <<4, 1>>, <<32, 2>>, <<1, 4>>, 1))]
intra_a4w4_v0_Store == Store4(<<256, 128>>)
intra_a4w4_v0_sliceN ==
    Kernel(intra_a4w4_v0_Launch, Mfma22, <<16, 16>>, <<1, 2>>, intra_a4w4_v0_Tiles, intra_a4w4_v0_Store, Gfx950)

intra_a4w4_v1_Launch == All256(256, 4)
intra_a4w4_v1_Store == Store4(<<128, 128>>)
intra_a4w4_v1_Operands ==
    Tile(<<128, 128>>, Linear8(<<4, 8>>, <<16, 32, 64>>, <<1, 2>>), Padded8(<<<<1024, 32>>>>, HalfRows), 4, 1)
intra_a4w4_v1_Scales == ScaleTile(128, intra_a4w4_v1_Launch, <<4, 1>>, <<32, 2>>, <<1, 4>>, 4)
intra_a4w4_v1_sliceMN ==
    Kernel(intra_a4w4_v1_Launch, Mfma22, <<16, 16>>, <<2, 2>>,
           [A |-> intra_a4w4_v1_Operands, B |-> intra_a4w4_v1_Operands,
            As |-> intra_a4w4_v1_Scales, Bs |-> intra_a4w4_v1_Scales],
           intra_a4w4_v1_Store, Gfx950)
-----------------------------------------------------------------------------
(* Inter-wave: 8 warps in a 2 x 4 grid.                                    *)

Mfma24 == Mfma(16, <<2, 4>>)

Store8 == Blocked(<<4, 8>>, <<4, 16>>, <<2, 4>>, <<1, 0>>, <<128, 128>>)

inter_a16w16_Launch == All256(64, 8)
inter_a16w16_Store == Store8
inter_a16w16_Tiles ==
    AB(Tile(<<128, 64>>, Linear16(<<8>>, <<16, 32, 64>>, <<1, 2, 4>>), Padded16(HalfRows), 4, 2))
inter_a16w16 ==
    Kernel(inter_a16w16_Launch, Mfma24, <<8, 8>>, <<2, 2>>, inter_a16w16_Tiles, inter_a16w16_Store, Gfx950)

Linear8_8Warps == Linear8(<<8>>, <<16, 32, 64>>, <<1, 2, 4>>)

inter_a8w8_Launch == All256(128, 8)
inter_a8w8_Store == Store8
inter_a8w8_Tiles ==
    AB(Tile(<<128, 128>>, Linear8_8Warps, Padded8(<<<<1024, 16>>, <<2048, 32>>>>, HalfRows), 4, 1))
inter_a8w8 ==
    Kernel(inter_a8w8_Launch, Mfma24, <<32, 32>>, <<2, 2>>, inter_a8w8_Tiles, inter_a8w8_Store, Gfx950)

inter_a4w4_v0_Launch == All256(256, 8)
inter_a4w4_v0_Store == Store8
inter_a4w4_v0_Operands == Tile(<<128, 128>>, Linear8_8Warps, Padded8(<<<<1024, 32>>>>, HalfRows), 4, 1)
inter_a4w4_v0_Scales == ScaleTile(128, inter_a4w4_v0_Launch, <<4, 1>>, <<32, 2>>, <<2, 4>>, 4)
inter_a4w4_v0_sliceMN ==
    Kernel(inter_a4w4_v0_Launch, Mfma24, <<16, 16>>, <<2, 2>>,
           [A |-> inter_a4w4_v0_Operands, B |-> inter_a4w4_v0_Operands,
            As |-> inter_a4w4_v0_Scales, Bs |-> inter_a4w4_v0_Scales],
           inter_a4w4_v0_Store, Gfx950)

\* The scales of both halves of B in one copy: a warp takes all n of a group.
inter_a4w4_v1_Launch == All256(256, 8)
inter_a4w4_v1_Store == Store8
inter_a4w4_v1_Operands == Tile(<<128, 128>>, Linear8_8Warps, Padded8(<<<<1024, 32>>>>, HalfRows), 4, 1)
inter_a4w4_v1_ScalesA == ScaleTile(128, inter_a4w4_v1_Launch, <<4, 1>>, <<32, 2>>, <<2, 4>>, 4)
inter_a4w4_v1_ScalesB_AsHalves == ScaleTile(256, inter_a4w4_v1_Launch, <<4, 1>>, <<32, 2>>, <<2, 4>>, 2)
inter_a4w4_v1_ScalesB == ScaleTile(256, inter_a4w4_v1_Launch, <<4, 1>>, <<64, 1>>, <<1, 8>>, 2)
inter_a4w4_v1_combineBsc ==
    Kernel(inter_a4w4_v1_Launch, Mfma24, <<16, 16>>, <<2, 2>>,
           [A |-> inter_a4w4_v1_Operands, B |-> inter_a4w4_v1_Operands,
            As |-> inter_a4w4_v1_ScalesA, Bs |-> inter_a4w4_v1_ScalesB],
           inter_a4w4_v1_Store, Gfx950)

\* mfma_32x32x64 reads two neighbouring rows where 16x16x128 reads two far ones.
inter_a4w4_v2_Launch == All256(256, 8)
inter_a4w4_v2_Store == Store8
inter_a4w4_v2_Operands ==
    Tile(<<128, 128>>, Linear8(<<16>>, <<1, 32, 64>>, <<2, 4, 8>>),
         Padded8(<<<<1024, 16>>>>, <<1, 32, 64, 2, 4, 8, 16>>), 4, 1)
inter_a4w4_v2_Scales ==
    [As |-> ScaleTile(128, inter_a4w4_v2_Launch, <<4, 1>>, <<32, 2>>, <<2, 4>>, 4),
     Bs |-> ScaleTile(256, inter_a4w4_v2_Launch, <<4, 1>>, <<64, 1>>, <<1, 8>>, 2)]
inter_a4w4_v2_mfma32x32x64 ==
    Kernel(inter_a4w4_v2_Launch, Mfma(32, <<2, 4>>), <<16, 16>>, <<2, 2>>,
           [A |-> inter_a4w4_v2_Operands, B |-> inter_a4w4_v2_Operands,
            As |-> inter_a4w4_v2_Scales.As, Bs |-> inter_a4w4_v2_Scales.Bs],
           inter_a4w4_v2_Store, Gfx950)
-----------------------------------------------------------------------------
(* The gfx942 ports: through registers into a swizzled, full LDS.          *)

SwizzledTile942(shape, load, slots) ==
    ThroughRegisters(Tile(shape, load, Swizzled(8, 1, 8, <<1, 0>>, shape), slots, 2))

intra_942_Launch == All256(64, 4)
intra_942_Tiles == AB(SwizzledTile942(<<128, 64>>, Linear16(<<8, 16>>, <<1, 2, 4>>, <<32, 64>>), 2))
intra_942_Store == InMfmaLayout(intra_942_Launch, Mfma22, <<2, 2>>)
intra_wave_gfx942 ==
    Kernel(intra_942_Launch, Mfma22, <<8, 8>>, <<2, 2>>, intra_942_Tiles, intra_942_Store, Gfx942)

inter_942_Launch == All256(64, 8)
inter_942_Tiles_TwoBuffers ==
    AB(SwizzledTile942(<<256, 64>>, Linear16(<<8, 128>>, <<1, 2, 4>>, <<16, 32, 64>>), 2))
inter_942_Tiles == AB(SwizzledTile942(<<256, 64>>, Linear16(<<8, 128>>, <<1, 2, 4>>, <<16, 32, 64>>), 1))
inter_942_Store == InMfmaLayout(inter_942_Launch, Mfma24, <<2, 2>>)
inter_wave_gfx942 ==
    Kernel(inter_942_Launch, Mfma24, <<8, 8>>, <<2, 2>>, inter_942_Tiles, inter_942_Store, Gfx942)
-----------------------------------------------------------------------------
AllKernels ==
    {v0_naive, v1_buffer_load, v2_async_copy, v3_lds_swizzling, v3_lds_padding, v4_global_prefetch,
     v5_local_prefetch, v6_loop_unroll, v7_sliceN, v8_sliceMN, v9_beyond_hotloop,
     intra_a8w8, intra_a4w4_v0_sliceN, intra_a4w4_v1_sliceMN,
     inter_a16w16, inter_a8w8, inter_a4w4_v0_sliceMN, inter_a4w4_v1_combineBsc, inter_a4w4_v2_mfma32x32x64,
     intra_wave_gfx942, inter_wave_gfx942}
=============================================================================
