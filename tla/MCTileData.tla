----------------------------- MODULE MCTileData -----------------------------
(* TileData on all kernels and slices of C.                                *)
EXTENDS TileData, KernelLayouts
=============================================================================
