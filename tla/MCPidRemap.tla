----------------------------- MODULE MCPidRemap -----------------------------
(* All grids of up to 7 by 5 tiles, 1, 3 and 4 XCDs, groups of 1, 2, 4 rows: *)
(* grids with fewer tiles than XCDs, grids that the XCDs share evenly and   *)
(* unevenly, and last groups that are full and that are not.                *)
EXTENDS PidRemap

MCGrids == (1 .. 7) \X (1 .. 5)
=============================================================================
