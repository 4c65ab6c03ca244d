----------------------------- MODULE MCSlicedMN -----------------------------
(* SlicedMN on two warps: what it promises and the invariant of its proofs. *)
EXTENDS SlicedMNInv
=============================================================================
