-------------------------------- MODULE Gemm --------------------------------
(***************************************************************************)
(* What every GEMM kernel of kernels/gemm promises, whatever its schedule: *)
(* each accumulator tile of C is the sum, over the K-steps in order, of    *)
(* the product of the A tile and the B tile of that K-step, every K-step   *)
(* once; and what is stored to C is the finished sum.  It is the module    *)
(* docstring's "C = A @ B" of each matmul_kernel.py cut at the granularity *)
(* of one mfma call.                                                       *)
(*                                                                         *)
(* A tile of K-step k is written {k}: the set of the K-steps whose data it *)
(* is made of.  A torn or stale operand is any other set.                  *)
(***************************************************************************)
EXTENDS Naturals, Sequences

CONSTANTS
    Tiles,      \* the accumulators: (warp, quadrant) pairs, or warps
    NumSteps    \* iterMax, the number of K-steps, a natural number

VARIABLES
    acc,        \* acc[t]: the products accumulated into tile t, in order
    out         \* out[t]: what is stored to C for t, <<>> before the store

vars == <<acc, out>>

Whole(k) == {k}

Product(k) == <<Whole(k), Whole(k)>>

FullSum == [i \in 1..NumSteps |-> Product(i - 1)]

Init == /\ acc = [t \in Tiles |-> <<>>]
        /\ out = [t \in Tiles |-> <<>>]

Accumulate(t) ==
    /\ Len(acc[t]) < NumSteps
    /\ acc' = [acc EXCEPT ![t] = Append(@, Product(Len(@)))]
    /\ UNCHANGED out

\* The kernels store several finished tiles back to back.
Store(T) ==
    /\ \A t \in T : acc[t] = FullSum
    /\ out' = [t \in DOMAIN out |-> IF t \in T THEN acc[t] ELSE out[t]]
    /\ UNCHANGED acc

Next == \/ \E t \in DOMAIN acc : Accumulate(t)
        \/ \E T \in SUBSET DOMAIN out : Store(T)

Spec == Init /\ [][Next]_vars

-----------------------------------------------------------------------------
Finished == out = [t \in Tiles |-> FullSum]
=============================================================================
