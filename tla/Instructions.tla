---------------------------- MODULE Instructions ----------------------------
(***************************************************************************)
(* The calls a Gluon kernel of this repository makes inside and around its *)
(* K loop, as instructions of one warp.  A kernel is a sequence of         *)
(* instructions and loops; every operator below yields such a sequence, so *)
(* that programs are put together with \o.  Membar!Lowered makes it one of *)
(* instructions only, which a warp can execute.                            *)
(*                                                                         *)
(* An LDS slot is <<allocation, index>>: smem.index(i), or a slice of it.  *)
(***************************************************************************)
EXTENDS Integers, Sequences, SequencesExt

Masked == -1        \* the K offset of a copy whose mask is false everywhere
NoStep == -2        \* the K offset of a tile that belongs to all K-steps

\* buffer_load_to_shared into every slot of S, `ahead` K-steps beyond the base
\* pointers, and the commit_group after it.
AC(S, ahead) == <<[op |-> "copy", slots |-> S, ahead |-> ahead]>>

\* buffer_load (or gl.load) into registers, smem.store, smem.load, and
\* load_shared_relaxed, the read that membar does not see.
GR(r, ahead) == <<[op |-> "load", reg |-> r, ahead |-> ahead]>>
LW(S, r)     == <<[op |-> "write", slots |-> S, reg |-> r]>>
LRAll(r, S)  == <<[op |-> "read", reg |-> r, slots |-> S, relaxed |-> FALSE]>>
LR(r, s)     == LRAll(r, {s})
LRRelaxed(r, s) == <<[op |-> "read", reg |-> r, slots |-> {s}, relaxed |-> TRUE]>>

\* acc_t = mfma(A, B, acc_t) and buffer_store of finished accumulators; an
\* operand is a set of registers, with its scale where there is one.
Mfma(t, A, B) == <<[op |-> "mfma", tile |-> t, a |-> A, b |-> B]>>
StoreC(T)     == <<[op |-> "store", tiles |-> T]>>

\* Register arithmetic: every register of D is computed from those of S.
Compute(D, S) == <<[op |-> "compute", to |-> D, from |-> S]>>

\* a_base += n * BLOCK_K * stride_ak, b_base likewise.
Advance(n) == <<[op |-> "advance", n |-> n]>>

\* A barrier is local (lgkmcnt(0), then s_barrier) or plain (s_barrier).
Local == <<[op |-> "barrier", local |-> TRUE]>>
Plain == <<[op |-> "barrier", local |-> FALSE]>>

\* wait_group(n) alone, and with the barrier that the compiler puts after it
\* outside warp-pipelined loops.
WaitOnly(n) == <<[op |-> "wait", n |-> n]>>
Wait(n) == WaitOnly(n) \o Local

\* What the operators above have in common.
IsProgram(p) ==
    /\ p \in Seq({p[k] : k \in DOMAIN p})
    /\ \A k \in DOMAIN p :
          /\ p[k].op \in {"wait", "advance"}  => p[k].n \in Nat
          /\ p[k].op = "barrier"              => p[k].local \in BOOLEAN
          /\ p[k].op \in {"copy", "load"}     => p[k].ahead \in Int

\* for k in range(0, stop, by): Body(k).  The loop as the compiler sees it, and as
\* it runs; the turns differ in the slots and steps that k selects only.
For(stop, by, Body(_)) ==
    <<[op |-> "loop", body |-> Body(0),
       turns |-> [i \in 1 .. (stop + by - 1) \div by |-> Body((i - 1) * by)]]>>

=============================================================================
