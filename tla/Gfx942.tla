------------------------------- MODULE Gfx942 -------------------------------
(***************************************************************************)
(* The gfx942 ports in kernels/gemm/gfx942.  That GPU copies nothing       *)
(* straight into LDS: a tile goes from memory to registers (GR), to LDS    *)
(* (LW) and back to registers (LR).  LDS holds one K-step only, so every   *)
(* slot is rewritten under the eyes of the warps that read it.             *)
(***************************************************************************)
EXTENDS Instructions

Quad(t, a, b) == Mfma(t, {a}, {b})
AllQuads == {"tl", "bl", "tr", "br"}

-----------------------------------------------------------------------------
(* intra_wave: one allocation per half tile, one instruction stream.       *)

\* Mutant: the half tiles are slices of one allocation.
Slot_OneAllocation(o) == <<"smem", o>>
Slot(o) == <<o, 0>>
\* The registers of the global loads.
Staged == [b_left |-> "gB_left", a_top |-> "gA_top", a_bot |-> "gA_bot", b_right |-> "gB_right"]

LRh(o) == LR(o, Slot(o))
LWh(o) == LW({Slot(o)}, Staged[o])
GRh(o) == GR(Staged[o], 0)

\* Mutant: the reads of the prologue are not closed before the loop.
intra_Prologue_NoDrain ==
    GRh("b_left") \o GRh("a_top") \o GRh("a_bot") \o GRh("b_right") \o Advance(1)
    \o LWh("b_left") \o LWh("a_top") \o LWh("a_bot") \o LWh("b_right")
    \o GRh("b_left") \o Local
    \o GRh("a_top") \o GRh("a_bot") \o GRh("b_right") \o Advance(1)
    \o LRh("b_left") \o LRh("a_top")
intra_Prologue ==
    GRh("b_left") \o GRh("a_top") \o GRh("a_bot") \o GRh("b_right") \o Advance(1)
    \o LWh("b_left") \o LWh("a_top") \o LWh("a_bot") \o LWh("b_right")
    \o GRh("b_left") \o Local
    \o GRh("a_top") \o GRh("a_bot") \o GRh("b_right") \o Advance(1)
    \o LRh("b_left") \o LRh("a_top") \o Local

\* Region r of a K-step: the quadrant, the operand read behind it, and the half
\* tile that is written to LDS and fetched again.
Regions == << [quad |-> Quad("tl", "a_top", "b_left"),  reads |-> "a_bot",   stores |-> "b_left"],
              [quad |-> Quad("bl", "a_bot", "b_left"),  reads |-> "b_right", stores |-> "a_top"],
              [quad |-> Quad("tr", "a_top", "b_right"), reads |-> "b_left",  stores |-> "a_bot"],
              [quad |-> Quad("br", "a_bot", "b_right"), reads |-> "a_top",   stores |-> "b_right"] >>

KStep(Part(_)) == FlattenSeq([r \in 1 .. 4 |-> Regions[r].quad \o Part(r)])

\* Mutant: the next half tile is fetched before the last one is stored.
intra_Loop_FetchFirst(iM) ==
    LET Part(r) == LRh(Regions[r].reads) \o GRh(Regions[r].stores) \o LWh(Regions[r].stores)
        Body(k) == KStep(Part) \o Advance(1)
    IN  For(iM - 2, 1, Body)
intra_Loop(iM) ==
    LET Part(r) == LRh(Regions[r].reads) \o LWh(Regions[r].stores) \o GRh(Regions[r].stores)
        Body(k) == KStep(Part) \o Advance(1)
    IN  For(iM - 2, 1, Body)

intra_Peel1 == LET Part(r) == LRh(Regions[r].reads) \o LWh(Regions[r].stores)
               IN  KStep(Part)
intra_Peel2 == LET Part(r) == IF r <= 2 THEN LRh(Regions[r].reads) ELSE <<>>
               IN  KStep(Part)

intra_wave(iM) == intra_Prologue \o intra_Loop(iM) \o intra_Peel1 \o intra_Peel2
                  \o StoreC(AllQuads)

-----------------------------------------------------------------------------
(* inter_wave: one allocation for A and one for B, of two halves each; mem *)
(* and mfma stages alternate and two groups of warps run one stage apart.  *)

SmemA == {<<"smemA", h>> : h \in {"t", "b"}}
SmemB == {<<"smemB", h>> : h \in {"l", "r"}}
LRa(h) == LR([t |-> "a_t", b |-> "a_b"][h], <<"smemA", h>>)
LRb(h) == LR([l |-> "b_l", r |-> "b_r"][h], <<"smemB", h>>)

\* What becomes of the stages: a local barrier closes a mem stage, a plain one
\* an mfma stage.
MemStage(p)  == p \o Local
MfmaStage(p) == p \o Plain

inter_Prologue == GR("gB", 0) \o GR("gA", 0) \o Advance(1)
                  \o LW(SmemB, "gB") \o LW(SmemA, "gA") \o LRb("l")

\* Mutant: B is rewritten one mem stage early, in the stage that reads its right half.
inter_Loop_EarlyStore(iM) ==
    LET Body(k) ==
            MemStage(GR("gB", 0) \o LRa("t")) \o MfmaStage(Quad("tl", "a_t", "b_l"))
         \o MemStage(GR("gA", 0) \o LRb("r") \o LW(SmemB, "gB")) \o MfmaStage(Quad("tr", "a_t", "b_r"))
         \o MemStage(LRa("b"))          \o MfmaStage(Quad("bl", "a_b", "b_l"))
         \o MemStage(LRb("l") \o LW(SmemA, "gA") \o Advance(1)) \o MfmaStage(Quad("br", "a_b", "b_r"))
    IN  For(iM - 1, 1, Body)
inter_Loop(iM) ==
    LET Body(k) ==
            MemStage(GR("gB", 0) \o LRa("t")) \o MfmaStage(Quad("tl", "a_t", "b_l"))
         \o MemStage(GR("gA", 0) \o LRb("r")) \o MfmaStage(Quad("tr", "a_t", "b_r"))
         \o MemStage(LRa("b") \o LW(SmemB, "gB")) \o MfmaStage(Quad("bl", "a_b", "b_l"))
         \o MemStage(LRb("l") \o LW(SmemA, "gA") \o Advance(1)) \o MfmaStage(Quad("br", "a_b", "b_r"))
    IN  For(iM - 1, 1, Body)

inter_Peel == LRa("t") \o Quad("tl", "a_t", "b_l") \o LRb("r") \o Quad("tr", "a_t", "b_r")
              \o LRa("b") \o Quad("bl", "a_b", "b_l") \o Quad("br", "a_b", "b_r")

\* Mutant: the groups run the stages together.
PhaseShift_None(group) == Local
PhaseShift(group) == Local \o (IF group = "behind" THEN Plain ELSE <<>>)
Reconverge(group) == IF group = "ahead" THEN Plain ELSE <<>>

inter_wave(iM, group) ==
    inter_Prologue \o PhaseShift(group) \o inter_Loop(iM) \o Reconverge(group)
    \o inter_Peel \o StoreC(AllQuads)
=============================================================================
