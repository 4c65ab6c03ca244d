-------------------------- MODULE MCLlirScheduler --------------------------
EXTENDS LlirScheduler

Op(op, operands) == [op |-> op, operands |-> operands]
\* One span: the operations get the numbers base + 1, base + 2, ..., which operands
\* name as offsets from the own position: 1 is the operation before.
Numbered(ops, base) ==
    [k \in DOMAIN ops |->
        [id |-> <<base + k, 0>>, op |-> ops[k].op,
         operands |-> [j \in DOMAIN ops[k].operands |-> <<base + k - ops[k].operands[j], 0>>]]]

Function(code, rejects, rejectsNops) ==
    [blocks |-> [k \in DOMAIN code |->
                    [n \in DOMAIN code[k] |-> Numbered(code[k][n], 30 * (k - 1) + 10 * (n - 1))]],
     rejects |-> rejects, rejectsNops |-> rejectsNops]

\* A stage ends with the barrier of the warps and the scheduling barrier.
Stage(ops) == ops \o <<Op("s.barrier", <<>>), Op("sched.barrier", <<>>)>>
LastStage(ops) == ops \o <<Op("ret", <<>>)>>
Times(n, x) == [k \in 1 .. n |-> x]

-----------------------------------------------------------------------------
(* One dot stage: mfmas and then three or four vector operations, which    *)
(* may use earlier ones.                                                   *)

Kinds == {"sub", "maximum", "packed", "exp2", "permlane"}
Operands(k) == {<<>>} \cup (IF k > 1 THEN {<<1>>} ELSE {})
                      \cup (IF k = 3 THEN {<<2>>, <<1, 2>>} ELSE {})
Shapes(k) == {Op(op, u) : op \in Kinds, u \in Operands(k)}
Stages == {<<a, b, c>> : a \in Shapes(1), b \in Shapes(2), c \in Shapes(3)}
\* Four operations: the last is packed and uses the first two.
LongStages == {Append(w, Op("packed", <<3, 2>>)) : w \in Stages}

Dot(mfma, m, work) ==
    Function(<<<<Stage(Times(m, Op(mfma, <<>>)) \o work), LastStage(<<>>)>>>>, {}, FALSE)

\* No transcendental depends on an operation of another class that depends on one.
TransInOneBlock(work) ==
    LET b == Numbered(work, 0)
        After(i) == ~IsTrans(i) /\ DependsOnAny(Ancestors(b), i, Ids(Those(b, IsTrans)))
    IN  \A i \in Range(b) : IsTrans(i) => ~DependsOnAny(Ancestors(b), i, Ids(Those(b, After)))
\* The packed operations stand together.
PackedTogether(work) ==
    \A j, l \in DOMAIN work : work[j].op = "packed" /\ work[l].op = "packed" =>
        \A k \in j .. l : work[k].op = "packed"

AnyStages == {Dot("mfma16", 3, w) : w \in Stages}

\* Stages that fit and stages over capacity: windows of 24 and of 8 cycles.
OneStage ==
    {Dot("mfma16", 3, w) : w \in {w \in LongStages : PackedTogether(w) /\ TransInOneBlock(w)}}
    \cup {Dot("mfma32", 4, w) : w \in {w \in Stages : TransInOneBlock(w)}}

-----------------------------------------------------------------------------
(* Functions of several stages in one to three blocks, the last of which   *)
(* may start in one block and end in the next, as fmha_v4's rescale does.  *)

Mfma == Op("mfma16", <<>>)
Sub  == Op("sub", <<>>)
Mem  == Op("mem", <<>>)
DotStages == {
    <<Mfma, Mfma, Mfma, Sub, Op("exp2", <<1>>), Op("sub", <<1>>)>>,    \* fits
    <<Op("packed", <<>>), Op("permlane", <<>>), Mfma, Mfma>>,          \* keeps the packed
    <<Op("packed", <<>>), Mfma, Mfma, Op("exp2", <<1>>)>>,             \* splits it
    <<Mfma, Op("sub", <<1>>), Mfma>>,                                  \* uses an mfma
    <<Sub, Op("mfma16", <<1>>), Mfma>>,                                \* feeds an mfma
    <<Mfma, Sub>>,                                                     \* a single mfma
    <<Op("mfma_other", <<>>), Mfma, Sub>>,                             \* unknown shape
    <<Mfma, Mem, Sub>>,                                                \* not handled
    <<Sub>>}
OtherStages == {<<Mem, Sub>>, <<Sub>>}

\* The blocks the verifier may refuse: those of which nothing is split.
Rejectable(code) ==
    {k \in DOMAIN code : \A n \in DOMAIN code[k] : \A i \in Range(code[k][n]) : i.op # "packed"}

\* The second block also uses the first instruction of the first one, which may be
\* split while the second one can be refused.
UsesFirst(x) == Append(x, Op("sub", <<30 + Len(x)>>))
TwoBlocks(d, e, x) == <<<<Stage(d), Stage(x), LastStage(e)>>, <<Stage(UsesFirst(x)), LastStage(e)>>>>
NoBarriers == <<<<LastStage(<<Mfma, Mfma, Sub>>)>>>>
Codes == {TwoBlocks(d, e, x) : d, e \in DotStages, x \in OtherStages} \cup {NoBarriers}
SeveralStages ==
    {Function(code, {}, TRUE) : code \in Codes}
    \cup UNION {{Function(code, r, FALSE) : r \in SUBSET Rejectable(code)} : code \in Codes}

\* What the theorems about the function take of the refused blocks.
ASSUME RefusedAssumption == RefusedUnpacked

MCSources == OneStage \cup SeveralStages
=============================================================================
