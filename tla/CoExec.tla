------------------------------- MODULE CoExec -------------------------------
(***************************************************************************)
(* The co-execution model of the LLIR scheduler plugin                     *)
(* (plugins/llir_scheduler/LlirSchedPlugin.cpp): which spans it takes, and *)
(* the pipeline it declares for one: how many vector operations go into    *)
(* the shadow of each mfma.  A span is a sequence of instructions          *)
(* [id, op, operands]; operands are ids of instructions, those that come   *)
(* through a phi left out.                                                 *)
(***************************************************************************)
EXTENDS Integers, FiniteSetsExt, SequencesExt, Functions

\* getMFMACycles; mfma_other is a shape without a known cost.
MfmaCycles == [mfma32 |-> 32, mfma16 |-> 16, mfma_other |-> 0]

\* isMFMAorWMMA, classifySchedInst and isTransCompute, by operation.
IsMfma(i)  == i.op \in DOMAIN MfmaCycles
IsMem(i)   == i.op = "mem"
IsTrans(i) == i.op = "exp2"

\* valuWeight.  A packed operation is one on <2 x float>; a sub stands for every
\* scalar one, and a glue (extractelement, fneg, an address) issues nothing.
ValuWeight(i) == CASE i.op \in {"exp2", "permlane", "packed"} -> 2
                   [] i.op \in {"sub", "maximum"} -> 1
                   [] OTHER -> 0
Cycles(i) == IF i.op = "permlane" THEN 20 ELSE 4 * ValuWeight(i)
Elements == 2

IsSequence(s) == s \in Seq(Range(s))

\* The elements of a sequence that P holds of.
Those(s, P(_)) == FlattenSeq([k \in DOMAIN s |-> IF P(s[k]) THEN <<s[k]>> ELSE <<>>])

Mfmas(span) == Those(span, IsMfma)
Ids(s)      == {i.id : i \in Range(s)}
Some(span, P(_)) == \E i \in Range(span) : P(i)
IsValu(i)   == ValuWeight(i) > 0

Plus(a, b) == a + b
Total(s)       == FoldLeft(Plus, 0, s)
CyclesOf(ops)  == Total([k \in DOMAIN ops |-> Cycles(ops[k])])
CeilDiv(a, b)  == (a + b - 1) \div b

\* classifyRegion: the spans of mfmas and vector operations without memory.
IsCoExec(span) == Some(span, IsMfma) /\ Some(span, IsValu) /\ ~Some(span, IsMem)

\* What each instruction of a span depends on; dependsOnAny looks targets up in it.
Ancestors(span) ==
    LET Add(anc, i) == anc @@ (i.id :> UNION {{o} \cup IF o \in DOMAIN anc THEN anc[o] ELSE {} :
                                                 o \in Range(i.operands)})
    IN  FoldLeft(Add, <<>>, span)
DependsOnAny(anc, i, targets) == anc[i.id] \cap targets # {}

\* Mutant: only the vector operations are looked at.
Independent_OneWay(span) ==
    LET anc   == Ancestors(span)
        mfmas == Ids(Mfmas(span))
    IN  \A i \in Range(span) : IsValu(i) => ~DependsOnAny(anc, i, mfmas)
\* The two way check of declareCoExecRegion.
Independent(span) ==
    LET anc   == Ancestors(span)
        mfmas == Ids(Mfmas(span))
        valus == Ids(Those(span, IsValu))
    IN  \A i \in Range(span) :
            /\ IsValu(i) => ~DependsOnAny(anc, i, mfmas)
            /\ IsMfma(i) => ~DependsOnAny(anc, i, valus)

-----------------------------------------------------------------------------
(* The vector operations that will be issued.                              *)

\* code is that of the whole function.
HasOneUse(code, id) ==
    Cardinality({use \in Ids(code) \X (1 .. 3) :
        \E i \in Range(code) : /\ i.id = use[1]
                               /\ use[2] \in DOMAIN i.operands /\ i.operands[use[2]] = id}) = 1

\* computeMax3Folds: the maxima absorbed into a v_maximum3.
Max3Folded(code, span) ==
    LET IsMax(i) == i.op = "maximum"
        maxima   == Ids(Those(span, IsMax))
        Absorb(s, i) ==
            LET Inner(o) == o \in maxima /\ HasOneUse(code, o)
                            /\ o \notin s.folded \cup s.committed
                k == SelectInSeq(i.operands, Inner)
            IN  IF IsMax(i) /\ k > 0
                THEN [folded    |-> s.folded \cup {i.operands[k]},
                      committed |-> s.committed \cup {i.id}]
                ELSE s
    IN  FoldLeft(Absorb, [folded |-> {}, committed |-> {}], span).folded

Issued(code, span) ==
    LET folded == Max3Folded(code, span)
        Issues(i) == IsValu(i) /\ i.id \notin folded
    IN  Those(span, Issues)

\* regionWindowCycles: the shadow of the shortest mfma, 0 if a shape is unknown.
Window(span) ==
    LET cycles == {MfmaCycles[i.op] : i \in Range(Mfmas(span))}
    IN  IF 0 \in cycles THEN 0 ELSE Max({4, Min(cycles) - 8})

-----------------------------------------------------------------------------
(* Bundles: what both paths put between two mfmas.  A bundle has the run   *)
(* it belongs to, 0 for operations that cover no mfma, its cost, and the   *)
(* groups it is declared as.                                               *)

Group(mask, size) == [mask |-> mask, size |-> size]
MfmaGroup == Group("MFMA", 1)
BareMfmas(n) == [k \in 1 .. n |-> MfmaGroup]
Mask(i)   == IF IsTrans(i) THEN "TRANS" ELSE "VALU"

AddChunk(chunks, c) ==
    IF chunks # <<>> /\ Last(chunks).mask = c.mask
    THEN Append(Front(chunks), [Last(chunks) EXCEPT !.size = @ + c.size])
    ELSE Append(chunks, c)

MayJoin(b, c) == b.run = c.run /\ b.run # 0
JoinedBundle(b, c) == [b EXCEPT !.cost = @ + c.cost, !.chunks = FoldLeft(AddChunk, @, c.chunks)]

Excess(n, limit) == Max({0, n - limit})

\* The first of the cheapest adjacent pairs that may be joined is.
Pairs(s)    == {k \in 1 .. Len(s) - 1 : MayJoin(s[k], s[k + 1])}
Cheapest(s) == {k \in Pairs(s) : \A j \in Pairs(s) :
                  s[k].cost + s[k + 1].cost <= s[j].cost + s[j + 1].cost}
JoinAt(s, k) == SubSeq(s, 1, k - 1) \o <<JoinedBundle(s[k], s[k + 1])>>
                \o SubSeq(s, k + 2, Len(s))
MergeOnce(s) == IF Pairs(s) = {} THEN s ELSE JoinAt(s, Min(Cheapest(s)))

\* n times that.
MergeCheapest(bundles, n) ==
    LET Merge(s, step) == MergeOnce(s)
    IN  FoldLeft(Merge, bundles, [step \in 1 .. n |-> step])

-----------------------------------------------------------------------------
(* declareRegionGroups: the work fits into the shadows.                    *)

\* Mutant: every vector operation comes before the transcendentals.
Runs_ValuFirst(ops, anc) ==
    LET Plain(i) == ~IsTrans(i)
        NonEmpty(run) == run # <<>>
    IN  Those(<<Those(ops, Plain), Those(ops, IsTrans)>>, NonEmpty)
\* The blocks of one class, in order of dependency; empty ones are dropped.
Runs(ops, anc) ==
    LET UsesTrans(i) == DependsOnAny(anc, i, Ids(Those(ops, IsTrans)))
        Before(i)    == ~IsTrans(i) /\ ~UsesTrans(i)
        After(i)     == ~IsTrans(i) /\ UsesTrans(i)
        NonEmpty(run) == run # <<>>
    IN  Those(<<Those(ops, Before), Those(ops, IsTrans), Those(ops, After)>>,
                  NonEmpty)

\* Mutant: the last group of a run is forgotten.
PackGroups_NoTail(run, budget) ==
    LET Put(s, i) == IF s.n > 0 /\ s.cur + Cycles(i) > budget
                     THEN [sizes |-> Append(s.sizes, s.n), cur |-> Cycles(i), n |-> 1]
                     ELSE [s EXCEPT !.cur = @ + Cycles(i), !.n = @ + 1]
    IN  FoldLeft(Put, [sizes |-> <<>>, cur |-> 0, n |-> 0], run).sizes
\* Whether the current group is complete without i, and what i does to the groups.
Closes(s, i, budget) ==
    /\ s.n > 0
    /\ \/ s.cur + Cycles(i) > budget
       \/ s.remG > 1 /\ s.cur >= Min({CeilDiv(s.remCyc, s.remG), budget})
PutInGroup(s, i, budget) ==
    IF Closes(s, i, budget)
    THEN [sizes |-> Append(s.sizes, s.n), remCyc |-> s.remCyc - s.cur,
          remG |-> Max({1, s.remG - 1}), cur |-> Cycles(i), n |-> 1]
    ELSE [s EXCEPT !.cur = @ + Cycles(i), !.n = @ + 1]
\* packGroups: the sizes of balanced groups of at most budget cycles.
PackGroups(run, budget) ==
    LET Put(s, i) == PutInGroup(s, i, budget)
        Finish(s) == Append(s.sizes, s.n)
    IN  Finish(FoldLeft(Put, [sizes |-> <<>>, remCyc |-> CyclesOf(run),
                              remG |-> CeilDiv(CyclesOf(run), budget), cur |-> 0, n |-> 0], run))

\* All groups of all runs.
Packed(runs, budget) ==
    LET Of(r, sizes) == [k \in DOMAIN sizes |->
                           [run |-> r, cost |-> sizes[k],
                            chunks |-> <<Group(Mask(runs[r][1]), sizes[k])>>]]
    IN  FlattenSeq([r \in DOMAIN runs |-> Of(r, PackGroups(runs[r], budget))])

MergedGroups(groups, mfmas) == MergeCheapest(groups, Excess(Len(groups), mfmas))

\* An mfma and its group each; mfmas left over come before the last run.
EmitGroups(groups, mfmas) ==
    LET OfLastRun(g) == g.run = Last(groups).run
        first   == SelectInSeq(groups, OfLastRun)
        Emit(k) == (IF k = first THEN BareMfmas(mfmas - Len(groups)) ELSE <<>>)
                   \o <<MfmaGroup>> \o groups[k].chunks
    IN  FlattenSeq([k \in DOMAIN groups |-> Emit(k)])

DeclareFitting(ops, anc, mfmas, window) ==
    EmitGroups(MergedGroups(Packed(Runs(ops, anc), window), mfmas), mfmas)

-----------------------------------------------------------------------------
(* declareRegionGroupsOverCap: the work does not fit.                      *)

IsPacked(i) == i.op = "packed"

Buys(s, i, avail) == IF IsPacked(i) /\ s.spent + Cycles(i) <= avail
                     THEN [ids |-> s.ids \cup {i.id}, spent |-> s.spent + Cycles(i)] ELSE s
\* Which packed operations are bought with avail cycles, from the end.
Bought(ops, avail) ==
    LET Buy(i, s) == Buys(s, i, avail)
    IN  FoldRight(Buy, ops, [ids |-> {}, spent |-> 0]).ids
Covered(i, bought) == IsPacked(i) => i.id \in bought

\* Mutant: the instructions are counted before the split.
Issues_One(i, bought) == 1
\* A covered packed operation is issued once per element.
Issues(i, bought) == IF i.id \in bought THEN Elements ELSE 1

Slot(i, bought) == [run    |-> IF Covered(i, bought) THEN 1 ELSE 0,
                    cost   |-> Cycles(i),
                    chunks |-> <<Group(Mask(i), Issues(i, bought))>>]
PutInSlot(slots, s, window) ==
    IF /\ slots # <<>>
       /\ Last(slots).run = s.run
       /\ s.run = 1 => Last(slots).cost + s.cost <= window
    THEN Append(Front(slots), JoinedBundle(Last(slots), s))
    ELSE Append(slots, s)
\* The layout: windows of covered operations and slots of uncovered ones.
Slots(ops, bought, window) ==
    LET Put(slots, i) == PutInSlot(slots, Slot(i, bought), window)
    IN  FoldLeft(Put, <<>>, ops)

Windows(slots) == Quantify(DOMAIN slots, LAMBDA k : slots[k].run = 1)

WindowsFor(ops, avail, window) == Windows(Slots(ops, Bought(ops, avail), window))

\* The budget of the packed operations: windows left over are spent, in at most
\* four rounds, as long as the layout fits.
Budget(ops, mfmas, window) ==
    LET Fixed(i) == ~IsPacked(i)
        start    == window * mfmas - CyclesOf(Those(ops, Fixed))
        Tried(s, grown, windows) ==
            IF windows > mfmas THEN [s EXCEPT !.done = TRUE]
            ELSE [avail |-> grown, windows |-> windows, done |-> windows = s.windows]
        Try(s, grown) == Tried(s, grown, WindowsFor(ops, grown, window))
        Round(s, k) == IF s.done \/ s.windows >= mfmas THEN s
                       ELSE Try(s, s.avail + (mfmas - s.windows) * window)
    IN  FoldLeft(Round, [avail |-> start, windows |-> WindowsFor(ops, start, window),
                         done |-> FALSE], <<1, 2, 3, 4>>).avail

OverCapBought(ops, mfmas, window) == Bought(ops, Budget(ops, mfmas, window))

MergedSlots(slots, mfmas) == MergeCheapest(slots, Excess(Windows(slots), mfmas))

\* Mfmas left over come before the last slot.
EmitSlots(slots, mfmas) ==
    LET Emit(k) == (IF k = Len(slots) THEN BareMfmas(mfmas - Windows(slots)) ELSE <<>>)
                   \o (IF slots[k].run = 1 THEN <<MfmaGroup>> ELSE <<>>)
                   \o slots[k].chunks
    IN  FlattenSeq([k \in DOMAIN slots |-> Emit(k)])

DeclareOverCap(ops, bought, mfmas, window) ==
    EmitSlots(MergedSlots(Slots(ops, bought, window), mfmas), mfmas)

-----------------------------------------------------------------------------
(* Both paths: the packed operations to scalarize, and the pipeline.       *)

\* The spans for which a pipeline is declared.
Declares(code, span) ==
    /\ IsCoExec(span) /\ Independent(span)
    /\ Issued(code, span) # <<>> /\ Len(Mfmas(span)) >= 2 /\ Window(span) > 0

\* The packed operations to scalarize and the pipeline, from the operations to
\* be issued.
Decide(ops, anc, mfmas, window) ==
    LET OverCap(bought) ==
            [split |-> bought, pipeline |-> DeclareOverCap(ops, bought, mfmas, window)]
    IN  IF CyclesOf(ops) > window * mfmas
        THEN OverCap(OverCapBought(ops, mfmas, window))
        ELSE [split |-> {}, pipeline |-> DeclareFitting(ops, anc, mfmas, window)]
DeclareRegionGroups(code, span) ==
    Decide(Issued(code, span), Ancestors(span), Len(Mfmas(span)), Window(span))
=============================================================================
