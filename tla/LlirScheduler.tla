--------------------------- MODULE LlirScheduler ---------------------------
(***************************************************************************)
(* runLLIRSchedulePass (plugins/llir_scheduler/LlirSchedPlugin.cpp) on one *)
(* function: block by block and span by span between scheduling barriers   *)
(* it declares the pipelines of CoExec, has the function verified after    *)
(* every block, rolls the block back if that fails, and in the end delays  *)
(* the memory stages, which may be rolled back too.                        *)
(***************************************************************************)
EXTENDS CoExec

CONSTANT Sources  \* the functions: [blocks, rejects, rejectsNops]; a block is the
                  \* sequence of its spans, rejects are the blocks whose schedule
                  \* verifyFunction refuses

\* An id is <<n, piece>>: instruction n of the source is piece 0, what it is split
\* into are pieces 1 .. Elements and Glue, and the nops behind it are negative.
Glue == Elements + 1
Inserted(i) == i.id[2] < 0

IsInstruction(i) == /\ i = [id |-> <<i.id[1], 0>>, op |-> i.op, operands |-> i.operands]
                    /\ IsSequence(i.operands)

\* Where the instructions of a function stand: in which block, span and place.
Places(code) == UNION {UNION {{<<k, n, p>> : p \in DOMAIN code[k][n]} : n \in DOMAIN code[k]} :
                          k \in DOMAIN code}
At(code, x)  == code[x[1]][x[2]][x[3]]
AllIds(code) == {At(code, x).id : x \in Places(code)}
\* Ids are ids: no two instructions have the same one.
Distinct(code) == \A x, y \in Places(code) : At(code, x).id = At(code, y).id => x = y
\* No instruction uses one that is not there.
Closed(code) == \A x \in Places(code) : Range(At(code, x).operands) \subseteq AllIds(code)

ASSUME SourcesAssumption ==
    \A f \in Sources :
        /\ IsSequence(f.blocks) /\ f.blocks # <<>>
        /\ \A b \in Range(f.blocks) : IsSequence(b) /\ \A s \in Range(b) : IsSequence(s)
        /\ \A x \in Places(f.blocks) : IsInstruction(At(f.blocks, x))
        /\ Distinct(f.blocks) /\ Closed(f.blocks)

\* What holds no packed operation can be rolled back: an instruction that has been
\* split is gone (RestoreBlock).
RefusedUnpacked ==
    \A f \in Sources : \A k \in f.rejects \cap DOMAIN f.blocks : \A n \in DOMAIN f.blocks[k] :
        \A p \in DOMAIN f.blocks[k][n] : f.blocks[k][n][p].op # "packed"

VARIABLES source,     \* the function handed to the pass
          blocks,     \* its blocks as they are now, a span as [code, groups]
          block,      \* BB
          span,       \* which of Spans comes next
          snapshot,   \* Snapshot of the block
          syncID, syncBefore,   \* SyncID, SyncBefore
          scheduled, blockScheduled,  \* Scheduled, BlockScheduled
          pc

vars == <<source, blocks, block, span, snapshot, syncID, syncBefore,
          scheduled, blockScheduled, pc>>

\* A span is code that ends with its scheduling barrier, the last one of a block
\* with the terminator, and the sched_group_barriers inserted in front of that.
Bare(code) == [code |-> code, groups |-> <<>>]
Code(b)    == FlattenSeq([n \in DOMAIN b |-> b[n].code])
Flat       == FlattenSeq([k \in DOMAIN blocks |-> Code(blocks[k])])

\* What a block is after a pointer to a freed instruction has been used.
Corrupt == <<Bare(<<[id |-> <<0, 0>>, op |-> "freed", operands |-> <<>>]>>)>>

IsBarrier(i) == i.op = "s.barrier"

\* hasSchedBarrier: a function without such barriers is left alone.
Init ==
    /\ source \in Sources
    /\ blocks = [k \in DOMAIN source.blocks |->
                    [n \in DOMAIN source.blocks[k] |-> Bare(source.blocks[k][n])]]
    /\ block = 1 /\ span = 1
    /\ snapshot = blocks[1]
    /\ syncID = 1 /\ syncBefore = 1
    /\ scheduled = 0 /\ blockScheduled = 0
    /\ pc = IF \E b \in Range(blocks) : Len(b) > 1 THEN "spans" ELSE "done"

-----------------------------------------------------------------------------
(* What a declaration does to the function.                                *)

\* scalarizePackedFP: one operation per element, and a glue that joins them and
\* takes over the uses of the operation.
Part(i, e)  == [id |-> <<i.id[1], e>>, op |-> "sub", operands |-> i.operands]
Joined(i)   == [id |-> <<i.id[1], Glue>>, op |-> "glue",
                operands |-> [e \in 1 .. Elements |-> <<i.id[1], e>>]]
Pieces(i, split) == IF i.id \in split
                    THEN [e \in 1 .. Glue |-> IF e = Glue THEN Joined(i) ELSE Part(i, e)]
                    ELSE <<i>>
\* Mutant: the uses of a packed operation are not replaced.
Scalarized_KeepUses(s, split) == FlattenSeq([k \in DOMAIN s |-> Pieces(s[k], split)])
NewId(o, split)   == IF o \in split THEN <<o[1], Glue>> ELSE o
Renamed(i, split) == [id |-> i.id, op |-> i.op,
                      operands |-> [k \in DOMAIN i.operands |-> NewId(i.operands[k], split)]]
Scalarized(s, split) == FlattenSeq([k \in DOMAIN s |-> Pieces(Renamed(s[k], split), split)])

\* A sched_group_barrier per entry of the pipeline.
GroupBarrier(g, sync) == [mask |-> g.mask, size |-> g.size, sync |-> sync]
WithPipeline(s, pipeline, sync) ==
    [s EXCEPT !.groups = [k \in DOMAIN pipeline |-> GroupBarrier(pipeline[k], sync)]]

\* Mutant: every span gets the same id.
NextSync_Same(s, id) == id
\* ++SyncID in declareCoExecRegion: also for a span that declareRegionGroups turns down.
NextSync(s, id) == IF IsCoExec(s) /\ Independent(s) THEN id + 1 ELSE id

\* The uses of a split operation are replaced in the whole function.
WithDeclaration(d, sync) ==
    [k \in DOMAIN blocks |-> [n \in DOMAIN blocks[k] |->
        LET split == [blocks[k][n] EXCEPT !.code = Scalarized(@, d.split)]
        IN  IF <<k, n>> = <<block, span>> THEN WithPipeline(split, d.pipeline, sync) ELSE split]]

Declare ==
    /\ pc = "spans" /\ span <= Len(blocks[block])
    /\ LET s == blocks[block][span].code
       IN  /\ syncID' = NextSync(s, syncID)
           /\ IF Declares(Flat, s)
              THEN /\ blocks' = WithDeclaration(DeclareRegionGroups(Flat, s), syncID')
                   /\ blockScheduled' = blockScheduled + 1
              ELSE UNCHANGED <<blocks, blockScheduled>>
    /\ span' = span + 1
    /\ UNCHANGED <<source, block, snapshot, syncBefore, scheduled, pc>>

\* The ids of a block.
Held(b) == UNION {Ids(s.code) : s \in Range(b)}
\* Mutant: the inserted instructions stay.
RestoreBlock_KeepInserted(b, saved) == b
\* restoreBlock: what was inserted goes, and the rest is put back in order; an
\* instruction that scalarizing has erased is only a dangling pointer.
RestoreBlock(b, saved) ==
    LET Now(i) == CHOOSE j \in Range(Code(b)) : j.id = i.id
    IN  IF Held(saved) \subseteq Held(b)
        THEN [n \in DOMAIN saved |->
                 [saved[n] EXCEPT !.code = [k \in DOMAIN @ |-> Now(@[k])]]]
        ELSE Corrupt

\* Mutant: the snapshot is taken once.
SnapshotOf_First(k) == [n \in DOMAIN source.blocks[1] |-> Bare(source.blocks[1][n])]
SnapshotOf(k) == blocks[k]

EndOfBlock ==
    /\ span' = 1 /\ blockScheduled' = 0
    /\ IF block < Len(blocks)
       THEN /\ block' = block + 1
            /\ snapshot' = SnapshotOf(block + 1)
            /\ UNCHANGED pc
       ELSE /\ pc' = IF scheduled' > 0 THEN "nops" ELSE "done"
            /\ UNCHANGED <<block, snapshot>>
    /\ UNCHANGED source

Rejected == blockScheduled > 0 /\ block \in source.rejects

\* Mutant: the spans of a block that is rolled back are counted.
Counted_RolledBack == scheduled + blockScheduled
Counted == IF Rejected THEN scheduled ELSE scheduled + blockScheduled

Keep ==
    /\ pc = "spans" /\ span > Len(blocks[block]) /\ ~Rejected
    /\ scheduled' = Counted
    /\ syncBefore' = syncID
    /\ UNCHANGED <<blocks, syncID>>
    /\ EndOfBlock

RollBack ==
    /\ pc = "spans" /\ span > Len(blocks[block]) /\ Rejected
    /\ blocks' = [blocks EXCEPT ![block] = RestoreBlock(@, snapshot)]
    /\ syncID' = syncBefore
    /\ scheduled' = Counted
    /\ UNCHANGED syncBefore
    /\ EndOfBlock
-----------------------------------------------------------------------------
(* insertMemRegionNops: two s_nop 7 behind every barrier that is followed, *)
(* up to the next one and across blocks, by memory and no mfma.            *)

DefaultMemNops == 2

\* The code of b behind the barrier id, up to the next barrier.
StageIn(b, id) ==
    LET at   == CHOOSE k \in DOMAIN b : b[k].id = id
        next == {k \in at + 1 .. Len(b) : IsBarrier(b[k])}
    IN  SubSeq(b, at + 1, IF next = {} THEN Len(b) ELSE Min(next) - 1)
MemStage(i) == LET stage == StageIn(Flat, i.id)
               IN  IsBarrier(i) /\ Some(stage, IsMem) /\ ~Some(stage, IsMfma)

Paced(s) ==
    LET Nop(i, k) == [id |-> <<i.id[1], -k>>, op |-> "s.nop", operands |-> <<>>]
        Behind(i) == IF MemStage(i) THEN <<i>> \o [k \in 1 .. DefaultMemNops |-> Nop(i, k)] ELSE <<i>>
    IN  FlattenSeq([k \in DOMAIN s |-> Behind(s[k])])

InsertNops ==
    /\ pc = "nops"
    /\ LET paced == [k \in DOMAIN blocks |-> [n \in DOMAIN blocks[k] |->
                        [blocks[k][n] EXCEPT !.code = Paced(@)]]]
       IN  blocks' = IF source.rejectsNops
                     THEN [k \in DOMAIN blocks |-> RestoreBlock(paced[k], blocks[k])]
                     ELSE paced
    /\ pc' = "done"
    /\ UNCHANGED <<source, block, span, snapshot, syncID, syncBefore, scheduled, blockScheduled>>

Next == Declare \/ Keep \/ RollBack \/ InsertNops

Spec == Init /\ [][Next]_vars

-----------------------------------------------------------------------------
(* Properties.                                                             *)

\* The code of the function.
AllCode == [k \in DOMAIN blocks |-> [n \in DOMAIN blocks[k] |-> blocks[k][n].code]]

\* Every variable stays in its range; an id is used at most once in the
\* function.
TypeOK ==
    /\ pc \in {"spans", "nops", "done"}
    /\ block \in DOMAIN blocks /\ span \in 1 .. Len(blocks[block]) + 1
    /\ DOMAIN blocks = DOMAIN source.blocks
    /\ syncBefore \in 1 .. syncID
    /\ scheduled + blockScheduled < syncID
    /\ Distinct(AllCode)

\* i is the instruction s of the source or, if that is packed, a piece of it.
StemsFrom(i, s) ==
    \/ i.id = s.id /\ i.op = s.op
    \/ /\ s.op = "packed" /\ i.id[1] = s.id[1]
       /\ \/ i.id[2] \in 1 .. Elements /\ i.op = "sub"
          \/ i.id[2] = Glue /\ i.op = "glue"
Own(code)         == {p \in DOMAIN code : ~Inserted(code[p])}
Stem(i, src)      == CHOOSE a \in DOMAIN src : src[a].id[1] = i.id[1]
PiecesOf(code, s) == {code[p].id[2] : p \in {p \in Own(code) : code[p].id[1] = s.id[1]}}
InOrder(i, j, src) == \/ Stem(i, src) < Stem(j, src)
                      \/ i.id[1] = j.id[1] /\ i.id[2] < j.id[2]

\* Apart from what is inserted, code holds the instructions of src in their order,
\* each as it was or in all its pieces.
SameWork(code, src) ==
    /\ \A p \in Own(code) : \E a \in DOMAIN src : StemsFrom(code[p], src[a])
    /\ \A a \in DOMAIN src : PiecesOf(code, src[a]) \in {{0}, 1 .. Glue}
    /\ \A p, q \in Own(code) : p < q => InOrder(code[p], code[q], src)

\* The pass adds hints and splits packed operations; apart from that every span
\* holds the instructions it had, in their order, whatever was rolled back.
OnlyHints ==
    \A k \in DOMAIN blocks :
        /\ DOMAIN blocks[k] = DOMAIN source.blocks[k]
        /\ \A n \in DOMAIN blocks[k] : SameWork(blocks[k][n].code, source.blocks[k][n])

\* i uses what s does, or what that has been joined from; a glue uses the parts.
SameUses(i, s) ==
    IF i.id[2] = Glue THEN Range(i.operands) = {<<i.id[1], e>> : e \in 1 .. Elements}
    ELSE /\ DOMAIN i.operands = DOMAIN s.operands
         /\ \A k \in DOMAIN s.operands : i.operands[k] \in {s.operands[k], <<s.operands[k][1], Glue>>}
\* No instruction uses one that is gone, and each uses the values it did.
KeepsUses ==
    /\ Closed(AllCode)
    /\ \A x \in Places(AllCode), y \in Places(source.blocks) :
          LET i == At(AllCode, x)
              s == At(source.blocks, y)
          IN  ~Inserted(i) /\ i.id[1] = s.id[1] => SameUses(i, s)

SyncIDs(s) == {g.sync : g \in Range(s.groups)}
Declared   == {p \in UNION {{k} \X DOMAIN blocks[k] : k \in DOMAIN blocks} :
                   SyncIDs(blocks[p[1]][p[2]]) # {}}

\* IGroupLP solves the groups of one sync id together: every declared span has an
\* id of its own, also when ids are taken back with a block.
SyncIdsIdentifySpans ==
    \A p, q \in Declared : \A x \in SyncIDs(blocks[p[1]][p[2]]), y \in SyncIDs(blocks[q[1]][q[2]]) :
        x = y <=> p = q

\* The spans that carry a pipeline in the end are those the pass has counted; with
\* none it reports that nothing has changed.
CountsDeclaredSpans == pc # "spans" => Cardinality(Declared) = scheduled

\* How many operations of a class there are among ops, and in the groups.
Number(ops, mask)   == Total([k \in DOMAIN ops |-> IF IsValu(ops[k]) /\ Mask(ops[k]) = mask THEN 1 ELSE 0])
Sizes(groups, mask) == Total([k \in DOMAIN groups |-> IF groups[k].mask = mask THEN groups[k].size ELSE 0])
\* The groups of a pipeline hold just the operations that the span will issue: none
\* is left out, and none declared twice, when runs are packed, windows laid out and
\* merged, and packed operations split.
PipelinesComplete ==
    pc = "spans" /\ span <= Len(blocks[block]) =>
        LET s == blocks[block][span].code
            d == DeclareRegionGroups(Flat, s)
            work == Scalarized(Issued(Flat, s), d.split)
        IN  Declares(Flat, s) => \A mask \in {"VALU", "TRANS"} : Sizes(d.pipeline, mask) = Number(work, mask)

\* The instruction scheduler fills the groups of one span in order: after each
\* group, the sets of operations that may have been placed, every one after the
\* operations of the span it depends on.
Ops(s) == Range(Issued(Flat, s)) \cup Range(Mfmas(s))
Placements(s, groups) ==
    LET anc      == Ancestors(s)
        ops      == {i.id : i \in Ops(s)}
        needs    == [id \in ops |-> anc[id] \cap ops]
        Of(mask) == {i.id : i \in {i \in Ops(s) : mask = IF IsMfma(i) THEN "MFMA" ELSE Mask(i)}}
        Fill(placed, g) == {placed \cup q : q \in
            {q \in kSubset(g.size, Of(g.mask) \ placed) :
                \A id \in q : needs[id] \subseteq placed \cup q}}
        Place(all, g) == UNION {Fill(placed, g) : placed \in all}
    IN  FoldLeft(Place, {{}}, groups)

\* Every declared pipeline can be built: with every operation and every mfma of
\* the span in one of its groups.  The comments in declareRegionGroups say so of
\* the three blocks it orders by dependency, and those in
\* declareRegionGroupsOverCap of program order.
Satisfiable ==
    pc = "done" => \A p \in Declared :
        LET s == blocks[p[1]][p[2]]
        IN  {i.id : i \in Ops(s.code)} \in Placements(s.code, s.groups)
=============================================================================
