------------------------------ MODULE Peephole ------------------------------
(***************************************************************************)
(* amdgcn_as (plugins/amdgcnas/amdgcnas_ext.py) on one kernel: licm moves  *)
(* loop-invariant instructions into the prologue, renaming the register of *)
(* one that is written again in the loop, eliminate_save_restore drops mov *)
(* pairs, and the passes of HotLoop rearrange the loop.                    *)
(***************************************************************************)
EXTENDS HotLoop

CONSTANT Programs   \* the kernels, as [prologue, loop, epilogue]

VARIABLES source,       \* the text handed to the plugin
          code,         \* the text as rewritten so far
          pass,         \* what runs next
          invariants,   \* find_loop_invariants: [regs, insts]
          decided,      \* the invariant instructions hoist_loop_invariants is past
          keptDefs,     \* kept_defs
          hoistable,    \* hoistable
          freeRegs      \* free_regs of the loop

vars == <<source, code, pass, invariants, decided, keptDefs, hoistable, freeRegs>>

Loop == code.loop
At(id) == CHOOSE k \in DOMAIN Loop : Loop[k].id = id

Init ==
    /\ source \in Programs
    /\ code = source
    /\ pass = "invariants"
    \* Step 1 of find_loop_invariants: the registers the loop only reads.
    /\ invariants = [regs |-> UNION {i.uses : i \in Range(Loop)} \ Defs(Loop), insts |-> {}]
    /\ decided = {} /\ keptDefs = {} /\ hoistable = {}
    /\ freeRegs = FreeRegs(code)

-----------------------------------------------------------------------------
(* find_loop_invariants.                                                   *)

\* Instructions without registers and writes of m0 are passed over.
Candidates == SelectSeq(Loop, LAMBDA i : IsPure(i) /\ i.op \notin NoDefOps)

\* Mutant: instructions already found are looked at again.
Visit_Again(found, i) ==
    CASE i.op = "cndmask"       -> [found EXCEPT !.regs = @ \ {Dst(i)}]
      [] i.uses \subseteq found.regs ->
            [regs |-> found.regs \cup i.defs, insts |-> found.insts \cup {i.id},
             changed |-> found.changed \/ ~(i.defs \subseteq found.regs)]
      [] OTHER -> [found EXCEPT !.regs = @ \ i.defs]

Visit(found, i) ==
    CASE i.id \in found.insts -> found
      [] i.op = "cndmask"       -> [found EXCEPT !.regs = @ \ {Dst(i)}]
      [] i.uses \subseteq found.regs ->
            [regs |-> found.regs \cup i.defs, insts |-> found.insts \cup {i.id},
             changed |-> found.changed \/ ~(i.defs \subseteq found.regs)]
      [] OTHER -> [found EXCEPT !.regs = @ \ i.defs]

\* One round of its while loop.
FindInvariants ==
    /\ pass = "invariants"
    /\ LET found == FoldLeft(Visit, [regs |-> invariants.regs, insts |-> invariants.insts,
                                     changed |-> FALSE], Candidates)
       IN  /\ invariants' = [regs |-> found.regs, insts |-> found.insts]
           /\ pass' = IF found.changed THEN "invariants" ELSE "hoist"
    /\ UNCHANGED <<source, code, decided, keptDefs, hoistable, freeRegs>>

-----------------------------------------------------------------------------
(* can_hoist, for the instruction at position k of the loop.               *)

DefIndices(r) == {j \in DOMAIN Loop : r \in Loop[j].defs}

\* The last definition of its register reaches a use above the first one.
CarriedToTheTop(k) ==
    /\ k = Max(DefIndices(Dst(Loop[k])))
    /\ \E j \in 1 .. Min(DefIndices(Dst(Loop[k]))) - 1 : Dst(Loop[k]) \in Loop[j].uses

Redefined(k) == DefIndices(Dst(Loop[k])) # {k}

\* The registers a renamed instruction may take.
Pool(i) ==
    IF Users(code, i.id) \subseteq {j.id : j \in Range(Loop)}
    THEN freeRegs ELSE freeRegs \ RegsOutsideLoop(code)

CanHoist(k) ==
    /\ IsPure(Loop[k]) /\ Loop[k].op # "mfma"
    /\ Dst(Loop[k]) \in Loop[k].defs
    /\ ~CarriedToTheTop(k)
    /\ Redefined(k) => Pool(Loop[k]) # {}

\* replace_use_reg spares the first operand, replace_reg changes one only.
RenameUses(i, old, new) ==
    IF i.defs # {}
    THEN [i EXCEPT !.operands =
             [k \in DOMAIN @ |-> IF k > 1 /\ @[k] = old THEN new ELSE @[k]]]
    ELSE LET first == Min({k \in DOMAIN i.operands : i.operands[k] = old})
         IN  [i EXCEPT !.operands[first] = new]

\* replace_users_with, then replace_reg on the instruction itself.
Renamed(block, d, users, new) ==
    [k \in DOMAIN block |->
        CASE block[k].id = d.id      -> [block[k] EXCEPT !.operands[1] = new]
          [] block[k].id \in users   -> RenameUses(block[k], Dst(d), new)
          [] OTHER                   -> block[k]]

-----------------------------------------------------------------------------
(* hoist_loop_invariants and the rest of licm.                             *)

\* Mutant: a reader of a definition that stays may be hoisted.
ReadsKept_Never(k) == FALSE
ReadsKept(k) == Loop[k].uses \cap keptDefs # {}

\* The next invariant instruction in the order of the loop.
Deciding(k) ==
    /\ pass = "hoist"
    /\ invariants.insts # decided
    /\ k = Min({At(id) : id \in invariants.insts \ decided})

Keep(k) ==
    /\ Deciding(k)
    /\ ReadsKept(k) \/ ~CanHoist(k)
    /\ keptDefs' = keptDefs \cup Loop[k].defs
    /\ decided' = decided \cup {Loop[k].id}
    /\ UNCHANGED <<source, code, pass, invariants, hoistable, freeRegs>>

Hoist(k) ==
    /\ Deciding(k)
    /\ ~ReadsKept(k) /\ CanHoist(k)
    /\ IF Redefined(k)
       THEN LET new == Min(Pool(Loop[k])) IN   \* pick_and_remove_contiguous_regs
            /\ code' = [b \in DOMAIN code |->
                           Renamed(code[b], Loop[k], Users(code, Loop[k].id), new)]
            /\ freeRegs' = freeRegs \ {new}
       ELSE UNCHANGED <<code, freeRegs>>
    /\ hoistable' = hoistable \cup {Loop[k].id}
    /\ decided' = decided \cup {Loop[k].id}
    /\ UNCHANGED <<source, pass, invariants, keptDefs>>

\* Mutant: the hoisted instructions stay in the loop as well.
Move_Copies ==
    /\ pass = "hoist" /\ invariants.insts = decided
    /\ LET Hoisted(i) == i.id \in hoistable
       IN  code' = [prologue |-> AnalysedAll(code.prologue \o SelectSeq(Loop, Hoisted)),
                    loop     |-> AnalysedAll(Loop),
                    epilogue |-> AnalysedAll(code.epilogue)]
    /\ pass' = "copies"
    /\ freeRegs' = FreeRegs(code')
    /\ UNCHANGED <<source, invariants, decided, keptDefs, hoistable>>

\* licm appends the hoisted instructions to the prologue, and update_free_regs
\* analyses all blocks again.
Move ==
    /\ pass = "hoist" /\ invariants.insts = decided
    /\ LET Hoisted(i) == i.id \in hoistable
           Stays(i)   == i.id \notin hoistable
       IN  code' = [prologue |-> AnalysedAll(code.prologue \o SelectSeq(Loop, Hoisted)),
                    loop     |-> AnalysedAll(SelectSeq(Loop, Stays)),
                    epilogue |-> AnalysedAll(code.epilogue)]
    /\ pass' = "copies"
    /\ freeRegs' = FreeRegs(code')
    /\ UNCHANGED <<source, invariants, decided, keptDefs, hoistable>>

-----------------------------------------------------------------------------
(* eliminate_save_restore: mov tmp, orig; op orig, tmp; ...; mov orig, tmp *)

IsMov(i, to, from) == i.op = "mov" /\ i.operands = <<to, from>>

\* s saves orig in tmp, m is the first instruction after it that defines either
\* and it updates orig from tmp, r is the first restore that no definition of
\* tmp precedes, and nothing else between s and r reads tmp.
SaveRestore(block, s, m, r) ==
    LET tmp  == block[s].operands[1]
        orig == block[s].operands[2]
    IN  /\ block[s].op = "mov" /\ s < m /\ m < r
        /\ orig \in block[m].defs /\ tmp \in block[m].uses
        /\ \A j \in s + 1 .. m - 1 : block[j].defs \cap {tmp, orig} = {}
        /\ IsMov(block[r], orig, tmp)
        /\ \A j \in m + 1 .. r - 1 : tmp \notin block[j].defs /\ ~IsMov(block[j], orig, tmp)
        /\ \A j \in s + 1 .. r - 1 : j # m => tmp \notin block[j].uses

\* replace_use_reg
ReplaceUses(i, old, new) ==
    [i EXCEPT !.operands = [k \in DOMAIN @ |-> IF k > 1 /\ @[k] = old THEN new ELSE @[k]]]

\* Mutant: the readers of the updated register are forgotten.
Rewritten_ModifyOnly(s, m, r, j) ==
    LET tmp  == Loop[s].operands[1]
        orig == Loop[s].operands[2]
    IN  IF j = m THEN ReplaceUses([Loop[m] EXCEPT !.operands[1] = tmp], tmp, orig)
                 ELSE Loop[j]

Rewritten(s, m, r, j) ==
    LET tmp  == Loop[s].operands[1]
        orig == Loop[s].operands[2]
    IN  CASE j = m -> ReplaceUses([Loop[m] EXCEPT !.operands[1] = tmp], tmp, orig)
          [] m < j /\ j < r /\ orig \in Loop[j].uses -> ReplaceUses(Loop[j], orig, tmp)
          [] OTHER -> Loop[j]

Saves == {s \in DOMAIN Loop : Loop[s].op = "mov" /\ \E m, r \in DOMAIN Loop : SaveRestore(Loop, s, m, r)}

Dead(i) == Analysed([i EXCEPT !.op = "dead", !.operands = <<>>])

\* The first pattern in the text.
EliminateSaveRestore ==
    /\ pass = "copies"
    /\ Saves # {}
    /\ \E m, r \in DOMAIN Loop :
          /\ SaveRestore(Loop, Min(Saves), m, r)
          /\ LET all == [j \in DOMAIN Loop |-> Rewritten(Min(Saves), m, r, j)]
             IN  code' = [code EXCEPT !.loop = [all EXCEPT ![Min(Saves)] = Dead(@), ![r] = Dead(@)]]
    /\ UNCHANGED <<source, pass, invariants, decided, keptDefs, hoistable, freeRegs>>

-----------------------------------------------------------------------------
(* The rest of step 6, and step 8.                                         *)

\* optimize_nops and optimize_buffer_load_m0.
OptimizeNops ==
    /\ pass = "copies"
    /\ Saves = {}
    /\ \E loop \in {WithoutNops(Loop)} : code' = [code EXCEPT !.loop = MfmasBeforeLoads(loop)]
    /\ pass' = "schedule"
    /\ freeRegs' = FreeRegs(code')
    /\ UNCHANGED <<source, invariants, decided, keptDefs, hoistable>>

\* rotate_lgkmcnt, separate_waitcnt_and_barrier and optimize_mfma_density.
Schedule ==
    /\ pass = "schedule"
    /\ \E rotated \in {Rotated(code)} : \E loop \in {Separated(rotated.loop)} :
          code' = [rotated EXCEPT !.loop = Densified(loop)]
    /\ pass' = "done"
    /\ UNCHANGED <<source, invariants, decided, keptDefs, hoistable, freeRegs>>

-----------------------------------------------------------------------------
\* The steps up to the last pass that looks at registers.
Rewrite ==
    \/ FindInvariants
    \/ \E k \in DOMAIN Loop : Keep(k) \/ Hoist(k)
    \/ Move \/ EliminateSaveRestore

Next == Rewrite \/ OptimizeNops \/ Schedule

\* amdgcn_as is a function: it runs until it returns.  Only the steps that
\* repeat could keep it from doing so.
Spec == Init /\ [][Next]_vars /\ WF_vars(Rewrite)

-----------------------------------------------------------------------------
\* Every block is a sequence of instructions, none but a wait or a barrier stands
\* in two blocks, and the bookkeeping speaks of registers and of the instructions
\* of the kernel.
TypeOK ==
    /\ DOMAIN code = {"prologue", "loop", "epilogue"}
    /\ \A b \in DOMAIN code : \A i \in Range(code[b]) :
          /\ i.op \in Mnemonics
          /\ Range(i.operands) \subseteq Regs
          /\ i.defs \subseteq Regs /\ i.uses \subseteq Regs
    /\ \A b, c \in DOMAIN code :
          b # c => \A i \in Range(code[b]), j \in Range(code[c]) : i.op \in NoDefOps \/ i.id # j.id
    /\ pass \in {"invariants", "hoist", "copies", "schedule", "done"}
    /\ invariants.regs \cup keptDefs \cup freeRegs \subseteq Regs
    /\ decided \subseteq invariants.insts /\ hoistable \subseteq decided
    /\ invariants.insts \subseteq {i.id : i \in Range(source.loop)}

\* The kernel the plugin returns makes the same memory accesses with the same
\* operands as the one the compiler emitted (amdgcnas_ext.py:1326 licm,
\* :861 eliminate_save_restore, :1477 schedule_window).
KeepsMemoryAccesses == pass = "done" => \A n \in Trips : Run(code, n).memory = Run(source, n).memory

\* A kernel that waits for all it uses still does: moving the waits, barriers
\* and m0 writes (amdgcnas_ext.py:975, :1009, :1358, :1458, :1477) neither lets
\* an mfma read a register that LDS has yet to fill, nor a warp read or refill
\* a slot of LDS that is not complete or still read by another.
StaysSynchronised == pass = "done" => \A n \in Trips : Run(source, n).safe => Run(code, n).safe

\* The while loops at amdgcnas_ext.py:1050 and :875 end: nothing more is found to
\* be invariant, and no mov pair is left.
Termination == <>(pass = "copies" /\ Saves = {})
=============================================================================
