------------------------------ MODULE Assembly ------------------------------
(***************************************************************************)
(* The assembly text amdgcnas works on: instructions with the registers    *)
(* the plugin believes they define and use, the three blocks around the    *)
(* hot loop, and what the instructions really do.  The plugin's analysis   *)
(* and the real effect are kept apart because they differ.                 *)
(*                                                                         *)
(* A register is one number.  The kinds v, s and a are not told apart, nor *)
(* are register ranges.                                                    *)
(***************************************************************************)
EXTENDS Integers, FiniteSetsExt, SequencesExt, Functions

CONSTANTS Regs,     \* ALL_REGS
          Trips     \* the trip counts of the loop that the properties look at

ASSUME RegsAssumption  == Regs \subseteq Nat /\ IsFiniteSet(Regs)
ASSUME TripsAssumption == Trips \subseteq Nat \ {0} /\ IsFiniteSet(Trips)

\* s_waitcnt with lgkmcnt(0), with vmcnt(0), and with both.
LgkmWaits == {"wait_lgkm", "wait_all"}
VmWaits   == {"wait_vm", "wait_all"}
Waits     == LgkmWaits \cup VmWaits

\* NO_DEF_OPS and what else defines no register: set_m0 is an s_mov_b32 to m0,
\* and dead stands for an instruction marked dead.
NoDefOps == Waits \cup {"s_nop", "s_barrier", "set_m0", "dead"}

Mnemonics == {"const", "mov", "alu", "mfma", "cndmask", "s_cmp", "ds_read", "ds_write", "buffer_load"} \cup NoDefOps

\* is_memory, is_cmp, is_pure.  A const is any instruction with no register
\* source, a mov copies its source, and an alu stands for all other arithmetic.
\* An s_cmp stands for the comparison and the s_cselect that puts its outcome in
\* vcc, which the plugin passes over because it names no register.  A
\* buffer_load is one to LDS; its place there is in m0.
IsMemory(i) == i.op \in {"ds_read", "ds_write", "buffer_load"}
IsPure(i)   == ~IsMemory(i) /\ i.op # "s_cmp"
IsMfma(i)   == i.op = "mfma"

\* compute_def_use.  Every operand of ALL_USERS is a use; of any other
\* instruction the first operand is the definition.  vcc is no register to the
\* parser, so a cndmask does not use it.
AllUsers == {"s_cmp", "ds_write", "buffer_load"}
DefsOf(i) == IF i.op \in AllUsers \cup NoDefOps THEN {} ELSE {i.operands[1]}
UsesOf(i) == IF i.op \in AllUsers \cup NoDefOps THEN Range(i.operands) ELSE Range(Tail(i.operands))

\* defs and uses are computed by update_free_regs and stay as they are while a
\* pass rewrites the operands.
Analysed(i)   == [i EXCEPT !.defs = DefsOf(i), !.uses = UsesOf(i)]
AnalysedAll(block) == [k \in DOMAIN block |-> Analysed(block[k])]
Instruction(id, op, operands) ==
    Analysed([id |-> id, op |-> op, operands |-> operands, defs |-> {}, uses |-> {}])

Dst(i) == i.operands[1]

-----------------------------------------------------------------------------
(* Blocks: compute_bb_def_use, and compute_liveness on the chain prologue, *)
(* loop, epilogue, where the loop is its own successor.                    *)

Defs(block) == UNION {i.defs : i \in Range(block)}
Uses(block) == {r \in Regs : \E k \in DOMAIN block :
                   r \in block[k].uses /\ \A j \in 1 .. k - 1 : r \notin block[j].defs}

\* update_free_regs: ALL_REGS - bb_uses - live_through, for the loop.
FreeRegs(code) ==
    Regs \ (Defs(code.loop) \cup Uses(code.loop) \cup Uses(code.epilogue))

\* Mutant: only the loop's own registers are avoided.
RegsOutsideLoop_None(code) == {}
\* regs_outside_loop, collected by licm.
RegsOutsideLoop(code) ==
    UNION {i.defs \cup i.uses : i \in Range(code.prologue) \cup Range(code.epilogue)}

\* build_def_use_chains_linear: the ids of the instructions that read a register
\* whose last definition before them, in text order, is the instruction d.
Users(code, d) ==
    LET text == code.prologue \o code.loop \o code.epilogue
        at   == CHOOSE k \in DOMAIN text : text[k].id = d
    IN  {text[k].id : k \in {k \in at + 1 .. Len(text) :
            \E r \in text[at].defs \cap text[k].uses :
               \A j \in at + 1 .. k - 1 : r \notin text[j].defs}}

-----------------------------------------------------------------------------
(* What the machine does.  Values are terms over the registers' contents   *)
(* at kernel entry, so that two programs agree on all inputs if and only   *)
(* if their terms agree.  `memory` records every access and its operands;  *)
(* a loaded value is named by the access that returned it.                 *)
(*                                                                         *)
(* `safe` becomes FALSE when an instruction touches what is still on its   *)
(* way: a register that an LDS read has yet to fill, a slot of LDS that a  *)
(* copy has not filled for all warps, or one that a warp may still read.   *)
(* All warps run the same text, so that what a warp knows to be complete   *)
(* at a barrier is complete in every warp behind it.                       *)

Operands(m, i) == [k \in DOMAIN i.operands |-> m.reg[i.operands[k]]]

ValueAt(m, i) ==
    LET sources == Tail(Operands(m, i))
    IN  CASE i.op = "mov"     -> sources[1]
          [] i.op = "ds_read" -> <<"loaded", Len(m.memory), <<>>>>
          [] i.op = "cndmask" -> <<"selected", i.id, Append(sources, m.vcc)>>
          [] OTHER            -> <<"computed", i.id, sources>>

Recorded(m, i, operands) == Append(m.memory, <<i.id, operands>>)

\* arriving: registers; reading, read: slots of LDS with a read of this warp in
\* flight, and of any warp; copying, copied: slots being filled, and filled by
\* this warp.
Effect(m, i) ==
    CASE i.op = "s_cmp"    -> [m EXCEPT !.vcc = <<"compared", i.id, Operands(m, i)>>]
      [] i.op = "ds_write" -> [m EXCEPT !.memory = Recorded(m, i, Operands(m, i))]
      [] i.op = "ds_read"  ->
            [m EXCEPT !.memory = Recorded(m, i, Tail(Operands(m, i))),
                      !.reg[Dst(i)] = ValueAt(m, i),
                      !.arriving = @ \cup {Dst(i)},
                      !.reading = @ \cup {Tail(Operands(m, i))}]
      [] i.op = "set_m0"      -> [m EXCEPT !.m0 = Operands(m, i)]
      [] i.op = "buffer_load" -> [m EXCEPT !.memory = Recorded(m, i, m.m0), !.copying = @ \cup {m.m0}]
      [] i.op = "s_barrier"   -> [m EXCEPT !.read = m.reading, !.copied = {}]
      [] i.op \in Waits ->
            LET lgkm == i.op \in LgkmWaits
                vm   == i.op \in VmWaits
            IN [m EXCEPT !.arriving = IF lgkm THEN {} ELSE @,
                         !.read = IF lgkm THEN @ \cup m.reading ELSE @,
                         !.reading = IF lgkm THEN {} ELSE @,
                         !.copied = IF vm THEN @ \cup m.copying ELSE @,
                         !.copying = IF vm THEN {} ELSE @]
      [] i.op \in {"s_nop", "dead"} -> m
      [] OTHER -> [m EXCEPT !.reg[Dst(i)] = ValueAt(m, i)]

IsSafe(m, i) ==
    /\ (UsesOf(i) \cup DefsOf(i)) \cap m.arriving = {}
    /\ i.op = "ds_read" => Tail(Operands(m, i)) \notin m.copying \cup m.copied
    /\ i.op = "buffer_load" => m.settled /\ m.m0 \notin m.reading \cup m.read

\* A buffer_load right behind the write of m0 may find the value before.
Execute(m, i) == [Effect(m, i) EXCEPT !.safe = @ /\ IsSafe(m, i), !.settled = i.op # "set_m0"]

AtEntry == [reg |-> [r \in Regs |-> <<"entry", r, <<>>>>], vcc |-> <<"entry", -1, <<>>>>, memory |-> <<>>,
            m0 |-> <<>>, settled |-> TRUE, safe |-> TRUE,
            arriving |-> {}, reading |-> {}, read |-> {}, copying |-> {}, copied |-> {}]

\* The end of a run whose loop is taken n times.
Run(code, n) ==
    LET text == code.prologue \o FlattenSeq([k \in 1 .. n |-> code.loop]) \o code.epilogue
        run[k \in 0 .. Len(text)] == IF k = 0 THEN AtEntry ELSE Execute(run[k - 1], text[k])
    IN run[Len(text)]
=============================================================================
