----------------------------- MODULE MCPeephole -----------------------------
EXTENDS Peephole

\* Shapes of one instruction over the registers R.
Shape(op, operands) == [op |-> op, operands |-> operands]
Of(op, R)     == {Shape(op, <<r>>) : r \in R}
OfTwo(op, R)  == {Shape(op, <<d, s>>) : d, s \in R}
Movs(R) == {i \in OfTwo("mov", R) : i.operands[1] # i.operands[2]}

Numbered(shapes, base) ==
    [k \in DOMAIN shapes |-> Instruction(base + k, shapes[k].op, shapes[k].operands)]

Kernel(loop, epilogue) ==
    [prologue |-> <<>>, loop |-> Numbered(loop, 0), epilogue |-> Numbered(epilogue, 100)]

Two   == {0, 1}
Three == {0, 1, 2}

\* The epilogue reads the register r of the loop, and reads or writes the first
\* register the loop does not use.
Write(r) == Shape("ds_write", <<r>>)
Epilogues(r, free) ==
    {<<Shape("ds_write", <<r, free>>)>>, <<Shape("const", <<free>>), Write(r)>>}

\* Loops of n instructions out of a set, over the registers 0 and 1.
Kernels(n, shapes) == {Kernel(l, e) : l \in [1 .. n -> shapes], e \in Epilogues(0, 2)}

Basic(R) == Of("const", R) \cup OfTwo("alu", R) \cup Of("ds_read", R) \cup Of("ds_write", R)

-----------------------------------------------------------------------------
(* The kernels for which the two passes are checked to be right.           *)

DefsAt(l, r) == {k \in DOMAIN l : r \in l[k].defs}
ReadAtTheTop(l, r) == {u \in DOMAIN l :
    r \in l[u].uses /\ \A j \in 1 .. u - 1 : r \notin l[j].defs}

\* No register receives both loaded and computed values.
OneKindOfDef(l) ==
    \A r \in Regs : \A j, k \in DefsAt(l, r) : IsMemory(l[j]) <=> IsMemory(l[k])

\* A register that arithmetic reads around the back edge is loaded, or updated
\* from itself.
CarriedAreUpdated(l) ==
    \A r \in Regs : (\E u \in ReadAtTheTop(l, r) : IsPure(l[u]))
        => \A k \in DefsAt(l, r) : IsPure(l[k]) => r \in l[k].uses

\* Only mfmas compute what an mfma reads, and read what it computes.
MfmasApart(l) ==
    \A m, i \in DOMAIN l : IsMfma(l[m]) /\ ~IsMfma(l[i]) /\ ~IsMemory(l[i]) =>
        /\ l[m].uses \cap l[i].defs = {}
        /\ l[m].defs \cap (l[i].uses \cup l[i].defs) = {}

\* A register is written at most once between a save and a restore, and read
\* there only by instructions with a destination in front; the copy is read
\* nowhere else.
SavesAreLocal(l, e) ==
    \A s, r \in DOMAIN l : s < r /\ l[s].op = "mov" =>
        LET tmp  == l[s].operands[1]
            orig == l[s].operands[2]
        IN  IsMov(l[r], orig, tmp) =>
              /\ Cardinality(DefsAt(l, orig) \cap s + 1 .. r - 1) <= 1
              /\ \A j \in s + 1 .. r - 1 : orig \in l[j].uses => l[j].defs # {}
              /\ \A j \in DOMAIN l \ (s .. r) : tmp \notin l[j].uses
              /\ \A j \in DOMAIN e : tmp \notin e[j].uses

-----------------------------------------------------------------------------
MCRegs == 0 .. 4
MCTrips == {1, 3}

\* Arithmetic on one register, the value carried around the back edge.
CarriedPrograms == Kernels(3, Of("const", {0}) \cup OfTwo("alu", {0}) \cup Of("ds_write", {0}))

\* Address arithmetic; selections; and a saved register that is updated.
Arithmetic == Kernels(4, Basic(Two))
Selections == Kernels(3, Of("const", Two) \cup OfTwo("cndmask", Two) \cup Of("s_cmp", Two)
                         \cup OfTwo("alu", Two) \cup OfTwo("mfma", Two))
Copies ==
    {Kernel(<<Shape("mov", <<1, 0>>)>> \o l \o <<Shape("mov", <<0, 1>>)>>, e) :
        l \in [1 .. 3 -> OfTwo("alu", Three) \cup OfTwo("ds_read", Three)],
        e \in Epilogues(0, 3) \cup Epilogues(2, 3)}


-----------------------------------------------------------------------------
(* Hot loops: two K-steps per turn, each with a copy into one slot of LDS  *)
(* (m0 write, nop, load), a read of the other slot into the registers of   *)
(* the next K-step, three mfmas, waits and a barrier.                      *)

Sync(op) == Shape(op, <<>>)
Reg(step) == step          \* the operand of K-steps of this parity
Acc == 2
Slot(step) == 3 + step

Chunks == {"sync", "copy", "read", "mfma1", "mfma2", "mfma3"}

Chunk(c, step) ==
    CASE c = "sync" -> <<Sync("wait_all"), Sync("s_barrier")>>
      [] c = "copy" -> <<Shape("set_m0", <<Slot(step)>>), Sync("s_nop"), Sync("buffer_load")>>
      [] c = "read" -> <<Shape("ds_read", <<Reg(1 - step), Slot(1 - step)>>)>>
      [] c = "wait" -> <<Sync("wait_lgkm")>>
      [] OTHER      -> <<Shape("mfma", <<Acc, Reg(step), Acc>>)>>

Region(order, step) == FlattenSeq([k \in DOMAIN order |-> Chunk(order[k], step)])

Orders == {o \in [1 .. 6 -> Chunks] :
              /\ Range(o) = Chunks
              /\ \A j, k \in 1 .. 6 : o[j] = "mfma1" /\ o[k] \in {"mfma2", "mfma3"} => j < k
              /\ \A j, k \in 1 .. 6 : o[j] = "mfma2" /\ o[k] = "mfma3" => j < k}

WithWait(o) == {o} \cup {InsertAt(o, k, "wait") : k \in 1 .. 7}

HotLoops ==
    {[prologue |-> Numbered(Chunk("copy", 0) \o Chunk("copy", 1) \o Chunk("sync", 0)
                              \o Chunk("read", 1) \o <<Shape("const", <<Acc>>)>>, 200),
      loop |-> Numbered(Region(o, 0) \o Region(o, 1), 0),
      epilogue |-> Numbered(<<Sync("wait_lgkm"), Write(Acc)>>, 100)] :
        o \in UNION {WithWait(o) : o \in Orders}}

SafeHotLoops == {p \in HotLoops : \A n \in Trips : Run(p, n).safe}

\* Between a wait for LDS and the next pair of wait and barrier stand only mfmas.
WaitsAreNear(l) ==
    \A k \in SyncPairs(l) : \A j \in Standalones(l, k) : \A i \in j + 1 .. k - 1 :
        IsMfma(l[i]) \/ l[i].op \in LgkmWaits

\* The first mfma of the loop is not directly behind a copy.
FirstMfmaApart(l) ==
    LET first == Min({k \in DOMAIN l : IsMfma(l[k])})
    IN first > 1 => l[first - 1].op # "buffer_load"

DisciplinedPrograms ==
    {p \in Arithmetic : OneKindOfDef(p.loop) /\ CarriedAreUpdated(p.loop)}
    \cup {p \in Selections : CarriedAreUpdated(p.loop) /\ MfmasApart(p.loop)}
    \cup {p \in Copies : OneKindOfDef(p.loop) /\ SavesAreLocal(p.loop, p.epilogue)}
    \cup {p \in SafeHotLoops : WaitsAreNear(p.loop) /\ FirstMfmaApart(p.loop)}
=============================================================================
