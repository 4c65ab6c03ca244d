----------------------------- MODULE LdsMachine -----------------------------
(***************************************************************************)
(* A workgroup that runs one of the kernels of this repository: every warp *)
(* executes its own copy of the program, in order.  What a program starts  *)
(* completes later: copies to LDS and global loads in the order of issue   *)
(* (vmcnt), LDS reads and writes in the order of issue (lgkmcnt), the two  *)
(* queues and the warps independently of each other.                       *)
(*                                                                         *)
(* A tile is the set of the K-steps it is made of; LDS keeps, per slot,    *)
(* the part that each warp filled.  The programs come with Code; one run   *)
(* checks several kernels, and several numbers of K-steps, at once.        *)
(***************************************************************************)
EXTENDS Instructions

CONSTANTS
    Warps,      \* the warps, or one warp of each group that runs in step
    Configs,    \* the pairs <<kernel, iterMax>> to run
    Code        \* Code[c][w]: the program of warp w in configuration c

ASSUME ConfigAssumption == \A c \in Configs : c[2] \in Nat \ {0}
ASSUME CodeAssumption == \A c \in Configs : \A w \in Warps : IsProgram(Code[c][w])

VARIABLES
    config,     \* the launched configuration
    code,       \* code[w]: the program of w
    pc,         \* pc[w]: the next instruction of w
    base,       \* base[w]: a_base and b_base, in units of BLOCK_K
    committed,  \* committed[w]: commit groups w has issued
    vm,         \* vm[w]: queue of w's copies and global loads in flight
    ds,         \* ds[w]: queue of w's LDS reads and writes in flight; `at` is
                \* the instruction that started the access
    arrivals,   \* arrivals[w]: barriers w has arrived at
    lds,        \* lds[s][v]: the part of slot s that warp v filled
    reg,        \* reg[w][r]: the tile in register r of w
    acc,        \* acc[w, t]: the products accumulated into tile t of w
    out         \* out[w, t]: what w stored to C for tile t

vars == <<config, code, pc, base, committed, vm, ds, arrivals, lds, reg, acc, out>>

NoData == -1
iterMax == config[2]
Steps   == 0 .. iterMax - 1
Tile    == SUBSET (Steps \cup {NoData})

\* The slots, registers and tiles that the programs mention.
Mentioned(i) == CASE i.op \in {"copy", "write"} -> i.slots
                  [] i.op \in {"read", "load"}  -> {i.reg}
                  [] i.op = "compute"           -> i.to
                  [] i.op = "mfma"              -> {i.tile}
                  [] OTHER                      -> {}
AllOf(ops) == UNION {Mentioned(i) : i \in
                  {j \in UNION {ToSet(code[w]) : w \in Warps} : j.op \in ops}}

-----------------------------------------------------------------------------
Init == /\ config    \in Configs
        /\ code      = Code[config]
        /\ pc        = [w \in Warps |-> 1]
        /\ base      = [w \in Warps |-> 0]
        /\ committed = [w \in Warps |-> 0]
        /\ vm        = [w \in Warps |-> <<>>]
        /\ ds        = [w \in Warps |-> <<>>]
        /\ arrivals  = [w \in Warps |-> 0]
        /\ lds       = [s \in AllOf({"copy", "write"}) |-> [v \in Warps |-> {NoData}]]
        /\ reg       = [w \in Warps |-> [r \in AllOf({"read", "load", "compute"}) |-> {}]]
        /\ acc       = [t \in Warps \X AllOf({"mfma"}) |-> <<>>]
        /\ out       = [t \in Warps \X AllOf({"mfma"}) |-> <<>>]

Done(w) == pc[w] > Len(code[w])
Instr(w) == code[w][pc[w]]

\* A warp goes on when all warps have arrived at the barrier it came to last.
Released(w) == \A v \in Warps : arrivals[v] >= arrivals[w]

Issue(w, op) == /\ ~Done(w)
                /\ Instr(w).op = op
                /\ Released(w)
                /\ pc' = [pc EXCEPT ![w] = @ + 1]
                /\ UNCHANGED <<config, code>>

\* What a copy or a load fetches from base pointers b; a masked one fetches no data.
Fetched(b, ahead) == CASE ahead = Masked -> {NoData}
                       [] ahead = NoStep -> {}
                       [] OTHER          -> {b + ahead}

\* No result for a register in R is under way.
Arrived(w, R) ==
    /\ \A i \in DOMAIN vm[w] : vm[w][i].kind = "load" => vm[w][i].reg \notin R
    /\ \A i \in DOMAIN ds[w] : ds[w][i].kind = "read" => ds[w][i].reg \notin R

Copy(w) ==
    /\ Issue(w, "copy")
    /\ LET i == Instr(w)
       IN  vm' = [vm EXCEPT ![w] = Append(@,
                     [kind |-> "copy", at |-> pc[w], group |-> committed[w],
                      slots |-> i.slots, tile |-> Fetched(base[w], i.ahead)])]
    /\ committed' = [committed EXCEPT ![w] = @ + 1]
    /\ UNCHANGED <<base, ds, arrivals, lds, reg, acc, out>>

Load(w) ==
    /\ Issue(w, "load")
    /\ LET i == Instr(w)
       IN  vm' = [vm EXCEPT ![w] = Append(@,
                     [kind |-> "load", at |-> pc[w], reg |-> i.reg,
                      tile |-> Fetched(base[w], i.ahead)])]
    /\ UNCHANGED <<base, committed, ds, arrivals, lds, reg, acc, out>>

Read(w) ==
    /\ Issue(w, "read")
    /\ LET i == Instr(w)
       IN  ds' = [ds EXCEPT ![w] = Append(@,
                     [kind |-> "read", at |-> pc[w], reg |-> i.reg, slots |-> i.slots])]
    /\ UNCHANGED <<base, committed, vm, arrivals, lds, reg, acc, out>>

\* The store of a register to LDS first waits for the register.
Write(w) ==
    /\ Issue(w, "write")
    /\ LET i == Instr(w)
       IN  /\ Arrived(w, {i.reg})
           /\ ds' = [ds EXCEPT ![w] = Append(@,
                        [kind |-> "write", at |-> pc[w], slots |-> i.slots,
                         tile |-> reg[w][i.reg]])]
    /\ UNCHANGED <<base, committed, vm, arrivals, lds, reg, acc, out>>

\* wait_group(n): all but the last n commit groups of the warp have landed.
WaitGroup(w) ==
    /\ Issue(w, "wait")
    /\ \A i \in DOMAIN vm[w] :
          vm[w][i].kind = "copy" => vm[w][i].group >= committed[w] - Instr(w).n
    /\ UNCHANGED <<base, committed, vm, ds, arrivals, lds, reg, acc, out>>

\* The warp arrives at a barrier, a local one with its LDS accesses completed.
Arrive(w) ==
    /\ Issue(w, "barrier")
    /\ Instr(w).local => ds[w] = <<>>
    /\ arrivals' = [arrivals EXCEPT ![w] = @ + 1]
    /\ UNCHANGED <<base, committed, vm, ds, lds, reg, acc, out>>

Multiply(w) ==
    /\ Issue(w, "mfma")
    /\ LET i == Instr(w)
       IN  /\ Arrived(w, i.a \cup i.b)
           /\ acc' = [acc EXCEPT ![<<w, i.tile>>] =
                         Append(@, <<UNION {reg[w][r] : r \in i.a},
                                     UNION {reg[w][r] : r \in i.b}>>)]
    /\ UNCHANGED <<base, committed, vm, ds, arrivals, lds, reg, out>>

Calculate(w) ==
    /\ Issue(w, "compute")
    /\ LET i == Instr(w)
       IN  /\ Arrived(w, i.from)
           /\ reg' = [reg EXCEPT ![w] = [r \in DOMAIN @ |->
                         IF r \in i.to THEN UNION {@[s] : s \in i.from} ELSE @[r]]]
    /\ UNCHANGED <<base, committed, vm, ds, arrivals, lds, acc, out>>

Store(w) ==
    /\ Issue(w, "store")
    /\ out' = [t \in DOMAIN out |->
                  IF t[1] = w /\ t[2] \in Instr(w).tiles THEN acc[t] ELSE out[t]]
    /\ UNCHANGED <<base, committed, vm, ds, arrivals, lds, reg, acc>>

AdvanceBase(w) ==
    /\ Issue(w, "advance")
    /\ base' = [base EXCEPT ![w] = @ + Instr(w).n]
    /\ UNCHANGED <<committed, vm, ds, arrivals, lds, reg, acc, out>>

\* The oldest copy or load of a warp completes.
VmComplete(w) ==
    /\ vm[w] # <<>>
    /\ vm' = [vm EXCEPT ![w] = Tail(@)]
    /\ LET d == Head(vm[w])
       IN  IF d.kind = "load"
           THEN reg' = [reg EXCEPT ![w][d.reg] = d.tile] /\ UNCHANGED lds
           ELSE /\ lds' = [s \in DOMAIN lds |->
                              IF s \in d.slots THEN [lds[s] EXCEPT ![w] = d.tile]
                                               ELSE lds[s]]
                /\ UNCHANGED reg
    /\ UNCHANGED <<config, code, pc, base, committed, ds, arrivals, acc, out>>

\* The oldest LDS access of a warp completes; a read takes every warp's part.
DsComplete(w) ==
    /\ ds[w] # <<>>
    /\ ds' = [ds EXCEPT ![w] = Tail(@)]
    /\ LET d == Head(ds[w])
       IN  IF d.kind = "read"
           THEN /\ reg' = [reg EXCEPT ![w][d.reg] =
                              UNION {lds[s][v] : s \in d.slots, v \in Warps}]
                /\ UNCHANGED lds
           ELSE /\ lds' = [s \in DOMAIN lds |->
                              IF s \in d.slots THEN [lds[s] EXCEPT ![w] = d.tile]
                                               ELSE lds[s]]
                /\ UNCHANGED reg
    /\ UNCHANGED <<config, code, pc, base, committed, vm, arrivals, acc, out>>

WarpStep(w) == \/ Copy(w) \/ Load(w) \/ Read(w) \/ Write(w) \/ WaitGroup(w)
               \/ Arrive(w) \/ Multiply(w) \/ Calculate(w) \/ Store(w) \/ AdvanceBase(w)

AllDone == \A w \in Warps : Done(w)
Terminated == AllDone /\ UNCHANGED vars

Next == \/ \E w \in Warps : WarpStep(w) \/ VmComplete(w) \/ DsComplete(w)
        \/ Terminated

Spec == Init /\ [][Next]_vars

\* Every resident warp issues, and both queues of it drain.
FairSpec == /\ Spec
            /\ \A w \in Warps : /\ WF_vars(WarpStep(w))
                                /\ WF_vars(VmComplete(w))
                                /\ WF_vars(DsComplete(w))

-----------------------------------------------------------------------------
(* Properties.                                                             *)

\* Every variable stays in its range; above all every copy and every global
\* load of every kernel fetches a K-step that exists, or is masked off.
TypeOK ==
    /\ config    \in Configs
    /\ pc        \in [Warps -> Nat \ {0}]
    /\ base      \in [Warps -> Nat]
    /\ committed \in [Warps -> Nat]
    /\ arrivals  \in [Warps -> Nat]
    /\ \A w \in Warps :
          /\ \A i \in DOMAIN vm[w] : vm[w][i].tile \in Tile
          /\ \A i \in DOMAIN ds[w] : ds[w][i].slots \subseteq DOMAIN lds
    /\ \A s \in DOMAIN lds : lds[s] \in [Warps -> Tile]
    /\ \A w \in Warps : \A r \in DOMAIN reg[w] : reg[w][r] \in Tile

InFlight(w, q, kind) == {q[w][i].slots : i \in {j \in DOMAIN q[w] : q[w][j].kind = kind}}

\* No slot is filled, by a copy of any warp or by an LDS write of another one,
\* while a read of it is outstanding: neither is the data read before it is
\* there, nor is the slot refilled under a warp that still reads it.
NoDataRace ==
    \A w, v \in Warps : \A R \in InFlight(w, ds, "read") :
        /\ \A S \in InFlight(v, vm, "copy") : R \cap S = {}
        /\ v # w => \A S \in InFlight(v, ds, "write") : R \cap S = {}

FullSum == [i \in 1 .. iterMax |-> <<{i - 1}, {i - 1}>>]

\* Every product that a warp accumulates is the one of the next K-step, of whole
\* operands (scales included), and what is stored is the full sum.
SumsInOrder ==
    \A t \in DOMAIN acc : /\ IsPrefix(acc[t], FullSum)
                          /\ out[t] \in {<<>>, FullSum}

\* The tiles of C, or of O, that the warps of configuration c accumulate.
TilesOfC(c) == LET Instrs == UNION {ToSet(Code[c][w]) : w \in Warps}
               IN  Warps \X {i.tile : i \in {j \in Instrs : j.op = "mfma"}}

G(c) == INSTANCE Gemm WITH Tiles <- TilesOfC(c), NumSteps <- c[2]

\* Every kernel implements the abstract GEMM: one mfma after the other adds the
\* product of the K-step that its tile needs next (of the next key block, in
\* attention), and a store takes finished sums only, however far the copies and
\* reads of later K-steps have got.
ComputesGemm == /\ \A c \in Configs : config = c => G(c)!Init
                /\ [][\E c \in Configs : config = c /\ G(c)!Next]_<<acc, out>>

\* Until all warps are at their end something can happen: an access in flight can
\* complete, or else a warp is not held up at a barrier, and with nothing in
\* flight there is nothing else it would have to wait for.
NotStuck ==
    AllDone \/ \E w \in Warps : vm[w] # <<>> \/ ds[w] # <<>> \/ (~Done(w) /\ Released(w))

\* Every warp of every kernel comes to its end with the whole of C stored.
Termination == <>(AllDone /\ \A t \in DOMAIN out : out[t] = FullSum)
=============================================================================
