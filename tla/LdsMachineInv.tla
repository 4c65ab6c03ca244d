---------------------------- MODULE LdsMachineInv ----------------------------
(***************************************************************************)
(* The invariants that carry the discipline of a program over to its runs. *)
(* SyncInv holds of every program: how far the warps are apart, and what   *)
(* is in the queues.  FlowInv says that every tile is where the static     *)
(* dataflow of Discipline has it.                                          *)
(***************************************************************************)
EXTENDS Discipline

VmOps == {"copy", "load"}
DsOps == {"read", "write"}

\* Entry d of a queue of w, that is at instruction k: which instruction started
\* it, and that w has not come to one that waits for it.
EntryOK(c, w, k, d, ops) ==
    LET i == c[w][d.at]
    IN  /\ d.at \in 1 .. k - 1
        /\ d.kind \in ops /\ i.op = d.kind
        /\ d.kind # "load"            => d.slots = i.slots
        /\ d.kind \in {"read", "load"} => d.reg = i.reg
        /\ d.kind = "copy"            => d.group = GroupsBefore(c, w, d.at)
        /\ \A e \in d.at + 1 .. k - 1 : ~Ends(c, w, d.at, e)

IsSeq(q) == q \in Seq({q[i] : i \in DOMAIN q})

\* The queue is in the order of the program and has everything behind its head.
QueueOK(c, w, k, q, ops) ==
    /\ IsSeq(q)
    /\ \A i \in DOMAIN q : EntryOK(c, w, k, q[i], ops)
    /\ \A i, j \in DOMAIN q : i < j => q[i].at < q[j].at
    /\ \A i \in DOMAIN q : \A e \in q[i].at + 1 .. k - 1 :
          c[w][e].op \in ops => \E j \in DOMAIN q : q[j].at = e

PositionInv(w) ==
    /\ pc[w] \in 1 .. Len(code[w]) + 1
    /\ arrivals[w]  = BarriersBefore(code, w, pc[w])
    /\ committed[w] = GroupsBefore(code, w, pc[w])
    /\ base[w]      = BaseAt(code, w, pc[w])

QueueInv(w) == /\ QueueOK(code, w, pc[w], vm[w], VmOps)
               /\ QueueOK(code, w, pc[w], ds[w], DsOps)

\* Nobody has come past a barrier that somebody has not arrived at.
BarrierInv == \A w, v \in Warps : \A p \in 1 .. pc[w] - 1 :
                  BarriersBefore(code, w, p) <= arrivals[v]

ShapeInv == /\ config \in Configs /\ code = Code[config]
            /\ pc \in [Warps -> Nat] /\ base \in [Warps -> Nat]
            /\ committed \in [Warps -> Nat] /\ arrivals \in [Warps -> Nat]
            /\ DOMAIN vm = Warps /\ DOMAIN ds = Warps

SyncInv == /\ ShapeInv
           /\ \A w \in Warps : PositionInv(w) /\ QueueInv(w)
           /\ BarrierInv

-----------------------------------------------------------------------------
\* What w has started and not finished, and what it has finished.
Started(q)    == {q[i].at : i \in DOMAIN q}
Unfinished(w) == Started(vm[w]) \cup Started(ds[w])
Finished(w)   == (1 .. pc[w] - 1) \ Unfinished(w)

Latest(P, p) == p \in P /\ \A q \in P : q <= p

\* A slot and a register hold what the last finished instruction put there.
LdsInv(v) ==
    \A s \in DOMAIN lds : \A p \in 1 .. pc[v] - 1 :
        Latest({q \in Finished(v) : s \in Fills(code[v][q])}, p)
        => lds[s][v] = TileOf(code)[<<v, p>>]
RegInv(w) ==
    \A r \in DOMAIN reg[w] : \A p \in 1 .. pc[w] - 1 :
        Latest({q \in Finished(w) : r \in Delivers(code[w][q])}, p)
        => reg[w][r] = TileOf(code)[<<w, p>>]

\* What is on its way is what the dataflow says.
TilesInv(w) ==
    /\ \A i \in DOMAIN vm[w] : vm[w][i].tile = TileOf(code)[<<w, vm[w][i].at>>]
    /\ \A i \in DOMAIN ds[w] : ds[w][i].kind = "write" =>
                                   ds[w][i].tile = TileOf(code)[<<w, ds[w][i].at>>]

AccInv(w) ==
    \A t \in AllOf({"mfma"}) :
        LET n == MfmasBefore(code, w, pc[w], t)
        IN  n <= iterMax /\ acc[<<w, t>>] = [i \in 1 .. n |-> <<{i - 1}, {i - 1}>>]

TypeInv == /\ DOMAIN lds = AllOf({"copy", "write"})
           /\ \A s \in DOMAIN lds : DOMAIN lds[s] = Warps
           /\ DOMAIN reg = Warps
           /\ \A w \in Warps : DOMAIN reg[w] = AllOf({"read", "load", "compute"})
           /\ DOMAIN acc = Warps \X AllOf({"mfma"})
           /\ out \in [Warps \X AllOf({"mfma"}) -> {<<>>, FullSum}]

FlowInv == /\ TypeInv
           /\ \A w \in Warps : LdsInv(w) /\ RegInv(w) /\ TilesInv(w) /\ AccInv(w)

-----------------------------------------------------------------------------
\* Every tile, wherever it is, is made of K-steps that exist; an LDS access is
\* one to slots that are filled at some time.
RangeInv ==
    /\ \A w \in Warps :
          /\ \A i \in DOMAIN vm[w] : vm[w][i].tile \in Tile
          /\ \A i \in DOMAIN ds[w] : /\ ds[w][i].slots \subseteq DOMAIN lds
                                     /\ ds[w][i].kind = "write" => ds[w][i].tile \in Tile
    /\ \A s \in DOMAIN lds : lds[s] \in [Warps -> Tile]
    /\ \A w \in Warps : \A r \in DOMAIN reg[w] : reg[w][r] \in Tile
=============================================================================
