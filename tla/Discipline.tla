----------------------------- MODULE Discipline -----------------------------
(***************************************************************************)
(* What makes a kernel compute the right sums can be read off its programs *)
(* without running them.  A local barrier and the use of a register end    *)
(* LDS accesses, a wait_group lands copies, and what a warp has ended      *)
(* before its n-th barrier is over for every warp behind its own n-th      *)
(* barrier.  That orders the instructions of all warps; a kernel is        *)
(* disciplined if the order says which fill every LDS read sees and which  *)
(* result every register holds, and if the tiles that reach the mfmas in   *)
(* this way are the ones of the K-steps in turn.                           *)
(*                                                                         *)
(* In this module c stands for code, the programs of all warps.            *)
(***************************************************************************)
EXTENDS LdsMachine, FiniteSets

Positions(c, w) == 1 .. Len(c[w])

\* The instructions of one kind that w has before position k; the barriers, the
\* commit groups and the steps of the base pointers that they amount to.
Before(c, w, k, op) == {j \in 1 .. k - 1 : c[w][j].op = op}
BarriersBefore(c, w, k) == Cardinality(Before(c, w, k, "barrier"))
GroupsBefore(c, w, k)   == Cardinality(Before(c, w, k, "copy"))
BaseAt(c, w, k) ==
    Cardinality(UNION {{j} \X (1 .. c[w][j].n) : j \in Before(c, w, k, "advance")})
MfmasBefore(c, w, k, t) == Cardinality({j \in Before(c, w, k, "mfma") : c[w][j].tile = t})

\* The registers that an instruction waits for and delivers, the slots it fills.
Needs(i) == CASE i.op = "mfma"    -> i.a \cup i.b
              [] i.op = "compute" -> i.from
              [] i.op = "write"   -> {i.reg}
              [] OTHER            -> {}
Delivers(i) == CASE i.op \in {"read", "load"} -> {i.reg}
                 [] i.op = "compute"          -> i.to
                 [] OTHER                     -> {}
Fills(i) == IF i.op \in {"copy", "write"} THEN i.slots ELSE {}

-----------------------------------------------------------------------------
(* The order.                                                              *)

\* Instruction e of w waits until what instruction p of w started is complete.
Ends(c, w, p, e) ==
    LET i == c[w][p]
        j == c[w][e]
    IN  \/ i.op \in {"read", "write"} /\ j.op = "barrier" /\ j.local
        \/ i.op \in {"read", "load"} /\ i.reg \in Needs(j)
        \/ /\ i.op = "copy" /\ j.op = "wait"
           /\ GroupsBefore(c, w, p) < GroupsBefore(c, w, e) - j.n

\* Instructions p and q of w complete in order: their accesses share a queue.
InOrder(c, w, p, q) ==
    /\ p < q
    /\ \/ {c[w][p].op, c[w][q].op} \subseteq {"copy", "load"}
       \/ {c[w][p].op, c[w][q].op} \subseteq {"read", "write"}

\* What p of w started is over before q of v can have an effect.
Precedes(c, w, p, v, q) ==
    \/ v = w /\ InOrder(c, w, p, q)
    \/ \E e \in p + 1 .. Len(c[w]) :
          /\ Ends(c, w, p, e)
          /\ \/ v = w /\ e <= q
             \/ BarriersBefore(c, w, e) < BarriersBefore(c, v, q)

\* Every LDS read of a slot is ordered with everything that fills the slot, ...
AccessesOrdered(c) ==
    \A w, v \in Warps : \A p \in Positions(c, w), q \in Positions(c, v) :
        (c[w][p].op = "read" /\ c[w][p].slots \cap Fills(c[v][q]) # {})
        => Precedes(c, w, p, v, q) \/ Precedes(c, v, q, w, p)

\* ... and so are what one warp fills a slot with, and what it puts in a register.
ResultsOrdered(c) ==
    \A w \in Warps : \A p, q \in Positions(c, w) :
        (/\ p < q /\ c[w][p].op # "compute"
         /\ \/ Fills(c[w][p]) \cap Fills(c[w][q]) # {}
            \/ Delivers(c[w][p]) \cap Delivers(c[w][q]) # {})
        => Precedes(c, w, p, w, q)

-----------------------------------------------------------------------------
(* The tiles.                                                              *)

\* The last instruction of a set of positions; 0 if there is none.
LastOf(P) == IF P = {} THEN 0 ELSE Max(P)

\* The instruction of w that delivered what register r holds before position k,
\* and the one of v that filled slot s last before read p of w.
Definition(c, w, k, r) == LastOf({p \in 1 .. k - 1 : r \in Delivers(c[w][p])})
Source(c, w, p, s, v) ==
    LastOf({q \in Positions(c, v) : s \in Fills(c[v][q]) /\ Precedes(c, v, q, w, p)})

\* Nothing is used before it was delivered: no register, and no part of a slot;
\* every copy and load fetches a K-step that exists or is masked off.
OperandsDelivered(c) ==
    \A w \in Warps : \A p \in Positions(c, w) :
        /\ \A r \in Needs(c[w][p]) : Definition(c, w, p, r) # 0
        /\ c[w][p].op = "read" =>
              \A s \in c[w][p].slots, v \in Warps : Source(c, w, p, s, v) # 0
FetchesExist(c, iM) ==
    \A w \in Warps : \A p \in Positions(c, w) :
        c[w][p].op \in {"copy", "load"} =>
            \/ c[w][p].ahead \in {Masked, NoStep}
            \/ BaseAt(c, w, p) + c[w][p].ahead \in 0 .. iM - 1

\* Given the tile that every instruction yields: the one in the registers R
\* before position k of w, and the one that instruction p of w yields.
Held(c, tile, w, k, R) == UNION {tile[<<w, Definition(c, w, k, r)>>] : r \in R}
Yield(c, tile, w, p) ==
    LET i == c[w][p]
    IN  CASE i.op \in {"copy", "load"} -> Fetched(BaseAt(c, w, p), i.ahead)
          [] i.op \in {"write", "compute"} -> Held(c, tile, w, p, Needs(i))
          [] i.op = "read" -> UNION {tile[<<v, Source(c, w, p, s, v)>>] :
                                         s \in i.slots, v \in Warps}
          [] OTHER -> {}

InstructionsOf(c) == UNION {{w} \X Positions(c, w) : w \in Warps}
TileOf(c) == LET tile[x \in InstructionsOf(c)] == Yield(c, tile, x[1], x[2]) IN tile

\* The dataflow is well founded, ...
TilesFlow(c) ==
    \A x \in InstructionsOf(c) : TileOf(c)[x] = Yield(c, TileOf(c), x[1], x[2])

\* ... and the n-th mfma on a tile of C gets K-step n, which the store finds
\* complete.
ProductsInTurn(c, iM) ==
    \A w \in Warps : \A p \in Positions(c, w) :
        LET i == c[w][p]
        IN  /\ i.op = "mfma" =>
                  LET n == MfmasBefore(c, w, p, i.tile)
                  IN  /\ n < iM
                      /\ Held(c, TileOf(c), w, p, i.a) = {n}
                      /\ Held(c, TileOf(c), w, p, i.b) = {n}
            /\ i.op = "store" => \A t \in i.tiles : MfmasBefore(c, w, p, t) = iM

-----------------------------------------------------------------------------
\* All warps have the same number of barriers before them, those that stand
\* under a condition on the warp included.
BarriersPaired(c) ==
    \A w, v \in Warps :
        BarriersBefore(c, w, Len(c[w]) + 1) = BarriersBefore(c, v, Len(c[v]) + 1)

Disciplined == /\ AccessesOrdered(code)
               /\ ResultsOrdered(code)
               /\ OperandsDelivered(code)
               /\ FetchesExist(code, iterMax)
               /\ TilesFlow(code)
               /\ ProductsInTurn(code, iterMax)
               /\ BarriersPaired(code)

\* Every kernel is disciplined when it is launched, and as nothing changes its
\* programs, it stays so.
DisciplinedAtLaunch == (\A w \in Warps : pc[w] = 1) => Disciplined
=============================================================================
