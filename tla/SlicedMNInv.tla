----------------------------- MODULE SlicedMNInv -----------------------------
(***************************************************************************)
(* The inductive invariant of SlicedMN.                                    *)
(*                                                                         *)
(* All the numbers of the program line up in one sequence.  Commit group n *)
(* carries half tile n % 4 of K-step n \div 4 into slot n % 8; LDS read m  *)
(* takes what group m brought; region r, after its barrier, issues read    *)
(* r + 2 and then group r + 8.  The invariant says where a warp is in that *)
(* sequence, and every wait, barrier and slot reuse becomes an inequality  *)
(* between positions.                                                      *)
(***************************************************************************)
EXTENDS SlicedMN

SlotOf(n) == <<CopyOrder(n), (n \div 4) % 2>>
StepOf(n) == n \div 4
AtMost(a, b) == IF a < b THEN a ELSE b

QuadIndex(q) == CASE q = "tl" -> 0 [] q = "bl" -> 1 [] q = "tr" -> 2 [] OTHER -> 3

\* The barriers w has passed: their reads may have been issued.
Passed(w) ==
    IF region[w] = -1 THEN IF step[w] = "read" THEN 1 ELSE 0
    ELSE AtMost(IF step[w] \in {"read", "copy", "store"} THEN region[w] + 2
                                                       ELSE region[w] + 1,
                NumRegions - 1)

\* The last read w has issued.
LastRead(w) ==
    IF region[w] = -1 THEN -1
    ELSE AtMost(IF step[w] \in {"copy", "store"} THEN region[w] + 2
                                                ELSE region[w] + 1,
                NumRegions - 1)
\* The mfmas w has issued, and how many of them went to quadrant q.
MfmasDone(w) == IF region[w] = -1 THEN 0
                ELSE IF step[w] \in {"mfma", "done"} THEN region[w] ELSE region[w] + 1
ProductsOf(w, q) == (MfmasDone(w) + 3 - QuadIndex(q)) \div 4

\* The first x mfmas need the reads below NeededBelow(x), and those only.
NeededBelow(x) == IF x % 4 = 0 THEN x ELSE x + 1
FirstRead(w) == NeededBelow(MfmasDone(w))

InFlight(v, n) == \E d \in flying[v] : d.id = n

-----------------------------------------------------------------------------
ControlInv(w) ==
    \/ region[w] = -1 /\ step[w] \in {"copy", "wait", "barrier", "read"}
    \/ region[w] \in 0 .. LoopRegions - 1
       /\ step[w] \in {"mfma", "wait", "barrier", "read", "copy"}
    \/ region[w] \in LoopRegions .. NumRegions - 4
       /\ step[w] \in {"mfma", "wait", "barrier", "read"}
    \/ region[w] = NumRegions - 3
       /\ step[w] \in {"mfma", "wait", "barrier", "read", "store"}
    \/ region[w] \in NumRegions - 2 .. NumRegions - 1 /\ step[w] \in {"mfma", "store"}
    \/ region[w] = NumRegions /\ step[w] = "done"

CountInv(w) ==
    /\ arrivals[w] = IF step[w] = "barrier" THEN Passed(w) + 1 ELSE Passed(w)
    /\ IF region[w] = -1
       THEN /\ IF step[w] = "copy" THEN committed[w] \in 0 .. 7 ELSE committed[w] = 8
            /\ base[w] = IF step[w] = "copy" THEN 0 ELSE 2
       ELSE /\ committed[w] = AtMost(region[w] + 8, NumRegions)
            /\ base[w] = AtMost(2 + 2 * (region[w] \div 8), iterMax)

\* What is in flight is younger than the group of the last barrier arrived at.
FlyingInv(w) ==
    \A d \in flying[w] : /\ d.id < committed[w]
                         /\ arrivals[w] > 0 => d.id > arrivals[w]
                         /\ d.slot = SlotOf(d.id)
                         /\ d.k = StepOf(d.id)

\* Nobody passes a barrier that somebody has not arrived at.
BarrierInv == \A w, v \in Warps : arrivals[v] >= Passed(w)

PendingInv(w) ==
    \A s \in pending[w] : \E m \in 0 .. NumRegions - 1 :
        /\ FirstRead(w) <= m /\ m <= LastRead(w)
        /\ s = SlotOf(m)

\* A slot holds the K-step of the youngest group that has landed in it.
LdsInv(v) ==
    \A n \in 0 .. NumRegions - 1 :
        (/\ n < committed[v] /\ ~InFlight(v, n)
         /\ n + 8 >= committed[v] \/ InFlight(v, n + 8))
        => lds[SlotOf(n)][v] = StepOf(n)

\* The last four reads are the four operands.
RegInv(w) ==
    \A m \in 0 .. NumRegions - 1 :
        (/\ m <= LastRead(w) /\ LastRead(w) < m + 4
         /\ SlotOf(m) \notin pending[w])
        => reg[w][CopyOrder(m)] = {StepOf(m)}

AccInv(w) ==
    \A q \in Quads :
        acc[<<w, q>>] = [i \in 1 .. ProductsOf(w, q) |-> G!Product(i - 1)]

WarpInv(w) == /\ ControlInv(w)
              /\ CountInv(w)
              /\ FlyingInv(w)
              /\ PendingInv(w)
              /\ LdsInv(w)
              /\ RegInv(w)
              /\ AccInv(w)

\* The invariant: it is inductive, and it implies the safety properties.
IInv == /\ TypeOK
        /\ BarrierInv
        /\ \A w \in Warps : WarpInv(w)
=============================================================================
