------------------------------ MODULE SlicedMN ------------------------------
(***************************************************************************)
(* The software pipeline of the sliced GEMM kernels v8_sliceMN and         *)
(* v9_beyond_hotloop (kernels/gemm/intra_wave/a16w16): A is cut into a top *)
(* and a bottom half, B into a left and a right half, each half tile has a *)
(* double-buffered LDS allocation of its own, and C is four quadrants.     *)
(*                                                                         *)
(* Every warp runs the same program.  Region r issues the mfma of quadrant *)
(* r % 4 of K-step r \div 4, waits (wait_group and the barrier the         *)
(* compiler places after it), reads the half tile the next region needs    *)
(* and refills a half tile that nobody needs any more.  Three things run   *)
(* asynchronously to the warps: a copy into LDS lands some time after it   *)
(* is issued, an LDS read delivers some time after it is issued, and the   *)
(* warps run apart between two barriers.                                   *)
(***************************************************************************)
EXTENDS Integers, Sequences

CONSTANTS
    Warps,      \* the warps of the workgroup
    iterMax,    \* cdiv(K, BLOCK_K), the number of K-steps
    Window      \* how far copies of one warp may land out of order

\* gl.assume(iterMax > 3), and the 2x unrolling with exactly two K-steps left
\* for the epilogue (v8's docstring: k = 0, 2, ..., iterMax-4, step 2).
ASSUME IterMaxAssumption == iterMax \in Nat /\ iterMax > 3 /\ iterMax % 2 = 0
ASSUME WindowAssumption  == Window \in Nat \ {0}

Operands == {"b_left", "a_top", "a_bot", "b_right"}
Quads    == {"tl", "bl", "tr", "br"}
Slots    == Operands \X {0, 1}
Steps    == 0 .. iterMax - 1
NoData   == -1                       \* what LDS holds before the first copy
Tile     == SUBSET (Steps \cup {NoData})   \* the K-steps a tile is made of

VARIABLES
    region,     \* region[w]: -1 in the prologue, then the region w is in
    step,       \* step[w]: the part of the region w executes next
    base,       \* base[w]: a_base and b_base, in units of BLOCK_K
    committed,  \* committed[w]: commit groups w has issued
    flying,     \* flying[w]: copies of w that have not landed in LDS
    arrivals,   \* arrivals[w]: barriers w has arrived at
    lds,        \* lds[s][v]: K-step of the part of slot s that warp v copies
    pending,    \* pending[w]: slots w has an undelivered LDS read of
    reg,        \* reg[w][o]: the K-steps that operand o of w is made of
    acc,        \* acc[w, q]: the products accumulated into quadrant q of w
    out         \* out[w, q]: what w stored to C for quadrant q

vars == <<region, step, base, committed, flying, arrivals, lds, pending, reg,
          acc, out>>

-----------------------------------------------------------------------------
(* The program.                                                            *)

\* Mutant: the loop goes on to iterMax and leaves no K-step for the epilogue.
UnrolledIterations_ToTheEnd == iterMax \div 2
UnrolledIterations == (iterMax - 1) \div 2        \* range(0, iterMax - 2, 2)
LoopRegions == 8 * UnrolledIterations
NumRegions  == LoopRegions + 8

QuadOf(r) == CASE r % 4 = 0 -> "tl" [] r % 4 = 1 -> "bl"
               [] r % 4 = 2 -> "tr" [] OTHER     -> "br"

\* The operands of the mfma of region r.
OperandA(r) == IF r % 2 = 0 THEN "a_top" ELSE "a_bot"
OperandB(r) == IF r % 4 < 2 THEN "b_left" ELSE "b_right"

\* The order of the copies of one K-step, in the prologue and in the loop.
CopyOrder(i) == CASE i % 4 = 0 -> "b_left" [] i % 4 = 1 -> "a_top"
                  [] i % 4 = 2 -> "a_bot"  [] OTHER     -> "b_right"

\* The half tile that region r reads from LDS, two places further on in the
\* same order, ...
ReadOperand(r) == CASE r % 4 = 0 -> "a_bot"  [] r % 4 = 1 -> "b_right"
                    [] r % 4 = 2 -> "b_left" [] OTHER     -> "a_top"

\* ... from a buffer that is a literal in the unrolled loop (sub-iteration 0
\* consumes buffer 0, sub-iteration 1 buffer 1) and l_idx, g_idx after it.
SubIteration(r) == (r % 8) \div 4
l_idx == (iterMax - 2) % 2
g_idx == 1 - l_idx
\* Mutant: regions 2 and 3 read the buffer of the K-step just consumed.
LoopReadBuffer_Stale(r) == SubIteration(r)
LoopReadBuffer(r) == IF r % 4 < 2 THEN SubIteration(r) ELSE 1 - SubIteration(r)
EpilogueReadBuffer(e) == IF e < 2 THEN l_idx ELSE g_idx
ReadSlot(r) == <<ReadOperand(r),
                 IF r < LoopRegions THEN LoopReadBuffer(r)
                                    ELSE EpilogueReadBuffer(r - LoopRegions)>>

\* wait_group(n): all but the last n commit groups of the warp have landed.
PrologueWait == 6
\* Mutant: one group too many may still be in flight.
LoopWait_Loose == 6
LoopWait     == 5
EpilogueWait(e) == 5 - e
WaitCount(r) == IF r = -1              THEN PrologueWait
                ELSE IF r < LoopRegions THEN LoopWait
                ELSE EpilogueWait(r - LoopRegions)

\* The last two regions of the epilogue have their operands and only issue
\* the mfma.
HasRead(r) == r < NumRegions - 2

\* Mutant: the last store is forgotten.
StoredAfter_NoBr(r) == CASE r = NumRegions - 3 -> {"tl"}
                         [] r = NumRegions - 2 -> {"bl"}
                         [] r = NumRegions - 1 -> {"tr"}
                         [] OTHER              -> {}
\* The quadrants stored at the end of region r: every store is one mfma late.
StoredAfter(r) == CASE r = NumRegions - 3 -> {"tl"}
                    [] r = NumRegions - 2 -> {"bl"}
                    [] r = NumRegions - 1 -> {"tr", "br"}
                    [] OTHER              -> {}

-----------------------------------------------------------------------------
Init == /\ region    = [w \in Warps |-> -1]
        /\ step      = [w \in Warps |-> "copy"]
        /\ base      = [w \in Warps |-> 0]
        /\ committed = [w \in Warps |-> 0]
        /\ flying    = [w \in Warps |-> {}]
        /\ arrivals  = [w \in Warps |-> 0]
        /\ lds       = [s \in Slots |-> [v \in Warps |-> NoData]]
        /\ pending   = [w \in Warps |-> {}]
        /\ reg       = [w \in Warps |-> [o \in Operands |-> {}]]
        /\ acc       = [t \in Warps \X Quads |-> <<>>]
        /\ out       = [t \in Warps \X Quads |-> <<>>]

\* buffer_load_to_shared and commit_group: one copy per commit group.
AsyncCopy(w, slot, k) ==
    /\ flying' = [flying EXCEPT ![w] =
                     @ \cup {[id |-> committed[w], slot |-> slot, k |-> k]}]
    /\ committed' = [committed EXCEPT ![w] = @ + 1]

\* The prologue copies K-steps 0 and 1 into buffers 0 and 1, then advances
\* both base pointers by 2*BLOCK_K.
PrologueCopy(w) ==
    LET buf  == committed[w] \div 4
        last == committed[w] = 7
    IN  /\ region[w] = -1 /\ step[w] = "copy"
        /\ AsyncCopy(w, <<CopyOrder(committed[w]), buf>>, base[w] + buf)
        /\ base' = IF last THEN [base EXCEPT ![w] = @ + 2] ELSE base
        /\ step' = IF last THEN [step EXCEPT ![w] = "wait"] ELSE step
        /\ UNCHANGED <<region, arrivals, lds, pending, reg, acc, out>>

\* The mfma needs both operands delivered; it reads registers only.
Mfma(w) ==
    LET r == region[w]
        a == OperandA(r)
        b == OperandB(r)
    IN  /\ step[w] = "mfma"
        /\ \A s \in pending[w] : s[1] \notin {a, b}
        /\ acc' = [acc EXCEPT ![<<w, QuadOf(r)>>] =
                      Append(@, <<reg[w][a], reg[w][b]>>)]
        /\ step' = [step EXCEPT ![w] = IF HasRead(r) THEN "wait" ELSE "store"]
        /\ UNCHANGED <<region, base, committed, flying, arrivals, lds, pending,
                       reg, out>>

\* wait_group(n), after which the warp arrives at the barrier.
WaitGroup(w) ==
    /\ step[w] = "wait"
    /\ \A d \in flying[w] : d.id >= committed[w] - WaitCount(region[w])
    /\ arrivals' = [arrivals EXCEPT ![w] = @ + 1]
    /\ step' = [step EXCEPT ![w] = "barrier"]
    /\ UNCHANGED <<region, base, committed, flying, lds, pending, reg, acc, out>>

\* Mutant: no barrier after the wait.
PassBarrier_Alone(w) ==
    /\ step[w] = "barrier"
    /\ step' = [step EXCEPT ![w] = "read"]
    /\ UNCHANGED <<region, base, committed, flying, arrivals, lds, pending, reg,
                   acc, out>>

\* The barrier lets w go on once every warp has arrived at it.
PassBarrier(w) ==
    /\ step[w] = "barrier"
    /\ \A v \in Warps : arrivals[v] >= arrivals[w]
    /\ step' = [step EXCEPT ![w] = "read"]
    /\ UNCHANGED <<region, base, committed, flying, arrivals, lds, pending, reg,
                   acc, out>>

\* The prologue reads b_left and a_top of buffer 0.
PrologueRead(w) ==
    /\ region[w] = -1 /\ step[w] = "read"
    /\ pending' = [pending EXCEPT ![w] = @ \cup {<<"b_left", 0>>, <<"a_top", 0>>}]
    /\ region' = [region EXCEPT ![w] = 0]
    /\ step' = [step EXCEPT ![w] = "mfma"]
    /\ UNCHANGED <<base, committed, flying, arrivals, lds, reg, acc, out>>

LocalRead(w) ==
    LET r == region[w]
    IN  /\ r >= 0 /\ step[w] = "read"
        /\ pending' = [pending EXCEPT ![w] = @ \cup {ReadSlot(r)}]
        /\ IF r < LoopRegions
           THEN step' = [step EXCEPT ![w] = "copy"] /\ UNCHANGED region
           ELSE IF StoredAfter(r) # {}
           THEN step' = [step EXCEPT ![w] = "store"] /\ UNCHANGED region
           ELSE /\ step' = [step EXCEPT ![w] = "mfma"]
                /\ region' = [region EXCEPT ![w] = @ + 1]
        /\ UNCHANGED <<base, committed, flying, arrivals, lds, reg, acc, out>>

\* Mutant: the refill goes to the buffer that is being consumed.
RefillCopy_Swapped(w) ==
    LET r   == region[w]
        sub == SubIteration(r)
    IN  /\ r >= 0 /\ step[w] = "copy"
        /\ AsyncCopy(w, <<CopyOrder(r), 1 - sub>>, base[w] + sub)
        /\ base' = IF r % 8 = 7 THEN [base EXCEPT ![w] = @ + 2] ELSE base
        /\ region' = [region EXCEPT ![w] = @ + 1]
        /\ step' = [step EXCEPT ![w] = "mfma"]
        /\ UNCHANGED <<arrivals, lds, pending, reg, acc, out>>

\* The refill of region r, with the _next offsets in sub-iteration 1; the base
\* pointers advance at the end of the unrolled iteration.
RefillCopy(w) ==
    LET r   == region[w]
        sub == SubIteration(r)
    IN  /\ r >= 0 /\ step[w] = "copy"
        /\ AsyncCopy(w, <<CopyOrder(r), sub>>, base[w] + sub)
        /\ base' = IF r % 8 = 7 THEN [base EXCEPT ![w] = @ + 2] ELSE base
        /\ region' = [region EXCEPT ![w] = @ + 1]
        /\ step' = [step EXCEPT ![w] = "mfma"]
        /\ UNCHANGED <<arrivals, lds, pending, reg, acc, out>>

StoreC(w) ==
    LET r == region[w]
    IN  /\ step[w] = "store"
        /\ out' = [t \in Warps \X Quads |->
                      IF t[1] = w /\ t[2] \in StoredAfter(r) THEN acc[t] ELSE out[t]]
        /\ region' = [region EXCEPT ![w] = @ + 1]
        /\ step' = [step EXCEPT ![w] = IF r = NumRegions - 1 THEN "done" ELSE "mfma"]
        /\ UNCHANGED <<base, committed, flying, arrivals, lds, pending, reg, acc>>

\* A copy lands.  Copies of one warp land in any order within Window.
Land(w, d) ==
    /\ \A e \in flying[w] : d.id < e.id + Window
    /\ flying' = [flying EXCEPT ![w] = @ \ {d}]
    /\ lds' = [lds EXCEPT ![d.slot][w] = d.k]
    /\ UNCHANGED <<region, step, base, committed, arrivals, pending, reg, acc, out>>

\* An LDS read delivers what the slot holds, of every warp's part.
Deliver(w, s) ==
    /\ pending' = [pending EXCEPT ![w] = @ \ {s}]
    /\ reg' = [reg EXCEPT ![w][s[1]] = {lds[s][v] : v \in Warps}]
    /\ UNCHANGED <<region, step, base, committed, flying, arrivals, lds, acc, out>>

WarpStep(w) == \/ PrologueCopy(w) \/ PrologueRead(w) \/ Mfma(w) \/ WaitGroup(w)
               \/ PassBarrier(w) \/ LocalRead(w) \/ RefillCopy(w) \/ StoreC(w)

MemoryStep(w) == \/ \E d \in flying[w] : Land(w, d)
                 \/ \E s \in pending[w] : Deliver(w, s)

AllDone == \A w \in Warps : step[w] = "done"

\* The kernel has ended: nothing is left to do.
Terminated == AllDone /\ UNCHANGED vars

Next == \/ \E w \in Warps : WarpStep(w) \/ MemoryStep(w)
        \/ Terminated

Spec == Init /\ [][Next]_vars

\* The hardware issues from every resident warp and completes every copy and
\* every LDS read.
FairSpec == /\ Spec
            /\ \A w \in Warps : WF_vars(WarpStep(w)) /\ WF_vars(MemoryStep(w))

-----------------------------------------------------------------------------
(* Properties.                                                             *)

\* Every variable stays in its range; in particular every copy fetches a
\* K-step that exists, so no base pointer runs past the end of A or B.
TypeOK ==
    /\ region    \in [Warps -> -1 .. NumRegions]
    /\ step      \in [Warps -> {"copy", "wait", "barrier", "read", "mfma",
                                "store", "done"}]
    /\ base      \in [Warps -> 0 .. iterMax]
    /\ committed \in [Warps -> 0 .. NumRegions]
    /\ flying    \in [Warps -> SUBSET [id : 0 .. NumRegions - 1, slot : Slots,
                                       k : Steps]]
    /\ arrivals  \in [Warps -> 0 .. NumRegions - 1]
    /\ lds       \in [Slots -> [Warps -> Steps \cup {NoData}]]
    /\ pending   \in [Warps -> SUBSET Slots]
    /\ reg       \in [Warps -> [Operands -> Tile]]
    /\ acc       \in [Warps \X Quads -> Seq(Tile \X Tile)]
    /\ out       \in [Warps \X Quads -> Seq(Tile \X Tile)]

\* No warp has an LDS read outstanding on a slot that a copy of any warp is
\* still on its way to.  A wait_group that is one too weak breaks it from the
\* one side (the data is not there yet), a refill that is issued before the
\* barrier from the other (another warp still reads the old tile).
NoDataRace ==
    \A w, v \in Warps : \A d \in flying[v] : d.slot \notin pending[w]

\* A warp never has two copies into one slot in flight: copies land in any
\* order, and the older K-step could end up on top.
NoOverlappingCopies ==
    \A w \in Warps : \A d, e \in flying[w] : d.slot = e.slot => d = e

\* v8's comment after the loop, for the first region of the epilogue: only the
\* six youngest groups, A_bot[iM-2] and later, may be in flight, and the
\* registers hold a_bot and b_right of K-step iM-3, to be replaced.
AfterLoop ==
    \A w \in Warps : region[w] = LoopRegions /\ step[w] = "mfma" =>
        /\ \A d \in flying[w] : d.id >= 4 * (iterMax - 2) + 2
        /\ reg[w]["a_bot"] = {iterMax - 3} /\ reg[w]["b_right"] = {iterMax - 3}

G == INSTANCE Gemm WITH Tiles <- Warps \X Quads, NumSteps <- iterMax

\* The pipeline computes C = A @ B: every mfma of every warp multiplies whole
\* tiles of the K-step that its quadrant needs next, and a quadrant is stored
\* after its last mfma, although the operands were read one region, and
\* copied eight regions, before.
ComputesGemm == G!Spec

\* Every warp finishes and the whole of C is stored: no wait_group and no
\* barrier waits for something that never comes.
Termination == <>(AllDone /\ G!Finished)
=============================================================================
