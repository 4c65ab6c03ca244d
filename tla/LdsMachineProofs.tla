-------------------------- MODULE LdsMachineProofs --------------------------
(***************************************************************************)
(* Every kernel whose LDS accesses are ordered (Discipline) runs without a *)
(* data race on the LDS machine, for any number of warps, any programs and *)
(* any order in which copies, loads and LDS accesses complete.  First what *)
(* the counts of a program's instructions do from one instruction to the   *)
(* next, then the queues, then that SyncInv is inductive.                  *)
(***************************************************************************)
EXTENDS LdsMachineInv, FiniteSetTheorems, SequenceTheorems, TLAPS

-----------------------------------------------------------------------------
(* Counting instructions.                                                  *)

\* The instructions of one kind before position k are finitely many, and the
\* one at k is the only one that k + 1 adds to them.
LEMMA BeforeNext ==
  ASSUME NEW c, NEW w, NEW op, NEW k \in Nat \ {0}
  PROVE  /\ IsFiniteSet(Before(c, w, k, op))
         /\ k \notin Before(c, w, k, op)
         /\ Before(c, w, k + 1, op) = IF c[w][k].op = op THEN Before(c, w, k, op) \cup {k}
                                                         ELSE Before(c, w, k, op)
<1>1. IsFiniteSet(1 .. k - 1)
  BY FS_Interval
<1>2. Before(c, w, k, op) \in SUBSET (1 .. k - 1)
  BY DEF Before
<1>3. 1 .. (k + 1) - 1 = (1 .. k - 1) \cup {k}
  OBVIOUS
<1> QED BY <1>1, <1>2, <1>3, FS_Subset DEF Before

\* There are no instructions before the first one.
LEMMA BeforeFirst == \A c, w, op : Before(c, w, 1, op) = {}
  BY DEF Before

\* How the counts go on from one instruction to the next.
LEMMA CountNext ==
  ASSUME NEW c, NEW w, NEW k \in Nat \ {0}
  PROVE  /\ BarriersBefore(c, w, k) \in Nat
         /\ BarriersBefore(c, w, k + 1) = IF c[w][k].op = "barrier"
                THEN BarriersBefore(c, w, k) + 1 ELSE BarriersBefore(c, w, k)
         /\ GroupsBefore(c, w, k) \in Nat
         /\ GroupsBefore(c, w, k + 1) = IF c[w][k].op = "copy"
                THEN GroupsBefore(c, w, k) + 1 ELSE GroupsBefore(c, w, k)
<1>1. ASSUME NEW op
      PROVE  /\ Cardinality(Before(c, w, k, op)) \in Nat
             /\ Cardinality(Before(c, w, k + 1, op)) = IF c[w][k].op = op
                    THEN Cardinality(Before(c, w, k, op)) + 1
                    ELSE Cardinality(Before(c, w, k, op))
  <2> DEFINE B == Before(c, w, k, op)
  <2>1. /\ IsFiniteSet(B) /\ k \notin B
        /\ Before(c, w, k + 1, op) = IF c[w][k].op = op THEN B \cup {k} ELSE B
    BY BeforeNext
  <2> HIDE DEF B
  <2>2. Cardinality(B) \in Nat /\ Cardinality(B \cup {k}) = Cardinality(B) + 1
    BY <2>1, FS_AddElement, FS_CardinalityType
  <2> QED BY <2>1, <2>2 DEF B
<1>2. QED BY ONLY <1>1, k \in Nat DEF BarriersBefore, GroupsBefore

\* The counts of the empty program prefix.
LEMMA CountFirst ==
  ASSUME NEW c, NEW w
  PROVE  BarriersBefore(c, w, 1) = 0 /\ GroupsBefore(c, w, 1) = 0 /\ BaseAt(c, w, 1) = 0
<1>1. UNION {{j} \X (1 .. c[w][j].n) : j \in {}} = {}
  OBVIOUS
<1> QED BY <1>1, BeforeFirst, FS_EmptySet DEF BarriersBefore, GroupsBefore, BaseAt

\* The number of barriers grows along the program.
LEMMA BarriersMonotone ==
  ASSUME NEW c, NEW w, NEW j \in Nat \ {0}, NEW k \in Nat \ {0}, j <= k
  PROVE  BarriersBefore(c, w, j) <= BarriersBefore(c, w, k)
<1>1. Before(c, w, j, "barrier") \in SUBSET Before(c, w, k, "barrier")
  BY DEF Before
<1> QED BY <1>1, BeforeNext, FS_Subset DEF BarriersBefore

\* AdvanceBase moves the base pointers on by n K-steps, everything else leaves
\* them alone.
LEMMA BaseNext ==
  ASSUME NEW c, NEW w, NEW k \in Nat \ {0},
         \A j \in 1 .. k : c[w][j].op = "advance" => c[w][j].n \in Nat
  PROVE  /\ BaseAt(c, w, k) \in Nat
         /\ BaseAt(c, w, k + 1) = IF c[w][k].op = "advance" THEN BaseAt(c, w, k) + c[w][k].n
                                                            ELSE BaseAt(c, w, k)
<1> DEFINE B == Before(c, w, k, "advance")
           n == c[w][k].n
           Of(j) == {j} \X (1 .. c[w][j].n)
           F == {Of(j) : j \in B}
           f == [j \in B |-> Of(j)]
<1>1. /\ IsFiniteSet(B) /\ k \notin B
      /\ Before(c, w, k + 1, "advance") = IF c[w][k].op = "advance" THEN B \cup {k} ELSE B
  BY BeforeNext
<1>2. ASSUME NEW j \in 1 .. k, c[w][j].op = "advance"
      PROVE  IsFiniteSet(Of(j)) /\ Cardinality(Of(j)) = c[w][j].n
  <2> DEFINE m == c[w][j].n
             I == 1 .. m
  <2>1. m \in Nat
    BY <1>2
  <2> HIDE DEF m
  <2>2. IsFiniteSet(I) /\ Cardinality(I) = m
    BY <2>1, FS_Interval
  <2>3. IsFiniteSet({j}) /\ Cardinality({j}) = 1
    BY FS_Singleton
  <2> HIDE DEF I
  <2>4. IsFiniteSet({j} \X I) /\ Cardinality({j} \X I) = 1 * m
    BY <2>2, <2>3, FS_Product
  <2> QED BY <2>1, <2>4 DEF m, I
<1>3. IsFiniteSet(UNION F)
  <2>1. \A T \in F : IsFiniteSet(T)
    BY <1>2 DEF Before
  <2>2. f \in Surjection(B, F)
    BY DEF Surjection
  <2> HIDE DEF F, f
  <2> QED BY <1>1, <2>1, <2>2, FS_Surjection, FS_UNION
<1>4. Cardinality(UNION F) \in Nat
  BY <1>3, FS_CardinalityType
<1>5. BaseAt(c, w, k) = Cardinality(UNION F)
  BY DEF BaseAt
<1>6. CASE c[w][k].op # "advance"
  BY <1>1, <1>4, <1>5, <1>6 DEF BaseAt
<1>7. CASE c[w][k].op = "advance"
  <2>1. n \in Nat /\ IsFiniteSet(Of(k)) /\ Cardinality(Of(k)) = n
    BY <1>2, <1>7
  <2>2. UNION {Of(j) : j \in B \cup {k}} = (UNION F) \cup Of(k)
    OBVIOUS
  <2>3. (UNION F) \cap Of(k) = {}
    BY <1>1
  <2>4. BaseAt(c, w, k + 1) = Cardinality((UNION F) \cup Of(k))
    BY <1>1, <1>7, <2>2 DEF BaseAt
  <2> DEFINE U == UNION F
             N == Of(k)
  <2> HIDE DEF U, N, F, Of, n
  <2>5. Cardinality(U \cup N) = Cardinality(U) + n - Cardinality({})
    BY <1>3, <2>1, <2>3, FS_Union DEF U, N
  <2>6. Cardinality(U \cup N) = Cardinality(U) + n
    BY <1>4, <2>1, <2>5, FS_EmptySet DEF U
  <2> QED BY <1>4, <1>5, <1>7, <2>4, <2>6 DEF U, N, n
<1> QED BY <1>6, <1>7

-----------------------------------------------------------------------------
(* Queues.                                                                 *)

\* A sequence is one over its own elements.
LEMMA OwnElements ==
  ASSUME NEW S, NEW t \in Seq(S)
  PROVE  IsSeq(t)
<1> DEFINE R == {t[i] : i \in DOMAIN t}
<1>1. t \in [1 .. Len(t) -> S] /\ Len(t) \in Nat
  BY LenProperties
<1>2. t \in [1 .. Len(t) -> R]
  BY ONLY <1>1
<1>3. \A n \in Nat : [1 .. n -> R] \subseteq Seq(R)
  BY SeqDef
<1> HIDE DEF R
<1>4. t \in Seq(R)
  BY <1>1, <1>2, <1>3
<1> QED BY <1>4 DEF R, IsSeq

\* What a queue is after something joined it, ...
LEMMA AppendSeq ==
  ASSUME NEW q, IsSeq(q), NEW x
  PROVE  /\ IsSeq(Append(q, x))
         /\ DOMAIN q = 1 .. Len(q) /\ Len(q) \in Nat
         /\ DOMAIN Append(q, x) = 1 .. Len(q) + 1
         /\ \A i \in 1 .. Len(q) : Append(q, x)[i] = q[i]
         /\ Append(q, x)[Len(q) + 1] = x
<1> DEFINE T == {q[i] : i \in DOMAIN q} \cup {x}
<1>1. q \in Seq(T)
  BY DEF IsSeq
<1> HIDE DEF T
<1>2. /\ Append(q, x) \in Seq(T)
      /\ DOMAIN q = 1 .. Len(q) /\ Len(q) \in Nat
      /\ DOMAIN Append(q, x) = 1 .. Len(q) + 1
      /\ \A i \in 1 .. Len(q) : Append(q, x)[i] = q[i]
      /\ Append(q, x)[Len(q) + 1] = x
  BY <1>1 DEF T
<1> QED BY <1>2, OwnElements

\* ... and after its head left it.
LEMMA TailSeq ==
  ASSUME NEW q, IsSeq(q), q # <<>>
  PROVE  /\ IsSeq(Tail(q))
         /\ DOMAIN q = 1 .. Len(q) /\ Len(q) \in Nat \ {0} /\ Head(q) = q[1]
         /\ DOMAIN Tail(q) = 1 .. Len(q) - 1
         /\ \A i \in 1 .. Len(q) - 1 : Tail(q)[i] = q[i + 1]
<1> DEFINE S == {q[i] : i \in DOMAIN q}
<1>1. q \in Seq(S)
  BY DEF IsSeq
<1> HIDE DEF S
<1>2. /\ Tail(q) \in Seq(S)
      /\ DOMAIN q = 1 .. Len(q) /\ Len(q) \in Nat \ {0} /\ Head(q) = q[1]
      /\ DOMAIN Tail(q) = 1 .. Len(q) - 1
      /\ \A i \in 1 .. Len(q) - 1 : Tail(q)[i] = q[i + 1]
  BY <1>1
<1> QED BY <1>2, OwnElements

\* A queue stays in order when its warp passes an instruction that neither joins
\* it nor waits for anything in it, ...
LEMMA QueueKeep ==
  ASSUME NEW c, NEW w, NEW k \in Nat \ {0}, NEW q, NEW ops, QueueOK(c, w, k, q, ops),
         c[w][k].op \notin ops, \A i \in DOMAIN q : ~Ends(c, w, q[i].at, k)
  PROVE  QueueOK(c, w, k + 1, q, ops)
<1>1. ASSUME NEW i \in DOMAIN q
      PROVE  /\ q[i].at \in 1 .. k - 1
             /\ q[i].at + 1 .. (k + 1) - 1 = (q[i].at + 1 .. k - 1) \cup {k}
  BY DEF QueueOK, EntryOK
<1>2. \A i \in DOMAIN q : EntryOK(c, w, k + 1, q[i], ops)
  BY <1>1 DEF QueueOK, EntryOK
<1>3. \A i \in DOMAIN q : \A e \in q[i].at + 1 .. (k + 1) - 1 :
         c[w][e].op \in ops => \E j \in DOMAIN q : q[j].at = e
  BY <1>1 DEF QueueOK
<1> QED BY <1>2, <1>3 DEF QueueOK

\* ... when the instruction joins it, ...
LEMMA QueueAppend ==
  ASSUME NEW c, NEW w, NEW k \in Nat \ {0}, NEW q, NEW ops, QueueOK(c, w, k, q, ops),
         \A i \in DOMAIN q : ~Ends(c, w, q[i].at, k),
         NEW d, d.at = k, d.kind \in ops, c[w][k].op = d.kind,
         d.kind # "load" => d.slots = c[w][k].slots,
         d.kind \in {"read", "load"} => d.reg = c[w][k].reg,
         d.kind = "copy" => d.group = GroupsBefore(c, w, k)
  PROVE  QueueOK(c, w, k + 1, Append(q, d), ops)
<1> DEFINE a == Append(q, d)
           n == Len(q)
<1>1. /\ IsSeq(a) /\ n \in Nat
      /\ DOMAIN q = 1 .. n /\ DOMAIN a = 1 .. n + 1
      /\ \A i \in 1 .. n : a[i] = q[i]
      /\ a[n + 1] = d
  BY AppendSeq DEF QueueOK
<1> HIDE DEF a, n
<1>2. ASSUME NEW i \in DOMAIN q
      PROVE  /\ q[i].at \in 1 .. k - 1
             /\ q[i].at + 1 .. (k + 1) - 1 = (q[i].at + 1 .. k - 1) \cup {k}
  BY DEF QueueOK, EntryOK
<1>3. ASSUME NEW i \in DOMAIN a
      PROVE  EntryOK(c, w, k + 1, a[i], ops)
  <2>1. CASE i \in DOMAIN q
    BY <2>1, <1>1, <1>2 DEF QueueOK, EntryOK
  <2>2. CASE i = n + 1
    <3>1. a[i] = d /\ (k + 1 .. (k + 1) - 1) = {} /\ k \in 1 .. (k + 1) - 1
      BY <1>1, <2>2
    <3> QED BY <3>1 DEF EntryOK
  <2> QED BY <1>1, <2>1, <2>2
<1>4. ASSUME NEW i \in DOMAIN a, NEW j \in DOMAIN a, i < j
      PROVE  a[i].at < a[j].at
  <2>1. i \in DOMAIN q
    BY <1>1, <1>4
  <2>2. CASE j \in DOMAIN q
    BY <1>1, <1>4, <2>1, <2>2 DEF QueueOK
  <2>3. CASE j = n + 1
    BY <1>1, <1>2, <2>1, <2>3
  <2> QED BY <1>1, <2>2, <2>3
<1>5. ASSUME NEW i \in DOMAIN a, NEW e \in a[i].at + 1 .. (k + 1) - 1, c[w][e].op \in ops
      PROVE  \E j \in DOMAIN a : a[j].at = e
  <2>1. CASE e = k
    BY <1>1, <2>1
  <2>2. CASE e # k
    <3>1. i \in DOMAIN q
      BY <1>1, <2>2
    <3>2. e \in q[i].at + 1 .. k - 1
      BY <1>1, <1>2, <2>2, <3>1
    <3>3. PICK j \in DOMAIN q : q[j].at = e
      BY <1>5, <3>1, <3>2 DEF QueueOK
    <3> QED BY <1>1, <3>3
  <2> QED BY <2>1, <2>2
<1> QED BY <1>1, <1>3, <1>4, <1>5 DEF QueueOK, a

\* ... and when its head is done.
LEMMA QueueTail ==
  ASSUME NEW c, NEW w, NEW k \in Nat \ {0}, NEW q, NEW ops, QueueOK(c, w, k, q, ops),
         q # <<>>
  PROVE  QueueOK(c, w, k, Tail(q), ops)
<1> DEFINE t == Tail(q)
           n == Len(q)
<1>1. /\ IsSeq(t) /\ n \in Nat \ {0}
      /\ DOMAIN q = 1 .. n /\ DOMAIN t = 1 .. n - 1
      /\ \A i \in 1 .. n - 1 : t[i] = q[i + 1]
  BY TailSeq DEF QueueOK
<1> HIDE DEF t, n
<1>2. ASSUME NEW i \in DOMAIN t
      PROVE  i + 1 \in DOMAIN q /\ t[i] = q[i + 1] /\ t[i].at \in Nat
  BY <1>1 DEF QueueOK, EntryOK
<1>3. ASSUME NEW i \in DOMAIN t, NEW j \in DOMAIN t, i < j
      PROVE  t[i].at < t[j].at
  <2>1. i + 1 < j + 1
    BY <1>1, <1>3
  <2> QED BY <1>2, <2>1 DEF QueueOK
<1>4. ASSUME NEW i \in DOMAIN t, NEW e \in t[i].at + 1 .. k - 1, c[w][e].op \in ops
      PROVE  \E j \in DOMAIN t : t[j].at = e
  <2>1. PICK j \in DOMAIN q : q[j].at = e
    BY <1>2, <1>4 DEF QueueOK
  <2>2. q[i + 1].at < q[j].at
    BY <1>2, <1>4, <2>1
  <2>3. j # 1
    <3>1. SUFFICES ASSUME j = 1 PROVE FALSE
      OBVIOUS
    <3>2. 1 < i + 1 /\ 1 \in DOMAIN q
      BY <1>1
    <3>3. q[1].at < q[i + 1].at
      BY <1>2, <3>2 DEF QueueOK
    <3>4. q[1].at \in Nat /\ q[i + 1].at \in Nat
      BY <1>2, <3>2 DEF QueueOK, EntryOK
    <3> QED BY <2>2, <3>1, <3>3, <3>4
  <2>4. j - 1 \in DOMAIN t /\ t[j - 1] = q[j]
    BY <1>1, <2>3
  <2> QED BY <2>1, <2>4
<1>5. \A i \in DOMAIN t : EntryOK(c, w, k, t[i], ops)
  BY <1>2 DEF QueueOK
<1> QED BY <1>1, <1>3, <1>4, <1>5 DEF QueueOK, t

-----------------------------------------------------------------------------
(* SyncInv is inductive.                                                   *)

\* What every warp step has in common: where it leaves the warp and its
\* counters, and what joins the two queues.
Joins(d, w) ==
    LET i == Instr(w)
    IN  /\ d.at = pc[w] /\ d.kind = i.op
        /\ d.kind # "load"             => d.slots = i.slots
        /\ d.kind \in {"read", "load"} => d.reg = i.reg
        /\ d.kind = "copy"             => d.group = committed[w]
        /\ d.kind \in VmOps            => d.tile = Fetched(base[w], i.ahead)
        /\ d.kind = "write"            => d.tile = reg[w][i.reg]
StepShape(w) ==
    LET i == Instr(w)
    IN  /\ ~Done(w) /\ Released(w)
        /\ pc' = [pc EXCEPT ![w] = @ + 1]
        /\ UNCHANGED <<config, code>>
        /\ arrivals'  = IF i.op = "barrier" THEN [arrivals EXCEPT ![w] = @ + 1] ELSE arrivals
        /\ committed' = IF i.op = "copy" THEN [committed EXCEPT ![w] = @ + 1] ELSE committed
        /\ base'      = IF i.op = "advance" THEN [base EXCEPT ![w] = @ + i.n] ELSE base
        /\ IF i.op \in VmOps
           THEN \E d : Joins(d, w) /\ vm' = [vm EXCEPT ![w] = Append(@, d)]
           ELSE vm' = vm
        /\ IF i.op \in DsOps
           THEN \E d : Joins(d, w) /\ ds' = [ds EXCEPT ![w] = Append(@, d)]
           ELSE ds' = ds

\* Every action of a warp is such a step.
LEMMA WarpStepShape ==
  ASSUME NEW w \in Warps, WarpStep(w)
  PROVE  StepShape(w)
<1> USE DEF StepShape, Joins, Issue, VmOps, DsOps
<1>1. CASE Copy(w)
  BY <1>1 DEF Copy
<1>2. CASE Load(w)
  BY <1>2 DEF Load
<1>3. CASE Read(w)
  BY <1>3 DEF Read
<1>4. CASE Write(w)
  BY <1>4 DEF Write
<1>5. CASE WaitGroup(w) \/ Arrive(w) \/ Multiply(w) \/ Calculate(w) \/ Store(w) \/ AdvanceBase(w)
  BY <1>5 DEF WaitGroup, Arrive, Multiply, Calculate, Store, AdvanceBase
<1> QED BY <1>1, <1>2, <1>3, <1>4, <1>5 DEF WarpStep

\* The programs are the ones of a configuration.
LEMMA ProgramOK ==
  ASSUME ShapeInv, NEW w \in Warps
  PROVE  /\ IsProgram(code[w])
         /\ Len(code[w]) \in Nat /\ DOMAIN code[w] = 1 .. Len(code[w])
<1>1. IsProgram(code[w])
  BY CodeAssumption DEF ShapeInv
<1> QED BY <1>1 DEF IsProgram

\* A warp that steps is at an instruction of its program.
LEMMA AtInstruction ==
  ASSUME SyncInv, NEW w \in Warps, WarpStep(w)
  PROVE  /\ pc[w] \in 1 .. Len(code[w]) /\ pc[w] \in Nat \ {0}
         /\ Instr(w).op \in {"wait", "advance"} => Instr(w).n \in Nat
         /\ Instr(w).op \in {"copy", "load"} => Instr(w).ahead \in Int
<1>1. /\ IsProgram(code[w])
      /\ Len(code[w]) \in Nat /\ DOMAIN code[w] = 1 .. Len(code[w])
  BY ProgramOK DEF SyncInv
<1>2. pc[w] \in 1 .. Len(code[w]) + 1 /\ ~(pc[w] > Len(code[w]))
  BY WarpStepShape DEF StepShape, Done, SyncInv, PositionInv
<1>3. pc[w] \in DOMAIN code[w]
  BY <1>1, <1>2
<1> QED BY <1>1, <1>3 DEF IsProgram, Instr

\* A warp step waits for the operands of its instruction, ...
LEMMA OperandsArrived ==
  ASSUME NEW w \in Warps, WarpStep(w)
  PROVE  Arrived(w, Needs(Instr(w)))
<1>1. CASE Write(w) \/ Multiply(w) \/ Calculate(w)
  BY <1>1 DEF Write, Multiply, Calculate, Issue, Needs
<1>2. CASE ~(Write(w) \/ Multiply(w) \/ Calculate(w))
  <2>1. Needs(Instr(w)) = {}
    BY <1>2 DEF WarpStep, Copy, Load, Read, WaitGroup, Arrive, Store, AdvanceBase, Issue, Needs
  <2> QED BY <2>1 DEF Arrived
<1> QED BY <1>1, <1>2

\* ... and for whatever it had started and its instruction ends.
LEMMA NothingEnded ==
  ASSUME SyncInv, NEW w \in Warps, WarpStep(w)
  PROVE  /\ \A i \in DOMAIN vm[w] : ~Ends(code, w, vm[w][i].at, pc[w])
         /\ \A i \in DOMAIN ds[w] : ~Ends(code, w, ds[w][i].at, pc[w])
<1> DEFINE k == pc[w]
           j == code[w][k]
<1>1. Arrived(w, Needs(j)) /\ StepShape(w)
  BY OperandsArrived, WarpStepShape DEF Instr
<1>2. ASSUME NEW i \in DOMAIN vm[w]
      PROVE  ~Ends(code, w, vm[w][i].at, k)
  <2> DEFINE d == vm[w][i]
  <2>1. EntryOK(code, w, k, d, VmOps)
    BY DEF SyncInv, QueueInv, QueueOK
  <2>2. d.kind = "load" => d.reg \notin Needs(j)
    BY <1>1 DEF Arrived
  <2>3. ASSUME d.kind = "copy", j.op = "wait"
        PROVE  ~(GroupsBefore(code, w, d.at) < GroupsBefore(code, w, k) - j.n)
    <3>1. WaitGroup(w)
      BY <2>3 DEF WarpStep, Copy, Load, Read, Write, Arrive, Multiply, Calculate, Store,
                  AdvanceBase, Issue, Instr
    <3>2. d.group >= committed[w] - j.n
      BY <2>3, <3>1 DEF WaitGroup, Instr
    <3>3. committed[w] = GroupsBefore(code, w, k) /\ committed[w] \in Nat
      BY DEF SyncInv, PositionInv, ShapeInv
    <3>4. d.group = GroupsBefore(code, w, d.at)
      BY <2>1, <2>3 DEF EntryOK
    <3>5. GroupsBefore(code, w, d.at) \in Nat
      BY <2>1, CountNext DEF EntryOK
    <3>6. j.n \in Nat
      BY <2>3, AtInstruction DEF Instr
    <3> QED BY ONLY <3>2, <3>3, <3>4, <3>5, <3>6
  <2> QED BY <2>1, <2>2, <2>3 DEF EntryOK, Ends, VmOps
<1>3. ASSUME NEW i \in DOMAIN ds[w]
      PROVE  ~Ends(code, w, ds[w][i].at, k)
  <2> DEFINE d == ds[w][i]
  <2>1. EntryOK(code, w, k, d, DsOps)
    BY DEF SyncInv, QueueInv, QueueOK
  <2>2. d.kind = "read" => d.reg \notin Needs(j)
    BY <1>1 DEF Arrived
  <2>3. ASSUME j.op = "barrier", j.local
        PROVE  FALSE
    <3>1. Arrive(w)
      BY <2>3 DEF WarpStep, Copy, Load, Read, Write, WaitGroup, Multiply, Calculate, Store,
                  AdvanceBase, Issue, Instr
    <3>2. ds[w] = <<>>
      BY <2>3, <3>1 DEF Arrive, Instr
    <3> QED BY <3>2
  <2> QED BY <2>1, <2>2, <2>3 DEF EntryOK, Ends, DsOps
<1> QED BY <1>2, <1>3

\* A warp step takes both queues of the warp along ...
LEMMA WarpStepQueues ==
  ASSUME SyncInv, NEW w \in Warps, WarpStep(w)
  PROVE  /\ QueueOK(code, w, pc[w] + 1, vm'[w], VmOps)
         /\ QueueOK(code, w, pc[w] + 1, ds'[w], DsOps)
<1> DEFINE k == pc[w]
<1>1. /\ StepShape(w) /\ k \in Nat \ {0}
      /\ DOMAIN vm = Warps /\ DOMAIN ds = Warps
      /\ committed[w] = GroupsBefore(code, w, k)
      /\ QueueOK(code, w, k, vm[w], VmOps) /\ QueueOK(code, w, k, ds[w], DsOps)
  BY WarpStepShape, AtInstruction DEF SyncInv, ShapeInv, PositionInv, QueueInv
<1>2. /\ \A i \in DOMAIN vm[w] : ~Ends(code, w, vm[w][i].at, k)
      /\ \A i \in DOMAIN ds[w] : ~Ends(code, w, ds[w][i].at, k)
  BY NothingEnded
<1>3. QueueOK(code, w, k + 1, vm'[w], VmOps)
  <2>1. CASE Instr(w).op \in VmOps
    <3>1. PICK d : Joins(d, w) /\ vm' = [vm EXCEPT ![w] = Append(@, d)]
      BY <1>1, <2>1 DEF StepShape
    <3>2. vm'[w] = Append(vm[w], d)
      BY <1>1, <3>1
    <3> QED BY <1>1, <1>2, <2>1, <3>1, <3>2, QueueAppend DEF Joins, Instr
  <2>2. CASE Instr(w).op \notin VmOps
    BY <1>1, <1>2, <2>2, QueueKeep DEF StepShape, Instr
  <2> QED BY <2>1, <2>2
<1>4. QueueOK(code, w, k + 1, ds'[w], DsOps)
  <2>1. CASE Instr(w).op \in DsOps
    <3>1. PICK d : Joins(d, w) /\ ds' = [ds EXCEPT ![w] = Append(@, d)]
      BY <1>1, <2>1 DEF StepShape
    <3>2. ds'[w] = Append(ds[w], d)
      BY <1>1, <3>1
    <3> QED BY <1>1, <1>2, <2>1, <3>1, <3>2, QueueAppend DEF Joins, Instr
  <2>2. CASE Instr(w).op \notin DsOps
    BY <1>1, <1>2, <2>2, QueueKeep DEF StepShape, Instr
  <2> QED BY <2>1, <2>2
<1> QED BY <1>3, <1>4

\* ... and the counters; it passes a barrier only behind all others.
LEMMA WarpStepSync ==
  ASSUME SyncInv, NEW w \in Warps, WarpStep(w)
  PROVE  SyncInv'
<1> DEFINE k == pc[w]
           i == Instr(w)
<1>1. /\ StepShape(w) /\ k \in Nat \ {0} /\ k \in 1 .. Len(code[w])
      /\ i.op = "advance" => i.n \in Nat
      /\ Len(code[w]) \in Nat
  BY WarpStepShape, AtInstruction, ProgramOK DEF SyncInv
<1>2. ShapeInv'
  <2>1. /\ config' = config /\ code' = code /\ pc' = [pc EXCEPT ![w] = @ + 1]
        /\ arrivals'  = [arrivals EXCEPT ![w] = @ + 1] \/ arrivals' = arrivals
        /\ committed' = [committed EXCEPT ![w] = @ + 1] \/ committed' = committed
    BY <1>1 DEF StepShape
  <2>2. base' \in [Warps -> Nat]
    <3>1. base' = base \/ (i.n \in Nat /\ base' = [base EXCEPT ![w] = @ + i.n])
      BY <1>1 DEF StepShape
    <3> QED BY <3>1 DEF SyncInv, ShapeInv
  <2>3. DOMAIN vm' = Warps /\ DOMAIN ds' = Warps
    <3>1. DOMAIN vm' = DOMAIN vm /\ DOMAIN ds' = DOMAIN ds
      BY <1>1 DEF StepShape
    <3> QED BY <3>1 DEF SyncInv, ShapeInv
  <2>4. ShapeInv
    BY DEF SyncInv
  <2> QED BY <2>1, <2>2, <2>3, <2>4 DEF ShapeInv
<1>3. PositionInv(w)'
  <2>1. ShapeInv /\ PositionInv(w)
    BY DEF SyncInv
  <2>2. /\ code' = code /\ pc'[w] = k + 1
        /\ arrivals'[w]  = IF i.op = "barrier" THEN arrivals[w] + 1 ELSE arrivals[w]
        /\ committed'[w] = IF i.op = "copy" THEN committed[w] + 1 ELSE committed[w]
        /\ base'[w]      = IF i.op = "advance" THEN base[w] + i.n ELSE base[w]
    BY <1>1, <2>1 DEF ShapeInv, StepShape
  <2>3. \A j \in 1 .. k : code[w][j].op = "advance" => code[w][j].n \in Nat
    <3>1. 1 .. k \subseteq DOMAIN code[w]
      BY <1>1, <2>1, ProgramOK
    <3> QED BY <2>1, <3>1, ProgramOK DEF IsProgram
  <2>4. BaseAt(code, w, k + 1) = IF i.op = "advance" THEN base[w] + i.n ELSE base[w]
    BY <1>1, <2>1, <2>3, BaseNext DEF PositionInv, Instr
  <2>5. /\ BarriersBefore(code, w, k + 1) = arrivals'[w]
        /\ GroupsBefore(code, w, k + 1) = committed'[w]
    <3>1. /\ arrivals[w] = BarriersBefore(code, w, k)
          /\ committed[w] = GroupsBefore(code, w, k)
          /\ i = code[w][k]
      BY <2>1 DEF PositionInv, Instr
    <3>2. k \in Nat \ {0}
      BY <1>1
    <3>3. /\ BarriersBefore(code, w, k + 1) = IF code[w][k].op = "barrier"
                THEN BarriersBefore(code, w, k) + 1 ELSE BarriersBefore(code, w, k)
          /\ GroupsBefore(code, w, k + 1) = IF code[w][k].op = "copy"
                THEN GroupsBefore(code, w, k) + 1 ELSE GroupsBefore(code, w, k)
      BY ONLY <3>2, CountNext
    <3> QED BY ONLY <2>2, <3>1, <3>3
  <2> QED BY <1>1, <2>2, <2>4, <2>5 DEF PositionInv
<1>4. QueueInv(w)'
  BY <1>1, WarpStepQueues DEF QueueInv, StepShape, SyncInv, ShapeInv
<1>5. ASSUME NEW v \in Warps, v # w
      PROVE  PositionInv(v)' /\ QueueInv(v)'
  <2>1. ShapeInv /\ PositionInv(v) /\ QueueInv(v)
    BY DEF SyncInv
  <2>2. /\ code' = code /\ pc'[v] = pc[v] /\ arrivals'[v] = arrivals[v]
        /\ committed'[v] = committed[v] /\ base'[v] = base[v]
        /\ vm'[v] = vm[v] /\ ds'[v] = ds[v]
    BY <1>1, <1>5, <2>1 DEF ShapeInv, StepShape
  <2> QED BY <2>1, <2>2 DEF PositionInv, QueueInv
<1>6. BarrierInv'
  <2> SUFFICES ASSUME NEW u \in Warps, NEW v \in Warps, NEW p \in 1 .. pc'[u] - 1
               PROVE  BarriersBefore(code, u, p) <= arrivals'[v]
    BY <1>1 DEF BarrierInv, StepShape
  <2>1. /\ pc' = [pc EXCEPT ![w] = k + 1] /\ pc \in [Warps -> Nat]
        /\ arrivals[v] \in Nat /\ arrivals'[v] \in Nat /\ arrivals[v] <= arrivals'[v]
    <3>1. pc' = [pc EXCEPT ![w] = k + 1]
      BY <1>1 DEF StepShape
    <3>2. arrivals' = [arrivals EXCEPT ![w] = @ + 1] \/ arrivals' = arrivals
      BY <1>1 DEF StepShape
    <3>3. pc \in [Warps -> Nat] /\ arrivals \in [Warps -> Nat]
      BY DEF SyncInv, ShapeInv
    <3> QED BY ONLY w \in Warps, v \in Warps, <3>1, <3>2, <3>3
  <2>2. BarriersBefore(code, u, p) \in Nat
    BY CountNext
  <2>3. CASE p \in 1 .. pc[u] - 1
    <3>1. BarriersBefore(code, u, p) <= arrivals[v]
      BY <2>3 DEF SyncInv, BarrierInv
    <3> QED BY <2>1, <2>2, <3>1
  <2>4. CASE p \notin 1 .. pc[u] - 1
    <3>1. u = w /\ p = k
      BY <2>1, <2>4
    <3>2. arrivals[w] <= arrivals[v] /\ arrivals[w] = BarriersBefore(code, w, k)
      BY <1>1 DEF StepShape, Released, SyncInv, PositionInv, ShapeInv
    <3> QED BY <2>1, <2>2, <3>1, <3>2
  <2> QED BY <2>3, <2>4
<1> QED BY <1>2, <1>3, <1>4, <1>5, <1>6 DEF SyncInv

\* A completion only takes the head off one queue.
LEMMA CompletionSync ==
  ASSUME SyncInv, NEW w \in Warps, VmComplete(w) \/ DsComplete(w)
  PROVE  SyncInv'
<1>1. /\ config' = config /\ code' = code /\ pc' = pc /\ base' = base
      /\ committed' = committed /\ arrivals' = arrivals
      /\ \/ vm[w] # <<>> /\ vm' = [vm EXCEPT ![w] = Tail(@)] /\ ds' = ds
         \/ ds[w] # <<>> /\ ds' = [ds EXCEPT ![w] = Tail(@)] /\ vm' = vm
  BY DEF VmComplete, DsComplete
<1>2. ShapeInv' /\ BarrierInv'
  BY <1>1 DEF SyncInv, ShapeInv, BarrierInv
<1>3. ASSUME NEW v \in Warps
      PROVE  PositionInv(v)' /\ QueueInv(v)'
  <2>1. /\ ShapeInv /\ PositionInv(v) /\ QueueInv(v) /\ pc[v] \in Nat \ {0}
        /\ DOMAIN vm = Warps /\ DOMAIN ds = Warps
    BY DEF SyncInv, PositionInv, ShapeInv
  <2>2. PositionInv(v)'
    BY <1>1, <2>1 DEF PositionInv
  <2>3. QueueOK(code, v, pc[v], vm'[v], VmOps)
    <3>1. vm'[v] = vm[v] \/ (vm[v] # <<>> /\ vm'[v] = Tail(vm[v]))
      BY <1>1, <2>1
    <3> QED BY <2>1, <3>1, QueueTail DEF QueueInv
  <2>4. QueueOK(code, v, pc[v], ds'[v], DsOps)
    <3>1. ds'[v] = ds[v] \/ (ds[v] # <<>> /\ ds'[v] = Tail(ds[v]))
      BY <1>1, <2>1
    <3> QED BY <2>1, <3>1, QueueTail DEF QueueInv
  <2> QED BY <1>1, <2>2, <2>3, <2>4 DEF QueueInv
<1> QED BY <1>2, <1>3 DEF SyncInv

\* Nothing changes the programs.
LEMMA CodeFixed == [Next]_vars => code' = code /\ config' = config
<1>1. \A w \in Warps : WarpStep(w) => code' = code /\ config' = config
  BY WarpStepShape DEF StepShape
<1>2. \A w \in Warps : VmComplete(w) \/ DsComplete(w) => code' = code /\ config' = config
  BY DEF VmComplete, DsComplete
<1> QED BY <1>1, <1>2 DEF Next, Terminated, vars

\* No warp is more than one barrier ahead of another, and the queues hold, in the
\* order of the program, what nothing has waited for yet: for every program.
LEMMA SyncInductive ==
  /\ Init => SyncInv
  /\ SyncInv /\ [Next]_vars => SyncInv'
<1>1. ASSUME Init PROVE SyncInv
  <2>1. ShapeInv
    BY <1>1 DEF Init, ShapeInv
  <2>2. ASSUME NEW w \in Warps
        PROVE  PositionInv(w) /\ QueueInv(w)
    <3>1. /\ pc[w] = 1 /\ base[w] = 0 /\ committed[w] = 0 /\ arrivals[w] = 0
          /\ vm[w] = <<>> /\ ds[w] = <<>> /\ Len(code[w]) \in Nat
      BY <1>1, <2>1, ProgramOK DEF Init
    <3>2. PositionInv(w)
      BY <3>1, CountFirst DEF PositionInv
    <3>3. \A ops : QueueOK(code, w, 1, <<>>, ops)
      BY DEF QueueOK, IsSeq
    <3> QED BY <3>1, <3>2, <3>3 DEF QueueInv
  <2>3. BarrierInv
    BY <1>1 DEF Init, BarrierInv
  <2> QED BY <2>1, <2>2, <2>3 DEF SyncInv
<1>2. ASSUME SyncInv, [Next]_vars PROVE SyncInv'
  <2>1. CASE UNCHANGED vars
    <3>1. /\ config' = config /\ code' = code /\ pc' = pc /\ base' = base
          /\ committed' = committed /\ arrivals' = arrivals /\ vm' = vm /\ ds' = ds
      BY <2>1 DEF vars
    <3> QED BY <1>2, <3>1 DEF SyncInv, ShapeInv, PositionInv, QueueInv, BarrierInv
  <2>2. CASE \E w \in Warps : WarpStep(w)
    BY <1>2, <2>2, WarpStepSync
  <2>3. CASE \E w \in Warps : VmComplete(w) \/ DsComplete(w)
    BY <1>2, <2>3, CompletionSync
  <2> QED BY <1>2, <2>1, <2>2, <2>3 DEF Next, Terminated
<1> QED BY <1>1, <1>2

\* So they are always that far, whatever the programs are.
LEMMA SyncAlways == Spec => []SyncInv
  BY SyncInductive, PTL DEF Spec

-----------------------------------------------------------------------------
(* Ordered accesses do not race.                                           *)

\* An access in flight: the instruction that started it, which is behind its
\* warp's program counter, and that none of those passed since ends it.
LEMMA InFlightEntry ==
  ASSUME SyncInv, NEW w \in Warps
  PROVE  /\ \A i \in DOMAIN vm[w] : EntryOK(code, w, pc[w], vm[w][i], VmOps)
         /\ \A i \in DOMAIN ds[w] : EntryOK(code, w, pc[w], ds[w][i], DsOps)
         /\ 1 .. pc[w] - 1 \subseteq Positions(code, w)
         /\ Unfinished(w) \subseteq 1 .. pc[w] - 1
<1>1. /\ \A i \in DOMAIN vm[w] : EntryOK(code, w, pc[w], vm[w][i], VmOps)
      /\ \A i \in DOMAIN ds[w] : EntryOK(code, w, pc[w], ds[w][i], DsOps)
  BY DEF SyncInv, QueueInv, QueueOK
<1>2. 1 .. pc[w] - 1 \subseteq Positions(code, w)
  BY ProgramOK DEF SyncInv, PositionInv, Positions
<1> QED BY <1>1, <1>2 DEF Unfinished, Started, EntryOK

\* What p started is over once a warp has passed an instruction that ends p and
\* lies behind p in the same program.
LEMMA OverAfterEnd ==
  ASSUME SyncInv, NEW w \in Warps, NEW p \in Positions(code, w),
         NEW e \in p + 1 .. pc[w] - 1, Ends(code, w, p, e)
  PROVE  p \in Finished(w)
<1>1. p \in 1 .. pc[w] - 1
  BY DEF Positions, SyncInv, ShapeInv
<1>2. p \notin Unfinished(w)
  BY InFlightEntry DEF EntryOK, Unfinished, Started
<1> QED BY <1>1, <1>2 DEF Finished

\* The order of the instructions holds at run time: when q of v has been issued,
\* what precedes it is over, unless both share a queue.
LEMMA PrecedesHolds ==
  ASSUME SyncInv, NEW w \in Warps, NEW v \in Warps,
         NEW p \in Positions(code, w), NEW q \in 1 .. pc[v] - 1,
         Precedes(code, w, p, v, q)
  PROVE  p \in Finished(w) \/ (v = w /\ InOrder(code, w, p, q))
<1>1. CASE v = w /\ InOrder(code, w, p, q)
  BY <1>1
<1>2. CASE ~(v = w /\ InOrder(code, w, p, q))
  <2>1. PICK e \in p + 1 .. Len(code[w]) :
          /\ Ends(code, w, p, e)
          /\ \/ v = w /\ e <= q
             \/ BarriersBefore(code, w, e) < BarriersBefore(code, v, q)
    BY <1>2 DEF Precedes
  <2>2. /\ pc[w] \in Nat \ {0} /\ arrivals[w] = BarriersBefore(code, w, pc[w])
        /\ pc[v] \in Nat \ {0} /\ p \in Nat \ {0} /\ e \in Nat \ {0} /\ q \in Nat \ {0}
    <3>1. /\ pc[w] \in 1 .. Len(code[w]) + 1 /\ arrivals[w] = BarriersBefore(code, w, pc[w])
          /\ pc[v] \in 1 .. Len(code[v]) + 1
      BY DEF SyncInv, PositionInv
    <3>2. Len(code[w]) \in Nat /\ Len(code[v]) \in Nat
      BY ProgramOK DEF SyncInv
    <3>3. p \in Nat \ {0} /\ e \in Nat \ {0} /\ q \in Nat \ {0}
      BY <2>1 DEF Positions
    <3> QED BY <3>1, <3>2, <3>3
  <2>3. e <= pc[w] - 1
    <3>1. CASE v = w /\ e <= q
      BY <2>2, <3>1
    <3>2. CASE BarriersBefore(code, w, e) < BarriersBefore(code, v, q)
      <4>1. BarriersBefore(code, v, q) <= BarriersBefore(code, w, pc[w])
        BY <2>2 DEF SyncInv, BarrierInv
      <4>2. /\ BarriersBefore(code, v, q) \in Nat /\ BarriersBefore(code, w, e) \in Nat
            /\ BarriersBefore(code, w, pc[w]) \in Nat
        BY <2>2, CountNext
      <4>3. pc[w] <= e => BarriersBefore(code, w, pc[w]) <= BarriersBefore(code, w, e)
        BY <2>2, BarriersMonotone
      <4> QED BY ONLY <2>2, <3>2, <4>1, <4>2, <4>3
    <3> QED BY <2>1, <3>1, <3>2
  <2> QED BY <2>1, <2>2, <2>3, OverAfterEnd
<1> QED BY <1>1, <1>2

\* Neither do two accesses race in a state of an ordered program.
LEMMA OrderedNoRace == SyncInv /\ AccessesOrdered(code) => NoDataRace
<1> SUFFICES ASSUME SyncInv, AccessesOrdered(code), NEW w \in Warps, NEW v \in Warps,
                    NEW i \in DOMAIN ds[w], ds[w][i].kind = "read"
             PROVE  /\ \A j \in DOMAIN vm[v] : vm[v][j].kind = "copy" =>
                          ds[w][i].slots \cap vm[v][j].slots = {}
                    /\ v # w => \A j \in DOMAIN ds[v] : ds[v][j].kind = "write" =>
                          ds[w][i].slots \cap ds[v][j].slots = {}
  BY DEF NoDataRace, InFlight
<1> DEFINE p == ds[w][i].at
<1>1. /\ p \in Positions(code, w) /\ p \in 1 .. pc[w] - 1 /\ p \in Unfinished(w)
      /\ code[w][p].op = "read" /\ code[w][p].slots = ds[w][i].slots
  BY InFlightEntry DEF EntryOK, Unfinished, Started
<1>2. ASSUME NEW q \in 1 .. pc[v] - 1, q \in Unfinished(v),
             ds[w][i].slots \cap Fills(code[v][q]) # {}
      PROVE  v = w /\ (InOrder(code, w, p, q) \/ InOrder(code, w, q, p))
  <2>1. q \in Positions(code, v)
    BY InFlightEntry
  <2>2. Precedes(code, w, p, v, q) \/ Precedes(code, v, q, w, p)
    BY <1>1, <1>2, <2>1 DEF AccessesOrdered
  <2>3. p \notin Finished(w) /\ q \notin Finished(v)
    BY <1>1, <1>2 DEF Finished
  <2> HIDE DEF p
  <2> QED BY <1>1, <2>1, <2>2, <2>3, PrecedesHolds
<1>3. ASSUME NEW j \in DOMAIN vm[v], vm[v][j].kind = "copy",
             ds[w][i].slots \cap vm[v][j].slots # {}
      PROVE  FALSE
  <2> DEFINE q == vm[v][j].at
  <2>1. /\ q \in 1 .. pc[v] - 1 /\ q \in Unfinished(v)
        /\ code[v][q].op = "copy" /\ Fills(code[v][q]) = vm[v][j].slots
    BY <1>3, InFlightEntry DEF EntryOK, Unfinished, Started, Fills
  <2>2. v = w /\ (InOrder(code, w, p, q) \/ InOrder(code, w, q, p))
    BY <1>2, <1>3, <2>1
  <2> QED BY <1>1, <2>1, <2>2 DEF InOrder
<1>4. ASSUME v # w, NEW j \in DOMAIN ds[v], ds[v][j].kind = "write",
             ds[w][i].slots \cap ds[v][j].slots # {}
      PROVE  FALSE
  <2> DEFINE q == ds[v][j].at
  <2>1. /\ q \in 1 .. pc[v] - 1 /\ q \in Unfinished(v)
        /\ code[v][q].op = "write" /\ Fills(code[v][q]) = ds[v][j].slots
    BY <1>4, InFlightEntry DEF EntryOK, Unfinished, Started, Fills
  <2> QED BY <1>2, <1>4, <2>1
<1> QED BY <1>3, <1>4

\* On any number of warps, any programs whose LDS reads the waits and barriers
\* order with everything that fills the slots they read never have a read in
\* flight together with a fill of its slot, in whatever order copies and LDS
\* accesses complete (NoDataRace).
THEOREM RaceFree == Spec /\ AccessesOrdered(code) => []NoDataRace
<1>1. AccessesOrdered(code) /\ [Next]_vars => AccessesOrdered(code)'
  <2>1. [Next]_vars => code' = code
    BY CodeFixed
  <2> QED BY <2>1
<1> QED BY <1>1, SyncAlways, OrderedNoRace, PTL DEF Spec
=============================================================================
