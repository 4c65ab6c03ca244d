--------------------------- MODULE DataflowProofs ---------------------------
(***************************************************************************)
(* Every kernel that is disciplined computes its sums in order, and of     *)
(* K-steps that exist, on the LDS machine: what the static dataflow of     *)
(* Discipline says of an instruction is what happens whenever the machine  *)
(* executes it (FlowInv).                                                  *)
(***************************************************************************)
EXTENDS LdsMachineProofs, WellFoundedInduction

-----------------------------------------------------------------------------
(* Last instructions.                                                      *)

\* A set of naturals that is not empty has a least element, ...
LEMMA Least ==
  ASSUME NEW T, T \subseteq Nat, T # {}
  PROVE  \E x \in T : \A y \in T : x <= y
<1> DEFINE Less == {p \in Nat \X Nat : p[1] < p[2]}
<1>1. IsWellFoundedOn(Less, Nat)
  BY NatLessThanWellFounded DEF OpToRel
<1> HIDE DEF Less
<1>2. PICK x \in T : \A y \in T : <<y, x>> \notin Less
  BY <1>1, WFMin
<1>3. \A y \in T : ~(y < x)
  BY <1>2 DEF Less
<1> QED BY <1>3

\* ... so that a bounded one has a greatest, which is its last.
LEMMA LastIsLatest ==
  ASSUME NEW n \in Nat, NEW P, P \subseteq 1 .. n, LastOf(P) # 0
  PROVE  Latest(P, LastOf(P))
<1>1. P # {} /\ LastOf(P) = Max(P)
  BY DEF LastOf
<1> DEFINE T == {n - x : x \in P}
<1>2. T \subseteq Nat /\ T # {}
  <2>1. \A x \in P : n - x \in Nat
    OBVIOUS
  <2>2. PICK x : x \in P
    BY <1>1
  <2>3. n - x \in T
    BY <2>2
  <2> QED BY <2>1, <2>3
<1>3. PICK t \in T : \A y \in T : t <= y
  BY <1>2, Least
<1>4. PICK x \in P : t = n - x
  OBVIOUS
<1>5. \A y \in P : x >= y
  <2> TAKE y \in P
  <2>1. n - x <= n - y
    BY <1>3, <1>4
  <2>2. n \in Int /\ x \in Int /\ y \in Int
    OBVIOUS
  <2> QED BY ONLY <2>1, <2>2
<1>6. Max(P) \in P /\ \A y \in P : Max(P) >= y
  BY <1>5 DEF Max
<1> QED BY <1>1, <1>6 DEF Latest

-----------------------------------------------------------------------------
(* What is finished.                                                       *)

\* What a queue has started after something joined it, ...
LEMMA StartedAppend ==
  ASSUME NEW q, IsSeq(q), NEW d
  PROVE  Started(Append(q, d)) = Started(q) \cup {d.at}
<1> DEFINE a == Append(q, d)
           n == Len(q)
<1>1. /\ n \in Nat /\ DOMAIN q = 1 .. n /\ DOMAIN a = 1 .. n + 1
      /\ \A i \in 1 .. n : a[i] = q[i]
      /\ a[n + 1] = d
  BY AppendSeq
<1> HIDE DEF a, n
<1>2. DOMAIN a = DOMAIN q \cup {n + 1}
  BY <1>1
<1>3. Started(a) = Started(q) \cup {d.at}
  BY <1>1, <1>2 DEF Started
<1> QED BY <1>3 DEF a

\* ... and after its head, the oldest instruction in it, left it.
LEMMA StartedTail ==
  ASSUME NEW c, NEW w, NEW k \in Nat \ {0}, NEW q, NEW ops, QueueOK(c, w, k, q, ops),
         q # <<>>
  PROVE  /\ Head(q) = q[1] /\ 1 \in DOMAIN q
         /\ Head(q).at \notin Started(Tail(q))
         /\ Started(q) = Started(Tail(q)) \cup {Head(q).at}
         /\ \A p \in Started(q) : Head(q).at <= p
<1> DEFINE t == Tail(q)
           n == Len(q)
<1>1. /\ n \in Nat \ {0} /\ DOMAIN q = 1 .. n /\ DOMAIN t = 1 .. n - 1
      /\ Head(q) = q[1]
      /\ \A i \in 1 .. n - 1 : t[i] = q[i + 1]
  BY TailSeq DEF QueueOK
<1>2. \A i \in DOMAIN q : q[i].at \in Nat /\ (i # 1 => q[1].at < q[i].at)
  BY <1>1 DEF QueueOK, EntryOK
<1> HIDE DEF t, n
<1>3. \A i \in DOMAIN t : i + 1 \in DOMAIN q /\ i + 1 # 1 /\ t[i] = q[i + 1]
  BY <1>1
<1>4. \A i \in DOMAIN q : i = 1 \/ (i - 1 \in DOMAIN t /\ t[i - 1] = q[i])
  BY <1>1
<1>5. q[1].at \notin Started(t)
  BY <1>1, <1>2, <1>3 DEF Started
<1>6. Started(q) \subseteq Started(t) \cup {q[1].at}
  BY <1>4 DEF Started
<1>7. Started(t) \cup {q[1].at} \subseteq Started(q)
  BY <1>1, <1>3 DEF Started
<1>8. \A p \in Started(q) : q[1].at <= p
  BY <1>1, <1>2 DEF Started
<1> QED BY <1>1, <1>5, <1>6, <1>7, <1>8 DEF t

\* A warp step finishes its own instruction, unless that joins a queue.
LEMMA FinishedByStep ==
  ASSUME SyncInv, NEW w \in Warps, WarpStep(w)
  PROVE  /\ \A v \in Warps : v # w => pc'[v] = pc[v] /\ Finished(v)' = Finished(v)
         /\ pc'[w] = pc[w] + 1 /\ pc[w] \notin Finished(w)
         /\ Finished(w)' = IF Instr(w).op \in VmOps \cup DsOps THEN Finished(w)
                                                              ELSE Finished(w) \cup {pc[w]}
<1> DEFINE k == pc[w]
<1>1. /\ StepShape(w) /\ k \in Nat \ {0}
      /\ DOMAIN vm = Warps /\ DOMAIN ds = Warps /\ pc \in [Warps -> Nat]
      /\ QueueOK(code, w, k, vm[w], VmOps) /\ QueueOK(code, w, k, ds[w], DsOps)
      /\ Unfinished(w) \subseteq 1 .. k - 1
  BY WarpStepShape, AtInstruction, InFlightEntry DEF SyncInv, ShapeInv, QueueInv
<1>2. ASSUME NEW v \in Warps, v # w
      PROVE  pc'[v] = pc[v] /\ Finished(v)' = Finished(v)
  <2>1. pc'[v] = pc[v] /\ vm'[v] = vm[v] /\ ds'[v] = ds[v]
    BY <1>1, <1>2 DEF StepShape
  <2> QED BY <2>1 DEF Finished, Unfinished
<1>3. pc'[w] = k + 1 /\ 1 .. (k + 1) - 1 = (1 .. k - 1) \cup {k} /\ k \notin 1 .. k - 1
  BY <1>1 DEF StepShape
<1>4. Started(vm'[w]) = IF Instr(w).op \in VmOps THEN Started(vm[w]) \cup {k} ELSE Started(vm[w])
  <2>1. CASE Instr(w).op \in VmOps
    <3>1. PICK d : Joins(d, w) /\ vm' = [vm EXCEPT ![w] = Append(@, d)]
      BY <1>1, <2>1 DEF StepShape
    <3>2. vm'[w] = Append(vm[w], d) /\ d.at = k
      BY <1>1, <3>1 DEF Joins
    <3>3. Started(Append(vm[w], d)) = Started(vm[w]) \cup {d.at}
      BY <1>1, StartedAppend DEF QueueOK
    <3> QED BY <2>1, <3>2, <3>3
  <2> QED BY <1>1, <2>1 DEF StepShape
<1>5. Started(ds'[w]) = IF Instr(w).op \in DsOps THEN Started(ds[w]) \cup {k} ELSE Started(ds[w])
  <2>1. CASE Instr(w).op \in DsOps
    <3>1. PICK d : Joins(d, w) /\ ds' = [ds EXCEPT ![w] = Append(@, d)]
      BY <1>1, <2>1 DEF StepShape
    <3>2. ds'[w] = Append(ds[w], d) /\ d.at = k
      BY <1>1, <3>1 DEF Joins
    <3>3. Started(Append(ds[w], d)) = Started(ds[w]) \cup {d.at}
      BY <1>1, StartedAppend DEF QueueOK
    <3> QED BY <2>1, <3>2, <3>3
  <2> QED BY <1>1, <2>1 DEF StepShape
<1>6. Unfinished(w)' = IF Instr(w).op \in VmOps \cup DsOps THEN Unfinished(w) \cup {k}
                                                           ELSE Unfinished(w)
  BY <1>4, <1>5 DEF Unfinished
<1>7. /\ pc[w] \notin Finished(w)
      /\ Finished(w)' = IF Instr(w).op \in VmOps \cup DsOps THEN Finished(w)
                                                            ELSE Finished(w) \cup {k}
  BY <1>1, <1>3, <1>6 DEF Finished
<1> QED BY <1>2, <1>3, <1>7

\* A completion finishes the instruction that started the access.
LEMMA FinishedByCompletion ==
  ASSUME SyncInv, NEW w \in Warps, NEW q, NEW ops,
         \/ VmComplete(w) /\ q = vm[w] /\ ops = VmOps
         \/ DsComplete(w) /\ q = ds[w] /\ ops = DsOps
  PROVE  /\ pc' = pc /\ Head(q) = q[1] /\ 1 \in DOMAIN q
         /\ \A v \in Warps : v # w => Finished(v)' = Finished(v)
         /\ EntryOK(code, w, pc[w], Head(q), ops)
         /\ Head(q).at \in Unfinished(w)
         /\ \A p \in Started(q) : Head(q).at <= p
         /\ Finished(w)' = Finished(w) \cup {Head(q).at}
<1> DEFINE p == Head(q).at
<1>1. /\ DOMAIN vm = Warps /\ DOMAIN ds = Warps /\ pc[w] \in Nat \ {0}
      /\ QueueOK(code, w, pc[w], vm[w], VmOps) /\ QueueOK(code, w, pc[w], ds[w], DsOps)
  BY DEF SyncInv, ShapeInv, PositionInv, QueueInv
<1>2. /\ pc' = pc /\ q # <<>>
      /\ \/ q = vm[w] /\ vm' = [vm EXCEPT ![w] = Tail(@)] /\ ds' = ds
         \/ q = ds[w] /\ ds' = [ds EXCEPT ![w] = Tail(@)] /\ vm' = vm
  BY DEF VmComplete, DsComplete
<1>3. QueueOK(code, w, pc[w], q, ops)
  BY <1>1
<1>4. /\ Head(q) = q[1] /\ 1 \in DOMAIN q /\ p \notin Started(Tail(q))
      /\ Started(q) = Started(Tail(q)) \cup {p}
      /\ \A x \in Started(q) : p <= x
  BY <1>1, <1>2, <1>3, StartedTail
<1>5. EntryOK(code, w, pc[w], Head(q), ops)
  BY <1>3, <1>4 DEF QueueOK
<1>6. \A v \in Warps : v # w => Finished(v)' = Finished(v)
  BY <1>1, <1>2 DEF Finished, Unfinished
<1>7. Started(vm[w]) \cap Started(ds[w]) = {}
  <2>1. \A x \in Started(vm[w]) : code[w][x].op \in VmOps
    BY <1>1 DEF QueueOK, EntryOK, Started
  <2>2. \A x \in Started(ds[w]) : code[w][x].op \in DsOps
    BY <1>1 DEF QueueOK, EntryOK, Started
  <2> QED BY <2>1, <2>2 DEF VmOps, DsOps
<1>8. Unfinished(w)' = Unfinished(w) \ {p} /\ p \in Unfinished(w)
  BY <1>1, <1>2, <1>4, <1>7 DEF Unfinished
<1>9. p \in 1 .. pc[w] - 1
  BY <1>5 DEF EntryOK
<1>10. Finished(w)' = Finished(w) \cup {p}
  BY <1>2, <1>8, <1>9 DEF Finished
<1> QED BY <1>2, <1>4, <1>5, <1>6, <1>8, <1>10

-----------------------------------------------------------------------------
(* What the machine has in flight and in registers is what is expected.    *)

\* What is behind an unfinished instruction in its queue is unfinished as well.
LEMMA BehindUnfinished ==
  ASSUME SyncInv, NEW w \in Warps, NEW p \in Unfinished(w), NEW q \in 1 .. pc[w] - 1,
         InOrder(code, w, p, q)
  PROVE  q \in Unfinished(w)
<1>1. /\ QueueOK(code, w, pc[w], vm[w], VmOps) /\ QueueOK(code, w, pc[w], ds[w], DsOps)
      /\ p \in 1 .. pc[w] - 1 /\ q \in p + 1 .. pc[w] - 1
  BY InFlightEntry DEF SyncInv, QueueInv, InOrder
<1>2. CASE p \in Started(vm[w])
  <2>1. PICK i \in DOMAIN vm[w] : vm[w][i].at = p
    BY <1>2 DEF Started
  <2>2. code[w][p].op \in VmOps
    BY <1>1, <2>1 DEF QueueOK, EntryOK
  <2>3. code[w][q].op \in VmOps
    BY <2>2 DEF InOrder, VmOps
  <2>4. \E j \in DOMAIN vm[w] : vm[w][j].at = q
    BY <1>1, <2>1, <2>3 DEF QueueOK
  <2> QED BY <2>4 DEF Unfinished, Started
<1>3. CASE p \in Started(ds[w])
  <2>1. PICK i \in DOMAIN ds[w] : ds[w][i].at = p
    BY <1>3 DEF Started
  <2>2. code[w][p].op \in DsOps
    BY <1>1, <2>1 DEF QueueOK, EntryOK
  <2>3. code[w][q].op \in DsOps
    BY <2>2 DEF InOrder, DsOps
  <2>4. \E j \in DOMAIN ds[w] : ds[w][j].at = q
    BY <1>1, <2>1, <2>3 DEF QueueOK
  <2> QED BY <2>4 DEF Unfinished, Started
<1> QED BY <1>2, <1>3 DEF Unfinished

\* An access that finishes late does not undo a later one: what an unfinished
\* instruction is about to deliver or to fill, no later one has finished.
LEMMA NewResultIsLatest ==
  ASSUME SyncInv, ResultsOrdered(code), NEW w \in Warps, NEW p \in Unfinished(w),
         NEW q \in Finished(w),
         \/ Fills(code[w][p]) \cap Fills(code[w][q]) # {}
         \/ Delivers(code[w][p]) \cap Delivers(code[w][q]) # {}
  PROVE  q <= p
<1> SUFFICES ASSUME ~(q <= p) PROVE FALSE
  OBVIOUS
<1>1. /\ p \in 1 .. pc[w] - 1 /\ q \in 1 .. pc[w] - 1 /\ q \notin Unfinished(w)
      /\ p \in Positions(code, w) /\ q \in Positions(code, w)
  BY InFlightEntry DEF Finished
<1>2. code[w][p].op # "compute"
  BY InFlightEntry DEF Unfinished, Started, EntryOK, VmOps, DsOps
<1>3. p < q
  BY <1>1
<1>4. Precedes(code, w, p, w, q)
  BY <1>1, <1>2, <1>3 DEF ResultsOrdered
<1>5. p \notin Finished(w)
  BY DEF Finished
<1>6. InOrder(code, w, p, q)
  BY <1>1, <1>4, <1>5, PrecedesHolds
<1> QED BY <1>1, <1>6, BehindUnfinished

\* An operand that has arrived is the latest result for its register.
LEMMA RegHeld ==
  ASSUME SyncInv, TypeInv, OperandsDelivered(code), NEW w \in Warps, RegInv(w), WarpStep(w),
         NEW r \in Needs(Instr(w))
  PROVE  /\ r \in DOMAIN reg[w]
         /\ reg[w][r] = TileOf(code)[<<w, Definition(code, w, pc[w], r)>>]
<1> DEFINE k == pc[w]
           P == {p \in 1 .. k - 1 : r \in Delivers(code[w][p])}
           D == Definition(code, w, k, r)
<1>1. k \in Positions(code, w) /\ k \in Nat \ {0} /\ Arrived(w, Needs(code[w][k]))
  BY AtInstruction, OperandsArrived DEF Positions, Instr
<1>2. D # 0
  BY <1>1 DEF OperandsDelivered, Instr
<1>3. Latest(P, D)
  <2>1. D = LastOf(P) /\ P \subseteq 1 .. k - 1 /\ k - 1 \in Nat
    BY <1>1 DEF Definition
  <2> HIDE DEF P, D, k
  <2> QED BY <1>2, <2>1, LastIsLatest
<1> HIDE DEF D
<1>4. /\ D \in 1 .. k - 1 /\ r \in Delivers(code[w][D])
      /\ code[w][D].op \in {"read", "load", "compute"}
      /\ code[w][D].op \in {"read", "load"} => code[w][D].reg = r
  BY <1>3 DEF Latest, Delivers
<1>5. D \notin Unfinished(w)
  <2>1. D \notin Started(vm[w])
    BY <1>1, <1>4, InFlightEntry DEF Started, EntryOK, Arrived, VmOps, Instr
  <2>2. D \notin Started(ds[w])
    BY <1>1, <1>4, InFlightEntry DEF Started, EntryOK, Arrived, DsOps, Instr
  <2> QED BY <2>1, <2>2 DEF Unfinished
<1>6. Latest({q \in Finished(w) : r \in Delivers(code[w][q])}, D)
  BY <1>3, <1>5 DEF Latest, Finished
<1>7. r \in DOMAIN reg[w]
  <2>1. D \in DOMAIN code[w]
    BY <1>1, <1>4, ProgramOK DEF SyncInv, Positions
  <2>2. code[w][D] \in UNION {ToSet(code[v]) : v \in Warps}
    BY <2>1 DEF ToSet
  <2>3. r \in Mentioned(code[w][D])
    BY <1>4 DEF Mentioned, Delivers
  <2> QED BY <1>4, <2>2, <2>3 DEF TypeInv, AllOf
<1> QED BY <1>4, <1>6, <1>7 DEF RegInv, D

\* Whatever an LDS access is to, something fills it.
LEMMA SlotsAreFilled ==
  ASSUME SyncInv, OperandsDelivered(code), NEW w \in Warps, NEW p \in Positions(code, w),
         code[w][p].op \in DsOps, NEW s \in code[w][p].slots
  PROVE  s \in AllOf({"copy", "write"})
<1>1. ASSUME NEW v \in Warps, NEW q \in Positions(code, v), s \in Fills(code[v][q])
      PROVE  s \in AllOf({"copy", "write"})
  <2>1. q \in DOMAIN code[v]
    BY ProgramOK DEF SyncInv, Positions
  <2>2. code[v][q] \in UNION {ToSet(code[u]) : u \in Warps}
    BY <2>1 DEF ToSet
  <2>3. code[v][q].op \in {"copy", "write"} /\ s \in Mentioned(code[v][q])
    BY <1>1 DEF Mentioned, Fills
  <2> QED BY <2>2, <2>3 DEF AllOf
<1>2. CASE code[w][p].op = "write"
  BY <1>1, <1>2 DEF Fills
<1>3. CASE code[w][p].op = "read"
  <2> DEFINE P == {q \in Positions(code, w) : s \in Fills(code[w][q])
                                              /\ Precedes(code, w, q, w, p)}
             Q == Source(code, w, p, s, w)
  <2>1. Q # 0
    BY <1>3 DEF OperandsDelivered
  <2>2. Len(code[w]) \in Nat
    BY ProgramOK DEF SyncInv
  <2>3. Q = LastOf(P) /\ P \subseteq 1 .. Len(code[w])
    BY DEF Source, Positions
  <2> HIDE DEF Q, P
  <2>4. Q \in P
    BY <2>1, <2>2, <2>3, LastIsLatest DEF Latest
  <2> QED BY <1>1, <2>4 DEF P
<1> QED BY <1>2, <1>3 DEF DsOps

\* A read that completes finds in every part of its slots what the last fill
\* before it put there.
LEMMA ReadSees ==
  ASSUME SyncInv, TypeInv, AccessesOrdered(code), OperandsDelivered(code),
         NEW w \in Warps, DsComplete(w), Head(ds[w]).kind = "read",
         NEW s \in Head(ds[w]).slots, NEW v \in Warps, LdsInv(v)
  PROVE  /\ s \in DOMAIN lds
         /\ lds[s][v] = TileOf(code)[<<v, Source(code, w, Head(ds[w]).at, s, v)>>]
<1> DEFINE d == Head(ds[w])
           p == d.at
           P == {q \in Positions(code, v) : s \in Fills(code[v][q]) /\ Precedes(code, v, q, w, p)}
           Q == Source(code, w, p, s, v)
<1>1. /\ EntryOK(code, w, pc[w], d, DsOps) /\ p \in Unfinished(w)
      /\ \A x \in Started(ds[w]) : p <= x
  BY FinishedByCompletion
<1>2. /\ p \in 1 .. pc[w] - 1 /\ p \in Positions(code, w) /\ p \notin Finished(w)
      /\ code[w][p].op = "read" /\ code[w][p].slots = d.slots
  BY <1>1, InFlightEntry DEF EntryOK, Finished
<1>3. Latest(P, Q)
  <2>1. Len(code[v]) \in Nat
    BY ProgramOK DEF SyncInv
  <2>2. Q = LastOf(P) /\ P \subseteq 1 .. Len(code[v])
    BY DEF Source, Positions
  <2>3. Q # 0
    BY <1>2 DEF OperandsDelivered
  <2> HIDE DEF P, Q, p, d
  <2> QED BY <2>1, <2>2, <2>3, LastIsLatest
<1> HIDE DEF Q
<1>4. /\ Q \in Positions(code, v) /\ s \in Fills(code[v][Q])
      /\ Precedes(code, v, Q, w, p)
      /\ code[v][Q].op \in {"copy", "write"} /\ s \in code[v][Q].slots
  BY <1>3 DEF Latest, Fills
<1>5. Q \in Finished(v)
  <2>1. CASE w = v /\ InOrder(code, v, Q, p)
    <3>1. Q < p /\ code[v][Q].op = "write"
      BY <1>2, <1>4, <2>1 DEF InOrder
    <3>2. Q \notin Started(ds[w])
      BY <1>1, <1>2, <1>4, <3>1 DEF Positions
    <3>3. Q \notin Started(vm[w])
      BY <2>1, <3>1, InFlightEntry DEF Started, EntryOK, VmOps
    <3>4. Q \in 1 .. pc[w] - 1
      <4>1. pc[w] \in Nat /\ Q \in Nat \ {0}
        BY <1>4 DEF SyncInv, ShapeInv, Positions
      <4> HIDE DEF p
      <4> QED BY <1>2, <3>1, <4>1
    <3> QED BY <2>1, <3>2, <3>3, <3>4 DEF Finished, Unfinished
  <2>2. CASE ~(w = v /\ InOrder(code, v, Q, p))
    BY <1>2, <1>4, <2>2, PrecedesHolds
  <2> QED BY <2>1, <2>2
<1>6. ASSUME NEW q \in Finished(v), s \in Fills(code[v][q])
      PROVE  q <= Q
  <2>1. q \in 1 .. pc[v] - 1 /\ q \in Positions(code, v) /\ q \notin Unfinished(v)
    BY InFlightEntry DEF Finished
  <2>2. code[w][p].slots \cap Fills(code[v][q]) # {}
    BY <1>2, <1>6
  <2>3. CASE Precedes(code, w, p, v, q)
    <3>1. v = w /\ InOrder(code, w, p, q)
      BY <1>2, <2>1, <2>3, PrecedesHolds
    <3> QED BY <1>1, <2>1, <3>1, BehindUnfinished
  <2>4. CASE Precedes(code, v, q, w, p)
    <3>1. q \in P
      BY <1>6, <2>1, <2>4
    <3> QED BY <1>3, <3>1 DEF Latest
  <2> QED BY <1>2, <2>1, <2>2, <2>3, <2>4 DEF AccessesOrdered
<1>7. Latest({q \in Finished(v) : s \in Fills(code[v][q])}, Q)
  BY <1>4, <1>5, <1>6 DEF Latest
<1>8. s \in DOMAIN lds
  BY <1>2, SlotsAreFilled DEF TypeInv, DsOps
<1>9. Q \in 1 .. pc[v] - 1
  BY <1>5 DEF Finished
<1> QED BY <1>7, <1>8, <1>9 DEF LdsInv, Q

-----------------------------------------------------------------------------
(* FlowInv is inductive.                                                   *)

\* What a warp step does to data.
StepData(w) ==
    LET i == Instr(w)
    IN  /\ lds' = lds
        /\ reg' = IF i.op = "compute"
                  THEN [reg EXCEPT ![w] = [r \in DOMAIN @ |->
                           IF r \in i.to THEN UNION {@[s] : s \in i.from} ELSE @[r]]]
                  ELSE reg
        /\ acc' = IF i.op = "mfma"
                  THEN [acc EXCEPT ![<<w, i.tile>>] =
                           Append(@, <<UNION {reg[w][r] : r \in i.a},
                                       UNION {reg[w][r] : r \in i.b}>>)]
                  ELSE acc
        /\ out' = IF i.op = "store"
                  THEN [t \in DOMAIN out |->
                           IF t[1] = w /\ t[2] \in i.tiles THEN acc[t] ELSE out[t]]
                  ELSE out

\* Every action of a warp is such a step.
LEMMA WarpStepData ==
  ASSUME NEW w \in Warps, WarpStep(w)
  PROVE  StepData(w)
<1> USE DEF StepData, Issue
<1>1. CASE Calculate(w)
  BY <1>1 DEF Calculate
<1>2. CASE Multiply(w)
  BY <1>2 DEF Multiply
<1>3. CASE Store(w)
  BY <1>3 DEF Store
<1>4. CASE Copy(w) \/ Load(w) \/ Read(w) \/ Write(w) \/ WaitGroup(w) \/ Arrive(w)
           \/ AdvanceBase(w)
  BY <1>4 DEF Copy, Load, Read, Write, WaitGroup, Arrive, AdvanceBase
<1> QED BY <1>1, <1>2, <1>3, <1>4 DEF WarpStep

\* What an instruction yields, in the cases of an operand.
LEMMA YieldOf ==
  ASSUME SyncInv, TilesFlow(code), NEW w \in Warps, NEW p \in Positions(code, w)
  PROVE  LET i == code[w][p]
             T == TileOf(code)
         IN  /\ i.op \in VmOps => T[<<w, p>>] = Fetched(BaseAt(code, w, p), i.ahead)
             /\ i.op \in {"write", "compute"} => T[<<w, p>>] = Held(code, T, w, p, Needs(i))
             /\ i.op = "read" => T[<<w, p>>] = UNION {T[<<v, Source(code, w, p, s, v)>>] :
                                                         s \in i.slots, v \in Warps}
<1> DEFINE T == TileOf(code)
<1>1. <<w, p>> \in InstructionsOf(code)
  BY DEF InstructionsOf
<1>2. T[<<w, p>>] = Yield(code, T, w, p)
  BY <1>1 DEF TilesFlow
<1> HIDE DEF T
<1>3. LET i == code[w][p]
      IN  /\ i.op \in VmOps => T[<<w, p>>] = Fetched(BaseAt(code, w, p), i.ahead)
          /\ i.op \in {"write", "compute"} => T[<<w, p>>] = Held(code, T, w, p, Needs(i))
          /\ i.op = "read" => T[<<w, p>>] = UNION {T[<<v, Source(code, w, p, s, v)>>] :
                                                      s \in i.slots, v \in Warps}
  BY <1>2 DEF Yield, VmOps
<1> QED BY <1>3 DEF T

\* A warp step finds in its operands the tiles that the dataflow has there.
LEMMA OperandsHeld ==
  ASSUME SyncInv, TypeInv, OperandsDelivered(code), NEW w \in Warps, RegInv(w), WarpStep(w),
         NEW R, R \subseteq Needs(Instr(w))
  PROVE  UNION {reg[w][r] : r \in R} = Held(code, TileOf(code), w, pc[w], R)
<1>1. \A r \in R : reg[w][r] = TileOf(code)[<<w, Definition(code, w, pc[w], r)>>]
  BY RegHeld
<1> QED BY <1>1 DEF Held

\* A warp step leaves slots alone, ...
LEMMA LdsInvStep ==
  ASSUME SyncInv, NEW w \in Warps, WarpStep(w), NEW v \in Warps, LdsInv(v)
  PROVE  LdsInv(v)'
<1>1. code' = code /\ lds' = lds
  BY WarpStepShape, WarpStepData DEF StepShape, StepData
<1>2. \A s : {q \in Finished(v)' : s \in Fills(code[v][q])}
             = {q \in Finished(v) : s \in Fills(code[v][q])}
  BY FinishedByStep DEF Fills, Instr, VmOps, DsOps
<1>3. Finished(v) \subseteq 1 .. pc[v] - 1
  BY DEF Finished
<1> QED BY <1>1, <1>2, <1>3 DEF LdsInv, Latest

\* ... and registers but for those it computes.
LEMMA RegInvStep ==
  ASSUME SyncInv, TypeInv, OperandsDelivered(code), TilesFlow(code),
         NEW w \in Warps, WarpStep(w), RegInv(w), NEW v \in Warps, RegInv(v)
  PROVE  RegInv(v)'
<1> DEFINE k == pc[w]
<1>1. code' = code /\ StepData(w) /\ k \in Positions(code, w)
  BY WarpStepShape, WarpStepData, AtInstruction DEF StepShape, Positions
<1>2. /\ \A u \in Warps : u # w => Finished(u)' = Finished(u)
      /\ Finished(w)' = IF Instr(w).op \in VmOps \cup DsOps THEN Finished(w)
                                                           ELSE Finished(w) \cup {k}
  BY FinishedByStep
<1>3. \A u \in Warps : Finished(u) \subseteq 1 .. pc[u] - 1
  BY DEF Finished
<1>4. CASE ~(v = w /\ Instr(w).op = "compute")
  <2>1. \A r : {q \in Finished(v)' : r \in Delivers(code[v][q])}
               = {q \in Finished(v) : r \in Delivers(code[v][q])}
    BY <1>2, <1>4 DEF Delivers, Instr, VmOps, DsOps
  <2>2. reg'[v] = reg[v]
    BY <1>1, <1>4 DEF StepData, TypeInv
  <2> QED BY <1>1, <1>3, <2>1, <2>2 DEF RegInv, Latest
<1>5. CASE v = w /\ Instr(w).op = "compute"
  <2> DEFINE i == Instr(w)
  <2>1. Finished(w)' = Finished(w) \cup {k} /\ Delivers(i) = i.to
    BY <1>2, <1>5 DEF Delivers, VmOps, DsOps
  <2>2. /\ DOMAIN reg'[w] = DOMAIN reg[w]
        /\ \A r \in DOMAIN reg[w] : reg'[w][r] =
              IF r \in i.to THEN UNION {reg[w][s] : s \in i.from} ELSE reg[w][r]
    BY <1>1, <1>5 DEF StepData, TypeInv
  <2>3. UNION {reg[w][s] : s \in i.from} = TileOf(code)[<<w, k>>]
    <3>1. Needs(i) = i.from
      BY <1>5 DEF Needs
    <3>2. UNION {reg[w][s] : s \in i.from} = Held(code, TileOf(code), w, k, i.from)
      BY <3>1, OperandsHeld
    <3>3. TileOf(code)[<<w, k>>] = Held(code, TileOf(code), w, k, Needs(code[w][k]))
      BY <1>1, <1>5, YieldOf DEF Instr
    <3> QED BY <3>1, <3>2, <3>3 DEF Instr
  <2>4. k \in Nat \ {0} /\ \A q \in Finished(w) : q < k
    BY <1>1, <1>3 DEF Positions, SyncInv, ShapeInv
  <2> SUFFICES ASSUME NEW r \in DOMAIN reg[w], NEW p \in 1 .. pc'[w] - 1,
                      Latest({q \in Finished(w)' : r \in Delivers(code[w][q])}, p)
               PROVE  reg'[w][r] = TileOf(code)[<<w, p>>]
    BY <1>1, <1>5, <2>2 DEF RegInv
  <2>5. CASE r \in i.to
    <3>1. k \in {q \in Finished(w)' : r \in Delivers(code[w][q])}
      BY <2>1, <2>5 DEF Instr
    <3>2. p = k
      BY <2>1, <2>4, <3>1 DEF Latest
    <3> QED BY <2>2, <2>3, <2>5, <3>2
  <2>6. CASE r \notin i.to
    <3>1. {q \in Finished(w)' : r \in Delivers(code[w][q])}
          = {q \in Finished(w) : r \in Delivers(code[w][q])}
      BY <2>1, <2>6 DEF Instr
    <3> QED BY <1>3, <1>5, <2>2, <2>6, <3>1 DEF RegInv, Latest
  <2> QED BY <2>5, <2>6
<1> QED BY <1>4, <1>5

\* A completion puts its tile where the dataflow has it, into the slots ...
LEMMA LdsInvCompletion ==
  ASSUME SyncInv, TypeInv, ResultsOrdered(code), NEW w \in Warps, TilesInv(w),
         NEW q, NEW ops,
         \/ VmComplete(w) /\ q = vm[w] /\ ops = VmOps
         \/ DsComplete(w) /\ q = ds[w] /\ ops = DsOps,
         NEW v \in Warps, LdsInv(v)
  PROVE  LdsInv(v)'
<1> DEFINE d == Head(q)
           p == d.at
<1>1. /\ pc' = pc /\ d = q[1] /\ 1 \in DOMAIN q
      /\ \A u \in Warps : u # w => Finished(u)' = Finished(u)
      /\ EntryOK(code, w, pc[w], d, ops) /\ p \in Unfinished(w)
      /\ Finished(w)' = Finished(w) \cup {p}
  BY FinishedByCompletion
<1>2. /\ code' = code
      /\ IF d.kind \in {"load", "read"}
         THEN lds' = lds
         ELSE lds' = [s \in DOMAIN lds |->
                         IF s \in d.slots THEN [lds[s] EXCEPT ![w] = d.tile] ELSE lds[s]]
  BY <1>1 DEF VmComplete, DsComplete, EntryOK, VmOps, DsOps
<1>3. \A u \in Warps : Finished(u) \subseteq 1 .. pc[u] - 1
  BY DEF Finished
<1>4. CASE d.kind \in {"load", "read"}
  <2>1. Fills(code[w][p]) = {}
    BY <1>1, <1>4 DEF EntryOK, Fills
  <2>2. \A s : {x \in Finished(v)' : s \in Fills(code[v][x])}
               = {x \in Finished(v) : s \in Fills(code[v][x])}
    BY <1>1, <2>1
  <2> QED BY <1>1, <1>2, <1>4, <2>2 DEF LdsInv
<1>5. CASE d.kind \notin {"load", "read"}
  <2>1. d.kind \in {"copy", "write"} /\ Fills(code[w][p]) = d.slots
    BY <1>1, <1>5 DEF EntryOK, Fills, VmOps, DsOps
  <2>2. d.tile = TileOf(code)[<<w, p>>]
    BY <1>1, <2>1 DEF TilesInv, EntryOK, VmOps, DsOps
  <2>3. /\ DOMAIN lds' = DOMAIN lds
        /\ \A s \in DOMAIN lds : lds'[s][v] = IF s \in d.slots /\ v = w THEN d.tile
                                                                       ELSE lds[s][v]
    BY <1>2, <1>5 DEF TypeInv
  <2> HIDE DEF d
  <2> SUFFICES ASSUME NEW s \in DOMAIN lds, NEW x \in 1 .. pc[v] - 1,
                      Latest({y \in Finished(v)' : s \in Fills(code[v][y])}, x)
               PROVE  lds'[s][v] = TileOf(code)[<<v, x>>]
    BY <1>1, <1>2, <2>3 DEF LdsInv
  <2>4. CASE s \in d.slots /\ v = w
    <3>1. p \in {y \in Finished(w)' : s \in Fills(code[w][y])}
      BY <1>1, <2>1, <2>4
    <3>2. x \in Finished(w)' /\ s \in Fills(code[w][x]) /\ p <= x
      BY <2>4, <3>1 DEF Latest
    <3>3. x <= p
      <4>1. CASE x \in Finished(w)
        BY <1>1, <2>1, <2>4, <3>2, <4>1, NewResultIsLatest
      <4>2. CASE x = p
        BY <3>2, <4>2
      <4> QED BY <1>1, <3>2, <4>1, <4>2
    <3>4. x = p
      <4>1. x \in Nat /\ p \in Nat
        BY <1>1 DEF EntryOK
      <4> QED BY ONLY <3>2, <3>3, <4>1
    <3> QED BY <2>2, <2>3, <2>4, <3>4
  <2>5. CASE ~(s \in d.slots /\ v = w)
    <3>1. {y \in Finished(v)' : s \in Fills(code[v][y])}
          = {y \in Finished(v) : s \in Fills(code[v][y])}
      BY <1>1, <2>1, <2>5
    <3> QED BY <2>3, <2>5, <3>1 DEF LdsInv
  <2> QED BY <2>4, <2>5
<1> QED BY <1>4, <1>5

\* ... or into the register that was waiting for it.
LEMMA RegInvCompletion ==
  ASSUME SyncInv, TypeInv, AccessesOrdered(code), ResultsOrdered(code),
         OperandsDelivered(code), TilesFlow(code),
         NEW w \in Warps, TilesInv(w), \A u \in Warps : LdsInv(u),
         NEW q, NEW ops,
         \/ VmComplete(w) /\ q = vm[w] /\ ops = VmOps
         \/ DsComplete(w) /\ q = ds[w] /\ ops = DsOps,
         NEW v \in Warps, RegInv(v)
  PROVE  RegInv(v)'
<1> DEFINE d == Head(q)
           p == d.at
           tile == IF d.kind = "load" THEN d.tile
                                      ELSE UNION {lds[s][u] : s \in d.slots, u \in Warps}
<1>1. /\ pc' = pc /\ d = q[1] /\ 1 \in DOMAIN q
      /\ \A u \in Warps : u # w => Finished(u)' = Finished(u)
      /\ EntryOK(code, w, pc[w], d, ops) /\ p \in Unfinished(w)
      /\ Finished(w)' = Finished(w) \cup {p}
  BY FinishedByCompletion
<1>2. /\ code' = code
      /\ IF d.kind \in {"load", "read"} THEN reg' = [reg EXCEPT ![w][d.reg] = tile]
                                        ELSE reg' = reg
  <2>1. CASE VmComplete(w) /\ q = vm[w] /\ ops = VmOps
    <3>1. d.kind = "load" \/ d.kind = "copy"
      BY <1>1, <2>1 DEF EntryOK, VmOps
    <3>2. /\ code' = code
          /\ IF d.kind = "load" THEN reg' = [reg EXCEPT ![w][d.reg] = d.tile] ELSE reg' = reg
      BY <2>1 DEF VmComplete
    <3> QED BY <3>1, <3>2
  <2>2. CASE DsComplete(w) /\ q = ds[w] /\ ops = DsOps
    <3> DEFINE u == UNION {lds[s][x] : s \in d.slots, x \in Warps}
    <3>1. d.kind = "read" \/ d.kind = "write"
      BY <1>1, <2>2 DEF EntryOK, DsOps
    <3>2. /\ code' = code
          /\ IF d.kind = "read" THEN reg' = [reg EXCEPT ![w][d.reg] = u] ELSE reg' = reg
      BY <2>2 DEF DsComplete
    <3>3. d.kind # "load" => tile = u
      OBVIOUS
    <3> HIDE DEF u, tile, d
    <3> QED BY <3>1, <3>2, <3>3
  <2> QED BY <2>1, <2>2
<1>3. p \in Positions(code, w)
  BY <1>1, InFlightEntry
<1>4. CASE d.kind \notin {"load", "read"}
  <2>1. Delivers(code[w][p]) = {}
    BY <1>1, <1>4 DEF EntryOK, Delivers, VmOps, DsOps
  <2>2. \A r : {x \in Finished(v)' : r \in Delivers(code[v][x])}
               = {x \in Finished(v) : r \in Delivers(code[v][x])}
    BY <1>1, <2>1
  <2>3. reg' = reg /\ code' = code /\ pc' = pc
    BY <1>1, <1>2, <1>4
  <2> QED BY <2>2, <2>3 DEF RegInv
<1>5. CASE d.kind \in {"load", "read"}
  <2>1. Delivers(code[w][p]) = {d.reg} /\ code[w][p].op = d.kind
    BY <1>1, <1>5 DEF EntryOK, Delivers
  <2>2. tile = TileOf(code)[<<w, p>>]
    <3>1. CASE d.kind = "load"
      BY <1>1, <3>1 DEF TilesInv, EntryOK, DsOps
    <3>2. CASE d.kind = "read"
      <4>1. DsComplete(w) /\ q = ds[w] /\ d.slots = code[w][p].slots
        BY <1>1, <3>2 DEF EntryOK, VmOps
      <4>2. \A s \in d.slots, u \in Warps :
               lds[s][u] = TileOf(code)[<<u, Source(code, w, p, s, u)>>]
        BY <3>2, <4>1, ReadSees
      <4>3. TileOf(code)[<<w, p>>] = UNION {TileOf(code)[<<u, Source(code, w, p, s, u)>>] :
                                               s \in code[w][p].slots, u \in Warps}
        BY <1>3, <2>1, <3>2, YieldOf
      <4>4. tile = UNION {lds[s][u] : s \in d.slots, u \in Warps}
        BY <3>2
      <4> DEFINE S == d.slots
                 l(s, u) == lds[s][u]
                 t(s, u) == TileOf(code)[<<u, Source(code, w, p, s, u)>>]
      <4>5. \A s \in S, u \in Warps : l(s, u) = t(s, u)
        BY <4>2
      <4>6. tile = UNION {l(s, u) : s \in S, u \in Warps}
        BY <4>4
      <4>7. TileOf(code)[<<w, p>>] = UNION {t(s, u) : s \in S, u \in Warps}
        BY <4>1, <4>3
      <4> HIDE DEF p, d, tile, S, l, t
      <4>8. {l(s, u) : s \in S, u \in Warps} = {t(s, u) : s \in S, u \in Warps}
        BY ONLY <4>5
      <4> QED BY ONLY <4>6, <4>7, <4>8
    <3> QED BY <1>5, <3>1, <3>2
  <2>3. /\ DOMAIN reg'[v] = DOMAIN reg[v]
        /\ \A r \in DOMAIN reg[v] : reg'[v][r] = IF r = d.reg /\ v = w THEN tile
                                                                      ELSE reg[v][r]
    <3>1. reg' = [reg EXCEPT ![w][d.reg] = tile] /\ DOMAIN reg = Warps
      BY <1>2, <1>5 DEF TypeInv
    <3> HIDE DEF tile, d
    <3> QED BY <3>1
  <2> HIDE DEF d, tile
  <2> SUFFICES ASSUME NEW r \in DOMAIN reg[v], NEW x \in 1 .. pc[v] - 1,
                      Latest({y \in Finished(v)' : r \in Delivers(code[v][y])}, x)
               PROVE  reg'[v][r] = TileOf(code)[<<v, x>>]
    BY <1>1, <1>2, <2>3 DEF RegInv
  <2>4. CASE r = d.reg /\ v = w
    <3>1. p \in {y \in Finished(w)' : r \in Delivers(code[w][y])}
      BY <1>1, <2>1, <2>4
    <3>2. x \in Finished(w)' /\ r \in Delivers(code[w][x]) /\ p <= x
      BY <2>4, <3>1 DEF Latest
    <3>3. x <= p
      <4>1. CASE x \in Finished(w)
        BY <1>1, <2>1, <2>4, <3>2, <4>1, NewResultIsLatest
      <4>2. CASE x = p
        BY <3>2, <4>2
      <4> QED BY <1>1, <3>2, <4>1, <4>2
    <3>4. x = p
      <4>1. x \in Nat /\ p \in Nat
        BY <1>1 DEF EntryOK
      <4> QED BY ONLY <3>2, <3>3, <4>1
    <3> QED BY <2>2, <2>3, <2>4, <3>4
  <2>5. CASE ~(r = d.reg /\ v = w)
    <3>1. {y \in Finished(v)' : r \in Delivers(code[v][y])}
          = {y \in Finished(v) : r \in Delivers(code[v][y])}
      BY <1>1, <2>1, <2>5
    <3> QED BY <2>3, <2>5, <3>1 DEF RegInv
  <2> QED BY <2>4, <2>5
<1> QED BY <1>4, <1>5

\* What a warp step starts carries the tile of its instruction ...
LEMMA TilesInvStep ==
  ASSUME SyncInv, TypeInv, OperandsDelivered(code), TilesFlow(code),
         NEW w \in Warps, WarpStep(w), RegInv(w), NEW v \in Warps, TilesInv(v)
  PROVE  TilesInv(v)'
<1> DEFINE k == pc[w]
           i == Instr(w)
           T == TileOf(code)
<1>1. /\ StepShape(w) /\ k \in Positions(code, w) /\ i = code[w][k]
      /\ DOMAIN vm = Warps /\ DOMAIN ds = Warps /\ code' = code
      /\ IsSeq(vm[w]) /\ IsSeq(ds[w]) /\ base[w] = BaseAt(code, w, k)
  BY WarpStepShape, AtInstruction
     DEF SyncInv, ShapeInv, QueueInv, QueueOK, PositionInv, Positions, StepShape, Instr
<1>2. CASE v # w
  <2>1. vm'[v] = vm[v] /\ ds'[v] = ds[v]
    BY <1>1, <1>2 DEF StepShape
  <2> QED BY <1>1, <2>1 DEF TilesInv
<1>3. CASE v = w
  <2>1. ASSUME NEW j \in DOMAIN vm'[w]
        PROVE  vm'[w][j].tile = T[<<w, vm'[w][j].at>>]
    <3>1. CASE vm' = vm
      BY <1>3, <3>1 DEF TilesInv
    <3>2. CASE vm' # vm
      <4>1. PICK d : Joins(d, w) /\ vm' = [vm EXCEPT ![w] = Append(@, d)]
        BY <1>1, <3>2 DEF StepShape
      <4>2. i.op \in VmOps
        BY <1>1, <3>2 DEF StepShape
      <4>3. /\ DOMAIN vm[w] = 1 .. Len(vm[w]) /\ Len(vm[w]) \in Nat
            /\ DOMAIN vm'[w] = 1 .. Len(vm[w]) + 1
            /\ \A x \in 1 .. Len(vm[w]) : vm'[w][x] = vm[w][x]
            /\ vm'[w][Len(vm[w]) + 1] = d
        BY <1>1, <4>1, AppendSeq
      <4>4. d.at = k /\ d.tile = T[<<w, k>>]
        <5>1. d.at = k /\ d.tile = Fetched(BaseAt(code, w, k), i.ahead)
          BY <1>1, <4>1, <4>2 DEF Joins
        <5>2. T[<<w, k>>] = Fetched(BaseAt(code, w, k), code[w][k].ahead)
          BY <1>1, <4>2, YieldOf
        <5> QED BY <1>1, <5>1, <5>2
      <4>5. CASE j \in DOMAIN vm[w]
        BY <1>3, <4>3, <4>5 DEF TilesInv
      <4>6. CASE j = Len(vm[w]) + 1
        BY <4>3, <4>4, <4>6
      <4> QED BY <4>3, <4>5, <4>6
    <3> QED BY <3>1, <3>2
  <2>2. ASSUME NEW j \in DOMAIN ds'[w], ds'[w][j].kind = "write"
        PROVE  ds'[w][j].tile = T[<<w, ds'[w][j].at>>]
    <3>1. CASE ds' = ds
      BY <1>3, <2>2, <3>1 DEF TilesInv
    <3>2. CASE ds' # ds
      <4>1. PICK d : Joins(d, w) /\ ds' = [ds EXCEPT ![w] = Append(@, d)]
        BY <1>1, <3>2 DEF StepShape
      <4>2. /\ DOMAIN ds[w] = 1 .. Len(ds[w]) /\ Len(ds[w]) \in Nat
            /\ DOMAIN ds'[w] = 1 .. Len(ds[w]) + 1
            /\ \A x \in 1 .. Len(ds[w]) : ds'[w][x] = ds[w][x]
            /\ ds'[w][Len(ds[w]) + 1] = d
        BY <1>1, <4>1, AppendSeq
      <4>3. ASSUME d.kind = "write"
            PROVE  d.at = k /\ d.tile = T[<<w, k>>]
        <5>1. d.at = k /\ i.op = "write" /\ d.tile = reg[w][i.reg] /\ Needs(i) = {i.reg}
          BY <4>1, <4>3 DEF Joins, Needs
        <5>2. UNION {reg[w][r] : r \in {i.reg}} = Held(code, T, w, k, Needs(i))
          BY <5>1, OperandsHeld
        <5>3. T[<<w, k>>] = Held(code, T, w, k, Needs(i))
          <6>1. code[w][k].op \in {"write", "compute"}
            BY <1>1, <5>1
          <6>2. T[<<w, k>>] = Held(code, T, w, k, Needs(code[w][k]))
            BY <1>1, <6>1, YieldOf
          <6> QED BY <1>1, <6>2
        <5>4. UNION {reg[w][r] : r \in {i.reg}} = reg[w][i.reg]
          OBVIOUS
        <5> QED BY <1>1, <5>1, <5>2, <5>3, <5>4
      <4>4. CASE j \in DOMAIN ds[w]
        BY <1>3, <2>2, <4>2, <4>4 DEF TilesInv
      <4>5. CASE j = Len(ds[w]) + 1
        BY <2>2, <4>2, <4>3, <4>5
      <4> QED BY <4>2, <4>4, <4>5
    <3> QED BY <3>1, <3>2
  <2> QED BY <1>1, <1>3, <2>1, <2>2 DEF TilesInv
<1> QED BY <1>2, <1>3

\* ... and keeps it until it completes.
LEMMA TilesInvCompletion ==
  ASSUME SyncInv, NEW w \in Warps, VmComplete(w) \/ DsComplete(w),
         NEW v \in Warps, TilesInv(v)
  PROVE  TilesInv(v)'
<1>1. /\ DOMAIN vm = Warps /\ DOMAIN ds = Warps
      /\ IsSeq(vm[v]) /\ IsSeq(ds[v])
  BY DEF SyncInv, ShapeInv, QueueInv, QueueOK
<1>2. /\ code' = code
      /\ vm'[v] = vm[v] \/ (vm[v] # <<>> /\ vm'[v] = Tail(vm[v]))
      /\ ds'[v] = ds[v] \/ (ds[v] # <<>> /\ ds'[v] = Tail(ds[v]))
  BY <1>1 DEF VmComplete, DsComplete
<1>3. \A j \in DOMAIN vm'[v] : \E x \in DOMAIN vm[v] : vm'[v][j] = vm[v][x]
  <2>1. CASE vm[v] # <<>> /\ vm'[v] = Tail(vm[v])
    <3>1. /\ DOMAIN vm[v] = 1 .. Len(vm[v]) /\ Len(vm[v]) \in Nat \ {0}
          /\ DOMAIN vm'[v] = 1 .. Len(vm[v]) - 1
          /\ \A j \in 1 .. Len(vm[v]) - 1 : vm'[v][j] = vm[v][j + 1]
      BY <1>1, <2>1, TailSeq
    <3>2. \A j \in 1 .. Len(vm[v]) - 1 : j + 1 \in DOMAIN vm[v]
      BY <3>1
    <3> QED BY <3>1, <3>2
  <2> QED BY <1>2, <2>1
<1>4. \A j \in DOMAIN ds'[v] : \E x \in DOMAIN ds[v] : ds'[v][j] = ds[v][x]
  <2>1. CASE ds[v] # <<>> /\ ds'[v] = Tail(ds[v])
    <3>1. /\ DOMAIN ds[v] = 1 .. Len(ds[v]) /\ Len(ds[v]) \in Nat \ {0}
          /\ DOMAIN ds'[v] = 1 .. Len(ds[v]) - 1
          /\ \A j \in 1 .. Len(ds[v]) - 1 : ds'[v][j] = ds[v][j + 1]
      BY <1>1, <2>1, TailSeq
    <3>2. \A j \in 1 .. Len(ds[v]) - 1 : j + 1 \in DOMAIN ds[v]
      BY <3>1
    <3> QED BY <3>1, <3>2
  <2> QED BY <1>2, <2>1
<1> QED BY <1>2, <1>3, <1>4 DEF TilesInv

\* How the count of the mfmas on a tile goes on.
LEMMA MfmasNext ==
  ASSUME NEW c, NEW w, NEW k \in Nat \ {0}, NEW t
  PROVE  /\ MfmasBefore(c, w, k, t) \in Nat
         /\ MfmasBefore(c, w, k + 1, t) = IF c[w][k].op = "mfma" /\ c[w][k].tile = t
                THEN MfmasBefore(c, w, k, t) + 1 ELSE MfmasBefore(c, w, k, t)
<1> DEFINE B == Before(c, w, k, "mfma")
           M == {j \in B : c[w][j].tile = t}
<1>1. /\ IsFiniteSet(B) /\ k \notin B
      /\ Before(c, w, k + 1, "mfma") = IF c[w][k].op = "mfma" THEN B \cup {k} ELSE B
  BY BeforeNext
<1>2. {j \in Before(c, w, k + 1, "mfma") : c[w][j].tile = t}
      = IF c[w][k].op = "mfma" /\ c[w][k].tile = t THEN M \cup {k} ELSE M
  BY <1>1
<1>3. IsFiniteSet(M) /\ k \notin M
  BY <1>1, FS_Subset
<1>4. MfmasBefore(c, w, k, t) = Cardinality(M)
  BY DEF MfmasBefore
<1> HIDE DEF M
<1>5. Cardinality(M) \in Nat /\ Cardinality(M \cup {k}) = Cardinality(M) + 1
  BY <1>3, FS_AddElement, FS_CardinalityType
<1> QED BY <1>2, <1>4, <1>5 DEF MfmasBefore

\* The product that an mfma adds is that of the K-step in turn.
LEMMA AccInvStep ==
  ASSUME SyncInv, TypeInv, OperandsDelivered(code), ProductsInTurn(code, iterMax),
         NEW w \in Warps, WarpStep(w), RegInv(w), NEW v \in Warps, AccInv(v)
  PROVE  AccInv(v)'
<1> DEFINE k == pc[w]
           i == Instr(w)
           Sum(m) == [x \in 1 .. m |-> <<{x - 1}, {x - 1}>>]
<1>1. /\ StepShape(w) /\ StepData(w) /\ k \in Positions(code, w) /\ k \in Nat \ {0}
      /\ i = code[w][k] /\ code' = code /\ config' = config /\ iterMax' = iterMax
      /\ \A ops : AllOf(ops)' = AllOf(ops)
  BY WarpStepShape, WarpStepData, AtInstruction
     DEF Positions, StepShape, Instr, iterMax, AllOf
<1>2. pc'[w] = k + 1 /\ \A u \in Warps : u # w => pc'[u] = pc[u]
  BY FinishedByStep
<1> SUFFICES ASSUME NEW t \in AllOf({"mfma"})
             PROVE  LET n == MfmasBefore(code, v, pc'[v], t)
                    IN  n <= iterMax /\ acc'[<<v, t>>] = Sum(n)
  BY <1>1 DEF AccInv
<1> DEFINE n == MfmasBefore(code, v, pc[v], t)
<1>3. n <= iterMax /\ acc[<<v, t>>] = Sum(n)
  BY DEF AccInv
<1>4. CASE v = w /\ i.op = "mfma" /\ i.tile = t
  <2>1. /\ n < iterMax
        /\ Held(code, TileOf(code), w, k, i.a) = {n}
        /\ Held(code, TileOf(code), w, k, i.b) = {n}
    BY <1>1, <1>4 DEF ProductsInTurn
  <2>2. i.a \subseteq Needs(i) /\ i.b \subseteq Needs(i)
    BY <1>4 DEF Needs
  <2>3. UNION {reg[w][r] : r \in i.a} = {n} /\ UNION {reg[w][r] : r \in i.b} = {n}
    BY <2>1, <2>2, OperandsHeld
  <2>4. acc'[<<w, t>>] = Append(acc[<<w, t>>], <<{n}, {n}>>)
    <3>1. <<w, t>> \in DOMAIN acc
      BY DEF TypeInv
    <3> QED BY <1>1, <1>4, <2>3, <3>1 DEF StepData
  <2>5. n \in Nat /\ MfmasBefore(code, w, k + 1, t) = n + 1
    BY <1>1, <1>4, MfmasNext
  <2>6. iterMax \in Nat
    BY ConfigAssumption DEF SyncInv, ShapeInv, iterMax
  <2> HIDE DEF n
  <2>7. Append(Sum(n), <<{n}, {n}>>) = Sum(n + 1)
    BY <2>5
  <2>8. MfmasBefore(code, v, pc'[v], t) = n + 1
    BY <1>2, <1>4, <2>5
  <2>9. n + 1 <= iterMax
    BY <2>1, <2>5, <2>6
  <2>10. acc'[<<v, t>>] = Sum(n + 1)
    BY <1>3, <1>4, <2>4, <2>7
  <2> HIDE DEF Sum
  <2> QED BY <2>8, <2>9, <2>10
<1>5. CASE ~(v = w /\ i.op = "mfma" /\ i.tile = t)
  <2>1. acc'[<<v, t>>] = acc[<<v, t>>]
    <3>1. CASE i.op = "mfma"
      <4>1. <<v, t>> # <<w, i.tile>>
        BY <1>5, <3>1
      <4>2. <<v, t>> \in DOMAIN acc
        BY DEF TypeInv
      <4> QED BY <1>1, <3>1, <4>1, <4>2 DEF StepData
    <3> QED BY <1>1, <3>1 DEF StepData
  <2>2. MfmasBefore(code, v, pc'[v], t) = n
    <3>1. CASE v = w
      BY <1>1, <1>2, <1>5, <3>1, MfmasNext
    <3> QED BY <1>2, <3>1
  <2> QED BY <1>3, <2>1, <2>2
<1> QED BY <1>4, <1>5

\* What is stored is the full sum.
LEMMA TypeInvStep ==
  ASSUME SyncInv, TypeInv, ProductsInTurn(code, iterMax), NEW w \in Warps, WarpStep(w),
         AccInv(w)
  PROVE  TypeInv'
<1> DEFINE k == pc[w]
           i == Instr(w)
<1>1. /\ StepData(w) /\ k \in Positions(code, w) /\ i = code[w][k]
      /\ code' = code /\ FullSum' = FullSum
      /\ \A ops : AllOf(ops)' = AllOf(ops)
  BY WarpStepShape, WarpStepData, AtInstruction
     DEF Positions, StepShape, Instr, iterMax, AllOf, FullSum
<1>2. DOMAIN lds' = DOMAIN lds /\ \A s \in DOMAIN lds : DOMAIN lds'[s] = Warps
  BY <1>1 DEF StepData, TypeInv
<1>3. /\ DOMAIN reg' = Warps
      /\ \A v \in Warps : DOMAIN reg'[v] = AllOf({"read", "load", "compute"})
  BY <1>1 DEF StepData, TypeInv
<1>4. DOMAIN acc' = DOMAIN acc
  BY <1>1 DEF StepData
<1>5. out' \in [Warps \X AllOf({"mfma"}) -> {<<>>, FullSum}]
  <2>1. CASE i.op # "store"
    BY <1>1, <2>1 DEF StepData, TypeInv
  <2>2. CASE i.op = "store"
    <3>1. out' = [t \in DOMAIN out |->
                     IF t[1] = w /\ t[2] \in i.tiles THEN acc[t] ELSE out[t]]
      BY <1>1, <2>2 DEF StepData
    <3>2. ASSUME NEW t \in Warps \X AllOf({"mfma"}), t[1] = w, t[2] \in i.tiles
          PROVE  acc[t] = FullSum
      <4>1. MfmasBefore(code, w, k, t[2]) = iterMax
        BY <1>1, <2>2, <3>2 DEF ProductsInTurn
      <4>2. t = <<w, t[2]>> /\ t[2] \in AllOf({"mfma"})
        BY <3>2
      <4> QED BY <4>1, <4>2 DEF AccInv, FullSum
    <3> QED BY <3>1, <3>2 DEF TypeInv
  <2> QED BY <2>1, <2>2
<1> QED BY <1>1, <1>2, <1>3, <1>4, <1>5 DEF TypeInv

\* A completion neither touches the sums nor what they are kept in.
LEMMA TypeInvCompletion ==
  ASSUME TypeInv, NEW w \in Warps, VmComplete(w) \/ DsComplete(w)
  PROVE  TypeInv'
<1>1. /\ code' = code /\ config' = config /\ acc' = acc /\ out' = out
  BY DEF VmComplete, DsComplete
<1>2. FullSum' = FullSum /\ \A ops : AllOf(ops)' = AllOf(ops)
  BY <1>1 DEF iterMax, AllOf, FullSum
<1>3. DOMAIN lds' = DOMAIN lds /\ \A s \in DOMAIN lds : DOMAIN lds'[s] = DOMAIN lds[s]
  BY DEF VmComplete, DsComplete
<1>4. DOMAIN reg' = DOMAIN reg /\ \A v \in DOMAIN reg : DOMAIN reg'[v] = DOMAIN reg[v]
  BY DEF VmComplete, DsComplete
<1> QED BY <1>1, <1>2, <1>3, <1>4 DEF TypeInv

\* The dataflow is followed by every step of every disciplined kernel.
LEMMA FlowInductive ==
  /\ Init => FlowInv
  /\ SyncInv /\ Disciplined /\ FlowInv /\ [Next]_vars => FlowInv'
<1>1. ASSUME Init PROVE FlowInv
  <2>1. config \in Configs /\ iterMax \in Nat
    BY <1>1, ConfigAssumption DEF Init, iterMax
  <2>2. TypeInv
    BY <1>1 DEF Init, TypeInv
  <2>3. \A w \in Warps : LdsInv(w) /\ RegInv(w) /\ TilesInv(w)
    BY <1>1 DEF Init, LdsInv, RegInv, TilesInv
  <2>4. ASSUME NEW w \in Warps, NEW t \in AllOf({"mfma"})
        PROVE  LET n == MfmasBefore(code, w, pc[w], t)
               IN  n <= iterMax /\ acc[<<w, t>>] = [i \in 1 .. n |-> <<{i - 1}, {i - 1}>>]
    <3>1. pc[w] = 1 /\ acc[<<w, t>>] = <<>>
      BY <1>1 DEF Init
    <3>2. MfmasBefore(code, w, 1, t) = 0
      <4>1. {j \in {} : code[w][j].tile = t} = {}
        OBVIOUS
      <4> QED BY <4>1, BeforeFirst, FS_EmptySet DEF MfmasBefore
    <3>3. [i \in 1 .. 0 |-> <<{i - 1}, {i - 1}>>] = <<>>
      OBVIOUS
    <3> QED BY <2>1, <3>1, <3>2, <3>3
  <2> QED BY <2>2, <2>3, <2>4 DEF FlowInv, AccInv
<1>2. ASSUME SyncInv, Disciplined, FlowInv, [Next]_vars PROVE FlowInv'
  <2>1. CASE UNCHANGED vars
    <3>1. /\ config' = config /\ code' = code /\ pc' = pc /\ vm' = vm /\ ds' = ds
          /\ lds' = lds /\ reg' = reg /\ acc' = acc /\ out' = out
      BY <2>1 DEF vars
    <3>2. /\ iterMax' = iterMax /\ FullSum' = FullSum
          /\ \A ops : AllOf(ops)' = AllOf(ops)
          /\ \A w : Finished(w)' = Finished(w)
      BY <3>1 DEF iterMax, FullSum, AllOf, Finished, Unfinished
    <3>3. TypeInv'
      BY <1>2, <3>1, <3>2 DEF FlowInv, TypeInv
    <3>4. \A w \in Warps : LdsInv(w)' /\ RegInv(w)'
      BY <1>2, <3>1, <3>2 DEF FlowInv, LdsInv, RegInv
    <3>5. \A w \in Warps : TilesInv(w)' /\ AccInv(w)'
      BY <1>2, <3>1, <3>2 DEF FlowInv, TilesInv, AccInv
    <3> QED BY <3>3, <3>4, <3>5 DEF FlowInv
  <2>2. ASSUME NEW w \in Warps, WarpStep(w) PROVE FlowInv'
    <3>1. TypeInv'
      BY <1>2, <2>2, TypeInvStep DEF FlowInv, Disciplined
    <3>2. ASSUME NEW v \in Warps
          PROVE  LdsInv(v)' /\ RegInv(v)' /\ TilesInv(v)' /\ AccInv(v)'
      BY <1>2, <2>2, LdsInvStep, RegInvStep, TilesInvStep, AccInvStep DEF FlowInv, Disciplined
    <3> QED BY <3>1, <3>2 DEF FlowInv
  <2>3. ASSUME NEW w \in Warps, VmComplete(w) \/ DsComplete(w) PROVE FlowInv'
    <3>1. TypeInv'
      BY <1>2, <2>3, TypeInvCompletion DEF FlowInv
    <3>2. PICK q, ops : \/ VmComplete(w) /\ q = vm[w] /\ ops = VmOps
                        \/ DsComplete(w) /\ q = ds[w] /\ ops = DsOps
      BY <2>3
    <3>3. ASSUME NEW v \in Warps
          PROVE  LdsInv(v)' /\ RegInv(v)' /\ TilesInv(v)'
      BY <1>2, <2>3, <3>2, LdsInvCompletion, RegInvCompletion, TilesInvCompletion
         DEF FlowInv, Disciplined
    <3>4. \A v \in Warps : AccInv(v)'
      <4>1. code' = code /\ config' = config /\ pc' = pc /\ acc' = acc
        BY <2>3 DEF VmComplete, DsComplete
      <4>2. iterMax' = iterMax /\ \A o : AllOf(o)' = AllOf(o)
        BY <4>1 DEF iterMax, AllOf
      <4> QED BY <1>2, <4>1, <4>2 DEF FlowInv, AccInv
    <3> QED BY <3>1, <3>3, <3>4 DEF FlowInv
  <2> QED BY <1>2, <2>1, <2>2, <2>3 DEF Next, Terminated
<1> QED BY <1>1, <1>2

\* A kernel stays disciplined.
LEMMA DisciplineStays == Disciplined /\ [Next]_vars => Disciplined'
<1>1. [Next]_vars => code' = code /\ iterMax' = iterMax
  BY CodeFixed DEF iterMax
<1> QED BY <1>1 DEF Disciplined

-----------------------------------------------------------------------------
(* What follows.                                                           *)

\* Whatever the number of warps and K-steps and in whatever order copies, loads
\* and LDS accesses complete, a disciplined kernel has every tile, every LDS
\* slot, every register and every sum as its static dataflow says (FlowInv).
THEOREM FollowsDataflow == Spec /\ Disciplined => []FlowInv
  BY SyncAlways, FlowInductive, DisciplineStays, PTL DEF Spec

\* So all its products are accumulated in turn, each of operands of one K-step,
\* and what it stores is the full sum (SumsInOrder).
THEOREM AccumulatesInOrder == Spec /\ Disciplined => []SumsInOrder
<1>1. SyncInv /\ FlowInv => SumsInOrder
  <2> SUFFICES ASSUME SyncInv, FlowInv, NEW t \in DOMAIN acc
               PROVE  IsPrefix(acc[t], FullSum) /\ out[t] \in {<<>>, FullSum}
    BY DEF SumsInOrder
  <2>1. /\ t \in Warps \X AllOf({"mfma"}) /\ t = <<t[1], t[2]>>
        /\ t[1] \in Warps /\ t[2] \in AllOf({"mfma"})
    BY DEF FlowInv, TypeInv
  <2>2. out[t] \in {<<>>, FullSum}
    BY <2>1 DEF FlowInv, TypeInv
  <2> DEFINE n == MfmasBefore(code, t[1], pc[t[1]], t[2])
  <2>3. n <= iterMax /\ acc[t] = [i \in 1 .. n |-> <<{i - 1}, {i - 1}>>]
    <3>1. /\ n <= iterMax
          /\ acc[<<t[1], t[2]>>] = [i \in 1 .. n |-> <<{i - 1}, {i - 1}>>]
      BY <2>1 DEF FlowInv, AccInv
    <3> HIDE DEF n
    <3> QED BY <2>1, <3>1
  <2>4. n \in Nat
    BY <2>1, <2>3, MfmasNext DEF SyncInv, PositionInv
  <2>5. iterMax \in Nat
    BY ConfigAssumption DEF SyncInv, ShapeInv, iterMax
  <2> HIDE DEF n
  <2>6. Len(acc[t]) = n /\ Len(FullSum) = iterMax
    BY <2>3, <2>4, <2>5 DEF FullSum
  <2>7. SubSeq(acc[t], 1, n) = SubSeq(FullSum, 1, n)
    BY <2>3, <2>4, <2>5 DEF FullSum
  <2> QED BY <2>2, <2>3, <2>6, <2>7 DEF IsPrefix
<1> QED BY <1>1, SyncAlways, FollowsDataflow, PTL

-----------------------------------------------------------------------------
(* Ranges.                                                                 *)

-----------------------------------------------------------------------------
(* A disciplined kernel implements the abstract GEMM.                      *)

\* The tiles of the launched configuration are those of the accumulators.
LEMMA TilesOfLaunched == ShapeInv => TilesOfC(config) = Warps \X AllOf({"mfma"})
<1> SUFFICES ASSUME ShapeInv PROVE TilesOfC(config) = Warps \X AllOf({"mfma"})
  OBVIOUS
<1> DEFINE Instrs == UNION {ToSet(code[w]) : w \in Warps}
           M == {j \in Instrs : j.op = "mfma"}
<1>1. TilesOfC(config) = Warps \X {i.tile : i \in M}
  BY DEF TilesOfC, ShapeInv
<1>2. AllOf({"mfma"}) = UNION {Mentioned(i) : i \in {j \in Instrs : j.op \in {"mfma"}}}
  BY DEF AllOf
<1>3. {j \in Instrs : j.op \in {"mfma"}} = M
  OBVIOUS
<1>4. \A i \in M : Mentioned(i) = {i.tile}
  BY DEF Mentioned
<1> HIDE DEF M
<1>5. UNION {Mentioned(i) : i \in M} = {i.tile : i \in M}
  BY <1>4
<1> QED BY <1>1, <1>2, <1>3, <1>5

\* Every step of the machine is one of the abstract GEMM or leaves the sums and
\* C alone: an mfma adds the product in turn, a store takes full sums.
LEMMA StepRefines ==
  ASSUME SyncInv, FlowInv, Disciplined, [Next]_vars
  PROVE  [\E c \in Configs : config = c /\ G(c)!Next]_<<acc, out>>
<1>0. config \in Configs /\ iterMax = config[2]
  BY DEF SyncInv, ShapeInv, iterMax
<1> PICK c \in Configs : c = config
  BY <1>0
<1>1. c \in Configs /\ config = c /\ iterMax = c[2]
  BY <1>0
<1>2. DOMAIN acc = Warps \X AllOf({"mfma"}) /\ DOMAIN out = Warps \X AllOf({"mfma"})
  BY DEF FlowInv, TypeInv
<1>3. ASSUME NEW w \in Warps, WarpStep(w), Instr(w).op = "mfma"
      PROVE  G(c)!Next
  <2> DEFINE i == Instr(w)
             t == <<w, i.tile>>
             n == MfmasBefore(code, w, pc[w], i.tile)
  <2>1. StepData(w) /\ pc[w] \in Positions(code, w) /\ i = code[w][pc[w]] /\ pc[w] \in Nat \ {0}
    BY <1>3, WarpStepData, AtInstruction DEF Positions, Instr
  <2>2. /\ n < iterMax
        /\ Held(code, TileOf(code), w, pc[w], i.a) = {n}
        /\ Held(code, TileOf(code), w, pc[w], i.b) = {n}
    BY <1>3, <2>1 DEF Disciplined, ProductsInTurn
  <2>3. i.a \subseteq Needs(i) /\ i.b \subseteq Needs(i)
    BY <1>3 DEF Needs
  <2>4. UNION {reg[w][r] : r \in i.a} = {n} /\ UNION {reg[w][r] : r \in i.b} = {n}
    BY <1>3, <2>2, <2>3, OperandsHeld DEF FlowInv, Disciplined
  <2>5. acc' = [acc EXCEPT ![t] = Append(@, <<{n}, {n}>>)] /\ out' = out
    BY <1>3, <2>1, <2>4 DEF StepData
  <2>6. t \in DOMAIN acc /\ i.tile \in AllOf({"mfma"})
    <3>1. i \in UNION {ToSet(code[v]) : v \in Warps} /\ Mentioned(i) = {i.tile}
      BY <1>3, <2>1, ProgramOK DEF ToSet, Positions, Mentioned, SyncInv
    <3>2. i.tile \in AllOf({"mfma"})
      BY <1>3, <3>1 DEF AllOf
    <3> QED BY <1>2, <3>2
  <2>7. n \in Nat
    BY <2>1, MfmasNext
  <2>8. acc[t] = [x \in 1 .. n |-> <<{x - 1}, {x - 1}>>]
    BY <2>6 DEF FlowInv, AccInv
  <2> HIDE DEF t, n
  <2>9. Len(acc[t]) = n
    BY <2>7, <2>8
  <2>10. G(c)!Product(n) = <<{n}, {n}>>
    BY DEF G!Product, G!Whole
  <2>11. acc' = [acc EXCEPT ![t] = Append(@, G(c)!Product(Len(@)))]
    BY <2>5, <2>9, <2>10
  <2>12. G(c)!Accumulate(t)
    BY <1>1, <2>2, <2>5, <2>9, <2>11 DEF G!Accumulate
  <2> QED BY <2>6, <2>12 DEF G!Next
<1>4. ASSUME NEW w \in Warps, WarpStep(w), Instr(w).op = "store"
      PROVE  G(c)!Next
  <2> DEFINE i == Instr(w)
             T == {t \in DOMAIN out : t[1] = w /\ t[2] \in i.tiles}
  <2>1. StepData(w) /\ pc[w] \in Positions(code, w) /\ i = code[w][pc[w]]
    BY <1>4, WarpStepData, AtInstruction DEF Positions, Instr
  <2>2. /\ out' = [t \in DOMAIN out |-> IF t[1] = w /\ t[2] \in i.tiles THEN acc[t] ELSE out[t]]
        /\ acc' = acc
    BY <1>4, <2>1 DEF StepData
  <2>4. out' = [t \in DOMAIN out |-> IF t \in T THEN acc[t] ELSE out[t]]
    BY <2>2
  <2>5. ASSUME NEW t \in T PROVE acc[t] = G(c)!FullSum
    <3>1. MfmasBefore(code, w, pc[w], t[2]) = iterMax
      BY <1>4, <2>1 DEF Disciplined, ProductsInTurn
    <3>2. t = <<w, t[2]>> /\ t[2] \in AllOf({"mfma"})
      BY <1>2
    <3>3. acc[<<w, t[2]>>] = [x \in 1 .. iterMax |-> <<{x - 1}, {x - 1}>>]
      BY <3>1, <3>2 DEF FlowInv, AccInv
    <3> QED BY <1>1, <3>2, <3>3 DEF G!FullSum, G!Product, G!Whole
  <2>6. T \in SUBSET DOMAIN out
    OBVIOUS
  <2>7. G(c)!Store(T)
    BY <2>2, <2>4, <2>5 DEF G!Store
  <2> QED BY <2>6, <2>7 DEF G!Next
<1>5. ASSUME NEW w \in Warps, WarpStep(w), Instr(w).op \notin {"mfma", "store"}
      PROVE  UNCHANGED <<acc, out>>
  BY <1>5, WarpStepData DEF StepData
<1>6. ASSUME NEW w \in Warps, VmComplete(w) \/ DsComplete(w)
      PROVE  UNCHANGED <<acc, out>>
  BY <1>6 DEF VmComplete, DsComplete
<1>7. CASE UNCHANGED vars
  BY <1>7 DEF vars
<1> QED BY <1>1, <1>3, <1>4, <1>5, <1>6, <1>7 DEF Next, Terminated

\* A disciplined kernel implements the abstract GEMM: in every behaviour each
\* mfma adds the next product of its tile and nothing else changes a sum, and
\* what is stored is finished (ComputesGemm).
THEOREM Implements == Spec /\ Disciplined => ComputesGemm
<1>1. ASSUME Init PROVE \A c \in Configs : config = c => G(c)!Init
  <2>1. TilesOfC(config) = Warps \X AllOf({"mfma"})
    <3>1. ShapeInv
      BY <1>1, SyncInductive DEF SyncInv
    <3> QED BY <3>1, TilesOfLaunched
  <2> QED BY <1>1, <2>1 DEF Init, G!Init
<1> QED BY <1>1, StepRefines, SyncAlways, FollowsDataflow, DisciplineStays, PTL
     DEF Spec, ComputesGemm

-----------------------------------------------------------------------------
(* Ranges.                                                                 *)

\* Every tile is made of K-steps that exist: fetched tiles because the kernel is
\* disciplined, the others because they are made of fetched ones.
LEMMA RangeInductive ==
  /\ Init => RangeInv
  /\ SyncInv /\ Disciplined /\ FlowInv /\ RangeInv /\ [Next]_vars => RangeInv'
<1>1. ASSUME Init PROVE RangeInv
  <2>1. {NoData} \in Tile /\ {} \in Tile
    BY DEF Tile
  <2> QED BY <1>1, <2>1 DEF Init, RangeInv
<1>2. ASSUME SyncInv, Disciplined, FlowInv, RangeInv, [Next]_vars PROVE RangeInv'
  <2>1. /\ code' = code /\ config' = config /\ Tile' = Tile
        /\ TypeInv /\ TypeInv' /\ OperandsDelivered(code) /\ FetchesExist(code, iterMax)
        /\ DOMAIN lds' = DOMAIN lds
        /\ \A w \in Warps : RegInv(w)
    <3>1. code' = code /\ config' = config
      BY <1>2, CodeFixed
    <3>2. Tile' = Tile /\ \A ops : AllOf(ops)' = AllOf(ops)
      BY <3>1 DEF Tile, Steps, iterMax, AllOf
    <3>3. TypeInv /\ TypeInv' /\ \A w \in Warps : RegInv(w)
      BY <1>2, FlowInductive DEF FlowInv
    <3>4. DOMAIN lds' = DOMAIN lds
      BY <3>2, <3>3 DEF TypeInv
    <3> QED BY <1>2, <3>1, <3>2, <3>3, <3>4 DEF Disciplined
  <2>2. ASSUME NEW S, S \subseteq Tile PROVE UNION S \in Tile
    BY <2>2 DEF Tile
  <2>3. CASE UNCHANGED vars
    <3>1. vm' = vm /\ ds' = ds /\ lds' = lds /\ reg' = reg
      BY <2>3 DEF vars
    <3> QED BY <1>2, <2>1, <3>1 DEF RangeInv
  <2>4. ASSUME NEW w \in Warps, WarpStep(w) PROVE RangeInv'
    <3> DEFINE k == pc[w]
               i == Instr(w)
    <3>1. /\ StepShape(w) /\ StepData(w) /\ k \in Positions(code, w) /\ i = code[w][k]
          /\ DOMAIN vm = Warps /\ DOMAIN ds = Warps
          /\ IsSeq(vm[w]) /\ IsSeq(ds[w]) /\ base[w] = BaseAt(code, w, k)
      BY <1>2, <2>4, WarpStepShape, WarpStepData, AtInstruction
         DEF SyncInv, ShapeInv, QueueInv, QueueOK, PositionInv, Positions, Instr
    <3>2. \A r \in Needs(i) : reg[w][r] \in Tile
      BY <1>2, <2>1, <2>4, RegHeld DEF RangeInv
    <3>3. ASSUME NEW v \in Warps, NEW j \in DOMAIN vm'[v]
          PROVE  vm'[v][j].tile \in Tile
      <4>1. CASE vm'[v] = vm[v]
        BY <1>2, <4>1 DEF RangeInv
      <4>2. CASE vm'[v] # vm[v]
        <5>1. PICK d : Joins(d, w) /\ vm' = [vm EXCEPT ![w] = Append(@, d)]
          BY <3>1, <4>2 DEF StepShape
        <5>2. v = w /\ vm'[w] = Append(vm[w], d) /\ i.op \in VmOps
          BY <3>1, <4>2, <5>1 DEF StepShape
        <5>3. /\ DOMAIN vm[w] = 1 .. Len(vm[w]) /\ Len(vm[w]) \in Nat
              /\ DOMAIN vm'[w] = 1 .. Len(vm[w]) + 1
              /\ \A x \in 1 .. Len(vm[w]) : vm'[w][x] = vm[w][x]
              /\ vm'[w][Len(vm[w]) + 1] = d
          BY <3>1, <5>2, AppendSeq
        <5>4. d.tile \in Tile
          <6>1. d.tile = Fetched(BaseAt(code, w, k), i.ahead)
            BY <3>1, <5>1, <5>2 DEF Joins
          <6>2. i.ahead \in {Masked, NoStep} \/ BaseAt(code, w, k) + i.ahead \in Steps
            BY <2>1, <3>1, <5>2 DEF FetchesExist, VmOps, Steps
          <6>3. {NoData} \in Tile /\ {} \in Tile /\ \A x \in Steps : {x} \in Tile
            BY DEF Tile
          <6> HIDE DEF k, i
          <6> QED BY <6>1, <6>2, <6>3 DEF Fetched, Masked, NoStep
        <5>5. CASE j \in DOMAIN vm[w]
          BY <1>2, <5>2, <5>3, <5>5 DEF RangeInv
        <5>6. CASE j = Len(vm[w]) + 1
          BY <5>2, <5>3, <5>4, <5>6
        <5> QED BY <5>2, <5>3, <5>5, <5>6
      <4> QED BY <4>1, <4>2
    <3>4. ASSUME NEW v \in Warps, NEW j \in DOMAIN ds'[v]
          PROVE  /\ ds'[v][j].slots \subseteq DOMAIN lds
                 /\ ds'[v][j].kind = "write" => ds'[v][j].tile \in Tile
      <4>1. CASE ds'[v] = ds[v]
        BY <1>2, <4>1 DEF RangeInv
      <4>2. CASE ds'[v] # ds[v]
        <5>1. PICK d : Joins(d, w) /\ ds' = [ds EXCEPT ![w] = Append(@, d)]
          BY <3>1, <4>2 DEF StepShape
        <5>2. v = w /\ ds'[w] = Append(ds[w], d) /\ i.op \in DsOps
          BY <3>1, <4>2, <5>1 DEF StepShape
        <5>3. /\ DOMAIN ds[w] = 1 .. Len(ds[w]) /\ Len(ds[w]) \in Nat
              /\ DOMAIN ds'[w] = 1 .. Len(ds[w]) + 1
              /\ \A x \in 1 .. Len(ds[w]) : ds'[w][x] = ds[w][x]
              /\ ds'[w][Len(ds[w]) + 1] = d
          BY <3>1, <5>2, AppendSeq
        <5>4. d.slots \subseteq DOMAIN lds
          <6>1. d.slots = i.slots
            BY <5>1, <5>2 DEF Joins, DsOps
          <6> QED BY <1>2, <2>1, <3>1, <5>2, <6>1, SlotsAreFilled DEF TypeInv
        <5>5. d.kind = "write" => d.tile \in Tile
          BY <3>2, <5>1 DEF Joins, Needs
        <5>6. CASE j \in DOMAIN ds[w]
          BY <1>2, <5>2, <5>3, <5>6 DEF RangeInv
        <5>7. CASE j = Len(ds[w]) + 1
          BY <5>2, <5>3, <5>4, <5>5, <5>7
        <5> QED BY <5>2, <5>3, <5>6, <5>7
      <4> QED BY <4>1, <4>2
    <3>5. ASSUME NEW v \in Warps, NEW r \in DOMAIN reg'[v]
          PROVE  reg'[v][r] \in Tile
      <4>1. CASE reg' = reg
        BY <1>2, <4>1 DEF RangeInv
      <4>2. CASE reg' # reg
        <5>1. /\ i.op = "compute" /\ Needs(i) = i.from
              /\ reg' = [reg EXCEPT ![w] = [x \in DOMAIN @ |->
                           IF x \in i.to THEN UNION {@[s] : s \in i.from} ELSE @[x]]]
          BY <3>1, <4>2 DEF StepData, Needs
        <5> DEFINE u == UNION {reg[w][s] : s \in i.from}
        <5>2. u \in Tile
          BY <2>2, <3>2, <5>1
        <5>3. reg' = [reg EXCEPT ![w] = [x \in DOMAIN reg[w] |->
                           IF x \in i.to THEN u ELSE reg[w][x]]]
          BY <5>1
        <5> HIDE DEF u
        <5>4. reg'[v][r] = u \/ (r \in DOMAIN reg[v] /\ reg'[v][r] = reg[v][r])
          BY <2>1, <5>3 DEF TypeInv
        <5> QED BY <1>2, <5>2, <5>4 DEF RangeInv
      <4> QED BY <4>1, <4>2
    <3>6. lds' = lds
      BY <3>1 DEF StepData
    <3> QED BY <1>2, <2>1, <3>3, <3>4, <3>5, <3>6 DEF RangeInv
  <2>5. ASSUME NEW w \in Warps, VmComplete(w) \/ DsComplete(w) PROVE RangeInv'
    <3>1. /\ DOMAIN vm = Warps /\ DOMAIN ds = Warps
          /\ \A v \in Warps : IsSeq(vm[v]) /\ IsSeq(ds[v])
      BY <1>2 DEF SyncInv, ShapeInv, QueueInv, QueueOK
    <3>2. \A v \in Warps : /\ vm'[v] = vm[v] \/ (vm[v] # <<>> /\ vm'[v] = Tail(vm[v]))
                           /\ ds'[v] = ds[v] \/ (ds[v] # <<>> /\ ds'[v] = Tail(ds[v]))
      BY <2>5, <3>1 DEF VmComplete, DsComplete
    <3>3. ASSUME NEW v \in Warps, NEW j \in DOMAIN vm'[v]
          PROVE  vm'[v][j].tile \in Tile
      <4>1. \E x \in DOMAIN vm[v] : vm'[v][j] = vm[v][x]
        <5>1. CASE vm[v] # <<>> /\ vm'[v] = Tail(vm[v])
          <6>1. /\ DOMAIN vm[v] = 1 .. Len(vm[v]) /\ Len(vm[v]) \in Nat \ {0}
                /\ DOMAIN vm'[v] = 1 .. Len(vm[v]) - 1
                /\ \A x \in 1 .. Len(vm[v]) - 1 : vm'[v][x] = vm[v][x + 1]
            BY <3>1, <5>1, TailSeq
          <6>2. j + 1 \in DOMAIN vm[v]
            BY <6>1
          <6> QED BY <6>1, <6>2
        <5> QED BY <3>2, <5>1
      <4> QED BY <1>2, <4>1 DEF RangeInv
    <3>4. ASSUME NEW v \in Warps, NEW j \in DOMAIN ds'[v]
          PROVE  /\ ds'[v][j].slots \subseteq DOMAIN lds
                 /\ ds'[v][j].kind = "write" => ds'[v][j].tile \in Tile
      <4>1. \E x \in DOMAIN ds[v] : ds'[v][j] = ds[v][x]
        <5>1. CASE ds[v] # <<>> /\ ds'[v] = Tail(ds[v])
          <6>1. /\ DOMAIN ds[v] = 1 .. Len(ds[v]) /\ Len(ds[v]) \in Nat \ {0}
                /\ DOMAIN ds'[v] = 1 .. Len(ds[v]) - 1
                /\ \A x \in 1 .. Len(ds[v]) - 1 : ds'[v][x] = ds[v][x + 1]
            BY <3>1, <5>1, TailSeq
          <6>2. j + 1 \in DOMAIN ds[v]
            BY <6>1
          <6> QED BY <6>1, <6>2
        <5> QED BY <3>2, <5>1
      <4> QED BY <1>2, <4>1 DEF RangeInv
    <3>5. PICK tile \in Tile :
             \/ /\ reg' = reg
                /\ \E S : lds' = [s \in DOMAIN lds |->
                             IF s \in S THEN [lds[s] EXCEPT ![w] = tile] ELSE lds[s]]
             \/ lds' = lds /\ \E r : reg' = [reg EXCEPT ![w][r] = tile]
      <4>1. CASE VmComplete(w)
        <5>1. Head(vm[w]) = vm[w][1] /\ 1 \in DOMAIN vm[w]
          BY <1>2, <4>1, FinishedByCompletion
        <5>2. Head(vm[w]).tile \in Tile
          BY <1>2, <5>1 DEF RangeInv
        <5> QED BY <4>1, <5>2 DEF VmComplete
      <4>2. CASE DsComplete(w)
        <5> DEFINE d == Head(ds[w])
                   u == UNION {lds[s][v] : s \in d.slots, v \in Warps}
        <5>1. /\ d = ds[w][1] /\ 1 \in DOMAIN ds[w]
              /\ d.kind \in {"read", "write"}
          BY <1>2, <4>2, FinishedByCompletion DEF EntryOK, DsOps
        <5>2. d.slots \subseteq DOMAIN lds /\ (d.kind = "write" => d.tile \in Tile)
          BY <1>2, <5>1 DEF RangeInv
        <5>3. u \in Tile
          <6> DEFINE X == {lds[s][v] : s \in d.slots, v \in Warps}
          <6>1. X \subseteq Tile
            BY <1>2, <5>2 DEF RangeInv
          <6>2. u = UNION X
            OBVIOUS
          <6> HIDE DEF X, u
          <6> QED BY <2>2, <6>1, <6>2
        <5>4. IF d.kind = "read"
              THEN lds' = lds /\ reg' = [reg EXCEPT ![w][d.reg] = u]
              ELSE /\ reg' = reg
                   /\ lds' = [s \in DOMAIN lds |->
                                 IF s \in d.slots THEN [lds[s] EXCEPT ![w] = d.tile] ELSE lds[s]]
          BY <4>2 DEF DsComplete
        <5> HIDE DEF d, u
        <5> QED BY <5>1, <5>2, <5>3, <5>4
      <4> QED BY <2>5, <4>1, <4>2
    <3>6. \A s \in DOMAIN lds' : lds'[s] \in [Warps -> Tile]
      <4>1. lds' = lds \/ \E S : lds' = [s \in DOMAIN lds |->
                                  IF s \in S THEN [lds[s] EXCEPT ![w] = tile] ELSE lds[s]]
        BY <3>5
      <4> QED BY <1>2, <4>1 DEF RangeInv
    <3>7. \A v \in Warps : \A r \in DOMAIN reg'[v] : reg'[v][r] \in Tile
      <4>1. reg' = reg \/ \E r : reg' = [reg EXCEPT ![w][r] = tile]
        BY <3>5
      <4> QED BY <1>2, <2>1, <4>1 DEF RangeInv, TypeInv
    <3> QED BY <2>1, <3>3, <3>4, <3>6, <3>7 DEF RangeInv
  <2> QED BY <1>2, <2>3, <2>4, <2>5 DEF Next, Terminated
<1> QED BY <1>1, <1>2

\* Every variable of a disciplined kernel stays in its range; above all, no copy
\* and no load fetches a K-step beyond K (TypeOK).
THEOREM TypeCorrect == Spec /\ Disciplined => []TypeOK
<1>1. SyncInv /\ RangeInv => TypeOK
  <2> SUFFICES ASSUME SyncInv, RangeInv PROVE TypeOK
    OBVIOUS
  <2>1. pc \in [Warps -> Nat \ {0}]
    BY DEF SyncInv, ShapeInv, PositionInv
  <2> QED BY <2>1 DEF SyncInv, ShapeInv, RangeInv, TypeOK
<1> QED BY <1>1, SyncAlways, FollowsDataflow, RangeInductive, DisciplineStays, PTL DEF Spec

-----------------------------------------------------------------------------
(* Barriers are no dead ends.                                              *)

\* Of the warps that are not at their end, one with the fewest arrivals is not
\* held up: those at their end have come by all barriers there are.
LEMMA PairedNotStuck == SyncInv /\ BarriersPaired(code) => NotStuck
<1> SUFFICES ASSUME SyncInv, BarriersPaired(code), ~AllDone
             PROVE  \E w \in Warps : ~Done(w) /\ Released(w)
  BY DEF NotStuck
<1> DEFINE T == {arrivals[w] : w \in {v \in Warps : ~Done(v)}}
<1>1. arrivals \in [Warps -> Nat] /\ pc \in [Warps -> Nat]
  BY DEF SyncInv, ShapeInv
<1>2. T \subseteq Nat /\ T # {}
  BY <1>1 DEF AllDone
<1>3. PICK x \in T : \A y \in T : x <= y
  BY <1>2, Least
<1>4. PICK w \in Warps : ~Done(w) /\ x = arrivals[w]
  OBVIOUS
<1>5. ASSUME NEW v \in Warps, Done(v) PROVE arrivals[v] >= arrivals[w]
  <2>1. /\ Len(code[v]) \in Nat /\ Len(code[w]) \in Nat
        /\ pc[v] \in 1 .. Len(code[v]) + 1 /\ pc[w] \in 1 .. Len(code[w]) + 1
        /\ arrivals[v] = BarriersBefore(code, v, pc[v])
        /\ arrivals[w] = BarriersBefore(code, w, pc[w])
    BY ProgramOK DEF SyncInv, PositionInv
  <2>2. pc[v] = Len(code[v]) + 1
    BY <1>5, <2>1 DEF Done
  <2>3. arrivals[v] = BarriersBefore(code, w, Len(code[w]) + 1)
    BY <2>1, <2>2 DEF BarriersPaired
  <2>4. /\ pc[w] \in Nat \ {0} /\ Len(code[w]) + 1 \in Nat \ {0}
        /\ pc[w] <= Len(code[w]) + 1
    BY <2>1
  <2>5. arrivals[w] <= BarriersBefore(code, w, Len(code[w]) + 1)
    BY <2>1, <2>4, BarriersMonotone
  <2>6. arrivals[v] \in Nat /\ arrivals[w] \in Nat
    BY <1>1
  <2> QED BY ONLY <2>3, <2>5, <2>6
<1>6. ASSUME NEW v \in Warps, ~Done(v) PROVE arrivals[v] >= arrivals[w]
  <2>1. arrivals[w] <= arrivals[v]
    BY <1>3, <1>4, <1>6
  <2> QED BY <1>1, <2>1
<1>7. Released(w)
  BY <1>5, <1>6 DEF Released
<1> QED BY <1>4, <1>7

\* However many warps there are and whatever runs ahead, a kernel that gives all
\* of them the same number of barriers never comes to a stop (NotStuck).
THEOREM NeverStuck == Spec /\ BarriersPaired(code) => []NotStuck
<1>1. BarriersPaired(code) /\ [Next]_vars => BarriersPaired(code)'
  <2>1. [Next]_vars => code' = code
    BY CodeFixed
  <2> QED BY <2>1
<1> QED BY <1>1, PairedNotStuck, SyncAlways, PTL DEF Spec
=============================================================================
