------------------------------- MODULE Membar -------------------------------
(***************************************************************************)
(* Triton's membar pass: a local barrier before every LDS access that      *)
(* conflicts with an earlier one of the same allocation since the last     *)
(* fence, on any path that leads there.  It cannot tell the buffers of one *)
(* allocation apart.  The loop is compiled once: a barrier that one turn   *)
(* of it needs is in all of them.                                          *)
(***************************************************************************)
EXTENDS Instructions

Allocations(S) == {s[1] : s \in S}
ReadsOf(i)  == IF i.op = "read" /\ ~i.relaxed THEN Allocations(i.slots) ELSE {}
WritesOf(i) == IF i.op \in {"copy", "write"} THEN Allocations(i.slots) ELSE {}

Fences(i) == i.op = "barrier" /\ i.local

\* BlockInfo: the allocations accessed since the last fence.
NothingPending == [reads |-> {}, writes |-> {}]
Join(p, q) == [reads |-> p.reads \cup q.reads, writes |-> p.writes \cup q.writes]

Conflicts(i, pending) ==
    \/ WritesOf(i) \cap (pending.reads \cup pending.writes) # {}
    \/ ReadsOf(i) \cap pending.writes # {}

\* A visit of a block of instructions from position k on, which may have barriers
\* already: it is entered with pending accesses, and left with others and with
\* more barriers.  A barrier is known by the position of the instruction behind it.
RECURSIVE VisitFrom(_, _, _, _)
VisitFrom(k, block, pending, barriers) ==
    IF k > Len(block) THEN [pending |-> pending, barriers |-> barriers] ELSE
    LET i == block[k]
        needed == k \in barriers \/ Conflicts(i, pending)
        left   == IF needed \/ Fences(i) THEN NothingPending ELSE pending
    IN  VisitFrom(k + 1, block, Join(left, [reads |-> ReadsOf(i), writes |-> WritesOf(i)]),
                  barriers \cup (IF needed THEN {k} ELSE {}))

Visit(block, entry, barriers) == VisitFrom(1, block, entry, barriers)

\* The body of a loop is visited until its back edge brings nothing new to its
\* header.  What is pending there is pending behind the loop as well.
RECURSIVE LoopVisit(_, _, _)
LoopVisit(body, entry, barriers) ==
    LET v == Visit(body, entry, barriers)
        header == Join(entry, v.pending)
    IN  IF header = entry /\ v.barriers = barriers
        THEN [pending |-> header, barriers |-> barriers]
        ELSE LoopVisit(body, header, v.barriers)

WithBarriers(block, barriers) ==
    FlattenSeq([k \in DOMAIN block |->
        IF k \in barriers THEN Local \o <<block[k]>> ELSE <<block[k]>>])

\* A kernel with its barriers put in and its loop unrolled: what a warp executes.
RECURSIVE LoweredFrom(_, _)
LoweredFrom(kernel, pending) ==
    IF kernel = <<>> THEN <<>> ELSE
    LET i == Head(kernel)
        isLoop == i.op = "loop"
        v == IF isLoop THEN LoopVisit(i.body, pending, {}) ELSE Visit(<<i>>, pending, {})
        turns == IF isLoop THEN i.turns ELSE << <<i>> >>
    IN  FlattenSeq([t \in DOMAIN turns |-> WithBarriers(turns[t], v.barriers)])
        \o LoweredFrom(Tail(kernel), v.pending)

Lowered(kernel) == LoweredFrom(kernel, NothingPending)
=============================================================================
