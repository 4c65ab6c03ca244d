------------------------ MODULE LlirSchedulerProofs ------------------------
(***************************************************************************)
(* The LLIR scheduler gives every span that it declares a pipeline for a   *)
(* sync id of its own, in every function and whichever blocks are rolled   *)
(* back, and counts those spans.                                           *)
(***************************************************************************)
EXTENDS LlirScheduler, CoExecProofs

-----------------------------------------------------------------------------
(* The inductive invariant.                                                *)

SpanOK(s)  == s = [code |-> s.code, groups |-> s.groups] /\ IsSequence(s.code)
BlockOK(b) == IsSequence(b) /\ \A n \in DOMAIN b : SpanOK(b[n])

\* The function is made of blocks and spans; what is past them has no meaning
\* once the pass over the spans has ended.
ShapeInv == /\ source \in Sources
            /\ IsSequence(blocks)
            /\ pc # "done" => \A k \in DOMAIN blocks : BlockOK(blocks[k])
            /\ pc = "spans" => /\ block \in DOMAIN blocks /\ span \in Nat \ {0}
                               /\ BlockOK(snapshot)
            /\ syncBefore \in Nat /\ syncID \in Nat /\ syncBefore <= syncID
            /\ scheduled \in Nat /\ blockScheduled \in Nat

\* No pipeline is declared without a group: the span would be counted and its id
\* used up for nothing.
PipelinesFilled ==
    pc = "spans" /\ span <= Len(blocks[block]) =>
        LET s == blocks[block][span].code
        IN  Declares(Flat, s) => DOMAIN DeclareRegionGroups(Flat, s).pipeline # {}

SyncAt(k, n) == SyncIDs(blocks[k][n])

\* The ids of the blocks before the current one are taken up to syncBefore, those
\* of its spans so far from there to syncID, and what comes next has none.
IdInv ==
    pc = "spans" =>
        /\ \A k \in DOMAIN blocks : \A n \in DOMAIN blocks[k] : \A x \in SyncAt(k, n) :
              /\ x \in Nat /\ k <= block
              /\ k < block => x <= syncBefore
              /\ k = block => n < span /\ syncBefore < x /\ x <= syncID
        /\ \A n \in DOMAIN snapshot : SyncIDs(snapshot[n]) = {}

DistinctInv ==
    \A k, l \in DOMAIN blocks : \A n \in DOMAIN blocks[k], m \in DOMAIN blocks[l] :
        \A x \in SyncAt(k, n), y \in SyncAt(l, m) : x = y <=> (k = l /\ n = m)

IInv == ShapeInv /\ IdInv /\ DistinctInv

\* The counters are those of the declared spans.
DeclaredIn(K) == {p \in Declared : p[1] \in K}
CountInv ==
    /\ IsFiniteSet(Declared)
    /\ pc = "spans" => /\ scheduled = Cardinality(DeclaredIn(1 .. block - 1))
                       /\ blockScheduled = Cardinality(DeclaredIn({block}))
    /\ pc # "spans" => scheduled = Cardinality(Declared)

-----------------------------------------------------------------------------
(* What the steps do to the spans.                                         *)

\* What splitting packed operations makes of code: position p holds piece at[p] of
\* the instruction at part[p], with its operands renamed.
PieceOf(i, split, o) ==
    IF i.id \notin split THEN Renamed(i, split)
    ELSE IF o = Glue THEN Joined(i) ELSE Part(Renamed(i, split), o)
PieceNumbers(i, split) == IF i.id \in split THEN 1 .. Glue ELSE {1}
SplitAs(s, split, v, part, at) ==
    /\ \A p \in DOMAIN v : /\ part[p] \in DOMAIN s /\ at[p] \in PieceNumbers(s[part[p]], split)
                           /\ v[p] = PieceOf(s[part[p]], split, at[p])
    /\ \A p, q \in DOMAIN v :
          p < q => part[p] < part[q] \/ (part[p] = part[q] /\ at[p] < at[q])
    /\ \A k \in DOMAIN s : \A o \in PieceNumbers(s[k], split) :
          \E p \in DOMAIN v : part[p] = k /\ at[p] = o

\* Splitting does just that, for a sequence of any instructions.
LEMMA ScalarizedPieces ==
  ASSUME NEW s, IsSequence(s), NEW split
  PROVE  /\ IsSequence(Scalarized(s, split))
         /\ \E part, at : SplitAs(s, split, Scalarized(s, split), part, at)
<1> DEFINE all == [k \in DOMAIN s |-> Pieces(Renamed(s[k], split), split)]
           v == FlattenSeq(all)
<1>1. Scalarized(s, split) = v
  BY DEF Scalarized
<1>2. Len(s) \in Nat /\ DOMAIN s = 1 .. Len(s)
  BY SequenceDomain
<1>3. ASSUME NEW i
      PROVE  LET t == Pieces(Renamed(i, split), split)
             IN  /\ IsSequence(t) /\ DOMAIN t = PieceNumbers(i, split)
                 /\ \A o \in DOMAIN t : t[o] = PieceOf(i, split, o)
  <2> DEFINE j == Renamed(i, split)
             t == Pieces(j, split)
  <2>1. j.id = i.id /\ Joined(j) = Joined(i)
    BY DEF Renamed, Joined
  <2> HIDE DEF j
  <2>2. CASE i.id \in split
    <3>1. t = [e \in 1 .. Glue |-> IF e = Glue THEN Joined(j) ELSE Part(j, e)]
      BY <2>1, <2>2 DEF Pieces
    <3>2. Glue \in Nat
      BY DEF Glue, Elements
    <3> HIDE DEF t
    <3>3. t = [e \in 1 .. Glue |-> t[e]] /\ DOMAIN t = 1 .. Glue
      BY <3>1
    <3>4. IsSequence(t)
      BY <3>2, <3>3, MakeSequence
    <3>5. \A o \in 1 .. Glue : t[o] = PieceOf(i, split, o)
      BY <2>1, <2>2, <3>1 DEF PieceOf, j
    <3> QED BY <2>2, <3>3, <3>4, <3>5 DEF PieceNumbers, t, j
  <2>3. CASE i.id \notin split
    <3>1. t = <<j>>
      BY <2>1, <2>3 DEF Pieces
    <3> HIDE DEF t
    <3>2. IsSequence(t) /\ DOMAIN t = {1} /\ t[1] = j
      BY <3>1, SingletonSequence
    <3> QED BY <2>3, <3>2 DEF PieceNumbers, PieceOf, t, j
  <2> QED BY <2>2, <2>3
<1>4. /\ IsSequence(all) /\ Len(all) = Len(s) /\ DOMAIN all = DOMAIN s
      /\ \A k \in DOMAIN s : /\ IsSequence(all[k]) /\ DOMAIN all[k] = PieceNumbers(s[k], split)
                             /\ \A o \in DOMAIN all[k] : all[k][o] = PieceOf(s[k], split, o)
  <2>1. all = [k \in 1 .. Len(s) |-> all[k]]
    BY <1>2
  <2>2. \A k \in DOMAIN s : all[k] = Pieces(Renamed(s[k], split), split)
    OBVIOUS
  <2> HIDE DEF all
  <2>3. IsSequence(all) /\ Len(all) = Len(s)
    BY <1>2, <2>1, MakeSequence
  <2> QED BY <1>2, <1>3, <2>1, <2>2, <2>3
<1> HIDE DEF all
<1>5. Laid(all, Len(all), v)
  <2>1. \A k \in DOMAIN all : IsSequence(all[k])
    BY <1>4
  <2> QED BY <1>4, <2>1, FlattenLaid
<1>6. PICK part, at : LaidBy(all, Len(all), v, part, at)
  BY <1>5 DEF Laid
<1>7. IsSequence(v)
  BY <1>5 DEF Laid
<1> HIDE DEF v
<1>8. SplitAs(s, split, v, part, at)
  <2>1. 1 .. Len(all) = DOMAIN s
    BY <1>2, <1>4
  <2>2. \A p \in DOMAIN v : /\ part[p] \in DOMAIN s /\ at[p] \in PieceNumbers(s[part[p]], split)
                            /\ v[p] = PieceOf(s[part[p]], split, at[p])
    BY <1>4, <1>6, <2>1 DEF LaidBy
  <2>3. \A p, q \in DOMAIN v :
           p < q => part[p] < part[q] \/ (part[p] = part[q] /\ at[p] < at[q])
    BY <1>6 DEF LaidBy
  <2>4. \A k \in DOMAIN s : \A o \in PieceNumbers(s[k], split) :
           \E p \in DOMAIN v : part[p] = k /\ at[p] = o
    BY <1>4, <1>6, <2>1 DEF LaidBy
  <2> QED BY <2>2, <2>3, <2>4 DEF SplitAs
<1> QED BY <1>1, <1>7, <1>8

\* What delaying the memory stages makes of code: position p holds the instruction
\* at part[p] or, behind it, nop number at[p] - 1.
Nop(i, k) == [id |-> <<i.id[1], -k>>, op |-> "s.nop", operands |-> <<>>]
PacedAs(s, v, part, at) ==
    /\ \A p \in DOMAIN v :
          /\ part[p] \in DOMAIN s
          /\ \/ at[p] = 1 /\ v[p] = s[part[p]]
             \/ /\ at[p] \in 2 .. DefaultMemNops + 1 /\ IsBarrier(s[part[p]])
                /\ v[p] = Nop(s[part[p]], at[p] - 1)
    /\ \A p, q \in DOMAIN v :
          p < q => part[p] < part[q] \/ (part[p] = part[q] /\ at[p] < at[q])
    /\ \A k \in DOMAIN s : \E p \in DOMAIN v : part[p] = k /\ at[p] = 1

\* insertMemRegionNops keeps every instruction and puts nops behind barriers only.
LEMMA PacedPieces ==
  ASSUME NEW s, IsSequence(s)
  PROVE  IsSequence(Paced(s)) /\ \E part, at : PacedAs(s, Paced(s), part, at)
<1> DEFINE Nops(i) == [k \in 1 .. DefaultMemNops |-> Nop(i, k)]
           Behind(i) == IF MemStage(i) THEN <<i>> \o Nops(i) ELSE <<i>>
           all == [k \in DOMAIN s |-> Behind(s[k])]
           v == FlattenSeq(all)
<1>1. Paced(s) = v
  BY DEF Paced, Nop
<1>2. Len(s) \in Nat /\ DOMAIN s = 1 .. Len(s)
  BY SequenceDomain
<1>3. ASSUME NEW i
      PROVE  /\ IsSequence(Behind(i)) /\ 1 \in DOMAIN Behind(i) /\ Behind(i)[1] = i
             /\ \A o \in DOMAIN Behind(i) :
                   \/ o = 1
                   \/ /\ o \in 2 .. DefaultMemNops + 1 /\ IsBarrier(i)
                      /\ Behind(i)[o] = Nop(i, o - 1)
  <2> DEFINE t == <<i>>
             u == Nops(i)
             w == t \o u
  <2>1. DefaultMemNops \in Nat /\ u = [e \in 1 .. DefaultMemNops |-> u[e]]
    BY DEF DefaultMemNops
  <2>2. \A o \in 1 .. DefaultMemNops : u[o] = Nop(i, o)
    OBVIOUS
  <2> HIDE DEF u
  <2>3. IsSequence(u) /\ Len(u) = DefaultMemNops
    BY <2>1, MakeSequence
  <2>4. IsSequence(t) /\ DOMAIN t = {1} /\ t[1] = i /\ Len(t) = 1
    BY SingletonSequence
  <2> HIDE DEF t
  <2>5. /\ IsSequence(w) /\ DOMAIN w = 1 .. 1 + DefaultMemNops
        /\ \A o \in 1 .. 1 + DefaultMemNops : w[o] = IF o <= 1 THEN t[o] ELSE u[o - 1]
    <3>1. /\ IsSequence(t \o u) /\ DOMAIN (t \o u) = 1 .. Len(t) + Len(u)
          /\ \A o \in 1 .. Len(t) + Len(u) : (t \o u)[o] = IF o <= Len(t) THEN t[o] ELSE u[o - Len(t)]
      BY ONLY <2>3, <2>4, ConcatSequence
    <3> HIDE DEF w
    <3>2. w = t \o u
      BY DEF w
    <3> QED BY <2>3, <2>4, <3>1, <3>2
  <2> HIDE DEF w
  <2>6. CASE MemStage(i)
    <3>1. Behind(i) = w
      BY <2>6 DEF w, t, u
    <3>2. IsBarrier(i)
      BY <2>6 DEF MemStage
    <3> HIDE DEF Behind
    <3>3. 1 \in DOMAIN w /\ w[1] = i
      <4>1. 1 \in 1 .. 1 + DefaultMemNops /\ 1 <= 1
        BY <2>1
      <4> QED BY <2>4, <2>5, <4>1
    <3>4. ASSUME NEW o \in DOMAIN w, o # 1
          PROVE  o \in 2 .. DefaultMemNops + 1 /\ w[o] = Nop(i, o - 1)
      <4>1. o \in 2 .. DefaultMemNops + 1 /\ ~(o <= 1) /\ o - 1 \in 1 .. DefaultMemNops
        BY <2>1, <2>5, <3>4
      <4> QED BY <2>2, <2>5, <4>1
    <3> QED BY <2>5, <3>1, <3>2, <3>3, <3>4
  <2>7. CASE ~MemStage(i)
    <3>1. Behind(i) = t
      BY <2>7 DEF t
    <3> HIDE DEF Behind
    <3> QED BY <2>4, <3>1
  <2> QED BY <2>6, <2>7
<1> HIDE DEF Behind
<1>4. /\ IsSequence(all) /\ Len(all) = Len(s) /\ DOMAIN all = DOMAIN s
      /\ \A k \in DOMAIN s : all[k] = Behind(s[k])
  <2>1. all = [k \in 1 .. Len(s) |-> all[k]] /\ \A k \in DOMAIN s : all[k] = Behind(s[k])
    BY <1>2
  <2> HIDE DEF all
  <2>2. IsSequence(all) /\ Len(all) = Len(s)
    BY <1>2, <2>1, MakeSequence
  <2> QED BY <1>2, <2>1, <2>2
<1> HIDE DEF all
<1>5. Laid(all, Len(all), v)
  <2>1. \A k \in DOMAIN all : IsSequence(all[k])
    BY <1>3, <1>4
  <2> QED BY <1>4, <2>1, FlattenLaid
<1>6. PICK part, at : LaidBy(all, Len(all), v, part, at)
  BY <1>5 DEF Laid
<1>7. IsSequence(v)
  BY <1>5 DEF Laid
<1> HIDE DEF v
<1>8. PacedAs(s, v, part, at)
  <2>1. 1 .. Len(all) = DOMAIN s
    BY <1>2, <1>4
  <2>2. ASSUME NEW p \in DOMAIN v
        PROVE  /\ part[p] \in DOMAIN s
               /\ \/ at[p] = 1 /\ v[p] = s[part[p]]
                  \/ /\ at[p] \in 2 .. DefaultMemNops + 1 /\ IsBarrier(s[part[p]])
                     /\ v[p] = Nop(s[part[p]], at[p] - 1)
    <3>1. part[p] \in DOMAIN s /\ at[p] \in DOMAIN all[part[p]] /\ v[p] = all[part[p]][at[p]]
      BY <1>6, <2>1 DEF LaidBy
    <3>2. all[part[p]] = Behind(s[part[p]])
      BY <1>4, <3>1
    <3> QED BY <1>3, <3>1, <3>2
  <2>3. \A p, q \in DOMAIN v :
           p < q => part[p] < part[q] \/ (part[p] = part[q] /\ at[p] < at[q])
    BY <1>6 DEF LaidBy
  <2>4. \A k \in DOMAIN s : \E p \in DOMAIN v : part[p] = k /\ at[p] = 1
    <3>1. \A k \in DOMAIN s : k \in 1 .. Len(all) /\ 1 \in DOMAIN all[k]
      BY <1>3, <1>4, <2>1
    <3> QED BY <1>6, <3>1 DEF LaidBy
  <2> QED BY <2>2, <2>3, <2>4 DEF PacedAs
<1> QED BY <1>1, <1>7, <1>8

\* Delaying memory stages drops no instruction.
LEMMA PacedRange ==
  ASSUME NEW s, IsSequence(s)
  PROVE  Range(s) \subseteq Range(Paced(s))
<1>1. PICK part, at : PacedAs(s, Paced(s), part, at)
  BY PacedPieces
<1> SUFFICES ASSUME NEW x \in Range(s) PROVE x \in Range(Paced(s))
  OBVIOUS
<1>2. PICK k \in DOMAIN s : x = s[k]
  BY DEF Range
<1> DEFINE v == Paced(s)
<1> HIDE DEF v
<1>3. PICK p \in DOMAIN v : part[p] = k /\ at[p] = 1
  BY <1>1 DEF PacedAs, v
<1>4. v[p] = x
  BY <1>1, <1>2, <1>3 DEF PacedAs, v
<1>5. x \in Range(v)
  BY <1>4 DEF Range
<1> QED BY <1>5 DEF v

\* Replacing the code of a span keeps its pipeline, and sync ids depend on that.
LEMMA NewCode ==
  ASSUME NEW s, SpanOK(s), NEW c
  PROVE  [s EXCEPT !.code = c] = [code |-> c, groups |-> s.groups]
BY DEF SpanOK

\* The sync ids of a span are those of its group barriers, whatever its code.
LEMMA SyncIdsOf ==
  ASSUME NEW s, NEW t, s.groups = t.groups
  PROVE  SyncIDs(s) = SyncIDs(t)
BY DEF SyncIDs

\* The fields of a span.
LEMMA Fields ==
  ASSUME NEW s, NEW c, NEW g, s = [code |-> c, groups |-> g]
  PROVE  s.code = c /\ s.groups = g
OBVIOUS

\* Code that is a sequence makes a span, with any group barriers.
LEMMA MakeSpan ==
  ASSUME NEW s, NEW c, IsSequence(c), NEW g, s = [code |-> c, groups |-> g]
  PROVE  SpanOK(s)
BY DEF SpanOK

\* A rolled back block has the pipelines that it had in the snapshot, or is
\* corrupt and has none.
LEMMA RestoredBlock ==
  ASSUME NEW b, NEW saved, BlockOK(saved)
  PROVE  LET r == RestoreBlock(b, saved)
         IN  /\ BlockOK(r)
             /\ \A n \in DOMAIN r : \/ SyncIDs(r[n]) = {}
                                    \/ n \in DOMAIN saved /\ SyncIDs(r[n]) = SyncIDs(saved[n])
<1> DEFINE Now(i) == CHOOSE j \in Range(Code(b)) : j.id = i.id
           back == [n \in DOMAIN saved |->
                       [saved[n] EXCEPT !.code = [k \in DOMAIN @ |-> Now(@[k])]]]
           r == RestoreBlock(b, saved)
<1>1. r = IF Held(saved) \subseteq Held(b) THEN back ELSE Corrupt
  BY DEF RestoreBlock
<1>2. Len(saved) \in Nat /\ DOMAIN saved = 1 .. Len(saved) /\ \A n \in DOMAIN saved : SpanOK(saved[n])
  BY SequenceDomain DEF BlockOK
<1>3. CASE r = back
  <2> DEFINE code(n) == [k \in DOMAIN saved[n].code |-> Now(saved[n].code[k])]
  <2> HIDE DEF Now
  <2>1. \A n \in DOMAIN saved : back[n] = [code |-> code(n), groups |-> saved[n].groups]
    BY <1>2 DEF SpanOK
  <2>2. \A n \in DOMAIN saved : IsSequence(code(n))
    <3> TAKE n \in DOMAIN saved
    <3>1. Len(saved[n].code) \in Nat /\ DOMAIN saved[n].code = 1 .. Len(saved[n].code)
      BY <1>2, SequenceDomain DEF SpanOK
    <3>2. code(n) = [k \in 1 .. Len(saved[n].code) |-> code(n)[k]]
      BY <3>1
    <3> HIDE DEF code
    <3> QED BY <3>1, <3>2, MakeSequence
  <2> HIDE DEF code
  <2>3. back = [n \in 1 .. Len(saved) |-> back[n]] /\ DOMAIN back = DOMAIN saved
    BY <1>2
  <2> HIDE DEF back
  <2>4. IsSequence(back)
    BY <1>2, <2>3, MakeSequence
  <2>5. ASSUME NEW n \in DOMAIN saved
        PROVE  SpanOK(back[n]) /\ SyncIDs(back[n]) = SyncIDs(saved[n])
    <3>1. SpanOK(back[n])
      BY <2>1, <2>2, MakeSpan
    <3>2. back[n].groups = saved[n].groups
      <4> DEFINE g == saved[n].groups
                 t == back[n]
      <4>1. t = [code |-> code(n), groups |-> g]
        BY <2>1
      <4> HIDE DEF g, t
      <4>2. t.groups = g
        BY ONLY <4>1, Fields
      <4> QED BY <4>2 DEF g, t
    <3> QED BY <3>1, <3>2, SyncIdsOf
  <2> QED BY <1>3, <2>3, <2>4, <2>5 DEF BlockOK
<1>4. CASE r = Corrupt
  <2> DEFINE code == <<[id |-> <<0, 0>>, op |-> "freed", operands |-> <<>>]>>
  <2>1. Corrupt = <<[code |-> code, groups |-> <<>>]>> /\ IsSequence(code) /\ IsSequence(Corrupt)
    BY SingletonSequence DEF Corrupt, Bare
  <2> HIDE DEF code
  <2>2. DOMAIN Corrupt = {1} /\ Corrupt[1] = [code |-> code, groups |-> <<>>]
    BY <2>1
  <2>3. SpanOK(Corrupt[1]) /\ SyncIDs(Corrupt[1]) = {}
    BY <2>1, <2>2 DEF SpanOK, SyncIDs, Range
  <2> QED BY <1>4, <2>1, <2>2, <2>3 DEF BlockOK
<1> QED BY <1>1, <1>3, <1>4

\* The packed operations that a declaration of the current span splits.
NextSplit == DeclareRegionGroups(Flat, blocks[block][span].code).split

\* A declaration gives the current span, and no other, the id that is next.
LEMMA DeclareEffect ==
  ASSUME ShapeInv, Declare
  PROVE  /\ IsSequence(blocks') /\ DOMAIN blocks' = DOMAIN blocks
         /\ span \in DOMAIN blocks[block]
         /\ \A k \in DOMAIN blocks :
               /\ BlockOK(blocks'[k]) /\ DOMAIN blocks'[k] = DOMAIN blocks[k]
               /\ \A n \in DOMAIN blocks[k] :
                     <<k, n>> # <<block, span>> => SyncIDs(blocks'[k][n]) = SyncIDs(blocks[k][n])
         /\ \/ /\ blocks' = blocks /\ blockScheduled' = blockScheduled
               /\ syncID' \in {syncID, syncID + 1}
            \/ /\ blockScheduled' = blockScheduled + 1 /\ syncID' = syncID + 1
               /\ SyncIDs(blocks'[block][span]) \subseteq {syncID'}
               /\ PipelinesFilled => SyncIDs(blocks'[block][span]) = {syncID'}
               /\ \A k \in DOMAIN blocks : \A n \in DOMAIN blocks[k] :
                     blocks'[k][n].code = Scalarized(blocks[k][n].code, NextSplit)
<1> DEFINE s == blocks[block][span].code
           code == Flat
           d == DeclareRegionGroups(code, s)
           C(k, n) == Scalarized(blocks[k][n].code, d.split)
           Inserts == [k \in DOMAIN d.pipeline |-> GroupBarrier(d.pipeline[k], syncID')]
<1>1. /\ pc = "spans" /\ span <= Len(blocks[block])
      /\ syncID' = NextSync(s, syncID)
      /\ IF Declares(code, s)
         THEN blocks' = WithDeclaration(d, syncID') /\ blockScheduled' = blockScheduled + 1
         ELSE UNCHANGED <<blocks, blockScheduled>>
  BY DEF Declare
<1>2. /\ block \in DOMAIN blocks /\ span \in Nat \ {0}
      /\ Len(blocks) \in Nat /\ DOMAIN blocks = 1 .. Len(blocks)
      /\ \A k \in DOMAIN blocks : BlockOK(blocks[k])
      /\ IsSequence(blocks)
  BY <1>1, SequenceDomain DEF ShapeInv
<1>3. span \in DOMAIN blocks[block]
  <2>1. Len(blocks[block]) \in Nat /\ DOMAIN blocks[block] = 1 .. Len(blocks[block])
    BY <1>2, SequenceDomain DEF BlockOK
  <2> QED BY <1>1, <1>2, <2>1
<1>4. syncID' \in {syncID, syncID + 1} /\ (Declares(code, s) => syncID' = syncID + 1)
  <2>1. Declares(code, s) => IsCoExec(s) /\ Independent(s)
    BY DEF Declares
  <2> HIDE DEF s, code
  <2> QED BY <1>1, <2>1 DEF NextSync
<1>5. CASE ~Declares(code, s)
  <2>1. blocks' = blocks /\ blockScheduled' = blockScheduled
    <3> HIDE DEF code, s
    <3> QED BY <1>1, <1>5
  <2> QED BY <1>2, <1>3, <1>4, <2>1
<1>6. CASE Declares(code, s)
  <2>1. blockScheduled' = blockScheduled + 1 /\ syncID' = syncID + 1
    <3> HIDE DEF code, s
    <3> QED BY <1>1, <1>4, <1>6
  <2>2. blocks' = WithDeclaration(d, syncID')
    <3> HIDE DEF code, s
    <3> QED BY <1>1, <1>6
  <2>3. PipelinesFilled => DOMAIN d.pipeline # {}
    BY <1>1, <1>6 DEF PipelinesFilled
  <2> HIDE DEF d
  <2>4. \A k \in DOMAIN blocks : \A n \in DOMAIN blocks[k] :
           /\ SpanOK(blocks[k][n]) /\ IsSequence(C(k, n))
           /\ [blocks[k][n] EXCEPT !.code = Scalarized(@, d.split)]
                = [code |-> C(k, n), groups |-> blocks[k][n].groups]
    <3> TAKE k \in DOMAIN blocks
    <3> TAKE n \in DOMAIN blocks[k]
    <3>1. SpanOK(blocks[k][n])
      BY <1>2 DEF BlockOK
    <3> QED BY <3>1, ScalarizedPieces DEF SpanOK
  <2> HIDE DEF C
  <2>5. blocks' = [k \in DOMAIN blocks |-> [n \in DOMAIN blocks[k] |->
                      [code |-> C(k, n),
                       groups |-> IF <<k, n>> = <<block, span>> THEN Inserts
                                  ELSE blocks[k][n].groups]]]
    <3> DEFINE split(k, n) == [blocks[k][n] EXCEPT !.code = Scalarized(@, d.split)]
    <3>1. blocks' = [k \in DOMAIN blocks |-> [n \in DOMAIN blocks[k] |->
              IF <<k, n>> = <<block, span>> THEN WithPipeline(split(k, n), d.pipeline, syncID')
              ELSE split(k, n)]]
      BY <2>2 DEF WithDeclaration
    <3>2. \A k \in DOMAIN blocks : \A n \in DOMAIN blocks[k] :
             WithPipeline(split(k, n), d.pipeline, syncID') = [code |-> C(k, n), groups |-> Inserts]
      <4> TAKE k \in DOMAIN blocks
      <4> TAKE n \in DOMAIN blocks[k]
      <4>1. split(k, n) = [code |-> C(k, n), groups |-> blocks[k][n].groups]
        BY <2>4
      <4>2. WithPipeline(split(k, n), d.pipeline, syncID') = [split(k, n) EXCEPT !.groups = Inserts]
        BY DEF WithPipeline
      <4> HIDE DEF split, Inserts
      <4> QED BY <4>1, <4>2
    <3> HIDE DEF Inserts
    <3> QED BY <2>4, <3>1, <3>2
  <2>6. \A k \in DOMAIN blocks : BlockOK(blocks'[k]) /\ DOMAIN blocks'[k] = DOMAIN blocks[k]
    <3> TAKE k \in DOMAIN blocks
    <3>1. Len(blocks[k]) \in Nat /\ DOMAIN blocks[k] = 1 .. Len(blocks[k])
      BY <1>2, SequenceDomain DEF BlockOK
    <3>2. blocks'[k] = [n \in 1 .. Len(blocks[k]) |-> blocks'[k][n]]
      BY <2>5, <3>1
    <3>3. \A n \in DOMAIN blocks[k] : SpanOK(blocks'[k][n])
      BY <2>4, <2>5 DEF SpanOK
    <3> QED BY <3>1, <3>2, <3>3, MakeSequence DEF BlockOK
  <2>7. IsSequence(blocks') /\ DOMAIN blocks' = DOMAIN blocks
    <3>1. blocks' = [k \in 1 .. Len(blocks) |-> blocks'[k]]
      BY <1>2, <2>5
    <3> QED BY <1>2, <3>1, MakeSequence
  <2>8. \A k \in DOMAIN blocks : \A n \in DOMAIN blocks[k] :
           <<k, n>> # <<block, span>> => SyncIDs(blocks'[k][n]) = SyncIDs(blocks[k][n])
    BY <2>5 DEF SyncIDs
  <2>9. /\ SyncIDs(blocks'[block][span]) \subseteq {syncID'}
        /\ PipelinesFilled => SyncIDs(blocks'[block][span]) = {syncID'}
    <3>1. blocks'[block][span].groups = Inserts
      BY <1>2, <1>3, <2>5
    <3>2. Range(Inserts) = {GroupBarrier(d.pipeline[k], syncID') : k \in DOMAIN d.pipeline}
      BY DEF Range
    <3>3. \A g \in Range(Inserts) : g.sync = syncID'
      BY <3>2 DEF GroupBarrier
    <3>4. PipelinesFilled => Range(Inserts) # {}
      BY <2>3, <3>2
    <3> HIDE DEF Inserts
    <3> QED BY <3>1, <3>3, <3>4 DEF SyncIDs
  <2>10. \A k \in DOMAIN blocks : \A n \in DOMAIN blocks[k] :
            blocks'[k][n].code = Scalarized(blocks[k][n].code, NextSplit)
    <3>1. \A k \in DOMAIN blocks : \A n \in DOMAIN blocks[k] : blocks'[k][n].code = C(k, n)
      BY <2>5
    <3> QED BY <3>1 DEF C, NextSplit, d, code, s
  <2> QED BY <1>3, <2>1, <2>6, <2>7, <2>8, <2>9, <2>10
<1> QED BY <1>5, <1>6

\* Delaying the memory stages, also when that is rolled back, keeps the pipelines.
LEMMA NopsEffect ==
  ASSUME ShapeInv, InsertNops
  PROVE  /\ IsSequence(blocks') /\ DOMAIN blocks' = DOMAIN blocks
         /\ \A k \in DOMAIN blocks :
               /\ DOMAIN blocks'[k] = DOMAIN blocks[k]
               /\ \A n \in DOMAIN blocks[k] : SyncIDs(blocks'[k][n]) = SyncIDs(blocks[k][n])
<1> DEFINE paced == [k \in DOMAIN blocks |-> [n \in DOMAIN blocks[k] |->
                        [blocks[k][n] EXCEPT !.code = Paced(@)]]]
           back == [k \in DOMAIN blocks |-> RestoreBlock(paced[k], blocks[k])]
<1>1. pc = "nops" /\ blocks' = IF source.rejectsNops THEN back ELSE paced
  BY DEF InsertNops
<1>2. /\ Len(blocks) \in Nat /\ DOMAIN blocks = 1 .. Len(blocks)
      /\ \A k \in DOMAIN blocks : BlockOK(blocks[k])
  BY <1>1, SequenceDomain DEF ShapeInv
<1>3. \A k \in DOMAIN blocks : \A n \in DOMAIN blocks[k] : SpanOK(blocks[k][n])
  BY <1>2 DEF BlockOK
<1>4. \A k \in DOMAIN blocks : \A n \in DOMAIN blocks[k] :
         paced[k][n] = [code |-> Paced(blocks[k][n].code), groups |-> blocks[k][n].groups]
  <2> TAKE k \in DOMAIN blocks
  <2> TAKE n \in DOMAIN blocks[k]
  <2>1. paced[k][n] = [blocks[k][n] EXCEPT !.code = Paced(blocks[k][n].code)]
    OBVIOUS
  <2> HIDE DEF paced
  <2> QED BY <1>3, <2>1, NewCode
<1>5. \A k \in DOMAIN blocks : DOMAIN paced[k] = DOMAIN blocks[k]
  OBVIOUS
<1>6. DOMAIN paced = DOMAIN blocks /\ IsSequence(paced)
  <2>1. paced = [k \in 1 .. Len(blocks) |-> paced[k]]
    BY <1>2
  <2> QED BY <1>2, <2>1, MakeSequence
<1> HIDE DEF paced
<1>7. CASE blocks' = paced
  <2>1. \A k \in DOMAIN blocks : \A n \in DOMAIN blocks[k] :
           paced[k][n].groups = blocks[k][n].groups
    <3> TAKE k \in DOMAIN blocks
    <3> TAKE n \in DOMAIN blocks[k]
    <3> DEFINE c == Paced(blocks[k][n].code)
               g == blocks[k][n].groups
               t == paced[k][n]
    <3>1. t = [code |-> c, groups |-> g]
      BY <1>4
    <3> HIDE DEF c, g, t
    <3>2. t.groups = g
      BY ONLY <3>1, Fields
    <3> QED BY <3>2 DEF g, t
  <2>2. \A k \in DOMAIN blocks : \A n \in DOMAIN blocks[k] :
           SyncIDs(paced[k][n]) = SyncIDs(blocks[k][n])
    BY <2>1, SyncIdsOf
  <2> QED BY <1>5, <1>6, <1>7, <2>2
<1>8. CASE blocks' = back
  <2>1. \A k \in DOMAIN blocks :
           back[k] = [n \in DOMAIN blocks[k] |-> [blocks[k][n] EXCEPT
                        !.code = [j \in DOMAIN @ |-> CHOOSE i \in Range(Code(paced[k])) : i.id = @[j].id]]]
    <3> TAKE k \in DOMAIN blocks
    <3>1. ASSUME NEW s \in Range(blocks[k]) PROVE Ids(s.code) \subseteq Held(paced[k])
      <4>1. PICK n \in DOMAIN blocks[k] : s = blocks[k][n]
        BY DEF Range
      <4>2. paced[k][n].code = Paced(s.code) /\ IsSequence(s.code)
        <5>1. SpanOK(s) /\ paced[k][n] = [code |-> Paced(s.code), groups |-> s.groups]
          BY <1>3, <1>4, <4>1
        <5> QED BY <5>1 DEF SpanOK
      <4>3. Ids(s.code) \subseteq Ids(paced[k][n].code)
        BY <4>2, PacedRange DEF Ids
      <4>4. paced[k][n] \in Range(paced[k])
        BY <1>5, <4>1 DEF Range
      <4> QED BY <4>3, <4>4 DEF Held
    <3>2. Held(blocks[k]) \subseteq Held(paced[k])
      BY <3>1 DEF Held
    <3> QED BY <3>2 DEF RestoreBlock
  <2>2. \A k \in DOMAIN blocks : \A n \in DOMAIN blocks[k] :
           n \in DOMAIN back[k] /\ back[k][n].groups = blocks[k][n].groups
    <3> TAKE k \in DOMAIN blocks
    <3> TAKE n \in DOMAIN blocks[k]
    <3> DEFINE code == [j \in DOMAIN blocks[k][n].code |->
                  CHOOSE i \in Range(Code(paced[k])) : i.id = blocks[k][n].code[j].id]
    <3>1. n \in DOMAIN back[k] /\ back[k][n] = [blocks[k][n] EXCEPT !.code = code]
      <4> HIDE DEF back
      <4> QED BY <2>1
    <3> HIDE DEF code, back
    <3>2. back[k][n] = [code |-> code, groups |-> blocks[k][n].groups]
      BY <1>3, <3>1, NewCode
    <3> QED BY <3>1, <3>2
  <2>3. \A k \in DOMAIN blocks : DOMAIN back[k] = DOMAIN blocks[k]
    BY <2>1
  <2>4. DOMAIN back = DOMAIN blocks /\ IsSequence(back)
    <3>1. back = [k \in 1 .. Len(blocks) |-> back[k]]
      BY <1>2
    <3> QED BY <1>2, <3>1, MakeSequence
  <2> HIDE DEF back
  <2>5. \A k \in DOMAIN blocks : \A n \in DOMAIN blocks[k] :
           SyncIDs(back[k][n]) = SyncIDs(blocks[k][n])
    BY <2>2, SyncIdsOf
  <2> QED BY <1>8, <2>3, <2>4, <2>5
<1> QED BY <1>1, <1>7, <1>8

-----------------------------------------------------------------------------
(* The invariant.                                                          *)

\* Where ids only disappear, those that stay are as distinct as they were.
LEMMA FewerIds ==
  ASSUME DistinctInv,
         \A k \in DOMAIN blocks' : \A n \in DOMAIN blocks'[k] : \A x \in SyncIDs(blocks'[k][n]) :
             k \in DOMAIN blocks /\ n \in DOMAIN blocks[k] /\ x \in SyncIDs(blocks[k][n])
  PROVE  DistinctInv'
BY DEF DistinctInv, SyncAt

\* A rolled back block has no ids, the others are left alone.
LEMMA RollBackEffect ==
  ASSUME ShapeInv, IdInv, RollBack
  PROVE  /\ IsSequence(blocks') /\ DOMAIN blocks' = DOMAIN blocks
         /\ \A k \in DOMAIN blocks : BlockOK(blocks'[k]) /\ (k # block => blocks'[k] = blocks[k])
         /\ block \in DOMAIN blocks
         /\ \A n \in DOMAIN blocks'[block] : SyncIDs(blocks'[block][n]) = {}
<1> DEFINE r == RestoreBlock(blocks[block], snapshot)
<1>1. pc = "spans" /\ blocks' = [blocks EXCEPT ![block] = r]
  BY DEF RollBack
<1>2. /\ block \in DOMAIN blocks /\ BlockOK(snapshot)
      /\ Len(blocks) \in Nat /\ DOMAIN blocks = 1 .. Len(blocks)
      /\ \A k \in DOMAIN blocks : BlockOK(blocks[k])
  BY <1>1, SequenceDomain DEF ShapeInv
<1>3. BlockOK(r) /\ \A n \in DOMAIN r : SyncIDs(r[n]) = {}
  <2>1. \A n \in DOMAIN snapshot : SyncIDs(snapshot[n]) = {}
    BY <1>1 DEF IdInv
  <2> QED BY <1>2, <2>1, RestoredBlock
<1> HIDE DEF r
<1>4. IsSequence(blocks')
  <2>1. blocks' = [k \in 1 .. Len(blocks) |-> blocks'[k]]
    BY <1>1, <1>2
  <2> QED BY <1>2, <2>1, MakeSequence
<1> QED BY <1>1, <1>2, <1>3, <1>4

\* The pass goes on with the next block or is past the last one.
LEMMA EndEffect ==
  ASSUME ShapeInv, pc = "spans", EndOfBlock
  PROVE  /\ span' = 1 /\ blockScheduled' = 0 /\ source' = source
         /\ \/ /\ pc' = "spans" /\ block' = block + 1 /\ block' \in DOMAIN blocks
               /\ snapshot' = blocks[block']
            \/ pc' \in {"nops", "done"}
<1>1. Len(blocks) \in Nat /\ DOMAIN blocks = 1 .. Len(blocks) /\ block \in DOMAIN blocks
  BY SequenceDomain DEF ShapeInv
<1>2. CASE block < Len(blocks)
  <2>1. block + 1 \in DOMAIN blocks
    BY <1>1, <1>2
  <2> QED BY <1>2, <2>1 DEF EndOfBlock, SnapshotOf
<1>3. CASE ~(block < Len(blocks))
  BY <1>3 DEF EndOfBlock
<1> QED BY <1>2, <1>3

\* The pass starts with no declared span.
LEMMA InitInv == Init => IInv
<1> SUFFICES ASSUME Init PROVE IInv
  OBVIOUS
<1>1. /\ source \in Sources /\ IsSequence(source.blocks) /\ source.blocks # <<>>
      /\ \A b \in Range(source.blocks) : IsSequence(b) /\ \A s \in Range(b) : IsSequence(s)
  BY SourcesAssumption DEF Init
<1>2. Len(source.blocks) \in Nat /\ DOMAIN source.blocks = 1 .. Len(source.blocks)
      /\ 1 \in DOMAIN source.blocks
  <2>1. Len(source.blocks) # 0
    BY <1>1 DEF IsSequence
  <2> QED BY <1>1, <2>1, SequenceDomain
<1>3. blocks = [k \in DOMAIN source.blocks |->
                   [n \in DOMAIN source.blocks[k] |-> Bare(source.blocks[k][n])]]
  BY DEF Init
<1>4. ASSUME NEW k \in DOMAIN blocks
      PROVE  BlockOK(blocks[k]) /\ \A n \in DOMAIN blocks[k] : SyncIDs(blocks[k][n]) = {}
  <2> DEFINE b == source.blocks[k]
  <2>1. k \in DOMAIN source.blocks /\ blocks[k] = [n \in DOMAIN b |-> Bare(b[n])]
    BY <1>3
  <2>2. IsSequence(b) /\ \A n \in DOMAIN b : IsSequence(b[n])
    <3>1. b \in Range(source.blocks)
      BY <2>1 DEF Range
    <3>2. \A n \in DOMAIN b : b[n] \in Range(b)
      BY DEF Range
    <3> HIDE DEF b
    <3> QED BY <1>1, <3>1, <3>2
  <2> HIDE DEF b
  <2>3. Len(b) \in Nat /\ DOMAIN b = 1 .. Len(b)
    BY <2>2, SequenceDomain
  <2>4. blocks[k] = [n \in 1 .. Len(b) |-> blocks[k][n]] /\ DOMAIN blocks[k] = DOMAIN b
    BY <2>1, <2>3
  <2>5. ASSUME NEW n \in DOMAIN b PROVE SpanOK(blocks[k][n]) /\ SyncIDs(blocks[k][n]) = {}
    <3> DEFINE c == b[n]
               t == blocks[k][n]
    <3>1. IsSequence(c) /\ t = [code |-> c, groups |-> <<>>]
      BY <2>1, <2>2 DEF Bare
    <3> HIDE DEF c, t
    <3>2. SpanOK(t) /\ t.groups = <<>>
      BY <3>1, MakeSpan, Fields
    <3>3. SyncIDs(t) = {}
      BY <3>2 DEF SyncIDs, Range
    <3> QED BY <3>2, <3>3 DEF t
  <2> QED BY <2>3, <2>4, <2>5, MakeSequence DEF BlockOK
<1>5. IsSequence(blocks) /\ 1 \in DOMAIN blocks
  <2>1. blocks = [k \in 1 .. Len(source.blocks) |-> blocks[k]]
    BY <1>2, <1>3
  <2> QED BY <1>2, <1>3, <2>1, MakeSequence
<1>6. /\ block = 1 /\ span = 1 /\ snapshot = blocks[1] /\ syncID = 1 /\ syncBefore = 1
      /\ scheduled = 0 /\ blockScheduled = 0
  BY DEF Init
<1>7. ShapeInv
  BY <1>1, <1>4, <1>5, <1>6 DEF ShapeInv
<1>8. IdInv /\ DistinctInv
  BY <1>4, <1>5, <1>6 DEF IdInv, DistinctInv, SyncAt
<1> QED BY <1>7, <1>8 DEF IInv

\* A declaration takes an id above all that are in use.
LEMMA DeclareInv == ASSUME IInv, Declare PROVE IInv'
<1>1. /\ pc = "spans" /\ pc' = pc /\ span' = span + 1 /\ source' = source /\ block' = block
      /\ snapshot' = snapshot /\ syncBefore' = syncBefore /\ scheduled' = scheduled
  BY DEF Declare
<1>2. /\ source \in Sources /\ block \in DOMAIN blocks /\ span \in Nat \ {0} /\ BlockOK(snapshot)
      /\ syncBefore \in Nat /\ syncID \in Nat /\ syncBefore <= syncID
      /\ scheduled \in Nat /\ blockScheduled \in Nat
      /\ IsSequence(blocks) /\ \A k \in DOMAIN blocks : BlockOK(blocks[k])
      /\ DOMAIN blocks \subseteq Nat
  <2>1. DOMAIN blocks \subseteq Nat
    BY SequenceDomain DEF IInv, ShapeInv
  <2> QED BY <1>1, <2>1 DEF IInv, ShapeInv
<1>3. /\ IsSequence(blocks') /\ DOMAIN blocks' = DOMAIN blocks
      /\ span \in DOMAIN blocks[block]
      /\ \A k \in DOMAIN blocks : BlockOK(blocks'[k]) /\ DOMAIN blocks'[k] = DOMAIN blocks[k]
  BY DeclareEffect DEF IInv
<1>4. \A k \in DOMAIN blocks : \A n \in DOMAIN blocks[k] :
         <<k, n>> # <<block, span>> => SyncIDs(blocks'[k][n]) = SyncIDs(blocks[k][n])
  BY DeclareEffect DEF IInv
<1>5. \/ blocks' = blocks /\ blockScheduled' = blockScheduled /\ syncID' \in {syncID, syncID + 1}
      \/ /\ blockScheduled' = blockScheduled + 1 /\ syncID' = syncID + 1
         /\ SyncIDs(blocks'[block][span]) \subseteq {syncID'}
  BY DeclareEffect DEF IInv
<1>6. syncID' \in Nat /\ syncBefore <= syncID' /\ syncID <= syncID' /\ blockScheduled' \in Nat
  BY <1>2, <1>5
<1>7. ShapeInv'
  BY <1>1, <1>2, <1>3, <1>6 DEF ShapeInv
<1>8. /\ \A k \in DOMAIN blocks : \A n \in DOMAIN blocks[k] : \A x \in SyncIDs(blocks[k][n]) :
            /\ x \in Nat /\ k <= block
            /\ k < block => x <= syncBefore
            /\ k = block => n < span /\ syncBefore < x /\ x <= syncID
      /\ \A n \in DOMAIN snapshot : SyncIDs(snapshot[n]) = {}
  BY <1>1 DEF IInv, IdInv, SyncAt
<1>9. CASE blocks' = blocks
  <2>1. \A k \in DOMAIN blocks : \A n \in DOMAIN blocks[k] : n \in Nat
    BY <1>2, SequenceDomain DEF BlockOK
  <2>2. IdInv'
    BY <1>1, <1>2, <1>6, <1>8, <1>9, <2>1 DEF IdInv, SyncAt
  <2>3. DistinctInv'
    BY <1>9, FewerIds DEF IInv
  <2> QED BY <1>7, <2>2, <2>3 DEF IInv
<1>10. CASE syncID' = syncID + 1 /\ SyncIDs(blocks'[block][span]) \subseteq {syncID'}
  <2>1. \A k \in DOMAIN blocks : \A n \in DOMAIN blocks[k] : n \in Nat
    BY <1>2, SequenceDomain DEF BlockOK
  <2>2. ASSUME NEW k \in DOMAIN blocks, NEW n \in DOMAIN blocks[k], NEW x \in SyncIDs(blocks'[k][n])
        PROVE  \/ k = block /\ n = span /\ x = syncID + 1
               \/ (k # block \/ n # span) /\ x \in SyncIDs(blocks[k][n]) /\ x \in Nat /\ x <= syncID
    <3>1. CASE <<k, n>> = <<block, span>>
      BY <1>10, <3>1
    <3>2. CASE <<k, n>> # <<block, span>>
      <4>1. x \in SyncIDs(blocks[k][n])
        BY <1>4, <3>2
      <4>2. x \in Nat /\ x <= syncID
        BY <1>2, <1>8, <4>1
      <4> QED BY <3>2, <4>1, <4>2
    <3> QED BY <3>1, <3>2
  <2>3. IdInv'
    <3>1. ASSUME NEW k \in DOMAIN blocks, NEW n \in DOMAIN blocks[k], NEW x \in SyncIDs(blocks'[k][n])
          PROVE  /\ x \in Nat /\ k <= block
                 /\ k < block => x <= syncBefore
                 /\ k = block => n < span + 1 /\ syncBefore < x /\ x <= syncID'
      <4>1. CASE k = block /\ n = span /\ x = syncID + 1
        BY <1>2, <1>10, <4>1
      <4>2. CASE x \in SyncIDs(blocks[k][n])
        BY <1>2, <1>6, <1>8, <2>1, <4>2
      <4> QED BY <2>2, <4>1, <4>2
    <3> QED BY <1>1, <1>3, <1>8, <3>1 DEF IdInv, SyncAt
  <2>4. DistinctInv'
    <3>1. ASSUME NEW k \in DOMAIN blocks, NEW l \in DOMAIN blocks,
                 NEW n \in DOMAIN blocks[k], NEW m \in DOMAIN blocks[l],
                 NEW x \in SyncIDs(blocks'[k][n]), NEW y \in SyncIDs(blocks'[l][m])
          PROVE  x = y <=> (k = l /\ n = m)
      <4>1. \/ k = block /\ n = span /\ x = syncID + 1
            \/ /\ k # block \/ n # span
               /\ x \in SyncIDs(blocks[k][n]) /\ x \in Nat /\ x <= syncID
        BY <2>2
      <4>2. \/ l = block /\ m = span /\ y = syncID + 1
            \/ /\ l # block \/ m # span
               /\ y \in SyncIDs(blocks[l][m]) /\ y \in Nat /\ y <= syncID
        BY <2>2
      <4>3. CASE x \in SyncIDs(blocks[k][n]) /\ y \in SyncIDs(blocks[l][m])
        BY <4>3 DEF IInv, DistinctInv, SyncAt
      <4>4. syncID \in Nat
        BY <1>2
      <4> QED BY ONLY <4>1, <4>2, <4>3, <4>4
    <3> QED BY <1>3, <3>1 DEF DistinctInv, SyncAt
  <2> QED BY <1>7, <2>3, <2>4 DEF IInv
<1> QED BY <1>5, <1>9, <1>10

\* The two ends of a block.
LEMMA EndInv ==
  ASSUME IInv, pc = "spans", EndOfBlock, scheduled' \in Nat,
         syncBefore' = syncID', syncID' \in {syncID, syncBefore},
         IsSequence(blocks'), DOMAIN blocks' = DOMAIN blocks,
         \A k \in DOMAIN blocks : BlockOK(blocks'[k]) /\ (k # block => blocks'[k] = blocks[k]),
         \A n \in DOMAIN blocks'[block] : \A x \in SyncIDs(blocks'[block][n]) :
             n \in DOMAIN blocks[block] /\ x \in SyncIDs(blocks[block][n]) /\ x <= syncID'
  PROVE  IInv'
<1>1. /\ span' = 1 /\ blockScheduled' = 0 /\ source' = source
      /\ \/ /\ pc' = "spans" /\ block' = block + 1 /\ block' \in DOMAIN blocks
            /\ snapshot' = blocks[block']
         \/ pc' \in {"nops", "done"}
  BY EndEffect DEF IInv
<1>2. /\ source \in Sources /\ block \in DOMAIN blocks
      /\ syncBefore \in Nat /\ syncID \in Nat /\ syncBefore <= syncID
      /\ \A k \in DOMAIN blocks : BlockOK(blocks[k])
      /\ DOMAIN blocks \subseteq Nat
  <2>1. DOMAIN blocks \subseteq Nat
    BY SequenceDomain DEF IInv, ShapeInv
  <2> QED BY <2>1 DEF IInv, ShapeInv
<1>3. syncID' \in Nat /\ syncBefore <= syncID'
  BY <1>2
<1>4. ShapeInv'
  BY <1>1, <1>2, <1>3 DEF ShapeInv
<1>5. \A k \in DOMAIN blocks : \A n \in DOMAIN blocks[k] : \A x \in SyncIDs(blocks[k][n]) :
         /\ x \in Nat /\ k <= block
         /\ k < block => x <= syncBefore
  BY DEF IInv, IdInv, SyncAt
<1>6. IdInv'
  <2>1. CASE pc' # "spans"
    BY <2>1 DEF IdInv
  <2>2. CASE pc' = "spans"
    <3>1. block' = block + 1 /\ block' \in DOMAIN blocks /\ snapshot' = blocks[block']
      BY <1>1, <2>2
    <3>2. \A n \in DOMAIN snapshot' : SyncIDs(snapshot'[n]) = {}
      BY <1>2, <1>5, <3>1
    <3>3. ASSUME NEW k \in DOMAIN blocks, NEW n \in DOMAIN blocks'[k], NEW x \in SyncIDs(blocks'[k][n])
          PROVE  /\ x \in Nat /\ k <= block' /\ k < block' /\ x <= syncBefore'
      <4>1. CASE k = block
        BY <1>2, <1>5, <3>1, <4>1
      <4>2. CASE k # block
        BY <1>2, <1>3, <1>5, <3>1, <4>2
      <4> QED BY <4>1, <4>2
    <3>4. ASSUME NEW k \in DOMAIN blocks, k < block' PROVE k # block'
      BY <1>2, <3>1, <3>4
    <3> QED BY <3>2, <3>3, <3>4 DEF IdInv, SyncAt
  <2> QED BY <2>1, <2>2
<1>7. DistinctInv'
  BY FewerIds DEF IInv
<1> QED BY <1>4, <1>6, <1>7 DEF IInv

\* A block that is kept ends with its ids below those of the next one.
LEMMA KeepInv == ASSUME IInv, Keep PROVE IInv'
<1>1. /\ pc = "spans" /\ EndOfBlock /\ blocks' = blocks
      /\ syncBefore' = syncID /\ syncID' = syncID /\ scheduled' = Counted
  BY DEF Keep
<1>2. scheduled' \in Nat
  BY <1>1 DEF IInv, ShapeInv, Counted
<1>3. IsSequence(blocks) /\ block \in DOMAIN blocks /\ \A k \in DOMAIN blocks : BlockOK(blocks[k])
  BY <1>1 DEF IInv, ShapeInv
<1>4. \A n \in DOMAIN blocks[block] : \A x \in SyncIDs(blocks[block][n]) : x <= syncID
  BY <1>1, <1>3 DEF IInv, IdInv, SyncAt
<1> QED BY <1>1, <1>2, <1>3, <1>4, EndInv

\* A block that is rolled back gives its ids back with its pipelines.
LEMMA RollBackInv == ASSUME IInv, RollBack PROVE IInv'
<1>1. /\ pc = "spans" /\ EndOfBlock
      /\ syncBefore' = syncBefore /\ syncID' = syncBefore /\ scheduled' = Counted
  BY DEF RollBack
<1>2. scheduled' \in Nat
  BY <1>1 DEF IInv, ShapeInv, Counted
<1> QED BY <1>1, <1>2, EndInv, RollBackEffect DEF IInv

\* Delaying memory stages, rolled back or not, touches no pipeline.
LEMMA InsertNopsInv == ASSUME IInv, InsertNops PROVE IInv'
<1>1. /\ pc' = "done"
      /\ UNCHANGED <<source, syncID, syncBefore, scheduled, blockScheduled>>
  BY DEF InsertNops
<1>2. /\ IsSequence(blocks') /\ DOMAIN blocks' = DOMAIN blocks
      /\ \A k \in DOMAIN blocks :
            /\ DOMAIN blocks'[k] = DOMAIN blocks[k]
            /\ \A n \in DOMAIN blocks[k] : SyncIDs(blocks'[k][n]) = SyncIDs(blocks[k][n])
  BY NopsEffect DEF IInv
<1>3. DistinctInv'
  BY <1>2, FewerIds DEF IInv
<1> QED BY <1>1, <1>2, <1>3 DEF IInv, ShapeInv, IdInv

\* The invariant is inductive.
LEMMA NextInv == IInv /\ [Next]_vars => IInv'
<1>1. ASSUME IInv, UNCHANGED vars PROVE IInv'
  BY <1>1 DEF vars, IInv, ShapeInv, IdInv, DistinctInv, SyncAt
<1> QED BY <1>1, DeclareInv, KeepInv, RollBackInv, InsertNopsInv DEF Next

\* Ids that are distinct in all the blocks identify the declared spans.
LEMMA Identifies == DistinctInv => SyncIdsIdentifySpans
<1> SUFFICES ASSUME DistinctInv, NEW p \in Declared, NEW q \in Declared,
                    NEW x \in SyncIDs(blocks[p[1]][p[2]]), NEW y \in SyncIDs(blocks[q[1]][q[2]])
             PROVE  x = y <=> p = q
  BY DEF SyncIdsIdentifySpans
<1>1. /\ p = <<p[1], p[2]>> /\ p[1] \in DOMAIN blocks /\ p[2] \in DOMAIN blocks[p[1]]
      /\ q = <<q[1], q[2]>> /\ q[1] \in DOMAIN blocks /\ q[2] \in DOMAIN blocks[q[1]]
  BY DEF Declared
<1>2. x = y <=> (p[1] = q[1] /\ p[2] = q[2])
  BY <1>1 DEF DistinctInv, SyncAt
<1> QED BY <1>1, <1>2

\* In every function, whichever blocks the verifier refuses, no two declared spans
\* have a sync id in common, and no span has two.
THEOREM SyncIdsAreUnique == Spec => []SyncIdsIdentifySpans
<1>1. IInv => SyncIdsIdentifySpans
  BY Identifies DEF IInv
<1> QED BY <1>1, InitInv, NextInv, PTL DEF Spec

-----------------------------------------------------------------------------
(* The counters.                                                           *)

\* The declared spans are positions of the function.
LEMMA InDeclared ==
  /\ \A p \in Declared : /\ p = <<p[1], p[2]>>
                         /\ p[1] \in DOMAIN blocks /\ p[2] \in DOMAIN blocks[p[1]]
  /\ \A k, n : <<k, n>> \in Declared <=>
        k \in DOMAIN blocks /\ n \in DOMAIN blocks[k] /\ SyncIDs(blocks[k][n]) # {}
BY DEF Declared

\* Where the ids stay, the declared spans stay.
LEMMA SameDeclared ==
  ASSUME DOMAIN blocks' = DOMAIN blocks,
         \A k \in DOMAIN blocks :
            /\ DOMAIN blocks'[k] = DOMAIN blocks[k]
            /\ \A n \in DOMAIN blocks[k] : SyncIDs(blocks'[k][n]) = SyncIDs(blocks[k][n])
  PROVE  Declared' = Declared
<1>1. UNION {{k} \X DOMAIN blocks'[k] : k \in DOMAIN blocks'}
        = UNION {{k} \X DOMAIN blocks[k] : k \in DOMAIN blocks}
  OBVIOUS
<1>2. \A p \in UNION {{k} \X DOMAIN blocks[k] : k \in DOMAIN blocks} :
         SyncIDs(blocks'[p[1]][p[2]]) = SyncIDs(blocks[p[1]][p[2]])
  OBVIOUS
<1> QED BY <1>1, <1>2 DEF Declared

\* Nothing is counted and nothing declared at the start.
LEMMA InitCount == Init => CountInv
<1> SUFFICES ASSUME Init PROVE CountInv
  OBVIOUS
<1>1. Declared = {}
  <2> SUFFICES ASSUME NEW p \in Declared PROVE FALSE
    OBVIOUS
  <2>1. /\ p = <<p[1], p[2]>> /\ p[1] \in DOMAIN blocks /\ p[2] \in DOMAIN blocks[p[1]]
        /\ SyncIDs(blocks[p[1]][p[2]]) # {}
    BY DEF Declared
  <2>2. blocks[p[1]][p[2]] = Bare(source.blocks[p[1]][p[2]])
    BY <2>1 DEF Init
  <2>3. \A c : Bare(c).groups = <<>>
    BY DEF Bare
  <2>4. SyncIDs(blocks[p[1]][p[2]]) = {}
    BY <2>2, <2>3 DEF SyncIDs, Range
  <2> QED BY <2>1, <2>4
<1>2. \A K : DeclaredIn(K) = {}
  BY <1>1 DEF DeclaredIn
<1> QED BY <1>1, <1>2, FS_EmptySet DEF CountInv, Init

\* A filled pipeline makes one more span of the current block declared.
LEMMA DeclareCount == ASSUME IInv, CountInv, PipelinesFilled, Declare PROVE CountInv'
<1>1. pc = "spans" /\ pc' = pc /\ block' = block /\ scheduled' = scheduled
  BY DEF Declare
<1>2. /\ IsFiniteSet(Declared)
      /\ scheduled = Cardinality(DeclaredIn(1 .. block - 1))
      /\ blockScheduled = Cardinality(DeclaredIn({block}))
  BY <1>1 DEF CountInv
<1>3. /\ block \in DOMAIN blocks /\ block \in Nat /\ span \in Nat
      /\ \A n \in DOMAIN blocks[block] : \A x \in SyncIDs(blocks[block][n]) : n < span
  <2>1. block \in DOMAIN blocks /\ span \in Nat /\ IsSequence(blocks)
    BY <1>1 DEF IInv, ShapeInv
  <2>2. DOMAIN blocks = 1 .. Len(blocks) /\ Len(blocks) \in Nat
    BY <2>1, SequenceDomain
  <2> QED BY <1>1, <2>1, <2>2 DEF IInv, IdInv, SyncAt
<1>4. /\ DOMAIN blocks' = DOMAIN blocks /\ span \in DOMAIN blocks[block]
      /\ \A k \in DOMAIN blocks :
            /\ DOMAIN blocks'[k] = DOMAIN blocks[k]
            /\ \A n \in DOMAIN blocks[k] :
                  <<k, n>> # <<block, span>> => SyncIDs(blocks'[k][n]) = SyncIDs(blocks[k][n])
  BY DeclareEffect DEF IInv
<1>5. \/ blocks' = blocks /\ blockScheduled' = blockScheduled
      \/ /\ blockScheduled' = blockScheduled + 1
         /\ SyncIDs(blocks'[block][span]) = {syncID'}
  BY DeclareEffect DEF IInv
<1>6. CASE blocks' = blocks /\ blockScheduled' = blockScheduled
  <2>1. Declared' = Declared
    BY <1>6 DEF Declared
  <2> QED BY <1>1, <1>2, <1>6, <2>1 DEF CountInv, DeclaredIn
<1>7. CASE blockScheduled' = blockScheduled + 1 /\ SyncIDs(blocks'[block][span]) = {syncID'}
  <2> DEFINE here == <<block, span>>
  <2>1. here \notin Declared
    <3>1. ~(span < span)
      BY <1>3
    <3> QED BY <1>3, <3>1, InDeclared
  <2>2. \A k, n : <<k, n>> \in Declared' <=>
           k \in DOMAIN blocks /\ n \in DOMAIN blocks[k] /\ SyncIDs(blocks'[k][n]) # {}
    BY <1>4 DEF Declared
  <2>3. \A p \in Declared' : p = <<p[1], p[2]>>
    BY DEF Declared
  <2>4. Declared' = Declared \cup {here}
    <3>1. ASSUME NEW k, NEW n PROVE <<k, n>> \in Declared' <=> <<k, n>> \in Declared \cup {here}
      <4>1. CASE <<k, n>> = here
        BY <1>3, <1>4, <1>7, <2>2, <4>1
      <4>2. CASE <<k, n>> # here
        BY <1>4, <2>2, <4>2, InDeclared
      <4> QED BY <4>1, <4>2
    <3>2. \A p \in Declared \cup {here} : p = <<p[1], p[2]>>
      BY InDeclared
    <3> HIDE DEF here
    <3> QED BY <2>3, <3>1, <3>2
  <2>5. here[1] = block
    OBVIOUS
  <2> HIDE DEF here
  <2>6. DeclaredIn({block})' = DeclaredIn({block}) \cup {here}
    BY <1>1, <2>4, <2>5 DEF DeclaredIn
  <2>7. DeclaredIn(1 .. block - 1)' = DeclaredIn(1 .. block - 1)
    <3>1. block \notin 1 .. block - 1
      BY <1>3
    <3> QED BY <1>1, <2>4, <2>5, <3>1 DEF DeclaredIn
  <2>8. IsFiniteSet(DeclaredIn({block})) /\ here \notin DeclaredIn({block})
    <3>1. DeclaredIn({block}) \subseteq Declared
      BY DEF DeclaredIn
    <3> QED BY <1>2, <2>1, <3>1, FS_Subset
  <2>9. Cardinality(DeclaredIn({block}) \cup {here}) = Cardinality(DeclaredIn({block})) + 1
    BY <2>8, FS_AddElement
  <2>10. IsFiniteSet(Declared')
    BY <1>2, <2>4, FS_AddElement
  <2> QED BY <1>1, <1>2, <1>7, <2>6, <2>7, <2>9, <2>10 DEF CountInv
<1> QED BY <1>5, <1>6, <1>7

\* At the end of a block its spans join those of the blocks before.
LEMMA EndCount ==
  ASSUME IInv, CountInv, pc = "spans", EndOfBlock, IsFiniteSet(Declared'),
         \A p \in Declared' : p[1] \in 1 .. block,
         scheduled' = Cardinality(Declared')
  PROVE  CountInv'
<1>1. /\ blockScheduled' = 0
      /\ pc' = "spans" => block' = block + 1
  BY EndEffect DEF IInv
<1>2. block \in Nat
  <2>1. block \in DOMAIN blocks /\ IsSequence(blocks)
    BY DEF IInv, ShapeInv
  <2> QED BY <2>1, SequenceDomain
<1>3. CASE pc' = "spans"
  <2>1. block' = block + 1 /\ (block + 1) - 1 = block /\ block + 1 \notin 1 .. block
    BY <1>1, <1>2, <1>3
  <2>2. DeclaredIn(1 .. block - 1)' = Declared'
    BY <2>1 DEF DeclaredIn
  <2>3. DeclaredIn({block})' = {}
    BY <2>1 DEF DeclaredIn
  <2> QED BY <1>1, <1>3, <2>2, <2>3, FS_EmptySet DEF CountInv
<1>4. CASE pc' # "spans"
  BY <1>4 DEF CountInv
<1> QED BY <1>3, <1>4

\* The spans of a block that is kept are counted with those before it.
LEMMA KeepCount == ASSUME IInv, CountInv, Keep PROVE CountInv'
<1>1. pc = "spans" /\ EndOfBlock /\ blocks' = blocks /\ ~Rejected /\ scheduled' = Counted
  BY DEF Keep
<1>2. /\ IsFiniteSet(Declared)
      /\ scheduled = Cardinality(DeclaredIn(1 .. block - 1))
      /\ blockScheduled = Cardinality(DeclaredIn({block}))
  BY <1>1 DEF CountInv
<1>3. Declared' = Declared
  BY <1>1 DEF Declared
<1>4. /\ block \in Nat \ {0} /\ DOMAIN blocks \subseteq Nat \ {0}
  <2>1. block \in DOMAIN blocks /\ IsSequence(blocks)
    BY <1>1 DEF IInv, ShapeInv
  <2> QED BY <2>1, SequenceDomain
<1>5. \A p \in Declared : p[1] \in Nat \ {0} /\ p[1] <= block
  <2> TAKE p \in Declared
  <2>1. p[1] \in DOMAIN blocks /\ p[2] \in DOMAIN blocks[p[1]] /\ SyncIDs(blocks[p[1]][p[2]]) # {}
    BY DEF Declared
  <2> QED BY <1>1, <1>4, <2>1 DEF IInv, IdInv, SyncAt
<1>6. \A p \in Declared : p[1] \in 1 .. block /\ (p[1] \in 1 .. block - 1 \/ p[1] = block)
  BY <1>4, <1>5
<1>7. scheduled' = Cardinality(Declared)
  <2> DEFINE S == DeclaredIn(1 .. block - 1)
             T == DeclaredIn({block})
  <2>1. S \cup T = Declared
    BY <1>6 DEF DeclaredIn
  <2>2. S \cap T = {}
    <3>1. block \notin 1 .. block - 1
      BY <1>4
    <3> QED BY <3>1 DEF DeclaredIn
  <2> HIDE DEF S, T
  <2>3. IsFiniteSet(S) /\ IsFiniteSet(T)
    BY <1>2, <2>1, FS_Subset
  <2>4. /\ Cardinality(S) \in Nat /\ Cardinality(T) \in Nat /\ Cardinality({}) = 0
        /\ Cardinality(Declared) = Cardinality(S) + Cardinality(T) - Cardinality({})
    BY <2>1, <2>2, <2>3, FS_Union, FS_CardinalityType, FS_EmptySet
  <2>5. scheduled' = scheduled + blockScheduled
    BY <1>1 DEF Counted
  <2>6. scheduled = Cardinality(S) /\ blockScheduled = Cardinality(T)
    BY <1>2 DEF S, T
  <2> QED BY <2>4, <2>5, <2>6
<1> QED BY <1>1, <1>2, <1>3, <1>6, <1>7, EndCount

\* The spans of a block that is rolled back are not counted, and are not declared.
LEMMA RollBackCount == ASSUME IInv, CountInv, RollBack PROVE CountInv'
<1>1. pc = "spans" /\ EndOfBlock /\ Rejected /\ scheduled' = Counted
  BY DEF RollBack
<1>2. IsFiniteSet(Declared) /\ scheduled = Cardinality(DeclaredIn(1 .. block - 1))
  BY <1>1 DEF CountInv
<1>3. scheduled' = scheduled
  BY <1>1 DEF Counted
<1>4. /\ DOMAIN blocks' = DOMAIN blocks
      /\ \A k \in DOMAIN blocks : k # block => blocks'[k] = blocks[k]
      /\ \A n \in DOMAIN blocks'[block] : SyncIDs(blocks'[block][n]) = {}
  BY RollBackEffect DEF IInv
<1>5. block \in Nat \ {0} /\ DOMAIN blocks \subseteq Nat \ {0}
  <2>1. block \in DOMAIN blocks /\ IsSequence(blocks)
    BY <1>1 DEF IInv, ShapeInv
  <2> QED BY <2>1, SequenceDomain
<1>6. \A p \in Declared : p[1] \in Nat \ {0} /\ p[1] <= block
  <2> TAKE p \in Declared
  <2>1. p[1] \in DOMAIN blocks /\ p[2] \in DOMAIN blocks[p[1]] /\ SyncIDs(blocks[p[1]][p[2]]) # {}
    BY DEF Declared
  <2> QED BY <1>1, <1>5, <2>1 DEF IInv, IdInv, SyncAt
<1>7. Declared' = DeclaredIn(1 .. block - 1)
  <2>1. ASSUME NEW p \in Declared' PROVE p \in DeclaredIn(1 .. block - 1)
    <3>1. /\ p = <<p[1], p[2]>> /\ p[1] \in DOMAIN blocks /\ p[2] \in DOMAIN blocks'[p[1]]
          /\ SyncIDs(blocks'[p[1]][p[2]]) # {}
      BY <1>4 DEF Declared
    <3>2. p[1] # block /\ blocks'[p[1]] = blocks[p[1]]
      BY <1>4, <3>1
    <3>3. p \in Declared
      BY <3>1, <3>2, InDeclared
    <3>4. p[1] \in 1 .. block - 1
      BY <1>5, <1>6, <3>2, <3>3
    <3> QED BY <3>3, <3>4 DEF DeclaredIn
  <2>2. ASSUME NEW p \in DeclaredIn(1 .. block - 1) PROVE p \in Declared'
    <3>1. /\ p = <<p[1], p[2]>> /\ p[1] \in DOMAIN blocks /\ p[2] \in DOMAIN blocks[p[1]]
          /\ SyncIDs(blocks[p[1]][p[2]]) # {} /\ p[1] \in 1 .. block - 1
      BY DEF Declared, DeclaredIn
    <3>2. blocks'[p[1]] = blocks[p[1]]
      BY <1>4, <1>5, <3>1
    <3> DEFINE k == p[1]
               n == p[2]
    <3>3. p = <<k, n>> /\ k \in DOMAIN blocks' /\ n \in DOMAIN blocks'[k] /\ SyncIDs(blocks'[k][n]) # {}
      BY <1>4, <3>1, <3>2
    <3> HIDE DEF k, n
    <3> QED BY <3>3 DEF Declared
  <2> QED BY <2>1, <2>2
<1>8. IsFiniteSet(Declared') /\ \A p \in Declared' : p[1] \in 1 .. block
  <2>1. DeclaredIn(1 .. block - 1) \subseteq Declared
    BY DEF DeclaredIn
  <2>2. \A p \in Declared' : p[1] \in 1 .. block - 1
    BY <1>7 DEF DeclaredIn
  <2> QED BY <1>2, <1>5, <1>7, <2>1, <2>2, FS_Subset
<1>9. scheduled' = Cardinality(Declared')
  BY <1>2, <1>3, <1>7
<1> QED BY <1>1, <1>8, <1>9, EndCount

\* Delaying memory stages changes no count.
LEMMA InsertNopsCount == ASSUME IInv, CountInv, InsertNops PROVE CountInv'
<1>1. pc = "nops" /\ pc' = "done" /\ scheduled' = scheduled
  BY DEF InsertNops
<1>2. Declared' = Declared
  BY NopsEffect, SameDeclared DEF IInv
<1> QED BY <1>1, <1>2 DEF CountInv

\* With the invariant above, the counters stay exact.
LEMMA NextCount == IInv /\ CountInv /\ PipelinesFilled /\ [Next]_vars => CountInv'
<1>1. ASSUME CountInv, UNCHANGED vars PROVE CountInv'
  BY <1>1 DEF vars, CountInv, DeclaredIn, Declared
<1> QED BY <1>1, DeclareCount, KeepCount, RollBackCount, InsertNopsCount DEF Next

\* No pipeline is declared without a group: both paths of the declaration put a
\* group in it for every operation that is issued, so no span is counted for
\* nothing.
LEMMA PipelinesAreFilled == Spec => []PipelinesFilled
<1>1. ShapeInv => PipelinesFilled
  <2> SUFFICES ASSUME ShapeInv, pc = "spans", span <= Len(blocks[block])
               PROVE  LET s == blocks[block][span].code
                      IN  Declares(Flat, s) => DOMAIN DeclareRegionGroups(Flat, s).pipeline # {}
    BY DEF PipelinesFilled
  <2> DEFINE s    == blocks[block][span].code
             code == Flat
  <2>1. IsSequence(s)
    <3>1. BlockOK(blocks[block]) /\ span \in Nat \ {0}
      BY DEF ShapeInv
    <3>2. Len(blocks[block]) \in Nat /\ DOMAIN blocks[block] = 1 .. Len(blocks[block])
      BY <3>1, SequenceDomain DEF BlockOK
    <3>3. span \in DOMAIN blocks[block]
      BY <3>1, <3>2
    <3> QED BY <3>1, <3>3 DEF BlockOK, SpanOK
  <2> HIDE DEF s, code
  <2>2. Declares(code, s) => DOMAIN DeclareRegionGroups(code, s).pipeline # {}
    BY <2>1, DeclaredFilled
  <2> QED BY <2>2 DEF s, code
<1>2. IInv => ShapeInv
  BY DEF IInv
<1> QED BY <1>1, <1>2, InitInv, NextInv, PTL DEF Spec

\* The pass reports as many spans as carry a pipeline in the end, in every function
\* and whichever blocks the verifier refuses.
THEOREM CountIsExact == Spec => []CountsDeclaredSpans
<1>1. CountInv => CountsDeclaredSpans
  BY DEF CountInv, CountsDeclaredSpans
<1> QED BY <1>1, InitInv, NextInv, InitCount, NextCount, PipelinesAreFilled, PTL DEF Spec

=============================================================================
