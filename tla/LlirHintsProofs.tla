--------------------------- MODULE LlirHintsProofs ---------------------------
(***************************************************************************)
(* The LLIR scheduler only adds hints: apart from the packed operations it *)
(* splits, every span keeps its instructions, their order and what they    *)
(* use, in every function and whichever blocks are rolled back, as long as *)
(* no rollback meets an instruction that has been freed.                   *)
(***************************************************************************)
EXTENDS LlirSchedulerProofs

-----------------------------------------------------------------------------
(* Code that stems from a span of the source.                              *)

\* The numbers of the instructions of a span.
NumbersOK(src) == \A a, b \in DOMAIN src :
    /\ src[a].id = <<src[a].id[1], 0>>
    /\ src[a].id[1] = src[b].id[1] => a = b

\* i is the instruction s, a piece of it or inserted behind it.
InstrFrom(i, s) ==
    /\ i.id = <<s.id[1], i.id[2]>>
    /\ \/ i.id[2] \in Int /\ i.id[2] < 0 /\ Range(i.operands) = {}
       \/ i.id[2] \in 0 .. Glue /\ StemsFrom(i, s) /\ SameUses(i, s)

\* The order of what stems from one instruction: what is inserted comes last.
Rank(i) == IF i.id[2] < 0 THEN Glue - i.id[2] ELSE i.id[2]
Follows(i, j, src) == \A a, b \in DOMAIN src :
    i.id[1] = src[a].id[1] /\ j.id[1] = src[b].id[1] => a < b \/ (a = b /\ Rank(i) < Rank(j))

SpanFrom(code, src) ==
    /\ IsSequence(code)
    /\ \A p \in DOMAIN code : \E a \in DOMAIN src : InstrFrom(code[p], src[a])
    /\ \A p, q \in DOMAIN code : p < q => Follows(code[p], code[q], src)
    /\ \A a \in DOMAIN src : PiecesOf(code, src[a]) \in {{0}, 1 .. Glue}

\* Nothing has been inserted.
Clean(code) == \A p \in DOMAIN code : ~Inserted(code[p])

\* The pieces of an instruction that code has.
LEMMA PiecesAre ==
  ASSUME NEW code, NEW s, NEW o
  PROVE  o \in PiecesOf(code, s) <=>
            \E p \in DOMAIN code : ~Inserted(code[p]) /\ code[p].id[1] = s.id[1] /\ code[p].id[2] = o
BY DEF PiecesOf, Own

\* The number of an instruction tells what it stems from.
LEMMA StemOf ==
  ASSUME NEW src, NumbersOK(src), NEW i, NEW a \in DOMAIN src, i.id[1] = src[a].id[1],
         \E b \in DOMAIN src : InstrFrom(i, src[b])
  PROVE  InstrFrom(i, src[a])
<1>1. PICK b \in DOMAIN src : InstrFrom(i, src[b])
  OBVIOUS
<1>2. i.id[1] = src[b].id[1]
  BY <1>1 DEF InstrFrom
<1>3. a = b
  BY <1>2 DEF NumbersOK
<1> QED BY <1>1, <1>3

\* What is not inserted is a piece.
LEMMA PieceOrInserted ==
  ASSUME NEW i, NEW s, InstrFrom(i, s)
  PROVE  /\ i.id[1] = s.id[1] /\ i.id[2] \in Int /\ Rank(i) \in Nat
         /\ ~Inserted(i) => /\ i.id[2] \in 0 .. Glue /\ Rank(i) = i.id[2]
                            /\ StemsFrom(i, s) /\ SameUses(i, s)
         /\ Inserted(i) => Range(i.operands) = {} /\ Rank(i) > Glue
<1>1. Glue \in Nat
  BY DEF Glue, Elements
<1>2. i.id[1] = s.id[1]
  BY DEF InstrFrom
<1>3. CASE i.id[2] \in Int /\ i.id[2] < 0 /\ Range(i.operands) = {}
  BY <1>1, <1>2, <1>3 DEF Inserted, Rank
<1>4. CASE i.id[2] \in 0 .. Glue /\ StemsFrom(i, s) /\ SameUses(i, s)
  <2>1. ~(i.id[2] < 0) /\ i.id[2] \in Int /\ i.id[2] \in Nat
    BY <1>1, <1>4
  <2> QED BY <1>2, <1>4, <2>1 DEF Inserted, Rank
<1> QED BY <1>3, <1>4 DEF InstrFrom

\* An instruction that is there as it was has no other pieces.
LEMMA Whole ==
  ASSUME NEW code, NEW src, SpanFrom(code, src), NEW a \in DOMAIN src,
         NEW p \in DOMAIN code, code[p].id[1] = src[a].id[1], code[p].id[2] = 0,
         NEW q \in DOMAIN code, code[q].id[1] = src[a].id[1], ~Inserted(code[q])
  PROVE  code[q].id[2] = 0 /\ PiecesOf(code, src[a]) = {0}
<1>1. PiecesOf(code, src[a]) \in {{0}, 1 .. Glue}
  BY DEF SpanFrom
<1>2. 0 \in PiecesOf(code, src[a])
  <2>1. ~Inserted(code[p])
    BY DEF Inserted
  <2> QED BY <2>1, PiecesAre
<1>3. code[q].id[2] \in PiecesOf(code, src[a])
  BY PiecesAre
<1>4. 0 \notin 1 .. Glue
  BY DEF Glue, Elements
<1> QED BY <1>1, <1>2, <1>3, <1>4

-----------------------------------------------------------------------------
(* Splitting packed operations.                                            *)

\* What is split are packed operations as they were in the source.
SplitOK(code, split) ==
    /\ \A o \in split : o[2] = 0
    /\ \A p \in DOMAIN code : code[p].id \in split => code[p].op = "packed"

\* A value that is not split keeps its id.
LEMMA NewIdOf ==
  ASSUME NEW o, NEW split, \A x \in split : x[2] = 0
  PROVE  /\ NewId(o, split) \in {o, <<o[1], Glue>>}
         /\ o[2] # 0 => NewId(o, split) = o
BY DEF NewId

\* An instruction keeps its uses when what it uses is split.
LEMMA RenamedUses ==
  ASSUME NEW i, NEW s, SameUses(i, s), NEW split, \A x \in split : x[2] = 0
  PROVE  SameUses(Renamed(i, split), s)
<1> DEFINE r == Renamed(i, split)
           u == [k \in DOMAIN i.operands |-> NewId(i.operands[k], split)]
<1>1. r.id = i.id /\ r.operands = u
  BY DEF Renamed
<1> HIDE DEF r
<1>2. ASSUME i.id[2] = Glue PROVE SameUses(r, s)
  <2>1. Range(i.operands) = {<<i.id[1], e>> : e \in 1 .. Elements}
    BY <1>2 DEF SameUses
  <2>2. \A k \in DOMAIN i.operands : NewId(i.operands[k], split) = i.operands[k]
    <3> TAKE k \in DOMAIN i.operands
    <3>1. i.operands[k] \in {<<i.id[1], e>> : e \in 1 .. Elements}
      BY <2>1 DEF Range
    <3>2. i.operands[k][2] # 0
      BY <3>1
    <3> QED BY <3>2, NewIdOf
  <2>3. Range(u) = Range(i.operands)
    BY <2>2 DEF Range
  <2> HIDE DEF u
  <2> QED BY <1>1, <1>2, <2>1, <2>3 DEF SameUses
<1>3. ASSUME i.id[2] # Glue PROVE SameUses(r, s)
  <2>1. /\ DOMAIN i.operands = DOMAIN s.operands
        /\ \A k \in DOMAIN s.operands : i.operands[k] \in {s.operands[k], <<s.operands[k][1], Glue>>}
    BY <1>3 DEF SameUses
  <2>2. \A k \in DOMAIN s.operands : u[k] \in {s.operands[k], <<s.operands[k][1], Glue>>}
    <3> TAKE k \in DOMAIN s.operands
    <3> DEFINE o == s.operands[k]
    <3>1. u[k] = NewId(i.operands[k], split) /\ i.operands[k] \in {o, <<o[1], Glue>>}
      BY <2>1
    <3> HIDE DEF u, o
    <3>2. CASE i.operands[k] = o
      BY <3>1, <3>2, NewIdOf DEF o
    <3>3. CASE i.operands[k] = <<o[1], Glue>>
      <4>1. Glue # 0
        BY DEF Glue, Elements
      <4>2. NewId(i.operands[k], split) = i.operands[k]
        BY <3>3, <4>1, NewIdOf
      <4> QED BY <3>1, <3>3, <4>2 DEF o
    <3> QED BY <3>1, <3>2, <3>3
  <2>3. DOMAIN u = DOMAIN s.operands
    BY <2>1
  <2> HIDE DEF u
  <2> QED BY <1>1, <1>3, <2>2, <2>3 DEF SameUses
<1> QED BY <1>2, <1>3 DEF r

\* What splitting makes of an instruction stems from where that does.
LEMMA PieceFrom ==
  ASSUME NEW i, NEW s, s.id = <<s.id[1], 0>>, InstrFrom(i, s), ~Inserted(i),
         NEW split, \A x \in split : x[2] = 0, i.id \in split => i.op = "packed",
         NEW o \in PieceNumbers(i, split)
  PROVE  LET v == PieceOf(i, split, o)
         IN  /\ InstrFrom(v, s) /\ ~Inserted(v) /\ v.id[1] = i.id[1]
             /\ v.id[2] = IF i.id \in split THEN o ELSE i.id[2]
<1> DEFINE v == PieceOf(i, split, o)
           r == Renamed(i, split)
<1>1. /\ i.id[2] \in 0 .. Glue /\ StemsFrom(i, s) /\ SameUses(i, s) /\ i.id[1] = s.id[1]
      /\ i.id = <<s.id[1], i.id[2]>>
  BY PieceOrInserted DEF InstrFrom
<1>2. r.id = i.id /\ r.op = i.op /\ SameUses(r, s) /\ r = [id |-> r.id, op |-> r.op, operands |-> r.operands]
  <2>1. SameUses(r, s)
    BY <1>1, RenamedUses
  <2> QED BY <2>1 DEF Renamed
<1> HIDE DEF r
<1>3. Glue \in Nat /\ Elements \in Nat /\ Glue = Elements + 1 /\ Glue # 0
  BY DEF Glue, Elements
<1>4. CASE i.id \notin split
  <2>1. v = r
    BY <1>4 DEF PieceOf, r
  <2>2. StemsFrom(r, s)
    BY <1>1, <1>2 DEF StemsFrom
  <2>3. InstrFrom(r, s) /\ ~Inserted(r)
    BY <1>1, <1>2, <2>2 DEF InstrFrom, Inserted
  <2> QED BY <1>2, <1>4, <2>1, <2>3
<1>5. CASE i.id \in split
  <2>1. i.id[2] = 0 /\ i.op = "packed" /\ o \in 1 .. Glue
    BY <1>5 DEF PieceNumbers
  <2>2. s.op = "packed" /\ i.operands = i.operands
    BY <1>1, <2>1, <1>3 DEF StemsFrom
  <2>3. CASE o = Glue
    <3>1. v = Joined(i)
      BY <1>5, <2>3 DEF PieceOf
    <3>2. /\ v.id = <<i.id[1], Glue>> /\ v.op = "glue"
          /\ v.operands = [e \in 1 .. Elements |-> <<i.id[1], e>>]
      BY <3>1 DEF Joined
    <3> HIDE DEF v
    <3>3. Range(v.operands) = {<<v.id[1], e>> : e \in 1 .. Elements}
      BY <3>2 DEF Range
    <3>4. SameUses(v, s) /\ StemsFrom(v, s)
      BY <1>1, <2>2, <3>2, <3>3 DEF SameUses, StemsFrom
    <3>5. v.id[2] = Glue /\ v.id[1] = i.id[1] /\ Glue \in 0 .. Glue /\ ~(Glue < 0)
      BY <1>3, <3>2
    <3> QED BY <1>1, <1>5, <2>3, <3>2, <3>4, <3>5 DEF InstrFrom, Inserted, v
  <2>4. CASE o # Glue
    <3>1. v = Part(r, o)
      BY <1>5, <2>4 DEF PieceOf, r
    <3>2. v.id = <<i.id[1], o>> /\ v.op = "sub" /\ v.operands = r.operands
      BY <1>2, <3>1 DEF Part
    <3> HIDE DEF v
    <3>3. o \in 1 .. Elements /\ o \in 0 .. Glue /\ ~(o < 0)
      BY <1>3, <2>1, <2>4
    <3>4. v.id[2] = o /\ v.id[1] = i.id[1]
      BY <3>2
    <3>5. SameUses(v, s)
      <4>1. r.id[2] # Glue
        BY <1>2, <1>3, <2>1
      <4> QED BY <1>2, <2>4, <3>2, <3>4, <4>1 DEF SameUses
    <3>6. StemsFrom(v, s)
      BY <1>1, <2>2, <3>2, <3>3, <3>4 DEF StemsFrom
    <3> QED BY <1>1, <1>5, <3>2, <3>3, <3>4, <3>5, <3>6 DEF InstrFrom, Inserted, v
  <2> QED BY <2>3, <2>4
<1> QED BY <1>4, <1>5

\* Splitting packed operations of a span leaves it made from the same source.
LEMMA ScalarizedFrom ==
  ASSUME NEW code, NEW src, NumbersOK(src), SpanFrom(code, src), Clean(code),
         NEW split, SplitOK(code, split)
  PROVE  SpanFrom(Scalarized(code, split), src) /\ Clean(Scalarized(code, split))
<1> DEFINE v == Scalarized(code, split)
<1>1. IsSequence(code) /\ DOMAIN code \subseteq Int
  <2>1. IsSequence(code)
    BY DEF SpanFrom
  <2> QED BY <2>1, SequenceDomain
<1>2. IsSequence(v)
  BY <1>1, ScalarizedPieces
<1>3. PICK part, at : SplitAs(code, split, v, part, at)
  BY <1>1, ScalarizedPieces
<1> HIDE DEF v
<1>4. ASSUME NEW p \in DOMAIN v
      PROVE  /\ part[p] \in DOMAIN code /\ at[p] \in PieceNumbers(code[part[p]], split)
             /\ v[p] = PieceOf(code[part[p]], split, at[p])
  BY <1>3 DEF SplitAs
<1>5. ASSUME NEW p \in DOMAIN v, NEW a \in DOMAIN src, InstrFrom(code[part[p]], src[a])
      PROVE  /\ InstrFrom(v[p], src[a]) /\ ~Inserted(v[p]) /\ v[p].id[1] = code[part[p]].id[1]
             /\ v[p].id[2] = IF code[part[p]].id \in split THEN at[p] ELSE code[part[p]].id[2]
  <2> DEFINE i == code[part[p]]
             s == src[a]
             o == at[p]
  <2>1. s.id = <<s.id[1], 0>>
    BY DEF NumbersOK
  <2>2. ~Inserted(i) /\ (i.id \in split => i.op = "packed") /\ \A x \in split : x[2] = 0
    BY <1>4 DEF Clean, SplitOK
  <2>3. InstrFrom(i, s) /\ o \in PieceNumbers(i, split) /\ v[p] = PieceOf(i, split, o)
    BY <1>4, <1>5
  <2> HIDE DEF i, s, o
  <2>4. LET w == PieceOf(i, split, o)
        IN  /\ InstrFrom(w, s) /\ ~Inserted(w) /\ w.id[1] = i.id[1]
            /\ w.id[2] = IF i.id \in split THEN o ELSE i.id[2]
    BY ONLY <2>1, <2>2, <2>3, PieceFrom
  <2> QED BY <2>3, <2>4 DEF i, s, o
<1>6. ASSUME NEW p \in DOMAIN v
      PROVE  \E a \in DOMAIN src : InstrFrom(code[part[p]], src[a])
  BY <1>4 DEF SpanFrom
<1>7. Clean(v)
  BY <1>5, <1>6 DEF Clean
<1>8. \A p \in DOMAIN v : \E a \in DOMAIN src : InstrFrom(v[p], src[a])
  BY <1>5, <1>6
<1>9. ASSUME NEW p \in DOMAIN v, NEW a \in DOMAIN src, v[p].id[1] = src[a].id[1]
      PROVE  InstrFrom(code[part[p]], src[a])
  <2>1. PICK b \in DOMAIN src : InstrFrom(code[part[p]], src[b])
    BY <1>6
  <2>2. v[p].id[1] = src[b].id[1]
    BY <1>5, <2>1 DEF InstrFrom
  <2>3. a = b
    BY <1>9, <2>2 DEF NumbersOK
  <2> QED BY <2>1, <2>3
<1>10. ASSUME NEW a \in DOMAIN src, NEW j \in DOMAIN code, InstrFrom(code[j], src[a]),
              NEW k \in DOMAIN code, InstrFrom(code[k], src[a]), code[j].id \in split
       PROVE  code[k].id[2] = 0 /\ code[k].id \in split /\ PiecesOf(code, src[a]) = {0}
  <2>1. code[j].id[2] = 0 /\ ~Inserted(code[k])
    BY <1>10 DEF SplitOK, Clean
  <2>2. code[j].id = <<src[a].id[1], 0>> /\ code[j].id[1] = src[a].id[1] /\ code[k].id[1] = src[a].id[1]
    BY <1>10, <2>1 DEF InstrFrom
  <2>3. code[k].id[2] = 0 /\ PiecesOf(code, src[a]) = {0}
    BY <2>1, <2>2, Whole
  <2>4. code[k].id = <<src[a].id[1], 0>>
    BY <1>10, <2>3 DEF InstrFrom
  <2> QED BY <1>10, <2>2, <2>3, <2>4
<1>11. ASSUME NEW p \in DOMAIN v, NEW q \in DOMAIN v, p < q
       PROVE  Follows(v[p], v[q], src)
  <2> SUFFICES ASSUME NEW a \in DOMAIN src, NEW b \in DOMAIN src,
                      v[p].id[1] = src[a].id[1], v[q].id[1] = src[b].id[1], ~(a < b)
               PROVE  a = b /\ Rank(v[p]) < Rank(v[q])
    BY DEF Follows
  <2> DEFINE i == code[part[p]]
             j == code[part[q]]
  <2>1. InstrFrom(i, src[a]) /\ InstrFrom(j, src[b])
    BY <1>9
  <2>2. i.id[1] = src[a].id[1] /\ j.id[1] = src[b].id[1]
    BY <2>1 DEF InstrFrom
  <2>3. part[p] \in DOMAIN code /\ part[q] \in DOMAIN code
    BY <1>4
  <2>4. part[p] < part[q] \/ (part[p] = part[q] /\ at[p] < at[q])
    BY <1>3, <1>11 DEF SplitAs
  <2>5. /\ Rank(v[p]) = IF i.id \in split THEN at[p] ELSE i.id[2]
        /\ Rank(v[q]) = IF j.id \in split THEN at[q] ELSE j.id[2]
    <3>1. InstrFrom(v[p], src[a]) /\ ~Inserted(v[p]) /\ InstrFrom(v[q], src[b]) /\ ~Inserted(v[q])
      BY <1>5, <2>1
    <3>2. Rank(v[p]) = v[p].id[2] /\ Rank(v[q]) = v[q].id[2]
      BY <3>1, PieceOrInserted
    <3> QED BY <1>5, <2>1, <3>2
  <2>6. Rank(i) = i.id[2] /\ Rank(j) = j.id[2]
    BY <2>1, <2>3, PieceOrInserted DEF Clean
  <2>7. CASE part[p] < part[q]
    <3>1. a = b /\ Rank(i) < Rank(j)
      <4>1. Follows(i, j, src)
        BY <2>3, <2>7 DEF SpanFrom
      <4> QED BY <2>2, <4>1 DEF Follows
    <3>2. i.id \notin split /\ j.id \notin split
      <4>1. i.id \in split \/ j.id \in split => i.id[2] = 0 /\ j.id[2] = 0
        BY <1>10, <2>1, <2>3, <3>1
      <4>2. ~(0 < 0)
        OBVIOUS
      <4> HIDE DEF i, j
      <4> QED BY <2>6, <3>1, <4>1, <4>2
    <3> HIDE DEF i, j
    <3> QED BY <2>5, <2>6, <3>1, <3>2
  <2>8. CASE part[p] = part[q] /\ at[p] < at[q]
    <3>1. i = j /\ a = b
      BY <2>2, <2>8 DEF NumbersOK
    <3>2. i.id \in split
      <4>1. CASE i.id \notin split
        <5>1. at[p] \in {1} /\ at[q] \in {1}
          BY <1>4, <2>8, <3>1, <4>1 DEF PieceNumbers
        <5>2. ~(1 < 1)
          OBVIOUS
        <5> QED BY <2>8, <5>1, <5>2
      <4> QED BY <4>1
    <3> HIDE DEF i, j
    <3> QED BY <2>5, <2>8, <3>1, <3>2
  <2> QED BY <2>4, <2>7, <2>8
<1>12. ASSUME NEW a \in DOMAIN src
       PROVE  PiecesOf(v, src[a]) \in {{0}, 1 .. Glue}
  <2> DEFINE s == src[a]
  <2>1. PiecesOf(code, s) \in {{0}, 1 .. Glue}
    BY DEF SpanFrom
  <2>2. \A o : o \in PiecesOf(v, s) <=> \E p \in DOMAIN v : v[p].id[1] = s.id[1] /\ v[p].id[2] = o
    BY <1>7, PiecesAre DEF Clean
  <2>3. \A o : o \in PiecesOf(code, s) <=> \E k \in DOMAIN code : code[k].id[1] = s.id[1] /\ code[k].id[2] = o
    BY PiecesAre DEF Clean
  <2>4. \A k \in DOMAIN code : code[k].id[1] = s.id[1] => InstrFrom(code[k], s)
    BY StemOf DEF SpanFrom
  <2>5. CASE \E k \in DOMAIN code : InstrFrom(code[k], s) /\ code[k].id \in split
    <3>1. PICK k \in DOMAIN code : InstrFrom(code[k], s) /\ code[k].id \in split
      BY <2>5
    <3>2. ASSUME NEW o \in PiecesOf(v, s) PROVE o \in 1 .. Glue
      <4>1. PICK p \in DOMAIN v : v[p].id[1] = s.id[1] /\ v[p].id[2] = o
        BY <2>2
      <4>2. InstrFrom(code[part[p]], s) /\ part[p] \in DOMAIN code
        BY <1>4, <1>9, <4>1
      <4>3. code[part[p]].id \in split
        BY <1>10, <3>1, <4>2
      <4>4. o = at[p]
        BY <1>5, <4>1, <4>2, <4>3
      <4> QED BY <1>4, <4>3, <4>4 DEF PieceNumbers
    <3>3. ASSUME NEW o \in 1 .. Glue PROVE o \in PiecesOf(v, s)
      <4>1. o \in PieceNumbers(code[k], split)
        BY <3>1 DEF PieceNumbers
      <4>2. PICK p \in DOMAIN v : part[p] = k /\ at[p] = o
        BY <1>3, <4>1 DEF SplitAs
      <4>3. v[p].id[1] = code[k].id[1] /\ v[p].id[2] = o
        BY <1>5, <3>1, <4>2
      <4>4. code[k].id[1] = s.id[1]
        BY <3>1 DEF InstrFrom
      <4> QED BY <2>2, <4>3, <4>4
    <3>4. PiecesOf(v, s) = 1 .. Glue
      BY <3>2, <3>3
    <3> QED BY <3>4
  <2>6. CASE \A k \in DOMAIN code : InstrFrom(code[k], s) => code[k].id \notin split
    <3>1. ASSUME NEW o \in PiecesOf(v, s) PROVE o \in PiecesOf(code, s)
      <4>1. PICK p \in DOMAIN v : v[p].id[1] = s.id[1] /\ v[p].id[2] = o
        BY <2>2
      <4>2. InstrFrom(code[part[p]], s) /\ part[p] \in DOMAIN code
        BY <1>4, <1>9, <4>1
      <4>3. code[part[p]].id[2] = o /\ code[part[p]].id[1] = s.id[1]
        BY <1>5, <2>6, <4>1, <4>2
      <4> QED BY <2>3, <4>2, <4>3
    <3>2. ASSUME NEW o \in PiecesOf(code, s) PROVE o \in PiecesOf(v, s)
      <4>1. PICK k \in DOMAIN code : code[k].id[1] = s.id[1] /\ code[k].id[2] = o
        BY <2>3
      <4>2. InstrFrom(code[k], s) /\ code[k].id \notin split
        BY <2>4, <2>6, <4>1
      <4>3. 1 \in PieceNumbers(code[k], split)
        BY <4>2 DEF PieceNumbers
      <4>4. PICK p \in DOMAIN v : part[p] = k /\ at[p] = 1
        BY <1>3, <4>3 DEF SplitAs
      <4>5. v[p].id[1] = code[k].id[1] /\ v[p].id[2] = o
        BY <1>5, <4>1, <4>2, <4>4
      <4> QED BY <2>2, <4>1, <4>5
    <3>3. PiecesOf(v, s) = PiecesOf(code, s)
      BY <3>1, <3>2
    <3> QED BY <2>1, <3>3
  <2> QED BY <2>5, <2>6
<1>13. SpanFrom(v, src)
  BY <1>2, <1>8, <1>11, <1>12 DEF SpanFrom
<1> QED BY <1>7, <1>13 DEF v

-----------------------------------------------------------------------------
(* Delaying memory stages.                                                 *)

\* The nops behind the barriers leave a span made from the same source.
LEMMA PacedFrom ==
  ASSUME NEW code, NEW src, NumbersOK(src), SpanFrom(code, src), Clean(code)
  PROVE  /\ SpanFrom(Paced(code), src)
         /\ \A p \in DOMAIN Paced(code) :
               Paced(code)[p] \in Range(code) \/ Range(Paced(code)[p].operands) = {}
<1> DEFINE v == Paced(code)
<1>1. IsSequence(code)
  BY DEF SpanFrom
<1>2. IsSequence(v)
  BY <1>1, PacedPieces
<1>3. PICK part, at : PacedAs(code, v, part, at)
  BY <1>1, PacedPieces
<1> HIDE DEF v
<1>4. Glue \in Nat /\ DefaultMemNops \in Nat
  BY DEF Glue, Elements, DefaultMemNops
<1>5. ASSUME NEW p \in DOMAIN v
      PROVE  /\ part[p] \in DOMAIN code
             /\ \/ at[p] = 1 /\ v[p] = code[part[p]]
                \/ /\ at[p] \in 2 .. DefaultMemNops + 1 /\ IsBarrier(code[part[p]])
                   /\ v[p] = Nop(code[part[p]], at[p] - 1)
  BY <1>3 DEF PacedAs
<1>6. ASSUME NEW i, NEW k \in 1 .. DefaultMemNops
      PROVE  /\ Nop(i, k).id = <<i.id[1], Nop(i, k).id[2]>>
             /\ Nop(i, k).id[1] = i.id[1] /\ Nop(i, k).id[2] = -k
             /\ Range(Nop(i, k).operands) = {}
             /\ Inserted(Nop(i, k)) /\ Rank(Nop(i, k)) = Glue + k
  <2> DEFINE w == Nop(i, k)
  <2>1. w.id = <<i.id[1], -k>> /\ w.operands = <<>>
    BY DEF Nop
  <2> HIDE DEF w
  <2>2. w.id[1] = i.id[1] /\ w.id[2] = -k /\ -k < 0 /\ Glue - (-k) = Glue + k
    BY <1>4, <2>1
  <2>3. Range(w.operands) = {}
    BY <2>1 DEF Range
  <2> QED BY <2>1, <2>2, <2>3 DEF Inserted, Rank, w
<1>7. \A p \in DOMAIN v : at[p] \in 2 .. DefaultMemNops + 1 => at[p] - 1 \in 1 .. DefaultMemNops
  BY <1>4
<1>8. ASSUME NEW p \in DOMAIN v, NEW a \in DOMAIN src, InstrFrom(code[part[p]], src[a])
      PROVE  InstrFrom(v[p], src[a]) /\ v[p].id[1] = code[part[p]].id[1]
  <2> DEFINE i == code[part[p]]
             w == Nop(i, at[p] - 1)
  <2>1. i.id[1] = src[a].id[1]
    BY <1>8 DEF InstrFrom
  <2>2. CASE v[p] = i
    BY <1>8, <2>2
  <2>3. CASE at[p] \in 2 .. DefaultMemNops + 1 /\ v[p] = w
    <3>1. at[p] - 1 \in 1 .. DefaultMemNops
      BY <1>7, <2>3
    <3>2. /\ w.id = <<i.id[1], w.id[2]>> /\ w.id[1] = i.id[1]
          /\ w.id[2] = -(at[p] - 1) /\ Range(w.operands) = {}
      BY <1>6, <3>1
    <3> HIDE DEF w, i
    <3>3. w.id[2] \in Int /\ w.id[2] < 0
      BY <1>4, <3>1, <3>2
    <3> QED BY <2>1, <2>3, <3>2, <3>3 DEF InstrFrom, i
  <2> QED BY <1>5, <2>2, <2>3
<1>9. \A p \in DOMAIN v : \E a \in DOMAIN src : InstrFrom(code[part[p]], src[a])
  BY <1>5 DEF SpanFrom
<1>10. \A p \in DOMAIN v : \E a \in DOMAIN src : InstrFrom(v[p], src[a])
  BY <1>8, <1>9
<1>11. ASSUME NEW p \in DOMAIN v, NEW a \in DOMAIN src, v[p].id[1] = src[a].id[1]
       PROVE  InstrFrom(code[part[p]], src[a])
  <2>1. PICK b \in DOMAIN src : InstrFrom(code[part[p]], src[b])
    BY <1>9
  <2>2. v[p].id[1] = src[b].id[1]
    BY <1>8, <2>1 DEF InstrFrom
  <2>3. a = b
    BY <1>11, <2>2 DEF NumbersOK
  <2> QED BY <2>1, <2>3
<1>12. ASSUME NEW a \in DOMAIN src, NEW j \in DOMAIN code, InstrFrom(code[j], src[a]), IsBarrier(code[j]),
              NEW k \in DOMAIN code, InstrFrom(code[k], src[a])
       PROVE  Rank(code[j]) = 0 /\ Rank(code[k]) = 0
  <2>1. ~Inserted(code[j]) /\ ~Inserted(code[k])
    BY DEF Clean
  <2>2. /\ Rank(code[j]) = code[j].id[2] /\ Rank(code[k]) = code[k].id[2]
        /\ code[j].id[1] = src[a].id[1] /\ code[k].id[1] = src[a].id[1] /\ StemsFrom(code[j], src[a])
    BY <1>12, <2>1, PieceOrInserted
  <2>3. code[j].id[2] = 0
    <3>1. code[j].op # "sub" /\ code[j].op # "glue"
      BY <1>12 DEF IsBarrier
    <3>2. code[j].id = src[a].id
      BY <2>2, <3>1 DEF StemsFrom
    <3>3. src[a].id = <<src[a].id[1], 0>>
      BY DEF NumbersOK
    <3> QED BY <3>2, <3>3
  <2>4. code[k].id[2] = 0
    BY <2>1, <2>2, <2>3, Whole
  <2> QED BY <2>2, <2>3, <2>4
<1>13. ASSUME NEW p \in DOMAIN v
       PROVE  \/ at[p] = 1 /\ v[p] = code[part[p]]
              \/ /\ IsBarrier(code[part[p]]) /\ Rank(v[p]) = Glue + at[p] - 1
                 /\ at[p] \in Int /\ at[p] > 1
  <2>1. CASE at[p] \in 2 .. DefaultMemNops + 1 /\ IsBarrier(code[part[p]]) /\ v[p] = Nop(code[part[p]], at[p] - 1)
    <3>1. at[p] - 1 \in 1 .. DefaultMemNops
      BY <1>7, <2>1
    <3>2. Rank(v[p]) = Glue + (at[p] - 1)
      BY <1>6, <2>1, <3>1
    <3>3. at[p] \in Int /\ at[p] > 1
      BY <1>4, <2>1
    <3> QED BY <1>4, <2>1, <3>2, <3>3
  <2> QED BY <1>5, <2>1
<1>14. ASSUME NEW p \in DOMAIN v, NEW q \in DOMAIN v, p < q
       PROVE  Follows(v[p], v[q], src)
  <2> SUFFICES ASSUME NEW a \in DOMAIN src, NEW b \in DOMAIN src,
                      v[p].id[1] = src[a].id[1], v[q].id[1] = src[b].id[1], ~(a < b)
               PROVE  a = b /\ Rank(v[p]) < Rank(v[q])
    BY DEF Follows
  <2> DEFINE i == code[part[p]]
             j == code[part[q]]
  <2>1. InstrFrom(i, src[a]) /\ InstrFrom(j, src[b])
    BY <1>11
  <2>2. i.id[1] = src[a].id[1] /\ j.id[1] = src[b].id[1]
    BY <2>1 DEF InstrFrom
  <2>3. part[p] \in DOMAIN code /\ part[q] \in DOMAIN code
    BY <1>5
  <2>4. part[p] < part[q] \/ (part[p] = part[q] /\ at[p] < at[q])
    BY <1>3, <1>14 DEF PacedAs
  <2>5. /\ \/ at[p] = 1 /\ v[p] = i
           \/ IsBarrier(i) /\ Rank(v[p]) = Glue + at[p] - 1 /\ at[p] \in Int /\ at[p] > 1
        /\ \/ at[q] = 1 /\ v[q] = j
           \/ IsBarrier(j) /\ Rank(v[q]) = Glue + at[q] - 1 /\ at[q] \in Int /\ at[q] > 1
    BY <1>13
  <2>6. CASE part[p] < part[q]
    <3>1. a = b /\ Rank(i) < Rank(j)
      <4>1. Follows(i, j, src)
        BY <2>3, <2>6 DEF SpanFrom
      <4> QED BY <2>2, <4>1 DEF Follows
    <3>2. ~IsBarrier(i) /\ ~IsBarrier(j)
      <4>1. IsBarrier(i) \/ IsBarrier(j) => Rank(i) = 0 /\ Rank(j) = 0
        BY <1>12, <2>1, <2>3, <3>1
      <4>2. ~(0 < 0)
        OBVIOUS
      <4> HIDE DEF i, j
      <4> QED BY <3>1, <4>1, <4>2
    <3>3. v[p] = i /\ v[q] = j
      BY <2>5, <3>2
    <3> HIDE DEF i, j
    <3> QED BY <3>1, <3>3
  <2>7. CASE part[p] = part[q] /\ at[p] < at[q]
    <3>1. i = j /\ a = b
      BY <2>2, <2>7 DEF NumbersOK
    <3>2. IsBarrier(j) /\ Rank(v[q]) = Glue + at[q] - 1 /\ at[q] \in Int /\ at[q] > 1
      <4>1. CASE at[q] = 1
        <5>1. ~(1 < 1) /\ \A x \in Int : x > 1 => ~(x < 1)
          OBVIOUS
        <5> QED BY <2>5, <2>7, <4>1, <5>1
      <4> QED BY <2>5, <4>1
    <3>3. CASE v[p] = i
      <4>1. Rank(i) = 0
        BY <1>12, <2>1, <2>3, <3>1, <3>2
      <4> HIDE DEF i
      <4> QED BY <1>4, <3>1, <3>2, <3>3, <4>1
    <3>4. CASE Rank(v[p]) = Glue + at[p] - 1 /\ at[p] \in Int
      <4> HIDE DEF i, j
      <4> QED BY <1>4, <2>7, <3>1, <3>2, <3>4
    <3> QED BY <2>5, <3>3, <3>4
  <2> QED BY <2>4, <2>6, <2>7
<1>15. ASSUME NEW p \in DOMAIN v
       PROVE  \/ v[p] = code[part[p]]
              \/ Inserted(v[p]) /\ Range(v[p].operands) = {}
  <2>1. CASE at[p] \in 2 .. DefaultMemNops + 1 /\ v[p] = Nop(code[part[p]], at[p] - 1)
    <3>1. at[p] - 1 \in 1 .. DefaultMemNops
      BY <1>7, <2>1
    <3> QED BY <1>6, <2>1, <3>1
  <2> QED BY <1>5, <2>1
<1>16. ASSUME NEW a \in DOMAIN src
       PROVE  PiecesOf(v, src[a]) \in {{0}, 1 .. Glue}
  <2> DEFINE s == src[a]
  <2>1. PiecesOf(code, s) \in {{0}, 1 .. Glue}
    BY DEF SpanFrom
  <2>2. ASSUME NEW o \in PiecesOf(v, s) PROVE o \in PiecesOf(code, s)
    <3>1. PICK p \in DOMAIN v : ~Inserted(v[p]) /\ v[p].id[1] = s.id[1] /\ v[p].id[2] = o
      BY <2>2, PiecesAre
    <3>2. v[p] = code[part[p]] /\ part[p] \in DOMAIN code
      BY <1>5, <1>15, <3>1
    <3> QED BY <3>1, <3>2, PiecesAre
  <2>3. ASSUME NEW o \in PiecesOf(code, s) PROVE o \in PiecesOf(v, s)
    <3>1. PICK k \in DOMAIN code : ~Inserted(code[k]) /\ code[k].id[1] = s.id[1] /\ code[k].id[2] = o
      BY <2>3, PiecesAre
    <3>2. PICK p \in DOMAIN v : part[p] = k /\ at[p] = 1
      BY <1>3 DEF PacedAs
    <3>3. v[p] = code[k]
      <4>1. ~(1 \in 2 .. DefaultMemNops + 1)
        BY <1>4
      <4> QED BY <1>5, <3>2, <4>1
    <3> QED BY <3>1, <3>3, PiecesAre
  <2>4. PiecesOf(v, s) = PiecesOf(code, s)
    BY <2>2, <2>3
  <2> QED BY <2>1, <2>4
<1>17. SpanFrom(v, src)
  BY <1>2, <1>10, <1>14, <1>16 DEF SpanFrom
<1>18. \A p \in DOMAIN v : v[p] \in Range(code) \/ Range(v[p].operands) = {}
  BY <1>5, <1>15 DEF Range
<1> QED BY <1>17, <1>18 DEF v

-----------------------------------------------------------------------------
(* What is split.                                                          *)

PackedIds(ops) == {i.id : i \in {j \in Range(ops) : IsPacked(j)}}

BuyNext(c, s, i)  == Buys(s, i, c[2])
BoughtAt(c, n, s) == s.ids \subseteq c[1]
Purchases == INSTANCE FoldFacts WITH Op <- BuyNext, Inv <- BoughtAt

\* Only packed operations are bought.
LEMMA BoughtPacked ==
  ASSUME NEW ops, IsSequence(ops), NEW avail
  PROVE  Bought(ops, avail) \subseteq PackedIds(ops)
<1> DEFINE c == <<PackedIds(ops), avail>>
           base == [ids |-> {}, spent |-> 0]
           end == Purchases!FromRight(c, base, ops)
           n == Len(ops)
<1>1. n \in Nat /\ DOMAIN ops = 1 .. n
  BY SequenceDomain
<1>2. Bought(ops, avail) = end.ids
  BY DEF Purchases!FromRight, Purchases!FoldRight, Purchases!MapThenFoldSet, Purchases!Min, BuyNext,
         Bought, FoldRight, MapThenFoldSet, Min
<1>3. BoughtAt(c, 0, base)
  BY DEF BoughtAt
<1>4. c[1] = PackedIds(ops)
  OBVIOUS
<1> HIDE DEF c, n, base
<1>5. ASSUME NEW k \in 1 .. n, NEW v, BoughtAt(c, k - 1, v)
      PROVE  BoughtAt(c, k, BuyNext(c, v, ops[n + 1 - k]))
  <2> DEFINE i == ops[n + 1 - k]
  <2>1. i \in Range(ops)
    <3>1. n + 1 - k \in DOMAIN ops
      BY <1>1
    <3> QED BY <3>1 DEF Range
  <2> HIDE DEF i
  <2>2. CASE IsPacked(i) /\ v.spent + Cycles(i) <= c[2]
    <3>1. i.id \in PackedIds(ops)
      BY <2>1, <2>2 DEF PackedIds
    <3>2. BuyNext(c, v, i).ids = v.ids \cup {i.id}
      BY <2>2 DEF BuyNext, Buys
    <3> QED BY <1>4, <1>5, <3>1, <3>2 DEF BoughtAt, i
  <2>3. CASE ~(IsPacked(i) /\ v.spent + Cycles(i) <= c[2])
    <3>1. BuyNext(c, v, i) = v
      BY <2>3 DEF BuyNext, Buys
    <3> QED BY <1>5, <3>1 DEF BoughtAt, i
  <2> QED BY <2>2, <2>3
<1>6. \A k \in 1 .. n : \A v : BoughtAt(c, k - 1, v) => BoughtAt(c, k, BuyNext(c, v, ops[n + 1 - k]))
  BY <1>5
<1>7. BoughtAt(c, n, end)
  BY ONLY <1>1, <1>3, <1>6, Purchases!FoldRightKeeps DEF end
<1> QED BY <1>2, <1>4, <1>7 DEF BoughtAt

\* A declaration splits packed operations of its own span.
LEMMA SplitPacked ==
  ASSUME NEW code, NEW s, IsSequence(s)
  PROVE  DeclareRegionGroups(code, s).split \subseteq PackedIds(s)
<1> DEFINE ops == Issued(code, s)
           mfmas == Len(Mfmas(s))
           window == Window(s)
<1>1. IsSequence(ops) /\ Range(ops) \subseteq Range(s)
  BY IssuedSequence
<1>2. DeclareRegionGroups(code, s) = Decide(ops, Ancestors(s), mfmas, window)
  BY DEF DeclareRegionGroups
<1> HIDE DEF ops, mfmas, window
<1>3. PackedIds(ops) \subseteq PackedIds(s)
  BY <1>1 DEF PackedIds
<1>4. Decide(ops, Ancestors(s), mfmas, window).split \in
        {{}, Bought(ops, Budget(ops, mfmas, window))}
  BY DEF Decide, OverCapBought
<1>5. Bought(ops, Budget(ops, mfmas, window)) \subseteq PackedIds(ops)
  BY <1>1, BoughtPacked
<1> QED BY <1>2, <1>3, <1>4, <1>5

-----------------------------------------------------------------------------
(* The function.                                                           *)

\* The places of some code, one index at a time.
LEMMA PlacesOf ==
  ASSUME NEW code, NEW x
  PROVE  x \in Places(code) <=> \E k \in DOMAIN code : \E n \in DOMAIN code[k] :
                                   \E p \in DOMAIN code[k][n] : x = <<k, n, p>>
BY DEF Places

\* ... and the instruction at a place.
LEMMA AtOf ==
  ASSUME NEW code, NEW k, NEW n, NEW p
  PROVE  At(code, <<k, n, p>>) = code[k][n][p]
BY DEF At

\* An instruction of the source is told by its number.
LEMMA SourceNumbers ==
  ASSUME NEW f \in Sources
  PROVE  /\ IsSequence(f.blocks)
         /\ \A k \in DOMAIN f.blocks :
               /\ IsSequence(f.blocks[k])
               /\ \A n \in DOMAIN f.blocks[k] :
                     IsSequence(f.blocks[k][n]) /\ NumbersOK(f.blocks[k][n])
         /\ \A k, l \in DOMAIN f.blocks : \A n \in DOMAIN f.blocks[k], m \in DOMAIN f.blocks[l] :
               \A a \in DOMAIN f.blocks[k][n], b \in DOMAIN f.blocks[l][m] :
                  f.blocks[k][n][a].id[1] = f.blocks[l][m][b].id[1] => k = l /\ n = m /\ a = b
<1> DEFINE src == f.blocks
<1>1. /\ IsSequence(src) /\ \A b \in Range(src) : IsSequence(b) /\ \A s \in Range(b) : IsSequence(s)
      /\ \A x \in Places(src) : IsInstruction(At(src, x))
      /\ \A x, y \in Places(src) : At(src, x).id = At(src, y).id => x = y
  BY SourcesAssumption DEF Distinct
<1> HIDE DEF src
<1>2. ASSUME NEW k \in DOMAIN src, NEW n \in DOMAIN src[k], NEW a \in DOMAIN src[k][n]
      PROVE  /\ <<k, n, a>> \in Places(src) /\ At(src, <<k, n, a>>) = src[k][n][a]
             /\ src[k][n][a].id = <<src[k][n][a].id[1], 0>>
  <2>1. <<k, n, a>> \in Places(src)
    BY PlacesOf
  <2>2. At(src, <<k, n, a>>) = src[k][n][a]
    BY AtOf
  <2>3. IsInstruction(src[k][n][a])
    BY <1>1, <2>1, <2>2
  <2> QED BY <2>1, <2>2, <2>3 DEF IsInstruction
<1>3. ASSUME NEW k \in DOMAIN src, NEW l \in DOMAIN src,
             NEW n \in DOMAIN src[k], NEW m \in DOMAIN src[l],
             NEW a \in DOMAIN src[k][n], NEW b \in DOMAIN src[l][m],
             src[k][n][a].id[1] = src[l][m][b].id[1]
      PROVE  k = l /\ n = m /\ a = b
  <2> DEFINE i == src[k][n][a]
             j == src[l][m][b]
  <2>1. <<k, n, a>> \in Places(src) /\ At(src, <<k, n, a>>) = i /\ i.id = <<i.id[1], 0>>
    BY <1>2
  <2>2. <<l, m, b>> \in Places(src) /\ At(src, <<l, m, b>>) = j /\ j.id = <<j.id[1], 0>>
    BY <1>2
  <2>3. i.id[1] = j.id[1]
    BY <1>3
  <2> HIDE DEF i, j
  <2>4. i.id = j.id
    BY <2>1, <2>2, <2>3
  <2>5. <<k, n, a>> = <<l, m, b>>
    BY <1>1, <2>1, <2>2, <2>4
  <2> QED BY <2>5
<1>4. ASSUME NEW k \in DOMAIN src
      PROVE  /\ IsSequence(src[k])
             /\ \A n \in DOMAIN src[k] : IsSequence(src[k][n]) /\ NumbersOK(src[k][n])
  <2>1. src[k] \in Range(src) /\ \A n \in DOMAIN src[k] : src[k][n] \in Range(src[k])
    BY DEF Range
  <2>2. ASSUME NEW n \in DOMAIN src[k] PROVE NumbersOK(src[k][n])
    <3>1. \A a \in DOMAIN src[k][n] : src[k][n][a].id = <<src[k][n][a].id[1], 0>>
      BY <1>2
    <3>2. \A a, b \in DOMAIN src[k][n] : src[k][n][a].id[1] = src[k][n][b].id[1] => a = b
      BY <1>3
    <3> QED BY <3>1, <3>2 DEF NumbersOK
  <2> QED BY <1>1, <2>1, <2>2
<1> QED BY <1>1, <1>3, <1>4 DEF src

\* A span of the source is made of itself.
LEMMA SourceSpan ==
  ASSUME NEW src, IsSequence(src), NumbersOK(src)
  PROVE  SpanFrom(src, src) /\ Clean(src)
<1>1. DOMAIN src \subseteq Int
  BY SequenceDomain
<1>2. Glue \in Nat /\ Glue # 0 /\ 0 \in 0 .. Glue /\ ~(0 < 0)
  BY DEF Glue, Elements
<1>3. \A a \in DOMAIN src : src[a].id = <<src[a].id[1], 0>> /\ src[a].id[2] = 0
  BY DEF NumbersOK
<1>4. Clean(src)
  BY <1>2, <1>3 DEF Clean, Inserted
<1>5. \A a \in DOMAIN src : InstrFrom(src[a], src[a])
  BY <1>2, <1>3 DEF InstrFrom, StemsFrom, SameUses
<1>6. ASSUME NEW p \in DOMAIN src, NEW q \in DOMAIN src, p < q PROVE Follows(src[p], src[q], src)
  BY <1>6 DEF Follows, NumbersOK
<1>7. ASSUME NEW a \in DOMAIN src PROVE PiecesOf(src, src[a]) = {0}
  <2>1. \A o : o \in PiecesOf(src, src[a]) <=> \E p \in DOMAIN src : src[p].id[1] = src[a].id[1] /\ src[p].id[2] = o
    BY <1>4, PiecesAre DEF Clean
  <2>2. \A o : o \in PiecesOf(src, src[a]) <=> o = 0
    BY <1>3, <2>1
  <2> QED BY <2>2
<1> QED BY <1>4, <1>5, <1>6, <1>7 DEF SpanFrom

\* The code of blocks, and the ids in it.
CodeOf(b) == [k \in DOMAIN b |-> [n \in DOMAIN b[k] |-> b[k][n].code]]

\* Which ids there are, and which have to be.
LEMMA IdsOf ==
  ASSUME NEW b
  PROVE  /\ \A o : o \in AllIds(CodeOf(b)) <=>
               \E k \in DOMAIN b : \E n \in DOMAIN b[k] : \E p \in DOMAIN b[k][n].code :
                  o = b[k][n].code[p].id
         /\ Closed(CodeOf(b)) <=>
               \A k \in DOMAIN b : \A n \in DOMAIN b[k] : \A p \in DOMAIN b[k][n].code :
                  Range(b[k][n].code[p].operands) \subseteq AllIds(CodeOf(b))
<1> DEFINE c == CodeOf(b)
<1>1. /\ DOMAIN c = DOMAIN b /\ \A k \in DOMAIN b : DOMAIN c[k] = DOMAIN b[k]
      /\ \A k \in DOMAIN b : \A n \in DOMAIN b[k] : c[k][n] = b[k][n].code
  BY DEF CodeOf
<1> HIDE DEF c
<1>2. ASSUME NEW k \in DOMAIN b, NEW n \in DOMAIN b[k], NEW p \in DOMAIN b[k][n].code
      PROVE  <<k, n, p>> \in Places(c) /\ At(c, <<k, n, p>>) = b[k][n].code[p]
  BY <1>1, PlacesOf, AtOf
<1>3. ASSUME NEW x \in Places(c)
      PROVE  \E k \in DOMAIN b : \E n \in DOMAIN b[k] : \E p \in DOMAIN b[k][n].code : x = <<k, n, p>>
  BY <1>1, PlacesOf
<1>4. ASSUME NEW o, NEW k \in DOMAIN b, NEW n \in DOMAIN b[k], NEW p \in DOMAIN b[k][n].code,
             o = b[k][n].code[p].id
      PROVE  o \in AllIds(c)
  <2> DEFINE x == <<k, n, p>>
  <2>1. x \in Places(c) /\ At(c, x) = b[k][n].code[p]
    BY <1>2
  <2> HIDE DEF x
  <2> QED BY <1>4, <2>1 DEF AllIds
<1>5. ASSUME NEW x \in Places(c)
      PROVE  \E k \in DOMAIN b : \E n \in DOMAIN b[k] : \E p \in DOMAIN b[k][n].code :
                x = <<k, n, p>> /\ At(c, x) = b[k][n].code[p]
  <2>1. PICK k, n, p : /\ k \in DOMAIN b /\ n \in DOMAIN b[k] /\ p \in DOMAIN b[k][n].code
                      /\ x = <<k, n, p>>
    BY <1>3
  <2>2. At(c, <<k, n, p>>) = b[k][n].code[p]
    BY <1>2, <2>1
  <2> QED BY <2>1, <2>2
<1>6. ASSUME NEW o \in AllIds(c)
      PROVE  \E k \in DOMAIN b : \E n \in DOMAIN b[k] : \E p \in DOMAIN b[k][n].code :
                o = b[k][n].code[p].id
  <2>1. PICK x \in Places(c) : o = At(c, x).id
    BY DEF AllIds
  <2>2. PICK k, n, p : /\ k \in DOMAIN b /\ n \in DOMAIN b[k] /\ p \in DOMAIN b[k][n].code
                      /\ At(c, x) = b[k][n].code[p]
    BY <1>5
  <2> QED BY <2>1, <2>2
<1>7. ASSUME Closed(c), NEW k \in DOMAIN b, NEW n \in DOMAIN b[k], NEW p \in DOMAIN b[k][n].code
      PROVE  Range(b[k][n].code[p].operands) \subseteq AllIds(c)
  <2> DEFINE x == <<k, n, p>>
  <2>1. x \in Places(c) /\ At(c, x) = b[k][n].code[p]
    BY <1>2
  <2> HIDE DEF x
  <2>2. Range(At(c, x).operands) \subseteq AllIds(c)
    BY <1>7, <2>1 DEF Closed
  <2> QED BY <2>1, <2>2
<1>8. ASSUME \A k \in DOMAIN b : \A n \in DOMAIN b[k] : \A p \in DOMAIN b[k][n].code :
                Range(b[k][n].code[p].operands) \subseteq AllIds(c)
      PROVE  Closed(c)
  <2> SUFFICES ASSUME NEW x \in Places(c) PROVE Range(At(c, x).operands) \subseteq AllIds(c)
    BY DEF Closed
  <2>1. PICK k, n, p : /\ k \in DOMAIN b /\ n \in DOMAIN b[k] /\ p \in DOMAIN b[k][n].code
                      /\ At(c, x) = b[k][n].code[p]
    BY <1>5
  <2>2. Range(b[k][n].code[p].operands) \subseteq AllIds(c)
    BY <1>8, <2>1
  <2> QED BY <2>1, <2>2
<1> QED BY <1>4, <1>6, <1>7, <1>8 DEF c

\* A block stems from one of the source, and nothing has been inserted in it.
BlockFrom(b, src) == /\ IsSequence(b) /\ DOMAIN b = DOMAIN src
                     /\ \A n \in DOMAIN b : SpanFrom(b[n].code, src[n])
CleanBlock(b) == \A n \in DOMAIN b : Clean(b[n].code)

\* The inductive invariant.
HintInv ==
    /\ source \in Sources
    /\ DOMAIN blocks = DOMAIN source.blocks
    /\ \A k \in DOMAIN blocks : BlockFrom(blocks[k], source.blocks[k])
    /\ pc # "done" => \A k \in DOMAIN blocks : CleanBlock(blocks[k])
    /\ pc = "spans" => BlockFrom(snapshot, source.blocks[block]) /\ CleanBlock(snapshot)
    /\ Closed(CodeOf(blocks))

\* The function that is handed to the pass is itself.
LEMMA InitHints == Init => HintInv
<1> SUFFICES ASSUME Init PROVE HintInv
  OBVIOUS
<1> DEFINE src == source.blocks
<1>1. /\ source \in Sources /\ snapshot = blocks[1] /\ block = 1
      /\ blocks = [k \in DOMAIN src |-> [n \in DOMAIN src[k] |-> Bare(src[k][n])]]
  BY DEF Init
<1>2. /\ IsSequence(src)
      /\ \A k \in DOMAIN src :
            /\ IsSequence(src[k])
            /\ \A n \in DOMAIN src[k] : IsSequence(src[k][n]) /\ NumbersOK(src[k][n])
  BY <1>1, SourceNumbers
<1>3. 1 \in DOMAIN src
  <2>1. src # <<>>
    BY <1>1, SourcesAssumption
  <2> HIDE DEF src
  <2> QED BY <1>2, <2>1, NotEmpty
<1>4. Closed(src)
  BY <1>1, SourcesAssumption
<1> HIDE DEF src
<1>5. DOMAIN blocks = DOMAIN src
  BY <1>1
<1>6. ASSUME NEW k \in DOMAIN src
      PROVE  DOMAIN blocks[k] = DOMAIN src[k] /\ \A n \in DOMAIN src[k] : blocks[k][n].code = src[k][n]
  BY <1>1 DEF Bare
<1>7. ASSUME NEW k \in DOMAIN src
      PROVE  BlockFrom(blocks[k], src[k]) /\ CleanBlock(blocks[k])
  <2>1. Len(src[k]) \in Nat /\ DOMAIN src[k] = 1 .. Len(src[k])
    BY <1>2, SequenceDomain
  <2>2. blocks[k] = [n \in 1 .. Len(src[k]) |-> blocks[k][n]]
    BY <1>1, <2>1
  <2>3. IsSequence(blocks[k])
    BY <2>1, <2>2, MakeSequence
  <2>4. \A n \in DOMAIN src[k] : SpanFrom(src[k][n], src[k][n]) /\ Clean(src[k][n])
    BY <1>2, SourceSpan
  <2> QED BY <1>6, <2>3, <2>4 DEF BlockFrom, CleanBlock
<1>8. CodeOf(blocks) = src
  <2> DEFINE c == CodeOf(blocks)
  <2>1. c = [k \in DOMAIN src |-> c[k]]
    BY <1>5 DEF CodeOf
  <2>2. ASSUME NEW k \in DOMAIN src PROVE c[k] = src[k]
    <3>1. c[k] = [n \in DOMAIN src[k] |-> src[k][n]]
      BY <1>5, <1>6 DEF CodeOf
    <3>2. src[k] = [n \in 1 .. Len(src[k]) |-> src[k][n]] /\ DOMAIN src[k] = 1 .. Len(src[k])
      BY <1>2, SequenceDomain
    <3> HIDE DEF c
    <3> QED BY <3>1, <3>2
  <2>3. src = [k \in 1 .. Len(src) |-> src[k]] /\ DOMAIN src = 1 .. Len(src)
    BY <1>2, SequenceDomain
  <2> HIDE DEF c
  <2>4. c = src
    BY <2>1, <2>2, <2>3
  <2> QED BY <2>4 DEF c
<1> QED BY <1>1, <1>3, <1>4, <1>5, <1>7, <1>8 DEF HintInv, src

\* What there is after packed operations have been split, and what it uses.
SplitIds(code, split, v) ==
    /\ \A p \in DOMAIN code : code[p].id \notin split => \E q \in DOMAIN v : v[q].id = code[p].id
    /\ \A p \in DOMAIN code : code[p].id \in split =>
          \A e \in 1 .. Glue : \E q \in DOMAIN v : v[q].id = <<code[p].id[1], e>>
    /\ \A q \in DOMAIN v : \E p \in DOMAIN code :
          \/ Range(v[q].operands) \subseteq {NewId(o, split) : o \in Range(code[p].operands)}
          \/ /\ code[p].id \in split
             /\ Range(v[q].operands) \subseteq {<<code[p].id[1], e>> : e \in 1 .. Glue}

\* It is there in place of what was split.
LEMMA ScalarizedIds ==
  ASSUME NEW code, IsSequence(code), NEW split
  PROVE  SplitIds(code, split, Scalarized(code, split))
<1> DEFINE v == Scalarized(code, split)
<1>1. PICK part, at : SplitAs(code, split, v, part, at)
  BY ScalarizedPieces
<1> HIDE DEF v
<1>2. Elements \in Nat /\ Glue = Elements + 1
  BY DEF Glue, Elements
<1>3. ASSUME NEW i
      PROVE  /\ Renamed(i, split).id = i.id
             /\ Range(Renamed(i, split).operands) = {NewId(o, split) : o \in Range(i.operands)}
  <2> DEFINE u == [k \in DOMAIN i.operands |-> NewId(i.operands[k], split)]
  <2>1. Range(u) = {NewId(o, split) : o \in Range(i.operands)}
    BY DEF Range
  <2>2. Renamed(i, split) = [id |-> i.id, op |-> i.op, operands |-> u]
    BY DEF Renamed
  <2> HIDE DEF u
  <2> QED BY <2>1, <2>2
<1>4. ASSUME NEW p \in DOMAIN code, code[p].id \notin split
      PROVE  \E q \in DOMAIN v : v[q].id = code[p].id
  <2>1. 1 \in PieceNumbers(code[p], split)
    BY <1>4 DEF PieceNumbers
  <2>2. PICK q \in DOMAIN v : part[q] = p /\ at[q] = 1
    BY <1>1, <2>1 DEF SplitAs
  <2>3. v[q] = PieceOf(code[p], split, 1)
    BY <1>1, <2>2 DEF SplitAs
  <2>4. v[q].id = code[p].id
    BY <1>3, <1>4, <2>3 DEF PieceOf
  <2> QED BY <2>4
<1>5. ASSUME NEW p \in DOMAIN code, code[p].id \in split, NEW e \in 1 .. Glue
      PROVE  \E q \in DOMAIN v : v[q].id = <<code[p].id[1], e>>
  <2>1. e \in PieceNumbers(code[p], split)
    BY <1>5 DEF PieceNumbers
  <2>2. PICK q \in DOMAIN v : part[q] = p /\ at[q] = e
    BY <1>1, <2>1 DEF SplitAs
  <2>3. v[q] = PieceOf(code[p], split, e)
    BY <1>1, <2>2 DEF SplitAs
  <2>4. Joined(code[p]).id = <<code[p].id[1], Glue>>
    BY DEF Joined
  <2>5. Part(Renamed(code[p], split), e).id = <<code[p].id[1], e>>
    BY <1>3 DEF Part
  <2>6. v[q].id = <<code[p].id[1], e>>
    BY <1>5, <2>3, <2>4, <2>5 DEF PieceOf
  <2> QED BY <2>6
<1>6. ASSUME NEW q \in DOMAIN v
      PROVE  \E p \in DOMAIN code :
                \/ Range(v[q].operands) \subseteq {NewId(o, split) : o \in Range(code[p].operands)}
                \/ /\ code[p].id \in split
                   /\ Range(v[q].operands) \subseteq {<<code[p].id[1], e>> : e \in 1 .. Glue}
  <2> DEFINE i == code[part[q]]
             r == Renamed(i, split)
  <2>1. part[q] \in DOMAIN code /\ v[q] = PieceOf(i, split, at[q])
    BY <1>1 DEF SplitAs
  <2>2. Range(r.operands) = {NewId(o, split) : o \in Range(i.operands)}
    BY <1>3
  <2>3. Part(r, at[q]).operands = r.operands
    BY DEF Part
  <2>4. i.id \in split => Range(Joined(i).operands) \subseteq {<<i.id[1], e>> : e \in 1 .. Glue}
    <3>1. Joined(i).operands = [e \in 1 .. Elements |-> <<i.id[1], e>>]
      BY DEF Joined
    <3>2. \A e \in 1 .. Elements : e \in 1 .. Glue
      BY <1>2
    <3> HIDE DEF i
    <3> QED BY <3>1, <3>2 DEF Range
  <2>5. v[q] \in {r, Part(r, at[q])} \/ (v[q] = Joined(i) /\ i.id \in split)
    BY <2>1 DEF PieceOf
  <2> HIDE DEF r
  <2>6. \/ Range(v[q].operands) \subseteq {NewId(o, split) : o \in Range(i.operands)}
        \/ /\ i.id \in split
           /\ Range(v[q].operands) \subseteq {<<i.id[1], e>> : e \in 1 .. Glue}
    BY <2>2, <2>3, <2>4, <2>5
  <2> QED BY <2>1, <2>6
<1> QED BY <1>4, <1>5, <1>6 DEF v, SplitIds

\* What the next declaration splits are packed operations of the function, as they
\* were in the source.
LEMMA NextSplitOK ==
  ASSUME HintInv, pc = "spans", block \in DOMAIN blocks, span \in DOMAIN blocks[block]
  PROVE  \A k \in DOMAIN blocks : \A n \in DOMAIN blocks[k] : SplitOK(blocks[k][n].code, NextSplit)
<1> DEFINE src == source.blocks
           code(k, n) == blocks[k][n].code
<1>1. /\ \A k \in DOMAIN blocks : /\ k \in DOMAIN src /\ DOMAIN blocks[k] = DOMAIN src[k]
                                  /\ \A n \in DOMAIN blocks[k] : /\ SpanFrom(code(k, n), src[k][n])
                                                                 /\ Clean(code(k, n))
  BY DEF HintInv, BlockFrom, CleanBlock
<1>2. \A k, l \in DOMAIN src : \A n \in DOMAIN src[k], m \in DOMAIN src[l] :
         \A a \in DOMAIN src[k][n], b \in DOMAIN src[l][m] :
            src[k][n][a].id[1] = src[l][m][b].id[1] => k = l /\ n = m /\ a = b
  BY SourceNumbers DEF HintInv
<1>3. \A k \in DOMAIN src : \A n \in DOMAIN src[k] : \A a \in DOMAIN src[k][n] :
         src[k][n][a].id = <<src[k][n][a].id[1], 0>>
  BY SourceNumbers DEF HintInv, NumbersOK
<1>4. NextSplit \subseteq PackedIds(code(block, span))
  <2>1. IsSequence(code(block, span))
    BY <1>1 DEF SpanFrom
  <2> QED BY <2>1, SplitPacked DEF NextSplit
<1> HIDE DEF src, code
<1>5. ASSUME NEW k \in DOMAIN blocks, NEW n \in DOMAIN blocks[k], NEW p \in DOMAIN code(k, n)
      PROVE  \E a \in DOMAIN src[k][n] : /\ code(k, n)[p].id[1] = src[k][n][a].id[1]
                                         /\ StemsFrom(code(k, n)[p], src[k][n][a])
  <2> DEFINE i == code(k, n)[p]
  <2>1. PICK a \in DOMAIN src[k][n] : InstrFrom(i, src[k][n][a])
    BY <1>1 DEF SpanFrom
  <2>2. ~Inserted(i)
    BY <1>1 DEF Clean
  <2> HIDE DEF i
  <2>3. i.id[1] = src[k][n][a].id[1] /\ StemsFrom(i, src[k][n][a])
    BY <2>1, <2>2, PieceOrInserted
  <2> QED BY <2>3 DEF i
<1>6. ASSUME NEW o \in NextSplit
      PROVE  \E b \in DOMAIN src[block][span] : src[block][span][b].op = "packed" /\ o = src[block][span][b].id
  <2>1. PICK q \in DOMAIN code(block, span) : code(block, span)[q].op = "packed" /\ o = code(block, span)[q].id
    BY <1>4 DEF PackedIds, Range, IsPacked
  <2>2. PICK b \in DOMAIN src[block][span] : StemsFrom(code(block, span)[q], src[block][span][b])
    BY <1>5
  <2>3. "packed" # "sub" /\ "packed" # "glue"
    OBVIOUS
  <2> QED BY <2>1, <2>2, <2>3 DEF StemsFrom
<1>7. \A o \in NextSplit : o[2] = 0
  <2> TAKE o \in NextSplit
  <2>1. PICK b \in DOMAIN src[block][span] : o = src[block][span][b].id
    BY <1>6
  <2>2. o = <<o[1], 0>>
    BY <1>1, <1>3, <2>1
  <2> QED BY <2>2
<1>8. ASSUME NEW k \in DOMAIN blocks, NEW n \in DOMAIN blocks[k], NEW p \in DOMAIN code(k, n),
             code(k, n)[p].id \in NextSplit
      PROVE  code(k, n)[p].op = "packed"
  <2> DEFINE i == code(k, n)[p]
  <2>1. PICK b \in DOMAIN src[block][span] : src[block][span][b].op = "packed" /\ i.id = src[block][span][b].id
    BY <1>6, <1>8
  <2>2. PICK a \in DOMAIN src[k][n] : i.id[1] = src[k][n][a].id[1] /\ StemsFrom(i, src[k][n][a])
    BY <1>5
  <2>3. i.id[2] = 0
    BY <1>7, <1>8
  <2>4. src[k][n][a].id[1] = src[block][span][b].id[1]
    BY <2>1, <2>2
  <2>5. k = block /\ n = span /\ a = b
    BY <1>1, <1>2, <2>4
  <2>6. StemsFrom(i, src[block][span][b])
    BY <2>2, <2>5
  <2>7. 0 \notin 1 .. Elements /\ Glue # 0
    BY DEF Glue, Elements
  <2> HIDE DEF i
  <2> QED BY <2>1, <2>3, <2>6, <2>7 DEF StemsFrom, i
<1> QED BY <1>7, <1>8 DEF SplitOK, code

\* After a split every value that is used is there, as its glue where it was split.
LEMMA DeclareClosed ==
  ASSUME NEW b, NEW c, NEW split, Closed(CodeOf(b)),
         DOMAIN c = DOMAIN b,
         \A k \in DOMAIN b : /\ DOMAIN c[k] = DOMAIN b[k]
                             /\ \A n \in DOMAIN b[k] : /\ IsSequence(b[k][n].code)
                                                       /\ c[k][n].code = Scalarized(b[k][n].code, split)
  PROVE  Closed(CodeOf(c))
<1> DEFINE was == AllIds(CodeOf(b))
           now == AllIds(CodeOf(c))
<1>1. /\ \A o : o \in was <=> \E k \in DOMAIN b : \E n \in DOMAIN b[k] : \E p \in DOMAIN b[k][n].code :
                                 o = b[k][n].code[p].id
      /\ \A k \in DOMAIN b : \A n \in DOMAIN b[k] : \A p \in DOMAIN b[k][n].code :
            Range(b[k][n].code[p].operands) \subseteq was
  BY IdsOf
<1>2. /\ \A o : o \in now <=> \E k \in DOMAIN c : \E n \in DOMAIN c[k] : \E p \in DOMAIN c[k][n].code :
                                 o = c[k][n].code[p].id
      /\ Closed(CodeOf(c)) <=>
            \A k \in DOMAIN c : \A n \in DOMAIN c[k] : \A p \in DOMAIN c[k][n].code :
               Range(c[k][n].code[p].operands) \subseteq now
  BY IdsOf
<1> HIDE DEF was, now
<1>3. ASSUME NEW o \in was
      PROVE  /\ o \notin split => o \in now
             /\ o \in split => \A e \in 1 .. Glue : <<o[1], e>> \in now
  <2>1. PICK k, n, p : /\ k \in DOMAIN b /\ n \in DOMAIN b[k] /\ p \in DOMAIN b[k][n].code
                       /\ o = b[k][n].code[p].id
    BY <1>1
  <2> DEFINE s == b[k][n].code
             v == Scalarized(s, split)
  <2>2. k \in DOMAIN c /\ n \in DOMAIN c[k] /\ c[k][n].code = v /\ IsSequence(s)
    BY <2>1
  <2>5. p \in DOMAIN s /\ o = s[p].id
    BY <2>1
  <2> HIDE DEF s
  <2>3. SplitIds(s, split, v)
    BY ONLY <2>2, ScalarizedIds
  <2> HIDE DEF v
  <2>4. \A r \in DOMAIN v : v[r].id \in now
    BY <1>2, <2>2
  <2>6. o \notin split => o \in now
    BY <2>3, <2>4, <2>5 DEF SplitIds
  <2>7. ASSUME o \in split, NEW e \in 1 .. Glue PROVE <<o[1], e>> \in now
    <3>1. PICK r \in DOMAIN v : v[r].id = <<s[p].id[1], e>>
      BY <2>3, <2>5, <2>7 DEF SplitIds
    <3> QED BY <2>4, <2>5, <3>1
  <2> QED BY <2>6, <2>7
<1>4. Glue \in 1 .. Glue
  BY DEF Glue, Elements
<1>5. \A o \in was : NewId(o, split) \in now
  BY <1>3, <1>4 DEF NewId
<1>6. ASSUME NEW k \in DOMAIN c, NEW n \in DOMAIN c[k], NEW q \in DOMAIN c[k][n].code
      PROVE  Range(c[k][n].code[q].operands) \subseteq now
  <2> DEFINE s == b[k][n].code
             v == Scalarized(s, split)
  <2>1. k \in DOMAIN b /\ n \in DOMAIN b[k] /\ c[k][n].code = v /\ IsSequence(s)
    OBVIOUS
  <2>2. \A p \in DOMAIN s : s[p].id \in was /\ Range(s[p].operands) \subseteq was
    BY <1>1, <2>1
  <2> HIDE DEF s
  <2>3. SplitIds(s, split, v)
    BY ONLY <2>1, ScalarizedIds
  <2> HIDE DEF v
  <2>4. Range(v[q].operands) \subseteq now
    <3> PICK p \in DOMAIN s :
           \/ Range(v[q].operands) \subseteq {NewId(o, split) : o \in Range(s[p].operands)}
           \/ /\ s[p].id \in split
              /\ Range(v[q].operands) \subseteq {<<s[p].id[1], e>> : e \in 1 .. Glue}
      BY <2>1, <2>3 DEF SplitIds
    <3>1. CASE Range(v[q].operands) \subseteq {NewId(o, split) : o \in Range(s[p].operands)}
      BY <1>5, <2>2, <3>1
    <3>2. CASE s[p].id \in split /\ Range(v[q].operands) \subseteq {<<s[p].id[1], e>> : e \in 1 .. Glue}
      BY <1>3, <2>2, <3>2
    <3> QED BY <3>1, <3>2
  <2> QED BY <2>1, <2>4
<1> QED BY <1>2, <1>6

\* A declaration leaves every span made from its own in the source.
LEMMA DeclareHints == ASSUME IInv, HintInv, Declare PROVE HintInv'
<1>1. /\ pc = "spans" /\ pc' = pc /\ source' = source /\ block' = block /\ snapshot' = snapshot
  BY DEF Declare
<1>2. /\ block \in DOMAIN blocks /\ DOMAIN blocks' = DOMAIN blocks /\ span \in DOMAIN blocks[block]
      /\ \A k \in DOMAIN blocks : BlockOK(blocks'[k]) /\ DOMAIN blocks'[k] = DOMAIN blocks[k]
  <2>1. block \in DOMAIN blocks
    BY <1>1 DEF IInv, ShapeInv
  <2> QED BY <2>1, DeclareEffect DEF IInv
<1>3. \/ blocks' = blocks
      \/ \A k \in DOMAIN blocks : \A n \in DOMAIN blocks[k] :
            blocks'[k][n].code = Scalarized(blocks[k][n].code, NextSplit)
  BY DeclareEffect DEF IInv
<1>4. CASE blocks' = blocks
  BY <1>1, <1>4 DEF HintInv
<1>5. CASE \A k \in DOMAIN blocks : \A n \in DOMAIN blocks[k] :
              blocks'[k][n].code = Scalarized(blocks[k][n].code, NextSplit)
  <2> DEFINE split == NextSplit
             src == source.blocks
             now == blocks'
  <2>1. \A k \in DOMAIN blocks : \A n \in DOMAIN blocks[k] : SplitOK(blocks[k][n].code, split)
    BY <1>1, <1>2, NextSplitOK
  <2>2. /\ source \in Sources /\ DOMAIN blocks = DOMAIN src
        /\ \A k \in DOMAIN blocks : BlockFrom(blocks[k], src[k]) /\ CleanBlock(blocks[k])
        /\ BlockFrom(snapshot, src[block]) /\ CleanBlock(snapshot)
        /\ Closed(CodeOf(blocks))
    BY <1>1 DEF HintInv
  <2>3. \A k \in DOMAIN src : \A n \in DOMAIN src[k] : NumbersOK(src[k][n])
    BY <2>2, SourceNumbers
  <2>4. \A k \in DOMAIN blocks : \A n \in DOMAIN blocks[k] : now[k][n].code = Scalarized(blocks[k][n].code, split)
    BY <1>5
  <2> HIDE DEF split, src
  <2>5. ASSUME NEW k \in DOMAIN blocks
        PROVE  BlockFrom(now[k], src[k]) /\ CleanBlock(now[k])
    <3>1. ASSUME NEW n \in DOMAIN blocks[k]
          PROVE  SpanFrom(now[k][n].code, src[k][n]) /\ Clean(now[k][n].code)
      <4> DEFINE code == blocks[k][n].code
      <4>1. /\ NumbersOK(src[k][n]) /\ SpanFrom(code, src[k][n]) /\ Clean(code) /\ SplitOK(code, split)
        BY <2>1, <2>2, <2>3 DEF BlockFrom, CleanBlock
      <4> HIDE DEF code
      <4>2. SpanFrom(Scalarized(code, split), src[k][n]) /\ Clean(Scalarized(code, split))
        BY <4>1, ScalarizedFrom
      <4> QED BY <2>4, <4>2 DEF code
    <3>2. DOMAIN now[k] = DOMAIN blocks[k] /\ IsSequence(now[k]) /\ DOMAIN blocks[k] = DOMAIN src[k]
      BY <1>2, <2>2 DEF BlockOK, BlockFrom
    <3> HIDE DEF now
    <3> QED BY <3>1, <3>2 DEF BlockFrom, CleanBlock
  <2>6. Closed(CodeOf(now))
    <3>1. \A k \in DOMAIN blocks : \A n \in DOMAIN blocks[k] : IsSequence(blocks[k][n].code)
      BY <2>2 DEF BlockFrom, SpanFrom
    <3>2. DOMAIN now = DOMAIN blocks /\ \A k \in DOMAIN blocks : DOMAIN now[k] = DOMAIN blocks[k]
      BY <1>2
    <3> HIDE DEF now
    <3> QED BY <2>2, <2>4, <3>1, <3>2, DeclareClosed
  <2> QED BY <1>1, <1>2, <2>2, <2>5, <2>6 DEF HintInv, src
<1> QED BY <1>3, <1>4, <1>5

-----------------------------------------------------------------------------
(* Rolling back.                                                           *)

\* The instructions of a block.
InBlock(i, b) == \E n \in DOMAIN b : \E p \in DOMAIN b[n].code : i = b[n].code[p]

\* Its code and its ids are those of its spans.
LEMMA CodeRange ==
  ASSUME NEW b, IsSequence(b), \A n \in DOMAIN b : IsSequence(b[n].code)
  PROVE  /\ \A i : i \in Range(Code(b)) <=> InBlock(i, b)
         /\ \A o : o \in Held(b) <=> \E n \in DOMAIN b : \E p \in DOMAIN b[n].code : o = b[n].code[p].id
<1> DEFINE all == [n \in DOMAIN b |-> b[n].code]
<1>1. Len(b) \in Nat /\ DOMAIN b = 1 .. Len(b)
  BY SequenceDomain
<1>2. Code(b) = FlattenSeq(all)
  BY DEF Code
<1>3. DOMAIN all = DOMAIN b /\ \A n \in DOMAIN b : all[n] = b[n].code
  OBVIOUS
<1>4. all = [n \in 1 .. Len(b) |-> all[n]]
  BY <1>1
<1> HIDE DEF all
<1>5. IsSequence(all)
  BY <1>1, <1>4, MakeSequence
<1>6. \A n \in DOMAIN all : IsSequence(all[n])
  BY <1>3
<1>7. Range(FlattenSeq(all)) = UNION {Range(all[n]) : n \in DOMAIN all}
  BY ONLY <1>5, <1>6, FlattenRange
<1>8. \A i : i \in Range(Code(b)) <=> InBlock(i, b)
  <2>1. \A i : i \in Range(Code(b)) <=> \E n \in DOMAIN all : i \in Range(all[n])
    BY <1>2, <1>7
  <2>2. \A n \in DOMAIN all : \A i : i \in Range(all[n]) <=> \E p \in DOMAIN all[n] : i = all[n][p]
    BY DEF Range
  <2> QED BY <1>3, <2>1, <2>2 DEF InBlock
<1>9. ASSUME NEW o
      PROVE  o \in Held(b) <=> \E n \in DOMAIN b : \E p \in DOMAIN b[n].code : o = b[n].code[p].id
  <2>1. o \in Held(b) <=> \E s \in Range(b) : o \in Ids(s.code)
    BY DEF Held
  <2>2. \A s : s \in Range(b) <=> \E n \in DOMAIN b : s = b[n]
    BY DEF Range
  <2>3. \A s : o \in Ids(s.code) <=> \E p \in DOMAIN s.code : o = s.code[p].id
    BY DEF Ids, Range
  <2> QED BY <2>1, <2>2, <2>3
<1> QED BY <1>8, <1>9

\* A block that is restored has instructions of the block, with the ids it had.
LEMMA RestoredCode ==
  ASSUME NEW b, IsSequence(b), \A n \in DOMAIN b : IsSequence(b[n].code),
         NEW saved, BlockOK(saved), Held(saved) \subseteq Held(b)
  PROVE  LET r == RestoreBlock(b, saved)
         IN  /\ IsSequence(r) /\ DOMAIN r = DOMAIN saved
             /\ \A n \in DOMAIN saved :
                   /\ IsSequence(r[n].code) /\ DOMAIN r[n].code = DOMAIN saved[n].code
                   /\ \A p \in DOMAIN saved[n].code :
                         InBlock(r[n].code[p], b) /\ r[n].code[p].id = saved[n].code[p].id
<1> DEFINE Now(i) == CHOOSE j \in Range(Code(b)) : j.id = i.id
           code(n) == [k \in DOMAIN saved[n].code |-> Now(saved[n].code[k])]
           r == RestoreBlock(b, saved)
<1>1. Len(saved) \in Nat /\ DOMAIN saved = 1 .. Len(saved) /\ \A n \in DOMAIN saved : SpanOK(saved[n])
  BY SequenceDomain DEF BlockOK
<1>2. r = [n \in DOMAIN saved |-> [saved[n] EXCEPT !.code = [k \in DOMAIN @ |-> Now(@[k])]]]
  BY DEF RestoreBlock
<1> HIDE DEF Now, r
<1>3. \A n \in DOMAIN saved : r[n] = [code |-> code(n), groups |-> saved[n].groups]
  BY <1>1, <1>2 DEF SpanOK
<1>4. ASSUME NEW n \in DOMAIN saved PROVE r[n].code = code(n)
  <2> DEFINE c == code(n)
             g == saved[n].groups
             t == r[n]
  <2>1. t = [code |-> c, groups |-> g]
    BY <1>3
  <2> HIDE DEF c, g, t
  <2>2. t.code = c
    BY ONLY <2>1, Fields
  <2> QED BY <2>2 DEF c, t
<1>5. r = [n \in 1 .. Len(saved) |-> r[n]] /\ DOMAIN r = DOMAIN saved
  BY <1>1, <1>2
<1>6. IsSequence(r)
  BY <1>1, <1>5, MakeSequence
<1>7. ASSUME NEW n \in DOMAIN saved
      PROVE  /\ IsSequence(code(n)) /\ DOMAIN code(n) = DOMAIN saved[n].code
             /\ \A p \in DOMAIN saved[n].code :
                   InBlock(code(n)[p], b) /\ code(n)[p].id = saved[n].code[p].id
  <2> DEFINE s == saved[n].code
             c == code(n)
  <2>1. IsSequence(s)
    BY <1>1 DEF SpanOK
  <2>2. Len(s) \in Nat /\ DOMAIN s = 1 .. Len(s)
    BY <2>1, SequenceDomain
  <2>3. c = [p \in 1 .. Len(s) |-> c[p]] /\ DOMAIN c = DOMAIN s
    BY <2>2
  <2>4. \A p \in DOMAIN s : c[p] = Now(s[p])
    OBVIOUS
  <2>5. \A p \in DOMAIN s : s[p].id \in Held(saved)
    <3>1. \A p \in DOMAIN s : s[p].id \in Ids(s)
      BY DEF Ids, Range
    <3>2. saved[n] \in Range(saved)
      BY DEF Range
    <3> QED BY <3>1, <3>2 DEF Held
  <2> HIDE DEF c, s
  <2>6. IsSequence(c)
    BY <2>2, <2>3, MakeSequence
  <2>7. ASSUME NEW p \in DOMAIN s PROVE InBlock(c[p], b) /\ c[p].id = s[p].id
    <3>1. s[p].id \in Held(b)
      BY <2>5
    <3>2. PICK m, q : m \in DOMAIN b /\ q \in DOMAIN b[m].code /\ s[p].id = b[m].code[q].id
      BY <3>1, CodeRange
    <3>3. InBlock(b[m].code[q], b)
      BY <3>2 DEF InBlock
    <3>4. \E j \in Range(Code(b)) : j.id = s[p].id
      BY <3>2, <3>3, CodeRange
    <3>5. Now(s[p]) \in Range(Code(b)) /\ Now(s[p]).id = s[p].id
      BY <3>4 DEF Now
    <3> QED BY <2>4, <3>5, CodeRange
  <2> QED BY <2>3, <2>6, <2>7 DEF c, s
<1> HIDE DEF code
<1>8. \A n \in DOMAIN saved :
         /\ IsSequence(r[n].code) /\ DOMAIN r[n].code = DOMAIN saved[n].code
         /\ \A p \in DOMAIN saved[n].code :
               InBlock(r[n].code[p], b) /\ r[n].code[p].id = saved[n].code[p].id
  BY <1>4, <1>7
<1> QED BY <1>5, <1>6, <1>8 DEF r

\* The order and the pieces of a span are a matter of its ids.
LEMMA SameIds ==
  ASSUME NEW code, NEW src, SpanFrom(code, src), NEW c, IsSequence(c), DOMAIN c = DOMAIN code,
         \A p \in DOMAIN code : c[p].id = code[p].id /\ \E a \in DOMAIN src : InstrFrom(c[p], src[a])
  PROVE  SpanFrom(c, src) /\ (Clean(code) => Clean(c))
<1>1. ASSUME NEW p \in DOMAIN c, NEW q \in DOMAIN c, p < q PROVE Follows(c[p], c[q], src)
  <2>1. Follows(code[p], code[q], src)
    BY <1>1 DEF SpanFrom
  <2>2. c[p].id = code[p].id /\ c[q].id = code[q].id
    OBVIOUS
  <2> QED BY <2>1, <2>2 DEF Follows, Rank
<1>2. \A p \in DOMAIN c : Inserted(c[p]) <=> Inserted(code[p])
  BY DEF Inserted
<1>3. ASSUME NEW a \in DOMAIN src PROVE PiecesOf(c, src[a]) \in {{0}, 1 .. Glue}
  <2>1. \A o : o \in PiecesOf(c, src[a]) <=> o \in PiecesOf(code, src[a])
    BY <1>2, PiecesAre
  <2>2. PiecesOf(c, src[a]) = PiecesOf(code, src[a])
    BY <2>1
  <2> QED BY <2>2 DEF SpanFrom
<1> QED BY <1>1, <1>2, <1>3 DEF SpanFrom, Clean

\* The instructions of a block of the source are told by their numbers.
NumbersIn(src) ==
    /\ \A n \in DOMAIN src : IsSequence(src[n]) /\ NumbersOK(src[n])
    /\ \A n, m \in DOMAIN src : \A a \in DOMAIN src[n], b \in DOMAIN src[m] :
          src[n][a].id[1] = src[m][b].id[1] => n = m /\ a = b

\* A block that is restored is what it was, up to the operands, and has all ids of
\* the block.
LEMMA RestoredFrom ==
  ASSUME NEW src, NumbersIn(src),
         NEW b, BlockFrom(b, src), CleanBlock(b),
         NEW saved, BlockOK(saved), BlockFrom(saved, src), CleanBlock(saved),
         Held(saved) \subseteq Held(b)
  PROVE  LET r == RestoreBlock(b, saved)
         IN  /\ BlockFrom(r, src) /\ CleanBlock(r)
             /\ \A n \in DOMAIN r : \A p \in DOMAIN r[n].code : InBlock(r[n].code[p], b)
             /\ \A n \in DOMAIN b : \A p \in DOMAIN b[n].code :
                   \E m \in DOMAIN r : \E q \in DOMAIN r[m].code : r[m].code[q].id = b[n].code[p].id
<1> DEFINE r == RestoreBlock(b, saved)
<1>1. /\ IsSequence(b) /\ DOMAIN b = DOMAIN src /\ DOMAIN saved = DOMAIN src
      /\ \A n \in DOMAIN src : /\ SpanFrom(b[n].code, src[n]) /\ Clean(b[n].code)
                               /\ SpanFrom(saved[n].code, src[n]) /\ Clean(saved[n].code)
                               /\ IsSequence(b[n].code) /\ IsSequence(saved[n].code)
  BY DEF BlockFrom, CleanBlock, SpanFrom
<1>2. /\ IsSequence(r) /\ DOMAIN r = DOMAIN saved
      /\ \A n \in DOMAIN saved :
            /\ IsSequence(r[n].code) /\ DOMAIN r[n].code = DOMAIN saved[n].code
            /\ \A p \in DOMAIN saved[n].code :
                  InBlock(r[n].code[p], b) /\ r[n].code[p].id = saved[n].code[p].id
  BY <1>1, RestoredCode
<1> HIDE DEF r
<1>3. ASSUME NEW n \in DOMAIN src, NEW p \in DOMAIN saved[n].code
      PROVE  \E a \in DOMAIN src[n] : InstrFrom(r[n].code[p], src[n][a])
  <2> DEFINE i == saved[n].code[p]
             j == r[n].code[p]
  <2>1. PICK a \in DOMAIN src[n] : InstrFrom(i, src[n][a])
    BY <1>1 DEF SpanFrom
  <2>2. InBlock(j, b) /\ j.id = i.id
    BY <1>1, <1>2
  <2>3. PICK m, q : m \in DOMAIN b /\ q \in DOMAIN b[m].code /\ j = b[m].code[q]
    BY <2>2 DEF InBlock
  <2>4. PICK c \in DOMAIN src[m] : InstrFrom(j, src[m][c])
    BY <1>1, <2>3 DEF SpanFrom
  <2> HIDE DEF i, j
  <2>5. src[n][a].id[1] = src[m][c].id[1]
    BY <2>1, <2>2, <2>4 DEF InstrFrom
  <2>6. n = m /\ a = c
    BY <1>1, <2>3, <2>5 DEF NumbersIn
  <2> QED BY <2>4, <2>6 DEF j
<1>4. ASSUME NEW n \in DOMAIN src
      PROVE  SpanFrom(r[n].code, src[n]) /\ Clean(r[n].code)
  <2> DEFINE code == saved[n].code
             c == r[n].code
             s == src[n]
  <2>1. /\ SpanFrom(code, s) /\ Clean(code) /\ IsSequence(c) /\ DOMAIN c = DOMAIN code
        /\ \A p \in DOMAIN code : c[p].id = code[p].id
    BY <1>1, <1>2
  <2>2. \A p \in DOMAIN code : \E a \in DOMAIN s : InstrFrom(c[p], s[a])
    BY <1>3
  <2> HIDE DEF code, c, s
  <2>3. SpanFrom(c, s) /\ (Clean(code) => Clean(c))
    BY <2>1, <2>2, SameIds
  <2> QED BY <2>1, <2>3 DEF c, s
<1>5. BlockFrom(r, src) /\ CleanBlock(r)
  BY <1>1, <1>2, <1>4 DEF BlockFrom, CleanBlock
<1>6. \A n \in DOMAIN r : \A p \in DOMAIN r[n].code : InBlock(r[n].code[p], b)
  BY <1>2
<1>7. ASSUME NEW n \in DOMAIN b, NEW p \in DOMAIN b[n].code
      PROVE  \E m \in DOMAIN r : \E q \in DOMAIN r[m].code : r[m].code[q].id = b[n].code[p].id
  <2> DEFINE i == b[n].code[p]
  <2>1. PICK a \in DOMAIN src[n] : InstrFrom(i, src[n][a])
    BY <1>1 DEF SpanFrom
  <2> DEFINE s == src[n][a]
             old == PiecesOf(saved[n].code, s)
             new == PiecesOf(b[n].code, s)
  <2>2. ~Inserted(i) /\ i.id[1] = s.id[1] /\ i.id = <<s.id[1], i.id[2]>>
    BY <1>1, <2>1 DEF Clean, InstrFrom
  <2>3. i.id[2] \in new
    BY <2>2, PiecesAre
  <2>4. old \in {{0}, 1 .. Glue} /\ new \in {{0}, 1 .. Glue}
    BY <1>1 DEF SpanFrom
  <2>5. 0 \notin 1 .. Glue /\ 1 \in 1 .. Glue
    BY DEF Glue, Elements
  <2>6. PICK o : o \in old
    BY <2>4, <2>5
  <2>7. o \in new
    <3>1. PICK q \in DOMAIN saved[n].code :
             /\ ~Inserted(saved[n].code[q]) /\ saved[n].code[q].id[1] = s.id[1]
             /\ saved[n].code[q].id[2] = o
      BY <2>6, PiecesAre
    <3> DEFINE j == saved[n].code[q]
    <3>2. j.id \in Held(saved)
      BY <1>1, CodeRange DEF BlockOK
    <3>3. PICK m, t : m \in DOMAIN b /\ t \in DOMAIN b[m].code /\ j.id = b[m].code[t].id
      BY <1>1, <3>2, CodeRange
    <3> DEFINE l == b[m].code[t]
    <3>4. PICK c \in DOMAIN src[m] : InstrFrom(l, src[m][c])
      BY <1>1, <3>3 DEF SpanFrom
    <3>5. l.id[1] = src[m][c].id[1] /\ l.id = j.id
      BY <3>3, <3>4 DEF InstrFrom
    <3>6. src[n][a].id[1] = src[m][c].id[1]
      BY <3>1, <3>5
    <3>7. n = m
      BY <1>1, <3>3, <3>6 DEF NumbersIn
    <3>8. ~Inserted(l) /\ l.id[1] = s.id[1] /\ l.id[2] = o
      BY <1>1, <3>1, <3>3, <3>5 DEF Clean
    <3> QED BY <3>3, <3>7, <3>8, PiecesAre
  <2>8. i.id[2] \in old
    <3> HIDE DEF i, s, old, new
    <3> QED BY <2>3, <2>4, <2>5, <2>6, <2>7
  <2>9. PICK q \in DOMAIN saved[n].code :
           saved[n].code[q].id[1] = s.id[1] /\ saved[n].code[q].id[2] = i.id[2]
    BY <2>8, PiecesAre
  <2>10. saved[n].code[q].id = i.id
    <3>1. PICK c \in DOMAIN src[n] : InstrFrom(saved[n].code[q], src[n][c])
      BY <1>1 DEF SpanFrom
    <3>2. saved[n].code[q].id = <<src[n][c].id[1], saved[n].code[q].id[2]>>
      BY <3>1 DEF InstrFrom
    <3>3. saved[n].code[q].id[1] = src[n][c].id[1]
      BY <3>1 DEF InstrFrom
    <3> QED BY <2>2, <2>9, <3>2, <3>3
  <2> QED BY <1>1, <1>2, <2>10
<1> QED BY <1>5, <1>6, <1>7 DEF r

\* No two instructions of a block have the same id.
LEMMA UniqueInBlock ==
  ASSUME NEW src, NumbersIn(src), NEW b, BlockFrom(b, src),
         NEW n \in DOMAIN b, NEW m \in DOMAIN b,
         NEW p \in DOMAIN b[n].code, NEW q \in DOMAIN b[m].code,
         b[n].code[p].id = b[m].code[q].id
  PROVE  n = m /\ p = q
<1> DEFINE i == b[n].code[p]
           j == b[m].code[q]
<1>1. SpanFrom(b[n].code, src[n]) /\ SpanFrom(b[m].code, src[m]) /\ n \in DOMAIN src /\ m \in DOMAIN src
  BY DEF BlockFrom
<1>2. PICK a \in DOMAIN src[n] : InstrFrom(i, src[n][a])
  BY <1>1 DEF SpanFrom
<1>3. PICK c \in DOMAIN src[m] : InstrFrom(j, src[m][c])
  BY <1>1 DEF SpanFrom
<1>4. i.id[1] = src[n][a].id[1] /\ j.id[1] = src[m][c].id[1] /\ i.id = j.id
  BY <1>2, <1>3 DEF InstrFrom
<1>5. n = m /\ a = c
  BY <1>1, <1>4 DEF NumbersIn
<1>6. Rank(i) = Rank(j) /\ Rank(i) \in Nat
  BY <1>2, <1>4, PieceOrInserted DEF Rank
<1>7. a \in Int /\ p \in Int /\ q \in Int
  <2>1. IsSequence(b[n].code) /\ IsSequence(b[m].code) /\ IsSequence(src[n])
    BY <1>1 DEF SpanFrom, NumbersIn
  <2> QED BY <2>1, SequenceDomain
<1>8. ~(p < q)
  <2>1. p < q => Follows(i, j, src[n])
    BY <1>1, <1>5 DEF SpanFrom
  <2> HIDE DEF i, j
  <2>2. p < q => a < a \/ Rank(i) < Rank(j)
    BY <1>4, <1>5, <2>1 DEF Follows
  <2> QED BY <1>6, <1>7, <2>2
<1>9. ~(q < p)
  <2>1. q < p => Follows(j, i, src[n])
    BY <1>1, <1>5 DEF SpanFrom
  <2> HIDE DEF i, j
  <2>2. q < p => a < a \/ Rank(j) < Rank(i)
    BY <1>4, <1>5, <2>1 DEF Follows
  <2> QED BY <1>6, <1>7, <2>2
<1> QED BY <1>5, <1>7, <1>8, <1>9

\* No rollback meets an instruction that has been erased: what the snapshot of the
\* block points to is there.
Restorable ==
    pc = "spans" /\ span > Len(blocks[block]) /\ Rejected => Held(snapshot) \subseteq Held(blocks[block])

\* The snapshot of the next block is made from the source.
LEMMA EndHints ==
  ASSUME IInv, HintInv, pc = "spans", EndOfBlock, DOMAIN blocks' = DOMAIN blocks,
         \A k \in DOMAIN blocks : BlockFrom(blocks'[k], source.blocks[k]) /\ CleanBlock(blocks'[k]),
         Closed(CodeOf(blocks'))
  PROVE  HintInv'
<1>1. /\ source' = source
      /\ \/ pc' = "spans" /\ block' \in DOMAIN blocks /\ snapshot' = blocks[block']
         \/ pc' \in {"nops", "done"}
  BY EndEffect DEF IInv
<1>2. /\ source \in Sources /\ DOMAIN blocks = DOMAIN source.blocks
      /\ \A k \in DOMAIN blocks : BlockFrom(blocks[k], source.blocks[k]) /\ CleanBlock(blocks[k])
  BY DEF HintInv
<1>3. pc' = "spans" => BlockFrom(snapshot', source.blocks[block']) /\ CleanBlock(snapshot')
  BY <1>1, <1>2
<1> QED BY <1>1, <1>2, <1>3 DEF HintInv

\* A block that is kept stays.
LEMMA KeepHints == ASSUME IInv, HintInv, Keep PROVE HintInv'
<1>1. pc = "spans" /\ EndOfBlock /\ blocks' = blocks
  BY DEF Keep
<1>2. /\ \A k \in DOMAIN blocks : BlockFrom(blocks[k], source.blocks[k]) /\ CleanBlock(blocks[k])
      /\ Closed(CodeOf(blocks))
  BY <1>1 DEF HintInv
<1> QED BY <1>1, <1>2, EndHints

\* A block that is rolled back is made from the source, and takes no value away that
\* another block uses.
LEMMA RollBackHints == ASSUME IInv, HintInv, Restorable, RollBack PROVE HintInv'
<1> DEFINE r == RestoreBlock(blocks[block], snapshot)
           src == source.blocks
<1>1. pc = "spans" /\ EndOfBlock /\ Rejected /\ span > Len(blocks[block])
  BY DEF RollBack
<1>2. /\ block \in DOMAIN blocks /\ BlockOK(snapshot)
      /\ DOMAIN blocks = DOMAIN src /\ Closed(CodeOf(blocks))
      /\ \A k \in DOMAIN blocks : BlockFrom(blocks[k], src[k]) /\ CleanBlock(blocks[k])
      /\ BlockFrom(snapshot, src[block]) /\ CleanBlock(snapshot)
  BY <1>1 DEF IInv, ShapeInv, HintInv
<1>3. Held(snapshot) \subseteq Held(blocks[block])
  BY <1>1 DEF Restorable
<1>4. NumbersIn(src[block])
  <2>1. block \in DOMAIN src /\ source \in Sources
    BY <1>2 DEF HintInv
  <2> QED BY <2>1, SourceNumbers DEF NumbersIn
<1>5. /\ BlockFrom(r, src[block]) /\ CleanBlock(r)
      /\ \A n \in DOMAIN r : \A p \in DOMAIN r[n].code : InBlock(r[n].code[p], blocks[block])
      /\ \A n \in DOMAIN blocks[block] : \A p \in DOMAIN blocks[block][n].code :
            \E m \in DOMAIN r : \E q \in DOMAIN r[m].code : r[m].code[q].id = blocks[block][n].code[p].id
  <2> HIDE DEF src
  <2> QED BY <1>2, <1>3, <1>4, RestoredFrom
<1>6. blocks' = [blocks EXCEPT ![block] = r]
  BY DEF RollBack
<1> HIDE DEF r, src
<1>7. /\ DOMAIN blocks' = DOMAIN blocks /\ blocks'[block] = r
      /\ \A k \in DOMAIN blocks : k # block => blocks'[k] = blocks[k]
  BY <1>2, <1>6
<1>8. Closed(CodeOf(blocks'))
  <2> DEFINE was == AllIds(CodeOf(blocks))
             now == AllIds(CodeOf(blocks'))
             b == blocks'
  <2>1. /\ \A o : o \in was <=> \E k \in DOMAIN blocks : \E n \in DOMAIN blocks[k] :
                                   \E p \in DOMAIN blocks[k][n].code : o = blocks[k][n].code[p].id
        /\ \A k \in DOMAIN blocks : \A n \in DOMAIN blocks[k] : \A p \in DOMAIN blocks[k][n].code :
              Range(blocks[k][n].code[p].operands) \subseteq was
    BY <1>2, IdsOf
  <2>2. /\ \A o : o \in now <=> \E k \in DOMAIN b : \E n \in DOMAIN b[k] :
                                   \E p \in DOMAIN b[k][n].code : o = b[k][n].code[p].id
        /\ Closed(CodeOf(b)) <=>
              \A k \in DOMAIN b : \A n \in DOMAIN b[k] : \A p \in DOMAIN b[k][n].code :
                 Range(b[k][n].code[p].operands) \subseteq now
    BY IdsOf
  <2> HIDE DEF was, now
  <2>3. DOMAIN b = DOMAIN blocks /\ b[block] = r /\ \A k \in DOMAIN blocks : k # block => b[k] = blocks[k]
    BY <1>7
  <2> HIDE DEF b
  <2>4. ASSUME NEW o \in was PROVE o \in now
    <3>1. PICK k, n, p : /\ k \in DOMAIN blocks /\ n \in DOMAIN blocks[k]
                         /\ p \in DOMAIN blocks[k][n].code /\ o = blocks[k][n].code[p].id
      BY <2>1
    <3>2. CASE k # block
      <4>1. k \in DOMAIN b /\ b[k] = blocks[k]
        BY <2>3, <3>1, <3>2
      <4> QED BY <2>2, <3>1, <4>1
    <3>3. CASE k = block
      <4>1. PICK m, q : m \in DOMAIN r /\ q \in DOMAIN r[m].code /\ r[m].code[q].id = o
        BY <1>5, <3>1, <3>3
      <4> QED BY <1>2, <2>2, <2>3, <4>1
    <3> QED BY <3>2, <3>3
  <2>5. ASSUME NEW k \in DOMAIN b, NEW n \in DOMAIN b[k], NEW p \in DOMAIN b[k][n].code
        PROVE  Range(b[k][n].code[p].operands) \subseteq now
    <3>1. CASE k # block
      <4>1. k \in DOMAIN blocks /\ b[k] = blocks[k]
        BY <2>3, <3>1
      <4>2. Range(blocks[k][n].code[p].operands) \subseteq was
        BY <2>1, <4>1
      <4> QED BY <2>4, <4>1, <4>2
    <3>2. CASE k = block
      <4>1. InBlock(b[k][n].code[p], blocks[block])
        BY <1>5, <2>3, <3>2
      <4>2. PICK m, q : /\ m \in DOMAIN blocks[block] /\ q \in DOMAIN blocks[block][m].code
                        /\ b[k][n].code[p] = blocks[block][m].code[q]
        BY <4>1 DEF InBlock
      <4>3. Range(blocks[block][m].code[q].operands) \subseteq was
        BY <1>2, <2>1, <4>2
      <4> QED BY <2>4, <4>2, <4>3
    <3> QED BY <3>1, <3>2
  <2>6. Closed(CodeOf(b))
    BY <2>2, <2>5
  <2> QED BY <2>6 DEF b
<1>9. \A k \in DOMAIN blocks : BlockFrom(blocks'[k], src[k]) /\ CleanBlock(blocks'[k])
  BY <1>2, <1>5, <1>7
<1> QED BY <1>1, <1>7, <1>8, <1>9, EndHints DEF src

\* Delaying memory stages, rolled back or not, leaves every span made from its own
\* in the source.
LEMMA InsertNopsHints == ASSUME IInv, HintInv, InsertNops PROVE HintInv'
<1> DEFINE paced == [k \in DOMAIN blocks |-> [n \in DOMAIN blocks[k] |->
                        [blocks[k][n] EXCEPT !.code = Paced(@)]]]
           back == [k \in DOMAIN blocks |-> RestoreBlock(paced[k], blocks[k])]
           src == source.blocks
<1>1. /\ pc = "nops" /\ pc' = "done" /\ source' = source
      /\ blocks' = IF source.rejectsNops THEN back ELSE paced
  BY DEF InsertNops
<1>2. /\ source \in Sources /\ DOMAIN blocks = DOMAIN src /\ Closed(CodeOf(blocks))
      /\ \A k \in DOMAIN blocks : /\ BlockFrom(blocks[k], src[k]) /\ CleanBlock(blocks[k])
                                  /\ BlockOK(blocks[k]) /\ DOMAIN blocks[k] = DOMAIN src[k]
                                  /\ IsSequence(blocks[k])
  BY <1>1 DEF IInv, ShapeInv, HintInv, BlockFrom
<1>3. \A k \in DOMAIN src : NumbersIn(src[k])
  BY <1>2, SourceNumbers DEF NumbersIn
<1>4. ASSUME NEW k \in DOMAIN blocks, NEW n \in DOMAIN blocks[k]
      PROVE  paced[k][n].code = Paced(blocks[k][n].code)
  <2> DEFINE c == Paced(blocks[k][n].code)
             g == blocks[k][n].groups
             t == paced[k][n]
  <2>1. t = [blocks[k][n] EXCEPT !.code = c]
    OBVIOUS
  <2>2. SpanOK(blocks[k][n])
    BY <1>2 DEF BlockOK
  <2> HIDE DEF c, t
  <2>3. t = [code |-> c, groups |-> g]
    BY ONLY <2>1, <2>2, NewCode
  <2> HIDE DEF g
  <2>4. t.code = c
    BY ONLY <2>3, Fields
  <2> QED BY <2>4 DEF c, t
<1>5. DOMAIN paced = DOMAIN blocks /\ \A k \in DOMAIN blocks : DOMAIN paced[k] = DOMAIN blocks[k]
  OBVIOUS
<1>6. \A k \in DOMAIN blocks : IsSequence(paced[k])
  <2> TAKE k \in DOMAIN blocks
  <2>1. Len(blocks[k]) \in Nat /\ DOMAIN blocks[k] = 1 .. Len(blocks[k])
    BY <1>2, SequenceDomain
  <2>2. paced[k] = [n \in 1 .. Len(blocks[k]) |-> paced[k][n]]
    BY <2>1
  <2> HIDE DEF paced
  <2> QED BY <2>1, <2>2, MakeSequence
<1> HIDE DEF paced
<1>7. \A k \in DOMAIN blocks : \A n \in DOMAIN blocks[k] :
         NumbersOK(src[k][n]) /\ SpanFrom(blocks[k][n].code, src[k][n]) /\ Clean(blocks[k][n].code)
  BY <1>2, <1>3 DEF BlockFrom, CleanBlock, NumbersIn
<1> HIDE DEF src
<1>8. ASSUME NEW k \in DOMAIN blocks, NEW n \in DOMAIN blocks[k]
      PROVE  /\ SpanFrom(paced[k][n].code, src[k][n])
             /\ \A p \in DOMAIN paced[k][n].code :
                   \/ paced[k][n].code[p] \in Range(blocks[k][n].code)
                   \/ Range(paced[k][n].code[p].operands) = {}
             /\ \A p \in DOMAIN blocks[k][n].code :
                   \E q \in DOMAIN paced[k][n].code : paced[k][n].code[q] = blocks[k][n].code[p]
  <2> DEFINE s == blocks[k][n].code
             v == Paced(s)
  <2>1. NumbersOK(src[k][n]) /\ SpanFrom(s, src[k][n]) /\ Clean(s) /\ IsSequence(s)
    BY <1>7 DEF SpanFrom
  <2>2. paced[k][n].code = v
    BY <1>4
  <2> HIDE DEF s
  <2>3. SpanFrom(v, src[k][n]) /\ \A p \in DOMAIN v : v[p] \in Range(s) \/ Range(v[p].operands) = {}
    BY ONLY <2>1, PacedFrom
  <2>4. Range(s) \subseteq Range(v)
    BY ONLY <2>1, PacedRange
  <2> HIDE DEF v
  <2>5. \A p \in DOMAIN s : \E q \in DOMAIN v : v[q] = s[p]
    BY <2>4 DEF Range
  <2> QED BY <2>2, <2>3, <2>5 DEF s
<1>9. \A k \in DOMAIN blocks : BlockFrom(paced[k], src[k])
  BY <1>2, <1>5, <1>6, <1>8 DEF BlockFrom
<1>10. CASE blocks' = paced
  <2> DEFINE was == AllIds(CodeOf(blocks))
             now == AllIds(CodeOf(paced))
  <2>1. /\ \A o : o \in was <=> \E k \in DOMAIN blocks : \E n \in DOMAIN blocks[k] :
                                   \E p \in DOMAIN blocks[k][n].code : o = blocks[k][n].code[p].id
        /\ \A k \in DOMAIN blocks : \A n \in DOMAIN blocks[k] : \A p \in DOMAIN blocks[k][n].code :
              Range(blocks[k][n].code[p].operands) \subseteq was
    BY <1>2, IdsOf
  <2>2. /\ \A o : o \in now <=> \E k \in DOMAIN paced : \E n \in DOMAIN paced[k] :
                                   \E p \in DOMAIN paced[k][n].code : o = paced[k][n].code[p].id
        /\ Closed(CodeOf(paced)) <=>
              \A k \in DOMAIN paced : \A n \in DOMAIN paced[k] : \A p \in DOMAIN paced[k][n].code :
                 Range(paced[k][n].code[p].operands) \subseteq now
    BY IdsOf
  <2> HIDE DEF was, now
  <2>3. ASSUME NEW o \in was PROVE o \in now
    <3>1. PICK k, n, p : /\ k \in DOMAIN blocks /\ n \in DOMAIN blocks[k]
                         /\ p \in DOMAIN blocks[k][n].code /\ o = blocks[k][n].code[p].id
      BY <2>1
    <3>2. PICK q \in DOMAIN paced[k][n].code : paced[k][n].code[q] = blocks[k][n].code[p]
      BY <1>8, <3>1
    <3> QED BY <1>5, <2>2, <3>1, <3>2
  <2>4. ASSUME NEW k \in DOMAIN paced, NEW n \in DOMAIN paced[k], NEW p \in DOMAIN paced[k][n].code
        PROVE  Range(paced[k][n].code[p].operands) \subseteq now
    <3> DEFINE i == paced[k][n].code[p]
    <3>1. k \in DOMAIN blocks /\ n \in DOMAIN blocks[k]
      BY <1>5
    <3>2. i \in Range(blocks[k][n].code) \/ Range(i.operands) = {}
      BY <1>8, <3>1
    <3>3. CASE i \in Range(blocks[k][n].code)
      <4>1. Range(i.operands) \subseteq was
        BY <2>1, <3>1, <3>3 DEF Range
      <4> QED BY <2>3, <4>1
    <3> QED BY <3>2, <3>3
  <2>5. Closed(CodeOf(paced))
    BY <2>2, <2>4
  <2> QED BY <1>1, <1>2, <1>5, <1>9, <1>10, <2>5 DEF HintInv, src
<1>11. CASE blocks' = back
  <2>1. ASSUME NEW k \in DOMAIN blocks
        PROVE  /\ IsSequence(back[k]) /\ DOMAIN back[k] = DOMAIN blocks[k]
               /\ \A n \in DOMAIN blocks[k] : back[k][n].code = blocks[k][n].code
    <3> DEFINE b == blocks[k]
               c == paced[k]
               r == RestoreBlock(c, b)
    <3>1. /\ BlockFrom(c, src[k]) /\ IsSequence(c) /\ DOMAIN c = DOMAIN b /\ BlockOK(b) /\ IsSequence(b)
          /\ NumbersIn(src[k])
      BY <1>2, <1>3, <1>5, <1>6, <1>9
    <3>2. /\ \A n \in DOMAIN b : \A p \in DOMAIN b[n].code :
                \E q \in DOMAIN c[n].code : c[n].code[q] = b[n].code[p]
      BY <1>8
    <3>3. back[k] = r
      OBVIOUS
    <3> HIDE DEF b, c
    <3>4. /\ \A n \in DOMAIN c : IsSequence(c[n].code)
          /\ \A n \in DOMAIN b : IsSequence(b[n].code)
      BY <3>1 DEF BlockFrom, SpanFrom, BlockOK, SpanOK
    <3>5. Held(b) \subseteq Held(c)
      <4> SUFFICES ASSUME NEW o \in Held(b) PROVE o \in Held(c)
        OBVIOUS
      <4>1. PICK n, p : n \in DOMAIN b /\ p \in DOMAIN b[n].code /\ o = b[n].code[p].id
        BY <3>1, <3>4, CodeRange
      <4>2. PICK q \in DOMAIN c[n].code : c[n].code[q] = b[n].code[p]
        BY <3>2, <4>1
      <4> QED BY <3>1, <3>4, <4>1, <4>2, CodeRange
    <3>6. /\ IsSequence(r) /\ DOMAIN r = DOMAIN b
          /\ \A n \in DOMAIN b :
                /\ IsSequence(r[n].code) /\ DOMAIN r[n].code = DOMAIN b[n].code
                /\ \A p \in DOMAIN b[n].code :
                      InBlock(r[n].code[p], c) /\ r[n].code[p].id = b[n].code[p].id
      BY ONLY <3>1, <3>4, <3>5, RestoredCode
    <3> HIDE DEF r
    <3>7. ASSUME NEW n \in DOMAIN b, NEW p \in DOMAIN b[n].code
          PROVE  r[n].code[p] = b[n].code[p]
      <4>1. PICK m, t : m \in DOMAIN c /\ t \in DOMAIN c[m].code /\ r[n].code[p] = c[m].code[t]
        BY <3>6 DEF InBlock
      <4>2. PICK q \in DOMAIN c[n].code : c[n].code[q] = b[n].code[p]
        BY <3>2
      <4>3. n \in DOMAIN c /\ c[m].code[t].id = c[n].code[q].id
        BY <3>1, <3>6, <4>1, <4>2
      <4>4. m = n /\ t = q
        BY ONLY <3>1, <4>1, <4>2, <4>3, UniqueInBlock
      <4> QED BY <4>1, <4>2, <4>4
    <3>8. ASSUME NEW n \in DOMAIN b PROVE r[n].code = b[n].code
      <4> DEFINE s == b[n].code
                 w == r[n].code
      <4>1. IsSequence(w) /\ IsSequence(s) /\ DOMAIN w = DOMAIN s /\ \A p \in DOMAIN s : w[p] = s[p]
        BY <3>4, <3>6, <3>7
      <4> HIDE DEF s, w
      <4>2. w = [p \in 1 .. Len(w) |-> w[p]] /\ s = [p \in 1 .. Len(s) |-> s[p]]
            /\ DOMAIN w = 1 .. Len(w) /\ DOMAIN s = 1 .. Len(s)
        BY <4>1, SequenceDomain
      <4>3. w = s
        BY <4>1, <4>2
      <4> QED BY <4>3 DEF s, w
    <3> QED BY <3>3, <3>6, <3>8 DEF b
  <2>2. DOMAIN back = DOMAIN blocks
    OBVIOUS
  <2> HIDE DEF back
  <2>3. \A k \in DOMAIN blocks : BlockFrom(back[k], src[k])
    BY <1>2, <2>1 DEF BlockFrom
  <2>4. CodeOf(back) = CodeOf(blocks)
    BY <2>1, <2>2 DEF CodeOf
  <2> QED BY <1>1, <1>2, <1>11, <2>2, <2>3, <2>4 DEF HintInv, src
<1> QED BY <1>1, <1>10, <1>11

\* The invariant is inductive, as long as no rollback meets an erased instruction.
LEMMA NextHints == IInv /\ HintInv /\ Restorable /\ [Next]_vars => HintInv'
<1>1. ASSUME HintInv, UNCHANGED vars PROVE HintInv'
  BY <1>1 DEF vars, HintInv
<1> QED BY <1>1, DeclareHints, KeepHints, RollBackHints, InsertNopsHints DEF Next

-----------------------------------------------------------------------------
(* What the invariant says.                                                *)

\* Every span has its instructions, in their order.
LEMMA HintsSay == HintInv => OnlyHints
<1> SUFFICES ASSUME HintInv, NEW k \in DOMAIN blocks
             PROVE  /\ DOMAIN blocks[k] = DOMAIN source.blocks[k]
                    /\ \A n \in DOMAIN blocks[k] : SameWork(blocks[k][n].code, source.blocks[k][n])
  BY DEF OnlyHints
<1>1. /\ BlockFrom(blocks[k], source.blocks[k]) /\ k \in DOMAIN source.blocks /\ source \in Sources
  BY DEF HintInv
<1>2. DOMAIN blocks[k] = DOMAIN source.blocks[k]
  BY <1>1 DEF BlockFrom
<1>3. ASSUME NEW n \in DOMAIN blocks[k]
      PROVE  SameWork(blocks[k][n].code, source.blocks[k][n])
  <2> DEFINE code == blocks[k][n].code
             src == source.blocks[k][n]
  <2>1. SpanFrom(code, src) /\ NumbersOK(src)
    BY <1>1, <1>2, SourceNumbers DEF BlockFrom
  <2> HIDE DEF code, src
  <2>2. ASSUME NEW p \in Own(code)
        PROVE  /\ p \in DOMAIN code
               /\ \E a \in DOMAIN src : /\ InstrFrom(code[p], src[a]) /\ code[p].id[1] = src[a].id[1]
                                        /\ StemsFrom(code[p], src[a]) /\ Rank(code[p]) = code[p].id[2]
                                        /\ Stem(code[p], src) = a
    <3> DEFINE i == code[p]
    <3>1. p \in DOMAIN code /\ ~Inserted(i)
      BY DEF Own
    <3>2. PICK a \in DOMAIN src : InstrFrom(i, src[a])
      BY <2>1, <3>1 DEF SpanFrom
    <3> HIDE DEF i
    <3>3. i.id[1] = src[a].id[1] /\ StemsFrom(i, src[a]) /\ Rank(i) = i.id[2]
      BY <3>1, <3>2, PieceOrInserted
    <3>4. \A b \in DOMAIN src : src[b].id[1] = i.id[1] <=> b = a
      BY <2>1, <3>3 DEF NumbersOK
    <3>5. Stem(i, src) = a
      BY <3>4 DEF Stem
    <3> QED BY <3>1, <3>2, <3>3, <3>5 DEF i
  <2>3. \A p \in Own(code) : \E a \in DOMAIN src : StemsFrom(code[p], src[a])
    BY <2>2
  <2>4. ASSUME NEW p \in Own(code), NEW q \in Own(code), p < q
        PROVE  InOrder(code[p], code[q], src)
    <3>1. PICK a \in DOMAIN src : /\ code[p].id[1] = src[a].id[1]
                                  /\ Rank(code[p]) = code[p].id[2] /\ Stem(code[p], src) = a
      BY <2>2
    <3>2. PICK b \in DOMAIN src : /\ code[q].id[1] = src[b].id[1]
                                  /\ Rank(code[q]) = code[q].id[2] /\ Stem(code[q], src) = b
      BY <2>2
    <3>3. Follows(code[p], code[q], src)
      BY <2>1, <2>2, <2>4 DEF SpanFrom
    <3>4. a < b \/ (a = b /\ Rank(code[p]) < Rank(code[q]))
      BY <3>1, <3>2, <3>3 DEF Follows
    <3> QED BY <3>1, <3>2, <3>4 DEF InOrder
  <2>5. \A a \in DOMAIN src : PiecesOf(code, src[a]) \in {{0}, 1 .. Glue}
    BY <2>1 DEF SpanFrom
  <2>6. SameWork(code, src)
    BY <2>3, <2>4, <2>5 DEF SameWork
  <2> QED BY <2>6 DEF code, src
<1> QED BY <1>2, <1>3

\* The code of the function, one place at a time.
LEMMA CodePlaces ==
  ASSUME NEW x \in Places(AllCode)
  PROVE  \E k \in DOMAIN blocks : \E n \in DOMAIN blocks[k] : \E p \in DOMAIN blocks[k][n].code :
            x = <<k, n, p>> /\ At(AllCode, x) = blocks[k][n].code[p]
<1> DEFINE c == AllCode
<1>1. /\ DOMAIN c = DOMAIN blocks /\ \A k \in DOMAIN blocks : DOMAIN c[k] = DOMAIN blocks[k]
      /\ \A k \in DOMAIN blocks : \A n \in DOMAIN blocks[k] : c[k][n] = blocks[k][n].code
  BY DEF AllCode
<1> HIDE DEF c
<1>2. PICK k, n, p : /\ k \in DOMAIN c /\ n \in DOMAIN c[k] /\ p \in DOMAIN c[k][n]
                     /\ x = <<k, n, p>>
  <2>1. x \in Places(c)
    BY DEF c
  <2> QED BY <2>1, PlacesOf
<1>3. At(c, x) = c[k][n][p]
  BY <1>2, AtOf
<1>4. /\ k \in DOMAIN blocks /\ n \in DOMAIN blocks[k] /\ c[k][n] = blocks[k][n].code
  BY <1>1, <1>2
<1>5. At(c, x) = blocks[k][n].code[p] /\ p \in DOMAIN blocks[k][n].code
  BY <1>2, <1>3, <1>4
<1> QED BY <1>2, <1>4, <1>5 DEF c

\* Every instruction uses what it did, and that is there.
LEMMA UsesSay == HintInv => KeepsUses
<1> SUFFICES ASSUME HintInv PROVE KeepsUses
  OBVIOUS
<1> DEFINE src == source.blocks
<1>1. AllCode = CodeOf(blocks)
  BY DEF AllCode, CodeOf
<1>2. Closed(AllCode)
  BY <1>1 DEF HintInv
<1>3. ASSUME NEW x \in Places(AllCode), NEW y \in Places(src),
             ~Inserted(At(AllCode, x)), At(AllCode, x).id[1] = At(src, y).id[1]
      PROVE  SameUses(At(AllCode, x), At(src, y))
  <2> DEFINE i == At(AllCode, x)
             s == At(src, y)
  <2>1. PICK k, n, p : /\ k \in DOMAIN blocks /\ n \in DOMAIN blocks[k] /\ p \in DOMAIN blocks[k][n].code
                       /\ i = blocks[k][n].code[p]
    BY CodePlaces
  <2>2. PICK l, m, b : /\ l \in DOMAIN src /\ m \in DOMAIN src[l] /\ b \in DOMAIN src[l][m]
                       /\ y = <<l, m, b>>
    <3> HIDE DEF src
    <3> QED BY PlacesOf
  <2>3. s = src[l][m][b]
    BY <2>2, AtOf
  <2>4. ~Inserted(i) /\ i.id[1] = s.id[1]
    BY <1>3
  <2>5. /\ source \in Sources /\ k \in DOMAIN src /\ n \in DOMAIN src[k]
        /\ SpanFrom(blocks[k][n].code, src[k][n])
    BY <2>1 DEF HintInv, BlockFrom
  <2> HIDE DEF i, s
  <2>6. PICK a \in DOMAIN src[k][n] : InstrFrom(i, src[k][n][a])
    BY <2>1, <2>5 DEF SpanFrom
  <2>7. i.id[1] = src[k][n][a].id[1] /\ SameUses(i, src[k][n][a])
    <3> HIDE DEF src
    <3> QED BY <2>4, <2>6, PieceOrInserted
  <2>8. src[k][n][a].id[1] = src[l][m][b].id[1]
    BY <2>3, <2>4, <2>7
  <2>9. k = l /\ n = m /\ a = b
    BY <2>2, <2>5, <2>8, SourceNumbers
  <2> QED BY <2>3, <2>7, <2>9 DEF i, s
<1> QED BY <1>2, <1>3 DEF KeepsUses

\* No two instructions of the function have the same id.
LEMMA DistinctSay == HintInv => Distinct(AllCode)
<1> SUFFICES ASSUME HintInv, NEW x \in Places(AllCode), NEW y \in Places(AllCode),
                    At(AllCode, x).id = At(AllCode, y).id
             PROVE  x = y
  BY DEF Distinct
<1> DEFINE src == source.blocks
           i == At(AllCode, x)
           j == At(AllCode, y)
<1>1. PICK k, n, p : /\ k \in DOMAIN blocks /\ n \in DOMAIN blocks[k] /\ p \in DOMAIN blocks[k][n].code
                     /\ x = <<k, n, p>> /\ i = blocks[k][n].code[p]
  BY CodePlaces
<1>2. PICK l, m, q : /\ l \in DOMAIN blocks /\ m \in DOMAIN blocks[l] /\ q \in DOMAIN blocks[l][m].code
                     /\ y = <<l, m, q>> /\ j = blocks[l][m].code[q]
  BY CodePlaces
<1>3. i.id = j.id
  OBVIOUS
<1>4. /\ source \in Sources /\ k \in DOMAIN src /\ l \in DOMAIN src
      /\ BlockFrom(blocks[k], src[k]) /\ BlockFrom(blocks[l], src[l])
  BY <1>1, <1>2 DEF HintInv
<1>5. /\ n \in DOMAIN src[k] /\ m \in DOMAIN src[l]
      /\ SpanFrom(blocks[k][n].code, src[k][n]) /\ SpanFrom(blocks[l][m].code, src[l][m])
  BY <1>1, <1>2, <1>4 DEF BlockFrom
<1> HIDE DEF i, j
<1>6. PICK a \in DOMAIN src[k][n] : InstrFrom(i, src[k][n][a])
  BY <1>1, <1>5 DEF SpanFrom
<1>7. PICK b \in DOMAIN src[l][m] : InstrFrom(j, src[l][m][b])
  BY <1>2, <1>5 DEF SpanFrom
<1>8. src[k][n][a].id[1] = src[l][m][b].id[1]
  BY <1>3, <1>6, <1>7 DEF InstrFrom
<1>9. k = l
  BY <1>4, <1>5, <1>8, SourceNumbers
<1>10. NumbersIn(src[k])
  BY <1>4, SourceNumbers DEF NumbersIn
<1>11. blocks[k][n].code[p].id = blocks[k][m].code[q].id
  BY <1>1, <1>2, <1>3, <1>9
<1>12. n = m /\ p = q
  <2> HIDE DEF src
  <2> QED BY <1>1, <1>2, <1>4, <1>9, <1>10, <1>11, UniqueInBlock
<1> QED BY <1>1, <1>2, <1>9, <1>12

\* A block without packed operations is never split, so it can be rolled back.
LEMMA Unpacked == RefusedUnpacked /\ IInv /\ HintInv => Restorable
<1> SUFFICES ASSUME RefusedUnpacked, IInv, HintInv, pc = "spans", Rejected,
                    NEW o \in Held(snapshot)
             PROVE  o \in Held(blocks[block])
  BY DEF Restorable
<1> DEFINE src == source.blocks[block]
           b == blocks[block]
<1>1. /\ block \in DOMAIN blocks /\ block \in source.rejects /\ source \in Sources
      /\ block \in DOMAIN source.blocks /\ BlockFrom(b, src) /\ CleanBlock(b)
      /\ BlockFrom(snapshot, src) /\ CleanBlock(snapshot)
  BY DEF IInv, ShapeInv, HintInv, Rejected
<1>2. \A n \in DOMAIN src : \A a \in DOMAIN src[n] : src[n][a].op # "packed"
  BY <1>1 DEF RefusedUnpacked
<1> HIDE DEF src, b
<1>3. /\ IsSequence(b) /\ \A n \in DOMAIN b : IsSequence(b[n].code)
      /\ IsSequence(snapshot) /\ \A n \in DOMAIN snapshot : IsSequence(snapshot[n].code)
  BY <1>1 DEF BlockFrom, SpanFrom
<1>4. PICK n, p : n \in DOMAIN snapshot /\ p \in DOMAIN snapshot[n].code /\ o = snapshot[n].code[p].id
  BY <1>3, CodeRange
<1>5. /\ n \in DOMAIN src /\ n \in DOMAIN b
      /\ SpanFrom(snapshot[n].code, src[n]) /\ SpanFrom(b[n].code, src[n])
      /\ Clean(snapshot[n].code) /\ Clean(b[n].code)
  BY <1>1, <1>4 DEF BlockFrom, CleanBlock
<1>6. ASSUME NEW i, ~Inserted(i), NEW a \in DOMAIN src[n], InstrFrom(i, src[n][a])
      PROVE  i.id = src[n][a].id
  <2>1. StemsFrom(i, src[n][a])
    BY <1>6, PieceOrInserted
  <2> QED BY <1>2, <1>5, <2>1 DEF StemsFrom
<1>7. PICK a \in DOMAIN src[n] : InstrFrom(snapshot[n].code[p], src[n][a])
  BY <1>4, <1>5 DEF SpanFrom
<1>8. o = src[n][a].id
  BY <1>4, <1>5, <1>6, <1>7 DEF Clean
<1>9. PICK x : x \in PiecesOf(b[n].code, src[n][a])
  <2>1. PiecesOf(b[n].code, src[n][a]) \in {{0}, 1 .. Glue} /\ 1 \in 1 .. Glue
    BY <1>5 DEF SpanFrom, Glue, Elements
  <2> QED BY <2>1
<1>10. PICK q \in DOMAIN b[n].code : ~Inserted(b[n].code[q]) /\ b[n].code[q].id[1] = src[n][a].id[1]
  BY <1>9, PiecesAre
<1>11. NumbersOK(src[n])
  BY <1>1, <1>5, SourceNumbers DEF src
<1>12. InstrFrom(b[n].code[q], src[n][a])
  <2>1. \E c \in DOMAIN src[n] : InstrFrom(b[n].code[q], src[n][c])
    BY <1>5 DEF SpanFrom
  <2> QED BY <1>10, <1>11, <2>1, StemOf
<1>13. b[n].code[q].id = o
  BY <1>6, <1>8, <1>10, <1>12
<1>14. o \in Held(b)
  BY <1>3, <1>5, <1>13, CodeRange
<1> QED BY <1>14 DEF b

-----------------------------------------------------------------------------
(* The ranges of the counters, and the theorems.                           *)

\* There is an id for every span that is counted, and the next span is one of the
\* block or past its end.
NumInv ==
    /\ pc \in {"spans", "nops", "done"}
    /\ block \in DOMAIN blocks /\ span \in 1 .. Len(blocks[block]) + 1
    /\ syncBefore \in Nat \ {0}
    /\ scheduled < syncBefore /\ scheduled + blockScheduled < syncID

\* The pass starts in front of the first span of the first block.
LEMMA InitNum == Init => NumInv
<1> SUFFICES ASSUME Init PROVE NumInv
  OBVIOUS
<1>1. IInv /\ HintInv
  BY InitInv, InitHints
<1>2. /\ block = 1 /\ span = 1 /\ syncID = 1 /\ syncBefore = 1
      /\ scheduled = 0 /\ blockScheduled = 0 /\ pc \in {"spans", "done"}
  BY DEF Init
<1>3. 1 \in DOMAIN blocks
  <2>1. /\ source.blocks # <<>> /\ IsSequence(source.blocks) /\ DOMAIN blocks = DOMAIN source.blocks
    BY <1>1, SourcesAssumption DEF HintInv
  <2>2. Len(source.blocks) \in Nat /\ DOMAIN source.blocks = 1 .. Len(source.blocks)
    BY <2>1, SequenceDomain
  <2>3. Len(source.blocks) # 0
    BY <2>1 DEF IsSequence
  <2> QED BY <2>1, <2>2, <2>3
<1>4. Len(blocks[1]) \in Nat
  BY <1>1, <1>3, SequenceDomain DEF HintInv, BlockFrom
<1> QED BY <1>2, <1>3, <1>4 DEF NumInv

\* No step changes how many spans a block has.
LEMMA SameShape ==
  ASSUME HintInv, HintInv', source' = source
  PROVE  /\ DOMAIN blocks' = DOMAIN blocks
         /\ \A k \in DOMAIN blocks : Len(blocks'[k]) = Len(blocks[k]) /\ Len(blocks[k]) \in Nat
<1>1. DOMAIN blocks' = DOMAIN blocks
  BY DEF HintInv
<1>2. ASSUME NEW k \in DOMAIN blocks
      PROVE  Len(blocks'[k]) = Len(blocks[k]) /\ Len(blocks[k]) \in Nat
  <2>1. /\ IsSequence(blocks[k]) /\ IsSequence(blocks'[k])
        /\ DOMAIN blocks'[k] = DOMAIN blocks[k]
    BY <1>1, <1>2 DEF HintInv, BlockFrom
  <2> QED BY <2>1, SameLength, SequenceDomain
<1> QED BY <1>1, <1>2

\* A declaration takes an id and counts at most one span; with a block, all its ids
\* are taken or all of them given back.
LEMMA NextNum == IInv /\ HintInv /\ HintInv' /\ NumInv /\ [Next]_vars => NumInv'
<1> SUFFICES ASSUME IInv, HintInv, HintInv', NumInv, [Next]_vars PROVE NumInv'
  OBVIOUS
<1>1. source' = source
  BY DEF Next, Declare, Keep, RollBack, InsertNops, EndOfBlock, vars
<1>2. /\ DOMAIN blocks' = DOMAIN blocks
      /\ \A k \in DOMAIN blocks : Len(blocks'[k]) = Len(blocks[k]) /\ Len(blocks[k]) \in Nat
  BY <1>1, SameShape
<1>3. /\ pc \in {"spans", "nops", "done"}
      /\ block \in DOMAIN blocks /\ span \in 1 .. Len(blocks[block]) + 1
      /\ syncBefore \in Nat \ {0} /\ scheduled < syncBefore /\ scheduled + blockScheduled < syncID
  BY DEF NumInv
<1>4. /\ syncBefore \in Nat /\ syncID \in Nat /\ scheduled \in Nat /\ blockScheduled \in Nat
      /\ syncBefore <= syncID
  BY DEF IInv, ShapeInv
<1>5. ASSUME Declare PROVE NumInv'
  <2>1. /\ pc' = pc /\ block' = block /\ span' = span + 1 /\ span <= Len(blocks[block])
        /\ syncBefore' = syncBefore /\ scheduled' = scheduled
    BY <1>5 DEF Declare
  <2>2. \/ blockScheduled' = blockScheduled /\ syncID' \in {syncID, syncID + 1}
        \/ blockScheduled' = blockScheduled + 1 /\ syncID' = syncID + 1
    BY <1>5, DeclareEffect DEF IInv
  <2>3. scheduled' + blockScheduled' < syncID'
    BY <1>3, <1>4, <2>1, <2>2
  <2>4. span' \in 1 .. Len(blocks'[block']) + 1
    BY <1>2, <1>3, <2>1
  <2> QED BY <1>2, <1>3, <2>1, <2>3, <2>4 DEF NumInv
<1>6. ASSUME pc = "spans", EndOfBlock, syncBefore' \in Nat \ {0},
             scheduled' < syncBefore', scheduled' \in Nat, syncID' = syncBefore'
      PROVE  NumInv'
  <2>1. span' = 1 /\ blockScheduled' = 0
    BY <1>6, EndEffect DEF IInv
  <2>2. pc' \in {"spans", "nops", "done"} /\ block' \in DOMAIN blocks
    <3>1. CASE block < Len(blocks)
      <4>1. pc' = pc /\ block' = block + 1
        BY <1>6, <3>1 DEF EndOfBlock
      <4>2. Len(blocks) \in Nat /\ DOMAIN blocks = 1 .. Len(blocks)
        BY SequenceDomain DEF IInv, ShapeInv
      <4> QED BY <1>3, <3>1, <4>1, <4>2
    <3>2. CASE ~(block < Len(blocks))
      BY <1>3, <1>6, <3>2 DEF EndOfBlock
    <3> QED BY <3>1, <3>2
  <2>3. span' \in 1 .. Len(blocks'[block']) + 1
    BY <1>2, <2>1, <2>2
  <2>4. scheduled' + blockScheduled' < syncID'
    <3>1. \A m, n : m \in Nat /\ m < n => m + 0 < n
      OBVIOUS
    <3>2. scheduled' < syncID' /\ blockScheduled' = 0
      BY <1>6, <2>1
    <3>3. scheduled' \in Nat
      BY <1>6
    <3> QED BY <3>1, <3>2, <3>3
  <2> QED BY <1>2, <1>6, <2>2, <2>3, <2>4 DEF NumInv
<1>7. ASSUME Keep PROVE NumInv'
  <2>1. /\ pc = "spans" /\ EndOfBlock /\ scheduled' = scheduled + blockScheduled
        /\ syncBefore' = syncID /\ syncID' = syncID
    BY <1>7 DEF Keep, Counted
  <2>2. syncBefore' \in Nat \ {0} /\ scheduled' < syncBefore' /\ scheduled' \in Nat
    BY <1>3, <1>4, <2>1
  <2> QED BY <1>6, <2>1, <2>2
<1>8. ASSUME RollBack PROVE NumInv'
  <2>1. /\ pc = "spans" /\ EndOfBlock /\ scheduled' = scheduled
        /\ syncBefore' = syncBefore /\ syncID' = syncBefore
    BY <1>8 DEF RollBack, Counted
  <2> QED BY <1>3, <1>4, <1>6, <2>1
<1>9. ASSUME InsertNops PROVE NumInv'
  <2>1. /\ pc' = "done" /\ block' = block /\ span' = span /\ syncID' = syncID
        /\ syncBefore' = syncBefore /\ scheduled' = scheduled /\ blockScheduled' = blockScheduled
    BY <1>9 DEF InsertNops
  <2> QED BY <1>2, <1>3, <2>1 DEF NumInv
<1>10. ASSUME UNCHANGED vars PROVE NumInv'
  BY <1>10 DEF vars, NumInv
<1> QED BY <1>5, <1>7, <1>8, <1>9, <1>10 DEF Next

\* The invariant of the pass.
PassInv == IInv /\ HintInv /\ NumInv

\* It holds at the start.
LEMMA InitPass == Init => PassInv
BY InitInv, InitHints, InitNum DEF PassInv

\* A step preserves it unless it rolls back to an instruction that is gone.
LEMMA NextPass == PassInv /\ Restorable /\ [Next]_vars => PassInv'
<1> SUFFICES ASSUME PassInv, Restorable, [Next]_vars PROVE PassInv'
  OBVIOUS
<1>1. IInv /\ HintInv /\ NumInv
  BY DEF PassInv
<1>2. IInv'
  BY <1>1, NextInv
<1>3. HintInv'
  BY <1>1, NextHints
<1>4. NumInv'
  BY <1>1, <1>3, NextNum
<1> QED BY <1>2, <1>3, <1>4 DEF PassInv

\* The ranges and the distinct ids are the type invariant.
LEMMA TypeSays == PassInv => TypeOK
<1> SUFFICES ASSUME PassInv PROVE TypeOK
  OBVIOUS
<1>1. IInv /\ HintInv /\ NumInv
  BY DEF PassInv
<1>2. DOMAIN blocks = DOMAIN source.blocks
  BY <1>1 DEF HintInv
<1>3. Distinct(AllCode)
  BY <1>1, DistinctSay
<1>4. syncBefore \in 1 .. syncID
  BY <1>1 DEF IInv, ShapeInv, NumInv
<1> QED BY <1>1, <1>2, <1>3, <1>4 DEF NumInv, TypeOK

-----------------------------------------------------------------------------
(* Pipelines are complete.                                                 *)

\* The sizes of the groups of one class.
LEMMA SizesAre ==
  ASSUME NEW groups \in Seq(Groups), NEW m
  PROVE  Sizes(groups, m) = Weigh(groups, InClass(m))
<1> DEFINE f == [k \in DOMAIN groups |-> IF groups[k].mask = m THEN groups[k].size ELSE 0]
           g == [k \in DOMAIN groups |-> InClass(m)[groups[k]]]
<1>1. \A k \in DOMAIN groups : groups[k] \in Groups
  OBVIOUS
<1>2. \A k \in DOMAIN groups : InClass(m)[groups[k]] = IF groups[k].mask = m THEN groups[k].size ELSE 0
  BY <1>1, GroupOf
<1>3. f = g
  BY <1>2
<1> QED BY <1>3 DEF Sizes, Weigh

\* The operations of A that count as one of class m.
CountOf(A, m) == [i \in A |-> IF IsValu(i) /\ Mask(i) = m THEN 1 ELSE 0]

\* What they count.
LEMMA CountOfOne ==
  ASSUME NEW A, NEW i \in A, NEW m
  PROVE  CountOf(A, m)[i] = (IF IsValu(i) /\ Mask(i) = m THEN 1 ELSE 0) /\ CountOf(A, m)[i] \in Nat
BY DEF CountOf

\* A vector operation counts for what it is issued as, whether it is split or not.
LEMMA PiecesCount ==
  ASSUME NEW i, IsValu(i), NEW split, i.id \in split => i.op = "packed",
         NEW A, Range(Pieces(Renamed(i, split), split)) \subseteq A, NEW m
  PROVE  LET t == Pieces(Renamed(i, split), split)
         IN  /\ Weighs(t, CountOf(A, m))
             /\ Weigh(t, CountOf(A, m)) = IF Mask(i) = m THEN Issues(i, split) ELSE 0
<1> DEFINE j == Renamed(i, split)
           t == Pieces(j, split)
           w == CountOf(A, m)
<1>1. j.id = i.id /\ j.op = i.op
  BY DEF Renamed
<1> HIDE DEF j
<1>2. CASE i.id \in split
  <2>1. Elements = 2 /\ Glue = 3
    BY DEF Elements, Glue
  <2>2. t = [e \in 1 .. 3 |-> IF e = 3 THEN Joined(j) ELSE Part(j, e)]
    BY <1>1, <1>2, <2>1 DEF Pieces
  <2> HIDE DEF t
  <2>3. DOMAIN t = 1 .. 3 /\ t[1] = Part(j, 1) /\ t[2] = Part(j, 2) /\ t[3] = Joined(j)
    BY <2>2
  <2>4. t = [e \in 1 .. 3 |-> t[e]]
    BY <2>2
  <2>5. IsSequence(t)
    BY <2>4, MakeSequence
  <2>6. t[1] \in A /\ t[2] \in A /\ t[3] \in A
    BY <2>3 DEF Range, t, j
  <2>7. \A e : Part(j, e).op = "sub"
    BY DEF Part
  <2>8. Joined(j).op = "glue"
    BY DEF Joined
  <2>9. \A x : x.op = "sub" => IsValu(x) /\ Mask(x) = "VALU"
    BY DEF IsValu, ValuWeight, Mask, IsTrans
  <2>10. \A x : x.op = "glue" => ~IsValu(x)
    BY DEF IsValu, ValuWeight
  <2> DEFINE c == IF m = "VALU" THEN 1 ELSE 0
  <2>11. w[t[1]] = c /\ w[t[2]] = c
    <3>1. IsValu(t[1]) /\ Mask(t[1]) = "VALU" /\ IsValu(t[2]) /\ Mask(t[2]) = "VALU"
      BY <2>3, <2>7, <2>9
    <3> QED BY <2>6, <3>1, CountOfOne
  <2>12. w[t[3]] = 0
    <3>1. ~IsValu(t[3])
      BY <2>3, <2>8, <2>10
    <3> QED BY <2>6, <3>1, CountOfOne
  <2> DEFINE f == [k \in DOMAIN t |-> w[t[k]]]
  <2>13. DOMAIN f = 1 .. 3 /\ f[1] = c /\ f[2] = c /\ f[3] = 0
    BY <2>3, <2>11, <2>12
  <2>14. Weigh(t, w) = Total(f)
    BY DEF Weigh
  <2>15. \A k \in DOMAIN t : w[t[k]] \in Nat
    BY <2>3, <2>11, <2>12
  <2> HIDE DEF f, w
  <2>16. Total(f) = (c + c) + 0
    BY <2>13, TotalThree
  <2>17. Mask(i) = "VALU" /\ Issues(i, split) = 2
    BY <1>2, <2>1 DEF Mask, IsTrans, Issues
  <2>18. Weigh(t, w) = IF Mask(i) = m THEN Issues(i, split) ELSE 0
    BY <2>14, <2>16, <2>17
  <2>19. Weighs(t, w)
    BY <2>5, <2>15 DEF Weighs
  <2> QED BY <2>18, <2>19 DEF w, t, j
<1>3. CASE i.id \notin split
  <2>1. t = <<j>>
    BY <1>1, <1>3 DEF Pieces
  <2>2. j \in A
    BY <2>1 DEF Range, j
  <2>3. IsValu(j) /\ Mask(j) = Mask(i)
    BY <1>1 DEF IsValu, ValuWeight, Mask, IsTrans
  <2>4. w[j] = (IF Mask(i) = m THEN 1 ELSE 0) /\ w[j] \in Nat
    BY <2>2, <2>3, CountOfOne
  <2> HIDE DEF w
  <2>5. Weighs(<<j>>, w) /\ Weigh(<<j>>, w) = w[j]
    BY <2>4, WeighOne
  <2>6. Issues(i, split) = 1
    BY <1>3 DEF Issues
  <2> QED BY <2>1, <2>4, <2>5, <2>6 DEF w, j
<1> QED BY <1>2, <1>3

\* What vector operations, split as packed ones, count in all.
LEMMA NumberIs ==
  ASSUME NEW ops, IsSequence(ops), \A i \in Range(ops) : IsValu(i),
         NEW split, \A i \in Range(ops) : i.id \in split => i.op = "packed", NEW m
  PROVE  Number(Scalarized(ops, split), m) = Weigh(ops, IssuesOf(Range(ops), split, m))
<1> DEFINE all == [k \in DOMAIN ops |-> Pieces(Renamed(ops[k], split), split)]
           work == FlattenSeq(all)
           A == Range(work)
           w == CountOf(A, m)
           u == IssuesOf(Range(ops), split, m)
           n == Len(ops)
<1>1. Scalarized(ops, split) = work
  BY DEF Scalarized
<1>2. n \in Nat /\ DOMAIN ops = 1 .. n
  BY SequenceDomain
<1>3. all = [k \in 1 .. n |-> all[k]] /\ DOMAIN all = DOMAIN ops
  BY <1>2
<1>4. \A k \in DOMAIN ops : all[k] = Pieces(Renamed(ops[k], split), split)
  OBVIOUS
<1>5. \A k \in DOMAIN ops : ops[k] \in Range(ops)
  BY DEF Range
<1>6. Number(work, m) = Weigh(work, w)
  <2> DEFINE f == [k \in DOMAIN work |-> IF IsValu(work[k]) /\ Mask(work[k]) = m THEN 1 ELSE 0]
             g == [k \in DOMAIN work |-> w[work[k]]]
  <2>1. Number(work, m) = Total(f) /\ Weigh(work, w) = Total(g)
    BY DEF Number, Weigh
  <2> HIDE DEF work
  <2>2. \A k \in DOMAIN work : work[k] \in A
    BY DEF Range
  <2> HIDE DEF A
  <2>3. \A k \in DOMAIN work : w[work[k]] = IF IsValu(work[k]) /\ Mask(work[k]) = m THEN 1 ELSE 0
    BY <2>2, CountOfOne
  <2> HIDE DEF w
  <2>4. f = g
    BY <2>3
  <2> HIDE DEF f, g
  <2> QED BY <2>1, <2>4
<1>7. \A k \in DOMAIN ops : u[ops[k]] = IF Mask(ops[k]) = m THEN Issues(ops[k], split) ELSE 0
  BY <1>5 DEF IssuesOf
<1> HIDE DEF all, u
<1>8. IsSequence(all)
  BY ONLY <1>2, <1>3, MakeSequence
<1>9. \A k \in DOMAIN ops : IsSequence(all[k])
  <2> TAKE k \in DOMAIN ops
  <2> DEFINE i == ops[k]
             t == Pieces(Renamed(i, split), split)
  <2>1. IsValu(i) /\ (i.id \in split => i.op = "packed") /\ all[k] = t
    BY <1>4, <1>5
  <2> HIDE DEF i
  <2>2. Weighs(t, CountOf(Range(t), m))
    BY <2>1, PiecesCount
  <2> QED BY <2>1, <2>2 DEF Weighs
<1>10. Range(work) = UNION {Range(all[k]) : k \in DOMAIN all}
  BY <1>3, <1>8, <1>9, FlattenRange
<1>11. \A k \in DOMAIN ops : Weighs(all[k], w) /\ Weigh(all[k], w) = u[ops[k]]
  <2> TAKE k \in DOMAIN ops
  <2> DEFINE i == ops[k]
             t == Pieces(Renamed(i, split), split)
  <2>1. IsValu(i) /\ (i.id \in split => i.op = "packed") /\ all[k] = t
    BY <1>4, <1>5
  <2>2. Range(all[k]) \subseteq A
    BY <1>3, <1>10
  <2>3. u[i] = IF Mask(i) = m THEN Issues(i, split) ELSE 0
    BY <1>7
  <2> HIDE DEF i, A
  <2>4. Weighs(t, w) /\ Weigh(t, w) = IF Mask(i) = m THEN Issues(i, split) ELSE 0
    BY <2>1, <2>2, PiecesCount
  <2> HIDE DEF w
  <2>5. Weighs(all[k], w) /\ Weigh(all[k], w) = u[i]
    BY <2>1, <2>3, <2>4
  <2> QED BY <2>5 DEF i
<1> HIDE DEF w
<1>12. Weigh(work, w) = Total([k \in DOMAIN all |-> Weigh(all[k], w)])
  BY <1>3, <1>8, <1>11, WeighFlatten
<1>13. [k \in DOMAIN all |-> Weigh(all[k], w)] = [k \in DOMAIN ops |-> u[ops[k]]]
  BY <1>3, <1>11
<1>14. Weigh(work, w) = Weigh(ops, u)
  BY <1>12, <1>13 DEF Weigh
<1> QED BY <1>1, <1>6, <1>14 DEF u

\* The pipeline of a declared span holds what the span issues.
LEMMA DeclaredHolds ==
  ASSUME NEW code, NEW s, IsSequence(s), Declares(code, s),
         SplitOK(s, DeclareRegionGroups(code, s).split), NEW m \in {"VALU", "TRANS"}
  PROVE  LET d == DeclareRegionGroups(code, s)
         IN  Sizes(d.pipeline, m) = Number(Scalarized(Issued(code, s), d.split), m)
<1> DEFINE ops == Issued(code, s)
           mfmas == Len(Mfmas(s))
           d == DeclareRegionGroups(code, s)
<1>1. IsSequence(ops) /\ ops # <<>>
  BY IssuedSequence DEF Declares
<1>2. \A i \in Range(ops) : i \in Range(s) /\ IsValu(i)
  BY IssuedSequence
<1>3. mfmas \in Nat
  BY MfmasSequence, SequenceDomain
<1>4. d = Decide(ops, Ancestors(s), mfmas, Window(s))
  BY DEF DeclareRegionGroups
<1>5. \A i \in Range(ops) : i.id \in d.split => i.op = "packed"
  BY <1>2 DEF SplitOK, Range
<1> HIDE DEF ops, mfmas, d
<1>6. m # "MFMA"
  OBVIOUS
<1>7. /\ d.pipeline \in Seq(Groups)
      /\ Weigh(d.pipeline, InClass(m)) = Weigh(ops, IssuesOf(Range(ops), d.split, m))
  <2> DEFINE e == Decide(ops, Ancestors(s), mfmas, Window(s))
  <2>1. /\ e.pipeline \in Seq(Groups)
        /\ Weigh(e.pipeline, InClass(m)) = Weigh(ops, IssuesOf(Range(ops), e.split, m))
    BY ONLY <1>1, <1>3, <1>6, DecideHolds
  <2> HIDE DEF e
  <2> QED BY <1>4, <2>1 DEF e
<1>8. Sizes(d.pipeline, m) = Weigh(d.pipeline, InClass(m))
  BY <1>7, SizesAre
<1>9. Number(Scalarized(ops, d.split), m) = Weigh(ops, IssuesOf(Range(ops), d.split, m))
  BY <1>1, <1>2, <1>5, NumberIs
<1>10. Sizes(d.pipeline, m) = Number(Scalarized(ops, d.split), m)
  BY <1>7, <1>8, <1>9
<1> QED BY <1>10 DEF ops, d

\* ... in every state of the pass.
LEMMA CompleteSays == IInv /\ HintInv => PipelinesComplete
<1> SUFFICES ASSUME IInv, HintInv, pc = "spans", span <= Len(blocks[block])
             PROVE  LET s == blocks[block][span].code
                        d == DeclareRegionGroups(Flat, s)
                        work == Scalarized(Issued(Flat, s), d.split)
                    IN  Declares(Flat, s) =>
                           \A mask \in {"VALU", "TRANS"} : Sizes(d.pipeline, mask) = Number(work, mask)
  BY DEF PipelinesComplete
<1> DEFINE s    == blocks[block][span].code
           code == Flat
<1>1. block \in DOMAIN blocks /\ BlockOK(blocks[block]) /\ span \in Nat \ {0}
  BY DEF IInv, ShapeInv
<1>2. Len(blocks[block]) \in Nat /\ DOMAIN blocks[block] = 1 .. Len(blocks[block])
  BY <1>1, SequenceDomain DEF BlockOK
<1>3. span \in DOMAIN blocks[block]
  BY <1>1, <1>2
<1>4. IsSequence(s)
  BY <1>1, <1>3 DEF BlockOK, SpanOK
<1>5. SplitOK(s, DeclareRegionGroups(code, s).split)
  BY <1>1, <1>3, NextSplitOK DEF NextSplit
<1> HIDE DEF s, code
<1>6. Declares(code, s) =>
         \A mask \in {"VALU", "TRANS"} :
            Sizes(DeclareRegionGroups(code, s).pipeline, mask)
               = Number(Scalarized(Issued(code, s), DeclareRegionGroups(code, s).split), mask)
  BY <1>4, <1>5, DeclaredHolds
<1> QED BY <1>6 DEF s, code

-----------------------------------------------------------------------------
(* The theorems.                                                           *)

\* In every function, as long as no block is rolled back to an instruction that has
\* been split, every span keeps its instructions in their order, each as it was or
\* in all its pieces, and every instruction the values it uses: splitting replaces
\* every use of what it erases, and a rollback or the nops disturb neither.  Each
\* pipeline holds just the vector operations that its span then issues.
THEOREM HintsUnlessErased == Spec /\ []Restorable => [](OnlyHints /\ KeepsUses /\ PipelinesComplete)
<1>1. PassInv => OnlyHints /\ KeepsUses /\ PipelinesComplete
  BY HintsSay, UsesSay, CompleteSays DEF PassInv
<1> QED BY <1>1, InitPass, NextPass, PTL DEF Spec

\* With the functions whose refused blocks hold no packed operation, the invariant
\* of the pass always holds.
LEMMA PassAlways == ASSUME RefusedUnpacked PROVE Spec => []PassInv
<1>1. PassInv => Restorable
  BY Unpacked DEF PassInv
<1>2. PassInv /\ [Next]_vars => PassInv'
  BY <1>1, NextPass
<1> QED BY <1>2, InitPass, PTL DEF Spec

\* Every variable of the pass stays in its range, there is a sync id for every span
\* that is counted, and no two instructions of the function ever have the same id.
THEOREM PassTypeCorrect == ASSUME RefusedUnpacked PROVE Spec => []TypeOK
BY PassAlways, TypeSays, PTL

\* Whichever blocks the verifier refuses, the pass adds hints and splits packed
\* operations, and every span keeps its instructions in their order.
THEOREM PassOnlyAddsHints == ASSUME RefusedUnpacked PROVE Spec => []OnlyHints
<1>1. PassInv => OnlyHints
  BY HintsSay DEF PassInv
<1> QED BY <1>1, PassAlways, PTL

\* ... and none ever uses an instruction that is gone, or a value it did not use.
THEOREM PassKeepsUses == ASSUME RefusedUnpacked PROVE Spec => []KeepsUses
<1>1. PassInv => KeepsUses
  BY UsesSay DEF PassInv
<1> QED BY <1>1, PassAlways, PTL

\* Both paths declare every vector operation that a span issues exactly once, and in
\* a group of its class: no operation gets lost when runs are packed into groups,
\* windows laid out, bundles merged, or packed operations split.
THEOREM PipelinesAreComplete == ASSUME RefusedUnpacked PROVE Spec => []PipelinesComplete
<1>1. PassInv => PipelinesComplete
  BY CompleteSays DEF PassInv
<1> QED BY <1>1, PassAlways, PTL
=============================================================================
