------------------------------ MODULE TileData ------------------------------
(***************************************************************************)
(* The way of the data through one K-step of a GEMM kernel and into C:     *)
(* the copies to LDS lane by lane, the reads of the dot operands of each   *)
(* warp, and the store of the result.  The other modules follow a tile as  *)
(* one datum; here it is taken apart.                                      *)
(*                                                                         *)
(* An element of an operand is known by its place <<m, k>> or <<n, k>> in  *)
(* the part of the matrix that the workgroup multiplies.                   *)
(***************************************************************************)
EXTENDS Layouts, TLC

LOCAL INSTANCE SequencesExt

CONSTANT Kernels   \* a set of records made by KernelLayouts!Kernel

VARIABLES
    kernel,     \* the kernel
    slice,      \* which slice of C, <<0, 0>> to <<1, 1>>
    copies,     \* the copy instructions still to be issued
    lds,        \* for each tile, the address of a vector -> its first element
    loads,      \* number of warps that have read their operands
    frag,       \* the operands of the warp that read last
    stores,     \* number of warps that have stored
    stored      \* elements of C, by the first of each vector

vars == <<kernel, slice, copies, lds, loads, frag, stores, stored>>

Lanes == 0 .. WaveSize - 1

K == kernel
Tiles == DOMAIN K.tiles

\* A and As are cut along M, B and Bs along N.
DimOf(t) == IF t \in {"A", "As"} THEN 1 ELSE 2
BlockOf(t) == IF DimOf(t) = 1 THEN K.launch.M ELSE K.launch.N

\* The elements of a slice, and the first of them.
SliceRows(d) == (IF d = 1 THEN K.launch.M ELSE K.launch.N) \div K.slices[d]
SliceStart(d) == slice[d] * SliceRows(d)

\* Where a tile begins: a tile as large as the block holds every slice.
TileStart(t) == IF K.tiles[t].shape[1] = BlockOf(t) THEN 0 ELSE SliceStart(DimOf(t))

Vec(t) == VectorLength(t.load, t.shared, t.bytes)

-----------------------------------------------------------------------------
(* Copies.                                                                 *)

CopiesOf(k) ==
    LET Names == SelectSeq(<<"B", "Bs", "A", "As">>, LAMBDA t : t \in DOMAIN k.tiles)
        Of(name) == LET t == k.tiles[name]
                        vec == VectorLength(t.load, t.shared, t.bytes)
                        warps == k.launch.warps
                    IN [i \in 1 .. (2 ^ Len(t.load.reg) \div vec) * warps |->
                           [tile |-> name, reg |-> ((i - 1) \div warps) * vec, warp |-> (i - 1) % warps]]
    IN FlattenSeq([i \in DOMAIN Names |-> Of(Names[i])])

\* buffer_load_to_shared: the lanes write next to each other, behind the place
\* of the first one; with a swizzled layout they fetch in swizzled order.
Direct(t, reg, warp) ==
    LET v == Vec(t)
        base == Pad(t.shared, Offset(t.shared, Place(t.load, reg, 0, warp)))
    IN [a \in {base + l * v : l \in Lanes} |-> Swizzle(t.shared, Place(t.load, reg, (a - base) \div v, warp))]

\* shared_memory_descriptor.store: each lane writes its elements to their home.
Staged(t, reg, warp) ==
    [a \in {Home(t.shared, Place(t.load, reg, l, warp)) : l \in Lanes} |->
        Swizzle(t.shared, Apply(t.shared.bases, a))]

\* The widths that buffer_load can write to LDS.
DirectWidths == {4, 16}

Copy ==
    /\ copies # <<>>
    /\ LET c == Head(copies)
           t == K.tiles[c.tile]
           data == IF t.direct THEN Direct(t, c.reg, c.warp) ELSE Staged(t, c.reg, c.warp)
           start == <<TileStart(c.tile), 0>>
       IN /\ t.direct => Vec(t) * t.bytes \in DirectWidths
          /\ lds' = [lds EXCEPT ![c.tile] = [a \in DOMAIN data |-> Plus(start, data[a])] @@ @]
    /\ copies' = Tail(copies)
    /\ UNCHANGED <<kernel, slice, loads, frag, stores, stored>>

AllCopied == copies = <<>>

-----------------------------------------------------------------------------
(* Reads of the dot operands.                                              *)

NoData == <<>>

\* What lies where the element x of a tile should be.
ReadAt(name, x) ==
    LET t == K.tiles[name]
        h == Home(t.shared, x)
        in == h % Vec(t)
    IN IF h - in \in DOMAIN lds[name]
       THEN [lds[name][h - in] EXCEPT ![t.shared.fast] = @ + in]
       ELSE NoData

\* The row of the tile in which a lane's part of the slice lies.  When one tile
\* holds both slices, the kernel slices the allocation, or the registers that
\* were read from it (_bsc_load_split).
RowIn_FirstSlice(name, warp, lane, rep) == NonKIndex(K.mfma, DimOf(name), warp, lane, rep)
RowIn(name, warp, lane, rep) ==
    SliceStart(DimOf(name)) - TileStart(name) + NonKIndex(K.mfma, DimOf(name), warp, lane, rep)

Reps(d) == SliceRows(d) \div (K.mfma.nonK * K.mfma.warps[d])

\* Vectors of k that a lane reads, and where they begin.
Run(name) == LET v == Vec(K.tiles[name])
                 w == K.kWidth[DimOf(name)]
             IN IF v < w THEN v ELSE w
Columns == K.tiles["A"].shape[2]
Runs(name) == Columns \div (Run(name) * LaneGroups(K.mfma))
KOf(name, lane, s) == KIndex(K.mfma, K.kWidth[DimOf(name)], Run(name), lane, s)

Operand(name, warp) ==
    [x \in Lanes \X (0 .. Reps(DimOf(name)) - 1) \X (0 .. Runs(name) - 1) |->
        ReadAt(name, <<RowIn(name, warp, x[1], x[2]), KOf(name, x[1], x[3])>>)]

\* get_mfma_scale_layout: the scale of each 16 bytes (32 elements) of k that
\* the lane holds of the dot operand.
ScaleBytes == 16
ScaleOperand(name, of, warp) ==
    [x \in Lanes \X (0 .. Reps(DimOf(name)) - 1) \X (0 .. Runs(of) - 1) |->
        ReadAt(name, <<RowIn(name, warp, x[1], x[2]), KOf(of, x[1], x[3]) \div ScaleBytes>>)]

Load ==
    /\ AllCopied
    /\ loads < K.launch.warps
    /\ frag' = [t \in Tiles |-> CASE t = "As" -> ScaleOperand("As", "A", loads)
                                  [] t = "Bs" -> ScaleOperand("Bs", "B", loads)
                                  [] OTHER -> Operand(t, loads)]
    /\ loads' = loads + 1
    /\ UNCHANGED <<kernel, slice, copies, lds, stores, stored>>

-----------------------------------------------------------------------------
(* The store of C; convert_layout leaves every value at its place.         *)

\* Elements of C that a lane stores at once.
StoreVec == 2 ^ Max({n \in 0 .. Len(K.store.reg) : \A i \in 1 .. n : K.store.reg[i] = <<0, 2 ^ (i - 1)>>})

\* Where the slice lies in C.
StoreStart_Swapped == <<SliceStart(2), SliceStart(1)>>
StoreStart == <<SliceStart(1), SliceStart(2)>>

StoreC ==
    /\ loads = K.launch.warps
    /\ stores < K.launch.warps
    /\ LET regs == {r \in 0 .. 2 ^ Len(K.store.reg) - 1 : r % StoreVec = 0}
       IN stored' = stored \cup {Plus(StoreStart, Place(K.store, r, l, stores)) : r \in regs, l \in Lanes}
    /\ stores' = stores + 1
    /\ UNCHANGED <<kernel, slice, copies, lds, loads, frag>>

Done == stores = K.launch.warps
Terminated == Done /\ UNCHANGED vars

Init ==
    /\ kernel \in Kernels
    /\ slice \in (0 .. K.slices[1] - 1) \X (0 .. K.slices[2] - 1)
    /\ copies = CopiesOf(kernel) /\ loads = 0 /\ stores = 0
    /\ lds = [t \in Tiles |-> <<>>]
    /\ frag = NoData
    /\ stored = {}

Next == Copy \/ Load \/ StoreC \/ Terminated

Spec == Init /\ [][Next]_vars

-----------------------------------------------------------------------------
(* Properties.                                                             *)

\* Once all warps have copied, every element of a tile lies where its shared
\* layout has it, padding and swizzle included: the register, lane and warp
\* bases of the load agree with the bases of the shared layout, no instruction
\* straddles a pad, and the warps leave no element out.
WholeTileInLds ==
    AllCopied /\ loads = 0 =>
        \A t \in Tiles : LET shape == K.tiles[t].shape IN
            \A x \in (0 .. shape[1] - 1) \X (0 .. shape[2] - 1) :
                ReadAt(t, x) = <<TileStart(t) + x[1], x[2]>>

\* The operands of an mfma belong together: A and B are taken at the same k by
\* the lanes that are multiplied, every k is taken once, the rows and columns
\* are those of the result, and each scale is that of its row and k.
OperandsMatch ==
    frag # NoData =>
        LET warp == loads - 1
            k(name, x) == frag[name][x][2]
            ScalesOf(name, scales) ==
                \A x \in DOMAIN frag[name] :
                    frag[scales][x] = <<frag[name][x][1], k(name, x) \div ScaleBytes>>
        IN /\ \A t \in {"A", "B"} : \A x \in DOMAIN frag[t] :
                 /\ frag[t][x][1] = SliceStart(DimOf(t)) + NonKIndex(K.mfma, DimOf(t), warp, x[1], x[2])
                 /\ k(t, x) = k("A", <<x[1], 0, x[3]>>)
           /\ {k("A", <<l, 0, s>>) : l \in Lanes, s \in 0 .. Runs("A") - 1}
                = {i \in 0 .. Columns - 1 : i % Run("A") = 0}
           /\ "As" \in Tiles => ScalesOf("A", "As") /\ ScalesOf("B", "Bs")

\* Every element of the slice of C is stored, at its place, and no other.
SliceStored ==
    Done => stored = {x \in (SliceStart(1) .. SliceStart(1) + SliceRows(1) - 1)
                               \X (SliceStart(2) .. SliceStart(2) + SliceRows(2) - 1) : x[2] % StoreVec = 0}

\* All allocations of the kernel, padding included, fit into LDS.
FitsInLds ==
    MapThenSumSet(LAMBDA t : K.tiles[t].slots * K.tiles[t].bytes * Footprint(K.tiles[t].shared), Tiles) <= K.capacity
=============================================================================
