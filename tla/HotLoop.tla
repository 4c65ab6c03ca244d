------------------------------ MODULE HotLoop ------------------------------
(***************************************************************************)
(* The passes of amdgcnas that move waits, barriers, m0 writes and mfmas   *)
(* of the hot loop without looking at registers.                           *)
(*                                                                         *)
(* The branch that ends the loop is left out: no pass moves it, and what   *)
(* goes before it goes to the end here.                                    *)
(***************************************************************************)
EXTENDS Assembly

\* The instructions at the given places, in order.
OnlyAt(block, places) ==
    FlattenSeq([k \in DOMAIN block |-> IF k \in places THEN <<block[k]>> ELSE <<>>])

-----------------------------------------------------------------------------
(* Step 6.                                                                 *)

\* Mutant: no nop stays.
NopStays_Never(block, k) == FALSE
\* The only nops that stay are between a write of m0 and a buffer_load.
NopStays(block, k) ==
    /\ 1 < k /\ k < Len(block)
    /\ block[k - 1].op = "set_m0" /\ block[k + 1].op = "buffer_load"

\* optimize_nops, which also drops what is marked dead.
WithoutNops(block) ==
    OnlyAt(block, {k \in DOMAIN block :
        block[k].op # "dead" /\ (block[k].op = "s_nop" => NopStays(block, k))})

\* optimize_buffer_load_m0: a buffer_load changes places with an mfma behind it,
\* which makes a nop before it needless.
LoadsBeforeMfma(block) ==
    {k \in 1 .. Len(block) - 1 : block[k].op = "buffer_load" /\ IsMfma(block[k + 1])}
MfmasBeforeLoads(block) ==
    LET swaps == LoadsBeforeMfma(block)
        swapped == [k \in DOMAIN block |-> CASE k \in swaps     -> block[k + 1]
                                             [] k - 1 \in swaps -> block[k - 1]
                                             [] OTHER           -> block[k]]
    IN OnlyAt(swapped, {k \in DOMAIN block : ~(block[k].op = "s_nop" /\ k + 1 \in swaps)})

-----------------------------------------------------------------------------
(* Step 8: rotate_lgkmcnt.                                                 *)

\* A wait for LDS with a barrier behind it.
SyncPairs(block) ==
    {k \in 1 .. Len(block) - 1 : block[k].op \in LgkmWaits /\ block[k + 1].op = "s_barrier"}

\* The waits for LDS before the pair k, in its region, nearest last.
Standalones(block, k) ==
    {j \in 1 .. k - 1 : /\ block[j].op \in LgkmWaits
                        /\ \A between \in j + 1 .. k - 1 : block[between].op # "s_barrier"}

\* Each pair with such a wait moves up to the nearest and takes its place.
MergedSyncs(block) ==
    LET merged == {k \in SyncPairs(block) : Standalones(block, k) # {}}
        Into(j) == {k \in merged : Max(Standalones(block, k)) = j}
        At(j) == CASE Into(j) # {} -> LET k == CHOOSE k \in Into(j) : TRUE IN <<block[k], block[k + 1]>>
                   [] j \in merged \/ j - 1 \in merged -> <<>>
                   [] OTHER -> <<block[j]>>
    IN FlattenSeq([j \in DOMAIN block |-> At(j)])

\* Mutant: the pair goes to the end of the prologue only.
Rotated_NotInTheLoop(code) ==
    LET loop == MergedSyncs(code.loop)
        first == Min(SyncPairs(loop))
    IN IF SyncPairs(loop) = {} THEN code
       ELSE [code EXCEPT !.prologue = @ \o SubSeq(loop, first, first + 1),
                         !.loop = RemoveAt(RemoveAt(loop, first), first)]
\* The first pair goes to the end of the prologue and to the end of the loop.
Rotated(code) ==
    LET loop == MergedSyncs(code.loop)
        first == Min(SyncPairs(loop))
        pair == SubSeq(loop, first, first + 1)
    IN IF SyncPairs(loop) = {} THEN code
       ELSE [code EXCEPT !.prologue = @ \o pair,
                         !.loop = RemoveAt(RemoveAt(loop, first), first) \o pair]

-----------------------------------------------------------------------------
(* Step 8: separate_waitcnt_and_barrier, optimize_mfma_density.            *)

\* A wait between an mfma and a barrier goes before the mfma.
WaitsToSeparate(block) ==
    {k \in 2 .. Len(block) - 1 : /\ block[k].op \in Waits
                                 /\ IsMfma(block[k - 1]) /\ block[k + 1].op = "s_barrier"}
\* Mutant: it changes places with the barrier.
Separated_BehindTheBarrier(block) ==
    LET waits == WaitsToSeparate(block)
    IN [k \in DOMAIN block |-> CASE k \in waits     -> block[k + 1]
                                 [] k - 1 \in waits -> block[k - 1]
                                 [] OTHER           -> block[k]]
Separated(block) ==
    LET waits == WaitsToSeparate(block)
    IN [k \in DOMAIN block |-> CASE k \in waits     -> block[k - 1]
                                 [] k + 1 \in waits -> block[k + 1]
                                 [] OTHER           -> block[k]]

\* Other instructions between two mfmas.
PerMfma == 5

\* schedule_window: an mfma first, then the others by five between the mfmas.
ScheduledWindow(window) ==
    LET mfmas == SelectSeq(window, IsMfma)
        others == SelectSeq(window, LAMBDA i : ~IsMfma(i))
        Turn(t) == SubSeq(mfmas, t, Min({t, Len(mfmas)}))
                     \o SubSeq(others, PerMfma * (t - 1) + 1, Min({PerMfma * t, Len(others)}))
    IN IF Len(others) <= PerMfma /\ IsMfma(window[1]) THEN window
       ELSE FlattenSeq([t \in DOMAIN window |-> Turn(t)])

\* Windows begin at the start of the loop, behind its first mfmas, and at every
\* later run of mfmas.
RunStarts(block) == {k \in DOMAIN block : IsMfma(block[k]) /\ (k > 1 => ~IsMfma(block[k - 1]))}
WindowStarts(block) ==
    LET runs == RunStarts(block)
        firstRun == Min(runs)
        behind == {k \in firstRun + 1 .. Len(block) : ~IsMfma(block[k])}
    IN IF runs = {} THEN {1}
       ELSE {1} \cup (IF behind = {} THEN {} ELSE {Min(behind)}) \cup (runs \ {firstRun})

\* optimize_mfma_density.
Densified(block) ==
    LET starts == WindowStarts(block)
        End(k) == Min({j \in starts : j > k} \cup {Len(block) + 1}) - 1
    IN FlattenSeq([k \in DOMAIN block |->
          IF k \in starts THEN ScheduledWindow(SubSeq(block, k, End(k))) ELSE <<>>])
=============================================================================
