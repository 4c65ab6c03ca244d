------------------------------ MODULE PidRemap ------------------------------
(***************************************************************************)
(* Which tile of C a workgroup computes: get_pids of                       *)
(* kernels/gemm/utils/common.py, whose first half is remap_xcd of          *)
(* kernels/attention/common.py.  The hardware deals workgroups to the XCDs *)
(* (compute dies with an L2 cache each) in turn; the remap gives each XCD  *)
(* a run of consecutive new ids, and the swizzle walks those ids down      *)
(* groups of GROUP_SIZE_M rows of tiles.                                   *)
(***************************************************************************)
EXTENDS Integers, FiniteSets, FiniteSetsExt

CONSTANTS
    Grids,          \* pairs <<num_pid_m, num_pid_n>>: rows and columns of tiles
    XcdCounts,      \* values of NUM_XCDS
    GroupSizes      \* values of GROUP_SIZE_M

ASSUME LaunchAssumption ==
    /\ Grids \subseteq (Nat \ {0}) \X (Nat \ {0})
    /\ XcdCounts \subseteq Nat \ {0}
    /\ GroupSizes \subseteq Nat \ {0}

VARIABLES
    num_pid_m, num_pid_n, NUM_XCDS, GROUP_SIZE_M,   \* the launch
    pid,        \* the next workgroup that the hardware dispatches
    new,        \* new[x]: the remapped ids that XCD x was given so far
    written     \* the tiles of C written so far

launch == <<num_pid_m, num_pid_n, NUM_XCDS, GROUP_SIZE_M>>
vars   == <<launch, pid, new, written>>

GRID_MN == num_pid_m * num_pid_n
Tiles   == (0 .. num_pid_m - 1) \X (0 .. num_pid_n - 1)
Xcds    == 0 .. NUM_XCDS - 1

-----------------------------------------------------------------------------
pids_per_xcd == (GRID_MN + NUM_XCDS - 1) \div NUM_XCDS

\* Mutant: a grid that the XCDs share evenly has no tall XCD.
tall_xcds_NoWrap == GRID_MN % NUM_XCDS
\* The XCDs that get pids_per_xcd workgroups; the others get one less.
tall_xcds == IF GRID_MN % NUM_XCDS = 0 THEN NUM_XCDS ELSE GRID_MN % NUM_XCDS

remap_xcd(p) ==
    LET xcd       == p % NUM_XCDS
        local_pid == p \div NUM_XCDS
    IN  IF xcd < tall_xcds
        THEN xcd * pids_per_xcd + local_pid
        ELSE tall_xcds * pids_per_xcd + (xcd - tall_xcds) * (pids_per_xcd - 1) + local_pid

\* Mutant: the ids are never remapped.
Remapped_Never(p) == p
\* get_pids does not remap when there is one XCD.
Remapped(p) == IF NUM_XCDS # 1 THEN remap_xcd(p) ELSE p

\* Mutant: the last group is taken to be as high as the others.
group_size_m_Full(first_pid_m) == GROUP_SIZE_M
group_size_m(first_pid_m) == Min({num_pid_m - first_pid_m, GROUP_SIZE_M})

TileOf(p) ==
    IF GROUP_SIZE_M = 1 THEN <<p \div num_pid_n, p % num_pid_n>>
    ELSE LET num_pid_in_group == GROUP_SIZE_M * num_pid_n
             first_pid_m == (p \div num_pid_in_group) * GROUP_SIZE_M
             height      == group_size_m(first_pid_m)
             within      == p % num_pid_in_group
         IN  <<first_pid_m + (within % height), within \div height>>

get_pids(p) == TileOf(Remapped(p))

-----------------------------------------------------------------------------
Init == /\ \E g \in Grids : num_pid_m = g[1] /\ num_pid_n = g[2]
        /\ NUM_XCDS \in XcdCounts
        /\ GROUP_SIZE_M \in GroupSizes
        /\ pid = 0
        /\ new = [x \in Xcds |-> {}]
        /\ written = {}

\* The next workgroup is dispatched to its XCD, computes its tile and stores it.
Dispatch ==
    /\ pid < GRID_MN
    /\ pid' = pid + 1
    /\ new' = [new EXCEPT ![pid % NUM_XCDS] = @ \cup {Remapped(pid)}]
    /\ written' = written \cup {get_pids(pid)}
    /\ UNCHANGED launch

Finished == pid = GRID_MN /\ UNCHANGED vars

Next == Dispatch \/ Finished
Spec == Init /\ [][Next]_vars /\ WF_vars(Dispatch)

-----------------------------------------------------------------------------
\* No two workgroups get the same tile, and none gets one outside of C.
OneWorkgroupPerTile == written \subseteq Tiles /\ Cardinality(written) = pid

\* The ids that an XCD is given are consecutive, so that its workgroups share
\* rows of A and columns of B in its L2 cache.
ConsecutiveOnXcd ==
    \A x \in Xcds : new[x] # {} =>
        Cardinality(new[x]) = Max(new[x]) - Min(new[x]) + 1

\* The whole of C is computed in the end.
AllTilesWritten == <>(written = Tiles)
=============================================================================
