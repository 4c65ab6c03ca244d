SPECIFICATION FairSpec
CONSTANTS
    Warps = {w1, w2}
    w1 = w1
    w2 = w2
    iterMax = 6
    Window = 2
INVARIANTS
    TypeOK
    NoDataRace
    NoOverlappingCopies
    IInv
    AfterLoop
PROPERTIES
    ComputesGemm
    Termination
