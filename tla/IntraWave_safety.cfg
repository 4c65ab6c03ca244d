SPECIFICATION Spec
CONSTANTS
    Warps = {w1, w2}
    w1 = w1
    w2 = w2
    Configs <- IntraConfigs
    Code <- IntraCode
SYMMETRY WarpSymmetry
INVARIANTS
    TypeOK
    NoDataRace
    SumsInOrder
    TwoBarriersPerKStep
    DisciplinedAtLaunch
PROPERTY ComputesGemm
