SPECIFICATION Spec
CONSTANTS
    Warps <- Groups
    Configs <- InterConfigs
    Code <- InterCode
INVARIANTS
    TypeOK
    NoDataRace
    SumsInOrder
    NotStuck
    DisciplinedAtLaunch
PROPERTY ComputesGemm
