SPECIFICATION Spec
CONSTANTS
    Warps <- Groups
    Configs <- OddConfigs
    Code <- OddCode
INVARIANTS
    SumsInOrder
