SPECIFICATION Spec
CONSTANTS
    Warps <- Groups
    Configs <- ShortConfigs
    Code <- ShortCode
INVARIANTS
    SumsInOrder
