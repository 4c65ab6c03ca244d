SPECIFICATION FairSpec
CONSTANTS
    Warps <- Groups
    Configs <- LiveConfigs
    Code <- LiveCode
PROPERTIES
    Termination
