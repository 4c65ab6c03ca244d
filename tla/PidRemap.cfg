SPECIFICATION Spec
CONSTANTS
    Grids <- MCGrids
    XcdCounts = {1, 3, 4}
    GroupSizes = {1, 2, 4}
INVARIANTS
    OneWorkgroupPerTile
    ConsecutiveOnXcd
PROPERTIES
    AllTilesWritten
