SPECIFICATION PipelineSpec
CONSTANTS
    None = None
    Rows = {1, 2, 3, 4}
    Initial = {1, 2, 3}
    Covered = {1, 2, 4}
    ENOUGH_STAGED = 1
    ENOUGH_ROWS = 2
    MaxKills = 2
INVARIANTS
    StagedEdgesArrive
    CostsKeepDirections
    AnchorsAreLocalMaxima
    RoadsStayJoined
    CrossingsJoinTheChain
    TrianglesLeaveAWay
    WalksArrive
    PruningKeepsWalks
PROPERTIES
    SwapsKeepTheTable
CHECK_DEADLOCK FALSE
