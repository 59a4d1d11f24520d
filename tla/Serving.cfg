SPECIFICATION ServingSpec
CONSTANTS
    None = None
    Cities = {"a", "b", "c", "d"}
    StopLists <- RouteStopLists
    Vertices = {1, 2}
    Points = {1, 2, 3}
    SkipMax = 2
    Scores = {1, 2}
    MaxChain = 4
INVARIANTS
    LegsAccounted
    PiecesMeet
    DaysTellTheRoute
    SearchAnswers
    ReadYourRoutes
    SpineIsShortest
    ChainsDrawTheTrunk
CHECK_DEADLOCK FALSE
