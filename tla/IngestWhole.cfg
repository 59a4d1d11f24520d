SPECIFICATION Spec
CONSTANTS
    Ways <- MCWays
    Located = {1, 2, 3, 4, 5}
    Files <- MCFiles
    JobLists <- MCJobLists
    EDGE_BATCH = 2
    MaxKills = 0
INVARIANT IngestIsWhole
CHECK_DEADLOCK FALSE
