SPECIFICATION BgSpec
\* The deadlock the detector misses stops the system.
CHECK_DEADLOCK FALSE
CONSTANTS
    Capacity = 1
    Graphs <- MCGraphs
INVARIANTS
    MissedOnlyHalfEnded
    OutcomesAreTrue
    SavedExactly
    StopIsSound
PROPERTIES
    WaitersAreToldTheTruth
    RunEnds
    CallerIsAnswered
