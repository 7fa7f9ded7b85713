SPECIFICATION Spec
CONSTANTS
    Node = {1, 2, 3, 4}
    Graphs <- MCGraphs
    MaxCrashes = 1
    MaxFaults = 2
CHECK_DEADLOCK FALSE
INVARIANTS
    CompletedIsTheEnd
    PortsAreSound
    StartedWithItsInputs
PROPERTIES
    DoneIsNotRedone
    ResumedUntilCompleted
