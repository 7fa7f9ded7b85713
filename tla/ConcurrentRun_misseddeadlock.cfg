SPECIFICATION Spec
CONSTANTS
    Capacity = 1
    Graphs <- MCGraphs
INVARIANT EveryDeadlockIsDeclared
