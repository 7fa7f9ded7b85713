SPECIFICATION Spec
CONSTANTS
    File = {f1, f2}
    Content = {a, b}
    Absent = Absent
    Editor = {e1}
    Nobody = Nobody
    MaxWrites = 2
    MaxSyncs = 2
    MaxFaults = 1
    MaxStimuli = 4
SYMMETRY MCSymmetry
CHECK_DEADLOCK FALSE
INVARIANTS
    PromisesAreOwed
    NeverSilentlyStale
