SPECIFICATION Spec
CONSTANTS
    Page = {p1, p2, p3}
    MaxTxns = 3
    MaxCheckpoints = 3
    MaxCrashes = 2
SYMMETRY MCSymmetry
CHECK_DEADLOCK FALSE
INVARIANTS
    RecoveryIsExact
    LastCheckpointUntouched
    RecoveryNeverStuck
PROPERTY StoreSpec
