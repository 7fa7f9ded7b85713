SPECIFICATION Spec
CONSTANTS
    Client = {c1, c2, c3}
    Nobody = Nobody
    Kinds = {"READ", "WRITE", "FORCED", "INDEX"}
    Configs <- MCAllConfigs
    Faults = {"commit", "journal", "rollback", "checkpoint", "crash"}
    LockWaits = TRUE
    MaxTxns = 3
    MaxCheckpoints = 1
CHECK_DEADLOCK FALSE
SYMMETRY MCSymmetry
INVARIANTS
    TypeOK
    AckedIsDurable
    OpenSnapshotsAreKept
    GateIsSound
PROPERTIES
    HalfOnlyAfterFailedRollback
    OnlyTheGateOutlivesFailure
    CommitsAreOrderly
