SPECIFICATION Spec
CONSTANTS
    Client = {c1, c2, c3}
    Nobody = Nobody
    Kinds = {"WRITE"}
    Configs <- MCMultiWriter
    Faults = {"rollback", "checkpoint"}
    LockWaits = FALSE
    MaxTxns = 3
    MaxCheckpoints = 1
CHECK_DEADLOCK FALSE
SYMMETRY MCSymmetry
INVARIANT FailuresStayInMemory
