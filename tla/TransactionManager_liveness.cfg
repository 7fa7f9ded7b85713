SPECIFICATION FairSpec
CONSTANTS
    Client = {c1, c2, c3}
    Nobody = Nobody
    Kinds = {"WRITE", "FORCED"}
    Configs <- MCMultiWriter
    Faults = {"checkpoint"}
    LockWaits = FALSE
    MaxTxns = 3
    MaxCheckpoints = 1
CHECK_DEADLOCK FALSE
PROPERTY EveryWaitEnds
