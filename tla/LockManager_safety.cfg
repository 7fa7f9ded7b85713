SPECIFICATION Spec
CONSTANTS
    Txn = {t1, t2, t3}
    Resource = {1, 2}
    Requests <- MCRequests
    MaxCalls = 2
    Nobody = Nobody
SYMMETRY MCSymmetry
INVARIANTS
    TypeOK
    MutualExclusion
    NoWaitCycle
    BlockersExplainTheWait
    SomeoneCanMove
    Bookkeeping
PROPERTIES
    LocksKeptToTheEnd
    GroupedNeverDeadlock
