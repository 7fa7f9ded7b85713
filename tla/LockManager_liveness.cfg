SPECIFICATION FairSpec
CONSTANTS
    Txn = {t1, t2, t3}
    Resource = {1}
    Requests <- MCSingles
    MaxCalls = 2
    Nobody = Nobody
PROPERTY ExclusiveWaiterServed
