SPECIFICATION FairSpec
CONSTANTS
    Queued = {c1, c2}
    Direct = {d1}
    Long = {c1}
    Big = {c2}
    Push = push
    Nobody = nobody
    Open = open
    NoAnswer = none
    MaxReconcileRounds = 2
    MaxTxRounds = 2
    MaxDisturbances = 2
INVARIANTS TypeOK OwnAnswer WholeAnswer WholeUploads
PROPERTIES SerialService Settles
CHECK_DEADLOCK FALSE
