SPECIFICATION FairQueueSpec
CONSTANTS
    Rsc = {r1, r2}
    MaxId = 2
    MaxReq = 3
    MaxSpawnFail = 1
INVARIANTS
    QueueTypeOK
    OneAtATime
    TimerArmed
    RunningIsCounted
    ReportsStand
PROPERTIES
    ServedInTurn
CHECK_DEADLOCK FALSE
