SPECIFICATION FairSpec
CONSTANTS
    Node = {a, b}
    Interval = 1
    Warntime = 2
    Deadtime = 3
    MartianTimeout = 1
    MartianPeriod = 3
    MaxEvent = 4
INVARIANTS
    HbTypeOK
    NoFalseDeath
    DeadIsNoticed
    CmaIsTold
PROPERTIES
    MartianIsReported
