SPECIFICATION Spec
CONSTANTS
    Drone = {d1, d2, d3, d4}
    NoDrone = NoDrone
    MaxBoot = 2
    MaxRebooted = 2
SYMMETRY Symmetry
INVARIANTS
    TypeOK
    RingIsCycleUnlessTorn
    InsertPointsFit
    NeighboursAreTold
    NoOrderIsLeft
    UpIsMemberOrRaised
CHECK_DEADLOCK FALSE
