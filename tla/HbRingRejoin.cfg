SPECIFICATION Spec
CONSTANTS
    Drone = {d1, d2, d3}
    NoDrone = NoDrone
    MaxBoot = 2
    MaxRebooted = 2
SYMMETRY Symmetry
INVARIANT RingIsCycle
CHECK_DEADLOCK FALSE
