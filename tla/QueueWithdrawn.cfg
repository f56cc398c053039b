SPECIFICATION Spec
CONSTANTS
    Runs = {r1, r2, r3}
    Steerable = {}
    Steers = {}
    Follows = {f1}
    Procs = {p1, p2}
    Unstartable = {}
    None = None
    MaxPending = 1
    MaxToken = 3
    MaxClaims = 2
    MaxObs = 1
    Faults = {}
SYMMETRY QueueSymmetry
CHECK_DEADLOCK FALSE
PROPERTIES
    WithdrawnStaysOut
