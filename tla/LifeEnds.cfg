SPECIFICATION FairLifeSpec
CONSTANTS
    Sessions = {s1}
    Runs = {r1}
    Invs = {i1}
    Owners = {p1, p2}
    Gens = {1}
    None = None
    MaxToken = 2
    MaxSteps = 0
    MaxGen = 1
    Reapers = {p2}
    Uses = {"abort"}
    Faults = {"crash", "partition"}
CHECK_DEADLOCK FALSE
PROPERTIES
    ReservedRunEnds
    EndedRunLeavesView
    AdmittedIsPickedUp
    StoppedRunEnds
