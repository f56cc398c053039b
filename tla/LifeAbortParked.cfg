SPECIFICATION FairLifeSpec
CONSTANTS
    Sessions = {s1}
    Runs = {r1}
    Invs = {i1}
    Owners = {p1, p2}
    Gens = {1}
    None = None
    MaxToken = 1
    MaxSteps = 0
    MaxGen = 1
    Reapers = {p2}
    Uses = {"abort", "park"}
    Faults = {}
CHECK_DEADLOCK FALSE
PROPERTIES
    StoppedRunEnds
