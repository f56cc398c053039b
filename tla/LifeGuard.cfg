SPECIFICATION ScenarioSpec
CONSTANTS
    Sessions = {s1}
    Runs = {r1, r2}
    OneRun = {r1}
    Invs = {i1, i2}
    OneInv = {i1}
    Owners = {p1, p2, p3, p4}
    PairOwners = {p1, p2}
    PairReaper = {p2}
    ParkOwners = {p3, p4}
    Reapers = {p2, p3, p4}
    Gens = {1}
    None = None
    MaxToken = 3
    MaxSteps = 1
    MaxGen = 1
    Uses = {"abort", "park", "shutdown"}
    Faults = {"crash", "partition", "error"}
SYMMETRY ParkSymmetry
CHECK_DEADLOCK FALSE
INVARIANTS
    LifeInv
PROPERTIES
    LostSparesLiveOwner
