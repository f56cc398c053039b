SPECIFICATION LifeSpec
CONSTANTS
    Sessions = {s1}
    Runs = {r1}
    Invs = {i1}
    Owners = {p1, p2}
    Reapers = {p2}
    Gens = {1, 2}
    None = None
    MaxToken = 2
    MaxSteps = 1
    MaxGen = 2
    Uses = {"abort", "park", "shutdown"}
    Faults = {"crash", "error", "flush"}
CHECK_DEADLOCK FALSE
INVARIANTS
    LiveOutcomeIsDurable
    AbortIsHonoured
PROPERTIES
    LedgerSteps
