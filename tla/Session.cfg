SPECIFICATION ScenarioSpec
CONSTANTS
    Runs = {r1, r2}
    Steerable = {r1, r2}
    Steers = {x1, x2}
    Follows = {f1, f2}
    Procs = {p1, p2, p3}
    SteerProcs = {p1}
    SteeredRun = r2
    SharedProcs = {p2, p3}
    Unstartable = {f2}
    None = None
    MaxPending = 2
    MaxToken = 2
    MaxClaims = 2
    MaxObs = 2
    Faults = {"error", "takeover", "refused"}
SYMMETRY ScenarioSymmetry
CHECK_DEADLOCK FALSE
INVARIANTS
    QueueInv
    AppliedIsInHistory
    NoDeadSteer
    ClaimsConsumedOnce
    AloneServes
PROPERTIES
    AloneWithdrawnStaysOut
