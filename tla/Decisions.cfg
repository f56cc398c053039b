SPECIFICATION MeetingSpec
CONSTANTS
    Servers = {s1, s2}
    Requests = {d1, d2}
    Controls = {k1, k2}
    Calls = {c1, c2}
    None = None
    MaxToken = 2
    CommandWorkers = 1
    Faults = {"crash", "partition", "abort", "timeout", "resultlost", "unsure"}
    MaxFaults = 1
SYMMETRY DecisionsSymmetry
CHECK_DEADLOCK FALSE
INVARIANTS
    DecisionsInv
    ToolRunsAtMostOnce
    AnsweredRunIsCarriedOut
