SPECIFICATION LedgersSpec
CONSTANTS
    Sessions = {s1}
    Runs = {r1, r2}
    Invs = {i1, i2}
    Owners = {p1}
    Gens = {g1, g2}
    None = None
    MaxToken = 3
    MaxSteps = 2
    Resets = {x3, x4}
    ResetScopes = {s1, "bot"}
    ResetGens = {g1}
    ResetSteps = 1
SYMMETRY LedgerSymmetry
CHECK_DEADLOCK FALSE
INVARIANTS
    LedgerInv
    ActiveRunIsNewestTurn
    HistoryInTurnOrder
    ProposalDecides
    ResetInv
    ClearedIsForgotten
PROPERTIES
    OwnershipAdvances
    ImplementsRunOutcome
