SPECIFICATION ServicesSpec
CONSTANTS
    OutReaders = {c1, c2}
    OutEvents = 2
    OutMaxEvents = 2
    OutFaults = {"append", "unsure", "read", "expire", "crash", "agent"}
    OutMaxFaults = 2
    Watchers = {w1}
    ViewBuffer = 1
    ViewOut = 1
    ViewMaxSeq = 2
    ViewMaxEpoch = 2
    ViewMaxLedger = 1
    ViewFaults = {"lost", "unreadable", "ledger"}
    AgentTasks = {t1, t2, t3}
    ExecTasks = {x1}
    DepTasks = {y1}
    TaskWaiters = {w1}
    NoTask = None
    ChanOps = {t1, t2, t3}
    ChanMaxVer = 5
    ChanFaults = {"connect", "stop", "list"}
    NoConn = None
    Leasers = {c1, c2}
    Drainers = {d1, d2}
    Prints = {k1, k2}
    MaxGens = 2
    WsServers = {s1, s2}
    WsMaxAttempts = 2
    WsMaxIntents = 2
    WsUsers = {"cancel", "container"}
    WsFaults = {"crash"}
    NoServer = None
VIEW ServicesView
CHECK_DEADLOCK FALSE
INVARIANTS
    OutputInv
    CleanMeansComplete
    ViewInv
    ViewCatchesUp
    TaskInv
    MessagesAreServed
    ConnectionInv
    LastOperationSettles
    ProcessInv
    OneInstanceDrives
    WorkspaceInv
PROPERTIES
    TaskEndsOnce
    LeasedIsKept
    IntentIsCurrent
