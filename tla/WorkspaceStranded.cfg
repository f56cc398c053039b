SPECIFICATION WorkspaceSpec
CONSTANTS
    WsServers = {s1, s2}
    WsMaxAttempts = 1
    WsMaxIntents = 1
    WsUsers = {"container"}
    WsFaults = {"crash"}
    NoServer = NoServer
CHECK_DEADLOCK FALSE
INVARIANTS
    NotStranded
