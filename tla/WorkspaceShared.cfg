SPECIFICATION WorkspaceSpec
CONSTANTS
    WsServers = {s1, s2}
    WsMaxAttempts = 1
    WsMaxIntents = 1
    WsUsers = {"observe", "container"}
    WsFaults = {}
    NoServer = NoServer
CHECK_DEADLOCK FALSE
INVARIANTS
    OneInstanceDrives
