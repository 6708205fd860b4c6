SPECIFICATION Spec
CONSTANTS
    cli = cli
    mcp = mcp
    k1 = k1
    k2 = k2
    v1 = v1
    v2 = v2
    None = None
    Processes = {cli, mcp}
    Servers = {mcp}
    Environments <- Environments2
    Keys = {k1, k2}
    Values = {v1, v2}
    Clouds <- MCClouds
    Batches <- MCBatches
    Edits <- MCEdits
    MaxCommands = 2
    MaxEvents = 1
INVARIANTS TypeOK   LocalWins
CHECK_DEADLOCK FALSE
