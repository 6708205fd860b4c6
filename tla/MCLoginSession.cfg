\* Two goroutines of the proxy and the commands of two users.
SPECIFICATION Spec
CONSTANTS
    proxy = proxy
    cli = cli
    t1 = t1
    t2 = t2
    c = c
    u1 = u1
    u2 = u2
    None = None
    Processes = {proxy, cli}
    Commands = {cli}
    Threads = {t1, t2, c}
    Owner <- MCOwner
    Users = {u1, u2}
    MaxTokens = 3
    MaxJobs = 3
    MaxFaults = 1
INVARIANTS TypeOK NobodyWaitsForEver  
SYMMETRY Symmetric
CHECK_DEADLOCK FALSE
