CONSTANTS
    daemon = daemon
    other = other
    d1 = d1
    d2 = d2
    e1 = e1
    Genesis = Genesis
    None = None
    Marker = Marker
    Procs = {daemon, other}
    Events = {d1, d2, e1}
    Kinds <- MCKinds
    Owner <- MCOwner
    QueueCap = 2
    Batch = 1
    MaxKills = 1
SPECIFICATION Spec
INVARIANT
    ChainIntact
